------------------------ MODULE ConnectionHost_proofs ------------------------
(***************************************************************************)
(* For any number of names, requests, drivers and query ids: the types and *)
(* a completion source behind every connected name.  For clients that use  *)
(* an id once at a time: a cancel is told as an error only if it came in   *)
(* the middle of the poll that took the answer, and `running` is what is   *)
(* in flight and what hang-ups left.                                       *)
(***************************************************************************)
EXTENDS ConnectionHost, TLAPS

(* A request that waits, is opened, leaves, is signalled or is hit remains a *)
(* request, and its fields are what they are declared to be.                *)
LEMMA IdleType == Idle \in Request
  BY DEF Idle, Request, PCs, Permits

LEMMA FieldTypes ==
  ASSUME NEW r \in Request
  PROVE  /\ r.pc \in PCs
         /\ r.name \in Names \cup {None}
         /\ r.driver \in Drivers \cup {None}
         /\ r.id \in QueryIds \cup {None}
         /\ r.stmt \in Stmts \cup {None}
         /\ r.out \in Outcomes \cup {None}
         /\ r.permit \in Permits
         /\ r.hit \in QueryIds \cup {None}
  BY DEF Request

LEMMA HoldingType ==
  ASSUME TypeOK, NEW n \in Names, NEW pc \in PCs
  PROVE  Holding(pc, n) \in Request
  BY DEF TypeOK, Holding, Idle, Request, Permits

LEMMA ExecutingType ==
  ASSUME TypeOK, NEW n \in Names, NEW q \in QueryIds \cup {None}, NEW stmt \in Stmts
  PROVE  [Holding("executing", n) EXCEPT !.id = q, !.stmt = stmt] \in Request
  BY DEF TypeOK, Holding, Idle, Request, PCs, Permits

LEMMA OpeningType ==
  ASSUME NEW n \in Names
  PROVE  [Idle EXCEPT !.pc = "opening", !.name = n] \in Request
  BY DEF Idle, Request, PCs, Permits

LEMMA OpenedType ==
  ASSUME NEW r \in Request, NEW d \in Drivers
  PROVE  [r EXCEPT !.pc = "loading", !.driver = d] \in Request
  BY DEF Request, PCs

LEMMA LeavingType ==
  ASSUME NEW r \in Request, NEW out \in Outcomes
  PROVE  [r EXCEPT !.pc = "leaving", !.out = out] \in Request
  BY DEF Request, PCs

LEMMA ListingType ==
  ASSUME NEW r \in Request
  PROVE  [Idle EXCEPT !.pc = "listing", !.name = r.name, !.driver = r.driver] \in Request
  BY DEF Idle, Request, PCs, Permits

LEMMA ReturnedType ==
  ASSUME NEW r \in Request
  PROVE  [Idle EXCEPT !.pc = "answering", !.name = r.name] \in Request
  BY DEF Idle, Request, PCs, Permits

LEMMA PolledType ==
  ASSUME NEW r \in Request
  PROVE  /\ [r EXCEPT !.pc = "polling"] \in Request
         /\ [r EXCEPT !.pc = "executing", !.permit = IF @ = "missed" THEN "stored" ELSE @]
              \in Request
  BY DEF Request, PCs, Permits

LEMMA CancellingType ==
  ASSUME NEW e \in Entry, NEW q \in QueryIds
  PROVE  [Idle EXCEPT !.pc = "cancelling", !.driver = e.driver, !.id = q] \in Request
  BY DEF Idle, Request, Entry, PCs, Permits

(* What the same records say of their fields.                               *)
LEMMA HoldingFields ==
  ASSUME NEW n, NEW pc
  PROVE  LET r == Holding(pc, n)
         IN  r.pc = pc /\ r.driver = drivers[n] /\ r.id = None /\ r.out = None
  BY DEF Holding, Idle

LEMMA ExecutingFields ==
  ASSUME NEW n, NEW q, NEW stmt
  PROVE  LET r == [Holding("executing", n) EXCEPT !.id = q, !.stmt = stmt]
         IN  /\ r.pc = "executing" /\ r.driver = drivers[n] /\ r.id = q
             /\ r.out = None /\ r.permit = "none" /\ r.hit = None
  BY DEF Holding, Idle

LEMMA IdleFields == Idle.pc = "idle" /\ Idle.id = None /\ Idle.out = None
  BY DEF Idle

LEMMA OpeningFields ==
  ASSUME NEW n
  PROVE  LET r == [Idle EXCEPT !.pc = "opening", !.name = n]
         IN  r.pc = "opening" /\ r.driver = None /\ r.out = None
  BY DEF Idle

LEMMA OpenedFields ==
  ASSUME NEW r \in Request, NEW d
  PROVE  LET s == [r EXCEPT !.pc = "loading", !.driver = d]
         IN  s.pc = "loading" /\ s.driver = d /\ s.out = r.out
  BY DEF Request

LEMMA LeavingFields ==
  ASSUME NEW r \in Request, NEW out
  PROVE  LET s == [r EXCEPT !.pc = "leaving", !.out = out]
         IN  /\ s.pc = "leaving" /\ s.driver = r.driver /\ s.id = r.id /\ s.out = out
             /\ s.permit = r.permit /\ s.hit = r.hit
  BY DEF Request

LEMMA PolledFields ==
  ASSUME NEW r \in Request
  PROVE  /\ LET s == [r EXCEPT !.pc = "polling"]
            IN  /\ s.pc = "polling" /\ s.driver = r.driver /\ s.id = r.id /\ s.out = r.out
                /\ s.permit = r.permit /\ s.hit = r.hit
         /\ LET s == [r EXCEPT !.pc = "executing",
                               !.permit = IF @ = "missed" THEN "stored" ELSE @]
            IN  /\ s.pc = "executing" /\ s.driver = r.driver /\ s.id = r.id /\ s.out = r.out
                /\ s.permit = (IF r.permit = "missed" THEN "stored" ELSE r.permit)
                /\ s.hit = r.hit
  BY DEF Request

(* What the two actions that begin and end a poll in vain do to the request. *)
LEMMA PollKeeps ==
  ASSUME task \in [Tasks -> Request], NEW t \in Tasks, CancelPending(t) \/ DriverPending(t)
  PROVE  /\ running' = running
         /\ \A u \in Tasks \ {t} : task'[u] = task[u]
         /\ task'[t].driver = task[t].driver /\ task'[t].id = task[t].id
         /\ task'[t].out = task[t].out /\ task'[t].hit = task[t].hit
         /\ \/ /\ task[t].pc = "executing" /\ task[t].permit = "none"
               /\ task'[t].pc = "polling" /\ task'[t].permit = "none"
            \/ /\ task[t].pc = "polling" /\ task'[t].pc = "executing"
               /\ task'[t].permit = (IF task[t].permit = "missed" THEN "stored" ELSE task[t].permit)
<1>1. CASE CancelPending(t)
  <2>1. task' = [task EXCEPT ![t] = [task[t] EXCEPT !.pc = "polling"]]
    BY <1>1 DEF CancelPending, Await
  <2>2. task'[t] = [task[t] EXCEPT !.pc = "polling"]
    BY <2>1
  <2>3. running' = running /\ task[t].pc = "executing" /\ task[t].permit = "none"
    BY <1>1 DEF CancelPending
  <2> QED
    BY <2>1, <2>2, <2>3, PolledFields
<1>2. CASE DriverPending(t)
  <2>1. task' = [task EXCEPT ![t] = [task[t] EXCEPT !.pc = "executing",
                                       !.permit = IF @ = "missed" THEN "stored" ELSE @]]
    BY <1>2 DEF DriverPending, Await
  <2>2. task'[t] = [task[t] EXCEPT !.pc = "executing",
                                   !.permit = IF @ = "missed" THEN "stored" ELSE @]
    BY <2>1
  <2>3. running' = running /\ task[t].pc = "polling"
    BY <1>2 DEF DriverPending
  <2> QED
    BY <2>1, <2>2, <2>3, PolledFields
<1> QED
  BY <1>1, <1>2

LEMMA ListingFields ==
  ASSUME NEW n, NEW d
  PROVE  LET r == [Idle EXCEPT !.pc = "listing", !.name = n, !.driver = d]
         IN  r.pc = "listing" /\ r.driver = d /\ r.out = None
  BY DEF Idle

LEMMA ReturnedFields ==
  ASSUME NEW n
  PROVE  LET r == [Idle EXCEPT !.pc = "answering", !.name = n]
         IN  r.pc = "answering" /\ r.driver = None /\ r.id = None /\ r.out = None
  BY DEF Idle

LEMMA CancellingFields ==
  ASSUME NEW d, NEW q
  PROVE  LET r == [Idle EXCEPT !.pc = "cancelling", !.driver = d, !.id = q]
         IN  r.pc = "cancelling" /\ r.driver = d /\ r.id = q /\ r.out = None
  BY DEF Idle

(* A request that is signalled or hit remains what it was otherwise, and a  *)
(* signal leaves a permit of the kind its place calls for.                  *)
LEMMA SignalledIs ==
  ASSUME NEW r \in Request
  PROVE  LET s == Signalled(r)
         IN  /\ s \in Request
             /\ s.pc = r.pc /\ s.driver = r.driver /\ s.id = r.id /\ s.out = r.out
             /\ s.hit = r.hit
             /\ s.permit # "none"
             /\ r.permit # "none" => s.permit = r.permit
             /\ r.permit = "none" => (s.permit = "missed" <=> r.pc = "polling")
  BY DEF Request, Signalled, Permits

LEMMA HitIs ==
  ASSUME NEW r \in Request, NEW q \in QueryIds \cup {None}
  PROVE  LET s == [r EXCEPT !.hit = q]
         IN  /\ s \in Request
             /\ s.pc = r.pc /\ s.driver = r.driver /\ s.id = r.id /\ s.out = r.out
             /\ s.permit = r.permit /\ s.hit = q
  BY DEF Request

LEMMA EntryTypes ==
  /\ NoEntry \in Entry
  /\ \A t \in Tasks, d \in Drivers \cup {None} : [task |-> t, driver |-> d] \in Entry
  /\ \A e \in Entry : [e EXCEPT !.task = None] \in Entry
  BY DEF NoEntry, Entry

-----------------------------------------------------------------------------
LEMMA InitTypeOK == Init => TypeOK
  BY HostAssumption, IdleType, EntryTypes DEF Init, TypeOK

(* Every step of a request keeps the types.                                 *)
LEMMA StepTypeOK ==
  ASSUME TypeOK, NEW t \in Tasks, Step(t)
  PROVE  TypeOK'
<1> USE HostAssumption, IdleType DEF TypeOK, Await, Reply, Touch
<1>0. task[t] \in Request
  OBVIOUS
<1>1. ASSUME NEW n \in Names, Connect(t, n) \/ Schema(t, n) \/ Snippet(t, n) \/ Status(t, n)
      PROVE  TypeOK'
  <2>1. /\ Holding("listing", n) \in Request
        /\ Holding("reading", n) \in Request
        /\ Holding("pinging", n) \in Request
        /\ [Idle EXCEPT !.pc = "opening", !.name = n] \in Request
    BY HoldingType, OpeningType DEF PCs
  <2> QED
    BY <1>1, <2>1 DEF Connect, Schema, Snippet, Status
<1>2. ASSUME NEW n \in Names, NEW q \in QueryIds \cup {None}, NEW stmt \in Stmts,
             Execute(t, n, q, stmt)
      PROVE  TypeOK'
  BY <1>2, ExecutingType, EntryTypes DEF Execute, Register
<1>3. ASSUME NEW q \in QueryIds, Cancel(t, q)
      PROVE  TypeOK'
  <2>1. \A u \in Tasks : Signalled(task[u]) \in Request
    BY SignalledIs
  <2> QED
    BY <1>3, <2>1, CancellingType DEF Cancel
<1>4. CASE Opened(t)
  <2>1. PICK d \in Drivers : /\ Await(t, [task[t] EXCEPT !.pc = "loading", !.driver = d])
                             /\ inTx' = [inTx EXCEPT ![d] = FALSE]
    BY <1>4 DEF Opened
  <2>2. [task[t] EXCEPT !.pc = "loading", !.driver = d] \in Request
    BY <1>0, OpenedType
  <2> QED
    BY <1>4, <2>1, <2>2 DEF Opened
<1>r. [Idle EXCEPT !.pc = "answering", !.name = task[t].name] \in Request
  BY <1>0, ReturnedType
<1>5. CASE OpenFailed(t) \/ Connected(t) \/ Answered(t)
  BY <1>0, <1>5, <1>r, FieldTypes DEF OpenFailed, Connected, Answered, Return
<1>6. CASE CancelSeen(t)
  BY <1>0, <1>6, LeavingType DEF CancelSeen, Outcomes
<1>12. CASE CancelPending(t) \/ DriverPending(t)
  <2>1. PICK r \in Request : task' = [task EXCEPT ![t] = r]
    <3>1. CASE CancelPending(t)
      BY <1>0, <3>1, PolledType DEF CancelPending
    <3>2. CASE DriverPending(t)
      <4>1. task' = [task EXCEPT ![t] = [task[t] EXCEPT !.pc = "executing",
                                           !.permit = IF @ = "missed" THEN "stored" ELSE @]]
        BY <3>2 DEF DriverPending
      <4> QED
        BY <1>0, <4>1, PolledType
    <3> QED
      BY <1>12, <3>1, <3>2
  <2> QED
    BY <1>12, <2>1 DEF CancelPending, DriverPending
<1>7. CASE DriverAnswered(t)
  <2>1. PICK out \in Outcomes : /\ inTx' = TransactionAfter(t, out)
                                /\ Await(t, [task[t] EXCEPT !.pc = "leaving", !.out = out])
    BY <1>7 DEF DriverAnswered, Outcomes
  <2>2. inTx' \in [Drivers -> BOOLEAN]
    BY <2>1 DEF TransactionAfter
  <2> QED
    BY <1>0, <1>7, <2>1, <2>2, LeavingType DEF DriverAnswered
<1>8. CASE Unregister(t)
  <2>1. [Idle EXCEPT !.pc = "listing", !.name = task[t].name, !.driver = task[t].driver]
          \in Request
    BY <1>0, ListingType
  <2>2. running' \in [QueryIds -> Entry]
    BY <1>8, EntryTypes DEF Unregister
  <2> QED
    BY <1>8, <1>r, <2>1, <2>2 DEF Unregister, Return
<1>9. CASE Listed(t) \/ SnippetRead(t) \/ Ponged(t)
  BY <1>0, <1>9, <1>r, FieldTypes DEF Listed, SnippetRead, Ponged, Return
<1>10. CASE Interrupt(t)
  <2>1. \A u \in Tasks : [task[u] EXCEPT !.hit = task[t].id] \in Request
    BY <1>0, FieldTypes, HitIs
  <2> QED
    BY <1>10, <2>1 DEF Interrupt
<1>11. CASE HangUp(t)
  BY <1>11, EntryTypes DEF HangUp
<1> QED
  BY <1>1, <1>2, <1>3, <1>4, <1>5, <1>6, <1>7, <1>8, <1>9, <1>10, <1>11, <1>12 DEF Step

(* Every step of the host keeps the types.                                  *)
LEMMA NextTypeOK == TypeOK /\ [Next]_vars => TypeOK'
<1> SUFFICES ASSUME TypeOK, [Next]_vars
             PROVE  TypeOK'
  OBVIOUS
<1>1. CASE UNCHANGED vars
  BY <1>1 DEF TypeOK, vars
<1>2. ASSUME NEW n \in Names, AnswerAtOnce(n) \/ Disconnect(n) \/ Elapse(n)
      PROVE  TypeOK'
  BY <1>2 DEF TypeOK, AnswerAtOnce, Disconnect, Elapse, Touch
<1>3. CASE ReapIdle
  BY <1>3 DEF TypeOK, ReapIdle
<1> QED
  BY <1>1, <1>2, <1>3, StepTypeOK DEF Next

(* The types hold in every reachable state.                                 *)
THEOREM TypeCorrect == Spec => []TypeOK
  BY InitTypeOK, NextTypeOK, PTL DEF Spec

-----------------------------------------------------------------------------
(* A request that will store its driver under its name has one.             *)
HasDriver ==
    \A t \in Tasks : task[t].pc \in {"loading", "executing", "polling", "leaving", "listing"} =>
        task[t].driver \in Drivers

HostInv == TypeOK /\ HasDriver /\ ConnectedCanComplete

LEMMA InitHostInv == Init => HostInv
<1> SUFFICES ASSUME Init PROVE HostInv
  OBVIOUS
<1>1. TypeOK
  BY InitTypeOK
<1>2. HasDriver /\ ConnectedCanComplete
  BY HostAssumption DEF Init, HasDriver, ConnectedCanComplete, Idle
<1> QED
  BY <1>1, <1>2 DEF HostInv

LEMMA StepHasDriver == HostInv /\ [Next]_vars => HasDriver'
<1> SUFFICES ASSUME HostInv, [Next]_vars
             PROVE  HasDriver'
  OBVIOUS
<1> USE HostAssumption DEF Await, Reply
<1>0. /\ task \in [Tasks -> Request]
      /\ drivers \in [Names -> Drivers \cup {None}]
      /\ HasDriver
  BY DEF HostInv, TypeOK
<1>2. ASSUME NEW t \in Tasks, Step(t)
      PROVE  HasDriver'
  <2>1. ASSUME NEW n \in Names, Connect(t, n)
        PROVE  HasDriver'
    BY <1>0, <2>1, OpeningFields DEF Connect, HasDriver
  <2>2. ASSUME NEW n \in Names, Schema(t, n) \/ Snippet(t, n) \/ Status(t, n)
        PROVE  HasDriver'
    <3>1. PICK pc \in PCs : task' = [task EXCEPT ![t] = Holding(pc, n)]
      BY <2>2 DEF Schema, Snippet, Status, PCs
    <3>2. drivers[n] \in Drivers
      BY <1>0, <2>2 DEF Schema, Snippet, Status
    <3> QED
      BY <1>0, <3>1, <3>2, HoldingFields DEF HasDriver
  <2>3. ASSUME NEW n \in Names, NEW q \in QueryIds \cup {None}, NEW stmt \in Stmts,
               Execute(t, n, q, stmt)
        PROVE  HasDriver'
    BY <1>0, <2>3, ExecutingFields DEF Execute, HasDriver
  <2>4. ASSUME NEW q \in QueryIds, Cancel(t, q)
        PROVE  HasDriver'
    <3>1. [Idle EXCEPT !.pc = "cancelling", !.driver = running[q].driver, !.id = q].pc
            = "cancelling"
      BY DEF Idle
    <3>2. \A u \in Tasks : /\ Signalled(task[u]).pc = task[u].pc
                           /\ Signalled(task[u]).driver = task[u].driver
      BY <1>0, SignalledIs
    <3> QED
      BY <1>0, <2>4, <3>1, <3>2 DEF Cancel, HasDriver
  <2>5. CASE Opened(t)
    <3>1. PICK d \in Drivers :
            task' = [task EXCEPT ![t] = [task[t] EXCEPT !.pc = "loading", !.driver = d]]
      BY <2>5 DEF Opened
    <3> QED
      BY <1>0, <3>1, OpenedFields DEF HasDriver
  <2>6. CASE CancelSeen(t) \/ DriverAnswered(t)
    <3>1. PICK out : task' = [task EXCEPT ![t] = [task[t] EXCEPT !.pc = "leaving", !.out = out]]
      BY <2>6 DEF CancelSeen, DriverAnswered
    <3>2. task[t].pc \in {"executing", "polling"}
      BY <2>6 DEF CancelSeen, DriverAnswered
    <3> QED
      BY <1>0, <3>1, <3>2, LeavingFields DEF HasDriver
  <2>10. CASE CancelPending(t) \/ DriverPending(t)
    <3>1. task[t].pc \in {"executing", "polling"}
      BY <2>10 DEF CancelPending, DriverPending
    <3>2. task'[t].driver = task[t].driver /\ \A u \in Tasks \ {t} : task'[u] = task[u]
      BY <1>0, <2>10, PollKeeps
    <3> QED
      BY <1>0, <3>1, <3>2 DEF HasDriver
  <2>7. CASE Unregister(t)
    <3>1. /\ task[t].pc = "leaving"
          /\ \/ Return(t)
             \/ task' = [task EXCEPT ![t] = [Idle EXCEPT !.pc = "listing", !.name = task[t].name,
                                                        !.driver = task[t].driver]]
      BY <2>7 DEF Unregister
    <3>2. CASE Return(t)
      BY <1>0, <3>2, ReturnedFields DEF HasDriver, Return
    <3>3. CASE task' = [task EXCEPT ![t] = [Idle EXCEPT !.pc = "listing", !.name = task[t].name,
                                                      !.driver = task[t].driver]]
      <4>1. task'[t].driver = task[t].driver
        BY <1>0, <3>3, ListingFields
      <4> QED
        BY <1>0, <3>1, <3>3, <4>1 DEF HasDriver
    <3> QED
      BY <3>1, <3>2, <3>3
  <2>8. CASE Return(t) \/ Reply(t)
    <3>1. CASE Return(t)
      BY <1>0, <3>1, ReturnedFields DEF HasDriver, Return
    <3>2. CASE Reply(t)
      <4>1. task'[t].pc = "idle" /\ \A u \in Tasks \ {t} : task'[u] = task[u]
        BY <1>0, <3>2, IdleFields
      <4> QED
        BY <1>0, <4>1 DEF HasDriver
    <3> QED
      BY <2>8, <3>1, <3>2
  <2>9. CASE Interrupt(t)
    <3>1. \A u \in Tasks : /\ [task[u] EXCEPT !.hit = task[t].id].pc = task[u].pc
                           /\ [task[u] EXCEPT !.hit = task[t].id].driver = task[u].driver
      BY <1>0 DEF Request
    <3> QED
      BY <1>0, <2>9, <3>1, IdleFields DEF Interrupt, HasDriver
  <2> QED
    BY <1>2, <2>1, <2>2, <2>3, <2>4, <2>5, <2>6, <2>7, <2>8, <2>9, <2>10
       DEF Step, OpenFailed, Connected, Answered, Listed, SnippetRead, Ponged, HangUp
<1>3. CASE UNCHANGED task
  BY <1>0, <1>3 DEF HasDriver
<1> QED
  BY <1>2, <1>3 DEF Next, vars, AnswerAtOnce, Disconnect, Elapse, ReapIdle

(* Only `connect` gives a name a driver, and with it a source; only         *)
(* `disconnect` and the reaper take a source away, and with it the driver.  *)
LEMMA StepCanComplete == HostInv /\ [Next]_vars => ConnectedCanComplete'
<1> SUFFICES ASSUME HostInv, [Next]_vars
             PROVE  ConnectedCanComplete'
  OBVIOUS
<1> USE HostAssumption DEF HostInv, ConnectedCanComplete
<1>0. /\ drivers \in [Names -> Drivers \cup {None}]
      /\ completions \in [Names -> Drivers \cup {None}]
  BY DEF TypeOK
<1>1. ASSUME NEW t \in Tasks, Connected(t) \/ Listed(t)
      PROVE  ConnectedCanComplete'
  BY <1>0, <1>1 DEF Connected, Listed, HasDriver
<1>2. CASE UNCHANGED <<drivers, completions>>
  BY <1>2
<1>3. ASSUME NEW n \in Names, Disconnect(n)
      PROVE  ConnectedCanComplete'
  BY <1>0, <1>3 DEF Disconnect
<1>4. CASE ReapIdle
  BY <1>0, <1>4 DEF ReapIdle
<1> QED
  BY <1>1, <1>2, <1>3, <1>4
     DEF Next, Step, vars, AnswerAtOnce, Elapse, Connect, Schema, Snippet, Status, Execute, Cancel,
         Opened, OpenFailed, Answered, CancelSeen, CancelPending, DriverAnswered, DriverPending,
         Unregister, SnippetRead, Ponged, Interrupt, HangUp

LEMMA StepHostInv == HostInv /\ [Next]_vars => HostInv'
  BY NextTypeOK, StepHasDriver, StepCanComplete DEF HostInv

(* The invariant holds in every reachable state.                            *)
THEOREM HostHolds == Spec => []HostInv
  BY InitHostInv, StepHostInv, PTL DEF Spec

(* A connected name can always be completed against (`complete`,            *)
(* `keywords`), whatever connects, disconnects, reaps and hang-ups overlap. *)
THEOREM ConnectedNamesComplete == Spec => []ConnectedCanComplete
<1>1. HostInv => ConnectedCanComplete
  BY DEF HostInv
<1> QED
  BY HostHolds, <1>1, PTL

-----------------------------------------------------------------------------
(* Executes, their entries in `running` and their cancels, where no client  *)
(* reuses the id of a request in flight.  An execute sent with an id owns   *)
(* the entry of that id; an entry that names a task names an execute.  A    *)
(* cancel on its way to the driver was preceded by the permit of the execute *)
(* it is for, so that one hit by its own cancel has its permit; a permit     *)
(* that was there when the select looked ended the wait, so the one an       *)
(* execute takes into its driver's poll came after.                         *)
ExecutesAreNamed ==
    \A t \in Tasks : InFlight(t) /\ task[t].id # None =>
        running[task[t].id].task = t /\ running[task[t].id].driver = task[t].driver

EntriesAreExecutes ==
    \A q \in QueryIds, t \in Tasks : running[q].task = t => InFlight(t) /\ task[t].id = q

Selects(t) == task[t].pc \in {"executing", "polling"}

CancelsFollowTheirPermit ==
    \A t, u \in Tasks :
        task[t].pc = "cancelling" =>
            /\ task[t].id # None
            /\ Selects(u) /\ task[u].id = task[t].id => task[u].permit # "none"

OwnHitHasPermit ==
    \A t \in Tasks : Selects(t) /\ task[t].hit # None /\ task[t].hit = task[t].id
        => task[t].permit # "none"

PermitsByPlace ==
    \A t \in Tasks : /\ task[t].pc = "executing" => task[t].permit # "missed"
                     /\ task[t].pc = "polling" => task[t].permit # "stored"

OutcomesComeLast == \A t \in Tasks : task[t].out # None => task[t].pc = "leaving"

RequestInv ==
    /\ TypeOK
    /\ ExecutesAreNamed
    /\ EntriesAreExecutes
    /\ CancelsFollowTheirPermit
    /\ OwnHitHasPermit
    /\ PermitsByPlace
    /\ OutcomesComeLast
    /\ CancelsTellUnlessMidPoll

LEMMA InitRequestInv == Init => RequestInv
<1> SUFFICES ASSUME Init PROVE RequestInv
  OBVIOUS
<1>1. TypeOK
  BY InitTypeOK
<1>2. /\ \A t \in Tasks : task[t].pc = "idle" /\ task[t].out = None
      /\ \A q \in QueryIds : running[q].task = None
  BY DEF Init, Idle, NoEntry
<1> QED
  BY <1>1, <1>2, HostAssumption
     DEF Outcomes, RequestInv, InFlight, Selects, ExecutesAreNamed, EntriesAreExecutes,
         CancelsFollowTheirPermit, OwnHitHasPermit, PermitsByPlace, OutcomesComeLast,
         CancelsTellUnlessMidPoll

(* The steps of a request that is neither an execute nor a cancel: it        *)
(* becomes neither, and nothing is said of any other.                       *)
Aside(t) ==
    \/ \E n \in Names : Connect(t, n) \/ Schema(t, n) \/ Snippet(t, n) \/ Status(t, n)
    \/ Opened(t) \/ OpenFailed(t) \/ Connected(t) \/ Answered(t)
    \/ Listed(t) \/ SnippetRead(t) \/ Ponged(t)

Bystanders == PCs \ {"executing", "polling", "leaving", "cancelling"}

LEMMA AsideFields ==
  ASSUME RequestInv, NEW t \in Tasks, Aside(t)
  PROVE  /\ task[t].pc \in Bystanders
         /\ task'[t].pc \in Bystanders
         /\ task'[t].out = None
         /\ \A u \in Tasks \ {t} : task'[u] = task[u]
         /\ running' = running
<1> USE DEF Await, Reply, Return, Bystanders, PCs
<1>0. task \in [Tasks -> Request] /\ task[t] \in Request
  BY DEF RequestInv, TypeOK
<1>1. ASSUME NEW n \in Names, Connect(t, n)
      PROVE  task'[t].pc = "opening" /\ task'[t].out = None /\ task[t].pc = "idle"
  BY <1>0, <1>1, OpeningFields DEF Connect
<1>2. ASSUME NEW n \in Names, Schema(t, n) \/ Snippet(t, n) \/ Status(t, n)
      PROVE  /\ task'[t].pc \in {"listing", "reading", "pinging"} /\ task'[t].out = None
             /\ task[t].pc = "idle"
  BY <1>0, <1>2, HoldingFields DEF Schema, Snippet, Status
<1>3. CASE Opened(t)
  <2>1. PICK d \in Drivers :
          task' = [task EXCEPT ![t] = [task[t] EXCEPT !.pc = "loading", !.driver = d]]
    BY <1>3 DEF Opened
  <2>2. task'[t].pc = "loading" /\ task'[t].out = task[t].out
    BY <1>0, <2>1, OpenedFields
  <2>3. task[t].pc = "opening" /\ task[t].out = None
    BY <1>3 DEF Opened, RequestInv, OutcomesComeLast
  <2> QED
    BY <1>0, <1>3, <2>1, <2>2, <2>3 DEF Opened
<1>4. CASE OpenFailed(t) \/ Connected(t) \/ Listed(t) \/ SnippetRead(t)
  <2>1. task' = [task EXCEPT ![t] = [Idle EXCEPT !.pc = "answering", !.name = task[t].name]]
    BY <1>4 DEF OpenFailed, Connected, Listed, SnippetRead
  <2>2. task'[t].pc = "answering" /\ task'[t].out = None
    BY <1>0, <2>1, ReturnedFields
  <2>3. running' = running /\ task[t].pc \in {"opening", "loading", "listing", "reading"}
    BY <1>4 DEF OpenFailed, Connected, Listed, SnippetRead
  <2> QED
    BY <1>0, <2>1, <2>2, <2>3
<1>5. CASE Answered(t) \/ Ponged(t)
  BY <1>0, <1>5, IdleFields DEF Answered, Ponged
<1>6. ASSUME NEW n \in Names, Connect(t, n) \/ Schema(t, n) \/ Snippet(t, n) \/ Status(t, n)
      PROVE  running' = running /\ \A u \in Tasks \ {t} : task'[u] = task[u]
  BY <1>0, <1>6 DEF Connect, Schema, Snippet, Status
<1> QED
  BY <1>1, <1>2, <1>3, <1>4, <1>5, <1>6 DEF Aside

(* Every step of a request keeps executes, entries and cancels together.    *)
LEMMA StepRequestInv ==
  ASSUME UniqueIds, RequestInv, NEW t \in Tasks, Step(t)
  PROVE  RequestInv'
<1> USE HostAssumption DEF Outcomes
<1>0. /\ task \in [Tasks -> Request] /\ task[t] \in Request
      /\ running \in [QueryIds -> Entry]
      /\ \A u \in Tasks : task[u].id \in QueryIds \cup {None}
  BY FieldTypes DEF RequestInv, TypeOK
<1>t. TypeOK'
  BY StepTypeOK DEF RequestInv
<1> DEFINE Parts == /\ ExecutesAreNamed /\ EntriesAreExecutes /\ CancelsFollowTheirPermit
                    /\ OwnHitHasPermit /\ PermitsByPlace /\ OutcomesComeLast
                    /\ CancelsTellUnlessMidPoll
<1>p. Parts
  BY DEF RequestInv
<1> SUFFICES Parts'
  BY <1>t DEF RequestInv
<1> USE DEF InFlight, Selects, ExecutesAreNamed, EntriesAreExecutes, CancelsFollowTheirPermit,
            OwnHitHasPermit, PermitsByPlace, OutcomesComeLast, CancelsTellUnlessMidPoll
<1>1. CASE Aside(t)
  BY <1>0, <1>1, <1>p, AsideFields DEF Bystanders
<1>2. ASSUME NEW n \in Names, NEW q \in QueryIds \cup {None}, NEW stmt \in Stmts,
             Execute(t, n, q, stmt)
      PROVE  Parts'
  <2>1. /\ task[t].pc = "idle"
        /\ q # None => \A u \in Tasks : task[u].id # q
        /\ \A u \in Tasks \ {t} : task'[u] = task[u]
        /\ running' = IF q = None THEN running
                      ELSE [running EXCEPT ![q] = [task |-> t, driver |-> drivers[n]]]
    BY <1>0, <1>2 DEF Execute, NewId, Register, Await
  <2>2. /\ task'[t].pc = "executing" /\ task'[t].driver = drivers[n] /\ task'[t].id = q
        /\ task'[t].out = None /\ task'[t].permit = "none" /\ task'[t].hit = None
    <3>1. task'[t] = [Holding("executing", n) EXCEPT !.id = q, !.stmt = stmt]
      BY <1>0, <1>2 DEF Execute, Await
    <3> QED
      BY <3>1, ExecutingFields
  <2> HIDE DEF Parts
  <2>3. ExecutesAreNamed'
    BY <1>0, <1>p, <2>1, <2>2 DEF Parts
  <2>4. EntriesAreExecutes'
    BY <1>0, <1>p, <2>1, <2>2 DEF Parts
  <2>5. CancelsFollowTheirPermit'
    BY <1>0, <1>p, <2>1, <2>2 DEF Parts
  <2>6. (OwnHitHasPermit /\ PermitsByPlace /\ OutcomesComeLast /\ CancelsTellUnlessMidPoll)'
    BY <1>0, <1>p, <2>1, <2>2 DEF Parts
  <2> QED
    BY <2>3, <2>4, <2>5, <2>6 DEF Parts
<1>3. ASSUME NEW q \in QueryIds, Cancel(t, q)
      PROVE  Parts'
  <2>1. /\ task[t].pc = "idle" /\ running' = running
        /\ task'[t].pc = "cancelling" /\ task'[t].id = q /\ task'[t].out = None
    <3>1. task'[t] = [Idle EXCEPT !.pc = "cancelling", !.driver = running[q].driver, !.id = q]
      BY <1>0, <1>3 DEF Cancel
    <3>2. task'[t].pc = "cancelling" /\ task'[t].id = q /\ task'[t].out = None
      BY <3>1, CancellingFields
    <3> QED
      BY <1>3, <3>2 DEF Cancel
  <2>2. \A u \in Tasks \ {t} :
          /\ task'[u].pc = task[u].pc /\ task'[u].driver = task[u].driver
          /\ task'[u].id = task[u].id /\ task'[u].out = task[u].out
          /\ task'[u].hit = task[u].hit
          /\ u = running[q].task => task'[u].permit # "none"
          /\ task[u].permit # "none" => task'[u].permit = task[u].permit
          /\ task[u].permit = "none" => \/ task'[u].permit = "none"
                                        \/ task'[u].permit = "missed" /\ task[u].pc = "polling"
                                        \/ task'[u].permit = "stored" /\ task[u].pc # "polling"
    <3>1. ASSUME NEW u \in Tasks \ {t}, u = running[q].task
          PROVE  task'[u] = Signalled(task[u])
      BY <1>0, <1>3, <3>1 DEF Cancel
    <3>2. ASSUME NEW u \in Tasks \ {t}, u # running[q].task
          PROVE  task'[u] = task[u]
      BY <1>0, <1>3, <3>2 DEF Cancel
    <3>3. \A u \in Tasks : Signalled(task[u]).permit \in Permits
      BY <1>0, SignalledIs, FieldTypes
    <3> QED
      BY <1>0, <3>1, <3>2, <3>3, SignalledIs DEF Permits
  <2>3. \A u \in Tasks : Selects(u) /\ task[u].id = q => running[q].task = u
    BY <1>p
  <2> QED
    BY <1>0, <1>p, <2>1, <2>2, <2>3
<1>4. CASE CancelSeen(t) \/ DriverAnswered(t)
  <2>1. /\ Selects(t) /\ running' = running
        /\ \A u \in Tasks \ {t} : task'[u] = task[u]
    BY <1>0, <1>4 DEF CancelSeen, DriverAnswered, Await
  <2>2. /\ task'[t].pc = "leaving" /\ task'[t].driver = task[t].driver
        /\ task'[t].id = task[t].id /\ task'[t].hit = task[t].hit
        /\ task'[t].permit = task[t].permit
        /\ task'[t].out = "interrupted" => task[t].pc = "polling" /\ task[t].hit # None
    <3>1. CASE CancelSeen(t)
      <4>1. task'[t] = [task[t] EXCEPT !.pc = "leaving", !.out = "cancelled"]
        BY <1>0, <3>1 DEF CancelSeen, Await
      <4> QED
        BY <1>0, <4>1, LeavingFields
    <3>2. CASE DriverAnswered(t)
      <4>1. PICK out \in {"ok", "failed"} \cup (IF task[t].hit # None THEN {"interrupted"} ELSE {}) :
               task' = [task EXCEPT ![t] = [task[t] EXCEPT !.pc = "leaving", !.out = out]]
        BY <3>2 DEF DriverAnswered, Await
      <4>2. out = "interrupted" => task[t].pc = "polling" /\ task[t].hit # None
        BY <3>2, <4>1 DEF DriverAnswered
      <4>3. task'[t] = [task[t] EXCEPT !.pc = "leaving", !.out = out]
        BY <1>0, <4>1
      <4> QED
        BY <1>0, <4>2, <4>3, LeavingFields
    <3> QED
      BY <1>4, <3>1, <3>2
  <2>3. task[t].permit \in Permits
    BY <1>0, FieldTypes
  <2> QED
    BY <1>0, <1>p, <2>1, <2>2, <2>3 DEF Permits
<1>8. CASE CancelPending(t) \/ DriverPending(t)
  <2>1. /\ running' = running
        /\ \A u \in Tasks \ {t} : task'[u] = task[u]
    BY <1>0, <1>8, PollKeeps
  <2>2. /\ task'[t].driver = task[t].driver /\ task'[t].id = task[t].id
        /\ task'[t].out = task[t].out /\ task'[t].hit = task[t].hit
        /\ \/ /\ task[t].pc = "executing" /\ task[t].permit = "none"
              /\ task'[t].pc = "polling" /\ task'[t].permit = "none"
           \/ /\ task[t].pc = "polling" /\ task'[t].pc = "executing"
              /\ task'[t].permit = (IF task[t].permit = "missed" THEN "stored" ELSE task[t].permit)
    BY <1>0, <1>8, PollKeeps
  <2> QED
    BY <1>0, <1>p, <2>1, <2>2
<1>5. CASE Unregister(t)
  <2>1. /\ task[t].pc = "leaving"
        /\ running' = [q \in QueryIds |-> IF q = task[t].id THEN NoEntry ELSE running[q]]
        /\ \A u \in Tasks \ {t} : task'[u] = task[u]
    BY <1>0, <1>5 DEF Unregister, Await, Return
  <2>2. task'[t].pc \in {"answering", "listing"} /\ task'[t].out = None
    <3>1. \/ task'[t] = [Idle EXCEPT !.pc = "answering", !.name = task[t].name]
          \/ task'[t] = [Idle EXCEPT !.pc = "listing", !.name = task[t].name,
                                     !.driver = task[t].driver]
      BY <1>0, <1>5 DEF Unregister, Await, Return
    <3>2. CASE task'[t] = [Idle EXCEPT !.pc = "answering", !.name = task[t].name]
      BY <3>2, ReturnedFields
    <3>3. CASE task'[t] = [Idle EXCEPT !.pc = "listing", !.name = task[t].name,
                                       !.driver = task[t].driver]
      BY <3>3, ListingFields
    <3> QED
      BY <3>1, <3>2, <3>3
  <2>3. NoEntry.task = None
    BY DEF NoEntry
  <2>4. \A u \in Tasks \ {t} : InFlight(u) /\ task[u].id # None => task[u].id # task[t].id
    BY <1>0, <1>p, <2>1
  <2> QED
    BY <1>0, <1>p, <2>1, <2>2, <2>3, <2>4
<1>6. CASE Interrupt(t)
  <2>1. PICK victim \in Tasks \cup {None} :
          /\ victim # None => Selects(victim)
          /\ task' = [u \in Tasks |->
                         IF u = t THEN Idle
                         ELSE IF u = victim /\ task[u].hit = None
                              THEN [task[u] EXCEPT !.hit = task[t].id]
                         ELSE task[u]]
    BY <1>6 DEF Interrupt
  <2>2. /\ task[t].pc = "cancelling" /\ running' = running
        /\ task'[t].pc = "idle" /\ task'[t].out = None
    BY <1>0, <1>6, <2>1, IdleFields DEF Interrupt
  <2>3. \A u \in Tasks \ {t} :
          /\ task'[u].pc = task[u].pc /\ task'[u].driver = task[u].driver
          /\ task'[u].id = task[u].id /\ task'[u].out = task[u].out
          /\ task'[u].permit = task[u].permit
          /\ \/ task'[u].hit = task[u].hit
             \/ Selects(u) /\ task'[u].hit = task[t].id
    BY <1>0, <2>1, HitIs
  <2> QED
    BY <1>0, <1>p, <2>2, <2>3
<1>7. CASE HangUp(t)
  <2>1. /\ task'[t].pc = "idle" /\ task'[t].out = None
        /\ \A u \in Tasks \ {t} : task'[u] = task[u]
    BY <1>0, <1>7, IdleFields DEF HangUp, Await, Reply
  <2>2. \A q \in QueryIds : /\ running[q].task # t => running'[q] = running[q]
                            /\ running[q].task = t => running'[q].task = None
    BY <1>0, <1>7 DEF HangUp, Entry
  <2> QED
    BY <1>0, <1>p, <2>1, <2>2
<1> QED
  BY <1>1, <1>2, <1>3, <1>4, <1>5, <1>6, <1>7, <1>8 DEF Step, Aside

LEMMA NextRequestInv ==
  ASSUME UniqueIds, RequestInv, [Next]_vars
  PROVE  RequestInv'
<1>1. CASE UNCHANGED <<task, running>>
  <2>1. TypeOK'
    BY NextTypeOK DEF RequestInv
  <2> QED
    BY <1>1, <2>1
       DEF RequestInv, InFlight, Selects, ExecutesAreNamed, EntriesAreExecutes,
           CancelsFollowTheirPermit, OwnHitHasPermit, PermitsByPlace, OutcomesComeLast,
           CancelsTellUnlessMidPoll
<1> QED
  BY <1>1, StepRequestInv DEF Next, vars, AnswerAtOnce, Disconnect, Elapse, ReapIdle

(* With ids of their own, requests satisfy the invariant throughout.        *)
THEOREM RequestsHold ==
  ASSUME UniqueIds
  PROVE  Spec => []RequestInv
  BY InitRequestInv, NextRequestInv, PTL DEF Spec

(* A statement its user cancelled is reported as an error of the database    *)
(* only if the cancel came between the two polls of the select that took the *)
(* answer, though cancels interrupt the driver and whatever runs on it;      *)
(* clients may hang up under any request (`cancel` stores the permit before  *)
(* it asks the driver; the select of `execute` is biased).                   *)
THEOREM CancelsTell ==
  ASSUME UniqueIds
  PROVE  Spec => []CancelsTellUnlessMidPoll
<1>1. RequestInv => CancelsTellUnlessMidPoll
  BY DEF RequestInv
<1> QED
  BY RequestsHold, <1>1, PTL

(* While no client hangs up under a request, nobody leaves an entry behind. *)
NoneIsLeft == HangUps = {} => \A q \in QueryIds : running[q] # NoEntry => running[q].task # None

(* `running` is exactly the executes in flight and what clients left that    *)
(* hung up: `cancel` finds each execute, and nothing that has ended in any   *)
(* other way.                                                               *)
THEOREM RunningIsExact ==
  ASSUME UniqueIds
  PROVE  Spec => []RunningIsInFlight
<1>1. Init => NoneIsLeft
  BY DEF Init, NoneIsLeft
<1>2. ASSUME RequestInv, NoneIsLeft, [Next]_vars
      PROVE  NoneIsLeft'
  <2>1. running \in [QueryIds -> Entry]
    BY <1>2 DEF RequestInv, TypeOK
  <2>2. ASSUME NEW t \in Tasks, NEW n \in Names, NEW q \in QueryIds \cup {None},
               NEW stmt \in Stmts, Execute(t, n, q, stmt)
        PROVE  NoneIsLeft'
    BY <1>2, <2>1, <2>2, HostAssumption DEF Execute, Register, NoneIsLeft
  <2>3. ASSUME NEW t \in Tasks, Unregister(t)
        PROVE  NoneIsLeft'
    BY <1>2, <2>3 DEF Unregister, NoneIsLeft
  <2>4. ASSUME NEW t \in Tasks, HangUp(t)
        PROVE  NoneIsLeft'
    BY <2>4 DEF HangUp, NoneIsLeft
  <2>5. CASE UNCHANGED running
    BY <1>2, <2>5 DEF NoneIsLeft
  <2> QED
    BY <1>2, <2>2, <2>3, <2>4, <2>5
       DEF Next, Step, vars, AnswerAtOnce, Disconnect, Elapse, ReapIdle, Connect, Schema, Snippet,
           Status, Cancel, Opened, OpenFailed, Connected, Answered, CancelSeen, CancelPending,
           DriverAnswered, DriverPending, Listed, SnippetRead, Ponged, Interrupt
<1>3. ASSUME RequestInv, NoneIsLeft
      PROVE  RunningIsInFlight
  <2>1. ASSUME NEW q \in QueryIds, running[q] # NoEntry, running[q].task # None
        PROVE  \E t \in Tasks : /\ running[q] = [task |-> t, driver |-> task[t].driver]
                               /\ InFlight(t) /\ task[t].id = q
    <3>1. running[q].task \in Tasks
      BY <1>3, <2>1 DEF RequestInv, TypeOK, Entry
    <3> DEFINE t == running[q].task
    <3>2. InFlight(t) /\ task[t].id = q
      BY <1>3, <3>1 DEF RequestInv, EntriesAreExecutes
    <3>3. running[q].driver = task[t].driver
      BY <1>3, <3>1, <3>2, HostAssumption DEF RequestInv, ExecutesAreNamed
    <3>4. running[q] = [task |-> t, driver |-> running[q].driver]
      BY <1>3 DEF RequestInv, TypeOK, Entry
    <3> QED
      BY <3>1, <3>2, <3>3, <3>4
  <2>2. ASSUME NEW t \in Tasks, InFlight(t), task[t].id # None
        PROVE  running[task[t].id].task = t
    BY <1>3, <2>2 DEF RequestInv, ExecutesAreNamed
  <2>3. ASSUME NEW q \in QueryIds, running[q] # NoEntry, running[q].task = None
        PROVE  HangUps # {}
    BY <1>3, <2>3 DEF NoneIsLeft
  <2> QED
    BY <2>1, <2>2, <2>3 DEF RunningIsInFlight
<1> QED
  BY RequestsHold, <1>1, <1>2, <1>3, PTL DEF Spec
=============================================================================
