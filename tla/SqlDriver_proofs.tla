-------------------------- MODULE SqlDriver_proofs --------------------------
(***************************************************************************)
(* What a SQL driver's mutex is worth: however many calls share a driver,  *)
(* and whichever of them fail, time out or are dropped, its transaction is *)
(* seen by whoever must see it, takes every statement, ends only when      *)
(* asked to, and no connection of the pool is lost.                        *)
(*                                                                         *)
(* And what an edit staged in the plugin makes of it, for any number of    *)
(* other calls, connections, statements and applies: in a transaction of   *)
(* its own it is applied as a whole or not at all.                         *)
(***************************************************************************)
EXTENDS StagedEdit, FiniteSetTheorems, TLAPS

-----------------------------------------------------------------------------
(* The calls of a driver: SqlSession.                                        *)

CallRecord == [pc : PCs, kind : Kinds \cup {None}, within : BOOLEAN]

Locked == {"beginning", "ending", "inside"}

Typed ==
    /\ held \in BOOLEAN
    /\ mirror \in BOOLEAN
    /\ lock \in Calls \cup {None}
    /\ idle \in Nat
    /\ call \in [Calls -> CallRecord]

(* The mutex is held by the one call that waits with it.                    *)
OneLocks == \A c \in Calls : call[c].pc \in Locked <=> lock = c

(* What that call knows of the transaction while it waits.                  *)
NoneBegun == \A c \in Calls : call[c].pc \in {"beginning", "ending"} => ~held

StillWithin == \A c \in Calls : call[c].within => held

SessionInv == Typed /\ OneLocks /\ NoneBegun /\ StillWithin /\ HeldIsVisible

-----------------------------------------------------------------------------
(* What the proofs use of the constants.                                    *)
LEMMA SomePool == None \notin Calls /\ PoolSize \in Nat
  BY SqlAssumption

(* The initial state: no call, no transaction.                              *)
LEMMA InitSession == Init => SessionInv
<1> SUFFICES ASSUME Init PROVE SessionInv
  OBVIOUS
<1> USE SomePool
<1>1. Typed
  BY DEF Init, Typed, CallRecord, NoCall, PCs, Kinds
<1>2. OneLocks
  BY DEF Init, OneLocks, NoCall, Locked
<1>3. NoneBegun
  BY DEF Init, NoneBegun
<1>4. StillWithin
  BY DEF Init, StillWithin, NoCall
<1>5. HeldIsVisible
  BY DEF Init, HeldIsVisible
<1> QED
  BY <1>1, <1>2, <1>3, <1>4, <1>5 DEF SessionInv

-----------------------------------------------------------------------------
(* What the four ways of changing `call` do to it: a call goes on, a call   *)
(* answers, a call takes the transaction out, a call comes in.              *)
LEMMA Going ==
  ASSUME Typed, NEW c \in Calls, NEW pc \in PCs, Goto(c, pc)
  PROVE  /\ call' \in [Calls -> CallRecord]
         /\ \A u \in Calls : call'[u].pc = IF u = c THEN pc ELSE call[u].pc
         /\ \A u \in Calls : call'[u].within = call[u].within
  BY DEF Typed, Goto, CallRecord

LEMMA Answering ==
  ASSUME Typed, NEW c \in Calls, Answer(c)
  PROVE  /\ call' \in [Calls -> CallRecord]
         /\ \A u \in Calls : call'[u].pc = IF u = c THEN "idle" ELSE call[u].pc
         /\ \A u \in Calls : call'[u].within => call[u].within
<1>1. NoCall \in CallRecord
  BY DEF NoCall, CallRecord, PCs
<1>2. NoCall.pc = "idle" /\ ~NoCall.within
  BY DEF NoCall
<1> QED
  BY <1>1, <1>2 DEF Typed, Answer

LEMMA Ending ==
  ASSUME Typed, NEW c \in Calls, End(c), held
  PROVE  /\ call' \in [Calls -> CallRecord]
         /\ \A u \in Calls : call'[u].pc = IF u = c THEN "ending" ELSE call[u].pc
         /\ \A u \in Calls : ~call'[u].within
<1> DEFINE next(u) == [call[u] EXCEPT !.within = FALSE, !.pc = IF u = c THEN "ending" ELSE @]
<1>1. call' = [u \in Calls |-> next(u)]
  BY DEF End
<1>2. ASSUME NEW u \in Calls
      PROVE  /\ next(u) \in CallRecord
             /\ next(u).pc = IF u = c THEN "ending" ELSE call[u].pc
             /\ ~next(u).within
  <2>1. call[u] \in CallRecord
    BY DEF Typed
  <2>2. CASE u = c
    <3>1. next(u) = [call[u] EXCEPT !.within = FALSE, !.pc = "ending"]
      BY <2>2
    <3> QED
      BY <2>1, <2>2, <3>1 DEF CallRecord, PCs
  <2>3. CASE u # c
    <3>1. next(u) = [call[u] EXCEPT !.within = FALSE, !.pc = call[u].pc]
      BY <2>1, <2>3 DEF CallRecord
    <3> QED
      BY <2>1, <2>3, <3>1 DEF CallRecord
  <2> QED
    BY <2>2, <2>3
<1> HIDE DEF next
<1> QED
  BY <1>1, <1>2

LEMMA Calling ==
  ASSUME Typed, NEW c \in Calls, NEW kind \in Kinds, Call(c, kind)
  PROVE  /\ call' \in [Calls -> CallRecord]
         /\ \A u \in Calls : call'[u].pc = IF u = c THEN (IF kind = "side" THEN "acquiring" ELSE "locking") ELSE call[u].pc
         /\ \A u \in Calls : call'[u].within => (call[u].within \/ held)
<1> DEFINE r == [pc |-> IF kind = "side" THEN "acquiring" ELSE "locking",
                                    kind |-> kind, within |-> held]
<1>1. r \in CallRecord /\ r.pc = (IF kind = "side" THEN "acquiring" ELSE "locking") /\ r.within = held
  BY DEF Typed, CallRecord, PCs, Kinds
<1>2. call' = [call EXCEPT ![c] = r]
  BY DEF Call
<1> HIDE DEF r
<1> QED
  BY <1>1, <1>2 DEF Typed

(* Every step of a call preserves the invariant.                            *)
LEMMA StepSession == ASSUME SessionInv, [Next]_vars PROVE SessionInv'
<1>0. Typed /\ OneLocks /\ NoneBegun /\ StillWithin /\ HeldIsVisible
  BY DEF SessionInv
<1> DEFINE Conclusion == Typed' /\ OneLocks' /\ NoneBegun' /\ StillWithin' /\ HeldIsVisible'
<1> SUFFICES Conclusion
  BY DEF SessionInv
<1> USE <1>0, SomePool DEF OneLocks, NoneBegun, StillWithin, HeldIsVisible, Locked, At
<1>1. CASE UNCHANGED vars
  BY <1>1 DEF vars, Typed
<1>2. ASSUME NEW c \in Calls, NEW kind \in Kinds, Call(c, kind)
      PROVE  Conclusion
  BY <1>2, Calling DEF Call, Typed
<1>3. ASSUME NEW c \in Calls, Begin(c)
      PROVE  Conclusion
  <2> "beginning" \in PCs
    BY DEF PCs
  <2>1. CASE held
    BY <1>3, <2>1, Answering DEF Begin, Typed
  <2>2. CASE ~held
    BY <1>3, <2>2, Going DEF Begin, Typed
  <2> QED
    BY <2>1, <2>2
<1>4. ASSUME NEW c \in Calls, Begun(c)
      PROVE  Conclusion
  BY <1>4, Answering DEF Begun, Typed
<1>5. ASSUME NEW c \in Calls, BeginFailed(c) \/ RanInside(c)
      PROVE  Conclusion
  BY <1>5, Answering DEF BeginFailed, RanInside, Typed
<1>6. ASSUME NEW c \in Calls, End(c)
      PROVE  Conclusion
  <2>1. CASE held
    <3>1. /\ call' \in [Calls -> CallRecord]
          /\ \A u \in Calls : call'[u].pc = IF u = c THEN "ending" ELSE call[u].pc
          /\ \A u \in Calls : ~call'[u].within
      BY <1>6, <2>1, Ending
    <3>2. held' = FALSE /\ lock = None /\ lock' = c /\ mirror' = mirror /\ idle' = idle
      BY <1>6, <2>1, Zenon DEF End
    <3> QED
      BY <3>1, <3>2 DEF Typed
  <2>2. CASE ~held
    BY <1>6, <2>2, Answering DEF End, Typed
  <2> QED
    BY <2>1, <2>2
<1>7. ASSUME NEW c \in Calls, Ended(c) \/ EndFailed(c)
      PROVE  Conclusion
  <2>1. /\ Answer(c)
        /\ call[c].pc = "ending"
        /\ lock' = None /\ idle' = idle + 1 /\ UNCHANGED held
        /\ mirror' \in BOOLEAN
    BY <1>7 DEF Ended, EndFailed, Typed
  <2>2. HeldIsVisible'
    BY <1>7 DEF Ended, EndFailed
  <2> QED
    BY <2>1, <2>2, Answering DEF Typed
<1>8. ASSUME NEW c \in Calls, Look(c)
      PROVE  Conclusion
  <2> "inside" \in PCs /\ "acquiring" \in PCs
    BY DEF PCs
  <2>1. CASE held
    BY <1>8, <2>1, Going DEF Look, Typed
  <2>2. CASE ~held
    BY <1>8, <2>2, Going DEF Look, Typed
  <2> QED
    BY <2>1, <2>2
<1>9. ASSUME NEW c \in Calls, Acquired(c)
      PROVE  Conclusion
  BY <1>9, Going DEF Acquired, Typed, PCs
<1>10. ASSUME NEW c \in Calls, Ran(c)
       PROVE  Conclusion
  BY <1>10, Going, Answering DEF Ran, Typed, PCs
<1>11. ASSUME NEW c \in Calls, Described(c)
       PROVE  Conclusion
  BY <1>11, Answering DEF Described, Typed
<1>12. ASSUME NEW c \in Calls, TimedOut(c)
       PROVE  Conclusion
  BY <1>12, Answering DEF TimedOut, Unlock, Typed
<1>13. ASSUME NEW c \in Calls, Drop(c)
       PROVE  Conclusion
  BY <1>13, Answering DEF Drop, Unlock, Typed
<1> QED
  BY <1>1, <1>2, <1>3, <1>4, <1>5, <1>6, <1>7, <1>8, <1>9, <1>10, <1>11, <1>12, <1>13 DEF Next
(* The invariant holds throughout, whatever fails, times out or is dropped. *)
THEOREM SessionHolds == Spec => []SessionInv
<1>1. SessionInv /\ [Next]_vars => SessionInv'
  BY StepSession
<1> QED
  BY InitSession, <1>1, PTL DEF Spec

-----------------------------------------------------------------------------
(* A transaction the driver holds is never hidden from `in_transaction`,    *)
(* which the idle reaper and `status` go by (sqlite lib.rs, `execute` and   *)
(* `handle_transaction_control`).                                           *)
THEOREM HeldTransactionsAreVisible == Spec => []HeldIsVisible
<1>1. SessionInv => HeldIsVisible
  BY DEF SessionInv
<1> QED
  BY SessionHolds, <1>1, PTL

(* A statement called in a transaction runs in it unless it has ended.      *)
THEOREM TransactionTakesStatements == Spec => StatementsJoin
<1>1. SessionInv /\ [Next]_vars
        => [\A c \in Calls : call[c].pc = "locking" /\ call'[c].pc = "acquiring"
                               => ~call[c].within]_vars
  <2> SUFFICES ASSUME SessionInv, Next, NEW c \in Calls,
                      call[c].pc = "locking", call'[c].pc = "acquiring"
               PROVE  ~call[c].within
    BY DEF vars
  <2>1. PICK u \in Calls :
            \/ \E kind \in Kinds : Call(u, kind)
            \/ Begin(u) \/ Begun(u) \/ BeginFailed(u)
            \/ End(u) \/ Ended(u) \/ EndFailed(u)
            \/ Look(u) \/ RanInside(u) \/ Acquired(u) \/ Ran(u) \/ Described(u)
            \/ TimedOut(u) \/ Drop(u)
    BY DEF Next
  <2>2. CASE \E kind \in Kinds : Call(u, kind)
    BY <2>2, Calling DEF Call, SessionInv
  <2>3. CASE Answer(u)
    BY <2>3, Answering DEF SessionInv
  <2>4. CASE End(u) /\ held
    BY <2>4, Ending DEF SessionInv
  <2>5. CASE Begin(u) /\ Goto(u, "beginning")
    BY <2>5, Going DEF SessionInv, PCs
  <2>6. CASE Acquired(u)
    <3>1. Goto(u, "running") /\ call[u].pc = "acquiring"
      BY <2>6 DEF Acquired
    <3> QED
      BY <3>1, Going DEF SessionInv, PCs
  <2>7. CASE Ran(u) /\ Goto(u, "describing")
    BY <2>7, Going DEF SessionInv, PCs
  <2>8. CASE Look(u)
    <3>1. held => Goto(u, "inside")
      BY <2>8 DEF Look
    <3>2. ~held
      BY <3>1, Going DEF SessionInv, PCs
    <3> QED
      BY <3>2 DEF SessionInv, StillWithin
  <2> QED
    BY <2>1, <2>2, <2>3, <2>4, <2>5, <2>6, <2>7, <2>8
       DEF Begin, Begun, BeginFailed, End, Ended, EndFailed, RanInside, Ran, Described,
           TimedOut, Drop
<1> QED
  BY SessionHolds, <1>1, PTL DEF Spec, StatementsJoin

(* Only COMMIT and ROLLBACK take the transaction out of the driver.         *)
THEOREM OnlyEndsEnd == Spec => EndsOnlyWhenAsked
<1>1. SessionInv /\ [Next]_vars
        => [held /\ ~held' => \E c \in Calls : call[c].kind \in {"commit", "rollback"}
                                               /\ call'[c].pc = "ending"]_vars
  <2> SUFFICES ASSUME SessionInv, Next, held, ~held'
               PROVE  \E c \in Calls : call[c].kind \in {"commit", "rollback"}
                                       /\ call'[c].pc = "ending"
    BY DEF vars
  <2>1. PICK u \in Calls : End(u)
    BY DEF Next, Call, Begin, Begun, BeginFailed, Ended, EndFailed, Look, RanInside,
       Acquired, Ran, Described, TimedOut, Drop
  <2>2. call'[u].pc = "ending"
    BY <2>1, Ending DEF SessionInv
  <2>3. call[u].kind \in {"commit", "rollback"}
    BY <2>1 DEF End, At
  <2> QED
    BY <2>2, <2>3
<1> QED
  BY SessionHolds, <1>1, PTL DEF Spec, EndsOnlyWhenAsked

-----------------------------------------------------------------------------
(* The calls that have a connection of the pool to themselves.              *)
Owning == {"running", "ending"}
Owners == {c \in Calls : call[c].pc \in Owning}

(* Every connection of the pool is idle, with a call, or held.              *)
PoolAccount == idle + Cardinality(Owners) + (IF held THEN 1 ELSE 0) = PoolSize

LEMMA CountOwners == IsFiniteSet(Owners) /\ Cardinality(Owners) \in Nat
<1>1. Owners \in SUBSET Calls
  BY DEF Owners
<1>2. IsFiniteSet(Owners)
  BY <1>1, FS_Subset, SqlAssumption
<1> QED
  BY <1>2, FS_CardinalityType

(* A step of one call: the owners are one more, one less, or the same.      *)
LEMMA OwnersStep ==
  ASSUME NEW c \in Calls, \A u \in Calls : u # c => call'[u].pc = call[u].pc
  PROVE  Cardinality(Owners') = Cardinality(Owners)
            + (IF call'[c].pc \in Owning THEN 1 ELSE 0)
            - (IF call[c].pc \in Owning THEN 1 ELSE 0)
<1>1. Cardinality(Owners \cup {c}) = IF c \in Owners THEN Cardinality(Owners)
                                                     ELSE Cardinality(Owners) + 1
  BY CountOwners, FS_AddElement
<1>2. Cardinality(Owners \ {c}) = IF c \in Owners THEN Cardinality(Owners) - 1
                                                  ELSE Cardinality(Owners)
  BY CountOwners, FS_RemoveElement
<1>3. c \in Owners <=> call[c].pc \in Owning
  BY DEF Owners
<1>4. Owners' = IF call'[c].pc \in Owning THEN Owners \cup {c} ELSE Owners \ {c}
  BY DEF Owners
<1> QED
  BY <1>1, <1>2, <1>3, <1>4, CountOwners

(* No step of a call, and no failure of one, loses or invents a connection. *)
LEMMA StepPool ==
  ASSUME SessionInv, PoolAccount, [Next]_vars
  PROVE  PoolAccount'
<1>0. Typed /\ OneLocks /\ NoneBegun
  BY DEF SessionInv
<1> USE <1>0, SomePool, CountOwners DEF Owning, PoolAccount, Typed
<1>1. CASE UNCHANGED vars
  BY <1>1 DEF vars, Owners
<1>2. ASSUME NEW c \in Calls, NEW kind \in Kinds, Call(c, kind)
      PROVE  PoolAccount'
  BY <1>2, Calling, OwnersStep DEF Call
<1>3. ASSUME NEW c \in Calls, Begin(c)
      PROVE  PoolAccount'
  <2>1. CASE held
    BY <1>3, <2>1, Answering, OwnersStep DEF Begin, At
  <2>2. CASE ~held
    BY <1>3, <2>2, Going, OwnersStep DEF Begin, At, PCs
  <2> QED
    BY <2>1, <2>2
<1>4. ASSUME NEW c \in Calls, Begun(c)
      PROVE  PoolAccount'
  <2>1. ~held
    BY <1>4 DEF Begun, NoneBegun
  <2> QED
    BY <1>4, <2>1, Answering, OwnersStep DEF Begun
<1>5. ASSUME NEW c \in Calls, BeginFailed(c) \/ RanInside(c) \/ Described(c) \/ TimedOut(c)
      PROVE  PoolAccount'
  BY <1>5, Answering, OwnersStep DEF BeginFailed, RanInside, Described, TimedOut
<1>6. ASSUME NEW c \in Calls, End(c)
      PROVE  PoolAccount'
  <2>1. CASE held
    <3>1. \A u \in Calls : call'[u].pc = IF u = c THEN "ending" ELSE call[u].pc
      BY <1>6, <2>1, Ending
    <3>2. held' = FALSE /\ idle' = idle /\ call[c].pc = "locking"
      BY <1>6, <2>1 DEF End, At
    <3>3. Cardinality(Owners') = Cardinality(Owners) + 1
      BY <3>1, <3>2, OwnersStep
    <3> QED
      BY <2>1, <3>2, <3>3
  <2>2. CASE ~held
    BY <1>6, <2>2, Answering, OwnersStep DEF End, At
  <2> QED
    BY <2>1, <2>2
<1>7. ASSUME NEW c \in Calls, Ended(c) \/ EndFailed(c)
      PROVE  PoolAccount'
  BY <1>7, Answering, OwnersStep DEF Ended, EndFailed
<1>8. ASSUME NEW c \in Calls, Look(c)
      PROVE  PoolAccount'
  <2>1. call[c].pc = "locking" /\ (Goto(c, "inside") \/ Goto(c, "acquiring"))
        /\ UNCHANGED <<held, idle>>
    BY <1>8 DEF Look, At
  <2> QED
    BY <2>1, Going, OwnersStep DEF PCs
<1>9. ASSUME NEW c \in Calls, Acquired(c)
      PROVE  PoolAccount'
  BY <1>9, Going, OwnersStep DEF Acquired, PCs
<1>10. ASSUME NEW c \in Calls, Ran(c)
       PROVE  PoolAccount'
  BY <1>10, Going, Answering, OwnersStep DEF Ran, PCs
<1>11. ASSUME NEW c \in Calls, Drop(c)
       PROVE  PoolAccount'
  BY <1>11, Answering, OwnersStep DEF Drop
<1> QED
  BY <1>1, <1>2, <1>3, <1>4, <1>5, <1>6, <1>7, <1>8, <1>9, <1>10, <1>11 DEF Next

(* No connection of the pool is ever lost or handed out twice, and the      *)
(* state keeps its type.                                                    *)
THEOREM PoolIsKept == Spec => [](PoolAccount /\ TypeOK)
<1>1. ASSUME Init
      PROVE  PoolAccount
  <2>1. Owners = {}
    BY <1>1 DEF Init, Owners, Owning, NoCall
  <2>2. Cardinality(Owners) = 0
    BY <2>1, FS_EmptySet
  <2>3. held = FALSE /\ idle = PoolSize
    BY <1>1 DEF Init
  <2> QED
    BY <2>2, <2>3, SomePool DEF PoolAccount
<1>2. SessionInv /\ PoolAccount /\ [Next]_vars => PoolAccount'
  BY StepPool
<1>3. SessionInv /\ PoolAccount => PoolAccount /\ TypeOK
  BY SomePool, CountOwners DEF SessionInv, Typed, CallRecord, PoolAccount, TypeOK
<1> QED
  BY SessionHolds, <1>1, <1>2, <1>3, PTL DEF Spec

-----------------------------------------------------------------------------
(* An edit of the plugin over them: StagedEdit.                              *)

Out == call[Mine].pc # "idle"

Phases == {"preview", "asking", "told", "begin", "step", "commit", "rollback", "reload", "over"}

EditRecord == [phase : Phases, first : Statements, at : Statements, wrapped : BOOLEAN,
               again : BOOLEAN, reply : {None, "ok", "failed", "cancelled"}]

EditTyped ==
    /\ edit \in EditRecord
    /\ open \subseteq Statements
    /\ applied \in [Statements -> Nat]
    /\ began \in Statements
    /\ disturbed \in BOOLEAN

(* More of the driver than SessionInv says: a transaction that is used is   *)
(* held, one that is being ended is still seen, and what was done in a      *)
(* transaction goes with it.                                                *)
InsideIsHeld == \A c \in Calls : call[c].pc = "inside" => held
EndingIsSeen == \A c \in Calls : call[c].pc = "ending" => mirror
OpenIsHeld   == open = {} \/ held \/ \E c \in Calls : call[c].pc = "ending"

DriverInv == SessionInv /\ InsideIsHeld /\ EndingIsSeen /\ OpenIsHeld

(* The plugin has one call out at most, of the kind its phase says.         *)
Waits ==
    /\ edit.reply # "cancelled"
    /\ edit.phase \in {"begin", "step", "commit", "rollback", "reload"} => (edit.reply = None <=> Out)
    /\ edit.phase \notin {"begin", "step", "commit", "rollback", "reload"} => ~Out
    /\ Out => call[Mine].kind = IF edit.phase \in {"step", "reload"} THEN "statement" ELSE edit.phase
    /\ edit.phase \in {"begin", "commit", "rollback"} => edit.wrapped
    /\ Out => call[Mine].pc \in
         CASE call[Mine].kind = "begin" -> {"locking", "beginning"}
           [] call[Mine].kind = "statement" -> {"locking", "inside", "acquiring", "running", "describing"}
           [] OTHER -> {"locking", "ending"}

(* From the answer to `status` to the end of its transaction, nobody else   *)
(* has one.                                                                 *)
Owns ==
    Wrapping =>
    /\ \A c \in Calls \ {Mine} : call[c].pc # "ending"
    /\ edit.phase = "told"     => ~held
    /\ edit.phase = "begin"    => (held <=> edit.reply = "ok")
    /\ edit.phase = "step"     => held /\ (Out => call[Mine].pc \in {"locking", "inside"})
    /\ edit.phase = "commit"   => (held <=> call[Mine].pc = "locking")
    /\ edit.phase = "rollback" => (held => call[Mine].pc = "locking")

(* What is still to be done has not been done.                              *)
Clean(s) == applied[s] = 0 /\ s \notin open
Fresh(from) == \A s \in Statements : s >= from => Clean(s)
Made == edit.reply = "ok" \/ call[Mine].pc = "describing"

Counts ==
    /\ \A s \in Statements : applied[s] + (IF s \in open THEN 1 ELSE 0) <= 1
    /\ edit.phase \in {"preview", "asking", "told", "begin"} => Fresh(edit.first)
    /\ edit.phase = "step" => edit.at >= edit.first /\ Fresh(IF Made THEN edit.at + 1 ELSE edit.at)
    /\ \/ edit.phase \in {"asking", "told", "begin", "step", "commit", "rollback", "reload"}
       \/ edit.phase = "preview" /\ edit.wrapped
       => began = edit.first

Ours == {s \in Statements : s >= began}

Whole ==
    /\ edit.wrapped /\ edit.phase = "step" =>
         /\ \A s \in Ours : applied[s] = 0
         /\ \A s \in Ours : s \in open <=> s < (IF Made THEN edit.at + 1 ELSE edit.at)
    /\ edit.phase = "commit" =>
         /\ Out <=> open # {}
         /\ Out => Ours \subseteq open
         /\ \A s \in Ours : applied[s] = IF edit.reply = "ok" THEN 1 ELSE 0
    /\ edit.phase = "rollback" =>
         /\ \A s \in Ours : applied[s] = 0
         /\ ~Out => open = {}
    /\ edit.phase = "reload" =>
         /\ edit.again => edit.wrapped /\ Fresh(edit.first)
         /\ edit.wrapped /\ ~edit.again => \A s \in Ours : applied[s] = 1 /\ s \notin open
    /\ edit.phase = "over" /\ edit.wrapped =>
         \A s \in Ours : s \notin open /\ \A t \in Ours : applied[s] = applied[t]

EditInv == EditTyped /\ DriverInv /\ (disturbed \/ (Waits /\ Owns /\ Counts /\ Whole))

-----------------------------------------------------------------------------
LEMMA EditConstants ==
  /\ Mine \in Calls /\ None \notin {"ok", "failed", "cancelled"}
  /\ Total \in Nat \ {0} /\ 1 \in Statements /\ Total \in Statements
  /\ \A s \in Statements : s \in Nat /\ s >= 1 /\ s <= Total
  BY StagedEditAssumption DEF Statements

LEMMA InitEdit == EditInit => EditInv
<1> SUFFICES ASSUME EditInit PROVE EditInv
  OBVIOUS
<1> USE EditConstants DEF EditInit
<1>1. EditTyped
  BY DEF EditTyped, EditRecord, Phases
<1>2. ~Out /\ \A c \in Calls : call[c].pc = "idle"
  BY DEF Init, NoCall, Out
<1>3. DriverInv
  BY <1>2, InitSession DEF DriverInv, InsideIsHeld, EndingIsSeen, OpenIsHeld
<1>4. Waits /\ Owns /\ Counts /\ Whole
  BY <1>2 DEF Waits, Owns, Wrapping, Counts, Whole, Fresh, Clean, Out
<1> QED
  BY <1>1, <1>3, <1>4 DEF EditInv

-----------------------------------------------------------------------------
(* A step of one call, as the driver sees it.                               *)
StepOf(c) == \/ \E kind \in Kinds : Call(c, kind)
             \/ Begin(c) \/ Begun(c) \/ BeginFailed(c)
             \/ End(c) \/ Ended(c) \/ EndFailed(c)
             \/ Look(c) \/ RanInside(c) \/ Acquired(c) \/ Ran(c) \/ Described(c)
             \/ TimedOut(c) \/ Drop(c)

(* It changes no other call but for what that was called within, and a call *)
(* that goes on is of the kind it was.                                      *)
LEMMA OthersStay ==
  ASSUME Typed, NEW c \in Calls, StepOf(c)
  PROVE  /\ \A u \in Calls \ {c} : call'[u].pc = call[u].pc /\ call'[u].kind = call[u].kind
         /\ call[c].pc # "idle" /\ call'[c].pc # "idle" => call'[c].kind = call[c].kind
<1> DEFINE Conclusion ==
         /\ \A u \in Calls \ {c} : call'[u].pc = call[u].pc /\ call'[u].kind = call[u].kind
         /\ call[c].pc # "idle" /\ call'[c].pc # "idle" => call'[c].kind = call[c].kind
<1> SUFFICES Conclusion
  OBVIOUS
<1>1. ASSUME NEW kind \in Kinds, Call(c, kind) PROVE Conclusion
  BY <1>1 DEF Typed, Call
<1>2. CASE Answer(c)
  BY <1>2 DEF Typed, Answer, NoCall
<1>3. ASSUME NEW pc \in PCs, Goto(c, pc) PROVE Conclusion
  BY <1>3 DEF Typed, Goto, CallRecord
<1>4. CASE End(c) /\ held
  <2> DEFINE next(u) == [call[u] EXCEPT !.within = FALSE, !.pc = IF u = c THEN "ending" ELSE @]
  <2>1. call' = [u \in Calls |-> next(u)]
    BY <1>4 DEF End
  <2>2. ASSUME NEW u \in Calls
        PROVE  next(u).kind = call[u].kind /\ (u # c => next(u).pc = call[u].pc)
    <3>1. call[u] \in CallRecord
      BY DEF Typed
    <3>2. CASE u = c
      BY <3>1, <3>2 DEF CallRecord
    <3>3. CASE u # c
      <4>1. next(u) = [call[u] EXCEPT !.within = FALSE, !.pc = call[u].pc]
        BY <3>1, <3>3 DEF CallRecord
      <4> QED
        BY <3>1, <3>3, <4>1 DEF CallRecord
    <3> QED
      BY <3>2, <3>3
  <2> HIDE DEF next
  <2> QED
    BY <2>1, <2>2
<1>5. ASSUME NEW pc \in {"beginning", "inside", "acquiring", "running", "describing"},
             Goto(c, pc)
      PROVE  Conclusion
  BY <1>3, <1>5 DEF PCs
<1> HIDE DEF Conclusion
<1>6. CASE Begin(c) \/ End(c) \/ Look(c) \/ Acquired(c) \/ Ran(c)
  <2>1. Begin(c) => Answer(c) \/ Goto(c, "beginning")
    BY DEF Begin
  <2>2. End(c) => Answer(c) \/ held
    BY DEF End
  <2>3. Look(c) => Goto(c, "inside") \/ Goto(c, "acquiring")
    BY DEF Look
  <2>4. Acquired(c) => Goto(c, "running")
    BY DEF Acquired
  <2>5. Ran(c) => Answer(c) \/ Goto(c, "describing")
    BY DEF Ran
  <2> QED
    BY <1>2, <1>4, <1>5, <1>6, <2>1, <2>2, <2>3, <2>4, <2>5
<1>7. CASE \/ Begun(c) \/ BeginFailed(c) \/ Ended(c) \/ EndFailed(c) \/ RanInside(c)
           \/ Described(c) \/ TimedOut(c) \/ Drop(c)
  BY <1>2, <1>7 DEF Begun, BeginFailed, Ended, EndFailed, RanInside, Described, TimedOut, Drop
<1> QED
  BY <1>1, <1>6, <1>7 DEF StepOf

(* What a step of call c does to its call, to the transaction, the flag and *)
(* the table; `how` is its answer, if it answers.                           *)
Moves(c, from, to) == call[c].pc = from /\ call'[c].pc = to
Quiet == held' = held /\ mirror' = mirror

ComesIn(c) == Quiet /\ (Moves(c, "idle", "locking") \/ Moves(c, "idle", "acquiring"))
GoesOn(c) ==
    /\ Quiet /\ Untouched
    /\ \/ Moves(c, "locking", "beginning") /\ call[c].kind = "begin" /\ ~held
       \/ Moves(c, "locking", "inside") /\ call[c].kind = "statement" /\ held
       \/ Moves(c, "locking", "acquiring") /\ call[c].kind = "statement" /\ ~held
       \/ Moves(c, "acquiring", "running")
Takes(c) == /\ Moves(c, "locking", "ending") /\ call[c].kind \in {"commit", "rollback"}
            /\ held /\ ~held' /\ mirror' = mirror /\ lock = None /\ Untouched
Opens(c, how) == /\ Moves(c, "beginning", "idle") /\ how = "ok"
                 /\ ~held /\ held' /\ mirror' /\ lock = c /\ Untouched
Skips(c, how) ==
    /\ Moves(c, "locking", "idle") /\ how = "ok" /\ held' = held /\ lock = None /\ Untouched
    /\ \/ call[c].kind = "begin" /\ held /\ mirror' = mirror
       \/ call[c].kind \in {"commit", "rollback"} /\ ~held
Leaves(c, how) ==
    /\ Moves(c, "ending", "idle") /\ ~held /\ held' = held /\ lock = c
    /\ \/ how = "ok" /\ Settles(call[c].kind = "commit")
       \/ how = "failed" /\ Settles(FALSE)
Joins(c, how) ==
    /\ Moves(c, "inside", "idle") /\ Quiet
    /\ \/ how = "ok" /\ Inside(Written(c))
       \/ how = "failed" /\ Untouched
Alone(c, how) ==
    /\ Moves(c, "running", "idle") \/ Moves(c, "running", "describing")
    /\ Quiet /\ how = "ok" /\ AtOnce(Written(c))
Describes(c, how) == Moves(c, "describing", "idle") /\ Quiet /\ how = "ok" /\ Untouched
Misses(c, how) ==
    /\ \/ Moves(c, "beginning", "idle") \/ Moves(c, "acquiring", "idle")
       \/ Moves(c, "running", "idle")
    /\ Quiet /\ how = "failed" /\ Untouched

Effect(c, how) ==
    \/ GoesOn(c) \/ Takes(c) \/ Opens(c, how) \/ Skips(c, how) \/ Leaves(c, how)
    \/ Joins(c, how) \/ Alone(c, how) \/ Describes(c, how) \/ Misses(c, how)

LEMMA Effects ==
  ASSUME SessionInv, NEW c \in Calls, NEW how, Works(c, how)
  PROVE  Effect(c, how)
<1> USE DEF Moves, Quiet
<1>0. Typed /\ OneLocks /\ NoneBegun /\ held \in BOOLEAN /\ call[c].pc \in PCs
  BY DEF SessionInv, Typed, CallRecord
<1>a. ASSUME Answer(c) PROVE call'[c].pc = "idle"
  BY <1>0, <1>a, Answering
<1>g. ASSUME NEW pc \in PCs, Goto(c, pc) PROVE call'[c].pc = pc
  BY <1>0, <1>g, Going
<1>1. CASE how = "ok" /\ Untouched /\ Begin(c)
  <2>1. CASE held
    <3>1. Skips(c, how)
      BY <1>1, <1>a, <2>1 DEF Begin, At, Skips
    <3> QED
      BY <3>1 DEF Effect
  <2>2. CASE ~held
    <3>1. Goto(c, "beginning") /\ "beginning" \in PCs
      BY <1>1, <2>2 DEF Begin, PCs
    <3>2. call'[c].pc = "beginning"
      BY <1>g, <3>1
    <3>3. GoesOn(c)
      BY <1>1, <2>2, <3>2 DEF Begin, At, GoesOn
    <3> QED
      BY <3>3 DEF Effect
  <2> QED
    BY <2>1, <2>2
<1>2. CASE how = "ok" /\ Untouched /\ Begun(c)
  <2>1. lock = c /\ ~held
    BY <1>0, <1>2 DEF Begun, OneLocks, NoneBegun, Locked
  <2>2. Opens(c, how)
    BY <1>2, <1>a, <2>1 DEF Begun, Opens
  <2> QED
    BY <2>2 DEF Effect
<1>3. CASE how = "ok" /\ Untouched /\ End(c)
  <2>1. CASE held
    <3>1. call'[c].pc = "ending"
      BY <1>0, <1>3, <2>1, Ending
    <3>2. Takes(c)
      BY <1>3, <2>1, <3>1 DEF End, At, Takes
    <3> QED
      BY <3>2 DEF Effect
  <2>2. CASE ~held
    <3>1. Skips(c, how)
      BY <1>3, <1>a, <2>2 DEF End, At, Skips
    <3> QED
      BY <3>1 DEF Effect
  <2> QED
    BY <2>1, <2>2
<1>4. CASE how = "ok" /\ Untouched /\ Look(c)
  <2>1. CASE held
    <3>1. Goto(c, "inside") /\ "inside" \in PCs
      BY <1>4, <2>1 DEF Look, PCs
    <3>2. call'[c].pc = "inside"
      BY <1>g, <3>1
    <3>3. GoesOn(c)
      BY <1>4, <2>1, <3>2 DEF Look, At, GoesOn
    <3> QED
      BY <3>3 DEF Effect
  <2>2. CASE ~held
    <3>1. Goto(c, "acquiring") /\ "acquiring" \in PCs
      BY <1>4, <2>2 DEF Look, PCs
    <3>2. call'[c].pc = "acquiring"
      BY <1>g, <3>1
    <3>3. GoesOn(c)
      BY <1>4, <2>2, <3>2 DEF Look, At, GoesOn
    <3> QED
      BY <3>3 DEF Effect
  <2> QED
    BY <2>1, <2>2
<1>5. CASE how = "ok" /\ Untouched /\ Acquired(c)
  <2>1. Goto(c, "running") /\ "running" \in PCs
    BY <1>5 DEF Acquired, PCs
  <2>2. call'[c].pc = "running"
    BY <1>g, <2>1
  <2>3. GoesOn(c)
    BY <1>5, <2>2 DEF Acquired, GoesOn
  <2> QED
    BY <2>3 DEF Effect
<1>6. CASE how = "ok" /\ Untouched /\ Described(c)
  <2>1. Describes(c, how)
    BY <1>6, <1>a DEF Described, Describes
  <2> QED
    BY <2>1 DEF Effect
<1>7. CASE how = "failed" /\ Untouched /\ BeginFailed(c)
  <2>1. Misses(c, how)
    BY <1>7, <1>a DEF BeginFailed, Misses
  <2> QED
    BY <2>1 DEF Effect
<1>8. CASE /\ how = (IF call[c].pc = "describing" THEN "ok" ELSE "failed")
           /\ Untouched /\ TimedOut(c)
  <2>1. call'[c].pc = "idle" /\ Quiet
    BY <1>8, <1>a DEF TimedOut
  <2>2. CASE call[c].pc = "describing"
    <3>1. Describes(c, how)
      BY <1>8, <2>1, <2>2 DEF Describes
    <3> QED
      BY <3>1 DEF Effect
  <2>3. CASE call[c].pc # "describing"
    <3>1. call[c].pc = "beginning" \/ call[c].pc = "acquiring"
      BY <1>8, <2>3 DEF TimedOut
    <3>2. Misses(c, how)
      BY <1>8, <2>1, <2>3, <3>1 DEF Misses
    <3> QED
      BY <3>2 DEF Effect
  <2> QED
    BY <2>2, <2>3
<1>9. CASE \/ how = "ok" /\ Ended(c) /\ Settles(call[c].kind = "commit")
           \/ how = "failed" /\ EndFailed(c) /\ Settles(FALSE)
  <2>1. /\ call[c].pc = "ending" /\ held' = held /\ Answer(c)
        /\ \/ how = "ok" /\ Settles(call[c].kind = "commit")
           \/ how = "failed" /\ Settles(FALSE)
    BY <1>9 DEF Ended, EndFailed
  <2>2. lock = c /\ ~held
    BY <1>0, <2>1 DEF OneLocks, NoneBegun, Locked
  <2>3. Leaves(c, how)
    BY <1>a, <2>1, <2>2 DEF Leaves
  <2> QED
    BY <2>3 DEF Effect
<1>10. CASE \/ how = "ok" /\ RanInside(c) /\ Inside(Written(c))
            \/ how = "failed" /\ RanInside(c) /\ Untouched
  <2>1. Joins(c, how)
    BY <1>10, <1>a DEF RanInside, Joins
  <2> QED
    BY <2>1 DEF Effect
<1>11. CASE how = "ok" /\ Ran(c) /\ AtOnce(Written(c))
  <2>1. call'[c].pc = "idle" \/ call'[c].pc = "describing"
    <3>1. "describing" \in PCs
      BY DEF PCs
    <3> QED
      BY <1>11, <1>a, <1>g, <3>1 DEF Ran
  <2>2. Alone(c, how)
    BY <1>11, <2>1 DEF Ran, Alone
  <2> QED
    BY <2>2 DEF Effect
<1>12. CASE how = "failed" /\ Ran(c) /\ call'[c].pc = "idle" /\ Untouched
  <2>1. Misses(c, how)
    BY <1>12 DEF Ran, Misses
  <2> QED
    BY <2>1 DEF Effect
<1> QED
  BY <1>1, <1>2, <1>3, <1>4, <1>5, <1>6, <1>7, <1>8, <1>9, <1>10, <1>11, <1>12 DEF Works

Dropped(c) ==
    /\ call[c].pc # "idle" /\ call'[c].pc = "idle" /\ Quiet
    /\ CASE call[c].pc = "ending"  -> \E done \in {FALSE, call[c].kind = "commit"} : Settles(done)
         [] call[c].pc = "inside"  -> \E done \in {{}, Written(c)} : Inside(done)
         [] call[c].pc = "running" -> \E done \in {{}, Written(c)} : AtOnce(done)
         [] OTHER                  -> Untouched

LEMMA DropEffect ==
  ASSUME SessionInv, NEW c \in Calls, IsDropped(c)
  PROVE  Dropped(c)
<1>1. Typed /\ Drop(c)
  BY DEF SessionInv, IsDropped
<1>2. call[c].pc # "idle" /\ call'[c].pc = "idle" /\ Quiet
  BY <1>1, Answering DEF Drop, Quiet
<1> QED
  BY <1>2, Zenon DEF IsDropped, Dropped

LEMMA CallEffect ==
  ASSUME SessionInv, NEW c \in Calls, NEW kind \in Kinds, Call(c, kind)
  PROVE  /\ ComesIn(c) /\ call'[c].kind = kind
         /\ kind # "side" => call'[c].pc = "locking"
<1>1. Typed
  BY DEF SessionInv
<1>2. call'[c].kind = kind
  BY <1>1 DEF Typed, Call
<1>3. call'[c].pc = IF kind = "side" THEN "acquiring" ELSE "locking"
  BY <1>1, Calling
<1>4. call[c].pc = "idle" /\ Quiet
  BY DEF Call, Quiet
<1> QED
  BY <1>2, <1>3, <1>4 DEF ComesIn, Moves

(* Steps of a call that are steps of the driver too.                        *)
LEMMA WorksAreSteps ==
  ASSUME NEW c \in Calls
  PROVE  /\ \A how : Works(c, how) => StepOf(c)
         /\ IsDropped(c) => StepOf(c)
         /\ \A kind \in Kinds : Call(c, kind) => StepOf(c)
<1>1. ASSUME NEW how, Works(c, how) PROVE StepOf(c)
  BY <1>1, Zenon DEF Works, StepOf
<1> QED
  BY <1>1, Zenon DEF IsDropped, StepOf

LEMMA DriverStep ==
  ASSUME DriverInv, NEW c \in Calls, StepOf(c), NEW how,
         (ComesIn(c) /\ Untouched) \/ Effect(c, how) \/ Dropped(c)
  PROVE  DriverInv'
<1>0. /\ SessionInv /\ InsideIsHeld /\ EndingIsSeen /\ OpenIsHeld
      /\ Typed /\ OneLocks /\ HeldIsVisible
  BY DEF DriverInv, SessionInv
<1>1. SessionInv'
  <2>1. Next
    BY Zenon DEF Next, StepOf
  <2> QED
    BY <1>0, <2>1, StepSession
<1>2. \A u \in Calls \ {c} : call'[u].pc = call[u].pc
  BY <1>0, OthersStay
<1>3. \A u \in Calls : call[u].pc \in {"ending", "inside"} => lock = u
  BY <1>0 DEF OneLocks, Locked
<1>4. lock = None => \A u \in Calls : call[u].pc \notin {"ending", "inside"}
  BY <1>3, SomePool
<1> DEFINE Conclusion == InsideIsHeld' /\ EndingIsSeen' /\ OpenIsHeld'
<1>5. Conclusion
  <2> USE <1>0, <1>2 DEF InsideIsHeld, EndingIsSeen, Moves, Quiet
  <2>t. Untouched => open' = open
    BY DEF Untouched, Table
  <2>s. \A lasting : Settles(lasting) => open' = {}
    BY DEF Settles
  <2>1. CASE ComesIn(c) /\ Untouched
    <3>1. InsideIsHeld' /\ EndingIsSeen'
      BY <2>1 DEF ComesIn
    <3>2. OpenIsHeld'
      BY <2>1, <2>t DEF ComesIn, OpenIsHeld
    <3> QED
      BY <3>1, <3>2
  <2>2. CASE GoesOn(c)
    <3>1. InsideIsHeld' /\ EndingIsSeen'
      BY <2>2 DEF GoesOn
    <3>2. OpenIsHeld'
      BY <2>2, <2>t DEF GoesOn, OpenIsHeld
    <3> QED
      BY <3>1, <3>2
  <2>3. CASE Takes(c)
    <3>1. InsideIsHeld' /\ EndingIsSeen'
      BY <2>3, <1>4 DEF Takes, HeldIsVisible
    <3>2. OpenIsHeld'
      BY <2>3 DEF Takes, OpenIsHeld
    <3> QED
      BY <3>1, <3>2
  <2>4. CASE Opens(c, how)
    BY <2>4 DEF Opens, OpenIsHeld
  <2>5. CASE Skips(c, how)
    <3>1. InsideIsHeld' /\ EndingIsSeen'
      BY <2>5, <1>4 DEF Skips
    <3>2. OpenIsHeld'
      BY <2>5, <1>4, <2>t DEF Skips, OpenIsHeld
    <3> QED
      BY <3>1, <3>2
  <2>6. CASE Leaves(c, how)
    <3>1. InsideIsHeld' /\ EndingIsSeen'
      BY <2>6, <1>3 DEF Leaves
    <3>2. OpenIsHeld'
      BY <2>6, <2>s DEF Leaves, OpenIsHeld
    <3> QED
      BY <3>1, <3>2
  <2>7. CASE Joins(c, how)
    <3>1. held'
      BY <2>7 DEF Joins
    <3> QED
      BY <2>7, <3>1 DEF Joins, OpenIsHeld
  <2>8. CASE Alone(c, how)
    <3>1. InsideIsHeld' /\ EndingIsSeen'
      BY <2>8 DEF Alone
    <3>2. OpenIsHeld'
      BY <2>8 DEF Alone, AtOnce, OpenIsHeld
    <3> QED
      BY <3>1, <3>2
  <2>9. CASE Describes(c, how)
    <3>1. InsideIsHeld' /\ EndingIsSeen'
      BY <2>9 DEF Describes
    <3>2. OpenIsHeld'
      BY <2>9, <2>t DEF Describes, OpenIsHeld
    <3> QED
      BY <3>1, <3>2
  <2>10. CASE Misses(c, how)
    <3>1. InsideIsHeld' /\ EndingIsSeen'
      BY <2>10 DEF Misses
    <3>2. OpenIsHeld'
      BY <2>10, <2>t DEF Misses, OpenIsHeld
    <3> QED
      BY <3>1, <3>2
  <2>11. CASE Dropped(c)
    <3>1. InsideIsHeld' /\ EndingIsSeen'
      BY <2>11 DEF Dropped
    <3>2. CASE call[c].pc = "ending"
      <4>1. open' = {}
        BY <2>11, <3>2, <2>s DEF Dropped
      <4> QED
        BY <3>1, <4>1 DEF OpenIsHeld
    <3>3. CASE call[c].pc = "inside"
      <4>1. held'
        BY <2>11, <3>3 DEF Dropped
      <4> QED
        BY <3>1, <4>1 DEF OpenIsHeld
    <3>4. CASE call[c].pc = "running"
      <4>1. open' = open /\ held' = held
        BY <2>11, <3>4 DEF Dropped, AtOnce
      <4> QED
        BY <2>11, <3>1, <3>4, <4>1 DEF OpenIsHeld
    <3>5. CASE call[c].pc \notin {"ending", "inside", "running"}
      <4>1. open' = open /\ held' = held
        BY <2>11, <2>t, <3>5 DEF Dropped
      <4> QED
        BY <2>11, <3>1, <3>5, <4>1 DEF OpenIsHeld
    <3> QED
      BY <3>2, <3>3, <3>4, <3>5
  <2> HIDE DEF Conclusion
  <2> QED
    BY <2>1, <2>2, <2>3, <2>4, <2>5, <2>6, <2>7, <2>8, <2>9, <2>10, <2>11 DEF Effect
<1> QED
  BY <1>1, <1>5 DEF DriverInv

-----------------------------------------------------------------------------
(* What a step of call c can do to the table.                               *)
DriverEffect(c, how) == (ComesIn(c) /\ Untouched) \/ Effect(c, how) \/ Dropped(c)

TableStep(c) ==
    \/ Untouched
    \/ call[c].pc = "ending" /\ \E lasting \in BOOLEAN : Settles(lasting)
    \/ call[c].pc = "inside" /\ Inside(Written(c))
    \/ call[c].pc = "running" /\ AtOnce(Written(c))

LEMMA NothingWritten ==
  ASSUME EditTyped, Inside({}) \/ AtOnce({})
  PROVE  Untouched
<1>1. More({}) = applied
  BY DEF More, EditTyped
<1> QED
  BY <1>1 DEF Inside, AtOnce, Untouched, Table

LEMMA TableSteps ==
  ASSUME EditTyped, NEW c \in Calls, NEW how, DriverEffect(c, how)
  PROVE  TableStep(c)
<1> USE DEF TableStep, Moves
<1>1. CASE ComesIn(c) /\ Untouched
  BY <1>1
<1>2. CASE GoesOn(c) \/ Takes(c) \/ Opens(c, how) \/ Skips(c, how) \/ Describes(c, how)
           \/ Misses(c, how)
  BY <1>2 DEF GoesOn, Takes, Opens, Skips, Describes, Misses
<1>3. CASE Leaves(c, how)
  BY <1>3 DEF Leaves
<1>4. CASE Joins(c, how)
  BY <1>4 DEF Joins
<1>5. CASE Alone(c, how)
  BY <1>5 DEF Alone
<1>6. CASE Dropped(c)
  <2>1. CASE call[c].pc = "ending"
    BY <1>6, <2>1 DEF Dropped
  <2>2. CASE call[c].pc = "inside"
    BY <1>6, <2>2, NothingWritten DEF Dropped
  <2>3. CASE call[c].pc = "running"
    BY <1>6, <2>3, NothingWritten DEF Dropped
  <2>4. CASE call[c].pc \notin {"ending", "inside", "running"}
    BY <1>6, <2>4 DEF Dropped
  <2> QED
    BY <2>1, <2>2, <2>3, <2>4
<1> QED
  BY <1>1, <1>2, <1>3, <1>4, <1>5, <1>6 DEF DriverEffect, Effect

LEMMA Adds ==
  ASSUME EditTyped, NEW done
  PROVE  /\ More(done) \in [Statements -> Nat]
         /\ \A s \in Statements : More(done)[s] = IF s \in done THEN applied[s] + 1 ELSE applied[s]
  BY DEF More, EditTyped

LEMMA TableTyped ==
  ASSUME EditTyped, NEW c \in Calls, TableStep(c)
  PROVE  open' \subseteq Statements /\ applied' \in [Statements -> Nat]
<1>1. open \subseteq Statements /\ applied \in [Statements -> Nat] /\ edit.at \in Statements
  BY DEF EditTyped, EditRecord
<1>2. Written(c) \subseteq Statements
  BY <1>1 DEF Written
<1>3. \A done : More(done) \in [Statements -> Nat]
  BY Adds
<1>4. CASE Untouched
  BY <1>1, <1>4 DEF Untouched, Table
<1>5. ASSUME NEW lasting \in BOOLEAN, Settles(lasting)
      PROVE  open' \subseteq Statements /\ applied' \in [Statements -> Nat]
  BY <1>1, <1>3, <1>5 DEF Settles
<1>6. CASE Inside(Written(c))
  BY <1>1, <1>2, <1>6 DEF Inside
<1>7. CASE AtOnce(Written(c))
  BY <1>1, <1>3, <1>7 DEF AtOnce
<1> QED
  BY <1>4, <1>5, <1>6, <1>7 DEF TableStep

(* Cancelled and lost edits: what is left of the invariant.                 *)
LEMMA CancelledKeeps ==
  ASSUME EditInv, Cancelled
  PROVE  EditInv'
<1>1. EditTyped /\ DriverInv /\ Mine \in Calls /\ SessionInv
  BY EditConstants DEF EditInv, DriverInv
<1>2. Dropped(Mine) /\ StepOf(Mine) /\ DriverEffect(Mine, "ok")
  BY <1>1, DropEffect, WorksAreSteps DEF Cancelled, DriverEffect
<1>3. DriverInv'
  BY <1>1, <1>2, DriverStep DEF DriverEffect
<1>4. open' \subseteq Statements /\ applied' \in [Statements -> Nat]
  BY <1>1, <1>2, TableSteps, TableTyped
<1>5. EditTyped'
  BY <1>1, <1>4 DEF Cancelled, EditTyped, EditRecord
<1> QED
  BY <1>3, <1>5 DEF EditInv, Cancelled

LEMMA LostKeeps ==
  ASSUME EditInv, Lost
  PROVE  EditInv'
<1>1. EditTyped /\ Mine \in Calls
  BY EditConstants DEF EditInv
<1>2. \A c \in Calls : call'[c] = NoCall /\ call'[c].pc = "idle"
  BY DEF Lost, NoCall
<1>3. SessionInv'
  <2>1. Typed'
    <3>1. call' \in [Calls -> CallRecord]
      BY DEF Lost, NoCall, CallRecord, PCs
    <3> QED
      BY <3>1, SomePool DEF Lost, Typed
  <2>2. OneLocks' /\ NoneBegun'
    BY <1>2, SomePool DEF OneLocks, NoneBegun, Lost, Locked
  <2>3. StillWithin' /\ HeldIsVisible'
    BY <1>2 DEF StillWithin, HeldIsVisible, Lost, NoCall
  <2> QED
    BY <2>1, <2>2, <2>3 DEF SessionInv
<1>4. DriverInv'
  BY <1>2, <1>3 DEF DriverInv, InsideIsHeld, EndingIsSeen, OpenIsHeld, Lost
<1>5. EditTyped'
  <2>1. edit' \in EditRecord
    <3>1. \/ edit' = [edit EXCEPT !.reply = "failed"]
          \/ edit' = [edit EXCEPT !.phase = "over"]
          \/ edit' = edit
      BY DEF Lost
    <3> QED
      BY <1>1, <3>1 DEF EditTyped, EditRecord, Phases
  <2> QED
    BY <1>1, <2>1 DEF EditTyped, Lost
<1> QED
  BY <1>4, <1>5 DEF EditInv, Lost

-----------------------------------------------------------------------------
(* Other clients.  Their steps leave the edit alone, and while it has the   *)
(* driver for itself, the table as well.                                    *)
Good == Waits /\ Owns /\ Counts /\ Whole

LEMMA OtherEffect ==
  ASSUME EditInv, NEW c \in Calls \ {Mine}, OtherWorks(c)
  PROVE  /\ StepOf(c) /\ \E how : DriverEffect(c, how)
         /\ call'[Mine].pc = call[Mine].pc /\ call'[Mine].kind = call[Mine].kind
         /\ \A u \in Calls \ {c} : call'[u].pc = call[u].pc
<1>1. SessionInv /\ Typed /\ Mine \in Calls
  BY EditConstants DEF EditInv, DriverInv, SessionInv
<1>2. ASSUME NEW kind \in Kinds, Call(c, kind), Untouched
      PROVE  StepOf(c) /\ DriverEffect(c, "ok")
  BY <1>1, <1>2, CallEffect, WorksAreSteps DEF DriverEffect
<1>3. ASSUME NEW how \in {"ok", "failed"}, Works(c, how)
      PROVE  StepOf(c) /\ DriverEffect(c, how)
  BY <1>1, <1>3, Effects, WorksAreSteps DEF DriverEffect
<1>4. CASE IsDropped(c)
  <2>1. StepOf(c) /\ DriverEffect(c, "ok")
    BY <1>1, <1>4, DropEffect, WorksAreSteps DEF DriverEffect
  <2> QED
    BY <1>1, <2>1, OthersStay
<1>5. StepOf(c) /\ \E how : DriverEffect(c, how)
  BY <1>2, <1>3, <1>4, WorksAreSteps, <1>1, DropEffect DEF OtherWorks, DriverEffect
<1> QED
  BY <1>1, <1>5, OthersStay

LEMMA OtherLeavesGood ==
  ASSUME EditInv, ~disturbed', NEW c \in Calls \ {Mine}, OtherWorks(c)
  PROVE  Good'
<1>0. EditTyped /\ DriverInv /\ Mine \in Calls /\ held \in BOOLEAN /\ held' \in BOOLEAN
  BY EditConstants, OtherEffect, DriverStep
     DEF EditInv, DriverInv, SessionInv, Typed, DriverEffect
<1>1. /\ ~disturbed /\ (Wrapping => held' = held)
      /\ edit' = edit /\ applies' = applies /\ began' = began
  BY DEF OtherWorks
<1>2. Waits /\ Owns /\ Counts /\ Whole
  BY <1>1 DEF EditInv
<1>3. PICK how : DriverEffect(c, how)
  BY OtherEffect
<1>4. /\ call'[Mine].pc = call[Mine].pc /\ call'[Mine].kind = call[Mine].kind
      /\ \A u \in Calls \ {c} : call'[u].pc = call[u].pc
  BY OtherEffect
<1>5. \/ Untouched
      \/ ~Wrapping /\ \E lasting \in BOOLEAN : Settles(lasting)
  <2>1. TableStep(c)
    BY <1>0, <1>3, TableSteps
  <2>2. Written(c) = {}
    BY DEF Written
  <2>3. Wrapping => call[c].pc # "ending"
    BY <1>2 DEF Owns
  <2> QED
    BY <1>0, <2>1, <2>2, <2>3, NothingWritten DEF TableStep
<1>6. Wrapping => call'[c].pc # "ending"
  <2>1. call'[c].pc = "ending" => Takes(c)
    BY <1>3 DEF DriverEffect, ComesIn, Moves, Effect, GoesOn, Opens, Skips, Leaves, Joins,
                Alone, Describes, Misses, Dropped
  <2> QED
    BY <1>1, <2>1 DEF Takes
<1>7. Waits'
  BY <1>1, <1>2, <1>4 DEF Waits, Out
<1>8. Owns'
  <2>1. Wrapping' <=> Wrapping
    BY <1>1 DEF Wrapping
  <2> SUFFICES ASSUME Wrapping PROVE Owns'
    BY <2>1 DEF Owns
  <2>2. \A u \in Calls \ {Mine} : call'[u].pc # "ending"
    BY <1>2, <1>4, <1>6 DEF Owns
  <2> QED
    BY <1>1, <1>2, <1>4, <2>2 DEF Owns, Out
<1>9. ASSUME Untouched PROVE Counts' /\ Whole'
  <2>1. open' = open /\ applied' = applied
    BY <1>9 DEF Untouched, Table
  <2>2. /\ \A s : Clean(s)' <=> Clean(s)
        /\ \A from : Fresh(from)' <=> Fresh(from)
        /\ (Made' <=> Made) /\ (Out' <=> Out) /\ Ours' = Ours
    BY <1>1, <1>4, <2>1 DEF Clean, Fresh, Made, Out, Ours
  <2>3. Counts'
    BY <1>1, <1>2, <2>1, <2>2 DEF Counts
  <2>4. Whole'
    BY <1>1, <1>2, <2>1, <2>2 DEF Whole
  <2> QED
    BY <2>3, <2>4
<1>10. ASSUME ~Wrapping, NEW lasting \in BOOLEAN, Settles(lasting)
       PROVE  Counts' /\ Whole'
  <2>1. /\ open' = {}
        /\ \A s \in Statements :
              /\ applied'[s] = IF lasting /\ s \in open THEN applied[s] + 1 ELSE applied[s]
              /\ applied[s] \in Nat
    BY <1>0, <1>10, Adds DEF Settles, EditTyped
  <2>2. /\ \A s \in Statements : Clean(s) => Clean(s)'
        /\ \A from : Fresh(from) => Fresh(from)'
        /\ Ours' = Ours /\ (Made' <=> Made) /\ (Out' <=> Out)
    BY <1>1, <1>4, <2>1 DEF Clean, Fresh, Ours, Made, Out
  <2>3. \A s \in Statements : applied'[s] + (IF s \in open' THEN 1 ELSE 0) <= 1
    BY <1>2, <2>1 DEF Counts
  <2>4. Counts'
    BY <1>1, <1>2, <2>2, <2>3 DEF Counts
  <2>5. edit.phase \notin {"commit", "rollback"} /\ ~(edit.wrapped /\ edit.phase = "step")
    BY <1>2, <1>10 DEF Waits, Wrapping
  <2>6. \A s \in Ours : s \in Statements
    BY DEF Ours
  <2>7. Whole'
    BY <1>1, <1>2, <2>1, <2>2, <2>5, <2>6 DEF Whole
  <2> QED
    BY <2>4, <2>7
<1> QED
  BY <1>5, <1>7, <1>8, <1>9, <1>10 DEF Good

LEMMA OtherKeeps ==
  ASSUME EditInv, NEW c \in Calls \ {Mine}, OtherWorks(c)
  PROVE  EditInv'
<1>1. EditTyped /\ DriverInv
  BY DEF EditInv
<1>2. PICK how : DriverEffect(c, how)
  BY OtherEffect
<1>3. DriverInv'
  BY <1>1, <1>2, OtherEffect, DriverStep DEF DriverEffect
<1>4. open' \subseteq Statements /\ applied' \in [Statements -> Nat]
  BY <1>1, <1>2, TableSteps, TableTyped
<1>5. EditTyped'
  <2>1. disturbed' \in BOOLEAN /\ edit' = edit /\ began' = began
    BY <1>1 DEF OtherWorks, EditTyped
  <2> QED
    BY <1>1, <1>4, <2>1 DEF EditTyped
<1>6. disturbed' \/ Good'
  BY OtherLeavesGood
<1> QED
  BY <1>3, <1>5, <1>6 DEF EditInv, Good

-----------------------------------------------------------------------------
(* The plugin's own steps: what sending a call, or nothing, leaves alone.   *)
LEMMA CallIsOut ==
  ASSUME EditInv, NEW kind \in Kinds, kind # "side", Call(Mine, kind), Untouched
  PROVE  /\ ~Out /\ Out' /\ call'[Mine].pc = "locking" /\ call'[Mine].kind = kind
         /\ \A u \in Calls \ {Mine} : call'[u].pc = call[u].pc
         /\ held' = held /\ open' = open /\ applied' = applied
         /\ DriverInv'
<1>1. EditTyped /\ DriverInv /\ Mine \in Calls
  BY EditConstants DEF EditInv
<1>2. SessionInv /\ Typed
  BY <1>1 DEF DriverInv, SessionInv
<1>3. StepOf(Mine) /\ ComesIn(Mine) /\ call'[Mine].kind = kind /\ call'[Mine].pc = "locking"
  BY <1>1, <1>2, CallEffect, WorksAreSteps
<1>4. held' = held /\ open' = open /\ applied' = applied
  BY <1>3 DEF ComesIn, Quiet, Table, Untouched
<1>5. DriverInv'
  BY <1>1, <1>3, <1>4, DriverStep
<1> QED
  BY <1>1, <1>2, <1>3, <1>4, <1>5, OthersStay DEF Out, Call

(* A statement that reaches the driver is a call of Mine.                   *)
LEMMA SendsEffect ==
  ASSUME EditInv, NEW kind \in {"begin", "commit", "rollback", "statement"}, Sends(kind),
         ~UNCHANGED vars
  PROVE  /\ ~Out /\ Out' /\ call'[Mine].pc = "locking" /\ call'[Mine].kind = kind
         /\ \A u \in Calls \ {Mine} : call'[u].pc = call[u].pc
         /\ held' = held /\ open' = open /\ applied' = applied
         /\ began' = began /\ disturbed' = disturbed
         /\ DriverInv'
<1>1. kind \in Kinds /\ kind # "side" /\ Call(Mine, kind) /\ disturbed' = disturbed
  BY DEF Sends, Strays, Kinds
<1>2. Untouched /\ began' = began
  BY DEF Sends, Table, Untouched
<1> QED
  BY <1>1, <1>2, CallIsOut

LEMMA StayEffect ==
  ASSUME EditInv, UNCHANGED <<vars, Table>>
  PROVE  /\ call' = call /\ held' = held /\ (Out' <=> Out) /\ DriverInv'
         /\ open' = open /\ applied' = applied
  BY DEF EditInv, DriverInv, SessionInv, InsideIsHeld, EndingIsSeen, OpenIsHeld, vars, Table, Out,
         Typed, OneLocks, NoneBegun, StillWithin, HeldIsVisible

(* What the plugin does to its own state.                                   *)
LEMMA EditFields ==
  ASSUME EditTyped
  PROVE  /\ \A p \in Phases : Phase(p) =>
               /\ edit' \in EditRecord /\ edit'.phase = p /\ edit'.reply = None
               /\ edit'.first = edit.first /\ edit'.at = edit.at
               /\ edit'.wrapped = edit.wrapped /\ edit'.again = edit.again
         /\ \A s \in Statements : SendsStatement(s) =>
               /\ edit' \in EditRecord /\ edit'.phase = "step" /\ edit'.reply = None
               /\ edit'.first = edit.first /\ edit'.at = s
               /\ edit'.wrapped = edit.wrapped /\ edit'.again = edit.again
         /\ \A again \in BOOLEAN : Reload(again) =>
               /\ edit' \in EditRecord /\ edit'.phase = "reload" /\ edit'.reply = None
               /\ edit'.first = edit.first /\ edit'.at = edit.at
               /\ edit'.wrapped = edit.wrapped /\ edit'.again = again
         /\ \A s \in Statements : Offers(s) =>
               /\ edit' \in EditRecord /\ edit'.phase = "preview" /\ edit'.reply = None
               /\ edit'.first = s /\ edit'.at = edit.at
               /\ edit'.wrapped = edit.wrapped /\ edit'.again = edit.again
<1> USE DEF EditTyped, EditRecord
<1>1. ASSUME NEW p \in Phases, Phase(p)
      PROVE  /\ edit' \in EditRecord /\ edit'.phase = p /\ edit'.reply = None
             /\ edit'.first = edit.first /\ edit'.at = edit.at
             /\ edit'.wrapped = edit.wrapped /\ edit'.again = edit.again
  BY <1>1 DEF Phase
<1>2. ASSUME NEW s \in Statements, SendsStatement(s)
      PROVE  /\ edit' \in EditRecord /\ edit'.phase = "step" /\ edit'.reply = None
             /\ edit'.first = edit.first /\ edit'.at = s
             /\ edit'.wrapped = edit.wrapped /\ edit'.again = edit.again
  BY <1>2 DEF SendsStatement, Phases
<1>3. ASSUME NEW again \in BOOLEAN, Reload(again)
      PROVE  /\ edit' \in EditRecord /\ edit'.phase = "reload" /\ edit'.reply = None
             /\ edit'.first = edit.first /\ edit'.at = edit.at
             /\ edit'.wrapped = edit.wrapped /\ edit'.again = again
  BY <1>3 DEF Reload, Phases
<1>4. ASSUME NEW s \in Statements, Offers(s)
      PROVE  /\ edit' \in EditRecord /\ edit'.phase = "preview" /\ edit'.reply = None
             /\ edit'.first = s /\ edit'.at = edit.at
             /\ edit'.wrapped = edit.wrapped /\ edit'.again = edit.again
  BY <1>4 DEF Offers, Phases
<1> QED
  BY <1>1, <1>2, <1>3, <1>4

LEMMA ApplyKeeps ==
  ASSUME EditInv, Apply
  PROVE  EditInv'
<1>0. EditTyped /\ DriverInv /\ edit \in EditRecord /\ (disturbed \/ Good)
  BY DEF EditInv, EditTyped, Good
<1>1. /\ call' = call /\ held' = held /\ (Out' <=> Out) /\ DriverInv'
      /\ open' = open /\ applied' = applied /\ disturbed' = disturbed
  BY StayEffect DEF Apply, history
<1>2. /\ edit.phase = "preview" /\ edit' \in EditRecord
      /\ edit'.phase = "asking" /\ edit'.reply = None /\ edit'.first = edit.first
      /\ began' = edit.first /\ edit.first \in Statements
  BY <1>0, EditFields DEF Apply, Phases, EditRecord
<1> SUFFICES ASSUME ~disturbed PROVE Good'
  BY <1>0, <1>1, <1>2 DEF EditInv, EditTyped, Good
<1>3. Waits /\ Owns /\ Counts /\ Whole
  BY <1>0 DEF Good
<1>w. ~Out
  BY <1>2, <1>3 DEF Waits
<1>5. Waits'
  BY <1>1, <1>2, <1>3, <1>w, EditConstants DEF Waits
<1>6. Owns'
  BY <1>1, <1>2, <1>3
     DEF Owns, Waits, Wrapping, Out
<1>7. Counts'
  BY <1>1, <1>2, <1>3, <1>w
     DEF Counts, Fresh, Clean, Made
<1>8. Whole'
  BY <1>1, <1>2, <1>3
     DEF Whole, Counts, Fresh, Clean, Made, Ours, Waits, Out
<1> QED
  BY <1>5, <1>6, <1>7, <1>8 DEF Good

LEMMA StatusReadKeeps ==
  ASSUME EditInv, StatusRead
  PROVE  EditInv'
<1>0. EditTyped /\ DriverInv /\ edit \in EditRecord /\ (disturbed \/ Good)
  BY DEF EditInv, EditTyped, Good
<1>1. /\ call' = call /\ held' = held /\ (Out' <=> Out) /\ DriverInv'
      /\ open' = open /\ applied' = applied /\ disturbed' = disturbed
  BY StayEffect DEF StatusRead, history
<1>2. /\ edit.phase = "asking" /\ edit' \in EditRecord /\ began' = began
      /\ edit'.phase = "told" /\ edit'.reply = edit.reply /\ edit'.first = edit.first
      /\ (edit'.wrapped <=> ~mirror)
  BY <1>0 DEF StatusRead, history, EditRecord, Phases, DriverInv, SessionInv, Typed
<1> SUFFICES ASSUME ~disturbed PROVE Good'
  BY <1>0, <1>1, <1>2 DEF EditInv, EditTyped, Good
<1>3. Waits /\ Owns /\ Counts /\ Whole
  BY <1>0 DEF Good
<1>4. ~mirror => ~held /\ \A c \in Calls : call[c].pc # "ending"
  BY <1>0 DEF DriverInv, SessionInv, HeldIsVisible, EndingIsSeen
<1>w. ~Out
  BY <1>2, <1>3 DEF Waits
<1>5. Waits'
  BY <1>1, <1>2, <1>3, <1>w, EditConstants DEF Waits
<1>6. Owns'
  BY <1>1, <1>2, <1>3, <1>4
     DEF Owns, Waits, Wrapping, Out
<1>7. Counts'
  BY <1>1, <1>2, <1>3, <1>w
     DEF Counts, Fresh, Clean, Made
<1>8. Whole'
  BY <1>1, <1>2, <1>3
     DEF Whole, Counts, Fresh, Clean, Made, Ours, Waits, Out
<1> QED
  BY <1>5, <1>6, <1>7, <1>8 DEF Good

LEMMA BusyKeeps ==
  ASSUME EditInv, Busy
  PROVE  EditInv'
<1>0. EditTyped /\ DriverInv /\ edit \in EditRecord /\ (disturbed \/ Good)
  BY DEF EditInv, EditTyped, Good
<1>1. /\ call' = call /\ held' = held /\ (Out' <=> Out) /\ DriverInv'
      /\ open' = open /\ applied' = applied /\ disturbed' = disturbed
  BY StayEffect DEF Busy, history
<1>2. /\ edit.phase = "told" /\ edit' \in EditRecord /\ began' = began
      /\ edit'.phase = "over" /\ edit'.reply = None
      /\ edit'.first = edit.first /\ edit'.wrapped = edit.wrapped
  BY <1>0, EditFields DEF Busy, history, Phases
<1> SUFFICES ASSUME ~disturbed PROVE Good'
  BY <1>0, <1>1, <1>2 DEF EditInv, EditTyped, Good
<1>3. Waits /\ Owns /\ Counts /\ Whole
  BY <1>0 DEF Good
<1>w. ~Out
  BY <1>2, <1>3 DEF Waits
<1>5. Waits'
  BY <1>1, <1>2, <1>3, <1>w, EditConstants DEF Waits
<1>6. Owns'
  BY <1>1, <1>2, <1>3
     DEF Owns, Waits, Wrapping, Out
<1>7. Counts'
  BY <1>1, <1>2, <1>3, <1>w
     DEF Counts, Fresh, Clean, Made
<1>8. Whole'
  BY <1>1, <1>2, <1>3
     DEF Whole, Counts, Fresh, Clean, Made, Ours, Waits, Out
<1> QED
  BY <1>5, <1>6, <1>7, <1>8 DEF Good

LEMMA ReloadedKeeps ==
  ASSUME EditInv, Reloaded
  PROVE  EditInv'
<1>0. EditTyped /\ DriverInv /\ edit \in EditRecord /\ (disturbed \/ Good)
  BY DEF EditInv, EditTyped, Good
<1>1. /\ call' = call /\ held' = held /\ (Out' <=> Out) /\ DriverInv'
      /\ open' = open /\ applied' = applied /\ disturbed' = disturbed
  BY StayEffect DEF Reloaded, Offers, history
<1>2. /\ edit.phase = "reload" /\ edit.reply # None /\ edit.again
      /\ edit' \in EditRecord /\ began' = began
      /\ edit'.phase = "preview" /\ edit'.reply = None
      /\ edit'.first = edit.first /\ edit'.wrapped = edit.wrapped
  <2>1. Offers(edit.first) /\ edit.first \in Statements
    BY <1>0 DEF Reloaded, EditRecord
  <2> QED
    BY <1>0, <2>1, EditFields, EditConstants DEF Reloaded, Offers, history
<1> SUFFICES ASSUME ~disturbed PROVE Good'
  BY <1>0, <1>1, <1>2 DEF EditInv, EditTyped, Good
<1>3. Waits /\ Owns /\ Counts /\ Whole
  BY <1>0 DEF Good
<1>4. Fresh(edit.first)
  BY <1>2, <1>3 DEF Whole
<1>w. ~Out
  BY <1>2, <1>3 DEF Waits
<1>5. Waits'
  BY <1>1, <1>2, <1>3, <1>w, EditConstants DEF Waits
<1>6. Owns'
  BY <1>1, <1>2, <1>3
     DEF Owns, Waits, Wrapping, Out
<1>7. Counts'
  BY <1>1, <1>2, <1>3, <1>w, <1>4
     DEF Counts, Fresh, Clean, Made
<1>8. Whole'
  BY <1>1, <1>2, <1>3
     DEF Whole, Counts, Fresh, Clean, Made, Ours, Waits, Out
<1> QED
  BY <1>5, <1>6, <1>7, <1>8 DEF Good

LEMMA StopsKeeps ==
  ASSUME EditInv, Stops
  PROVE  EditInv'
<1>0. EditTyped /\ DriverInv /\ edit \in EditRecord /\ (disturbed \/ Good)
  BY DEF EditInv, EditTyped, Good
<1>1. /\ call' = call /\ held' = held /\ (Out' <=> Out) /\ DriverInv'
      /\ open' = open /\ applied' = applied /\ disturbed' = disturbed
  BY StayEffect DEF Stops, history
<1>2. /\ \/ edit.phase = "reload" /\ edit.reply \in {"ok", "failed"} /\ ~edit.again
         \/ edit.phase = "begin" /\ edit.reply = "failed"
         \/ edit.phase = "rollback" /\ edit.reply = "failed"
         \/ edit.reply = "cancelled"
      /\ edit' \in EditRecord /\ began' = began
      /\ edit'.phase = "over" /\ edit'.reply = None
      /\ edit'.first = edit.first /\ edit'.wrapped = edit.wrapped
  BY <1>0, EditFields DEF Stops, Told, history, Phases
<1> SUFFICES ASSUME ~disturbed PROVE Good'
  BY <1>0, <1>1, <1>2 DEF EditInv, EditTyped, Good
<1>3. Waits /\ Owns /\ Counts /\ Whole
  BY <1>0 DEF Good
<1>w. ~Out
  BY <1>2, <1>3, EditConstants DEF Waits
<1>5. Waits'
  BY <1>1, <1>2, <1>3, <1>w, EditConstants DEF Waits
<1>6. Owns'
  BY <1>1, <1>2, <1>3, EditConstants
     DEF Owns, Waits, Wrapping, Out
<1>7. Counts'
  BY <1>1, <1>2, <1>3, <1>w
     DEF Counts
<1>8. Whole'
  BY <1>1, <1>2, <1>3, EditConstants
     DEF Whole, Counts, Fresh, Clean, Made, Ours, Waits, Out
<1> QED
  BY <1>5, <1>6, <1>7, <1>8 DEF Good

LEMMA StepDoneIs ==
  ASSUME EditTyped, StepDone
  PROVE  /\ edit.at < Total => SendsStatement(edit.at + 1)
         /\ ~(edit.at < Total) => edit.at = Total
         /\ ~(edit.at < Total) /\ edit.wrapped => Sends("commit") /\ Phase("commit")
         /\ ~(edit.at < Total) /\ ~edit.wrapped => Reload(FALSE)
<1>1. edit.at \in 1..Total /\ Total \in Nat
  BY EditConstants DEF EditTyped, EditRecord, Statements
<1>2. edit.at < Total => edit.at # Total
  BY <1>1
<1>3. ~(edit.at < Total) => edit.at = Total
  BY <1>1
<1>4. CASE edit.at < Total
  BY <1>2, <1>4, Zenon DEF StepDone
<1>5. CASE ~(edit.at < Total) /\ edit.wrapped
  BY <1>3, <1>5, Zenon DEF StepDone
<1>6. CASE ~(edit.at < Total) /\ ~edit.wrapped
  BY <1>3, <1>6, Zenon DEF StepDone
<1> QED
  BY <1>3, <1>4, <1>5, <1>6, Zenon

LEMMA StartsOwnKeeps ==
  ASSUME EditInv, Starts, edit.wrapped, ~UNCHANGED vars
  PROVE  EditInv'
<1>0. EditTyped /\ DriverInv /\ edit \in EditRecord /\ (disturbed \/ Good)
  BY DEF EditInv, EditTyped, Good
<1>s. Sends("begin") /\ Phase("begin")
  BY DEF Starts
<1>1. /\ ~Out /\ Out' /\ call'[Mine].pc = "locking" /\ call'[Mine].kind = "begin"
      /\ \A u \in Calls \ {Mine} : call'[u].pc = call[u].pc
      /\ held' = held /\ open' = open /\ applied' = applied
      /\ began' = began /\ disturbed' = disturbed
      /\ DriverInv'
  BY <1>s, SendsEffect
<1>2. /\ edit.phase = "told" /\ edit.wrapped
      /\ edit' \in EditRecord /\ edit'.phase = "begin" /\ edit'.reply = None
      /\ edit'.first = edit.first /\ edit'.wrapped = edit.wrapped
  BY <1>0, <1>s, EditFields DEF Starts, Phases
<1> SUFFICES ASSUME ~disturbed PROVE Good'
  BY <1>0, <1>1, <1>2 DEF EditInv, EditTyped, Good
<1>3. Waits /\ Owns /\ Counts /\ Whole
  BY <1>0 DEF Good
<1>5. Waits'
  BY <1>1, <1>2, EditConstants DEF Waits
<1>6. Owns'
  BY <1>1, <1>2, <1>3, EditConstants
     DEF Owns, Wrapping
<1>7. Counts'
  BY <1>1, <1>2, <1>3, EditConstants
     DEF Counts, Fresh, Clean, Made, Out
<1>8. Whole'
  BY <1>1, <1>2, <1>3, EditConstants
     DEF Whole, Fresh, Clean, Made, Ours, Out
<1> QED
  BY <1>5, <1>6, <1>7, <1>8 DEF Good

LEMMA StartsJoinedKeeps ==
  ASSUME EditInv, Starts, ~edit.wrapped, ~UNCHANGED vars
  PROVE  EditInv'
<1>0. EditTyped /\ DriverInv /\ edit \in EditRecord /\ (disturbed \/ Good)
  BY DEF EditInv, EditTyped, Good
<1>s. Sends("statement") /\ SendsStatement(edit.first) /\ edit.first \in Statements
  BY <1>0 DEF Starts, SendsStatement, EditRecord
<1>1. /\ ~Out /\ Out' /\ call'[Mine].pc = "locking" /\ call'[Mine].kind = "statement"
      /\ \A u \in Calls \ {Mine} : call'[u].pc = call[u].pc
      /\ held' = held /\ open' = open /\ applied' = applied
      /\ began' = began /\ disturbed' = disturbed
      /\ DriverInv'
  BY <1>s, SendsEffect
<1>2. /\ edit.phase = "told" /\ ~edit.wrapped
      /\ edit' \in EditRecord /\ edit'.phase = "step" /\ edit'.reply = None
      /\ edit'.first = edit.first /\ edit'.wrapped = edit.wrapped /\ edit'.at = edit.first
  BY <1>0, <1>s, EditFields DEF Starts
<1> SUFFICES ASSUME ~disturbed PROVE Good'
  BY <1>0, <1>1, <1>2 DEF EditInv, EditTyped, Good
<1>3. Waits /\ Owns /\ Counts /\ Whole
  BY <1>0 DEF Good
<1>n. edit.first \in Nat /\ ~Made'
  BY <1>0, <1>1, <1>2, EditConstants DEF EditRecord, Made
<1>5. Waits'
  BY <1>1, <1>2, EditConstants DEF Waits
<1>6. Owns'
  BY <1>1, <1>2, <1>3, EditConstants
     DEF Owns, Wrapping
<1>7. Counts'
  BY <1>1, <1>2, <1>3, EditConstants, <1>n
     DEF Counts, Fresh, Clean, Made, Out
<1>8. Whole'
  BY <1>1, <1>2, <1>3, EditConstants, <1>n
     DEF Whole, Fresh, Clean, Made, Ours, Out
<1> QED
  BY <1>5, <1>6, <1>7, <1>8 DEF Good

LEMMA BeganKeeps ==
  ASSUME EditInv, Began, ~UNCHANGED vars
  PROVE  EditInv'
<1>0. EditTyped /\ DriverInv /\ edit \in EditRecord /\ (disturbed \/ Good)
  BY DEF EditInv, EditTyped, Good
<1>s. Sends("statement") /\ SendsStatement(edit.first) /\ edit.first \in Statements
  BY <1>0 DEF Began, SendsStatement, EditRecord
<1>1. /\ ~Out /\ Out' /\ call'[Mine].pc = "locking" /\ call'[Mine].kind = "statement"
      /\ \A u \in Calls \ {Mine} : call'[u].pc = call[u].pc
      /\ held' = held /\ open' = open /\ applied' = applied
      /\ began' = began /\ disturbed' = disturbed
      /\ DriverInv'
  BY <1>s, SendsEffect
<1>2. /\ edit.phase = "begin" /\ edit.reply = "ok"
      /\ edit' \in EditRecord /\ edit'.phase = "step" /\ edit'.reply = None
      /\ edit'.first = edit.first /\ edit'.wrapped = edit.wrapped /\ edit'.at = edit.first
  BY <1>0, <1>s, EditFields DEF Began, Told
<1> SUFFICES ASSUME ~disturbed PROVE Good'
  BY <1>0, <1>1, <1>2 DEF EditInv, EditTyped, Good
<1>3. Waits /\ Owns /\ Counts /\ Whole
  BY <1>0 DEF Good
<1>n. edit.first \in Nat /\ ~Made'
  BY <1>0, <1>1, <1>2, EditConstants DEF EditRecord, Made
<1>4. held /\ edit.wrapped
  BY <1>2, <1>3 DEF Owns, Waits, Wrapping
<1>5. Waits'
  BY <1>1, <1>2, EditConstants, <1>4 DEF Waits
<1>6. Owns'
  BY <1>1, <1>2, <1>3, EditConstants, <1>4
     DEF Owns, Wrapping
<1>7. Counts'
  BY <1>1, <1>2, <1>3, EditConstants, <1>n
     DEF Counts, Fresh, Clean, Made, Out
<1>8. Whole'
  BY <1>1, <1>2, <1>3, EditConstants, <1>4, <1>n
     DEF Whole, Counts, Fresh, Clean, Made, Ours, Out
<1> QED
  BY <1>5, <1>6, <1>7, <1>8 DEF Good

LEMMA NextStepKeeps ==
  ASSUME EditInv, StepDone, edit.at < Total, ~UNCHANGED vars
  PROVE  EditInv'
<1>0. EditTyped /\ DriverInv /\ edit \in EditRecord /\ (disturbed \/ Good)
  BY DEF EditInv, EditTyped, Good
<1>s. Sends("statement") /\ SendsStatement(edit.at + 1) /\ edit.at + 1 \in Statements
  <2>1. edit.at \in 1..Total /\ Total \in Nat
    BY <1>0, EditConstants DEF EditRecord, Statements
  <2> QED
    BY <1>0, <2>1, StepDoneIs DEF SendsStatement, Statements
<1>1. /\ ~Out /\ Out' /\ call'[Mine].pc = "locking" /\ call'[Mine].kind = "statement"
      /\ \A u \in Calls \ {Mine} : call'[u].pc = call[u].pc
      /\ held' = held /\ open' = open /\ applied' = applied
      /\ began' = began /\ disturbed' = disturbed
      /\ DriverInv'
  BY <1>s, SendsEffect
<1>2. /\ edit.phase = "step" /\ edit.reply = "ok"
      /\ edit' \in EditRecord /\ edit'.phase = "step" /\ edit'.reply = None
      /\ edit'.first = edit.first /\ edit'.wrapped = edit.wrapped /\ edit'.at = edit.at + 1
  BY <1>0, <1>s, EditFields DEF StepDone, Told
<1> SUFFICES ASSUME ~disturbed PROVE Good'
  BY <1>0, <1>1, <1>2 DEF EditInv, EditTyped, Good
<1>3. Waits /\ Owns /\ Counts /\ Whole
  BY <1>0 DEF Good
<1>n. edit.at \in Nat /\ edit.first \in Nat
  BY <1>0, EditConstants DEF EditRecord
<1>5. Waits'
  BY <1>1, <1>2, EditConstants DEF Waits
<1>6. Owns'
  BY <1>1, <1>2, <1>3, EditConstants
     DEF Owns, Wrapping
<1>7. Counts'
  BY <1>1, <1>2, <1>3, EditConstants, <1>n
     DEF Counts, Fresh, Clean, Made, Out
<1>8. Whole'
  BY <1>1, <1>2, <1>3, EditConstants, <1>n
     DEF Whole, Fresh, Clean, Made, Ours, Out
<1> QED
  BY <1>5, <1>6, <1>7, <1>8 DEF Good

LEMMA LastStepOwnKeeps ==
  ASSUME EditInv, StepDone, ~(edit.at < Total), edit.wrapped, ~UNCHANGED vars
  PROVE  EditInv'
<1>0. EditTyped /\ DriverInv /\ edit \in EditRecord /\ (disturbed \/ Good)
  BY DEF EditInv, EditTyped, Good
<1>s. edit.at = Total /\ Sends("commit") /\ Phase("commit")
  BY <1>0, StepDoneIs DEF Told
<1>1. /\ ~Out /\ Out' /\ call'[Mine].pc = "locking" /\ call'[Mine].kind = "commit"
      /\ \A u \in Calls \ {Mine} : call'[u].pc = call[u].pc
      /\ held' = held /\ open' = open /\ applied' = applied
      /\ began' = began /\ disturbed' = disturbed
      /\ DriverInv'
  BY <1>s, SendsEffect
<1>2. /\ edit.phase = "step" /\ edit.reply = "ok" /\ edit.wrapped
      /\ edit' \in EditRecord /\ edit'.phase = "commit" /\ edit'.reply = None
      /\ edit'.first = edit.first /\ edit'.wrapped = edit.wrapped
  BY <1>0, <1>s, EditFields DEF StepDone, Told, Phases
<1> SUFFICES ASSUME ~disturbed PROVE Good'
  BY <1>0, <1>1, <1>2 DEF EditInv, EditTyped, Good
<1>3. Waits /\ Owns /\ Counts /\ Whole
  BY <1>0 DEF Good
<1>n. /\ edit.at \in Nat /\ edit.first \in Nat /\ edit.at \in Statements
      /\ began \in Nat /\ edit.at = Total
  BY <1>0, <1>s, EditConstants DEF EditRecord, EditTyped
<1>m. /\ \A s \in Ours : applied[s] = 0 /\ s \in open
      /\ edit.at \in Ours
  BY <1>2, <1>3, <1>n, EditConstants DEF Whole, Counts, Made, Ours
<1>5. Waits'
  BY <1>1, <1>2, EditConstants DEF Waits
<1>6. Owns'
  BY <1>1, <1>2, <1>3, EditConstants
     DEF Owns, Wrapping
<1>7. Counts'
  BY <1>1, <1>2, <1>3, EditConstants
     DEF Counts
<1>8. Whole'
  BY <1>1, <1>2, <1>3, EditConstants, <1>m
     DEF Whole, Ours
<1> QED
  BY <1>5, <1>6, <1>7, <1>8 DEF Good

LEMMA LastStepJoinedKeeps ==
  ASSUME EditInv, StepDone, ~(edit.at < Total), ~edit.wrapped, ~UNCHANGED vars
  PROVE  EditInv'
<1>0. EditTyped /\ DriverInv /\ edit \in EditRecord /\ (disturbed \/ Good)
  BY DEF EditInv, EditTyped, Good
<1>s. edit.at = Total /\ Sends("statement") /\ Reload(FALSE)
  BY <1>0, StepDoneIs DEF Reload
<1>1. /\ ~Out /\ Out' /\ call'[Mine].pc = "locking" /\ call'[Mine].kind = "statement"
      /\ \A u \in Calls \ {Mine} : call'[u].pc = call[u].pc
      /\ held' = held /\ open' = open /\ applied' = applied
      /\ began' = began /\ disturbed' = disturbed
      /\ DriverInv'
  BY <1>s, SendsEffect
<1>2. /\ edit.phase = "step" /\ edit.reply = "ok" /\ ~edit.wrapped
      /\ edit' \in EditRecord /\ edit'.phase = "reload" /\ edit'.reply = None
      /\ edit'.first = edit.first /\ edit'.wrapped = edit.wrapped /\ ~edit'.again
  BY <1>0, <1>s, EditFields DEF StepDone, Told
<1> SUFFICES ASSUME ~disturbed PROVE Good'
  BY <1>0, <1>1, <1>2 DEF EditInv, EditTyped, Good
<1>3. Waits /\ Owns /\ Counts /\ Whole
  BY <1>0 DEF Good
<1>5. Waits'
  BY <1>1, <1>2, EditConstants DEF Waits
<1>6. Owns'
  BY <1>1, <1>2, <1>3, EditConstants
     DEF Owns, Wrapping
<1>7. Counts'
  BY <1>1, <1>2, <1>3, EditConstants
     DEF Counts
<1>8. Whole'
  BY <1>1, <1>2, <1>3, EditConstants
     DEF Whole
<1> QED
  BY <1>5, <1>6, <1>7, <1>8 DEF Good

LEMMA StepUndoneKeeps ==
  ASSUME EditInv, StepFailed, edit.wrapped, ~UNCHANGED vars
  PROVE  EditInv'
<1>0. EditTyped /\ DriverInv /\ edit \in EditRecord /\ (disturbed \/ Good)
  BY DEF EditInv, EditTyped, Good
<1>s. Sends("rollback") /\ Phase("rollback")
  BY DEF StepFailed
<1>1. /\ ~Out /\ Out' /\ call'[Mine].pc = "locking" /\ call'[Mine].kind = "rollback"
      /\ \A u \in Calls \ {Mine} : call'[u].pc = call[u].pc
      /\ held' = held /\ open' = open /\ applied' = applied
      /\ began' = began /\ disturbed' = disturbed
      /\ DriverInv'
  BY <1>s, SendsEffect
<1>2. /\ edit.phase = "step" /\ edit.reply = "failed" /\ edit.wrapped
      /\ edit' \in EditRecord /\ edit'.phase = "rollback" /\ edit'.reply = None
      /\ edit'.first = edit.first /\ edit'.wrapped = edit.wrapped
  BY <1>0, <1>s, EditFields DEF StepFailed, Told, Phases
<1> SUFFICES ASSUME ~disturbed PROVE Good'
  BY <1>0, <1>1, <1>2 DEF EditInv, EditTyped, Good
<1>3. Waits /\ Owns /\ Counts /\ Whole
  BY <1>0 DEF Good
<1>5. Waits'
  BY <1>1, <1>2, EditConstants DEF Waits
<1>6. Owns'
  BY <1>1, <1>2, <1>3, EditConstants
     DEF Owns, Wrapping
<1>7. Counts'
  BY <1>1, <1>2, <1>3, EditConstants
     DEF Counts
<1>8. Whole'
  BY <1>1, <1>2, <1>3, EditConstants
     DEF Whole, Ours
<1> QED
  BY <1>5, <1>6, <1>7, <1>8 DEF Good

LEMMA CommittedKeeps ==
  ASSUME EditInv, Committed, ~UNCHANGED vars
  PROVE  EditInv'
<1>0. EditTyped /\ DriverInv /\ edit \in EditRecord /\ (disturbed \/ Good)
  BY DEF EditInv, EditTyped, Good
<1>s. Sends("statement") /\ Reload(FALSE)
  BY DEF Committed, Reload
<1>1. /\ ~Out /\ Out' /\ call'[Mine].pc = "locking" /\ call'[Mine].kind = "statement"
      /\ \A u \in Calls \ {Mine} : call'[u].pc = call[u].pc
      /\ held' = held /\ open' = open /\ applied' = applied
      /\ began' = began /\ disturbed' = disturbed
      /\ DriverInv'
  BY <1>s, SendsEffect
<1>2. /\ edit.phase = "commit" /\ edit.reply = "ok"
      /\ edit' \in EditRecord /\ edit'.phase = "reload" /\ edit'.reply = None
      /\ edit'.first = edit.first /\ edit'.wrapped = edit.wrapped /\ ~edit'.again
  BY <1>0, <1>s, EditFields DEF Committed, Told
<1> SUFFICES ASSUME ~disturbed PROVE Good'
  BY <1>0, <1>1, <1>2 DEF EditInv, EditTyped, Good
<1>3. Waits /\ Owns /\ Counts /\ Whole
  BY <1>0 DEF Good
<1>5. Waits'
  BY <1>1, <1>2, EditConstants DEF Waits
<1>6. Owns'
  BY <1>1, <1>2, <1>3, EditConstants
     DEF Owns, Wrapping
<1>7. Counts'
  BY <1>1, <1>2, <1>3, EditConstants
     DEF Counts
<1>8. Whole'
  BY <1>1, <1>2, <1>3, EditConstants
     DEF Whole, Ours
<1> QED
  BY <1>5, <1>6, <1>7, <1>8 DEF Good

LEMMA CommitFailedKeeps ==
  ASSUME EditInv, CommitFailed, ~UNCHANGED vars
  PROVE  EditInv'
<1>0. EditTyped /\ DriverInv /\ edit \in EditRecord /\ (disturbed \/ Good)
  BY DEF EditInv, EditTyped, Good
<1>s. Sends("rollback") /\ Phase("rollback")
  BY DEF CommitFailed
<1>1. /\ ~Out /\ Out' /\ call'[Mine].pc = "locking" /\ call'[Mine].kind = "rollback"
      /\ \A u \in Calls \ {Mine} : call'[u].pc = call[u].pc
      /\ held' = held /\ open' = open /\ applied' = applied
      /\ began' = began /\ disturbed' = disturbed
      /\ DriverInv'
  BY <1>s, SendsEffect
<1>2. /\ edit.phase = "commit" /\ edit.reply = "failed"
      /\ edit' \in EditRecord /\ edit'.phase = "rollback" /\ edit'.reply = None
      /\ edit'.first = edit.first /\ edit'.wrapped = edit.wrapped
  BY <1>0, <1>s, EditFields DEF CommitFailed, Told, Phases
<1> SUFFICES ASSUME ~disturbed PROVE Good'
  BY <1>0, <1>1, <1>2 DEF EditInv, EditTyped, Good
<1>3. Waits /\ Owns /\ Counts /\ Whole
  BY <1>0 DEF Good
<1>4. edit.wrapped
  BY <1>2, <1>3 DEF Waits
<1>5. Waits'
  BY <1>1, <1>2, EditConstants, <1>4 DEF Waits
<1>6. Owns'
  BY <1>1, <1>2, <1>3, EditConstants, <1>4
     DEF Owns, Wrapping
<1>7. Counts'
  BY <1>1, <1>2, <1>3, EditConstants
     DEF Counts
<1>8. Whole'
  BY <1>1, <1>2, <1>3, EditConstants, <1>4
     DEF Whole, Ours
<1> QED
  BY <1>5, <1>6, <1>7, <1>8 DEF Good

LEMMA RolledBackKeeps ==
  ASSUME EditInv, RolledBack, ~UNCHANGED vars
  PROVE  EditInv'
<1>0. EditTyped /\ DriverInv /\ edit \in EditRecord /\ (disturbed \/ Good)
  BY DEF EditInv, EditTyped, Good
<1>s. Sends("statement") /\ Reload(TRUE)
  BY DEF RolledBack, Reload
<1>1. /\ ~Out /\ Out' /\ call'[Mine].pc = "locking" /\ call'[Mine].kind = "statement"
      /\ \A u \in Calls \ {Mine} : call'[u].pc = call[u].pc
      /\ held' = held /\ open' = open /\ applied' = applied
      /\ began' = began /\ disturbed' = disturbed
      /\ DriverInv'
  BY <1>s, SendsEffect
<1>2. /\ edit.phase = "rollback" /\ edit.reply = "ok"
      /\ edit' \in EditRecord /\ edit'.phase = "reload" /\ edit'.reply = None
      /\ edit'.first = edit.first /\ edit'.wrapped = edit.wrapped /\ edit'.again
  BY <1>0, <1>s, EditFields DEF RolledBack, Told
<1> SUFFICES ASSUME ~disturbed PROVE Good'
  BY <1>0, <1>1, <1>2 DEF EditInv, EditTyped, Good
<1>3. Waits /\ Owns /\ Counts /\ Whole
  BY <1>0 DEF Good
<1>4. edit.wrapped /\ began = edit.first /\ Fresh(edit.first)
  <2>1. edit.wrapped /\ began = edit.first
    BY <1>2, <1>3 DEF Waits, Counts
  <2> QED
    BY <1>1, <1>2, <1>3, <2>1 DEF Whole, Ours, Fresh, Clean
<1>5. Waits'
  BY <1>1, <1>2, EditConstants DEF Waits
<1>6. Owns'
  BY <1>1, <1>2, <1>3, EditConstants
     DEF Owns, Wrapping
<1>7. Counts'
  BY <1>1, <1>2, <1>3, EditConstants
     DEF Counts
<1>8. Whole'
  BY <1>1, <1>2, <1>3, EditConstants, <1>4
     DEF Whole, Fresh, Clean, Ours
<1> QED
  BY <1>5, <1>6, <1>7, <1>8 DEF Good

LEMMA StepAgainKeeps ==
  ASSUME EditInv, StepFailed, ~edit.wrapped
  PROVE  EditInv'
<1>0. EditTyped /\ DriverInv /\ edit \in EditRecord /\ (disturbed \/ Good)
  BY DEF EditInv, EditTyped, Good
<1>s. Offers(edit.at) /\ edit.at \in Statements
  BY <1>0 DEF StepFailed, EditRecord
<1>1. /\ call' = call /\ held' = held /\ (Out' <=> Out) /\ DriverInv'
      /\ open' = open /\ applied' = applied /\ disturbed' = disturbed
  BY <1>s, StayEffect DEF Offers, history
<1>2. /\ edit.phase = "step" /\ edit.reply = "failed" /\ ~edit.wrapped
      /\ edit' \in EditRecord /\ edit'.phase = "preview" /\ edit'.reply = None
      /\ edit'.first = edit.at /\ edit'.wrapped = edit.wrapped /\ began' = began
  BY <1>0, <1>s, EditFields DEF StepFailed, Told, Offers, history
<1> SUFFICES ASSUME ~disturbed PROVE Good'
  BY <1>0, <1>1, <1>2 DEF EditInv, EditTyped, Good
<1>3. Waits /\ Owns /\ Counts /\ Whole
  BY <1>0 DEF Good
<1>4. ~Out /\ ~Made
  BY <1>2, <1>3, EditConstants DEF Waits, Made, Out
<1>5. Waits'
  BY <1>1, <1>2, <1>4, EditConstants DEF Waits
<1>6. Owns'
  BY <1>1, <1>2 DEF Owns, Wrapping
<1>7. Counts'
  BY <1>1, <1>2, <1>3, <1>4 DEF Counts, Fresh, Clean
<1>8. Whole'
  BY <1>1, <1>2 DEF Whole
<1> QED
  BY <1>5, <1>6, <1>7, <1>8 DEF Good

(* A statement that goes elsewhere, and the answer to it: the edit and the   *)
(* driver stay what they are.                                               *)
LEMMA UnseenKeeps ==
  ASSUME EditInv, UNCHANGED <<vars, Table, began>>, edit' \in EditRecord, disturbed'
  PROVE  EditInv'
<1>1. DriverInv' /\ open' = open /\ applied' = applied
  BY StayEffect
<1>2. EditTyped'
  BY <1>1 DEF EditInv, EditTyped
<1> QED
  BY <1>1, <1>2 DEF EditInv

LEMMA StraysKeeps ==
  ASSUME EditInv, UNCHANGED vars,
         Starts \/ Began \/ StepDone \/ (StepFailed /\ edit.wrapped) \/ Committed
         \/ CommitFailed \/ RolledBack
  PROVE  EditInv'
<1>0. EditTyped /\ edit \in EditRecord /\ edit.first \in Statements
  BY DEF EditInv, EditTyped, EditRecord
<1>1. /\ \E kind \in {"begin", "commit", "rollback", "statement"} : Sends(kind)
      /\ edit' \in EditRecord
  <2>1. ASSUME NEW s \in Statements, SendsStatement(s)
        PROVE  Sends("statement") /\ edit' \in EditRecord
    BY <1>0, <2>1, EditFields DEF SendsStatement
  <2>2. ASSUME NEW again \in BOOLEAN, Reload(again)
        PROVE  Sends("statement") /\ edit' \in EditRecord
    BY <1>0, <2>2, EditFields DEF Reload
  <2>3. ASSUME NEW p \in Phases, Phase(p)
        PROVE  edit' \in EditRecord
    BY <1>0, <2>3, EditFields
  <2>4. CASE Starts
    BY <1>0, <2>1, <2>3, <2>4 DEF Starts, Phases
  <2>5. CASE StepDone
    <3>1. edit.at < Total => edit.at + 1 \in Statements
      BY <1>0, EditConstants DEF EditRecord, Statements
    <3> QED
      BY <1>0, <2>1, <2>2, <2>3, <2>5, <3>1, StepDoneIs DEF Phases
  <2> QED
    BY <1>0, <2>1, <2>2, <2>3, <2>4, <2>5
       DEF Began, StepFailed, Committed, CommitFailed, RolledBack, Phases
<1>2. PICK kind \in {"begin", "commit", "rollback", "statement"} : Sends(kind)
  BY <1>1
<1>3. UNCHANGED <<Table, began>>
  BY <1>2 DEF Sends
<1>4. ~Call(Mine, kind)
  <2> SUFFICES ASSUME Call(Mine, kind) PROVE FALSE
    OBVIOUS
  <2>1. ~Out /\ Out'
    BY <1>3, CallIsOut DEF Kinds, Untouched
  <2> QED
    BY <2>1 DEF vars, Out
<1> QED
  BY <1>1, <1>2, <1>3, <1>4, UnseenKeeps DEF Sends

LEMMA ElsewhereWorksKeeps ==
  ASSUME EditInv, ElsewhereWorks
  PROVE  EditInv'
<1>1. disturbed
  BY DEF EditInv, Waits, ElsewhereWorks, Sending, Out
<1>2. edit' \in EditRecord
  BY DEF EditInv, EditTyped, EditRecord, ElsewhereWorks
<1> QED
  BY <1>1, <1>2, UnseenKeeps DEF ElsewhereWorks, history

(* A failed statement has done nothing, so that sending it again is as good  *)
(* as sending it; but for a COMMIT, which ended the transaction.            *)
LEMMA RepeatsKeeps ==
  ASSUME EditInv, Repeats
  PROVE  EditInv'
<1>0. EditTyped /\ DriverInv /\ edit \in EditRecord /\ (disturbed \/ Good)
  BY DEF EditInv, EditTyped, Good
<1> DEFINE kind == IF edit.phase \in Kinds THEN edit.phase ELSE "statement"
<1>1. /\ edit.reply = "failed" /\ edit' \in EditRecord /\ edit'.reply = None
      /\ edit'.phase = edit.phase /\ edit'.first = edit.first /\ edit'.at = edit.at
      /\ edit'.wrapped = edit.wrapped /\ edit'.again = edit.again
      /\ began' = began /\ Untouched
  BY <1>0 DEF Repeats, EditRecord, Untouched
<1>2. kind \in Kinds /\ kind # "side"
  BY <1>0 DEF Kinds, EditRecord, Phases
<1>3. CASE Strays /\ disturbed'
  BY <1>1, <1>3, UnseenKeeps DEF Strays, Untouched
<1>4. CASE Call(Mine, kind) /\ disturbed' = (disturbed \/ edit.phase = "commit")
  <2>1. /\ ~Out /\ Out' /\ call'[Mine].pc = "locking" /\ call'[Mine].kind = kind
        /\ \A u \in Calls \ {Mine} : call'[u].pc = call[u].pc
        /\ held' = held /\ open' = open /\ applied' = applied
        /\ DriverInv'
    BY <1>1, <1>2, <1>4, CallIsOut
  <2>2. EditTyped'
    BY <1>0, <1>1, <1>4, <2>1 DEF EditTyped
  <2> SUFFICES ASSUME ~disturbed, edit.phase # "commit" PROVE Good'
    BY <1>4, <2>1, <2>2 DEF EditInv, Good
  <2>3. Waits /\ Owns /\ Counts /\ Whole
    BY <1>0 DEF Good
  <2>4. edit.phase \in {"begin", "step", "rollback", "reload"}
    BY DEF Repeats, Sending
  <2>5. ~Made /\ ~Made'
    BY <1>1, <2>1, EditConstants DEF Made, Out
  <2>6. Waits'
    BY <1>1, <2>1, <2>3, <2>4, EditConstants DEF Waits, Kinds
  <2>7. Owns'
    BY <1>1, <2>1, <2>3, <2>4, EditConstants DEF Owns, Wrapping
  <2>8. Counts'
    BY <1>1, <2>1, <2>3, <2>4, <2>5 DEF Counts, Fresh, Clean
  <2>9. Whole'
    BY <1>1, <2>1, <2>3, <2>4, <2>5 DEF Whole, Fresh, Clean, Ours
  <2> QED
    BY <2>6, <2>7, <2>8, <2>9 DEF Good
<1> QED
  BY <1>3, <1>4 DEF Repeats

-----------------------------------------------------------------------------
(* The driver at work on the statement the plugin waits for.                *)
LEMMA MineEffect ==
  ASSUME EditInv, NEW how \in {"ok", "failed"}, MineWorks(how)
  PROVE  /\ Effect(Mine, how) /\ Out /\ (Out' <=> call'[Mine].pc # "idle")
         /\ \A u \in Calls \ {Mine} : call'[u].pc = call[u].pc
         /\ Out' => call'[Mine].kind = call[Mine].kind
         /\ edit'.phase = edit.phase /\ edit'.first = edit.first /\ edit'.at = edit.at
         /\ edit'.wrapped = edit.wrapped /\ edit'.again = edit.again
         /\ edit'.reply = (IF Out' THEN edit.reply ELSE how)
         /\ began' = began /\ disturbed' = disturbed
         /\ EditTyped' /\ DriverInv'
<1>1. EditTyped /\ DriverInv /\ SessionInv /\ Typed /\ Mine \in Calls
  BY EditConstants DEF EditInv, DriverInv, SessionInv
<1>2. Works(Mine, how) /\ began' = began /\ disturbed' = disturbed
  BY DEF MineWorks, history
<1>3. Effect(Mine, how) /\ StepOf(Mine) /\ DriverEffect(Mine, how)
  BY <1>1, <1>2, Effects, WorksAreSteps DEF DriverEffect
<1>4. Out
  BY <1>3 DEF Effect, GoesOn, Takes, Opens, Skips, Leaves, Joins, Alone, Describes, Misses,
              Moves, Out
<1>5. /\ \A u \in Calls \ {Mine} : call'[u].pc = call[u].pc
      /\ Out' => call'[Mine].kind = call[Mine].kind
  BY <1>1, <1>3, <1>4, OthersStay DEF Out
<1>6. DriverInv'
  BY <1>1, <1>3, DriverStep DEF DriverEffect
<1>7. open' \subseteq Statements /\ applied' \in [Statements -> Nat]
  BY <1>1, <1>3, TableSteps, TableTyped
<1>8. Out' <=> call'[Mine].pc # "idle"
  BY DEF Out
<1>9. /\ edit' \in EditRecord
      /\ edit'.phase = edit.phase /\ edit'.first = edit.first /\ edit'.at = edit.at
      /\ edit'.wrapped = edit.wrapped /\ edit'.again = edit.again
      /\ edit'.reply = (IF Out' THEN edit.reply ELSE how)
  BY <1>1, <1>8 DEF MineWorks, EditTyped, EditRecord
<1>10. EditTyped'
  BY <1>1, <1>2, <1>7, <1>9 DEF EditTyped
<1> QED
  BY <1>2, <1>3, <1>4, <1>5, <1>6, <1>8, <1>9, <1>10

(* What is known of a step of that statement, whichever it is.              *)
Working(how) ==
    /\ Good /\ EditTyped /\ DriverInv
    /\ how \in {"ok", "failed"} /\ Effect(Mine, how)
    /\ Out /\ edit.reply = None /\ (Out' <=> call'[Mine].pc # "idle")
    /\ \A u \in Calls \ {Mine} : call'[u].pc = call[u].pc
    /\ Out' => call'[Mine].kind = call[Mine].kind
    /\ edit'.phase = edit.phase /\ edit'.first = edit.first /\ edit'.at = edit.at
    /\ edit'.wrapped = edit.wrapped /\ edit'.again = edit.again
    /\ edit'.reply = IF Out' THEN None ELSE how
    /\ began' = began

LEMMA BeginWorks ==
  ASSUME NEW how, Working(how), edit.phase = "begin"
  PROVE  Good'
<1> USE EditConstants DEF Working
<1>0. Waits /\ Owns /\ Counts /\ Whole
  BY DEF Good
<1>1. /\ call[Mine].kind = "begin" /\ call[Mine].pc \in {"locking", "beginning"}
      /\ edit.wrapped /\ Wrapping /\ ~held
  BY <1>0 DEF Waits, Owns, Wrapping
<1>2. /\ Untouched
      /\ \/ call'[Mine].pc = "beginning" /\ held' = held
         \/ call'[Mine].pc = "idle" /\ how = "ok" /\ held'
         \/ call'[Mine].pc = "idle" /\ how = "failed" /\ held' = held
  BY <1>1 DEF Effect, GoesOn, Takes, Opens, Skips, Leaves, Joins, Alone, Describes, Misses,
              Moves, Quiet
<1>3. open' = open /\ applied' = applied
  BY <1>2 DEF Untouched, Table
<1>4. Waits'
  BY <1>0, <1>1, <1>2 DEF Waits
<1>5. Owns'
  BY <1>0, <1>1, <1>2 DEF Owns, Wrapping
<1>6. Counts'
  BY <1>0, <1>3 DEF Counts, Fresh, Clean
<1>7. Whole'
  BY DEF Whole
<1> QED
  BY <1>4, <1>5, <1>6, <1>7 DEF Good

LEMMA CommitWorks ==
  ASSUME NEW how, Working(how), edit.phase = "commit"
  PROVE  Good'
<1> USE EditConstants DEF Working
<1>0. Waits /\ Owns /\ Counts /\ Whole
  BY DEF Good
<1>1. /\ call[Mine].kind = "commit" /\ call[Mine].pc \in {"locking", "ending"}
      /\ edit.wrapped /\ Wrapping /\ (held <=> call[Mine].pc = "locking")
  BY <1>0 DEF Waits, Owns, Wrapping
<1>2. /\ ~held'
      /\ \/ call'[Mine].pc = "ending" /\ Untouched
         \/ call'[Mine].pc = "idle" /\ how = "ok" /\ Settles(TRUE)
         \/ call'[Mine].pc = "idle" /\ how = "failed" /\ Settles(FALSE)
  <2>1. Takes(Mine) \/ Skips(Mine, how) \/ Leaves(Mine, how)
    BY <1>1 DEF Effect, GoesOn, Opens, Joins, Alone, Describes, Misses, Moves
  <2>2. CASE Takes(Mine)
    BY <2>2 DEF Takes, Moves
  <2>3. CASE Skips(Mine, how)
    BY <1>1, <2>3 DEF Skips, Moves
  <2>4. CASE Leaves(Mine, how)
    BY <1>1, <2>4 DEF Leaves, Moves, Settles
  <2> QED
    BY <2>1, <2>2, <2>3, <2>4
<1>3. Waits'
  BY <1>0, <1>1, <1>2 DEF Waits
<1>4. Owns'
  BY <1>0, <1>1, <1>2 DEF Owns, Wrapping
<1>5. \A s \in Ours : s \in Statements
  BY DEF Ours
<1>6. Ours' = Ours
  BY DEF Ours
<1>7. Counts' /\ Whole'
  <2>1. CASE call'[Mine].pc = "ending" /\ Untouched
    <3>1. open' = open /\ applied' = applied
      BY <2>1 DEF Untouched, Table
    <3>2. Counts'
      BY <1>0, <3>1 DEF Counts
    <3>3. Whole'
      BY <1>0, <1>6, <2>1, <3>1 DEF Whole
    <3> QED
      BY <3>2, <3>3
  <2>2. CASE call'[Mine].pc = "idle" /\ how = "ok" /\ Settles(TRUE)
    <3>1. /\ open' = {}
          /\ \A s \in Statements :
                applied'[s] = IF s \in open THEN applied[s] + 1 ELSE applied[s]
      BY <2>2, Adds DEF Settles
    <3>2. Counts'
      <4>1. \A s \in Statements : applied[s] \in Nat
        BY DEF EditTyped
      <4> QED
        BY <1>0, <3>1, <4>1 DEF Counts
    <3>3. Whole'
      <4>0. \A s \in Ours : applied[s] = 0 /\ s \in open
        BY <1>0 DEF Whole
      <4>1. \A s \in Ours : applied'[s] = 1
        BY <1>5, <3>1, <4>0
      <4> QED
        BY <1>6, <2>2, <3>1, <4>1 DEF Whole
    <3> QED
      BY <3>2, <3>3
  <2>3. CASE call'[Mine].pc = "idle" /\ how = "failed" /\ Settles(FALSE)
    <3>1. open' = {} /\ applied' = applied
      BY <2>3 DEF Settles
    <3>2. Counts'
      <4>1. \A s \in Statements : applied[s] \in Nat
        BY DEF EditTyped
      <4> QED
        BY <1>0, <3>1, <4>1 DEF Counts
    <3>3. Whole'
      BY <1>0, <1>6, <2>3, <3>1 DEF Whole
    <3> QED
      BY <3>2, <3>3
  <2> QED
    BY <1>2, <2>1, <2>2, <2>3
<1> QED
  BY <1>3, <1>4, <1>7 DEF Good

LEMMA RollbackWorks ==
  ASSUME NEW how, Working(how), edit.phase = "rollback"
  PROVE  Good'
<1> USE EditConstants DEF Working
<1>0. Waits /\ Owns /\ Counts /\ Whole
  BY DEF Good
<1>1. /\ call[Mine].kind = "rollback" /\ call[Mine].pc \in {"locking", "ending"}
      /\ edit.wrapped /\ Wrapping /\ (held => call[Mine].pc = "locking")
  BY <1>0 DEF Waits, Owns, Wrapping
<1>2. /\ ~held'
      /\ \/ call'[Mine].pc = "ending" /\ Untouched
         \/ call'[Mine].pc = "idle" /\ call[Mine].pc = "locking" /\ ~held /\ Untouched
         \/ call'[Mine].pc = "idle" /\ Settles(FALSE)
  <2>1. Takes(Mine) \/ Skips(Mine, how) \/ Leaves(Mine, how)
    BY <1>1 DEF Effect, GoesOn, Opens, Joins, Alone, Describes, Misses, Moves
  <2>2. CASE Takes(Mine)
    BY <2>2 DEF Takes, Moves
  <2>3. CASE Skips(Mine, how)
    BY <1>1, <2>3 DEF Skips, Moves
  <2>4. CASE Leaves(Mine, how)
    BY <1>1, <2>4 DEF Leaves, Moves, Settles
  <2> QED
    BY <2>1, <2>2, <2>3, <2>4
<1>3. Waits'
  BY <1>0, <1>1, <1>2 DEF Waits
<1>4. Owns'
  BY <1>0, <1>1, <1>2 DEF Owns, Wrapping
<1>5. Ours' = Ours
  BY DEF Ours
<1>6. applied' = applied /\ (open' = open \/ open' = {})
  BY <1>2 DEF Untouched, Table, Settles
<1>7. Counts'
  <2>1. \A s \in Statements : applied[s] \in Nat
    BY DEF EditTyped
  <2> QED
    BY <1>0, <1>6, <2>1 DEF Counts
<1>8. ~Out' => open' = {}
  <2>1. CASE call[Mine].pc = "locking" /\ ~held /\ Untouched
    <3>1. \A u \in Calls : call[u].pc # "ending"
      BY <1>0, <1>1, <2>1 DEF Owns
    <3>2. open = {}
      BY <2>1, <3>1 DEF DriverInv, OpenIsHeld
    <3> QED
      BY <2>1, <3>2 DEF Untouched, Table
  <2>2. CASE Settles(FALSE)
    BY <2>2 DEF Settles
  <2> QED
    BY <1>2, <2>1, <2>2
<1>9. Whole'
  BY <1>0, <1>5, <1>6, <1>8 DEF Whole
<1> QED
  BY <1>3, <1>4, <1>7, <1>9 DEF Good

LEMMA ReloadWorks ==
  ASSUME NEW how, Working(how), edit.phase = "reload"
  PROVE  Good'
<1> USE EditConstants DEF Working
<1>0. Waits /\ Owns /\ Counts /\ Whole
  BY DEF Good
<1>1. /\ call[Mine].kind = "statement"
      /\ call[Mine].pc \in {"locking", "inside", "acquiring", "running", "describing"}
  BY <1>0 DEF Waits
<1>2. Untouched
  <2>1. TableStep(Mine)
    BY TableSteps DEF DriverEffect
  <2>2. Written(Mine) = {}
    BY DEF Written
  <2> QED
    BY <1>1, <2>1, <2>2, NothingWritten DEF TableStep
<1>3. open' = open /\ applied' = applied
  BY <1>2 DEF Untouched, Table
<1>4. call'[Mine].pc \in {"idle", "inside", "acquiring", "running", "describing"}
  BY <1>1 DEF Effect, GoesOn, Takes, Opens, Skips, Leaves, Joins, Alone, Describes, Misses, Moves
<1>5. Waits'
  BY <1>0, <1>1, <1>4 DEF Waits
<1>6. Owns'
  BY DEF Owns, Wrapping
<1>7. Counts'
  BY <1>0, <1>3 DEF Counts
<1>8. Whole'
  BY <1>0, <1>3 DEF Whole, Fresh, Clean, Ours
<1> QED
  BY <1>5, <1>6, <1>7, <1>8 DEF Good

LEMMA StepWorks ==
  ASSUME NEW how, Working(how), edit.phase = "step"
  PROVE  Good'
<1> USE EditConstants DEF Working
<1>0. Waits /\ Owns /\ Counts /\ Whole
  BY DEF Good
<1>1. /\ call[Mine].kind = "statement"
      /\ call[Mine].pc \in {"locking", "inside", "acquiring", "running", "describing"}
      /\ edit.wrapped => held /\ call[Mine].pc \in {"locking", "inside"}
  BY <1>0 DEF Waits, Owns, Wrapping
<1>2. /\ edit.at \in Statements /\ edit.at \in Nat /\ edit.first \in Nat /\ Written(Mine) = {edit.at}
      /\ Made <=> call[Mine].pc = "describing"
      /\ Made' <=> call'[Mine].pc = "describing" \/ (call'[Mine].pc = "idle" /\ how = "ok")
  BY DEF EditTyped, EditRecord, Written, Made
<1>3. \/ Untouched /\ (Made' <=> Made)
      \/ call[Mine].pc = "inside" /\ Inside({edit.at}) /\ Made' /\ ~Made
      \/ call[Mine].pc = "running" /\ AtOnce({edit.at}) /\ Made' /\ ~Made
  <2>1. GoesOn(Mine) \/ Joins(Mine, how) \/ Alone(Mine, how) \/ Describes(Mine, how)
          \/ Misses(Mine, how)
    BY <1>1 DEF Effect, Takes, Opens, Skips, Leaves, Moves
  <2>2. CASE GoesOn(Mine)
    BY <1>1, <1>2, <2>2 DEF GoesOn, Moves
  <2>3. CASE Joins(Mine, how)
    BY <1>1, <1>2, <2>3 DEF Joins, Moves
  <2>4. CASE Alone(Mine, how)
    BY <1>1, <1>2, <2>4 DEF Alone, Moves
  <2>5. CASE Describes(Mine, how)
    BY <1>1, <1>2, <2>5 DEF Describes, Moves
  <2>6. CASE Misses(Mine, how)
    BY <1>1, <1>2, <2>6 DEF Misses, Moves
  <2> QED
    BY <2>1, <2>2, <2>3, <2>4, <2>5, <2>6
<1>4. /\ held' = held
      /\ call'[Mine].pc \in {"idle", "inside", "acquiring", "running", "describing"}
      /\ edit.wrapped => call'[Mine].pc \in {"idle", "inside"}
  BY <1>1 DEF Effect, GoesOn, Takes, Opens, Skips, Leaves, Joins, Alone, Describes, Misses,
              Moves, Quiet
<1>5. Waits'
  BY <1>0, <1>1, <1>4 DEF Waits
<1>6. Owns'
  BY <1>0, <1>1, <1>4 DEF Owns, Wrapping
<1>7. /\ Ours' = Ours /\ \A s \in Ours : s \in Statements
      /\ \A s \in Statements : applied[s] \in Nat
  BY DEF Ours, EditTyped
<1>8. CASE Untouched /\ (Made' <=> Made)
  <2>1. open' = open /\ applied' = applied
    BY <1>8 DEF Untouched, Table
  <2>2. Counts'
    BY <1>0, <1>8, <2>1 DEF Counts, Fresh, Clean
  <2>3. Whole'
    BY <1>0, <1>7, <1>8, <2>1 DEF Whole
  <2> QED
    BY <1>5, <1>6, <2>2, <2>3 DEF Good
<1>9. CASE call[Mine].pc = "inside" /\ Inside({edit.at}) /\ Made' /\ ~Made
  <2>1. open' = open \cup {edit.at} /\ applied' = applied
    BY <1>9 DEF Inside
  <2>2. Clean(edit.at)
    BY <1>0, <1>2, <1>9 DEF Counts, Fresh
  <2>3. Counts'
    <3>1. \A s \in Statements : applied'[s] + (IF s \in open' THEN 1 ELSE 0) <= 1
      BY <1>0, <1>7, <2>1, <2>2 DEF Counts, Clean
    <3>2. \A s \in Statements : s >= edit.at + 1 => Clean(s)'
      BY <1>0, <1>2, <1>9, <2>1 DEF Counts, Fresh, Clean
    <3> QED
      BY <1>0, <1>9, <3>1, <3>2 DEF Counts, Fresh
  <2>4. Whole'
    <3>1. edit.wrapped => /\ \A s \in Ours : applied[s] = 0
                          /\ \A s \in Ours : s \in open <=> s < edit.at
      BY <1>0, <1>9 DEF Whole
    <3>2. edit.wrapped => /\ \A s \in Ours : applied'[s] = 0
                          /\ \A s \in Ours : s \in open' <=> s < edit.at + 1
      <4>1. ASSUME NEW s \in Ours
            PROVE  s < edit.at + 1 <=> (s < edit.at \/ s = edit.at)
        <5>1. s \in Nat
          BY <1>7
        <5> HIDE DEF Working
        <5> QED
          BY <1>2, <5>1
      <4> QED
        BY <2>1, <3>1, <4>1
    <3> QED
      BY <1>7, <1>9, <3>2 DEF Whole
  <2> QED
    BY <1>5, <1>6, <2>3, <2>4 DEF Good
<1>10. CASE call[Mine].pc = "running" /\ AtOnce({edit.at}) /\ Made' /\ ~Made
  <2>1. /\ open' = open
        /\ \A s \in Statements :
              applied'[s] = IF s = edit.at THEN applied[s] + 1 ELSE applied[s]
    <3>1. applied' = More({edit.at}) /\ open' = open
      BY <1>10 DEF AtOnce
    <3>2. \A s \in Statements :
             More({edit.at})[s] = IF s \in {edit.at} THEN applied[s] + 1 ELSE applied[s]
      BY Adds
    <3> QED
      BY <3>1, <3>2
  <2>2. Clean(edit.at)
    BY <1>0, <1>2, <1>10 DEF Counts, Fresh
  <2>3. Counts'
    <3>1. \A s \in Statements : applied'[s] + (IF s \in open' THEN 1 ELSE 0) <= 1
      BY <1>0, <1>7, <2>1, <2>2 DEF Counts, Clean
    <3>2. \A s \in Statements : s >= edit.at + 1 => Clean(s)'
      BY <1>0, <1>2, <1>10, <2>1 DEF Counts, Fresh, Clean
    <3> QED
      BY <1>0, <1>10, <3>1, <3>2 DEF Counts, Fresh
  <2>4. Whole'
    BY <1>1, <1>10 DEF Whole
  <2> QED
    BY <1>5, <1>6, <2>3, <2>4 DEF Good
<1> QED
  BY <1>3, <1>8, <1>9, <1>10

LEMMA MineKeeps ==
  ASSUME EditInv, NEW how \in {"ok", "failed"}, MineWorks(how)
  PROVE  EditInv'
<1>1. EditTyped' /\ DriverInv' /\ disturbed' = disturbed
  BY MineEffect
<1> SUFFICES ASSUME ~disturbed PROVE Good'
  BY <1>1 DEF EditInv, Good
<1>2. Good /\ EditTyped /\ DriverInv /\ Waits
  BY DEF EditInv, Good
<1>3. Out /\ edit.phase \in {"begin", "step", "commit", "rollback", "reload"} /\ edit.reply = None
  BY <1>2, MineEffect DEF Waits
<1>4. Working(how)
  BY <1>2, <1>3, MineEffect DEF Working
<1> QED
  BY <1>3, <1>4, BeginWorks, StepWorks, CommitWorks, RollbackWorks, ReloadWorks

-----------------------------------------------------------------------------
LEMMA EditStep == ASSUME EditInv, [EditNext]_editVars PROVE EditInv'
<1>1. CASE UNCHANGED editVars
  <2>1. DriverInv'
    BY <1>1, StayEffect DEF editVars, Table
  <2>2. UNCHANGED <<call, held, edit, open, applied, began, disturbed>>
    BY <1>1 DEF editVars, vars
  <2> QED
    BY <2>1, <2>2 DEF EditInv, EditTyped, Waits, Owns, Counts, Whole, Wrapping, Out, Made, Ours,
                      Fresh, Clean
<1>2. CASE Plugin
  <2>1. CASE Starts
    BY <2>1, StartsOwnKeeps, StartsJoinedKeeps, StraysKeeps
  <2>2. CASE StepDone
    BY <2>2, NextStepKeeps, LastStepOwnKeeps, LastStepJoinedKeeps, StraysKeeps
  <2>3. CASE StepFailed
    BY <2>3, StepUndoneKeeps, StepAgainKeeps, StraysKeeps
  <2>4. CASE Began \/ Committed \/ CommitFailed \/ RolledBack
    BY <2>4, BeganKeeps, CommittedKeeps, CommitFailedKeeps, RolledBackKeeps, StraysKeeps
  <2> QED
    BY <1>2, <2>1, <2>2, <2>3, <2>4, ApplyKeeps, BusyKeeps, ReloadedKeeps, StopsKeeps,
       RepeatsKeeps DEF Plugin
<1> QED
  BY <1>1, <1>2, StatusReadKeeps, MineKeeps, CancelledKeeps, LostKeeps, OtherKeeps,
     ElsewhereWorksKeeps DEF EditNext

(* An edit that brackets its statements in a transaction (rowedit.lua,      *)
(* `apply`, `step`, `fail`) is applied as a whole or not at all and says    *)
(* which, and no statement of an edit is applied twice.                     *)
THEOREM EditsAreAllOrNothing == EditSpec => []EditIsAllOrNothing
<1>1. ASSUME EditInv PROVE EditIsAllOrNothing
  <2> SUFFICES ASSUME ~disturbed PROVE AllOrNothing
    BY DEF EditIsAllOrNothing
  <2>1. Waits /\ Counts /\ Whole /\ EditTyped
    BY <1>1 DEF EditInv
  <2>2. began..Total \subseteq Ours /\ Ours \subseteq Statements
    BY <2>1, EditConstants DEF Ours, Statements, EditTyped
  <2>3. ASSUME edit.wrapped, edit.phase \in {"preview", "reload", "over"}
        PROVE  /\ \A s \in Ours : s \notin open
               /\ \A s, t \in Ours : applied[s] = applied[t]
    <3>1. CASE edit.phase = "preview"
      BY <2>1, <2>3, <3>1 DEF Counts, Fresh, Clean, Ours
    <3>2. CASE edit.phase = "reload" /\ edit.again
      BY <2>1, <2>3, <3>2 DEF Counts, Whole, Fresh, Clean, Ours
    <3>3. CASE edit.phase = "reload" /\ ~edit.again
      BY <2>1, <2>3, <3>3 DEF Whole
    <3>4. CASE edit.phase = "over"
      BY <2>1, <2>3, <3>4 DEF Whole
    <3> QED
      BY <2>3, <3>1, <3>2, <3>3, <3>4
  <2>4. ASSUME edit.wrapped, edit.phase = "reload", NEW s \in Ours
        PROVE  applied[s] = IF edit.again THEN 0 ELSE 1
    <3>1. CASE edit.again
      BY <2>1, <2>4, <3>1 DEF Counts, Whole, Fresh, Clean, Ours
    <3>2. CASE ~edit.again
      BY <2>1, <2>4, <3>2 DEF Whole
    <3> QED
      BY <3>1, <3>2
  <2>5. \A s \in Statements : applied[s] + (IF s \in open THEN 1 ELSE 0) <= 1
    BY <2>1 DEF Counts
  <2> QED
    BY <2>2, <2>3, <2>4, <2>5 DEF AllOrNothing
<1> QED
  BY InitEdit, EditStep, <1>1, PTL DEF EditSpec
=============================================================================
