--------------------------- MODULE ConnectionHost ---------------------------
(***************************************************************************)
(* The query connections of tradar-server: the fields `drivers`,           *)
(* `completions`, `last_used` and `running` of `State`                     *)
(* (crates/tradar-server/src/server.rs) and the handlers that read and     *)
(* write them.                                                             *)
(*                                                                         *)
(* A request is a tokio task.  Every handler takes the state lock for a    *)
(* few lines, releases it, awaits the database, and takes it again: one    *)
(* action here is one such stretch between two awaits, cut where another   *)
(* worker thread may act in the middle of it and be noticed: between the   *)
(* two polls of the select of `execute`, and between the end of a handler, *)
(* which drops its clone of the driver, and the mark of use `handle` makes *)
(* after it.  Statements are abstracted to what the host can tell apart    *)
(* (DDL or not, opens or ends a transaction), time to whether the last use *)
(* of a name is older than the idle limit.                                 *)
(***************************************************************************)
EXTENDS Naturals, FiniteSets

CONSTANTS
    Names,      \* connection names
    Tasks,      \* request tasks that can be in flight at once (a bound)
    Drivers,    \* driver instances that can exist at once (a bound)
    QueryIds,   \* the ids clients name their executes with
    HangUps,    \* the tasks whose client may close its socket under them
    UniqueIds,  \* TRUE: no client reuses the id of a request in flight
    None

Stmts    == {"read", "ddl", "begin", "end"}
Outcomes == {"ok", "failed", "interrupted", "cancelled"}

ASSUME HostAssumption ==
    /\ None \notin Names \cup Tasks \cup Drivers \cup QueryIds \cup Outcomes
    /\ HangUps \subseteq Tasks
    /\ UniqueIds \in BOOLEAN

VARIABLES
    drivers,      \* name -> the driver behind it
    completions,  \* name -> the driver its completion source was built from
    lastUsed,     \* name -> age of the last call that named it
    running,      \* query id -> the execute it names and its driver
    inTx,         \* driver -> what `in_transaction` answers
    task          \* the requests in flight

vars == <<drivers, completions, lastUsed, running, inTx, task>>

PCs == {"idle", "opening", "loading", "executing", "polling", "leaving", "listing",
        "reading", "pinging", "cancelling", "answering"}

(* The Notify of an execute: not signalled, signalled, or signalled after the *)
(* poll under way had looked at it.                                          *)
Permits == {"none", "stored", "missed"}

Idle == [pc |-> "idle", name |-> None, driver |-> None, id |-> None,
         stmt |-> None, out |-> None,
         permit |-> "none",
         hit |-> None]       \* the cancel whose interrupt reached it

Request == [pc : PCs, name : Names \cup {None}, driver : Drivers \cup {None},
            id : QueryIds \cup {None}, stmt : Stmts \cup {None},
            out : Outcomes \cup {None}, permit : Permits, hit : QueryIds \cup {None}]

Entry == [task : Tasks \cup {None}, driver : Drivers \cup {None}]

NoEntry == [task |-> None, driver |-> None]

TypeOK ==
    /\ drivers \in [Names -> Drivers \cup {None}]
    /\ completions \in [Names -> Drivers \cup {None}]
    /\ lastUsed \in [Names -> {"never", "recent", "old"}]
    /\ running \in [QueryIds -> Entry]
    /\ inTx \in [Drivers -> BOOLEAN]
    /\ task \in [Tasks -> Request]

Init ==
    /\ drivers = [n \in Names |-> None]
    /\ completions = [n \in Names |-> None]
    /\ lastUsed = [n \in Names |-> "never"]
    /\ running = [q \in QueryIds |-> NoEntry]
    /\ inTx = [d \in Drivers |-> FALSE]
    /\ task = [t \in Tasks |-> Idle]

-----------------------------------------------------------------------------
(* Arc::strong_count(driver) == 1: the registry's own clone is the only one. *)
Shared(d) ==
    \/ \E t \in Tasks : task[t].driver = d
    \/ \E q \in QueryIds : running[q].driver = d

(* Nothing in the model speaks of d: it stands for a driver not opened yet. *)
Fresh(d) ==
    /\ ~Shared(d)
    /\ \A n \in Names : drivers[n] # d /\ completions[n] # d

Touch(n) == lastUsed' = [lastUsed EXCEPT ![n] = "recent"]

Await(t, state)  == task' = [task EXCEPT ![t] = state]
Reply(t)         == Await(t, Idle)

(* The handler is over and holds no driver any more; `handle` goes on.      *)
Return(t) == Await(t, [Idle EXCEPT !.pc = "answering", !.name = task[t].name])

(* Waits for the database on the driver the lookup found.                   *)
Holding(pc, n) == [Idle EXCEPT !.pc = pc, !.name = n, !.driver = drivers[n]]

-----------------------------------------------------------------------------
(* connect *)

(* A request that ends before its first await: `connect` on a name already  *)
(* connected, a name that is neither saved nor `@driver:target`, any method *)
(* on a name that is not connected.  All it leaves behind is the mark.      *)
AnswerAtOnce(n) ==
    /\ Touch(n)
    /\ UNCHANGED <<drivers, completions, running, inTx, task>>

Connect(t, n) ==
    /\ task[t].pc = "idle"
    /\ drivers[n] = None
    /\ Touch(n)
    /\ Await(t, [Idle EXCEPT !.pc = "opening", !.name = n])
    /\ UNCHANGED <<drivers, completions, running, inTx>>

Opened(t) ==
    /\ task[t].pc = "opening"
    /\ \E d \in Drivers :
         /\ Fresh(d)
         /\ Await(t, [task[t] EXCEPT !.pc = "loading", !.driver = d])
         /\ inTx' = [inTx EXCEPT ![d] = FALSE]
    /\ UNCHANGED <<drivers, completions, lastUsed, running>>

OpenFailed(t) ==
    /\ task[t].pc = "opening"
    /\ Return(t)
    /\ UNCHANGED <<drivers, completions, lastUsed, running, inTx>>

(* Mutant: a failed `list_schema` leaves no completion source behind.        *)
ConnectedWithoutSource(t) ==
    LET n == task[t].name IN
    /\ task[t].pc = "loading"
    /\ drivers' = [drivers EXCEPT ![n] = task[t].driver]
    /\ Return(t)
    /\ UNCHANGED <<completions, lastUsed, running, inTx>>

(* `list_schema` answered or failed; the driver is inserted either way, and *)
(* over whatever the registry holds under the name by now.                  *)
Connected(t) ==
    LET n == task[t].name IN
    /\ task[t].pc = "loading"
    /\ drivers' = [drivers EXCEPT ![n] = task[t].driver]
    /\ completions' = [completions EXCEPT ![n] = task[t].driver]
    /\ Return(t)
    /\ UNCHANGED <<lastUsed, running, inTx>>

(* The second mark of use, and the reply.                                   *)
Answered(t) ==
    /\ task[t].pc = "answering"
    /\ Touch(task[t].name)
    /\ Reply(t)
    /\ UNCHANGED <<drivers, completions, running, inTx>>

-----------------------------------------------------------------------------
(* execute *)

NewId(q) == \A u \in Tasks : task[u].id # q

Register(t, q, d) ==
    running' = IF q = None THEN running
               ELSE [running EXCEPT ![q] = [task |-> t, driver |-> d]]

Execute(t, n, q, stmt) ==
    /\ task[t].pc = "idle"
    /\ drivers[n] # None
    /\ UniqueIds /\ q # None => NewId(q)
    /\ Touch(n)
    /\ Register(t, q, drivers[n])
    /\ Await(t, [Holding("executing", n) EXCEPT !.id = q, !.stmt = stmt])
    /\ UNCHANGED <<drivers, completions, inTx>>

(* Mutant: the wait ends only once the interrupted driver has answered.      *)
CancelSeenAfterInterrupt(t) ==
    /\ task[t].pc = "executing"
    /\ task[t].permit = "stored" /\ task[t].hit # None
    /\ Await(t, [task[t] EXCEPT !.pc = "leaving", !.out = "cancelled"])
    /\ UNCHANGED <<drivers, completions, lastUsed, running, inTx>>

(* The `biased` select polls the cancel first: a permit ends the wait ...    *)
CancelSeen(t) ==
    /\ task[t].pc = "executing"
    /\ task[t].permit = "stored"
    /\ Await(t, [task[t] EXCEPT !.pc = "leaving", !.out = "cancelled"])
    /\ UNCHANGED <<drivers, completions, lastUsed, running, inTx>>

(* Mutant: a select without `biased` may poll the driver first.              *)
CancelPendingUnbiased(t) ==
    /\ task[t].pc = "executing"
    /\ Await(t, [task[t] EXCEPT !.pc = "polling"])
    /\ UNCHANGED <<drivers, completions, lastUsed, running, inTx>>

(* ... and without one it goes on, in the same poll, to the driver.         *)
CancelPending(t) ==
    /\ task[t].pc = "executing"
    /\ task[t].permit = "none"
    /\ Await(t, [task[t] EXCEPT !.pc = "polling"])
    /\ UNCHANGED <<drivers, completions, lastUsed, running, inTx>>

TransactionAfter(t, out) ==
    IF out # "ok" THEN inTx
    ELSE CASE task[t].stmt = "begin" -> [inTx EXCEPT ![task[t].driver] = TRUE]
           [] task[t].stmt = "end"   -> [inTx EXCEPT ![task[t].driver] = FALSE]
           [] OTHER                  -> inTx

(* The driver's answer is taken if it is there, whatever a cancel on another *)
(* worker did since the permit was looked at ...                            *)
DriverAnswered(t) ==
    /\ task[t].pc = "polling"
    /\ \E out \in {"ok", "failed"} \cup (IF task[t].hit # None THEN {"interrupted"} ELSE {}) :
         /\ inTx' = TransactionAfter(t, out)
         /\ Await(t, [task[t] EXCEPT !.pc = "leaving", !.out = out])
    /\ UNCHANGED <<drivers, completions, lastUsed, running>>

(* ... and if it is not, the task sleeps until either wakes it.             *)
DriverPending(t) ==
    /\ task[t].pc = "polling"
    /\ Await(t, [task[t] EXCEPT !.pc = "executing",
                                !.permit = IF @ = "missed" THEN "stored" ELSE @])
    /\ UNCHANGED <<drivers, completions, lastUsed, running, inTx>>

(* Mutant: the early return of a cancelled execute skips the removal.        *)
UnregisterUnlessCancelled(t) ==
    /\ task[t].pc = "leaving"
    /\ running' = [q \in QueryIds |-> IF q = task[t].id /\ task[t].out # "cancelled"
                                      THEN NoEntry ELSE running[q]]
    /\ Return(t)
    /\ UNCHANGED <<drivers, completions, lastUsed, inTx>>

(* Takes the id out of `running`, whoever put it there; after a DDL that    *)
(* worked the schema is read again before the reply.                        *)
Unregister(t) ==
    LET refresh == task[t].out = "ok" /\ task[t].stmt = "ddl" IN
    /\ task[t].pc = "leaving"
    /\ running' = [q \in QueryIds |-> IF q = task[t].id THEN NoEntry ELSE running[q]]
    /\ IF refresh
       THEN Await(t, [Idle EXCEPT !.pc = "listing", !.name = task[t].name,
                                   !.driver = task[t].driver])
       ELSE Return(t)
    /\ UNCHANGED <<drivers, completions, lastUsed, inTx>>

-----------------------------------------------------------------------------
(* schema, snippet, status *)

(* `schema` waits for `list_schema`, like the refresh after a DDL.          *)
Schema(t, n) ==
    /\ task[t].pc = "idle"
    /\ drivers[n] # None
    /\ Touch(n)
    /\ Await(t, Holding("listing", n))
    /\ UNCHANGED <<drivers, completions, running, inTx>>

(* The schema arrived: the source built from it is stored under the name;   *)
(* when the read failed the old source stays.                               *)
Listed(t) ==
    LET n == task[t].name IN
    /\ task[t].pc = "listing"
    /\ \/ completions' = [completions EXCEPT ![n] = task[t].driver]
       \/ UNCHANGED completions
    /\ Return(t)
    /\ UNCHANGED <<drivers, lastUsed, running, inTx>>

(* `snippet` reads the schema and stores nothing.                           *)
Snippet(t, n) ==
    /\ task[t].pc = "idle"
    /\ drivers[n] # None
    /\ Touch(n)
    /\ Await(t, Holding("reading", n))
    /\ UNCHANGED <<drivers, completions, running, inTx>>

SnippetRead(t) ==
    /\ task[t].pc = "reading"
    /\ Return(t)
    /\ UNCHANGED <<drivers, completions, lastUsed, running, inTx>>

(* `status` is not a use of the connection, and pings only outside a        *)
(* transaction.                                                             *)
Status(t, n) ==
    /\ task[t].pc = "idle"
    /\ drivers[n] # None
    /\ ~inTx[drivers[n]]
    /\ Await(t, Holding("pinging", n))
    /\ UNCHANGED <<drivers, completions, lastUsed, running, inTx>>

(* Mutant: the status poll counts as a use of the connection.                *)
PongedAsUse(t) ==
    /\ task[t].pc = "pinging"
    /\ Touch(task[t].name)
    /\ Reply(t)
    /\ UNCHANGED <<drivers, completions, running, inTx>>

Ponged(t) ==
    /\ task[t].pc = "pinging"
    /\ Reply(t)
    /\ UNCHANGED <<drivers, completions, lastUsed, running, inTx>>

-----------------------------------------------------------------------------
(* cancel *)

Signalled(r) ==
    IF r.permit # "none" THEN r
    ELSE [r EXCEPT !.permit = IF r.pc = "polling" THEN "missed" ELSE "stored"]

(* Stores the permit of the execute's Notify, releases the lock, then asks  *)
(* the driver.  The entry of a task that was aborted has no one waiting.    *)
Cancel(t, q) ==
    LET entry == running[q] IN
    /\ task[t].pc = "idle"
    /\ entry # NoEntry
    /\ task' = [u \in Tasks |->
                  IF u = t THEN [Idle EXCEPT !.pc = "cancelling", !.driver = entry.driver, !.id = q]
                  ELSE IF u = entry.task THEN Signalled(task[u])
                  ELSE task[u]]
    /\ UNCHANGED <<drivers, completions, lastUsed, running, inTx>>

(* `cancel_query` interrupts whatever the driver runs by then, if anything. *)
Interrupt(t) ==
    /\ task[t].pc = "cancelling"
    /\ \E victim \in {u \in Tasks : /\ task[u].pc \in {"executing", "polling"}
                                    /\ task[u].driver = task[t].driver} \cup {None} :
         task' = [u \in Tasks |->
                    IF u = t THEN Idle
                    ELSE IF u = victim /\ task[u].hit = None
                         THEN [task[u] EXCEPT !.hit = task[t].id]
                    ELSE task[u]]
    /\ UNCHANGED <<drivers, completions, lastUsed, running, inTx>>

-----------------------------------------------------------------------------
(* disconnect, the idle reaper, a client hanging up *)

Disconnect(n) ==
    /\ completions' = [completions EXCEPT ![n] = None]
    /\ lastUsed' = [lastUsed EXCEPT ![n] = "never"]
    /\ drivers' = [drivers EXCEPT ![n] = None]
    /\ UNCHANGED <<running, inTx, task>>

Quiet(n) == lastUsed[n] # "recent"

(* What `reap_idle` closes, all in one critical section.                    *)
IdleNames ==
    {n \in Names : /\ drivers[n] # None
                   /\ Quiet(n)
                   /\ ~inTx[drivers[n]]
                   /\ ~Shared(drivers[n])}

ReapIdle ==
    /\ IdleNames # {}
    /\ drivers' = [n \in Names |-> IF n \in IdleNames THEN None ELSE drivers[n]]
    /\ completions' = [n \in Names |-> IF n \in IdleNames THEN None ELSE completions[n]]
    /\ lastUsed' = [n \in Names |-> IF n \in IdleNames THEN "never" ELSE lastUsed[n]]
    /\ UNCHANGED <<running, inTx, task>>

(* The idle limit passes without a call that names n.                       *)
Elapse(n) ==
    /\ lastUsed[n] = "recent"
    /\ lastUsed' = [lastUsed EXCEPT ![n] = "old"]
    /\ UNCHANGED <<drivers, completions, running, inTx, task>>

(* The client's socket closes: its JoinSet aborts the task at the await it  *)
(* is parked on, and no code after that await runs; one that is being polled *)
(* gets to its next await first, if it has one.  An entry it had in         *)
(* `running` stays; there is no one left to remove it.                      *)
HangUp(t) ==
    /\ t \in HangUps
    /\ task[t].pc \notin {"idle", "polling", "leaving", "answering"}
    /\ Reply(t)
    /\ running' = [q \in QueryIds |-> IF running[q].task = t
                                      THEN [running[q] EXCEPT !.task = None]
                                      ELSE running[q]]
    /\ UNCHANGED <<drivers, completions, lastUsed, inTx>>

-----------------------------------------------------------------------------
Step(t) ==
    \/ \E n \in Names : Connect(t, n) \/ Schema(t, n) \/ Snippet(t, n) \/ Status(t, n)
    \/ \E n \in Names, q \in QueryIds \cup {None}, stmt \in Stmts : Execute(t, n, q, stmt)
    \/ \E q \in QueryIds : Cancel(t, q)
    \/ Opened(t) \/ OpenFailed(t) \/ Connected(t) \/ Answered(t)
    \/ CancelSeen(t) \/ CancelPending(t) \/ DriverAnswered(t) \/ DriverPending(t)
    \/ Unregister(t)
    \/ Listed(t) \/ SnippetRead(t) \/ Ponged(t) \/ Interrupt(t)
    \/ HangUp(t)

Next ==
    \/ \E t \in Tasks : Step(t)
    \/ \E n \in Names : AnswerAtOnce(n) \/ Disconnect(n) \/ Elapse(n)
    \/ ReapIdle

Spec == Init /\ [][Next]_vars

(* `reap_loop` runs for the life of the process, about four times per limit, *)
(* and a status ping lasts one round trip, so its tick is not for ever       *)
(* caught inside one (SF); time passes; a task whose Notify was signalled is *)
(* polled again by the runtime, a poll that began ends, and the stretch      *)
(* after the select has no await in it.  A statement, a schema read, a ping  *)
(* or a dial may hang: nothing is assumed of them, nor of the clients.       *)
Fairness ==
    /\ SF_vars(ReapIdle)
    /\ \A n \in Names : WF_vars(Elapse(n))
    /\ \A t \in Tasks : /\ WF_vars(CancelSeen(t))
                       /\ WF_vars(DriverAnswered(t) \/ DriverPending(t))
                       /\ WF_vars(Unregister(t))

FairSpec == Spec /\ Fairness

-----------------------------------------------------------------------------
(* Properties *)

(* `running` is exactly the executes in flight: each execute sent with an id *)
(* can be found under it until it has left, and each entry names one, or is   *)
(* what a client left that hung up on its execute.                           *)
InFlight(t) == task[t].pc \in {"executing", "polling", "leaving"}

RunningIsInFlight ==
    /\ \A q \in QueryIds : running[q] # NoEntry =>
         \/ \E t \in Tasks : /\ running[q] = [task |-> t, driver |-> task[t].driver]
                             /\ InFlight(t) /\ task[t].id = q
         \/ running[q].task = None /\ HangUps # {}
    /\ \A t \in Tasks : InFlight(t) /\ task[t].id # None => running[task[t].id].task = t

(* A statement is told the interrupt of its own cancel as an error of the     *)
(* database only if the cancel came in the middle of the very poll that took  *)
(* the answer; any that came before ends the wait as a cancel (the biased     *)
(* select of `execute`, the order in which `cancel` works).                  *)
CancelsTellUnlessMidPoll ==
    \A t \in Tasks : task[t].out = "interrupted" /\ task[t].hit = task[t].id =>
        task[t].permit = "missed"

(* What the comment over the select says: a user's own cancel is never        *)
(* reported as a database error.  On worker threads it is.                   *)
(* The code does not keep it: README.md, "What the code does not keep".     *)
OwnCancelIsNotAnError ==
    \A t \in Tasks : task[t].out = "interrupted" => task[t].hit # task[t].id

(* What idle.rs says of the clock: a connection is closed when no call has    *)
(* named it for the limit.  It is closed under a call that ran longer than    *)
(* that and has just ended, before `handle` marks it again.                  *)
(* The code does not keep it: README.md, "What the code does not keep".     *)
ReaperSparesTheUsed ==
    [][\A n \in Names, t \in Tasks :
          ReapIdle /\ drivers'[n] # drivers[n] => ~(task[t].pc = "answering" /\ task[t].name = n)]_vars

(* A connected name always has a completion source, whatever connects,       *)
(* disconnects and reaps happened around it.                                 *)
ConnectedCanComplete ==
    \A n \in Names : drivers[n] # None => completions[n] # None

(* A cancel always ends the wait it was meant for, however long the database *)
(* takes.                                                                    *)
CancelEndsTheWait ==
    \A t \in Tasks :
        task[t].pc \in {"executing", "polling"} /\ task[t].permit # "none"
            ~> task[t].pc \notin {"executing", "polling"}

Uses(n) ==
    \/ AnswerAtOnce(n)
    \/ \E t \in Tasks : \/ Connect(t, n) \/ Schema(t, n) \/ Snippet(t, n)
                        \/ \E q \in QueryIds \cup {None}, stmt \in Stmts : Execute(t, n, q, stmt)

Busy(n) ==
    \/ \E t \in Tasks : task[t].name = n /\ task[t].pc # "pinging"
    \/ drivers[n] # None /\ inTx[drivers[n]]
    \/ \E t \in Tasks : task[t].pc = "cancelling" /\ task[t].driver = drivers[n]

(* An execute whose client hung up under it, still listed in `running`.      *)
Leaked(n) == \E q \in QueryIds : /\ running[q] # NoEntry
                                 /\ running[q].task = None
                                 /\ running[q].driver = drivers[n]

Unused(n) == /\ <>[][~Uses(n)]_vars
             /\ <>[]~Busy(n)
             /\ []<>(\A t \in Tasks : task[t].pc # "pinging")

(* "Closes every connection idle for `ttl`": a connection that nobody uses   *)
(* any more and that is not busy is closed, however often `status` polls it  *)
(* (as long as its pings do not overlap for ever), unless a client hung up   *)
(* during an execute on it.                                                  *)
UnusedConnectionsClose ==
    \A n \in Names : Unused(n) /\ <>[]~Leaked(n) => []<>(drivers[n] = None)

(* The same without the exception, which the text does not make: the entry   *)
(* an aborted execute leaves keeps its connection open for ever.             *)
(* The code does not keep it: README.md, "What the code does not keep".     *)
EveryUnusedConnectionCloses ==
    \A n \in Names : Unused(n) => []<>(drivers[n] = None)
=============================================================================
