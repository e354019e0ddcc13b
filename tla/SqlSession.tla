----------------------------- MODULE SqlSession -----------------------------
(***************************************************************************)
(* One SQL driver (crates/tradar-connector-sqlite, -mysql, -postgres): the *)
(* transaction it holds between a BEGIN and its COMMIT or ROLLBACK, the    *)
(* async mutex around it, the flag `in_transaction` that mirrors it, and   *)
(* the connection pool.  Calls of all clients of a connection reach the    *)
(* same driver.  An action is what a call does between two awaits; a call  *)
(* the host cancels or aborts is dropped at the await it is parked on.     *)
(***************************************************************************)
EXTENDS Naturals, FiniteSets

CONSTANTS
    Calls,     \* driver calls that can be in flight at once (a bound)
    PoolSize,  \* connections of the pool (SQLite: 1)
    Drops,     \* the calls whose future may be dropped
    EndsFail,  \* TRUE: the database may refuse a COMMIT or a ROLLBACK
    None

ASSUME SqlAssumption ==
    /\ IsFiniteSet(Calls)
    /\ None \notin Calls
    /\ PoolSize \in Nat \ {0}
    /\ Drops \subseteq Calls
    /\ EndsFail \in BOOLEAN

VARIABLES
    held,    \* the driver's `transaction` is `Some`
    mirror,  \* its `in_transaction`
    lock,    \* the call that holds the mutex around `transaction`
    idle,    \* connections of the pool nobody uses
    call     \* the calls in flight

vars == <<held, mirror, lock, idle, call>>

Kinds == {"begin", "commit", "rollback", "statement",
          "side"}   \* `ping`, `list_schema`: straight to the pool

PCs == {"idle", "locking", "beginning", "ending", "inside", "acquiring",
        "running", "describing"}

NoCall == [pc |-> "idle", kind |-> None,
           within |-> FALSE]   \* called in a transaction that is still held

TypeOK ==
    /\ held \in BOOLEAN
    /\ mirror \in BOOLEAN
    /\ lock \in Calls \cup {None}
    /\ idle \in 0..PoolSize
    /\ call \in [Calls -> [pc : PCs, kind : Kinds \cup {None}, within : BOOLEAN]]

Init ==
    /\ held = FALSE
    /\ mirror = FALSE
    /\ lock = None
    /\ idle = PoolSize
    /\ call = [c \in Calls |-> NoCall]

-----------------------------------------------------------------------------
At(c, pc, kind) == call[c].pc = pc /\ call[c].kind = kind

Goto(c, pc) == call' = [call EXCEPT ![c].pc = pc]
Answer(c)   == call' = [call EXCEPT ![c] = NoCall]

Call(c, kind) ==
    /\ call[c].pc = "idle"
    /\ call' = [call EXCEPT ![c] = [pc |-> IF kind = "side" THEN "acquiring" ELSE "locking",
                                    kind |-> kind, within |-> held]]
    /\ UNCHANGED <<held, mirror, lock, idle>>

-----------------------------------------------------------------------------
(* BEGIN: a no-op inside a transaction; otherwise waits for a connection    *)
(* and the database, holding the lock.                                      *)
Begin(c) ==
    /\ At(c, "locking", "begin") /\ lock = None
    /\ IF held THEN Answer(c) /\ UNCHANGED lock
       ELSE Goto(c, "beginning") /\ lock' = c
    /\ UNCHANGED <<held, mirror, idle>>

Begun(c) ==
    /\ call[c].pc = "beginning" /\ idle > 0
    /\ idle' = idle - 1
    /\ held' = TRUE
    /\ mirror' = TRUE
    /\ lock' = None
    /\ Answer(c)

BeginFailed(c) ==
    /\ call[c].pc = "beginning" /\ idle > 0
    /\ lock' = None
    /\ Answer(c)
    /\ UNCHANGED <<held, mirror, idle>>

(* COMMIT, ROLLBACK: take the transaction out before asking the database;   *)
(* with none held, lower the flag and be done.                              *)
End(c) ==
    /\ At(c, "locking", "commit") \/ At(c, "locking", "rollback")
    /\ lock = None
    /\ IF held
       THEN /\ held' = FALSE
            /\ call' = [u \in Calls |-> [call[u] EXCEPT !.within = FALSE,
                                                        !.pc = IF u = c THEN "ending" ELSE @]]
            /\ lock' = c
            /\ UNCHANGED mirror
       ELSE /\ mirror' = FALSE
            /\ Answer(c)
            /\ UNCHANGED <<held, lock>>
    /\ UNCHANGED idle

Ended(c) ==
    /\ call[c].pc = "ending"
    /\ mirror' = FALSE
    /\ idle' = idle + 1
    /\ lock' = None
    /\ Answer(c)
    /\ UNCHANGED held

(* The error returns before the flag is lowered; the transaction that was   *)
(* taken out is dropped, which rolls it back.                               *)
EndFailed(c) ==
    /\ EndsFail
    /\ call[c].pc = "ending"
    /\ idle' = idle + 1
    /\ lock' = None
    /\ Answer(c)
    /\ UNCHANGED <<held, mirror>>

-----------------------------------------------------------------------------
(* Mutant: a statement that finds the mutex taken goes to the pool.          *)
LookTrying(c) ==
    /\ At(c, "locking", "statement")
    /\ IF lock = None /\ held THEN Goto(c, "inside") /\ lock' = c
       ELSE Goto(c, "acquiring") /\ UNCHANGED lock
    /\ UNCHANGED <<held, mirror, idle>>

(* A statement runs in the held transaction, keeping the lock, or gives the *)
(* lock back and goes to the pool.                                          *)
Look(c) ==
    /\ At(c, "locking", "statement") /\ lock = None
    /\ IF held THEN Goto(c, "inside") /\ lock' = c
       ELSE Goto(c, "acquiring") /\ UNCHANGED lock
    /\ UNCHANGED <<held, mirror, idle>>

RanInside(c) ==
    /\ call[c].pc = "inside"
    /\ lock' = None
    /\ Answer(c)
    /\ UNCHANGED <<held, mirror, idle>>

Acquired(c) ==
    /\ call[c].pc = "acquiring" /\ idle > 0
    /\ idle' = idle - 1
    /\ Goto(c, "running")
    /\ UNCHANGED <<held, mirror, lock>>

(* Mutant: the connection is kept for the description, which asks the pool   *)
(* for another.                                                              *)
RanKeeping(c) ==
    /\ call[c].pc = "running"
    /\ \/ Answer(c) /\ idle' = idle + 1
       \/ call[c].kind = "statement" /\ Goto(c, "describing") /\ UNCHANGED idle
    /\ UNCHANGED <<held, mirror, lock>>

(* The connection goes back to the pool.  A statement whose result has no   *)
(* row asks the pool again, to describe its columns (SQLite, MySQL).        *)
Ran(c) ==
    /\ call[c].pc = "running"
    /\ idle' = idle + 1
    /\ \/ Answer(c)
       \/ call[c].kind = "statement" /\ Goto(c, "describing")
    /\ UNCHANGED <<held, mirror, lock>>

Described(c) ==
    /\ call[c].pc = "describing" /\ idle > 0
    /\ Answer(c)
    /\ UNCHANGED <<held, mirror, lock, idle>>

-----------------------------------------------------------------------------
Unlock(c) == lock' = IF lock = c THEN None ELSE lock

(* `acquire_timeout`, only when there is no connection to be had.           *)
TimedOut(c) ==
    /\ call[c].pc \in {"beginning", "acquiring", "describing"} /\ idle = 0
    /\ Unlock(c)
    /\ Answer(c)
    /\ UNCHANGED <<held, mirror, idle>>

(* Mutant: a call dropped inside the transaction takes it along.             *)
DropTransaction(c) ==
    /\ c \in Drops
    /\ call[c].pc # "idle"
    /\ Unlock(c)
    /\ held' = (held /\ call[c].pc # "inside")
    /\ idle' = IF call[c].pc \in {"running", "ending", "inside"} THEN idle + 1 ELSE idle
    /\ Answer(c)
    /\ UNCHANGED mirror

(* Mutant: a COMMIT or a ROLLBACK that is dropped lowers the flag.           *)
DropLowering(c) ==
    /\ c \in Drops
    /\ call[c].pc # "idle"
    /\ Unlock(c)
    /\ idle' = IF call[c].pc \in {"running", "ending"} THEN idle + 1 ELSE idle
    /\ mirror' = (mirror /\ call[c].kind \notin {"commit", "rollback"})
    /\ Answer(c)
    /\ UNCHANGED held

(* The future is dropped: its lock guard goes, its connection returns to    *)
(* the pool, a transaction it was ending is rolled back or was committed;   *)
(* the transaction it only used stays in the driver.                        *)
Drop(c) ==
    /\ c \in Drops
    /\ call[c].pc # "idle"
    /\ Unlock(c)
    /\ idle' = IF call[c].pc \in {"running", "ending"} THEN idle + 1 ELSE idle
    /\ Answer(c)
    /\ UNCHANGED <<held, mirror>>

-----------------------------------------------------------------------------
Next == \E c \in Calls :
    \/ \E kind \in Kinds : Call(c, kind)
    \/ Begin(c) \/ Begun(c) \/ BeginFailed(c)
    \/ End(c) \/ Ended(c) \/ EndFailed(c)
    \/ Look(c) \/ RanInside(c) \/ Acquired(c) \/ Ran(c) \/ Described(c)
    \/ TimedOut(c) \/ Drop(c)

Spec == Init /\ [][Next]_vars

(* The database answers what runs on a connection.  tokio's mutex and the   *)
(* pool serve their waiters in order, so a call that waits for one that is  *)
(* free again and again gets it (SF).                                       *)
Fairness == \A c \in Calls :
    /\ WF_vars(RanInside(c) \/ Ran(c) \/ Ended(c))
    /\ SF_vars(Begin(c) \/ End(c) \/ Look(c))
    /\ SF_vars(Begun(c) \/ Acquired(c) \/ Described(c))

FairSpec == Spec /\ Fairness

-----------------------------------------------------------------------------
(* Properties *)

(* A held transaction is always visible to the idle reaper and to `status`, *)
(* whatever fails, times out or is dropped: the flag is never down while a  *)
(* transaction is held.                                                     *)
HeldIsVisible == held => mirror

(* "Mirrors whether `transaction` is currently `Some`": when no call is at  *)
(* work on the transaction, the flag says what is the case.                 *)
(* The code does not keep it: README.md, "What the code does not keep".     *)
MirrorIsTruthful == lock = None => (mirror <=> held)

(* "A held transaction takes every statement until it's closed": one that   *)
(* was called in a transaction goes to the pool only when that transaction  *)
(* has ended.                                                               *)
StatementsJoin ==
    [][\A c \in Calls :
          call[c].pc = "locking" /\ call'[c].pc = "acquiring" => ~call[c].within]_vars

(* Only a COMMIT or a ROLLBACK lets go of the transaction: no failed,       *)
(* timed-out or cancelled statement does.                                   *)
EndsOnlyWhenAsked ==
    [][held /\ ~held' => \E c \in Calls : call[c].kind \in {"commit", "rollback"}
                                          /\ call'[c].pc = "ending"]_vars

(* The driver never waits for itself: as long as the clients end their      *)
(* transactions, every call ends without the help of a timeout, even with   *)
(* one connection.                                                          *)
CallsEnd ==
    []<>(~held) => \A c \in Calls : call[c].pc # "idle" ~> call[c].pc = "idle"
=============================================================================
