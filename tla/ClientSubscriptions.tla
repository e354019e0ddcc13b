------------------------ MODULE ClientSubscriptions ------------------------
(***************************************************************************)
(* Client sockets and the push subscriptions they own: `serve_connection`  *)
(* (transport.rs), `new_client` / `client_disconnected` (server.rs), the   *)
(* `Subscriptions` registry (subscriptions.rs) and the `tail.start` and    *)
(* `tail.stop` handlers of an extension that keeps one (socket.rs; kafka.rs *)
(* is the same without a dial between taking the id and inserting the      *)
(* handle).  `send` changes none of this state and is left out.            *)
(*                                                                         *)
(* A `tail.start` request is a task of its client's JoinSet.  Dropping the *)
(* set aborts a task parked at an await at once; a task that a worker      *)
(* thread is polling at that moment runs on to its next await.             *)
(***************************************************************************)
EXTENDS Naturals, FiniteSets

CONSTANTS
    Clients,     \* accepted sockets, each one a fresh `ClientConnection`
    Subs,        \* the subscription ids that get used (a bound)
    Parallel,    \* the clients whose requests a worker thread may be polling
                 \* while their socket closes (`tokio::main`: any of them; the
                 \* one thread `#[tokio::test]` runs on: none)
    ReadErrors,  \* the clients reading a line of which may fail (a reset, a
                 \* line that is not UTF-8)
    NoClient

ASSUME SubscriptionsAssumption ==
    /\ NoClient \notin Clients \cup Subs
    /\ Parallel \subseteq Clients
    /\ ReadErrors \subseteq Clients

VARIABLES
    conn,         \* client -> "new", "open", "eof" (its tasks aborted), "gone",
                  \* "cut" (left without the cleanup)
    openClients,  \* `Server::open_clients`
    owner,        \* subscription id -> the client whose request took it
    start,        \* subscription id -> how far that `tail.start` request is
    tail,         \* subscription id -> its reader and forwarder tasks
    entries,      \* `Subscriptions::entries`: id -> client
    byClient      \* `Subscriptions::by_client`: client -> ids

subsVars == <<conn, openClients, owner, start, tail, entries, byClient>>

SubsTypeOK ==
    /\ conn \in [Clients -> {"new", "open", "eof", "gone", "cut"}]
    /\ openClients \in 0..Cardinality(Clients)
    /\ owner \in [Subs -> Clients \cup {NoClient}]
    /\ start \in [Subs -> {"unused", "dialing", "polled", "over"}]
    /\ tail \in [Subs -> {"none", "running", "stopping", "ended"}]
    /\ entries \in [Subs -> Clients \cup {NoClient}]
    /\ byClient \in [Clients -> SUBSET Subs]

SubsInit ==
    /\ conn = [c \in Clients |-> "new"]
    /\ openClients = 0
    /\ owner = [s \in Subs |-> NoClient]
    /\ start = [s \in Subs |-> "unused"]
    /\ tail = [s \in Subs |-> "none"]
    /\ entries = [s \in Subs |-> NoClient]
    /\ byClient = [c \in Clients |-> {}]

-----------------------------------------------------------------------------
(* The registry *)

(* `insert`: pushes the id on its client's list, whatever became of the     *)
(* client.                                                                  *)
Insert(s, c) ==
    /\ byClient' = [byClient EXCEPT ![c] = @ \cup {s}]
    /\ entries' = [entries EXCEPT ![s] = c]

(* Mutant: `remove` leaves the id on its client's list.                     *)
RemoveEntryOnly(s) ==
    /\ UNCHANGED byClient
    /\ entries' = [entries EXCEPT ![s] = NoClient]

(* `remove`: forgets s, and takes it off its client's list.                 *)
RemoveEntry(s) ==
    /\ byClient' = [c \in Clients |-> IF c = entries[s] THEN byClient[c] \ {s} ELSE byClient[c]]
    /\ entries' = [entries EXCEPT ![s] = NoClient]

(* `remove_client`: forgets everything on the client's list.                *)
RemoveClient(c) ==
    /\ byClient' = [byClient EXCEPT ![c] = {}]
    /\ entries' = [s \in Subs |-> IF s \in byClient[c] THEN NoClient ELSE entries[s]]

(* `TailHandle::stop` on each handle: an abort request, not a join.         *)
StopHandles(ids) ==
    tail' = [s \in Subs |-> IF s \in ids /\ tail[s] = "running" THEN "stopping" ELSE tail[s]]

-----------------------------------------------------------------------------
(* serve_connection *)

Accept(c) ==
    /\ conn[c] = "new"
    /\ conn' = [conn EXCEPT ![c] = "open"]
    /\ openClients' = openClients + 1
    /\ UNCHANGED <<owner, start, tail, entries, byClient>>

(* Dropping the JoinSet: requests parked at an await are gone.              *)
AbortRequests(c) ==
    start' = [s \in Subs |-> IF owner[s] = c /\ start[s] = "dialing" THEN "over" ELSE start[s]]

(* Mutant: the JoinSet is dropped only after the cleanup.                   *)
HangUpKeepingRequests(c) ==
    /\ conn[c] = "open"
    /\ conn' = [conn EXCEPT ![c] = "eof"]
    /\ UNCHANGED <<openClients, owner, start, tail, entries, byClient>>

HangUp(c) ==
    /\ conn[c] = "open"
    /\ conn' = [conn EXCEPT ![c] = "eof"]
    /\ AbortRequests(c)
    /\ UNCHANGED <<openClients, owner, tail, entries, byClient>>

(* Mutant: the cleanup stops every tail of the extension.                   *)
DisconnectedStopsAll(c) ==
    /\ conn[c] = "eof"
    /\ conn' = [conn EXCEPT ![c] = "gone"]
    /\ openClients' = openClients - 1
    /\ RemoveClient(c)
    /\ StopHandles(Subs)
    /\ UNCHANGED <<owner, start>>

(* Mutant: the cleanup drops the handles without stopping them.             *)
DisconnectedForgetsOnly(c) ==
    /\ conn[c] = "eof"
    /\ conn' = [conn EXCEPT ![c] = "gone"]
    /\ openClients' = openClients - 1
    /\ RemoveClient(c)
    /\ UNCHANGED <<owner, start, tail>>

(* `client_disconnected`, after the tasks were told to abort.               *)
Disconnected(c) ==
    /\ conn[c] = "eof"
    /\ conn' = [conn EXCEPT ![c] = "gone"]
    /\ openClients' = openClients - 1
    /\ RemoveClient(c)
    /\ StopHandles(byClient[c])
    /\ UNCHANGED <<owner, start>>

(* `next_line().await?` fails: the function returns, which drops the        *)
(* JoinSet, and nothing after the loop runs.                                *)
ReadFailed(c) ==
    /\ c \in ReadErrors
    /\ conn[c] = "open"
    /\ conn' = [conn EXCEPT ![c] = "cut"]
    /\ AbortRequests(c)
    /\ UNCHANGED <<openClients, owner, tail, entries, byClient>>

-----------------------------------------------------------------------------
(* tail.start, tail.stop *)

(* Takes the next id under the lock, then dials.                            *)
TailStart(c, s) ==
    /\ conn[c] = "open"
    /\ start[s] = "unused"
    /\ owner' = [owner EXCEPT ![s] = c]
    /\ start' = [start EXCEPT ![s] = "dialing"]
    /\ UNCHANGED <<conn, openClients, tail, entries, byClient>>

DialFailed(s) ==
    /\ start[s] = "dialing"
    /\ start' = [start EXCEPT ![s] = "over"]
    /\ UNCHANGED <<conn, openClients, owner, tail, entries, byClient>>

(* The dial succeeded: a worker polls the task, which spawns the reader and *)
(* the forwarder and is about to take the lock again.                       *)
Dialed(s) ==
    /\ owner[s] \in Parallel
    /\ start[s] = "dialing"
    /\ start' = [start EXCEPT ![s] = "polled"]
    /\ tail' = [tail EXCEPT ![s] = "running"]
    /\ UNCHANGED <<conn, openClients, owner, entries, byClient>>

(* The same poll inserts the handle and replies.                            *)
Inserted(s) ==
    /\ start[s] \in IF owner[s] \in Parallel THEN {"polled"} ELSE {"dialing"}
    /\ start' = [start EXCEPT ![s] = "over"]
    /\ tail' = [tail EXCEPT ![s] = "running"]
    /\ Insert(s, owner[s])
    /\ UNCHANGED <<conn, openClients, owner>>

(* Mutant: `tail.stop` forgets the subscription without stopping it.        *)
TailStopForgetsOnly(c, s) ==
    /\ conn[c] = "open"
    /\ entries[s] # NoClient
    /\ RemoveEntry(s)
    /\ UNCHANGED <<conn, openClients, owner, start, tail>>

(* Any client may name any subscription.                                    *)
TailStop(c, s) ==
    /\ conn[c] = "open"
    /\ entries[s] # NoClient
    /\ RemoveEntry(s)
    /\ StopHandles({s})
    /\ UNCHANGED <<conn, openClients, owner, start>>

(* The runtime drops the aborted reader and forwarder.                      *)
TailEnds(s) ==
    /\ tail[s] = "stopping"
    /\ tail' = [tail EXCEPT ![s] = "ended"]
    /\ UNCHANGED <<conn, openClients, owner, start, entries, byClient>>

-----------------------------------------------------------------------------
SubsNext ==
    \/ \E c \in Clients : Accept(c) \/ HangUp(c) \/ Disconnected(c) \/ ReadFailed(c)
    \/ \E c \in Clients, s \in Subs : TailStart(c, s) \/ TailStop(c, s)
    \/ \E s \in Subs : DialFailed(s) \/ Dialed(s) \/ Inserted(s) \/ TailEnds(s)

SubsSpec == SubsInit /\ [][SubsNext]_subsVars

(* Straight-line code after the read loop or within one poll, and the       *)
(* runtime dropping a task it was told to abort.  Nothing is assumed of the *)
(* peer that is dialed.                                                     *)
SubsFairness ==
    /\ \A c \in Clients : WF_subsVars(Disconnected(c))
    /\ \A s \in Subs : WF_subsVars(TailEnds(s)) /\ WF_subsVars(start[s] = "polled" /\ Inserted(s))

SubsFairSpec == SubsSpec /\ SubsFairness

-----------------------------------------------------------------------------
(* Properties *)

(* The two maps of the registry say the same: an id is on a client's list   *)
(* exactly when its entry names that client, so a closing socket finds all  *)
(* of its subscriptions and only its own.                                   *)
RegistryConsistent ==
    \A c \in Clients, s \in Subs : s \in byClient[c] <=> entries[s] = c

(* Every tail that runs can still be stopped: it is registered, under the   *)
(* client that started it, from the poll that spawned it on.                *)
RunningTailsAreRegistered ==
    \A s \in Subs : tail[s] = "running" /\ start[s] # "polled" =>
        entries[s] = owner[s] /\ owner[s] # NoClient

(* A socket's cleanup never touches what another client started.            *)
CleanupStopsOnlyItsOwn ==
    [][\A c \in Clients, s \in Subs :
          Disconnected(c) /\ tail'[s] # tail[s] => owner[s] = c]_subsVars

(* A subscription or a tail of c, whose socket nobody serves any more and   *)
(* no request of which is being polled.                                     *)
Orphaned(c) ==
    \E s \in Subs :
        /\ conn[c] \in {"gone", "cut"} /\ owner[s] = c /\ start[s] # "polled"
        /\ entries[s] # NoClient \/ tail[s] = "running"

(* "Any subscription this client started and never explicitly stopped must  *)
(* not keep running": once serve_connection is through, none is registered  *)
(* for it and none of its tails runs.  Said of a client whose socket was    *)
(* read to its end while no worker was polling a request of it, whatever    *)
(* the other clients go through.                                            *)
CleanupIsComplete == \A c \in Clients \ (Parallel \cup ReadErrors) : ~Orphaned(c)

(* Every tail of a client that hung up comes to its end.                    *)
TailsEndWithTheirClient ==
    \A c \in Clients \ Parallel, s \in Subs :
        conn[c] = "eof" /\ owner[s] = c ~> tail[s] \in {"none", "ended"}

(* The same of every client: what the comment says of a closed socket.      *)
(* The code does not keep it: README.md, "What the code does not keep".     *)
EveryCleanupIsComplete == \A c \in Clients : ~Orphaned(c)

(* `connected_clients` tells "how many client sockets are open right now":  *)
(* those being served, and those whose cleanup is under way.                *)
(* The code does not keep it: README.md, "What the code does not keep".     *)
OpenClientsCounted ==
    openClients = Cardinality({c \in Clients : conn[c] \in {"open", "eof"}})
=============================================================================
