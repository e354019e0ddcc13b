---------------------------- MODULE PluginClient ----------------------------
(***************************************************************************)
(* The Neovim plugin as a client of the server: the pipe and its pending   *)
(* calls (nvim/lua/tradar/rpc.lua), calls that connect first               *)
(* (ctx.lua, conn.lua) and the statements a user runs (running.lua), on    *)
(* one connection.  Lua runs one callback at a time; an action is one      *)
(* callback, key or tick with everything it calls in the same turn.        *)
(*                                                                         *)
(* The server is what the plugin can see of it: up or not, and knowing the *)
(* connection or not.  A statement the user confirms is a run; questions   *)
(* asked before it end in one.                                             *)
(***************************************************************************)
EXTENDS Naturals, FiniteSets, FiniteSetsExt, Sequences, SequencesExt, Functions

CONSTANTS
    Runs,                 \* statements the user runs
    None,
    MaxIds, MaxPipes,     \* bounds: requests and pipes in a behaviour,
    MaxTries,             \* attempts on a server that was started (30)
    MaxEvents             \* crashes, restarts, polls, cancels, reaps, half lines

(* The methods of a call, and what can be wrong with its answer; a callback, *)
(* and what waits for the connect that is on its way.                       *)
Methods == {"execute", "connect", "status", "cancel", "shutdown"}
Errors  == {"unconnected", "failed", "cancelled", "closed"}
Conts   == [run : Runs, method : {"execute", "cancel"}, retried : BOOLEAN, again : BOOLEAN]
           \cup [run : {None}, method : {"connect", "status", "shutdown"},
                 retried : {FALSE}, again : {FALSE}]
Waiters == [run : Runs, retried : BOOLEAN, again : BOOLEAN]

ASSUME PluginClientAssumption ==
    /\ None \notin Runs \cup Nat \cup Errors \cup Conts /\ None \notin Seq(Waiters)
    /\ {MaxIds, MaxPipes, MaxTries} \subseteq Nat \ {0} /\ MaxEvents \in Nat

VARIABLES
    pipe, buffer, pending, nextId,   \* of rpc.lua; `buffer` is whose half line it holds
    pipes,       \* what became of each: the server's end of a "dead" one is gone
    ensuring,    \* `ensure` calls that wait for their connect
    scheduled,   \* callbacks given to `vim.schedule`, in the order they will run
    connected, connecting, running,  \* of `state`, for the connection
    runs,        \* what became of each run
    server,
    wire,        \* requests on their way, or being served
    replies,     \* answers on their way, or of which one `half` is read
    executed,    \* history: how often each run's statement was executed
    misread,     \* history: runs that were executed and whose error reads "not connected"
    happened,    \* history: how many of MaxEvents
    forgotten,   \* history: runs whose callback `close` or `restart` threw away
    garbled,     \* history: lines of two pipes were mixed up
    overlapped   \* history: a run went out while another was on its way

lines    == <<pipe, buffer, pipes>>
calls    == <<pending, nextId, ensuring>>
plugin   == <<connected, connecting, running, runs>>
served   == <<executed, misread>>
events   == <<served, happened>>
history  == <<events, forgotten, garbled, overlapped>>
vars     == <<lines, calls, scheduled, plugin, server, wire, replies, history>>

Ids   == 1..MaxIds
Pipes == 1..MaxPipes

(* A callback: for which run, of which method; `retried` is of `call`,      *)
(* `again` of `run_text`.                                                   *)
Cont(run, method, retried, again) ==
    [run |-> run, method |-> method, retried |-> retried, again |-> again]
Connects == Cont(None, "connect", FALSE, FALSE)
Status   == Cont(None, "status", FALSE, FALSE)
Shutdown == Cont(None, "shutdown", FALSE, FALSE)

Init ==
    /\ pipe = None /\ buffer = None /\ pending = [i \in Ids |-> None] /\ nextId = 0
    /\ pipes = [p \in Pipes |-> "unused"]
    /\ ensuring = {} /\ scheduled = <<>>
    /\ connected = FALSE /\ connecting = None /\ running = None
    /\ runs = [r \in Runs |-> "new"]
    /\ server \in [up : BOOLEAN, knows : {FALSE}, starting : {FALSE}, stopping : {FALSE}]
    /\ wire = {} /\ replies = {}
    /\ executed = [r \in Runs |-> 0]
    /\ misread = {} /\ happened = 0
    /\ forgotten = {} /\ garbled = FALSE /\ overlapped = FALSE

Happens == happened < MaxEvents /\ happened' = happened + 1

-----------------------------------------------------------------------------
(* `send`, on pipe p, for some callbacks in a row.  What is written to a    *)
(* dead pipe gets nowhere.                                                  *)
Sends(p, conts) ==
    /\ nextId + Len(conts) <= MaxIds
    /\ nextId' = nextId + Len(conts)
    /\ pending' = [i \in Ids |-> IF i \in (nextId + 1)..nextId' THEN conts[i - nextId]
                                 ELSE pending[i]]
    /\ wire' = IF pipes[p] = "dead" THEN wire
               ELSE wire \cup {[id |-> nextId + i, pipe |-> p, run |-> conts[i].run,
                                method |-> conts[i].method] : i \in DOMAIN conts}

Ensure(cont, tries, n) == [cont |-> cont, tries |-> tries, n |-> n]

(* `call`: `ensure`, then `request`.  Without a pipe each opens its own.    *)
Calls(conts) ==
    IF pipe # None
    THEN Sends(pipe, conts) /\ UNCHANGED ensuring
    ELSE LET n == Max({0} \cup {e.n : e \in ensuring}) IN
         /\ ensuring' = ensuring \cup {Ensure(conts[i], 0, n + i) : i \in DOMAIN conts}
         /\ UNCHANGED <<nextId, pending, wire>>

CallsNothing == UNCHANGED <<calls, wire>>

(* Behind `ensure_connected`, a run is sent out, the last of them shown, or *)
(* the call of one that is out already is repeated.                         *)
Waiter(r, retried, again) == [run |-> r, retried |-> retried, again |-> again]

Proceed(ws) ==
    /\ IF \A i \in DOMAIN ws : ws[i].retried
       THEN UNCHANGED running
       ELSE \E i \in DOMAIN ws : /\ ~ws[i].retried /\ running' = ws[i].run
                                 /\ \A j \in DOMAIN ws : j > i => ws[j].retried
    /\ overlapped' = (overlapped \/ Len(ws) > 1 \/ running \notin {None, ws[1].run})
    /\ Calls([i \in DOMAIN ws |-> Cont(ws[i].run, "execute", ws[i].retried, ws[i].again)])

(* `ensure_connected` of a connection not known, and of any.                 *)
ConnectAgain(w) ==
    /\ UNCHANGED overlapped
    /\ IF connecting # None
       THEN connecting' = Append(connecting, w) /\ CallsNothing
       ELSE connecting' = <<w>> /\ Calls(<<Connects>>)

EnsureConnected(w) ==
    IF connected THEN Proceed(<<w>>) /\ UNCHANGED connecting
    ELSE ConnectAgain(w) /\ UNCHANGED running

-----------------------------------------------------------------------------
(* Keys and timers.                                                         *)
Run(r) ==
    /\ runs[r] = "new"
    /\ IF running # None
       THEN /\ runs' = [runs EXCEPT ![r] = "refused"]
            /\ CallsNothing /\ UNCHANGED <<connecting, running, overlapped>>
       ELSE /\ runs' = [runs EXCEPT ![r] = "waits"]
            /\ EnsureConnected(Waiter(r, FALSE, FALSE))
    /\ UNCHANGED <<lines, scheduled, connected, server, replies, events, forgotten, garbled>>

CancelRun ==
    /\ running # None /\ Happens
    /\ Calls(<<Cont(running, "cancel", FALSE, FALSE)>>)
    /\ UNCHANGED <<lines, scheduled, plugin, server, replies, served, forgotten, garbled,
                   overlapped>>

Restart ==
    /\ pipe # None /\ Happens
    /\ Sends(pipe, <<Shutdown>>)
    /\ UNCHANGED <<lines, ensuring, scheduled, plugin, server, replies, served,
                   forgotten, garbled, overlapped>>

Poll ==         \* the 15 s poller; without a pipe `send` fails at once
    /\ connected /\ Happens
    /\ IF pipe # None
       THEN Sends(pipe, <<Status>>) /\ UNCHANGED connected
       ELSE connected' = FALSE /\ UNCHANGED <<nextId, pending, wire>>
    /\ UNCHANGED <<lines, ensuring, scheduled, connecting, running, runs, server, replies,
                   served, forgotten, garbled, overlapped>>

-----------------------------------------------------------------------------
(* The server, and the system around it.                                    *)
Reply(m, err) == [id |-> m.id, pipe |-> m.pipe, err |-> err, half |-> FALSE]

Answers(m, err) ==
    /\ m \in wire
    /\ wire' = wire \ {m}
    /\ replies' = replies \cup {Reply(m, err)}
    /\ UNCHANGED <<lines, calls, scheduled, plugin, happened, forgotten, garbled, overlapped>>

(* The answers stand for what the client makes of them: the database's own   *)
(* error is "unconnected", too, when its text has "not connected" in it.     *)
ServeExecute(m) ==
    /\ m.method = "execute" /\ UNCHANGED server
    /\ IF server.knows
       THEN \E err \in {None, "failed", "unconnected"} :
            /\ Answers(m, err)
            /\ executed' = [executed EXCEPT ![m.run] = @ + 1]
            /\ misread' = IF err = "unconnected" THEN misread \cup {m.run} ELSE misread
       ELSE Answers(m, "unconnected") /\ UNCHANGED served

ServeConnect(m) ==
    /\ m.method = "connect" /\ UNCHANGED served
    /\ \/ Answers(m, None) /\ server' = [server EXCEPT !.knows = TRUE]
       \/ Answers(m, "failed") /\ UNCHANGED server

ServeStatus(m) ==
    /\ m.method = "status" /\ UNCHANGED <<server, served>>
    /\ Answers(m, IF server.knows THEN None ELSE "unconnected")

ServeCancel(m) ==     \* the execute it finds running is answered as well
    /\ m.method = "cancel" /\ m \in wire
    /\ \E hit \in {{}, {x \in wire : x.method = "execute" /\ x.run = m.run}} :
       /\ wire' = wire \ (hit \cup {m})
       /\ replies' = replies \cup {Reply(m, None)} \cup {Reply(x, "cancelled") : x \in hit}
    /\ UNCHANGED <<lines, calls, scheduled, plugin, server, history>>

Down == /\ server' = [server EXCEPT !.up = FALSE, !.knows = FALSE, !.stopping = FALSE]
        /\ pipes' = [p \in Pipes |-> IF pipes[p] = "open" THEN "dead" ELSE pipes[p]]
        /\ wire' = {}
        /\ UNCHANGED <<pipe, buffer, calls, scheduled, plugin, served, forgotten,
                       garbled, overlapped>>

ServeShutdown(m) ==   \* the process serves on for a while (150 ms)
    /\ m.method = "shutdown" /\ UNCHANGED served
    /\ Answers(m, None)
    /\ server' = [server EXCEPT !.stopping = TRUE]

Stops == server.stopping /\ Down /\ UNCHANGED <<replies, happened>>

Crash ==              \* answers that are not read yet may be lost
    /\ server.up /\ Happens
    /\ \E kept \in {{}, replies} : replies' = kept
    /\ Down

Reaped ==             \* closed as idle
    /\ server.knows /\ Happens
    /\ server' = [server EXCEPT !.knows = FALSE]
    /\ UNCHANGED <<lines, calls, scheduled, plugin, wire, replies, served, forgotten,
                   garbled, overlapped>>

Starts ==             \* or fails to, or finds one that is up
    /\ server.starting
    /\ \E up \in {server.up, TRUE} : server' = [server EXCEPT !.starting = FALSE, !.up = up]
    /\ UNCHANGED <<lines, calls, scheduled, plugin, wire, replies, history>>

-----------------------------------------------------------------------------
(* `on_data`: a line, its first half, the rest of it, the end of a pipe.    *)
Readable(r) == \A q \in replies : q.pipe = r.pipe /\ q.half => q = r

Delivers(r) ==
    /\ scheduled' = IF pending[r.id] = None THEN scheduled
                    ELSE Append(scheduled, [cont |-> pending[r.id], err |-> r.err])
    /\ pending' = [pending EXCEPT ![r.id] = None]
    /\ UNCHANGED garbled

Garbles == garbled' = TRUE /\ UNCHANGED <<scheduled, pending>>

Read(r) ==
    /\ Readable(r)
    /\ replies' = replies \ {r}
    /\ buffer' = None
    /\ IF buffer = (IF r.half THEN r.id ELSE None) THEN Delivers(r) ELSE Garbles
    /\ UNCHANGED <<pipe, pipes, nextId, ensuring, plugin, server, wire, events, forgotten,
                   overlapped>>

ReadHalf(r) ==
    /\ Readable(r) /\ ~r.half /\ Happens
    /\ replies' = (replies \ {r}) \cup {[r EXCEPT !.half = TRUE]}
    /\ buffer' = IF buffer = None THEN r.id ELSE 0
    /\ UNCHANGED <<pipe, pipes, calls, scheduled, plugin, server, wire, served, forgotten,
                   garbled, overlapped>>

(* What is behind a pipe that the client closes is dropped.                 *)
Closes(ps) ==
    /\ pipes' = [p \in Pipes |-> IF p \in ps THEN "closed" ELSE pipes[p]]
    /\ pipe' = None /\ buffer' = None
    /\ wire' = {m \in wire : m.pipe \notin ps}
    /\ replies' = {r \in replies : r.pipe \notin ps}
    /\ pending' = [i \in Ids |-> None]

Waiting == {i \in Ids : pending[i] # None}

(* Mutant: the pending calls are dropped without being failed. *)
EofForgets(p) ==
    /\ pipes[p] = "dead" /\ \A r \in replies : r.pipe # p
    /\ Closes({p, pipe} \ {None})
    /\ UNCHANGED <<nextId, ensuring, scheduled, plugin, server, history>>

Eof(p) ==
    /\ pipes[p] = "dead" /\ \A r \in replies : r.pipe # p
    /\ Closes({p, pipe} \ {None})
    /\ \E order \in SetToSeqs(Waiting) :
          scheduled' = scheduled \o [i \in DOMAIN order |->
                                       [cont |-> pending[order[i]], err |-> "closed"]]
    /\ UNCHANGED <<nextId, ensuring, plugin, server, history>>

-----------------------------------------------------------------------------
(* What the callbacks do.                                                   *)
Ends(r, how) == runs' = [runs EXCEPT ![r] = how]

(* Mutant: the run stays named as the one on its way. *)
FinishUnsaid == UNCHANGED running

Finish == running' = None

RunFails(c, err) ==       \* the error callback of `run_text`
    IF err = "unconnected" /\ ~c.again
    THEN /\ connected' = FALSE /\ UNCHANGED runs
         /\ Finish
         /\ ConnectAgain(Waiter(c.run, FALSE, TRUE))
    ELSE /\ Finish
         /\ Ends(c.run, "failed")
         /\ CallsNothing /\ UNCHANGED <<connected, connecting, overlapped>>

WaitersFail ==            \* `settle(false)`
    /\ connecting' = None
    /\ IF connecting = None
       THEN UNCHANGED <<runs, running>>
       ELSE LET ws == ToSet(connecting) IN
            /\ runs' = [r \in Runs |-> IF \E w \in ws : w.run = r THEN "failed" ELSE runs[r]]
            /\ running' = IF \E w \in ws : w.retried THEN None ELSE running

ConnectFails == WaitersFail /\ CallsNothing /\ UNCHANGED <<connected, overlapped>>

Fails(c, err) ==
    CASE c.method = "execute" -> RunFails(c, err)
      [] c.method = "connect" -> ConnectFails
      [] OTHER -> CallsNothing /\ UNCHANGED <<plugin, overlapped>>

(* Mutant: the call is repeated whatever went wrong. *)
ExecutedOrAgain(c, err) ==
    IF err # None /\ ~c.retried /\ connected
    THEN /\ connected' = FALSE
         /\ ConnectAgain(Waiter(c.run, TRUE, c.again))
         /\ UNCHANGED <<running, runs>>
    ELSE RunFails(c, err)

(* The callback of `call`.                                                  *)
Executed(c, err) ==
    CASE err = None ->
             /\ Finish /\ Ends(c.run, "done")
             /\ CallsNothing /\ UNCHANGED <<connected, connecting, overlapped>>
      [] err = "unconnected" /\ ~c.retried /\ connected ->
             /\ connected' = FALSE
             /\ ConnectAgain(Waiter(c.run, TRUE, c.again))
             /\ UNCHANGED <<running, runs>>
      [] OTHER -> RunFails(c, err)

ConnectDone ==
    /\ connected' = TRUE
    /\ connecting' = None
    /\ UNCHANGED runs
    /\ IF connecting = None THEN CallsNothing /\ UNCHANGED <<running, overlapped>>
       ELSE Proceed(connecting)

Callback ==
    /\ scheduled # <<>> /\ Head(scheduled).cont.method # "shutdown"
    /\ scheduled' = Tail(scheduled)
    /\ LET s == Head(scheduled) IN
       CASE s.cont.method = "execute" -> Executed(s.cont, s.err)
         [] s.cont.method = "connect" /\ s.err = None -> ConnectDone
         [] s.cont.method = "status" ->
                /\ connected' = (connected /\ s.err # "unconnected")
                /\ CallsNothing /\ UNCHANGED <<connecting, running, runs, overlapped>>
         [] OTHER -> Fails(s.cont, s.err)
    /\ UNCHANGED <<lines, server, replies, events, forgotten, garbled>>

RestartDone ==            \* whether the shutdown was answered or not
    /\ scheduled # <<>> /\ Head(scheduled).cont.method = "shutdown"
    /\ scheduled' = Tail(scheduled)
    /\ Closes({pipe} \ {None})
    /\ connected' = FALSE /\ connecting' = None
    /\ forgotten' = forgotten \cup {pending[i].run : i \in Waiting}
                     \cup (IF connecting = None THEN {} ELSE {w.run : w \in ToSet(connecting)})
    /\ UNCHANGED <<nextId, ensuring, running, runs, server, events, garbled, overlapped>>

-----------------------------------------------------------------------------
(* `ensure`: it connects, or starts a server and tries again.               *)
PipeConnected(e) ==
    /\ e \in ensuring /\ server.up
    /\ \E p \in Pipes :
          /\ pipes[p] = "unused" /\ \A q \in Pipes : q < p => pipes[q] # "unused"
          /\ pipes' = [pipes EXCEPT ![p] = "open"]
          /\ pipe' = p
          /\ Sends(p, <<e.cont>>)
    /\ ensuring' = ensuring \ {e}
    /\ UNCHANGED <<buffer, scheduled, plugin, server, replies, history>>

Refused(e) ==
    /\ e \in ensuring /\ ~server.up /\ e.tries < MaxTries
    /\ ensuring' = (ensuring \ {e}) \cup {Ensure(e.cont, e.tries + 1, e.n)}
    /\ server' = [server EXCEPT !.starting = @ \/ e.tries = 0]
    /\ UNCHANGED <<lines, pending, nextId, scheduled, plugin, wire, replies, history>>

Unreachable(e) ==
    /\ e \in ensuring /\ ~server.up /\ e.tries = MaxTries
    /\ LET c == e.cont IN
       /\ ensuring' = ensuring \ {e}
       /\ CASE c.method = "execute" ->
                  /\ running' = None /\ Ends(c.run, "failed") /\ UNCHANGED connecting
            [] c.method = "connect" -> WaitersFail
            [] OTHER -> UNCHANGED <<connecting, running, runs>>
    /\ UNCHANGED <<lines, pending, nextId, scheduled, connected, server, wire, replies, history>>

-----------------------------------------------------------------------------
Server == \/ \E m \in wire : \/ ServeExecute(m) \/ ServeConnect(m) \/ ServeStatus(m)
                             \/ ServeCancel(m) \/ ServeShutdown(m)
          \/ Stops \/ Crash \/ Reaped \/ Starts

Reads == \/ \E r \in replies : Read(r) \/ ReadHalf(r)
         \/ \E p \in Pipes : Eof(p)

Connecting == \E e \in ensuring : PipeConnected(e) \/ Refused(e) \/ Unreachable(e)

Next == \/ \E r \in Runs : Run(r)
        \/ CancelRun \/ Restart \/ Poll
        \/ Server \/ Reads
        \/ Callback \/ RestartDone \/ Connecting

Spec == Init /\ [][Next]_vars

-----------------------------------------------------------------------------
(* The callback of a call of `method`, for run r, will be called: its pipe  *)
(* is still to come, its answer is on the way, or the end of a pipe is.     *)
Owed(r, method) ==
    LET is(c) == c.run = r /\ c.method = method IN
    \/ \E e \in ensuring : is(e.cont)
    \/ \E i \in DOMAIN scheduled : is(scheduled[i].cont)
    \/ \E i \in Waiting : /\ is(pending[i])
                         /\ \/ \E x \in wire \cup replies : x.id = i
                            \/ \E p \in Pipes : pipes[p] = "dead"

AwaitsConnect(r) == /\ connecting # None /\ \E w \in ToSet(connecting) : w.run = r
                /\ Owed(None, "connect")

(* A statement the user waits for will end, whatever the server and its     *)
(* pipes do: an answer is owed to it, or to the connect it waits for, and   *)
(* the end of a pipe counts as one ("fail whatever was waiting rather than  *)
(* hang forever", rpc.lua:119).  Left out: what :TradarRestart threw away,  *)
(* and lines of two pipes that ran into each other.                         *)
WaitersAreOwed ==
    garbled \/ \A r \in Runs \ forgotten :
        runs[r] = "waits" => Owed(r, "execute") \/ AwaitsConnect(r)

(* The same without what is left out: :TradarRestart drops who was waiting. *)
(* The code does not keep it: README.md, "What the code does not keep".     *)
EveryWaiterIsOwed ==
    \A r \in Runs : runs[r] = "waits" => Owed(r, "execute") \/ AwaitsConnect(r)

(* The repeated call (ctx.lua:75-83) and the repeated run                   *)
(* (running.lua:146-150) never execute a statement a second time, across    *)
(* crashes, idle closings and restarts.  Left out: one whose error the      *)
(* client takes for the server's.                                           *)
RunsOnce == \A r \in Runs \ misread : executed[r] <= 1

(* What is repeated is what the server no longer knew the connection of     *)
(* ("The server was restarted (or crashed) behind our back", ctx.lua:74):   *)
(* never a statement that was executed.                                     *)
(* The code does not keep it: README.md, "What the code does not keep".     *)
NeverRunsTwice == \A r \in Runs : executed[r] <= 1

(* What `state.running` names is a statement the user waits for; and while  *)
(* statements do not overlap, one that is out is named there, so that a     *)
(* second is refused and `cancel` finds it.                                 *)
RunningIsShown ==
    /\ running # None => runs[running] = "waits"
    /\ overlapped \/ \A r \in Runs : Owed(r, "execute") => running = r

(* What the refusal of a second statement means to keep: one is out at a    *)
(* time.  Two that start while the connection is being made both go out.    *)
(* The code does not keep it: README.md, "What the code does not keep".     *)
OneIsOut ==
    \A r, q \in Runs : Owed(r, "execute") /\ Owed(q, "execute") => r = q
=============================================================================
