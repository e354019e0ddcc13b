-------------------------- MODULE ServerLifecycle --------------------------
(***************************************************************************)
(* tradar-server processes that share one socket path: `bind`              *)
(* (transport.rs), the end of `main` (main.rs), and crashes.  A client     *)
(* reaches the process whose inode the path names, if it listens.  Each    *)
(* system call on the path is a step of its own, and nothing keeps two     *)
(* processes from taking them at once: every Neovim starts a server when   *)
(* nobody answers it.                                                      *)
(***************************************************************************)
EXTENDS Naturals, FiniteSets

CONSTANTS
    Servers,  \* processes; each one runs once
    None

ASSUME LifecycleAssumption == None \notin Servers

VARIABLES
    pc,    \* process -> where it is
    file,  \* the process whose socket the path names, if any
    raced  \* history: the processes alive that started while another was
           \* starting or stopping, that stopped or started beside one that
           \* did, or started while such a one lived

lifecycle == <<pc, file, raced>>

Starting == {"checking", "probing", "removing", "binding", "bound", "listening"}

ServersTypeOK ==
    /\ pc \in [Servers -> {"off", "serving", "stopping", "exited"} \cup Starting]
    /\ file \in Servers \cup {None}
    /\ raced \subseteq Servers

ServersInit ==
    /\ pc = [s \in Servers |-> "off"]
    /\ file = None
    /\ raced = {}

-----------------------------------------------------------------------------
Goto(s, where) ==
    /\ pc' = [pc EXCEPT ![s] = where]
    /\ raced' = IF where = "exited" THEN raced \ {s} ELSE raced

In(places) == {u \in Servers : pc[u] \in places}

(* A connect succeeds: bind and listen are two calls, and only the second   *)
(* opens the door.                                                          *)
Answers(s) == s # None /\ pc[s] \in {"listening", "serving"}

(* The plugin starts a process when nothing answers on the path.            *)
Start(s) ==
    LET beside == In(Starting \cup {"stopping"}) IN
    /\ pc[s] = "off"
    /\ pc' = [pc EXCEPT ![s] = "checking"]
    /\ raced' = IF beside = {} /\ raced = {} THEN {} ELSE raced \cup beside \cup {s}
    /\ UNCHANGED file

(* Mutant: an existing path is taken for a stale one, nobody is asked.      *)
CheckUnprobed(s) ==
    /\ pc[s] = "checking"
    /\ Goto(s, IF file = None THEN "binding" ELSE "removing")
    /\ UNCHANGED file

(* `path.exists()`                                                          *)
Check(s) ==
    /\ pc[s] = "checking"
    /\ Goto(s, IF file = None THEN "binding" ELSE "probing")
    /\ UNCHANGED file

(* `UnixStream::connect(path)`: gives up when a live server answers.        *)
Probe(s) ==
    /\ pc[s] = "probing"
    /\ Goto(s, IF Answers(file) THEN "exited" ELSE "removing")
    /\ UNCHANGED file

(* Mutant: the stale file is left where it is.                              *)
RemoveStaleNothing(s) ==
    /\ pc[s] = "removing"
    /\ Goto(s, "binding")
    /\ UNCHANGED file

(* `remove_file`: an error, and the end, when the file is gone by now.      *)
RemoveStale(s) ==
    /\ pc[s] = "removing"
    /\ Goto(s, IF file = None THEN "exited" ELSE "binding")
    /\ file' = None

(* `UnixListener::bind` fails when the path exists.                         *)
Bind(s) ==
    /\ pc[s] = "binding"
    /\ IF file = None
       THEN Goto(s, "bound") /\ file' = s
       ELSE Goto(s, "exited") /\ UNCHANGED file

Listen(s) ==
    /\ pc[s] = "bound"
    /\ Goto(s, "listening")
    /\ UNCHANGED file

(* `set_permissions` needs the path to be there.                            *)
Chmod(s) ==
    /\ pc[s] = "listening"
    /\ Goto(s, IF file = None THEN "exited" ELSE "serving")
    /\ UNCHANGED file

(* Ctrl-C or `shutdown`: the select drops the listener first ...            *)
Stop(s) ==
    LET beside == In(Starting) IN
    /\ pc[s] = "serving"
    /\ pc' = [pc EXCEPT ![s] = "stopping"]
    /\ raced' = IF beside = {} THEN raced ELSE raced \cup beside \cup {s}
    /\ UNCHANGED file

(* ... and, 150 ms later after a `shutdown`, the path is removed, whoever   *)
(* it names by then.                                                        *)
RemoveSocket(s) ==
    /\ pc[s] = "stopping"
    /\ Goto(s, "exited")
    /\ file' = None

Crash(s) ==
    /\ pc[s] \notin {"off", "exited"}
    /\ Goto(s, "exited")
    /\ UNCHANGED file

-----------------------------------------------------------------------------
Step(s) == Check(s) \/ Probe(s) \/ RemoveStale(s) \/ Bind(s) \/ Listen(s) \/ Chmod(s)

ServersNext == \E s \in Servers :
    Start(s) \/ Step(s) \/ Stop(s) \/ RemoveSocket(s) \/ Crash(s)

ServersSpec == ServersInit /\ [][ServersNext]_lifecycle

-----------------------------------------------------------------------------
(* Properties *)

(* A process that serves is the one clients reach ("the next command starts  *)
(* a fresh one", and finds it), and the only one: said of every process that *)
(* did not start or stop at the same time as another, whatever others did    *)
(* before, raced and crashed included, once none of them is left.            *)
ServingIsReachable ==
    \A s \in Servers \ raced : pc[s] = "serving" =>
        /\ file = s
        /\ \A u \in Servers \ {s} : pc[u] # "serving"

(* A process gives up starting only because another one answers: a socket   *)
(* file left by a crash at any point of start or stop is never in the way.  *)
StaleFilesAreNoObstacle ==
    [][\A s \in Servers \ raced : Step(s) /\ pc'[s] = "exited" =>
          \E u \in Servers \ {s} : Answers(u)]_lifecycle

(* What `bind` says of the file it removes: "A live server answers; a stale  *)
(* file from a crash doesn't."  The answer may be old when it is acted on.   *)
(* The code does not keep it: README.md, "What the code does not keep".     *)
OnlyStaleFilesAreRemoved ==
    [][\A s \in Servers : RemoveStale(s) => ~Answers(file)]_lifecycle

(* What the plugin says of a restart, "server stopped; the next command      *)
(* starts a fresh one": the server on its way out leaves that one's path be. *)
(* The code does not keep it: README.md, "What the code does not keep".     *)
StopsSpareTheNext ==
    [][\A s, u \in Servers : RemoveSocket(s) /\ pc[u] = "serving" => file # u]_lifecycle
=============================================================================
