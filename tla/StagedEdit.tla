----------------------------- MODULE StagedEdit -----------------------------
(***************************************************************************)
(* The edits of a result grid, staged in the Neovim plugin                 *)
(* (nvim/lua/tradar/rowedit.lua) and applied through a driver other        *)
(* clients use as well: its statements run one by one, between a BEGIN and *)
(* a COMMIT of its own, or inside the transaction it finds open.  Which    *)
(* connection a statement goes to is looked up anew for each: the modelled *)
(* driver is that of the connection the edit was made on, any other one is *)
(* elsewhere.                                                              *)
(*                                                                         *)
(* The plugin has one statement out at a time (`state.running`): the       *)
(* driver call Mine.  An action is a callback of the plugin, or a step of  *)
(* the driver with what it does to the table.                              *)
(***************************************************************************)
EXTENDS SqlSession

CONSTANTS
    Mine,        \* the call of the plugin; the others are of anyone else
    Total,       \* statements of the edit
    MaxApplies,  \* bound: how often the user applies it
    Upsets       \* what may happen to it, of these:
                 \*   "lost"       the server, or the connection, is lost
                 \*   "elsewhere"  the buffer's connection is another one by now
                 \*   "misread"    the database's error reads "not connected"

ASSUME StagedEditAssumption ==
    /\ Mine \in Calls
    /\ {Total, MaxApplies} \subseteq Nat \ {0}
    /\ Upsets \subseteq {"lost", "elsewhere", "misread"}
    /\ None \notin {"ok", "failed", "cancelled"}

VARIABLES
    edit,       \* the preview, and how far `run` is
    open,       \* statements done in the transaction that is held, or being ended
    applied,    \* how often each was made lasting
    applies,    \* history
    began,      \* history: the first statement of the last apply
    disturbed   \* history: the edit was cancelled, lost its connection or went
                \* to another, its transaction met others', or its COMMIT was
                \* sent again

editVars == <<vars, edit, open, applied, applies, began, disturbed>>

Statements == 1..Total

EditInit ==
    /\ Init
    /\ edit = [phase |-> "preview", first |-> 1, at |-> 1, wrapped |-> FALSE,
               again |-> FALSE, reply |-> None]
    /\ open = {} /\ applied = [s \in Statements |-> 0]
    /\ applies = 0 /\ began = 1 /\ disturbed = FALSE

Table == <<open, applied>>
history == <<applies, began, disturbed>>

-----------------------------------------------------------------------------
(* `apply`: it asks for the status, and decides by the answer.              *)
Phase(p) == edit' = [edit EXCEPT !.phase = p, !.reply = None]

Apply ==
    /\ edit.phase = "preview" /\ applies < MaxApplies
    /\ applies' = applies + 1 /\ began' = edit.first
    /\ Phase("asking")
    /\ UNCHANGED <<vars, Table, disturbed>>

StatusRead ==      \* the server reads the flag; its answer is on the way
    /\ edit.phase = "asking"
    /\ edit' = [edit EXCEPT !.phase = "told", !.wrapped = ~mirror]
    /\ UNCHANGED <<vars, Table, history>>

(* `run_text` without a connection of its own: to the one of the buffer.    *)
Strays == "elsewhere" \in Upsets /\ UNCHANGED vars

Sends(kind) ==
    /\ \/ Call(Mine, kind) /\ UNCHANGED disturbed
       \/ Strays /\ disturbed' = TRUE
    /\ UNCHANGED <<Table, applies, began>>

SendsStatement(s) ==
    /\ Sends("statement")
    /\ edit' = [edit EXCEPT !.phase = "step", !.at = s, !.reply = None]

Starts ==
    /\ edit.phase = "told"
    /\ IF edit.wrapped THEN Sends("begin") /\ Phase("begin")
       ELSE SendsStatement(edit.first)

Busy ==            \* `run_text` refuses: the user runs something else
    /\ edit.phase = "told"
    /\ Phase("over")
    /\ UNCHANGED <<vars, Table, history>>

-----------------------------------------------------------------------------
(* `step`, `fail`, `reload`: what the answer to the last statement calls.   *)
Told(phase, reply) == edit.phase = phase /\ edit.reply = reply

Reload(again) ==
    /\ Sends("statement")
    /\ edit' = [edit EXCEPT !.phase = "reload", !.again = again, !.reply = None]

Offers(first) ==
    /\ edit' = [edit EXCEPT !.phase = "preview", !.first = first, !.reply = None]
    /\ UNCHANGED <<vars, Table, history>>

Began == Told("begin", "ok") /\ SendsStatement(edit.first)

StepDone ==
    /\ Told("step", "ok")
    /\ CASE edit.at < Total -> SendsStatement(edit.at + 1)
         [] edit.at = Total /\ edit.wrapped  -> Sends("commit") /\ Phase("commit")
         [] edit.at = Total /\ ~edit.wrapped -> Reload(FALSE)

(* Mutant: what failed is offered again without a ROLLBACK.                 *)
StepFailedInPlace ==
    /\ Told("step", "failed")
    /\ Offers(edit.at)

StepFailed ==
    /\ Told("step", "failed")
    /\ IF edit.wrapped THEN Sends("rollback") /\ Phase("rollback") ELSE Offers(edit.at)

Committed == Told("commit", "ok") /\ Reload(FALSE)
CommitFailed == Told("commit", "failed") /\ Sends("rollback") /\ Phase("rollback")
RolledBack == Told("rollback", "ok") /\ Reload(TRUE)

Reloaded ==
    /\ edit.phase = "reload" /\ edit.reply \in {"ok", "failed"} /\ edit.again
    /\ Offers(edit.first)

(* Nothing follows a reload, a BEGIN or a ROLLBACK that failed, nor a       *)
(* statement that was cancelled.                                            *)
Stops ==
    /\ \/ edit.phase = "reload" /\ edit.reply \in {"ok", "failed"} /\ ~edit.again
       \/ Told("begin", "failed") \/ Told("rollback", "failed")
       \/ edit.reply = "cancelled"
    /\ Phase("over")
    /\ UNCHANGED <<vars, Table, history>>

Sending == {"begin", "step", "commit", "rollback", "reload"}

(* `run_text`, like the `call` under it, takes an error in which it reads   *)
(* "not connected" for the server's and sends the statement again, on a     *)
(* connection looked up anew; three times at most, here any number.         *)
Repeats ==
    /\ "misread" \in Upsets
    /\ edit.phase \in Sending /\ edit.reply = "failed"
    /\ edit' = [edit EXCEPT !.reply = None]
    /\ \/ /\ Call(Mine, IF edit.phase \in Kinds THEN edit.phase ELSE "statement")
          /\ disturbed' = (disturbed \/ edit.phase = "commit")
       \/ Strays /\ disturbed' = TRUE
    /\ UNCHANGED <<Table, applies, began>>

Plugin == \/ Apply \/ Starts \/ Busy \/ Began \/ StepDone \/ StepFailed \/ Committed
          \/ CommitFailed \/ RolledBack \/ Reloaded \/ Stops \/ Repeats

-----------------------------------------------------------------------------
(* What a step of the driver does to the table.                             *)
Written(c) == IF c = Mine /\ edit.phase = "step" THEN {edit.at} ELSE {}

More(done) == [s \in Statements |-> IF s \in done THEN applied[s] + 1 ELSE applied[s]]

Untouched == UNCHANGED Table
AtOnce(done) == applied' = More(done) /\ UNCHANGED open
Inside(done) == open' = open \cup done /\ UNCHANGED applied
Settles(lasting) == /\ open' = {}
                    /\ applied' = IF lasting THEN More(open) ELSE applied

(* A step of call c, which answers with `how` if it answers.                *)
Works(c, how) ==
    \/ how = "ok" /\ Untouched
           /\ (Begin(c) \/ Begun(c) \/ End(c) \/ Look(c) \/ Acquired(c) \/ Described(c))
    \/ how = "failed" /\ Untouched /\ BeginFailed(c)
    \/ how = (IF call[c].pc = "describing" THEN "ok" ELSE "failed")
           /\ Untouched /\ TimedOut(c)
    \/ how = "ok" /\ Ended(c) /\ Settles(call[c].kind = "commit")
    \/ how = "failed" /\ EndFailed(c) /\ Settles(FALSE)
    \/ how = "ok" /\ RanInside(c) /\ Inside(Written(c))
    \/ how = "failed" /\ RanInside(c) /\ Untouched
    \/ how = "ok" /\ Ran(c) /\ AtOnce(Written(c))
    \/ how = "failed" /\ Ran(c) /\ call'[c].pc = "idle" /\ Untouched

(* The host drops a call, which may have done what it was about to do.      *)
IsDropped(c) ==
    /\ Drop(c)
    /\ CASE call[c].pc = "ending"  -> \E done \in {FALSE, call[c].kind = "commit"} : Settles(done)
         [] call[c].pc = "inside"  -> \E done \in {{}, Written(c)} : Inside(done)
         [] call[c].pc = "running" -> \E done \in {{}, Written(c)} : AtOnce(done)
         [] OTHER                  -> Untouched

Wrapping == edit.wrapped /\ edit.phase \in {"told", "begin", "step", "commit", "rollback"}

MineWorks(how) ==
    /\ Works(Mine, how)
    /\ edit' = IF call'[Mine].pc = "idle" THEN [edit EXCEPT !.reply = how] ELSE edit
    /\ UNCHANGED history

Cancelled ==       \* `cancel`, of the user
    /\ IsDropped(Mine)
    /\ edit' = [edit EXCEPT !.reply = "cancelled"]
    /\ disturbed' = TRUE
    /\ UNCHANGED <<applies, began>>

(* The answer to a statement that went elsewhere.                           *)
ElsewhereWorks ==
    /\ edit.phase \in Sending /\ edit.reply = None /\ call[Mine].pc = "idle"
    /\ \E reply \in {"ok", "failed"} \cup IF Mine \in Drops THEN {"cancelled"} ELSE {} :
          edit' = [edit EXCEPT !.reply = reply]
    /\ UNCHANGED <<vars, Table, history>>

OtherWorks(c) ==
    /\ \/ (\E kind \in Kinds : Call(c, kind)) /\ Untouched
       \/ \E how \in {"ok", "failed"} : Works(c, how)
       \/ IsDropped(c)
    /\ disturbed' = (disturbed \/ (Wrapping /\ held' # held))
    /\ UNCHANGED <<edit, applies, began>>

(* The server goes down, or the connection is closed by another client; the *)
(* plugin connects again and goes on with a new driver.                     *)
Lost ==
    /\ "lost" \in Upsets /\ ~disturbed
    /\ held' = FALSE /\ mirror' = FALSE /\ lock' = None /\ idle' = PoolSize
    /\ call' = [c \in Calls |-> NoCall]
    /\ open' = {}
    /\ edit' = CASE call[Mine].pc # "idle"  -> [edit EXCEPT !.reply = "failed"]
                 [] edit.phase = "asking"   -> [edit EXCEPT !.phase = "over"]
                 [] OTHER                   -> edit
    /\ disturbed' = TRUE
    /\ UNCHANGED <<applied, applies, began>>

EditNext ==
    \/ Plugin \/ StatusRead
    \/ \E how \in {"ok", "failed"} : MineWorks(how)
    \/ Cancelled \/ Lost \/ ElsewhereWorks
    \/ \E c \in Calls \ {Mine} : OtherWorks(c)

EditSpec == EditInit /\ [][EditNext]_editVars

-----------------------------------------------------------------------------
(* An edit that brackets its statements in a transaction of its own is      *)
(* applied as a whole or not at all, and says which ("committed n           *)
(* statement(s) in one transaction", "rolled back, nothing was applied"),   *)
(* and no statement of an edit is applied twice, however often the user     *)
(* applies what is left: what the comments of `run` and `apply` say.        *)
(* The code does not keep it: README.md, "What the code does not keep".     *)
AllOrNothing ==
    /\ \A s \in Statements : applied[s] + (IF s \in open THEN 1 ELSE 0) <= 1
    /\ edit.wrapped /\ edit.phase \in {"preview", "reload", "over"}
          => /\ open \cap began..Total = {}
             /\ \A s, t \in began..Total : applied[s] = applied[t]
    /\ edit.wrapped /\ edit.phase = "reload"
          => \A s \in began..Total : applied[s] = IF edit.again THEN 0 ELSE 1

(* It holds whichever statement fails, whatever BEGIN, COMMIT or ROLLBACK   *)
(* the database refuses, whatever other clients run at the same time,       *)
(* unless the edit is cancelled, its server lost or its connection changed, *)
(* others begin or end transactions meanwhile, or a refused COMMIT is sent  *)
(* again.                                                                   *)
EditIsAllOrNothing == disturbed \/ AllOrNothing
=============================================================================
