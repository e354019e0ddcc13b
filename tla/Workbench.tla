----------------------------- MODULE Workbench -----------------------------
(***************************************************************************)
(* The query screen of the TUI and the engine under it                     *)
(* (crates/tradar-query-workbench): one tab, one connection.  A key press  *)
(* submits statements; a spawned task runs them and sends one outcome,     *)
(* tagged with the epoch of its submission; `tick` routes it to the grid,  *)
(* or to the migrations panel when `migrations_query` says so.  An action  *)
(* is a key press that finds its overlay on top, a tick, or a step of a    *)
(* task.                                                                   *)
(*                                                                         *)
(* Statements the user runs are plain reads, each of a table of its own,   *)
(* whose results hold the key column: the grid can always be edited.       *)
(***************************************************************************)
EXTENDS Naturals, Sequences, SequencesExt, Lists

CONSTANTS
    Queries,   \* statements the user runs from the editor
    Scripts,   \* buffers: sequences of them
    NFiles,    \* migration files, in the order of their versions
    MaxEpoch,  \* submissions and cancels in a behaviour (a bound)
    None

Files == 1..NFiles

(* The migrations panel: its stage, the files left to run when it was       *)
(* filled, and which of them runs.                                          *)
Panels == [stage : {"listing", "running", "done", "blocked"}, files : Seq(Files), index : Nat]

ASSUME WorkbenchAssumption ==
    /\ Scripts \subseteq Seq(Queries) \ {<<>>}
    /\ NFiles \in Nat \ {0}
    /\ MaxEpoch \in Nat
    /\ None \notin Queries /\ None \notin Nat /\ None \notin Panels

VARIABLES
    epoch,     \* of the newest submission, or of the cancel after it
    pending,   \* `pending`, and `running` is `Some`
    jobs,      \* the tasks, by the epoch they carry
    outbox,    \* outcomes sent and not yet drained by a tick
    query,     \* `migrations_query`: what the submission in flight is for
    panel,     \* the migrations panel
    last,      \* `last_query`
    rows,      \* the submission whose rows are in the grid
    error,     \* the submission the error on screen is about, 0 for a cancel
    refreshing, \* the submission in flight re-reads the grid behind an edit
    rowEdit,   \* the overlay that edits a cell or deletes a row
    designer,  \* the table designer is up
    applied,   \* the database: the files its tracking table lists
    heard,     \* history: the submission whose outcome was routed last
    tangled    \* history: the user acted on a submission still in flight

vars == <<epoch, pending, jobs, outbox, query, panel, last, rows, error,
          refreshing, rowEdit, designer, applied, heard, tangled>>

Epochs == 1..MaxEpoch

Stmt(kind, on, of) == [kind |-> kind, on |-> on, of |-> of]
Read(q)        == Stmt("read", q, None)
Edit(table, q) == Stmt("edit", table, q)    \* of a row that q read
File(f)        == Stmt("file", f, None)     \* BEGIN, the file, the INSERT, COMMIT
Check          == Stmt("check", None, None)
Ddl            == Stmt("ddl", None, None)
Control        == Stmt("control", None, None)   \* COMMIT, ROLLBACK

NoJob == [does |-> <<>>, state |-> "none", silenced |-> FALSE]

Does(e, kind)  == jobs[e].does # <<>> /\ Last(jobs[e].does).kind = kind
IsMigration(e) == Does(e, "check") \/ Does(e, "file")

For(what, file) == [what |-> what, file |-> file]
NoQuery         == For("nothing", None)
QueryIs(what)   == query.what = what

InFlight(e) ==
    \/ jobs[e].state \in {"running", "aborting"}
    \/ \E o \in outbox : o.epoch = e

Source(e) == Last(jobs[e].does).on

NoOverlay == rowEdit = None /\ ~designer /\ panel = None

Panel(stage, files, index) == [stage |-> stage, files |-> files, index |-> index]
Blocked == Panel("blocked", <<>>, 0)

Init ==
    /\ epoch = 0 /\ pending = FALSE
    /\ jobs = [e \in Epochs |-> NoJob]
    /\ outbox = {}
    /\ query = NoQuery /\ panel = None /\ last = None /\ rows = None /\ error = None
    /\ refreshing = FALSE
    /\ rowEdit = None /\ designer = FALSE
    /\ applied = {}
    /\ heard = 0 /\ tangled = FALSE

-----------------------------------------------------------------------------
(* The engine.  Nothing here looks at `pending`: a submission while one is  *)
(* in flight takes its place, and the older task runs on unheard.           *)
Start(does, superseded) ==
    /\ epoch < MaxEpoch
    /\ epoch' = epoch + 1
    /\ pending' = TRUE
    /\ jobs' = [e \in Epochs |->
                    IF e = epoch + 1
                    THEN [does |-> does, state |-> "running", silenced |-> FALSE]
                    ELSE [jobs[e] EXCEPT !.silenced = @ \/ e \in superseded]]

Submit(does) == Start(does, IF pending THEN {epoch} ELSE {})

(* Mutant: a cancel does not count the epoch.                               *)
CancelInTheSameEpoch ==
    /\ NoOverlay /\ pending
    /\ pending' = FALSE
    /\ jobs' = [jobs EXCEPT ![epoch].silenced = TRUE,
                            ![epoch].state = IF @ = "running" THEN "aborting" ELSE @]
    /\ error' = 0 /\ rows' = None
    /\ tangled' = (tangled \/ query # NoQuery \/ refreshing)
    /\ UNCHANGED <<epoch, outbox, query, panel, last, refreshing, rowEdit,
                   designer, applied, heard>>

(* Mutant: a cancel goes through the migrations panel.                      *)
CancelUnderOverlays ==
    /\ pending /\ epoch < MaxEpoch
    /\ epoch' = epoch + 1
    /\ pending' = FALSE
    /\ jobs' = [jobs EXCEPT ![epoch].silenced = TRUE,
                            ![epoch].state = IF @ = "running" THEN "aborting" ELSE @]
    /\ error' = 0 /\ rows' = None
    /\ tangled' = (tangled \/ query # NoQuery \/ refreshing)
    /\ UNCHANGED <<outbox, query, panel, last, refreshing, rowEdit,
                   designer, applied, heard>>

(* `cancel`, and the screen's "query cancelled".  Aborting asks: the task   *)
(* may still be past its last await, and send.                              *)
Cancel ==
    /\ NoOverlay /\ pending /\ epoch < MaxEpoch
    /\ epoch' = epoch + 1
    /\ pending' = FALSE
    /\ jobs' = [jobs EXCEPT ![epoch].silenced = TRUE,
                            ![epoch].state = IF @ = "running" THEN "aborting" ELSE @]
    /\ error' = 0 /\ rows' = None
    /\ tangled' = (tangled \/ query # NoQuery \/ refreshing)
    /\ UNCHANGED <<outbox, query, panel, last, refreshing, rowEdit,
                   designer, applied, heard>>

(* A task ends: all its statements ran, or statement `at` failed and the    *)
(* rest did not.  A check answers with what is applied at this time.        *)
Sends(e, at) ==
    /\ jobs[e].state \in {"running", "aborting"}
    /\ at \in 0..Len(jobs[e].does)
    /\ jobs' = [jobs EXCEPT ![e].state = "sent"]
    /\ outbox' = outbox \cup {[epoch |-> e, failed |-> at,
                               saw |-> IF Does(e, "check") THEN applied ELSE {}]}
    /\ applied' = IF at = 0 /\ Does(e, "file") THEN applied \cup {Source(e)} ELSE applied
    /\ UNCHANGED <<epoch, pending, query, panel, last, rows, error, refreshing, rowEdit, designer, heard, tangled>>

Dies(e) ==
    /\ jobs[e].state = "aborting"
    /\ jobs' = [jobs EXCEPT ![e].state = "sent"]
    /\ UNCHANGED <<epoch, pending, outbox, query, panel, last, rows, error, refreshing, rowEdit, designer, applied, heard, tangled>>

-----------------------------------------------------------------------------
(* Mutant: a script is remembered by its first statement.                   *)
RunScriptAsFirst(s) ==
    /\ NoOverlay /\ ~pending
    /\ last' = Head(s)
    /\ Submit([i \in DOMAIN s |-> Read(s[i])])
    /\ UNCHANGED <<outbox, query, panel, rows, error, refreshing, rowEdit,
                   designer, applied, heard, tangled>>

(* Running statements.  These look at `is_pending` first.                   *)
RunScript(s) ==
    /\ NoOverlay /\ ~pending
    /\ last' = Last(s)
    /\ Submit([i \in DOMAIN s |-> Read(s[i])])
    /\ UNCHANGED <<outbox, query, panel, rows, error, refreshing, rowEdit,
                   designer, applied, heard, tangled>>

Retry ==
    /\ NoOverlay /\ ~pending /\ error # None /\ last # None
    /\ Submit(<<Read(last)>>)
    /\ UNCHANGED <<outbox, query, panel, last, rows, error, refreshing,
                   rowEdit, designer, applied, heard, tangled>>

TransactionControl ==
    /\ NoOverlay /\ ~pending
    /\ Submit(<<Control>>)
    /\ UNCHANGED <<outbox, query, panel, last, rows, error, refreshing,
                   rowEdit, designer, applied, heard, tangled>>

-----------------------------------------------------------------------------
(* The row overlay: type a value, see the statement, confirm it.  The table *)
(* comes from `last_query`, the row from the grid.                          *)
Typing     == [stage |-> "value", runs |-> None]
Confirming == [stage |-> "confirm", runs |-> Edit(last, Source(rows))]

Overlay(o) ==
    /\ rowEdit' = o
    /\ tangled' = (tangled \/ (pending /\ o # None))
    /\ UNCHANGED <<epoch, pending, jobs, outbox, query, panel, last, rows, error,
                   refreshing, designer, applied, heard>>

BeginEditCell  == NoOverlay /\ rows # None /\ Overlay(Typing)
BeginDeleteRow == NoOverlay /\ rows # None /\ Overlay(Confirming)

ValueEntered ==
    /\ rowEdit # None /\ rowEdit.stage = "value"
    /\ Overlay(IF rows = None THEN None ELSE Confirming)

RowEditCancelled == rowEdit # None /\ Overlay(None)

(* `run_edit`: the edit, and the query behind the grid again.  Nothing asks *)
(* whether something is in flight.                                          *)
RowEditConfirmed ==
    /\ rowEdit # None /\ rowEdit.stage = "confirm" /\ last # None
    /\ rowEdit' = None
    /\ refreshing' = TRUE
    /\ Submit(<<rowEdit.runs, Read(last)>>)
    /\ tangled' = (tangled \/ pending)
    /\ UNCHANGED <<outbox, query, panel, last, rows, error, designer, applied, heard>>

-----------------------------------------------------------------------------
(* The table designer is opened from the navigator, over whatever is there. *)
OpenTableDesigner ==
    /\ ~designer
    /\ designer' = TRUE
    /\ UNCHANGED <<epoch, pending, jobs, outbox, query, panel, last, rows, error,
                   refreshing, rowEdit, applied, heard, tangled>>

TableDesignerCancelled ==
    /\ designer /\ rowEdit = None
    /\ designer' = FALSE
    /\ UNCHANGED <<epoch, pending, jobs, outbox, query, panel, last, rows, error,
                   refreshing, rowEdit, applied, heard, tangled>>

TableDesignerConfirmed ==
    /\ designer /\ rowEdit = None
    /\ designer' = FALSE
    /\ Submit(<<Ddl>>)
    /\ tangled' = (tangled \/ pending)
    /\ UNCHANGED <<outbox, query, panel, last, rows, error, refreshing,
                   rowEdit, applied, heard>>

-----------------------------------------------------------------------------
(* Migrations: F1 asks what is applied, `y` runs what is not, one file at a *)
(* time.  A panel that runs takes no key.                                   *)
OpenMigrations ==
    /\ NoOverlay
    /\ query' = For("check", None)
    /\ Submit(<<Check>>)
    /\ tangled' = (tangled \/ pending)
    /\ UNCHANGED <<outbox, panel, last, rows, error, refreshing, rowEdit,
                   designer, applied, heard>>

MigrationsUnavailable ==   \* no directory, or nothing in it
    /\ NoOverlay
    /\ panel' = Blocked
    /\ UNCHANGED <<epoch, pending, jobs, outbox, query, last, rows, error, refreshing, rowEdit, designer, applied, heard, tangled>>

PanelHasKeys == panel # None /\ rowEdit = None /\ ~designer

RunAllFiles ==
    /\ PanelHasKeys /\ panel.stage = "listing" /\ panel.files # <<>>
    /\ panel' = Panel("running", panel.files, 1)
    /\ query' = For("file", panel.files[1])
    /\ Submit(<<File(panel.files[1])>>)
    /\ tangled' = (tangled \/ pending)
    /\ UNCHANGED <<outbox, last, rows, error, refreshing, rowEdit, designer,
                   applied, heard>>

FileUnreadable ==         \* `run_migration_file` fails before it submits
    /\ PanelHasKeys /\ panel.stage = "listing" /\ panel.files # <<>>
    /\ panel' = Blocked
    /\ UNCHANGED <<epoch, pending, jobs, outbox, query, last, rows, error, refreshing, rowEdit, designer, applied, heard, tangled>>

ClosePanel ==
    /\ PanelHasKeys /\ panel.stage # "running"
    /\ panel' = None
    /\ UNCHANGED <<epoch, pending, jobs, outbox, query, last, rows, error, refreshing, rowEdit, designer, applied, heard, tangled>>

-----------------------------------------------------------------------------
(* A tick drains the channel.  Only the outcome that carries the current    *)
(* epoch is routed.                                                         *)
Drained ==
    /\ outbox # {}
    /\ outbox' = {}

(* Outcomes of other epochs are dropped.                                    *)
TickStale ==
    /\ Drained
    /\ \A o \in outbox : o.epoch # epoch
    /\ UNCHANGED <<epoch, pending, jobs, query, panel, last, rows, error, refreshing, rowEdit, designer, applied, heard, tangled>>

Hears(o) ==
    /\ Drained
    /\ o \in outbox /\ o.epoch = epoch
    /\ heard' = epoch
    /\ UNCHANGED <<last, rowEdit, designer, applied, tangled>>

Settled == pending' = FALSE /\ UNCHANGED <<epoch, jobs>>

(* Mutant: an outcome goes to the grid unless the panel is on screen.       *)
TickGridByPanel(o) ==
    /\ Hears(o) /\ panel = None
    /\ Settled
    /\ refreshing' = FALSE
    /\ IF o.failed = 0
       THEN rows' = epoch /\ error' = None
       ELSE rows' = None /\ error' = epoch
    /\ UNCHANGED <<query, panel>>

TickGrid(o) ==
    /\ Hears(o) /\ query = NoQuery
    /\ Settled
    /\ refreshing' = FALSE
    /\ IF o.failed = 0
       THEN /\ rows' = IF Does(epoch, "read") THEN epoch ELSE None
            /\ error' = None
       ELSE rows' = None /\ error' = epoch
    /\ UNCHANGED <<query, panel>>

Unapplied(saw) == Kept([f \in Files |-> f], Files \ saw)

TickChecked(o) ==
    /\ Hears(o) /\ QueryIs("check")
    /\ Settled
    /\ query' = NoQuery
    /\ panel' = IF o.failed = 0 /\ (Does(epoch, "read") \/ Does(epoch, "check"))
                THEN Panel("listing", Unapplied(o.saw), 0)
                ELSE Blocked
    /\ UNCHANGED <<rows, error, refreshing>>

(* Mutant: a failed file counts as done.                                    *)
TickFileDoneAnyway(o) ==
    /\ Hears(o) /\ QueryIs("file")
    /\ IF panel # None /\ panel.stage = "running" /\ panel.index < Len(panel.files)
       THEN LET next == panel.files[panel.index + 1] IN
            /\ panel' = [panel EXCEPT !.index = @ + 1]
            /\ query' = For("file", next)
            /\ Start(<<File(next)>>, {})
       ELSE query' = NoQuery /\ Settled /\ UNCHANGED panel
    /\ UNCHANGED <<rows, error, refreshing>>

(* The file is done: the next one, if the panel is still there.             *)
TickFileDone(o) ==
    /\ Hears(o) /\ QueryIs("file") /\ o.failed = 0
    /\ IF panel # None /\ panel.stage = "running"
       THEN IF panel.index < Len(panel.files)
            THEN LET next == panel.files[panel.index + 1] IN
                 /\ panel' = [panel EXCEPT !.index = @ + 1]
                 /\ query' = For("file", next)
                 /\ Start(<<File(next)>>, {})
            ELSE panel' = [panel EXCEPT !.stage = "done"] /\ query' = NoQuery /\ Settled
       ELSE query' = NoQuery /\ Settled /\ UNCHANGED panel
    /\ UNCHANGED <<rows, error, refreshing>>

TickNextUnreadable(o) ==
    /\ Hears(o) /\ QueryIs("file") /\ o.failed = 0
    /\ panel # None /\ panel.stage = "running" /\ panel.index < Len(panel.files)
    /\ Settled
    /\ panel' = Blocked /\ query' = NoQuery
    /\ UNCHANGED <<rows, error, refreshing>>

(* The file failed: stop, and roll its transaction back.                    *)
TickFileFailed(o) ==
    /\ Hears(o) /\ QueryIs("file") /\ o.failed # 0
    /\ panel' = IF panel # None THEN Blocked ELSE None
    /\ query' = For("rollback", None)
    /\ Start(<<Control>>, {})
    /\ UNCHANGED <<rows, error, refreshing>>

TickRolledBack(o) ==
    /\ Hears(o) /\ QueryIs("rollback")
    /\ Settled
    /\ query' = NoQuery
    /\ UNCHANGED <<panel, rows, error, refreshing>>

Tick == \/ TickStale
        \/ \E o \in outbox : \/ TickGrid(o) \/ TickChecked(o) \/ TickFileDone(o)
                             \/ TickNextUnreadable(o) \/ TickFileFailed(o)
                             \/ TickRolledBack(o)

Keys == \/ \E s \in Scripts : RunScript(s)
        \/ Retry \/ TransactionControl \/ Cancel
        \/ BeginEditCell \/ BeginDeleteRow \/ ValueEntered
        \/ RowEditCancelled \/ RowEditConfirmed
        \/ OpenTableDesigner \/ TableDesignerCancelled \/ TableDesignerConfirmed
        \/ OpenMigrations \/ MigrationsUnavailable \/ RunAllFiles \/ FileUnreadable
        \/ ClosePanel

Task(e) == Dies(e) \/ \E at \in 0..Len(jobs[e].does) : Sends(e, at)

Next == Keys \/ Tick \/ \E e \in Epochs : Task(e)

Spec == Init /\ [][Next]_vars

-----------------------------------------------------------------------------
TypeOK ==
    /\ epoch \in 0..MaxEpoch /\ heard \in 0..epoch
    /\ pending \in BOOLEAN
    /\ DOMAIN jobs = Epochs
    /\ \A o \in outbox : o.epoch \in Epochs
    /\ rows \in Epochs \cup {None} /\ error \in 0..MaxEpoch \cup {None}

(* The screen waits exactly while there is something to wait for: `pending` *)
(* without an outcome to come would refuse every later run.                 *)
PendingIsInFlight == pending <=> epoch # 0 /\ InFlight(epoch)

(* What was cancelled or superseded is never heard of again, wherever it    *)
(* was on its way when that happened.                                       *)
SilencedStaySilent == heard # 0 => ~jobs[heard].silenced

(* "dismissing the panel mid-run can't cause a migration's result to fall   *)
(* through into the ordinary results grid".                                 *)
MigrationsStayOffTheGrid ==
    \A e \in {rows, error} \cap Epochs : ~IsMigration(e)

(* A running panel takes no key, so something must be on its way to end it. *)
RunningPanelIsServed ==
    panel # None /\ panel.stage = "running" => QueryIs("file") /\ pending

(* Both: the screen is never stuck, and neither is the panel on it.         *)
NobodyWaitsForNothing == PendingIsInFlight /\ RunningPanelIsServed

(* Files run in the order of their versions, none before an earlier one is  *)
(* applied and none twice.                                                  *)
StartsFile(f) == epoch' # epoch /\ pending' /\ jobs'[epoch'].does = <<File(f)>>

FilesRunInTurn ==
    [][\A f \in Files : StartsFile(f) =>
          tangled' \/ (1..(f - 1) \subseteq applied /\ f \notin applied)]_vars

(* A row is changed in the table it was read from.                          *)
(* The code does not keep it: README.md, "What the code does not keep".     *)
EditsHitTheirTable ==
    \A e \in Epochs : jobs[e].does # <<>> /\ jobs[e].does[1].kind = "edit"
                       => jobs[e].does[1].on = jobs[e].does[1].of

CarefulEditsHitTheirTable == tangled \/ EditsHitTheirTable
=============================================================================
