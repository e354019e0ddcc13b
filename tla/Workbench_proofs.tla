-------------------------- MODULE Workbench_proofs --------------------------
(***************************************************************************)
(* For any statements, scripts, files and number of submissions: the       *)
(* screen never waits for nothing, what was silenced stays silent, a       *)
(* migration stays off the grid, and as long as nothing was acted on while *)
(* something else was in flight, edits hit the table they were made for    *)
(* and migration files run in turn.                                        *)
(***************************************************************************)
EXTENDS Workbench, Lists_proofs, SequenceTheorems, TLAPS

(* Tasks are numbered up to the newest submission; what is in the outbox    *)
(* was sent by one of them.                                                 *)
IsJob(j) == j = [does |-> j.does, state |-> j.state, silenced |-> j.silenced]

Numbered ==
    /\ epoch \in 0..MaxEpoch /\ heard \in 0..epoch
    /\ rows \in (1..epoch) \cup {None} /\ error \in (0..epoch) \cup {None}
    /\ jobs = [e \in Epochs |-> jobs[e]]
    /\ \A e \in Epochs : IsJob(jobs[e])
    /\ \A e \in Epochs : e > epoch => jobs[e].state = "none" /\ ~jobs[e].silenced
    /\ \A o \in outbox : o.epoch \in 1..epoch /\ jobs[o.epoch].state = "sent"
    /\ pending \in BOOLEAN

(* The newest submission has not been silenced, and was not heard while it  *)
(* is waited for.                                                           *)
NewestIsWanted ==
    /\ epoch # 0 => ~jobs[epoch].silenced /\ jobs[epoch].state # "aborting"
    /\ heard = epoch => ~pending \/ heard = 0

MigrationsAreClaimed == pending /\ IsMigration(epoch) => query # NoQuery

(* `last_query` is what a read in flight reads, and what the grid shows     *)
(* when nothing, or a migration, is in flight.                              *)
LastIsRead == pending /\ Does(epoch, "read") => Source(epoch) = last

GridIsLast ==
    \/ tangled
    \/ /\ ~pending => query = NoQuery
       /\ rows # None /\ (~pending \/ query # NoQuery) => Source(rows) = last

OverlayIsOfTheGrid ==
    \/ tangled \/ rowEdit = None
    \/ /\ ~pending
       /\ rowEdit.stage = "confirm" => rowEdit.runs.on = rowEdit.runs.of

WorkInv ==
    /\ Numbered /\ NobodyWaitsForNothing
    /\ NewestIsWanted /\ SilencedStaySilent
    /\ MigrationsAreClaimed /\ MigrationsStayOffTheGrid
    /\ LastIsRead /\ GridIsLast /\ OverlayIsOfTheGrid /\ CarefulEditsHitTheirTable

-----------------------------------------------------------------------------
LEMMA InitWork == Init => WorkInv
<1> SUFFICES ASSUME Init PROVE WorkInv
  OBVIOUS
<1> USE DEF Init
<1>1. Numbered
  <2>1. IsJob(NoJob) /\ NoJob.state = "none" /\ ~NoJob.silenced
    BY DEF IsJob, NoJob
  <2>2. jobs = [e \in Epochs |-> jobs[e]] /\ \A e \in Epochs : jobs[e] = NoJob
    OBVIOUS
  <2>3. 0 \in 0..MaxEpoch
    BY WorkbenchAssumption
  <2>4. /\ epoch \in 0..MaxEpoch /\ heard \in 0..epoch
        /\ rows \in (1..epoch) \cup {None} /\ error \in (0..epoch) \cup {None}
    BY <2>3
  <2>5. \A o \in outbox : o.epoch \in 1..epoch /\ jobs[o.epoch].state = "sent"
    OBVIOUS
  <2>6. \A e \in Epochs : IsJob(jobs[e]) /\ jobs[e].state = "none" /\ ~jobs[e].silenced
    BY <2>1, <2>2
  <2> QED
    BY <2>2, <2>4, <2>5, <2>6 DEF Numbered
<1>2. NobodyWaitsForNothing
  BY DEF NobodyWaitsForNothing, PendingIsInFlight, RunningPanelIsServed
<1>3. NewestIsWanted /\ SilencedStaySilent
  BY DEF NewestIsWanted, SilencedStaySilent
<1>4. MigrationsAreClaimed /\ MigrationsStayOffTheGrid
  BY WorkbenchAssumption DEF MigrationsAreClaimed, MigrationsStayOffTheGrid, Epochs
<1>5. LastIsRead /\ GridIsLast /\ OverlayIsOfTheGrid
  BY DEF LastIsRead, GridIsLast, OverlayIsOfTheGrid
<1>6. CarefulEditsHitTheirTable
  BY DEF CarefulEditsHitTheirTable, EditsHitTheirTable, NoJob
<1> QED
  BY <1>1, <1>2, <1>3, <1>4, <1>5, <1>6 DEF WorkInv

(* What a submission does to the tasks.                                     *)
LEMMA StartEffect ==
  ASSUME Numbered, NEW does, NEW superseded, Start(does, superseded)
  PROVE  /\ epoch' = epoch + 1 /\ epoch' \in Epochs /\ pending'
         /\ jobs' = [e \in Epochs |-> jobs'[e]]
         /\ jobs'[epoch'] = [does |-> does, state |-> "running", silenced |-> FALSE]
         /\ \A e \in Epochs : IsJob(jobs'[e])
         /\ \A e \in Epochs \ {epoch'} :
               /\ jobs'[e].does = jobs[e].does
               /\ jobs'[e].state = jobs[e].state
               /\ (jobs'[e].silenced <=> jobs[e].silenced \/ e \in superseded)
<1>1. /\ epoch' = epoch + 1 /\ epoch' \in Epochs /\ pending'
      /\ jobs' = [e \in Epochs |-> jobs'[e]]
  BY WorkbenchAssumption DEF Numbered, Start, Epochs
<1>2. jobs'[epoch'] = [does |-> does, state |-> "running", silenced |-> FALSE]
  BY <1>1 DEF Start
<1>3. ASSUME NEW e \in Epochs \ {epoch'}
      PROVE  /\ IsJob(jobs'[e])
             /\ jobs'[e].does = jobs[e].does
             /\ jobs'[e].state = jobs[e].state
             /\ (jobs'[e].silenced <=> jobs[e].silenced \/ e \in superseded)
  <2>1. jobs'[e] = [jobs[e] EXCEPT !.silenced = @ \/ e \in superseded]
    BY <1>1, <1>3 DEF Start
  <2>2. IsJob(jobs[e])
    BY <1>3 DEF Numbered
  <2> QED
    BY <2>1, <2>2 DEF IsJob
<1>4. IsJob(jobs'[epoch'])
  BY <1>2 DEF IsJob
<1> QED
  BY <1>1, <1>2, <1>3, <1>4

LEMMA ScriptEffect ==
  ASSUME NEW s \in Scripts
  PROVE  LET does == [i \in DOMAIN s |-> Read(s[i])] IN
         /\ does # <<>> /\ does[1].kind = "read"
         /\ Last(does).kind = "read" /\ Last(does).on = Last(s)
<1> DEFINE does == [i \in DOMAIN s |-> Read(s[i])]
<1>1. s \in Seq(Queries) /\ s # <<>>
  BY WorkbenchAssumption
<1>2. Len(does) = Len(s) /\ Len(s) \in Nat \ {0} /\ DOMAIN s = 1..Len(s)
  BY <1>1
<1>3. \A i \in 1..Len(s) : does[i] = Read(s[i])
  BY <1>2
<1> QED
  BY <1>1, <1>2, <1>3 DEF Read, Stmt, Last

-----------------------------------------------------------------------------
(* What every submission keeps.                                             *)
LEMMA StartKeeps ==
  ASSUME WorkInv, NEW does, NEW superseded, Start(does, superseded),
         outbox' \subseteq outbox, rows' = rows, error' = error,
         \/ superseded = {} /\ heard' \in {heard, epoch}
         \/ superseded = {epoch} /\ pending /\ heard' = heard
  PROVE  /\ Numbered' /\ PendingIsInFlight'
         /\ NewestIsWanted' /\ SilencedStaySilent' /\ MigrationsStayOffTheGrid'
<1> USE DEF WorkInv
<1>1. /\ epoch' = epoch + 1 /\ epoch' \in Epochs /\ pending'
      /\ jobs' = [e \in Epochs |-> jobs'[e]]
      /\ jobs'[epoch'] = [does |-> does, state |-> "running", silenced |-> FALSE]
      /\ \A e \in Epochs : IsJob(jobs'[e])
      /\ \A e \in Epochs \ {epoch'} :
            /\ jobs'[e].does = jobs[e].does
            /\ jobs'[e].state = jobs[e].state
            /\ (jobs'[e].silenced <=> jobs[e].silenced \/ e \in superseded)
  BY StartEffect
<1>2. Numbered'
  <2>1. epoch \in Nat /\ epoch + 1 \in 0..MaxEpoch
    BY <1>1, WorkbenchAssumption DEF Numbered, Epochs
  <2>2. /\ epoch' \in 0..MaxEpoch /\ heard' \in 0..epoch'
        /\ rows' \in (1..epoch') \cup {None} /\ error' \in (0..epoch') \cup {None}
    BY <1>1, <2>1 DEF Numbered
  <2>3. \A e \in Epochs : e > epoch' => jobs'[e].state = "none" /\ ~jobs'[e].silenced
    BY <1>1, <2>1 DEF Numbered, Epochs
  <2>4. \A o \in outbox' : o.epoch \in 1..epoch' /\ jobs'[o.epoch].state = "sent"
    <3> SUFFICES ASSUME NEW o \in outbox'
                 PROVE  o.epoch \in 1..epoch' /\ jobs'[o.epoch].state = "sent"
      OBVIOUS
    <3>1. o.epoch \in 1..epoch /\ jobs[o.epoch].state = "sent"
      BY DEF Numbered
    <3>2. MaxEpoch \in Nat
      BY WorkbenchAssumption
    <3>3. o.epoch \in 1..epoch' /\ o.epoch \in Epochs \ {epoch'}
      BY <1>1, <2>1, <3>1, <3>2 DEF Epochs
    <3> QED
      BY <1>1, <3>1, <3>3
  <2>5. pending' \in BOOLEAN
    BY DEF Start
  <2> QED
    BY <1>1, <2>2, <2>3, <2>4, <2>5 DEF Numbered
<1>3. PendingIsInFlight'
  BY <1>1, <1>2 DEF PendingIsInFlight, InFlight, Numbered
<1>4. NewestIsWanted' /\ SilencedStaySilent'
  BY <1>1, WorkbenchAssumption DEF NewestIsWanted, SilencedStaySilent, Numbered, Epochs
<1>5. MigrationsStayOffTheGrid'
  BY <1>1, WorkbenchAssumption
  DEF MigrationsStayOffTheGrid, IsMigration, Does, Numbered, Epochs
<1> QED
  BY <1>2, <1>3, <1>4, <1>5

(* A submission of one statement, or of reads, edits no table by itself.    *)
LEMMA StartedEdits ==
  ASSUME WorkInv, NEW does, NEW superseded, Start(does, superseded),
         does[1].kind # "edit" \/ does[1].on = does[1].of \/ tangled',
         tangled => tangled'
  PROVE  CarefulEditsHitTheirTable'
<1>1. /\ jobs'[epoch'] = [does |-> does, state |-> "running", silenced |-> FALSE]
      /\ \A e \in Epochs \ {epoch'} : jobs'[e].does = jobs[e].does
  BY StartEffect DEF WorkInv
<1>2. jobs'[epoch'].does = does
  BY <1>1
<1> QED
  BY <1>1, <1>2 DEF WorkInv, CarefulEditsHitTheirTable, EditsHitTheirTable

(* What is not disturbed while the engine, the grid and the query stay.     *)
LEMMA EngineAtRest ==
  ASSUME WorkInv,
         UNCHANGED <<epoch, pending, jobs, outbox, query, last, rows, error, heard>>,
         tangled => tangled'
  PROVE  /\ Numbered' /\ PendingIsInFlight'
         /\ NewestIsWanted' /\ SilencedStaySilent'
         /\ MigrationsAreClaimed' /\ MigrationsStayOffTheGrid'
         /\ LastIsRead' /\ GridIsLast' /\ CarefulEditsHitTheirTable'
<1>1. Numbered' /\ PendingIsInFlight' /\ NewestIsWanted' /\ SilencedStaySilent'
  BY DEF WorkInv, NobodyWaitsForNothing, Numbered, PendingIsInFlight, InFlight, NewestIsWanted,
         SilencedStaySilent
<1>2. MigrationsAreClaimed' /\ MigrationsStayOffTheGrid'
  BY DEF WorkInv, MigrationsAreClaimed, MigrationsStayOffTheGrid, IsMigration, Does
<1>3. LastIsRead' /\ GridIsLast' /\ CarefulEditsHitTheirTable'
  BY DEF WorkInv, LastIsRead, GridIsLast, CarefulEditsHitTheirTable, EditsHitTheirTable, Does,
         Source
<1> QED
  BY <1>1, <1>2, <1>3

(* The statements of a submission, as the tasks list them.                  *)
LEMMA OneStatement ==
  ASSUME NEW stmt
  PROVE  <<stmt>> # <<>> /\ Last(<<stmt>>) = stmt /\ <<stmt>>[1] = stmt
  BY DEF Last

LEMMA TwoStatements ==
  ASSUME NEW first, NEW second
  PROVE  /\ <<first, second>> # <<>> /\ Last(<<first, second>>) = second
         /\ <<first, second>>[1] = first
  BY DEF Last

-----------------------------------------------------------------------------
(* Statements and migrations are submitted by keys.                         *)
LEMMA SubmitKeeps ==
  ASSUME WorkInv, NEW does, Submit(does),
         UNCHANGED <<outbox, rows, error, heard>>
  PROVE  /\ epoch' = epoch + 1 /\ epoch' \in Epochs /\ pending'
         /\ jobs'[epoch'].does = does
         /\ Numbered' /\ PendingIsInFlight'
         /\ NewestIsWanted' /\ SilencedStaySilent' /\ MigrationsStayOffTheGrid'
         /\ \A e \in Epochs \ {epoch'} : jobs'[e].does = jobs[e].does
<1>1. PICK superseded : /\ Start(does, superseded)
                        /\ \/ superseded = {}
                           \/ superseded = {epoch} /\ pending
  BY DEF Submit
<1>2. Numbered' /\ PendingIsInFlight'
      /\ NewestIsWanted' /\ SilencedStaySilent' /\ MigrationsStayOffTheGrid'
  BY <1>1, StartKeeps
<1> QED
  <2>1. /\ epoch' = epoch + 1 /\ epoch' \in Epochs /\ pending'
        /\ jobs'[epoch'] = [does |-> does, state |-> "running", silenced |-> FALSE]
        /\ \A e \in Epochs \ {epoch'} : jobs'[e].does = jobs[e].does
    BY <1>1, StartEffect DEF WorkInv
  <2> QED
    BY <1>2, <2>1

LEMMA SubmittedEdits ==
  ASSUME WorkInv, NEW does, Submit(does),
         does[1].kind # "edit" \/ does[1].on = does[1].of \/ tangled',
         tangled => tangled'
  PROVE  CarefulEditsHitTheirTable'
  BY StartedEdits DEF Submit

(* The rows on screen are of an earlier submission, whose statements stay.  *)
LEMMA RowsStay ==
  ASSUME WorkInv, epoch' = epoch + 1, rows' = rows, rows # None,
         \A e \in Epochs \ {epoch'} : jobs'[e].does = jobs[e].does
  PROVE  Source(rows)' = Source(rows)
  BY WorkbenchAssumption DEF WorkInv, Numbered, Epochs, Source

(* The three keys that run statements, with nothing in flight.              *)
LEMMA RunKeeps ==
  ASSUME WorkInv, NoOverlay, ~pending,
         NEW does, does[1].kind # "edit", Submit(does),
         Last(does).kind \notin {"check", "file"},
         Last(does).kind = "read" => Last(does).on = last',
         UNCHANGED <<outbox, query, panel, rows, error, refreshing, rowEdit,
                     designer, applied, heard, tangled>>
  PROVE  WorkInv'
<1>1. /\ epoch' = epoch + 1 /\ epoch' \in Epochs /\ pending'
      /\ jobs'[epoch'].does = does
      /\ Numbered' /\ PendingIsInFlight'
      /\ NewestIsWanted' /\ SilencedStaySilent' /\ MigrationsStayOffTheGrid'
  BY SubmitKeeps
<1>2. RunningPanelIsServed'
  BY DEF RunningPanelIsServed, NoOverlay
<1>3. MigrationsAreClaimed' /\ LastIsRead'
  BY <1>1 DEF MigrationsAreClaimed, IsMigration, LastIsRead, Does, Source
<1>4. GridIsLast' /\ OverlayIsOfTheGrid'
  BY <1>1 DEF WorkInv, GridIsLast, OverlayIsOfTheGrid, NoOverlay
<1>5. CarefulEditsHitTheirTable'
  BY SubmittedEdits
<1> QED
  BY <1>1, <1>2, <1>3, <1>4, <1>5 DEF WorkInv, NobodyWaitsForNothing

LEMMA RunsWork ==
  ASSUME WorkInv, (\E s \in Scripts : RunScript(s)) \/ Retry \/ TransactionControl
  PROVE  WorkInv'
<1>1. ASSUME NEW s \in Scripts, RunScript(s) PROVE WorkInv'
  <2> DEFINE does == [i \in DOMAIN s |-> Read(s[i])]
  <2>1. does[1].kind = "read" /\ Last(does).kind = "read" /\ Last(does).on = Last(s)
    BY ScriptEffect
  <2>2. /\ NoOverlay /\ ~pending /\ Submit(does) /\ last' = Last(s)
        /\ UNCHANGED <<outbox, query, panel, rows, error, refreshing, rowEdit,
                       designer, applied, heard, tangled>>
    BY <1>1 DEF RunScript
  <2> HIDE DEF does
  <2> QED
    BY <2>1, <2>2, RunKeeps
<1>2. CASE Retry
  <2>1. <<Read(last)>>[1].kind = "read" /\ Last(<<Read(last)>>).kind = "read"
        /\ Last(<<Read(last)>>).on = last
    BY OneStatement DEF Read, Stmt
  <2> QED
    BY <1>2, <2>1, RunKeeps DEF Retry
<1>3. CASE TransactionControl
  <2>1. <<Control>>[1].kind = "control" /\ Last(<<Control>>).kind = "control"
    BY OneStatement DEF Control, Stmt
  <2> QED
    BY <1>3, <2>1, RunKeeps DEF TransactionControl
<1> QED
  BY <1>1, <1>2, <1>3

(* Overlays come and go over an engine that is left alone.                  *)
LEMMA OverlaysWork ==
  ASSUME WorkInv,
         \/ BeginEditCell \/ BeginDeleteRow \/ ValueEntered \/ RowEditCancelled
         \/ OpenTableDesigner \/ TableDesignerCancelled
         \/ MigrationsUnavailable \/ FileUnreadable \/ ClosePanel
  PROVE  WorkInv'
<1>1. /\ UNCHANGED <<epoch, pending, jobs, outbox, query, last, rows, error, heard>>
      /\ tangled => tangled'
  <2>1. ASSUME NEW o, Overlay(o)
        PROVE  /\ UNCHANGED <<epoch, pending, jobs, outbox, query, last, rows, error, heard>>
               /\ tangled => tangled'
    BY <2>1 DEF Overlay
  <2>2. CASE BeginEditCell \/ BeginDeleteRow \/ ValueEntered \/ RowEditCancelled
    BY <2>1, <2>2 DEF BeginEditCell, BeginDeleteRow, ValueEntered, RowEditCancelled
  <2> QED
    BY <2>2
    DEF OpenTableDesigner, TableDesignerCancelled, MigrationsUnavailable, FileUnreadable, ClosePanel
<1>2. /\ Numbered' /\ PendingIsInFlight'
      /\ NewestIsWanted' /\ SilencedStaySilent'
      /\ MigrationsAreClaimed' /\ MigrationsStayOffTheGrid'
      /\ LastIsRead' /\ GridIsLast' /\ CarefulEditsHitTheirTable'
  BY <1>1, EngineAtRest
<1>3. RunningPanelIsServed'
  <2>1. panel' = panel \/ panel' = None \/ panel'.stage = "blocked"
    BY DEF BeginEditCell, BeginDeleteRow, ValueEntered, RowEditCancelled, OpenTableDesigner,
           TableDesignerCancelled, MigrationsUnavailable, FileUnreadable, ClosePanel, Overlay,
           Blocked, Panel
  <2> QED
    BY <1>1, <2>1 DEF WorkInv, NobodyWaitsForNothing, RunningPanelIsServed, QueryIs
<1>4. OverlayIsOfTheGrid'
  <2>1. ASSUME UNCHANGED <<rowEdit, tangled>> PROVE OverlayIsOfTheGrid'
    BY <1>1, <2>1 DEF WorkInv, OverlayIsOfTheGrid
  <2>2. Confirming.stage = "confirm" /\ Confirming.runs.on = last
        /\ Confirming.runs.of = Source(rows) /\ Typing.stage # "confirm"
    BY DEF Confirming, Typing, Edit, Stmt
  <2>3. CASE BeginEditCell \/ BeginDeleteRow \/ ValueEntered
    <3>1. PICK o : Overlay(o) /\ (o = None \/ o = Typing \/ (o = Confirming /\ rows # None))
      BY <2>3 DEF BeginEditCell, BeginDeleteRow, ValueEntered
    <3>2. rowEdit' = o /\ (tangled' <=> tangled \/ (pending /\ o # None))
      BY <3>1 DEF Overlay
    <3>3. CASE tangled' \/ o = None
      BY <3>2, <3>3 DEF OverlayIsOfTheGrid
    <3>4. CASE ~tangled' /\ o # None
      <4>1. ~tangled /\ ~pending /\ ~pending'
        BY <1>1, <3>2, <3>4
      <4>2. rows # None => Source(rows) = last
        BY <4>1 DEF WorkInv, GridIsLast
      <4> QED
        BY <2>2, <3>1, <3>2, <4>1, <4>2 DEF OverlayIsOfTheGrid
    <3> QED
      BY <3>3, <3>4
  <2>4. CASE RowEditCancelled
    BY <2>4 DEF RowEditCancelled, Overlay, OverlayIsOfTheGrid
  <2> QED
    BY <2>1, <2>3, <2>4
    DEF OpenTableDesigner, TableDesignerCancelled, MigrationsUnavailable, FileUnreadable, ClosePanel
<1> QED
  BY <1>2, <1>3, <1>4 DEF WorkInv, NobodyWaitsForNothing

(* A row edit, a table, a question about migrations: submitted whether or   *)
(* not something is in flight, which counts as tangled.                     *)
LEMMA RowEditWork ==
  ASSUME WorkInv, RowEditConfirmed
  PROVE  WorkInv'
<1> DEFINE does == <<rowEdit.runs, Read(last)>>
<1>1. does[1] = rowEdit.runs /\ Last(does).kind = "read" /\ Last(does).on = last
  BY TwoStatements DEF Read, Stmt
<1> HIDE DEF does
<1>2. /\ rowEdit # None /\ rowEdit.stage = "confirm" /\ rowEdit' = None /\ Submit(does)
      /\ tangled' = (tangled \/ pending)
      /\ UNCHANGED <<outbox, query, panel, last, rows, error, designer, applied, heard>>
  BY DEF RowEditConfirmed, does
<1>3. /\ epoch' = epoch + 1 /\ epoch' \in Epochs /\ pending'
      /\ jobs'[epoch'].does = does
      /\ Numbered' /\ PendingIsInFlight'
      /\ NewestIsWanted' /\ SilencedStaySilent' /\ MigrationsStayOffTheGrid'
  BY <1>2, SubmitKeeps
<1>4. RunningPanelIsServed'
  BY <1>2, <1>3 DEF WorkInv, NobodyWaitsForNothing, RunningPanelIsServed, QueryIs
<1>5. MigrationsAreClaimed' /\ LastIsRead'
  BY <1>1, <1>2, <1>3 DEF MigrationsAreClaimed, IsMigration, LastIsRead, Does, Source
<1>6. GridIsLast' /\ OverlayIsOfTheGrid'
  BY <1>2, <1>3 DEF WorkInv, GridIsLast, OverlayIsOfTheGrid
<1>7. CarefulEditsHitTheirTable'
  <2>1. tangled' \/ does[1].on = does[1].of
    BY <1>1, <1>2 DEF WorkInv, OverlayIsOfTheGrid
  <2> QED
    BY <1>2, <2>1, SubmittedEdits
<1> QED
  BY <1>3, <1>4, <1>5, <1>6, <1>7 DEF WorkInv, NobodyWaitsForNothing

LEMMA DesignerWork ==
  ASSUME WorkInv, TableDesignerConfirmed
  PROVE  WorkInv'
<1>1. <<Ddl>>[1].kind = "ddl" /\ Last(<<Ddl>>).kind = "ddl"
  BY OneStatement DEF Ddl, Stmt
<1>2. /\ rowEdit = None /\ Submit(<<Ddl>>) /\ tangled' = (tangled \/ pending)
      /\ UNCHANGED <<outbox, query, panel, last, rows, error, refreshing, rowEdit, applied, heard>>
  BY DEF TableDesignerConfirmed
<1>3. /\ epoch' = epoch + 1 /\ epoch' \in Epochs /\ pending'
      /\ jobs'[epoch'].does = <<Ddl>>
      /\ Numbered' /\ PendingIsInFlight'
      /\ NewestIsWanted' /\ SilencedStaySilent' /\ MigrationsStayOffTheGrid'
  BY <1>2, SubmitKeeps
<1>4. RunningPanelIsServed'
  BY <1>2, <1>3 DEF WorkInv, NobodyWaitsForNothing, RunningPanelIsServed, QueryIs
<1>5. MigrationsAreClaimed' /\ LastIsRead'
  BY <1>1, <1>3 DEF MigrationsAreClaimed, IsMigration, LastIsRead, Does
<1>6. GridIsLast' /\ OverlayIsOfTheGrid'
  BY <1>2, <1>3 DEF WorkInv, GridIsLast, OverlayIsOfTheGrid
<1>7. CarefulEditsHitTheirTable'
  BY <1>1, <1>2, SubmittedEdits
<1> QED
  BY <1>3, <1>4, <1>5, <1>6, <1>7 DEF WorkInv, NobodyWaitsForNothing

LEMMA MigrationsWork ==
  ASSUME WorkInv, OpenMigrations \/ RunAllFiles
  PROVE  WorkInv'
<1>1. PICK stmt : /\ stmt.kind \in {"check", "file"} /\ Submit(<<stmt>>)
                  /\ query'.what \in {"check", "file"} /\ query' # NoQuery
                  /\ panel' # None /\ panel'.stage = "running" => query'.what = "file"
  <2>1. CASE OpenMigrations
    <3>1. Check.kind = "check" /\ query'.what = "check" /\ query' # NoQuery /\ panel' = None
      BY <2>1 DEF OpenMigrations, NoOverlay, Check, Stmt, For, NoQuery
    <3> QED
      BY <2>1, <3>1 DEF OpenMigrations
  <2>2. CASE RunAllFiles
    <3>1. File(panel.files[1]).kind = "file" /\ query'.what = "file" /\ query' # NoQuery
      BY <2>2 DEF RunAllFiles, File, Stmt, For, NoQuery
    <3> QED
      BY <2>2, <3>1 DEF RunAllFiles
  <2> QED
    BY <2>1, <2>2
<1>2. /\ rowEdit' = None /\ tangled' = (tangled \/ pending)
      /\ UNCHANGED <<outbox, last, rows, error, heard>>
  BY DEF OpenMigrations, RunAllFiles, NoOverlay, PanelHasKeys
<1>3. /\ epoch' = epoch + 1 /\ epoch' \in Epochs /\ pending'
      /\ jobs'[epoch'].does = <<stmt>>
      /\ Numbered' /\ PendingIsInFlight'
      /\ NewestIsWanted' /\ SilencedStaySilent' /\ MigrationsStayOffTheGrid'
      /\ \A e \in Epochs \ {epoch'} : jobs'[e].does = jobs[e].does
  BY <1>1, <1>2, SubmitKeeps
<1>4. RunningPanelIsServed' /\ MigrationsAreClaimed'
  BY <1>1, <1>3 DEF RunningPanelIsServed, QueryIs, MigrationsAreClaimed
<1>5. LastIsRead'
  BY <1>1, <1>3, OneStatement DEF LastIsRead, Does
<1>6. GridIsLast' /\ OverlayIsOfTheGrid'
  BY <1>2, <1>3, RowsStay DEF WorkInv, GridIsLast, OverlayIsOfTheGrid
<1>7. CarefulEditsHitTheirTable'
  BY <1>1, <1>2, OneStatement, SubmittedEdits
<1> QED
  BY <1>3, <1>4, <1>5, <1>6, <1>7 DEF WorkInv, NobodyWaitsForNothing

(* A cancel takes an epoch that no task has.                                *)
LEMMA CancelWorks ==
  ASSUME WorkInv, Cancel
  PROVE  WorkInv'
<1>0. /\ rows' = None /\ error' = 0 /\ ~pending' /\ pending' \in BOOLEAN
      /\ rowEdit' = None /\ panel' = None
      /\ (tangled' <=> tangled \/ query # NoQuery \/ refreshing)
      /\ UNCHANGED <<outbox, query, heard>>
  BY DEF Cancel, NoOverlay
<1>1. /\ epoch \in 1..MaxEpoch /\ epoch' = epoch + 1 /\ epoch' \in Epochs /\ ~pending'
  BY WorkbenchAssumption
  DEF Cancel, WorkInv, Numbered, NobodyWaitsForNothing, PendingIsInFlight, Epochs
<1>2. /\ jobs' = [e \in Epochs |-> jobs'[e]]
      /\ \A e \in Epochs : IsJob(jobs'[e]) /\ jobs'[e].does = jobs[e].does
      /\ \A e \in Epochs \ {epoch} : jobs'[e] = jobs[e]
      /\ jobs'[epoch].state = "sent" <=> jobs[epoch].state = "sent"
  <2>1. jobs' = [jobs EXCEPT ![epoch] =
                   [[jobs[epoch] EXCEPT !.silenced = TRUE]
                       EXCEPT !.state = IF @ = "running" THEN "aborting" ELSE @]]
    BY <1>1 DEF Cancel, WorkInv, Numbered, Epochs
  <2>2. IsJob(jobs[epoch])
    BY <1>1 DEF WorkInv, Numbered, Epochs
  <2>3. jobs'[epoch] = [[jobs[epoch] EXCEPT !.silenced = TRUE]
                       EXCEPT !.state = IF @ = "running" THEN "aborting" ELSE @]
    BY <1>1, <2>1 DEF WorkInv, Numbered, Epochs
  <2>4. IsJob(jobs'[epoch]) /\ jobs'[epoch].does = jobs[epoch].does
        /\ (jobs'[epoch].state = "sent" <=> jobs[epoch].state = "sent")
    BY <2>2, <2>3 DEF IsJob
  <2> QED
    BY <1>1, <2>1, <2>4 DEF WorkInv, Numbered, Epochs
<1>3. Numbered'
  <2>1. /\ epoch' \in 0..MaxEpoch /\ heard' \in 0..epoch' /\ pending' \in BOOLEAN
        /\ rows' \in (1..epoch') \cup {None} /\ error' \in (0..epoch') \cup {None}
    <3>1. epoch \in Nat /\ heard \in 0..epoch
      BY <1>1 DEF WorkInv, Numbered
    <3> QED
      BY <1>0, <1>1, <3>1, WorkbenchAssumption DEF Epochs
  <2>2. \A o \in outbox' : o.epoch \in 1..epoch' /\ jobs'[o.epoch].state = "sent"
    <3>1. \A o \in outbox : o.epoch \in 1..epoch /\ jobs[o.epoch].state = "sent"
      BY DEF WorkInv, Numbered
    <3>2. ASSUME NEW o \in outbox
          PROVE  o.epoch \in 1..epoch' /\ jobs'[o.epoch].state = "sent"
      <4>1. o.epoch \in 1..epoch /\ jobs[o.epoch].state = "sent" /\ o.epoch \in Epochs
        BY <1>1, <3>1, <3>2, WorkbenchAssumption DEF Epochs
      <4>2. jobs'[o.epoch].state = "sent"
        BY <1>2, <4>1
      <4> QED
        BY <1>1, <4>1, <4>2
    <3> QED
      BY <1>0, <3>2
  <2>3. \A e \in Epochs : e > epoch' => jobs'[e].state = "none" /\ ~jobs'[e].silenced
    BY <1>1, <1>2 DEF WorkInv, Numbered, Epochs
  <2> QED
    BY <1>2, <2>1, <2>2, <2>3 DEF Numbered
<1>4. jobs'[epoch'].state = "none" /\ ~jobs'[epoch'].silenced /\ \A o \in outbox' : o.epoch # epoch'
  BY <1>1, <1>2 DEF Cancel, WorkInv, Numbered, Epochs
<1>5. NobodyWaitsForNothing'
  BY <1>1, <1>4
  DEF Cancel, NoOverlay, NobodyWaitsForNothing, PendingIsInFlight, RunningPanelIsServed, InFlight
<1>6. NewestIsWanted' /\ SilencedStaySilent'
  <2>1. heard' = heard /\ heard \in 0..epoch /\ (heard = epoch => heard = 0)
    BY <1>0 DEF Cancel, WorkInv, Numbered, NewestIsWanted
  <2>2. NewestIsWanted'
    BY <1>0, <1>4 DEF NewestIsWanted
  <2>3. heard # 0 => heard \in Epochs \ {epoch} /\ ~jobs[heard].silenced
    BY <1>1, <2>1, WorkbenchAssumption DEF WorkInv, SilencedStaySilent, Epochs
  <2> QED
    BY <1>0, <1>2, <2>2, <2>3 DEF SilencedStaySilent
<1>7. MigrationsAreClaimed' /\ MigrationsStayOffTheGrid' /\ LastIsRead'
  BY <1>0, WorkbenchAssumption
  DEF MigrationsAreClaimed, MigrationsStayOffTheGrid, LastIsRead, Epochs
<1>8. GridIsLast' /\ OverlayIsOfTheGrid'
  BY DEF Cancel, NoOverlay, GridIsLast, OverlayIsOfTheGrid
<1>9. CarefulEditsHitTheirTable'
  BY <1>0, <1>2 DEF WorkInv, CarefulEditsHitTheirTable, EditsHitTheirTable
<1> QED
  BY <1>3, <1>5, <1>6, <1>7, <1>8, <1>9 DEF WorkInv

-----------------------------------------------------------------------------
(* A task sends its outcome, or dies of its cancel.                         *)
LEMMA TasksWork ==
  ASSUME WorkInv, NEW e \in Epochs, Task(e)
  PROVE  WorkInv'
<1>1. /\ jobs[e].state \in {"running", "aborting"}
      /\ jobs' = [jobs EXCEPT ![e].state = "sent"]
      /\ UNCHANGED <<epoch, pending, query, panel, last, rows, error, rowEdit, heard, tangled>>
      /\ \/ jobs[e].state = "aborting" /\ outbox' = outbox
         \/ \E o : o.epoch = e /\ outbox' = outbox \cup {o}
  <2>1. ASSUME NEW at \in 0..Len(jobs[e].does), Sends(e, at)
        PROVE  \E o : o.epoch = e /\ outbox' = outbox \cup {o}
    <3> DEFINE o == [epoch |-> e, failed |-> at, saw |-> IF Does(e, "check") THEN applied ELSE {}]
    <3>1. o.epoch = e /\ outbox' = outbox \cup {o}
      BY <2>1 DEF Sends
    <3> QED
      BY <3>1
  <2>2. CASE Dies(e)
    BY <2>2 DEF Dies
  <2>3. CASE \E at \in 0..Len(jobs[e].does) : Sends(e, at)
    BY <2>1, <2>3 DEF Sends
  <2> QED
    BY <2>2, <2>3 DEF Task
<1>2. /\ jobs' = [k \in Epochs |-> jobs'[k]]
      /\ \A k \in Epochs \ {e} : jobs'[k] = jobs[k]
      /\ \A k \in Epochs : IsJob(jobs'[k]) /\ jobs'[k].does = jobs[k].does
                          /\ (jobs'[k].silenced <=> jobs[k].silenced)
      /\ jobs'[e].state = "sent"
  <2>1. jobs'[e] = [jobs[e] EXCEPT !.state = "sent"] /\ IsJob(jobs[e])
    BY <1>1 DEF WorkInv, Numbered
  <2>2. IsJob(jobs'[e]) /\ jobs'[e].does = jobs[e].does /\ jobs'[e].state = "sent"
        /\ jobs'[e].silenced = jobs[e].silenced
    BY <2>1 DEF IsJob
  <2> QED
    BY <1>1, <2>2 DEF WorkInv, Numbered
<1>3. e \in 1..epoch
  BY <1>1, WorkbenchAssumption DEF WorkInv, Numbered, Epochs
<1>4. Numbered'
  <2>1. \A o \in outbox' : o.epoch \in 1..epoch /\ jobs'[o.epoch].state = "sent"
    <3>1. \A o \in outbox' : o.epoch \in 1..epoch /\ (o.epoch = e \/ jobs[o.epoch].state = "sent")
      BY <1>1, <1>3 DEF WorkInv, Numbered
    <3>2. 1..epoch \subseteq Epochs
      BY WorkbenchAssumption DEF WorkInv, Numbered, Epochs
    <3> QED
      BY <1>2, <3>1, <3>2
  <2>2. \A k \in Epochs : k > epoch => jobs'[k].state = "none" /\ ~jobs'[k].silenced
    BY <1>2, <1>3 DEF WorkInv, Numbered, Epochs
  <2> QED
    BY <1>1, <1>2, <2>1, <2>2 DEF WorkInv, Numbered
<1>5. NewestIsWanted' /\ SilencedStaySilent'
  <2>1. epoch # 0 => epoch \in Epochs
    BY WorkbenchAssumption DEF WorkInv, Numbered, Epochs
  <2>2. heard # 0 => heard \in Epochs
    BY WorkbenchAssumption DEF WorkInv, Numbered, Epochs
  <2> QED
    BY <1>1, <1>2, <2>1, <2>2 DEF WorkInv, NewestIsWanted, SilencedStaySilent
<1>6. NobodyWaitsForNothing'
  <2>1. PendingIsInFlight'
    <3>1. CASE e # epoch
      <4>1. epoch # 0 => jobs'[epoch].state = jobs[epoch].state
        BY <1>2, <3>1, WorkbenchAssumption DEF WorkInv, Numbered, Epochs
      <4>2. (\E o \in outbox' : o.epoch = epoch) <=> (\E o \in outbox : o.epoch = epoch)
        BY <1>1, <3>1
      <4> QED
        BY <1>1, <4>1, <4>2 DEF WorkInv, NobodyWaitsForNothing, PendingIsInFlight, InFlight
    <3>2. CASE e = epoch
      BY <1>1, <1>3, <3>2
      DEF WorkInv, NobodyWaitsForNothing, PendingIsInFlight, InFlight, NewestIsWanted
    <3> QED
      BY <3>1, <3>2
  <2> QED
    BY <1>1, <2>1 DEF WorkInv, NobodyWaitsForNothing, RunningPanelIsServed, QueryIs
<1>7. MigrationsAreClaimed' /\ MigrationsStayOffTheGrid' /\ LastIsRead' /\ GridIsLast'
  <2>1. pending => epoch \in Epochs
    BY WorkbenchAssumption
    DEF WorkInv, Numbered, NobodyWaitsForNothing, PendingIsInFlight, Epochs
  <2>2. rows \in Epochs \cup {None}
    BY WorkbenchAssumption DEF WorkInv, Numbered, Epochs
  <2> QED
    BY <1>1, <1>2, <2>1, <2>2
    DEF WorkInv, MigrationsAreClaimed, MigrationsStayOffTheGrid, IsMigration, LastIsRead, GridIsLast,
        Does, Source
<1>8. OverlayIsOfTheGrid' /\ CarefulEditsHitTheirTable'
  BY <1>1, <1>2 DEF WorkInv, OverlayIsOfTheGrid, CarefulEditsHitTheirTable, EditsHitTheirTable
<1> QED
  BY <1>4, <1>5, <1>6, <1>7, <1>8 DEF WorkInv

-----------------------------------------------------------------------------
(* A tick that nobody waits for.                                            *)
LEMMA TickStaleWorks ==
  ASSUME WorkInv, TickStale
  PROVE  WorkInv'
<1>1. /\ outbox' = {} /\ \A o \in outbox : o.epoch # epoch
      /\ UNCHANGED <<epoch, pending, jobs, query, panel, last, rows, error, rowEdit, heard, tangled>>
  BY DEF TickStale, Drained
<1>2. Numbered' /\ NobodyWaitsForNothing' /\ NewestIsWanted' /\ SilencedStaySilent'
  BY <1>1 DEF WorkInv, Numbered, NobodyWaitsForNothing, PendingIsInFlight, RunningPanelIsServed,
              QueryIs, InFlight, NewestIsWanted, SilencedStaySilent
<1>3. MigrationsAreClaimed' /\ MigrationsStayOffTheGrid' /\ LastIsRead' /\ GridIsLast'
  BY <1>1 DEF WorkInv, MigrationsAreClaimed, MigrationsStayOffTheGrid, IsMigration, LastIsRead,
              GridIsLast, Does, Source
<1>4. OverlayIsOfTheGrid' /\ CarefulEditsHitTheirTable'
  BY <1>1 DEF WorkInv, OverlayIsOfTheGrid, CarefulEditsHitTheirTable, EditsHitTheirTable
<1> QED
  BY <1>2, <1>3, <1>4 DEF WorkInv

(* The outcome a tick routes is the one that is waited for.                 *)
LEMMA HeardIsAwaited ==
  ASSUME WorkInv, NEW o, Hears(o)
  PROVE  /\ pending /\ epoch \in Epochs /\ epoch \in 1..epoch
         /\ jobs[epoch].state = "sent" /\ ~jobs[epoch].silenced
         /\ outbox' = {} /\ heard' = epoch
         /\ UNCHANGED <<last, rowEdit, tangled>>
         /\ tangled \/ rowEdit = None
<1>1. /\ o \in outbox /\ o.epoch = epoch /\ outbox' = {} /\ heard' = epoch
      /\ UNCHANGED <<last, rowEdit, tangled>>
  BY DEF Hears, Drained
<1>2. /\ epoch \in 1..epoch /\ epoch \in Nat /\ epoch # 0 /\ jobs[epoch].state = "sent"
  BY <1>1 DEF WorkInv, Numbered
<1>3. pending
  BY <1>1, <1>2 DEF WorkInv, NobodyWaitsForNothing, PendingIsInFlight, InFlight
<1>4. epoch \in Epochs /\ ~jobs[epoch].silenced
  BY <1>2, WorkbenchAssumption DEF WorkInv, Numbered, NewestIsWanted, Epochs
<1>5. tangled \/ rowEdit = None
  BY <1>3 DEF WorkInv, OverlayIsOfTheGrid
<1> QED
  BY <1>1, <1>2, <1>3, <1>4, <1>5

LEMMA SettledKeeps ==
  ASSUME WorkInv, NEW o, Hears(o), Settled,
         rows' \in {rows, epoch, None}, error' \in {error, epoch, None}
  PROVE  /\ Numbered' /\ PendingIsInFlight'
         /\ NewestIsWanted' /\ SilencedStaySilent'
         /\ MigrationsAreClaimed' /\ LastIsRead'
         /\ OverlayIsOfTheGrid' /\ CarefulEditsHitTheirTable'
<1> /\ pending /\ epoch \in Epochs /\ epoch \in 1..epoch
    /\ jobs[epoch].state = "sent" /\ ~jobs[epoch].silenced
    /\ outbox' = {} /\ heard' = epoch
    /\ UNCHANGED <<last, rowEdit, tangled>>
    /\ tangled \/ rowEdit = None
  BY HeardIsAwaited
<1> ~pending' /\ pending' \in BOOLEAN /\ UNCHANGED <<epoch, jobs>>
  BY DEF Settled
<1>1. Numbered' /\ PendingIsInFlight'
  BY DEF WorkInv, Numbered, PendingIsInFlight, InFlight
<1>2. NewestIsWanted' /\ SilencedStaySilent'
  BY DEF WorkInv, NewestIsWanted, SilencedStaySilent
<1>3. MigrationsAreClaimed' /\ LastIsRead' /\ OverlayIsOfTheGrid' /\ CarefulEditsHitTheirTable'
  BY DEF WorkInv, MigrationsAreClaimed, LastIsRead, OverlayIsOfTheGrid, CarefulEditsHitTheirTable,
         EditsHitTheirTable
<1> QED
  BY <1>1, <1>2, <1>3

(* To the grid: the submission was no migration, or it would be claimed.    *)
LEMMA TickGridWorks ==
  ASSUME WorkInv, NEW o, TickGrid(o)
  PROVE  WorkInv'
<1>1. /\ Hears(o) /\ Settled /\ query = NoQuery /\ query' = NoQuery /\ panel' = panel
      /\ rows' = None \/ (rows' = epoch /\ Does(epoch, "read"))
      /\ error' \in {epoch, None}
  BY DEF TickGrid
<1>2. /\ pending /\ epoch \in Epochs /\ UNCHANGED <<last, tangled>>
  BY <1>1, HeardIsAwaited
<1>3. /\ Numbered' /\ PendingIsInFlight'
      /\ NewestIsWanted' /\ SilencedStaySilent'
      /\ MigrationsAreClaimed' /\ LastIsRead'
      /\ OverlayIsOfTheGrid' /\ CarefulEditsHitTheirTable'
  BY <1>1, SettledKeeps
<1>4. UNCHANGED <<epoch, jobs>> /\ ~pending'
  BY <1>1 DEF Settled
<1>5. MigrationsStayOffTheGrid'
  <2>1. ~IsMigration(epoch)
    BY <1>1, <1>2 DEF WorkInv, MigrationsAreClaimed
  <2> QED
    BY <1>1, <1>4, <2>1, WorkbenchAssumption DEF MigrationsStayOffTheGrid, IsMigration, Does, Epochs
<1>6. GridIsLast'
  BY <1>1, <1>2, <1>4 DEF WorkInv, LastIsRead, GridIsLast, Source
<1>7. RunningPanelIsServed'
  BY <1>1 DEF WorkInv, NobodyWaitsForNothing, RunningPanelIsServed, QueryIs, NoQuery, For
<1> QED
  BY <1>3, <1>5, <1>6, <1>7 DEF WorkInv, NobodyWaitsForNothing

(* To the panel, which then has nothing to wait for.                        *)
LEMMA PanelSettles ==
  ASSUME WorkInv, NEW o, Hears(o), Settled, query # NoQuery, query' = NoQuery,
         UNCHANGED <<rows, error>>,
         panel' = None \/ panel'.stage # "running"
  PROVE  WorkInv'
<1>1. /\ Numbered' /\ PendingIsInFlight'
      /\ NewestIsWanted' /\ SilencedStaySilent'
      /\ MigrationsAreClaimed' /\ LastIsRead'
      /\ OverlayIsOfTheGrid' /\ CarefulEditsHitTheirTable'
  BY SettledKeeps
<1>2. UNCHANGED <<epoch, jobs>> /\ ~pending'
  BY DEF Settled
<1>3. MigrationsStayOffTheGrid'
  BY <1>2 DEF WorkInv, MigrationsStayOffTheGrid, IsMigration, Does
<1>4. GridIsLast'
  BY <1>2, HeardIsAwaited DEF WorkInv, GridIsLast, Source
<1>5. RunningPanelIsServed'
  BY DEF RunningPanelIsServed
<1> QED
  BY <1>1, <1>3, <1>4, <1>5 DEF WorkInv, NobodyWaitsForNothing

(* To the panel, which goes on with another submission.                     *)
LEMMA PanelGoesOn ==
  ASSUME WorkInv, NEW o, Hears(o), NEW stmt, Start(<<stmt>>, {}), stmt.kind \notin {"read", "edit"},
         query # NoQuery, query' # NoQuery, UNCHANGED <<rows, error>>,
         panel' = None \/ panel'.stage # "running" \/ query'.what = "file"
  PROVE  WorkInv'
<1>1. /\ outbox' = {} /\ heard' = epoch /\ UNCHANGED <<last, rowEdit, tangled>>
      /\ tangled \/ rowEdit = None
  BY HeardIsAwaited
<1>2. /\ epoch' = epoch + 1 /\ epoch' \in Epochs /\ pending'
      /\ jobs'[epoch'] = [does |-> <<stmt>>, state |-> "running", silenced |-> FALSE]
      /\ \A e \in Epochs \ {epoch'} : jobs'[e].does = jobs[e].does
  BY StartEffect DEF WorkInv
<1>3. /\ Numbered' /\ PendingIsInFlight'
      /\ NewestIsWanted' /\ SilencedStaySilent' /\ MigrationsStayOffTheGrid'
  BY <1>1, StartKeeps
<1>4. MigrationsAreClaimed' /\ RunningPanelIsServed'
  BY <1>2 DEF MigrationsAreClaimed, RunningPanelIsServed, QueryIs
<1>5. LastIsRead'
  BY <1>2, OneStatement DEF LastIsRead, Does
<1>6. GridIsLast'
  BY <1>1, <1>2, RowsStay DEF WorkInv, GridIsLast
<1>7. OverlayIsOfTheGrid'
  BY <1>1 DEF OverlayIsOfTheGrid
<1>8. CarefulEditsHitTheirTable'
  BY <1>1, OneStatement, StartedEdits
<1> QED
  BY <1>3, <1>4, <1>5, <1>6, <1>7, <1>8 DEF WorkInv, NobodyWaitsForNothing

LEMMA TickPanelWorks ==
  ASSUME WorkInv, NEW o,
         \/ TickChecked(o) \/ TickFileDone(o) \/ TickNextUnreadable(o) \/ TickFileFailed(o)
         \/ TickRolledBack(o)
  PROVE  WorkInv'
<1>1. Hears(o) /\ UNCHANGED <<rows, error>> /\ query # NoQuery
  BY DEF TickChecked, TickFileDone, TickNextUnreadable, TickFileFailed, TickRolledBack, QueryIs,
         NoQuery, For
<1>2. CASE TickChecked(o) \/ TickNextUnreadable(o) \/ TickRolledBack(o)
  <2>1. Settled /\ query' = NoQuery /\ (panel' = None \/ panel'.stage # "running")
    BY <1>2 DEF TickChecked, TickNextUnreadable, TickRolledBack, Panel, Blocked, WorkInv,
                NobodyWaitsForNothing, RunningPanelIsServed, QueryIs
  <2> QED
    BY <1>1, <2>1, PanelSettles
<1>3. CASE TickFileDone(o)
  <2>1. CASE panel # None /\ panel.stage = "running" /\ panel.index < Len(panel.files)
    <3> DEFINE next == panel.files[panel.index + 1]
    <3>1. query' = For("file", next) /\ Start(<<File(next)>>, {})
      BY <1>3, <2>1 DEF TickFileDone
    <3>2. query' # NoQuery /\ query'.what = "file" /\ File(next).kind = "file"
      BY <3>1 DEF For, NoQuery, File, Stmt
    <3> HIDE DEF next
    <3> QED
      BY <1>1, <3>1, <3>2, PanelGoesOn
  <2>2. CASE ~(panel # None /\ panel.stage = "running")
    <3>1. query' = NoQuery /\ Settled /\ panel' = panel
      BY <1>3, <2>2 DEF TickFileDone
    <3> QED
      BY <1>1, <2>2, <3>1, PanelSettles
  <2>3. CASE panel # None /\ panel.stage = "running" /\ ~(panel.index < Len(panel.files))
    <3>1. query' = NoQuery /\ Settled /\ panel' = [panel EXCEPT !.stage = "done"]
      BY <1>3, <2>3 DEF TickFileDone
    <3>2. panel'.stage # "running"
      BY <2>3, <3>1
    <3> QED
      BY <1>1, <3>1, <3>2, PanelSettles
  <2> QED
    BY <2>1, <2>2, <2>3
<1>4. CASE TickFileFailed(o)
  <2>1. /\ query' # NoQuery /\ Start(<<Control>>, {}) /\ Control.kind = "control"
        /\ panel' = None \/ panel'.stage # "running"
    BY <1>4 DEF TickFileFailed, For, NoQuery, Control, Stmt, Blocked, Panel
  <2> QED
    BY <1>1, <2>1, PanelGoesOn
<1> QED
  BY <1>2, <1>3, <1>4

-----------------------------------------------------------------------------
LEMMA NextWork == WorkInv /\ [Next]_vars => WorkInv'
<1> SUFFICES ASSUME WorkInv, [Next]_vars PROVE WorkInv'
  OBVIOUS
<1>1. CASE UNCHANGED vars
  <2>1. /\ UNCHANGED <<epoch, pending, jobs, outbox, query, last, rows, error, heard>>
        /\ UNCHANGED <<panel, rowEdit, tangled>>
    BY <1>1 DEF vars
  <2>2. /\ Numbered' /\ PendingIsInFlight'
        /\ NewestIsWanted' /\ SilencedStaySilent'
        /\ MigrationsAreClaimed' /\ MigrationsStayOffTheGrid'
        /\ LastIsRead' /\ GridIsLast' /\ CarefulEditsHitTheirTable'
    BY <2>1, EngineAtRest
  <2>3. RunningPanelIsServed' /\ OverlayIsOfTheGrid'
    BY <2>1
    DEF WorkInv, NobodyWaitsForNothing, RunningPanelIsServed, OverlayIsOfTheGrid, QueryIs
  <2> QED
    BY <2>2, <2>3 DEF WorkInv, NobodyWaitsForNothing
<1>2. CASE Keys
  BY <1>2, RunsWork, OverlaysWork, RowEditWork, DesignerWork, MigrationsWork, CancelWorks DEF Keys
<1>3. CASE Tick
  BY <1>3, TickStaleWorks, TickGridWorks, TickPanelWorks DEF Tick
<1>4. CASE \E e \in Epochs : Task(e)
  BY <1>4, TasksWork
<1> QED
  BY <1>1, <1>2, <1>3, <1>4 DEF Next

LEMMA WorkCorrect == Spec => []WorkInv
  BY InitWork, NextWork, PTL DEF Spec

(* The types of the engine's state.                                          *)
THEOREM TypeCorrect == Spec => []TypeOK
<1>1. WorkInv => TypeOK
  BY WorkbenchAssumption DEF WorkInv, Numbered, TypeOK, Epochs
<1> QED
  BY <1>1, WorkCorrect, PTL

(* Whatever is pressed, cancelled, superseded, or ticks late: the screen     *)
(* says "running" exactly while an outcome is to come, and a panel that      *)
(* takes no key has one to come (`submit`, `cancel`, `tick`).                *)
THEOREM ScreenIsServed == Spec => []NobodyWaitsForNothing
  BY WorkCorrect, PTL DEF WorkInv

(* The epoch keeps what was cancelled or superseded from being heard, for    *)
(* any number of tasks on their way (`TaggedOutcome`).                       *)
THEOREM SilenceLasts == Spec => []SilencedStaySilent
  BY WorkCorrect, PTL DEF WorkInv

(* No outcome of a migration reaches the grid (`migrations_query`).          *)
THEOREM GridShowsNoMigration == Spec => []MigrationsStayOffTheGrid
  BY WorkCorrect, PTL DEF WorkInv

(* An edit begun with nothing in flight changes the table its row was read   *)
(* from (`last_query`, `editable_row`).                                      *)
THEOREM RowsAreEditedAtHome == Spec => []CarefulEditsHitTheirTable
  BY WorkCorrect, PTL DEF WorkInv

-----------------------------------------------------------------------------
(* Migration files run in turn.  As long as the user acts on nothing in     *)
(* flight: the only file that may still be written is that of the newest    *)
(* submission ...                                                           *)
FileIsNewest ==
    \A e \in Epochs : Does(e, "file") /\ jobs[e].state \in {"running", "aborting"} => e = epoch

(* ... a submission made for the panel is what is in flight ...             *)
QueryIsOut ==
    /\ query # NoQuery => pending
    /\ QueryIs("check") => jobs[epoch].does = <<Check>>
    /\ QueryIs("rollback") => jobs[epoch].does = <<Control>>
    /\ QueryIs("file") =>
          jobs[epoch].does = <<File(query.file)>> /\ panel # None /\ panel.stage = "running"
    /\ query.what \in {"nothing", "check", "file", "rollback"}
    /\ QueryIs("nothing") => query = NoQuery

(* ... what a check saw is still so when the panel hears of it ...          *)
CheckIsFresh ==
    QueryIs("check") => \A o \in outbox : o.epoch = epoch => o.saw = applied

(* ... and the files a panel has left to run are those not applied.         *)
Left(p, k) == {p.files[i] : i \in (k + 1)..Len(p.files)}

Rising(s) == \A i, j \in DOMAIN s : i < j => s[i] < s[j]

IsPanel(p) == p \in Panels /\ Rising(p.files)

PanelInTurn ==
    panel # None =>
        /\ IsPanel(panel)
        /\ panel.stage = "listing" => applied = Files \ Left(panel, 0)
        /\ panel.stage = "running" =>
              /\ panel.index \in 1..Len(panel.files)
              /\ query.file = panel.files[panel.index]
              /\ jobs[epoch].state = "running" => applied = Files \ Left(panel, panel.index - 1)
              /\ \A o \in outbox : o.epoch = epoch /\ o.failed = 0 =>
                    applied = Files \ Left(panel, panel.index)

InTurn == applied \subseteq Files /\ FileIsNewest /\ QueryIsOut /\ CheckIsFresh /\ PanelInTurn

TurnInv == tangled \/ InTurn

StartsInTurn == \A f \in Files : StartsFile(f) => 1..(f - 1) \subseteq applied /\ f \notin applied

-----------------------------------------------------------------------------
(* The panels a check and a failure put up.                                 *)
LEMMA UnappliedIs ==
  ASSUME NEW saw
  PROVE  /\ Unapplied(saw) \in Seq(Files) /\ Rising(Unapplied(saw))
         /\ {Unapplied(saw)[i] : i \in 1..Len(Unapplied(saw))} = Files \ saw
<1> DEFINE s == [f \in Files |-> f]
           K == Files \ saw
<1>1. s \in Seq(Files) /\ DOMAIN s = Files /\ K \in SUBSET DOMAIN s
  BY WorkbenchAssumption DEF Files
<1>2. \A f \in Files : s[f] = f
  OBVIOUS
<1> HIDE DEF s, K
<1>3. /\ Kept(s, K) \in Seq(Files) /\ DOMAIN Kept(s, K) = 1..Len(Kept(s, K))
      /\ ToSet(Kept(s, K)) = {s[i] : i \in K}
  BY <1>1, KeptIs, KeptOrders
<1>4. \A k, l \in DOMAIN Kept(s, K) : k < l =>
        \E i, j \in K : i < j /\ Kept(s, K)[k] = s[i] /\ Kept(s, K)[l] = s[j]
  BY <1>1, KeptOrders
<1>5. Rising(Kept(s, K))
  <2> SUFFICES ASSUME NEW k \in DOMAIN Kept(s, K), NEW l \in DOMAIN Kept(s, K), k < l
               PROVE  Kept(s, K)[k] < Kept(s, K)[l]
    BY DEF Rising
  <2>1. PICK i \in K, j \in K : i < j /\ Kept(s, K)[k] = s[i] /\ Kept(s, K)[l] = s[j]
    BY <1>4
  <2>2. s[i] = i /\ s[j] = j
    BY <1>1, <1>2
  <2> QED
    BY <2>1, <2>2
<1>6. {Kept(s, K)[i] : i \in 1..Len(Kept(s, K))} = K
  <2>1. {s[i] : i \in K} = K
    BY <1>1, <1>2
  <2>2. ToSet(Kept(s, K)) = {Kept(s, K)[i] : i \in 1..Len(Kept(s, K))}
    BY <1>3 DEF ToSet
  <2> QED
    BY <1>3, <2>1, <2>2
<1> QED
  BY <1>3, <1>5, <1>6 DEF Unapplied, s, K

LEMMA BlockedIs == Blocked # None /\ Blocked.stage = "blocked" /\ IsPanel(Blocked)
<1>1. Blocked = [stage |-> "blocked", files |-> <<>>, index |-> 0]
  BY DEF Blocked, Panel
<1>2. Blocked \in Panels
  BY <1>1 DEF Panels
<1>3. Rising(<<>>)
  BY DEF Rising
<1> QED
  BY <1>1, <1>2, <1>3, WorkbenchAssumption DEF IsPanel

(* Overlays, and a panel that is not running, come and go.                  *)
LEMMA QuietTurns ==
  ASSUME WorkInv, InTurn, UNCHANGED <<epoch, pending, jobs, outbox, query, applied>>,
         panel' = panel \/ (panel' \in {None, Blocked} /\ (panel = None \/ panel.stage # "running"))
  PROVE  InTurn' /\ (epoch' = epoch)
<1> USE DEF InTurn
<1>1. applied' \subseteq Files /\ FileIsNewest' /\ CheckIsFresh'
  BY DEF FileIsNewest, CheckIsFresh, Does, QueryIs
<1>2. QueryIsOut'
  BY DEF QueryIsOut, QueryIs
<1>3. PanelInTurn'
  <2>1. CASE panel' = panel
    BY <2>1 DEF PanelInTurn, Left
  <2>2. CASE panel' \in {None, Blocked}
    BY <2>2, BlockedIs DEF PanelInTurn
  <2> QED
    BY <2>1, <2>2
<1> QED
  BY <1>1, <1>2, <1>3

(* With nothing in flight the panel asked for nothing, and no file is       *)
(* written.                                                                 *)
LEMMA NothingOut ==
  ASSUME WorkInv, InTurn, ~pending
  PROVE  /\ query = NoQuery /\ ~QueryIs("check") /\ ~QueryIs("file") /\ ~QueryIs("rollback")
         /\ panel # None => panel.stage # "running"
         /\ \A e \in Epochs : Does(e, "file") => jobs[e].state \notin {"running", "aborting"}
<1>1. query = NoQuery /\ ~QueryIs("check") /\ ~QueryIs("file") /\ ~QueryIs("rollback")
  BY DEF InTurn, QueryIsOut, QueryIs, NoQuery, For
<1>2. panel # None => panel.stage # "running"
  BY DEF WorkInv, NobodyWaitsForNothing, RunningPanelIsServed
<1>3. ASSUME NEW e \in Epochs, Does(e, "file"), jobs[e].state \in {"running", "aborting"}
      PROVE  FALSE
  <2>1. e = epoch /\ epoch # 0
    BY <1>3, WorkbenchAssumption DEF InTurn, FileIsNewest, Epochs
  <2> QED
    BY <1>3, <2>1 DEF WorkInv, NobodyWaitsForNothing, PendingIsInFlight, InFlight
<1> QED
  BY <1>1, <1>2, <1>3

(* A submission with nothing in flight.                                     *)
LEMMA SubmitTurns ==
  ASSUME WorkInv, InTurn, ~pending, NEW does, Submit(does), outbox' = outbox
  PROVE  /\ FileIsNewest' /\ pending'
         /\ jobs'[epoch'].does = does /\ jobs'[epoch'].state = "running"
         /\ \A o \in outbox' : o.epoch # epoch'
<1>1. PICK superseded : Start(does, superseded)
  BY DEF Submit
<1>2. /\ epoch' = epoch + 1 /\ epoch' \in Epochs /\ pending'
      /\ jobs'[epoch'] = [does |-> does, state |-> "running", silenced |-> FALSE]
      /\ \A e \in Epochs \ {epoch'} : jobs'[e].does = jobs[e].does /\ jobs'[e].state = jobs[e].state
  BY <1>1, StartEffect DEF WorkInv
<1>3. FileIsNewest'
  BY <1>2, NothingOut DEF FileIsNewest, Does
<1>4. \A o \in outbox' : o.epoch # epoch'
  BY <1>2 DEF WorkInv, Numbered
<1> QED
  BY <1>2, <1>3, <1>4

(* One that writes no file ...                                              *)
LEMMA PlainTurns ==
  ASSUME WorkInv, InTurn, ~pending, NEW does, Submit(does), Last(does).kind # "file",
         UNCHANGED <<outbox, query, panel, applied>>
  PROVE  InTurn' /\ StartsInTurn
<1>1. /\ FileIsNewest' /\ pending' /\ jobs'[epoch'].does = does
      /\ \A o \in outbox' : o.epoch # epoch'
  BY SubmitTurns
<1>2. /\ query = NoQuery /\ ~QueryIs("check") /\ ~QueryIs("file") /\ ~QueryIs("rollback")
      /\ panel # None => panel.stage # "running"
  BY NothingOut
<1>3. QueryIsOut' /\ CheckIsFresh'
  BY <1>1, <1>2 DEF InTurn, QueryIsOut, CheckIsFresh, QueryIs
<1>4. PanelInTurn' /\ applied' \subseteq Files
  BY <1>2 DEF InTurn, PanelInTurn, Left
<1>5. StartsInTurn
  BY <1>1, OneStatement DEF StartsInTurn, StartsFile, File, Stmt
<1> QED
  BY <1>1, <1>3, <1>4, <1>5 DEF InTurn

LEMMA RunsTurn ==
  ASSUME WorkInv, InTurn, ~tangled',
         \/ \E s \in Scripts : RunScript(s)
         \/ Retry \/ TransactionControl \/ RowEditConfirmed \/ TableDesignerConfirmed
  PROVE  InTurn' /\ StartsInTurn
<1>1. ASSUME NEW s \in Scripts, RunScript(s) PROVE InTurn' /\ StartsInTurn
  <2> DEFINE does == [i \in DOMAIN s |-> Read(s[i])]
  <2>1. Last(does).kind = "read"
    BY ScriptEffect
  <2>2. ~pending /\ Submit(does) /\ UNCHANGED <<outbox, query, panel, applied>>
    BY <1>1 DEF RunScript
  <2> HIDE DEF does
  <2> QED
    BY <2>1, <2>2, PlainTurns
<1>2. CASE Retry
  <2>1. Last(<<Read(last)>>).kind # "file"
    BY OneStatement DEF Read, Stmt
  <2> QED
    BY <1>2, <2>1, PlainTurns DEF Retry
<1>3. CASE TransactionControl
  <2>1. Last(<<Control>>).kind # "file"
    BY OneStatement DEF Control, Stmt
  <2> QED
    BY <1>3, <2>1, PlainTurns DEF TransactionControl
<1>4. CASE RowEditConfirmed
  <2>1. Last(<<rowEdit.runs, Read(last)>>).kind # "file"
    BY TwoStatements DEF Read, Stmt
  <2> QED
    BY <1>4, <2>1, PlainTurns DEF RowEditConfirmed
<1>5. CASE TableDesignerConfirmed
  <2>1. Last(<<Ddl>>).kind # "file"
    BY OneStatement DEF Ddl, Stmt
  <2> QED
    BY <1>5, <2>1, PlainTurns DEF TableDesignerConfirmed
<1> QED
  BY <1>1, <1>2, <1>3, <1>4, <1>5

(* ... one that checks, and one that writes the first file of the panel.    *)
LEMMA ChecksTurn ==
  ASSUME WorkInv, InTurn, ~tangled', OpenMigrations
  PROVE  InTurn' /\ StartsInTurn
<1>1. /\ ~pending /\ Submit(<<Check>>) /\ query' = For("check", None) /\ panel = None
      /\ UNCHANGED <<outbox, panel, applied>>
  BY DEF OpenMigrations, NoOverlay
<1>2. /\ FileIsNewest' /\ pending' /\ jobs'[epoch'].does = <<Check>>
      /\ \A o \in outbox' : o.epoch # epoch'
  BY <1>1, SubmitTurns
<1>3. QueryIsOut' /\ CheckIsFresh'
  BY <1>1, <1>2 DEF QueryIsOut, CheckIsFresh, QueryIs, For
<1>4. PanelInTurn' /\ applied' \subseteq Files
  BY <1>1 DEF InTurn, PanelInTurn
<1>5. Last(<<Check>>).kind = "check" /\ \A f \in Files : Last(<<File(f)>>).kind = "file"
  BY OneStatement DEF Check, File, Stmt
<1>6. StartsInTurn
  BY <1>2, <1>5 DEF StartsInTurn, StartsFile
<1> QED
  BY <1>2, <1>3, <1>4, <1>6 DEF InTurn

(* A file that comes after what is applied, and is the first of what is not.*)
LEMMA NextInTurn ==
  ASSUME NEW p, IsPanel(p), NEW k \in 1..Len(p.files), applied = Files \ Left(p, k - 1)
  PROVE  /\ p.files[k] \in Files /\ p.files[k] \notin applied
         /\ 1..(p.files[k] - 1) \subseteq applied
         /\ applied \cup {p.files[k]} = Files \ Left(p, k)
<1> DEFINE s == p.files
           n == Len(s)
<1>1. s \in Seq(Files) /\ Rising(s)
  BY DEF IsPanel, Panels
<1>2. n \in Nat /\ DOMAIN s = 1..n /\ \A i \in 1..n : s[i] \in Files /\ s[i] \in Nat
  BY <1>1, LenProperties, ElementOfSeq, WorkbenchAssumption DEF Files
<1>3. Left(p, k - 1) = {s[i] : i \in k..n} /\ Left(p, k) = {s[i] : i \in (k + 1)..n}
  <2>1. (k - 1) + 1 = k
    BY <1>2
  <2> QED
    BY <2>1 DEF Left
<1> HIDE DEF s, n
<1>4. k \in 1..n /\ k \in Nat /\ k..n = {k} \cup ((k + 1)..n) /\ \A i \in k..n : i \in 1..n
  <2>1. k \in 1..n
    BY DEF s, n
  <2> QED
    BY <1>2, <2>1
<1>5. \A i \in (k + 1)..n : s[k] < s[i] /\ i \in 1..n
  <2> TAKE i \in (k + 1)..n
  <2>1. i \in 1..n /\ k < i
    BY <1>2, <1>4
  <2> QED
    BY <1>1, <1>2, <1>4, <2>1 DEF Rising
<1>6. s[k] \in Files /\ s[k] \in Nat /\ s[k] \notin applied
  BY <1>2, <1>3, <1>4 DEF s
<1>7. ASSUME NEW g \in 1..(s[k] - 1)
      PROVE  g \in applied
  <2>1. g \in Nat /\ g < s[k] /\ g \in Files
    BY <1>6, WorkbenchAssumption DEF Files
  <2>2. \A i \in k..n : g # s[i]
    BY <1>2, <1>4, <1>5, <2>1
  <2> QED
    BY <1>3, <2>1, <2>2
<1>8. applied \cup {s[k]} = Files \ {s[i] : i \in (k + 1)..n}
  <2>1. {s[i] : i \in k..n} = {s[k]} \cup {s[i] : i \in (k + 1)..n}
    BY <1>4
  <2>2. s[k] \notin {s[i] : i \in (k + 1)..n}
    <3>1. \A i \in (k + 1)..n : s[i] \in Nat /\ s[k] < s[i]
      BY <1>2, <1>5
    <3> QED
      BY <1>6, <3>1
  <2> QED
    BY <1>3, <1>6, <2>1, <2>2
<1> QED
  BY <1>3, <1>6, <1>7, <1>8 DEF s

LEMMA FileStarts ==
  ASSUME NEW f \in Files, NEW g \in Files, <<File(g)>> = <<File(f)>>
  PROVE  f = g
<1>1. File(g) = File(f)
  BY OneStatement
<1> QED
  BY <1>1 DEF File, Stmt

LEMMA AllFilesTurn ==
  ASSUME WorkInv, InTurn, ~tangled', RunAllFiles
  PROVE  InTurn' /\ StartsInTurn
<1> DEFINE f == panel.files[1]
<1>1. /\ ~pending /\ Submit(<<File(f)>>) /\ query' = For("file", f)
      /\ panel # None /\ panel.stage = "listing" /\ panel.files # <<>>
      /\ panel' = Panel("running", panel.files, 1)
      /\ UNCHANGED <<outbox, applied>>
  BY DEF RunAllFiles, PanelHasKeys
<1>2. /\ FileIsNewest' /\ pending' /\ jobs'[epoch'].does = <<File(f)>>
      /\ \A o \in outbox' : o.epoch # epoch'
  BY <1>1, SubmitTurns
<1>3. IsPanel(panel) /\ applied = Files \ Left(panel, 0) /\ applied \subseteq Files
  BY <1>1 DEF InTurn, PanelInTurn
<1>4. panel.files \in Seq(Files) /\ Rising(panel.files)
  BY <1>3 DEF IsPanel, Panels
<1>5. Len(panel.files) \in Nat /\ 1 \in 1..Len(panel.files)
  BY <1>1, <1>4, EmptySeq
<1>6. /\ panel' \in Panels /\ panel'.stage = "running" /\ panel'.files = panel.files
      /\ panel'.index = 1
  BY <1>1, <1>4 DEF Panel, Panels
<1>7. IsPanel(panel') /\ panel' # None
  BY <1>4, <1>6, WorkbenchAssumption DEF IsPanel
<1>8. applied = Files \ Left(panel, 1 - 1)
  BY <1>3
<1>9. f \in Files /\ f \notin applied /\ 1..(f - 1) \subseteq applied
  BY <1>3, <1>5, <1>8, NextInTurn
<1>10. applied' = Files \ Left(panel', panel'.index - 1)
  BY <1>1, <1>6, <1>8 DEF Left
<1> HIDE DEF f
<1>11. QueryIsOut' /\ CheckIsFresh'
  BY <1>1, <1>2, <1>6, <1>7 DEF QueryIsOut, CheckIsFresh, QueryIs, For
<1>12. PanelInTurn'
  <2>1. query'.file = panel'.files[panel'.index] /\ panel'.index \in 1..Len(panel'.files)
    BY <1>1, <1>5, <1>6 DEF For, f
  <2> QED
    BY <1>2, <1>6, <1>7, <1>10, <2>1 DEF PanelInTurn
<1>13. StartsInTurn
  BY <1>2, <1>9, FileStarts DEF StartsInTurn, StartsFile
<1> QED
  BY <1>1, <1>2, <1>3, <1>11, <1>12, <1>13 DEF InTurn

(* A cancel that tangles nothing is of no file.                             *)
LEMMA CancelTurns ==
  ASSUME WorkInv, InTurn, ~tangled', Cancel
  PROVE  InTurn' /\ ~pending'
<1>1. /\ query = NoQuery /\ query' = NoQuery /\ panel = None /\ panel' = None /\ pending /\ ~pending'
      /\ applied' = applied
  BY DEF Cancel, NoOverlay
<1>2. epoch \in Epochs /\ epoch' \in Epochs /\ epoch' = epoch + 1
  BY WorkbenchAssumption
  DEF Cancel, WorkInv, Numbered, NobodyWaitsForNothing, PendingIsInFlight, Epochs
<1>3. ~Does(epoch, "file")
  BY <1>1 DEF WorkInv, MigrationsAreClaimed, IsMigration
<1>4. \A e \in Epochs : jobs'[e].does = jobs[e].does /\ (e # epoch => jobs'[e].state = jobs[e].state)
  <2>1. jobs' = [jobs EXCEPT ![epoch] =
                   [[jobs[epoch] EXCEPT !.silenced = TRUE]
                       EXCEPT !.state = IF @ = "running" THEN "aborting" ELSE @]]
    BY <1>2 DEF Cancel, WorkInv, Numbered
  <2>2. IsJob(jobs[epoch])
    BY <1>2 DEF WorkInv, Numbered
  <2>3. jobs'[epoch] = [[jobs[epoch] EXCEPT !.silenced = TRUE]
                       EXCEPT !.state = IF @ = "running" THEN "aborting" ELSE @]
    BY <1>2, <2>1 DEF WorkInv, Numbered
  <2>4. jobs'[epoch].does = jobs[epoch].does
    BY <2>2, <2>3 DEF IsJob
  <2> QED
    BY <1>2, <2>1, <2>4 DEF WorkInv, Numbered
<1>5. FileIsNewest'
  BY <1>3, <1>4 DEF InTurn, FileIsNewest, Does
<1>6. QueryIsOut' /\ CheckIsFresh' /\ PanelInTurn'
  BY <1>1 DEF QueryIsOut, CheckIsFresh, PanelInTurn, QueryIs, NoQuery, For
<1> QED
  BY <1>1, <1>5, <1>6 DEF InTurn

(* A task ends: only that of the newest submission can have written a file, *)
(* the one the panel shows as running.                                      *)
LEMMA TasksTurn ==
  ASSUME WorkInv, InTurn, NEW e \in Epochs, Task(e)
  PROVE  InTurn' /\ epoch' = epoch
<1>1. /\ jobs[e].state \in {"running", "aborting"}
      /\ jobs' = [jobs EXCEPT ![e].state = "sent"]
      /\ UNCHANGED <<epoch, pending, query, panel>>
  BY DEF Task, Dies, Sends
<1>2. \A k \in Epochs : jobs'[k].does = jobs[k].does
                        /\ (k # e => jobs'[k].state = jobs[k].state) /\ jobs'[e].state = "sent"
  <2>1. jobs'[e] = [jobs[e] EXCEPT !.state = "sent"] /\ IsJob(jobs[e])
    BY <1>1 DEF WorkInv, Numbered
  <2>2. jobs'[e].does = jobs[e].does /\ jobs'[e].state = "sent"
    BY <2>1 DEF IsJob
  <2> QED
    BY <1>1, <2>2 DEF WorkInv, Numbered
<1>3. FileIsNewest'
  BY <1>1, <1>2 DEF InTurn, FileIsNewest, Does
<1>4. pending => epoch \in Epochs
  BY WorkbenchAssumption DEF WorkInv, Numbered, NobodyWaitsForNothing, PendingIsInFlight, Epochs
<1>5. QueryIsOut'
  <2>1. QueryIs("check") \/ QueryIs("file") \/ QueryIs("rollback") => pending
    BY DEF InTurn, QueryIsOut, QueryIs, NoQuery, For
  <2>2. QueryIs("check") \/ QueryIs("file") \/ QueryIs("rollback")
          => jobs'[epoch].does = jobs[epoch].does
    BY <1>2, <1>4, <2>1
  <2> QED
    BY <1>1, <2>2 DEF InTurn, QueryIsOut, QueryIs
<1>6. ASSUME panel # None, panel.stage = "running"
      PROVE  epoch \in Epochs /\ QueryIs("file") /\ Does(epoch, "file")
  <2>1. QueryIs("file") /\ pending
    BY <1>6 DEF WorkInv, NobodyWaitsForNothing, RunningPanelIsServed
  <2>2. jobs[epoch].does = <<File(query.file)>>
    BY <2>1 DEF InTurn, QueryIsOut
  <2>3. Does(epoch, "file")
    BY <2>2, OneStatement DEF Does, File, Stmt
  <2> QED
    BY <1>4, <2>1, <2>3
<1>7. CASE Dies(e)
  <2>1. outbox' = outbox /\ applied' = applied
    BY <1>7 DEF Dies
  <2>2. jobs'[epoch].state = "running" => jobs[epoch].state = "running" \/ epoch \notin Epochs
    BY <1>2
  <2>3. CheckIsFresh' /\ PanelInTurn'
    BY <1>1, <1>6, <2>1, <2>2 DEF InTurn, CheckIsFresh, PanelInTurn, QueryIs, Left
  <2> QED
    BY <1>1, <1>3, <1>5, <2>1, <2>3 DEF InTurn
<1>8. ASSUME NEW at \in 0..Len(jobs[e].does), Sends(e, at)
      PROVE  InTurn'
  <2> DEFINE o == [epoch |-> e, failed |-> at, saw |-> IF Does(e, "check") THEN applied ELSE {}]
  <2>1. /\ outbox' = outbox \cup {o}
        /\ applied' = IF at = 0 /\ Does(e, "file") THEN applied \cup {Source(e)} ELSE applied
    BY <1>8 DEF Sends
  <2>2. o.epoch = e /\ o.failed = at /\ (Does(e, "check") => o.saw = applied)
    OBVIOUS
  <2> HIDE DEF o
  <2>3. CASE e # epoch
    <3>1. applied' = applied
      BY <1>1, <2>1, <2>3 DEF InTurn, FileIsNewest
    <3>2. \A m \in outbox' : m.epoch = epoch => m \in outbox
      BY <2>1, <2>2, <2>3
    <3>3. epoch \in Epochs => jobs'[epoch].state = jobs[epoch].state
      BY <1>2, <2>3
    <3>4. CheckIsFresh' /\ PanelInTurn'
      BY <1>1, <1>6, <3>1, <3>2, <3>3 DEF InTurn, CheckIsFresh, PanelInTurn, QueryIs, Left
    <3> QED
      BY <1>3, <1>5, <3>1, <3>4 DEF InTurn
  <2>4. CASE e = epoch
    <3>1. jobs[epoch].state = "running" /\ epoch # 0 /\ pending
      BY <1>1, <2>4, WorkbenchAssumption
      DEF WorkInv, NewestIsWanted, NobodyWaitsForNothing, PendingIsInFlight, InFlight, Epochs
    <3>2. \A m \in outbox : m.epoch # epoch
      BY <3>1 DEF WorkInv, Numbered
    <3>3. \A m \in outbox' : m.epoch = epoch => m = o
      BY <2>1, <3>2
    <3>4. jobs'[epoch].state = "sent"
      BY <1>2, <2>4
    <3>5. CASE at = 0 /\ Does(e, "file")
      <4>1. query # NoQuery
        BY <2>4, <3>1, <3>5 DEF WorkInv, MigrationsAreClaimed, IsMigration
      <4>2. ~QueryIs("check") /\ ~QueryIs("rollback")
        <5>1. Last(<<Check>>).kind = "check" /\ Last(<<Control>>).kind = "control"
          BY OneStatement DEF Check, Control, Stmt
        <5>2. Last(jobs[epoch].does).kind = "file"
          BY <2>4, <3>5 DEF Does
        <5> QED
          BY <5>1, <5>2 DEF InTurn, QueryIsOut
      <4>3. QueryIs("file") /\ panel # None /\ panel.stage = "running"
            /\ jobs[epoch].does = <<File(query.file)>>
        BY <4>1, <4>2 DEF InTurn, QueryIsOut, QueryIs
      <4>4. Source(e) = query.file
        BY <2>4, <4>3, OneStatement DEF Source, File, Stmt
      <4>5. /\ IsPanel(panel) /\ panel.index \in 1..Len(panel.files)
            /\ query.file = panel.files[panel.index]
            /\ applied = Files \ Left(panel, panel.index - 1)
        BY <3>1, <4>3 DEF InTurn, PanelInTurn
      <4>6. applied' = Files \ Left(panel, panel.index)
        BY <2>1, <3>5, <4>4, <4>5, NextInTurn
      <4>7. CheckIsFresh'
        BY <1>1, <4>2 DEF CheckIsFresh, QueryIs
      <4>8. PanelInTurn'
        BY <1>1, <3>4, <4>3, <4>5, <4>6 DEF PanelInTurn, Left, IsPanel
      <4> QED
        BY <1>3, <1>5, <4>6, <4>7, <4>8 DEF InTurn
    <3>6. CASE ~(at = 0 /\ Does(e, "file"))
      <4>1. applied' = applied
        BY <2>1, <3>6
      <4>2. CheckIsFresh'
        <5>1. QueryIs("check") => Does(e, "check")
          <6>1. Last(<<Check>>).kind = "check" /\ <<Check>> # <<>>
            BY OneStatement DEF Check, Stmt
          <6>2. QueryIs("check") => jobs[e].does = <<Check>>
            BY <2>4 DEF InTurn, QueryIsOut
          <6> QED
            BY <6>1, <6>2 DEF Does
        <5> QED
          BY <1>1, <2>2, <3>3, <4>1, <5>1 DEF CheckIsFresh, QueryIs
      <4>3. panel # None /\ panel.stage = "running" => o.failed # 0
        BY <1>6, <2>2, <2>4, <3>6
      <4>4. PanelInTurn'
        BY <1>1, <3>3, <3>4, <4>1, <4>3 DEF InTurn, PanelInTurn, Left
      <4> QED
        BY <1>3, <1>5, <4>1, <4>2, <4>4 DEF InTurn
    <3> QED
      BY <3>5, <3>6
  <2> QED
    BY <2>3, <2>4
<1> QED
  BY <1>1, <1>7, <1>8 DEF Task

-----------------------------------------------------------------------------
(* A tick that routes an outcome: the submission it is of is at rest.       *)
LEMMA HeardAtRest ==
  ASSUME WorkInv, InTurn, NEW o, Hears(o)
  PROVE  /\ outbox' = {} /\ o \in outbox /\ o.epoch = epoch /\ applied' = applied
         /\ \A e \in Epochs : Does(e, "file") => jobs[e].state \notin {"running", "aborting"}
<1>1. outbox' = {} /\ o \in outbox /\ o.epoch = epoch /\ applied' = applied
  BY DEF Hears, Drained
<1>2. jobs[epoch].state = "sent"
  BY HeardIsAwaited
<1> QED
  BY <1>1, <1>2 DEF InTurn, FileIsNewest

LEMMA SettledTurns ==
  ASSUME WorkInv, InTurn, NEW o, Hears(o), Settled, query' = NoQuery,
         panel' # None => /\ IsPanel(panel') /\ panel'.stage # "running"
                          /\ panel'.stage = "listing" => applied = Files \ Left(panel', 0)
  PROVE  InTurn' /\ epoch' = epoch
<1>1. /\ outbox' = {} /\ applied' = applied /\ UNCHANGED <<epoch, jobs>>
  BY HeardAtRest DEF Settled
<1>2. FileIsNewest'
  BY <1>1 DEF InTurn, FileIsNewest, Does
<1>3. QueryIsOut' /\ CheckIsFresh'
  BY DEF QueryIsOut, CheckIsFresh, QueryIs, NoQuery, For
<1>4. PanelInTurn'
  BY <1>1 DEF PanelInTurn, IsPanel, Left
<1> QED
  BY <1>1, <1>2, <1>3, <1>4 DEF InTurn

LEMMA TickGridTurns ==
  ASSUME WorkInv, InTurn, NEW o, TickGrid(o)
  PROVE  InTurn' /\ epoch' = epoch
<1>1. Hears(o) /\ Settled /\ query = NoQuery /\ query' = NoQuery /\ panel' = panel
  BY DEF TickGrid
<1>2. panel # None => panel.stage # "running"
  BY <1>1 DEF WorkInv, NobodyWaitsForNothing, RunningPanelIsServed, QueryIs, NoQuery, For
<1> QED
  BY <1>1, <1>2, SettledTurns DEF InTurn, PanelInTurn

LEMMA TickCheckedTurns ==
  ASSUME WorkInv, InTurn, NEW o, TickChecked(o)
  PROVE  InTurn' /\ epoch' = epoch
<1>1. /\ Hears(o) /\ Settled /\ query' = NoQuery /\ QueryIs("check")
      /\ panel' = Blocked \/ panel' = Panel("listing", Unapplied(o.saw), 0)
  BY DEF TickChecked
<1>2. CASE panel' = Blocked
  BY <1>1, <1>2, BlockedIs, SettledTurns
<1>3. CASE panel' = Panel("listing", Unapplied(o.saw), 0)
  <2>1. o.saw = applied
    BY <1>1, HeardAtRest DEF InTurn, CheckIsFresh
  <2>2. /\ panel' \in Panels /\ panel'.stage = "listing"
        /\ panel'.files = Unapplied(applied) /\ panel'.files \in Seq(Files)
    BY <1>3, <2>1, UnappliedIs DEF Panel, Panels
  <2>3. IsPanel(panel')
    BY <2>2, UnappliedIs DEF IsPanel
  <2>4. Left(panel', 0) = Files \ applied
    <3>1. Left(panel', 0) = {panel'.files[i] : i \in 1..Len(panel'.files)}
      BY DEF Left
    <3> QED
      BY <2>2, <3>1, UnappliedIs
  <2>5. applied = Files \ Left(panel', 0)
    BY <2>4 DEF InTurn
  <2> QED
    BY <1>1, <2>2, <2>3, <2>5, SettledTurns
<1> QED
  BY <1>1, <1>2, <1>3

LEMMA TickEndsTurn ==
  ASSUME WorkInv, InTurn, NEW o, TickNextUnreadable(o) \/ TickRolledBack(o)
  PROVE  InTurn' /\ epoch' = epoch
<1>1. CASE TickNextUnreadable(o)
  <2>1. Hears(o) /\ Settled /\ query' = NoQuery /\ panel' = Blocked
    BY <1>1 DEF TickNextUnreadable
  <2> QED
    BY <2>1, BlockedIs, SettledTurns
<1>2. CASE TickRolledBack(o)
  <2>1. Hears(o) /\ Settled /\ query' = NoQuery /\ panel' = panel /\ QueryIs("rollback")
    BY <1>2 DEF TickRolledBack
  <2>2. panel # None => panel.stage # "running"
    BY <2>1 DEF WorkInv, NobodyWaitsForNothing, RunningPanelIsServed, QueryIs
  <2> QED
    BY <2>1, <2>2, SettledTurns DEF InTurn, PanelInTurn
<1> QED
  BY <1>1, <1>2

(* The panel goes on with another submission, which writes a file or not.   *)
LEMMA GoesOnTurns ==
  ASSUME WorkInv, InTurn, NEW o, Hears(o), NEW stmt, Start(<<stmt>>, {})
  PROVE  /\ FileIsNewest' /\ pending' /\ outbox' = {} /\ applied' = applied
         /\ jobs'[epoch'].does = <<stmt>>
<1>1. /\ epoch' = epoch + 1 /\ epoch' \in Epochs /\ pending'
      /\ jobs'[epoch'] = [does |-> <<stmt>>, state |-> "running", silenced |-> FALSE]
      /\ \A e \in Epochs \ {epoch'} : jobs'[e].does = jobs[e].does /\ jobs'[e].state = jobs[e].state
  BY StartEffect DEF WorkInv
<1>2. FileIsNewest'
  BY <1>1, HeardAtRest DEF FileIsNewest, Does
<1> QED
  BY <1>1, <1>2, HeardAtRest

LEMMA TickFileFailedTurns ==
  ASSUME WorkInv, InTurn, NEW o, TickFileFailed(o)
  PROVE  InTurn' /\ StartsInTurn
<1>1. /\ Hears(o) /\ Start(<<Control>>, {}) /\ query' = For("rollback", None)
      /\ panel' \in {Blocked, None}
  BY DEF TickFileFailed
<1>2. /\ FileIsNewest' /\ pending' /\ outbox' = {} /\ applied' = applied
      /\ jobs'[epoch'].does = <<Control>>
  BY <1>1, GoesOnTurns
<1>3. QueryIsOut' /\ CheckIsFresh'
  BY <1>1, <1>2 DEF QueryIsOut, CheckIsFresh, QueryIs, For
<1>4. PanelInTurn'
  BY <1>1, BlockedIs DEF PanelInTurn
<1>5. StartsInTurn
  <2>1. Last(<<Control>>).kind = "control" /\ \A f \in Files : Last(<<File(f)>>).kind = "file"
    BY OneStatement DEF Control, File, Stmt
  <2> QED
    BY <1>2, <2>1 DEF StartsInTurn, StartsFile
<1> QED
  BY <1>2, <1>3, <1>4, <1>5 DEF InTurn

LEMMA TickFileDoneTurns ==
  ASSUME WorkInv, InTurn, NEW o, TickFileDone(o)
  PROVE  InTurn' /\ (epoch' = epoch \/ StartsInTurn)
<1>1. Hears(o) /\ QueryIs("file") /\ o.failed = 0 /\ o \in outbox /\ o.epoch = epoch
  BY HeardAtRest DEF TickFileDone
<1>2. panel # None /\ panel.stage = "running"
  BY <1>1 DEF InTurn, QueryIsOut
<1> DEFINE k == panel.index
<1>3. /\ IsPanel(panel) /\ k \in 1..Len(panel.files)
      /\ applied = Files \ Left(panel, k)
  BY <1>1, <1>2 DEF InTurn, PanelInTurn
<1>4. panel \in Panels /\ panel.files \in Seq(Files) /\ Len(panel.files) \in Nat /\ k \in Nat
  BY <1>3, LenProperties DEF IsPanel, Panels
<1>5. CASE ~(k < Len(panel.files))
  <2>1. query' = NoQuery /\ Settled /\ panel' = [panel EXCEPT !.stage = "done"]
    BY <1>2, <1>5 DEF TickFileDone
  <2>2. panel' \in Panels /\ panel'.stage = "done" /\ panel'.files = panel.files
    BY <1>4, <2>1 DEF Panels
  <2>3. IsPanel(panel')
    BY <1>3, <2>2 DEF IsPanel
  <2> QED
    BY <1>1, <2>1, <2>2, <2>3, SettledTurns
<1>6. CASE k < Len(panel.files)
  <2> DEFINE next == panel.files[k + 1]
  <2>1. /\ query' = For("file", next) /\ Start(<<File(next)>>, {})
        /\ panel' = [panel EXCEPT !.index = @ + 1]
    BY <1>2, <1>6 DEF TickFileDone
  <2>2. /\ panel' \in Panels /\ panel'.stage = "running" /\ panel'.files = panel.files
        /\ panel'.index = k + 1
    BY <1>2, <1>4, <2>1 DEF Panels
  <2>3. IsPanel(panel') /\ panel' # None
    BY <1>3, <2>2, WorkbenchAssumption DEF IsPanel
  <2>4. k + 1 \in 1..Len(panel.files) /\ (k + 1) - 1 = k
    BY <1>3, <1>4, <1>6
  <2>5. applied = Files \ Left(panel, (k + 1) - 1)
    BY <1>3, <2>4
  <2>6. next \in Files /\ next \notin applied /\ 1..(next - 1) \subseteq applied
    BY <1>3, <2>4, <2>5, NextInTurn
  <2>7. /\ FileIsNewest' /\ pending' /\ outbox' = {} /\ applied' = applied
        /\ jobs'[epoch'].does = <<File(next)>>
    BY <1>1, <2>1, GoesOnTurns
  <2>8. applied = Files \ Left(panel', panel'.index - 1)
    BY <2>2, <2>5 DEF Left
  <2>9. query'.file = panel'.files[panel'.index] /\ panel'.index \in 1..Len(panel'.files)
    BY <2>1, <2>2, <2>4 DEF For
  <2> HIDE DEF next, k
  <2>10. QueryIsOut' /\ CheckIsFresh'
    BY <2>1, <2>2, <2>3, <2>7 DEF QueryIsOut, CheckIsFresh, QueryIs, For
  <2>11. PanelInTurn'
    BY <2>2, <2>3, <2>7, <2>8, <2>9 DEF PanelInTurn
  <2>12. StartsInTurn
    BY <2>6, <2>7, FileStarts DEF StartsInTurn, StartsFile
  <2> QED
    BY <2>7, <2>10, <2>11, <2>12 DEF InTurn
<1> QED
  BY <1>5, <1>6

(* Every step, as long as nothing is tangled.                               *)
LEMMA NextTurns ==
  ASSUME WorkInv, TurnInv, Next
  PROVE  TurnInv' /\ (epoch' = epoch \/ ~pending' \/ tangled' \/ StartsInTurn)
<1> SUFFICES ASSUME ~tangled'
             PROVE  InTurn' /\ (epoch' = epoch \/ ~pending' \/ StartsInTurn)
  BY DEF TurnInv
<1>1. InTurn
  <2>1. tangled => tangled'
    <3>1. ASSUME NEW o, Overlay(o) PROVE tangled => tangled'
      BY <3>1 DEF Overlay
    <3>2. Keys => (tangled => tangled')
      BY <3>1
      DEF Keys, RunScript, Retry, TransactionControl, Cancel, BeginEditCell, BeginDeleteRow,
          ValueEntered, RowEditCancelled, RowEditConfirmed, OpenTableDesigner,
          TableDesignerCancelled, TableDesignerConfirmed, OpenMigrations, MigrationsUnavailable,
          RunAllFiles, FileUnreadable, ClosePanel
    <3>3. Tick => (tangled => tangled')
      BY DEF Tick, TickStale, TickGrid, TickChecked, TickFileDone, TickNextUnreadable,
             TickFileFailed, TickRolledBack, Hears
    <3>4. \A e \in Epochs : Task(e) => (tangled => tangled')
      BY DEF Task, Dies, Sends
    <3> QED
      BY <3>2, <3>3, <3>4 DEF Next
  <2> QED
    BY <2>1 DEF TurnInv
<1>2. CASE \/ BeginEditCell \/ BeginDeleteRow \/ ValueEntered \/ RowEditCancelled
           \/ OpenTableDesigner \/ TableDesignerCancelled
           \/ MigrationsUnavailable \/ FileUnreadable \/ ClosePanel
  <2>1. UNCHANGED <<epoch, pending, jobs, outbox, query, applied>>
    <3>1. ASSUME NEW o, Overlay(o)
          PROVE  UNCHANGED <<epoch, pending, jobs, outbox, query, applied>>
      BY <3>1 DEF Overlay
    <3> QED
      BY <1>2, <3>1
      DEF BeginEditCell, BeginDeleteRow, ValueEntered, RowEditCancelled, OpenTableDesigner,
          TableDesignerCancelled, MigrationsUnavailable, FileUnreadable, ClosePanel
  <2>2. panel' = panel \/ (panel' \in {None, Blocked} /\ (panel = None \/ panel.stage # "running"))
    <3>1. ASSUME NEW o, Overlay(o) PROVE panel' = panel
      BY <3>1 DEF Overlay
    <3> QED
      BY <1>2, <3>1
      DEF BeginEditCell, BeginDeleteRow, ValueEntered, RowEditCancelled, OpenTableDesigner,
          TableDesignerCancelled, MigrationsUnavailable, FileUnreadable, ClosePanel, NoOverlay
  <2> QED
    BY <1>1, <2>1, <2>2, QuietTurns
<1>3. CASE \/ \E s \in Scripts : RunScript(s)
           \/ Retry \/ TransactionControl \/ RowEditConfirmed \/ TableDesignerConfirmed
  BY <1>1, <1>3, RunsTurn
<1>4. CASE OpenMigrations \/ RunAllFiles
  BY <1>1, <1>4, ChecksTurn, AllFilesTurn
<1>5. CASE Cancel
  BY <1>1, <1>5, CancelTurns
<1>6. CASE TickStale
  <2>1. /\ outbox' = {} /\ UNCHANGED <<epoch, pending, jobs, query, panel, applied>>
    BY <1>6 DEF TickStale, Drained
  <2> QED
    BY <1>1, <2>1
    DEF InTurn, FileIsNewest, QueryIsOut, CheckIsFresh, PanelInTurn, Does, QueryIs, Left
<1>7. ASSUME NEW o \in outbox,
             \/ TickGrid(o) \/ TickChecked(o) \/ TickFileDone(o)
             \/ TickNextUnreadable(o) \/ TickFileFailed(o) \/ TickRolledBack(o)
      PROVE  InTurn' /\ (epoch' = epoch \/ StartsInTurn)
  BY <1>1, <1>7, TickGridTurns, TickCheckedTurns, TickFileDoneTurns, TickEndsTurn,
     TickFileFailedTurns
<1>8. CASE \E e \in Epochs : Task(e)
  BY <1>1, <1>8, TasksTurn
<1> QED
  BY <1>2, <1>3, <1>4, <1>5, <1>6, <1>7, <1>8 DEF Next, Keys, Tick

LEMMA TurnsHold == Spec => []TurnInv
<1>1. Init => TurnInv
  <2> SUFFICES ASSUME Init PROVE InTurn
    BY DEF TurnInv
  <2>1. /\ applied = {} /\ query = NoQuery /\ panel = None
        /\ \A e \in Epochs : jobs[e] = NoJob
    BY DEF Init
  <2>2. NoJob.state = "none"
    BY DEF NoJob
  <2> QED
    BY <2>1, <2>2
    DEF InTurn, FileIsNewest, QueryIsOut, CheckIsFresh, PanelInTurn, QueryIs, NoQuery, For
<1>2. WorkInv /\ TurnInv /\ [Next]_vars => TurnInv'
  <2> SUFFICES ASSUME WorkInv, TurnInv, UNCHANGED vars PROVE TurnInv'
    BY NextTurns
  <2> QED
    BY DEF vars, TurnInv, InTurn, FileIsNewest, QueryIsOut, CheckIsFresh, PanelInTurn, Does,
           QueryIs, Left
<1> QED
  BY <1>1, <1>2, WorkCorrect, PTL DEF Spec

(* Migration files are written in the order of their versions, each after   *)
(* all before it and none twice, as long as the user does not act on a      *)
(* submission in flight (`run_migration_file`, `tick`).                     *)
THEOREM FilesAreWrittenInTurn == Spec => FilesRunInTurn
<1>1. WorkInv /\ TurnInv /\ [Next]_vars =>
        [\A f \in Files : StartsFile(f) =>
            tangled' \/ (1..(f - 1) \subseteq applied /\ f \notin applied)]_vars
  BY NextTurns DEF StartsInTurn, StartsFile
<1> QED
  BY <1>1, WorkCorrect, TurnsHold, PTL DEF Spec, FilesRunInTurn
=============================================================================
