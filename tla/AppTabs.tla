------------------------------ MODULE AppTabs ------------------------------
(***************************************************************************)
(* The tabs of the TUI (crates/tradar-app): each holds a picker and, once  *)
(* connected, a screen.  Connecting runs in a task that answers with the   *)
(* epoch of the picker and the index of the tab it was asked from; both    *)
(* are compared when the answer is drained.  Quitting saves the connected  *)
(* tabs, the next launch asks for them again.                              *)
(*                                                                         *)
(* Connections are their names; what was typed in a screen is the name of  *)
(* the connection it was typed for.  The forms, menus and confirmations of *)
(* a picker are the choices they end in.                                   *)
(***************************************************************************)
EXTENDS Naturals, Sequences, FiniteSets, FiniteSetsExt, SequencesExt, Lists

CONSTANTS
    Conns,       \* names a connection can have
    Listed,      \* connections.toml at the first launch
    Diff,        \* the title of a schema diff
    None,
    MaxTabs, MaxAttempts, MaxLaunches, MaxEdits
                 \* bounds: at a time, per launch, in all, on the
                 \* lists in all and before the last launch

Titles  == Conns \cup {Diff}
Screens == [title : Titles, text : Conns \cup {None}, by : Nat]

ASSUME AppTabsAssumption ==
    /\ Listed \in Seq(Conns) /\ IsInjective(Listed)
    /\ Diff \notin Conns /\ None \notin Titles \cup Screens
    /\ {MaxTabs, MaxAttempts, MaxLaunches} \subseteq Nat \ {0} /\ MaxEdits \in Nat

VARIABLES
    tabs, active,   \* `tabs`, `active_tab`
    known,          \* `RootComponent::connections`
    file,           \* connections.toml
    session,        \* session.toml
    restore,        \* `restore_by_tab`
    attempts,       \* connects in flight, or answered and not drained
    picking,        \* `pending_snippet`: the column picker of the navigator
    asked,          \* history: connects asked for since the launch
    launches, edits,   \* history
    moved,          \* history: a tab was closed that an attempt, or the column
                    \* picker, counted by, or left by what was picked from it
    skipped         \* history: a saved tab was not restored

vars == <<tabs, active, known, file, session, restore, attempts, picking,
          asked, launches, edits, moved, skipped>>

NoSession == [tabs |-> <<>>, active |-> 1]
Tab(conns) == [conns |-> conns, filter |-> None, epoch |-> 0, connecting |-> None,
               screen |-> None, asked |-> 0]
Screen(title, text, by) == [title |-> title, text |-> text, by |-> by]

Init ==
    /\ tabs = <<Tab(Listed)>> /\ active = 1
    /\ known = Listed /\ file = Listed
    /\ session = NoSession
    /\ restore = [i \in 1..MaxTabs |-> None]
    /\ attempts = {} /\ picking = None
    /\ asked = 0 /\ launches = 1 /\ edits = 0 /\ moved = FALSE /\ skipped = FALSE

IsActive(i) == tabs[i].screen # None     \* `ScreenSlot::Active`
OnPicker(i) == ~IsActive(i)
Here        == tabs[active]

Visible(t) == Kept(t.conns, {i \in DOMAIN t.conns : t.filter \in {None, t.conns[i]}})

Holding(c)  == {i \in DOMAIN tabs : IsActive(i) /\ tabs[i].screen.title = c}
TabFor(c)   == Min(Holding(c))            \* `tab_for_connection`

-----------------------------------------------------------------------------
(* Asking.  `open_selected` counts the epoch and says what it connects to;  *)
(* the request goes out with the index of the tab.                          *)
Asks(t, label) == [t EXCEPT !.epoch = @ + 1, !.connecting = label, !.asked = asked + 1]

Request(i, conn, epoch) ==
    /\ asked < MaxAttempts
    /\ asked' = asked + 1
    /\ attempts' = attempts \cup
           {[n |-> asked + 1, conn |-> conn, epoch |-> epoch, tab |-> i, owed |-> None]}

(* Mutant: the redirect leaves the picker saying "connecting".              *)
OpenLeftConnecting(c, force) ==
    /\ OnPicker(active) /\ Contains(Visible(Here), c)
    /\ asked < MaxAttempts
    /\ asked' = asked + 1
    /\ tabs' = [tabs EXCEPT ![active] = Asks(@, c)]
    /\ IF ~force /\ Holding(c) # {}
       THEN active' = TabFor(c) /\ UNCHANGED attempts
       ELSE Request(active, c, Here.epoch + 1) /\ UNCHANGED active
    /\ UNCHANGED <<known, file, session, restore, picking, launches, edits, moved, skipped>>

(* Enter or a double click on a row, or Ctrl-Enter.  A connection that is   *)
(* open elsewhere is shown instead.                                         *)
Open(c, force) ==
    /\ OnPicker(active) /\ Contains(Visible(Here), c)
    /\ IF ~force /\ Holding(c) # {}
       THEN /\ tabs' = [tabs EXCEPT ![active].epoch = @ + 1,
                                    ![active].connecting = None,
                                    ![active].asked = 0]
            /\ active' = TabFor(c)
            /\ asked < MaxAttempts
            /\ asked' = asked + 1
            /\ UNCHANGED attempts
       ELSE /\ tabs' = [tabs EXCEPT ![active] = Asks(@, c)]
            /\ Request(active, c, Here.epoch + 1)
            /\ UNCHANGED active
    /\ UNCHANGED <<known, file, session, restore, picking, launches, edits, moved, skipped>>

(* `open_connection`: from the navigator, in this tab if it is on its       *)
(* picker, else in a new one behind it.  The row is one of `known`, and is  *)
(* entered in what the picker lists.                                        *)
NavOpen(row) ==
    /\ row \in DOMAIN known /\ Holding(known[row]) = {}
    /\ OnPicker(active) \/ Len(tabs) < MaxTabs
    /\ LET all == IF OnPicker(active) THEN tabs ELSE Append(tabs, Tab(known))
           i   == IF OnPicker(active) THEN active ELSE Len(all)
       IN  IF row \in DOMAIN Visible(all[i])
           THEN /\ tabs' = [all EXCEPT ![i] = Asks(@, Visible(@)[row])]
                /\ Request(i, known[row], all[i].epoch + 1)
           ELSE tabs' = all /\ UNCHANGED <<attempts, asked>>
    /\ UNCHANGED <<active, known, file, session, restore, picking, launches, edits, moved, skipped>>

(* Mutant: an answer is taken by any tab of its index.                      *)
LiveInAnyEpoch(a) == a.tab \in DOMAIN tabs

(* An answer: `Opened` or `OpenFailed`.                                     *)
Live(a) == a.tab \in DOMAIN tabs /\ a.epoch = tabs[a.tab].epoch

Answered(a) ==
    /\ a \in attempts
    /\ attempts' = attempts \ {a}
    /\ UNCHANGED <<active, known, file, session, restore, picking, asked, launches, edits,
                   moved, skipped>>

Opened(a) ==
    /\ Answered(a)
    /\ tabs' = IF Live(a)
               THEN [tabs EXCEPT ![a.tab].connecting = None,
                                 ![a.tab].screen = Screen(a.conn, restore[a.tab], a.n)]
               ELSE tabs

OpenFailed(a) ==
    /\ Answered(a)
    /\ tabs' = IF Live(a) THEN [tabs EXCEPT ![a.tab].connecting = None] ELSE tabs

-----------------------------------------------------------------------------
(* Tabs.                                                                    *)
NewTab ==
    /\ Len(tabs) < MaxTabs
    /\ tabs' = Append(tabs, Tab(known))
    /\ active' = Len(tabs')
    /\ UNCHANGED <<known, file, session, restore, attempts, picking, asked, launches, edits,
                   moved, skipped>>

CloseTab ==
    /\ Len(tabs) > 1
    /\ tabs' = RemoveAt(tabs, active)
    /\ active' = Min({active, Len(tabs')})
    /\ moved' = (moved \/ (\E a \in attempts : a.tab >= active)
                       \/ (picking # None /\ picking.tab >= active))
    /\ UNCHANGED <<known, file, session, restore, attempts, picking, asked, launches, edits, skipped>>

GoToTab(i) ==   \* also the next and the previous one, a click, and a row of an open connection
    /\ i \in DOMAIN tabs \ {active}
    /\ active' = i
    /\ UNCHANGED <<tabs, known, file, session, restore, attempts, picking, asked, launches, edits,
                   moved, skipped>>

BackToPicker ==
    /\ IsActive(active)
    /\ tabs' = [tabs EXCEPT ![active].screen = None]
    /\ moved' = (moved \/ (picking # None /\ picking.tab = active))
    /\ UNCHANGED <<active, known, file, session, restore, attempts, picking, asked,
                   launches, edits, skipped>>

ShowDiff ==     \* `NavOutcome::Diff`, of two open connections
    /\ Len(tabs) < MaxTabs
    /\ Cardinality({c \in ToSet(known) : Holding(c) # {}}) > 1
    /\ tabs' = Append(tabs, [Tab(known) EXCEPT !.screen = Screen(Diff, None, 0)])
    /\ active' = Len(tabs')
    /\ UNCHANGED <<known, file, session, restore, attempts, picking, asked, launches, edits,
                   moved, skipped>>

Types ==
    /\ IsActive(active) /\ Here.screen.title # Diff
    /\ tabs' = [tabs EXCEPT ![active].screen.text = Here.screen.title]
    /\ UNCHANGED <<active, known, file, session, restore, attempts, picking, asked,
                   launches, edits, moved, skipped>>

-----------------------------------------------------------------------------
(* A snippet for a table of an open connection: its columns are picked      *)
(* first, while the tab keys still work.                                    *)
PickColumns(c) ==
    /\ picking = None /\ Contains(known, c) /\ Holding(c) # {}
    /\ picking' = [tab |-> TabFor(c), conn |-> c]
    /\ UNCHANGED <<tabs, active, known, file, session, restore, attempts, asked, launches, edits,
                   moved, skipped>>

ColumnsCancelled ==
    /\ picking # None
    /\ picking' = None
    /\ UNCHANGED <<tabs, active, known, file, session, restore, attempts, asked, launches, edits,
                   moved, skipped>>

(* Mutant: the snippet is typed into the tab on screen.                     *)
ColumnsConfirmedHere ==
    /\ picking # None
    /\ picking' = None
    /\ tabs' = IF IsActive(active) /\ Here.screen.title # Diff
               THEN [tabs EXCEPT ![active].screen.text = picking.conn]
               ELSE tabs
    /\ UNCHANGED <<active, known, file, session, restore, attempts, asked, launches,
                   edits, moved, skipped>>

ColumnsConfirmed ==
    /\ picking # None /\ picking.tab \in DOMAIN tabs
    /\ picking' = None
    /\ active' = picking.tab
    /\ tabs' = IF IsActive(picking.tab) /\ tabs[picking.tab].screen.title # Diff
               THEN [tabs EXCEPT ![picking.tab].screen.text = picking.conn]
               ELSE tabs
    /\ UNCHANGED <<known, file, session, restore, attempts, asked, launches, edits, moved, skipped>>

-----------------------------------------------------------------------------
(* A picker edits its own list and saves all of it.                         *)
Edits == launches < MaxLaunches /\ edits < MaxEdits /\ edits' = edits + 1

Saves(conns) ==
    /\ Edits
    /\ tabs' = [tabs EXCEPT ![active].conns = conns]
    /\ file' = conns
    /\ UNCHANGED <<active, known, session, restore, attempts, picking, asked, launches,
                   moved, skipped>>

AddConnection(c) ==     \* the filter is cleared
    /\ OnPicker(active) /\ ~Contains(Here.conns, c) /\ Edits
    /\ tabs' = [tabs EXCEPT ![active].conns = Append(@, c), ![active].filter = None]
    /\ file' = Append(Here.conns, c)
    /\ UNCHANGED <<active, known, session, restore, attempts, picking, asked, launches,
                   moved, skipped>>

RenameConnection(c, d) ==
    /\ OnPicker(active) /\ Contains(Visible(Here), c) /\ ~Contains(Here.conns, d)
    /\ Saves(ReplaceAll(Here.conns, c, d))

DeleteConnection(c) ==
    /\ OnPicker(active) /\ Contains(Visible(Here), c)
    /\ \E i \in DOMAIN Here.conns : Here.conns[i] = c /\ Saves(RemoveAt(Here.conns, i))

Filter(f) ==
    /\ OnPicker(active) /\ f # Here.filter /\ Edits
    /\ tabs' = [tabs EXCEPT ![active].filter = f]
    /\ UNCHANGED <<active, known, file, session, restore, attempts, picking, asked,
                   launches, moved, skipped>>

-----------------------------------------------------------------------------
(* `session_state_of`, and the next launch: `restore_tabs`, which skips     *)
(* what is no longer listed, and `restore_by_tab`, which does not.          *)
SessionState ==
    LET titled == {i \in DOMAIN tabs : IsActive(i)}
    IN  [tabs   |-> [k \in 1..Cardinality(titled) |->
                        [conn |-> tabs[Nth(titled, k)].screen.title,
                         text |-> tabs[Nth(titled, k)].screen.text]],
         active |-> IF IsActive(active) THEN Cardinality({i \in titled : i <= active})
                    ELSE 1]

RestoreTabs(s) == Kept(s.tabs, {i \in DOMAIN s.tabs : Contains(file, s.tabs[i].conn)})

TextOf(texts) == [i \in 1..MaxTabs |-> IF i \in DOMAIN texts THEN texts[i] ELSE None]
Texts(s)      == [i \in DOMAIN s.tabs |-> s.tabs[i].text]

(* Mutant: the tabs with a text are counted, not all of them.               *)
RestoreByText(s) == TextOf(Kept(Texts(s), {i \in DOMAIN Texts(s) : Texts(s)[i] # None}))

RestoreByTab(s) == TextOf(Texts(s))

Launch(s) ==
    /\ launches < MaxLaunches
    /\ launches' = launches + 1
    /\ session' = s /\ known' = file /\ picking' = None
    /\ LET back == RestoreTabs(s) IN
       /\ tabs' = IF back = <<>> THEN <<Tab(file)>>
                  ELSE [i \in DOMAIN back |->
                            [Tab(file) EXCEPT !.epoch = 1, !.asked = i,
                                              !.connecting = back[i].conn]]
       /\ attempts' = {[n |-> i, conn |-> back[i].conn, epoch |-> 1, tab |-> i,
                        owed |-> back[i]] : i \in DOMAIN back}
       /\ asked' = Len(back)
       /\ active' = IF back = <<>> THEN 1 ELSE Min({s.active, Len(back)})
       /\ skipped' = (back # s.tabs)
    /\ restore' = RestoreByTab(s)
    /\ moved' = FALSE
    /\ UNCHANGED <<file, edits>>

Quit  == Launch(SessionState)
Crash == Launch(session)

(* `self.tabs[tab]` of a tab that is gone.                                  *)
Panic == picking # None /\ picking.tab \notin DOMAIN tabs /\ Crash

Next == \/ \E c \in Conns : \/ \E force \in BOOLEAN : Open(c, force)
                            \/ PickColumns(c)
                            \/ AddConnection(c) \/ DeleteConnection(c)
                            \/ \E d \in Conns : RenameConnection(c, d)
        \/ \E row \in DOMAIN known : NavOpen(row)
        \/ \E a \in attempts : Opened(a) \/ OpenFailed(a)
        \/ NewTab \/ CloseTab \/ BackToPicker \/ ShowDiff \/ Types
        \/ \E i \in DOMAIN tabs : GoToTab(i)
        \/ ColumnsCancelled \/ ColumnsConfirmed
        \/ \E f \in Conns \cup {None} : Filter(f)
        \/ Quit \/ Crash \/ Panic

Spec == Init /\ [][Next]_vars

-----------------------------------------------------------------------------
(* A tab shows the connection it asked for last, from the very connect it   *)
(* asked for: what a newer request replaced is never shown.                 *)
(* The code does not keep it: README.md, "What the code does not keep".     *)
OpensWhereAsked ==
    \A i \in DOMAIN tabs : IsActive(i) /\ tabs[i].screen.title # Diff
                            => tabs[i].screen.by = tabs[i].asked

OpensWhereAskedUnlessMoved == moved \/ OpensWhereAsked

(* A picker that says "connecting" will be told how that ended.             *)
ConnectingIsServed ==
    moved \/ \A i \in DOMAIN tabs : tabs[i].connecting # None
                => \E a \in attempts : Live(a) /\ a.tab = i /\ a.n = tabs[i].asked

(* A restored tab opens with what was typed in it.                          *)
RestoredTextIsItsOwn ==
    [][\A a \in attempts : \A i \in DOMAIN tabs' :
          a.owed # None /\ tabs'[i].screen # None /\ tabs'[i].screen.by = a.n
             /\ OnPicker(i)
          => moved \/ skipped \/ tabs'[i].screen.text = a.owed.text]_vars

(* "What each restored tab had in its editor last time, by tab index": said *)
(* of every session, also one of which a tab is not restored.               *)
(* The code does not keep it: README.md, "What the code does not keep".     *)
EveryTextIsRestored ==
    [][\A a \in attempts : \A i \in DOMAIN tabs' :
          a.owed # None /\ tabs'[i].screen # None /\ tabs'[i].screen.by = a.n
             /\ OnPicker(i)
          => moved \/ tabs'[i].screen.text = a.owed.text]_vars

(* A snippet is typed where its table is.                                   *)
SnippetsGoToTheirConnection ==
    [][ColumnsConfirmed /\ ~moved =>
          tabs'[active'].screen # None /\ tabs'[active'].screen.title = picking.conn]_vars
=============================================================================
