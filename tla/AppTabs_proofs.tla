--------------------------- MODULE AppTabs_proofs ---------------------------
(***************************************************************************)
(* Why an answer finds the tab that asked: the number of the last connect  *)
(* a tab asked for goes with its epoch, no two attempts share a number,    *)
(* and as long as no tab below it is closed an index is a tab.             *)
(***************************************************************************)
EXTENDS AppTabs, Lists_proofs, FiniteSetTheorems, SequenceTheorems, TLAPS

Saved    == [conn : Titles, text : Conns \cup {None}]
Attempts == [n : Nat, conn : Conns, epoch : Nat, tab : Nat, owed : Saved \cup {None}]
Tabs     == [conns : Seq(Conns), filter : Conns \cup {None}, epoch : Nat,
             connecting : Conns \cup {None}, screen : Screens \cup {None}, asked : Nat]

Typed ==
    /\ tabs \in Seq(Tabs) /\ Len(tabs) \in 1..MaxTabs /\ active \in DOMAIN tabs
    /\ known \in Seq(Conns) /\ file \in Seq(Conns)
    /\ session \in [tabs : Seq(Saved), active : Nat \ {0}] /\ Len(session.tabs) <= MaxTabs
    /\ restore \in [1..MaxTabs -> Conns \cup {None}]
    /\ attempts \subseteq Attempts
    /\ picking \in [tab : Nat, conn : Conns] \cup {None}
    /\ asked \in Nat /\ moved \in BOOLEAN

(* Each connect has a number, and a screen keeps the one it came from: it   *)
(* is of no connect that is still out.                                      *)
Numbered ==
    /\ \A a \in attempts : a.n \in 1..asked /\ a.epoch > 0
    /\ \A a, b \in attempts : a.n = b.n => a = b
    /\ \A i \in DOMAIN tabs : IsActive(i) =>
          tabs[i].screen.by <= asked /\ \A a \in attempts : a.n # tabs[i].screen.by

(* A connect that is out names a tab, and is the one that tab asked for     *)
(* last unless the epoch went on.                                           *)
Placed ==
    moved \/ \A a \in attempts :
        /\ a.tab \in DOMAIN tabs
        /\ a.epoch <= tabs[a.tab].epoch
        /\ Live(a) => OnPicker(a.tab) /\ a.n = tabs[a.tab].asked

(* What a restored connect is owed is kept by its index.                    *)
TextKept ==
    \A a \in attempts : a.owed # None =>
        skipped \/ (a.tab \in 1..MaxTabs /\ restore[a.tab] = a.owed.text)

(* The column picker is over a tab that shows its connection.               *)
PickedHere ==
    picking # None => moved \/ (/\ picking.tab \in DOMAIN tabs
                                /\ IsActive(picking.tab)
                                /\ tabs[picking.tab].screen.title = picking.conn)

TabsInv == Typed /\ Numbered /\ Placed /\ TextKept /\ PickedHere
             /\ OpensWhereAskedUnlessMoved /\ ConnectingIsServed

-----------------------------------------------------------------------------
(* Lemmas about the lists.                                                  *)

(* A list with one place set, and with one more.                            *)
LEMMA TabSet ==
  ASSUME NEW s \in Seq(Tabs), NEW i \in DOMAIN s, NEW t \in Tabs
  PROVE  /\ [s EXCEPT ![i] = t] \in Seq(Tabs)
         /\ Len([s EXCEPT ![i] = t]) = Len(s)
         /\ DOMAIN [s EXCEPT ![i] = t] = DOMAIN s
         /\ \A j \in DOMAIN s : [s EXCEPT ![i] = t][j] = IF j = i THEN t ELSE s[j]
<1> QED
  BY LenProperties, ElementOfSeq, ExceptSeq

LEMMA TabAdded ==
  ASSUME NEW s \in Seq(Tabs), NEW t \in Tabs
  PROVE  /\ Append(s, t) \in Seq(Tabs)
         /\ Len(Append(s, t)) = Len(s) + 1
         /\ DOMAIN s = 1..Len(s) /\ Len(s) \in Nat
         /\ DOMAIN Append(s, t) = 1..(Len(s) + 1)
         /\ \A j \in DOMAIN s : Append(s, t)[j] = s[j]
         /\ Append(s, t)[Len(s) + 1] = t
<1> QED
  BY LenProperties, AppendProperties

LEMMA TabIn == ASSUME NEW conns \in Seq(Conns) PROVE Tab(conns) \in Tabs
  BY DEF Tab, Tabs

LEMMA NoScreen == None \notin Conns /\ None # Diff /\ None \notin Screens /\ Diff \notin Conns
  BY AppTabsAssumption DEF Titles

-----------------------------------------------------------------------------
(* The initial state.                                                       *)
LEMMA InitTabs == Init => TabsInv
<1> SUFFICES ASSUME Init PROVE TabsInv
  OBVIOUS
<1>1. Listed \in Seq(Conns) /\ MaxTabs \in Nat \ {0}
  BY AppTabsAssumption
<1>2. Tab(Listed) \in Tabs /\ Tab(Listed).screen = None /\ Tab(Listed).connecting = None
  BY <1>1, TabIn DEF Tab
<1>3. tabs = <<Tab(Listed)>> /\ tabs \in Seq(Tabs) /\ Len(tabs) = 1 /\ DOMAIN tabs = {1}
      /\ tabs[1] = Tab(Listed)
  <2>1. tabs = <<Tab(Listed)>>
    BY DEF Init
  <2> HIDE DEF Init
  <2> QED
    BY <1>2, <2>1
<1>4. Typed
  <2>1. session \in [tabs : Seq(Saved), active : Nat \ {0}] /\ Len(session.tabs) = 0
    <3>1. session = [tabs |-> <<>>, active |-> 1]
      BY DEF Init, NoSession
    <3>2. <<>> \in Seq(Saved) /\ Len(<<>>) = 0
      BY EmptySeq
    <3> QED
      BY <3>1, <3>2
  <2>2. /\ known \in Seq(Conns) /\ file \in Seq(Conns)
        /\ restore \in [1..MaxTabs -> Conns \cup {None}]
        /\ attempts \subseteq Attempts
        /\ picking \in [tab : Nat, conn : Conns] \cup {None}
        /\ asked \in Nat /\ moved \in BOOLEAN /\ active = 1
    BY <1>1 DEF Init
  <2> QED
    BY <1>1, <1>3, <2>1, <2>2 DEF Typed
<1>5. attempts = {} /\ picking = None
  BY DEF Init
<1>6. Numbered /\ Placed /\ TextKept /\ PickedHere
  BY <1>2, <1>3, <1>5 DEF Numbered, Placed, TextKept, PickedHere, IsActive
<1>7. OpensWhereAskedUnlessMoved /\ ConnectingIsServed
  BY <1>2, <1>3 DEF OpensWhereAskedUnlessMoved, OpensWhereAsked, ConnectingIsServed, IsActive
<1> QED
  BY <1>4, <1>6, <1>7 DEF TabsInv

-----------------------------------------------------------------------------
(* Steps that leave what was asked alone: every tab keeps its epoch and the *)
(* connect it shows, a tab that is added waits for none.                    *)
Like(t, u) ==
    /\ u.epoch = t.epoch /\ u.asked = t.asked /\ u.connecting = t.connecting
    /\ u.screen = None <=> t.screen = None
    /\ t.screen # None => u.screen.by = t.screen.by /\ u.screen.title = t.screen.title

Blank(u) ==
    u.connecting = None /\ (u.screen # None => u.screen.title = Diff /\ u.screen.by = 0)

Quiet ==
    /\ \A i \in DOMAIN tabs : i \in DOMAIN tabs' /\ Like(tabs[i], tabs'[i])
    /\ \A i \in DOMAIN tabs' \ DOMAIN tabs : Blank(tabs'[i])
    /\ UNCHANGED <<attempts, asked, restore, skipped, moved>>

LEMMA QuietKeeps ==
  ASSUME TabsInv, Quiet
  PROVE  /\ Numbered' /\ Placed' /\ TextKept' /\ OpensWhereAskedUnlessMoved'
         /\ ConnectingIsServed'
         /\ picking' \in {picking, None} => PickedHere'
<1> USE DEF TabsInv
<1>1. Numbered'
  <2>1. ASSUME NEW i \in DOMAIN tabs', tabs'[i].screen # None
        PROVE  /\ tabs'[i].screen.by <= asked
               /\ \A a \in attempts : a.n # tabs'[i].screen.by
    <3>1. CASE i \in DOMAIN tabs
      BY <2>1, <3>1 DEF Numbered, Quiet, Like, IsActive
    <3>2. CASE i \notin DOMAIN tabs
      <4>1. tabs'[i].screen.by = 0
        BY <2>1, <3>2 DEF Quiet, Blank
      <4> QED
        BY <4>1 DEF Numbered, Typed
    <3> QED
      BY <3>1, <3>2
  <2> QED
    BY <2>1 DEF Numbered, Quiet, IsActive
<1>2. Placed'
  BY DEF Placed, Quiet, Like, Live, IsActive, OnPicker
<1>3. TextKept'
  BY DEF TextKept, Quiet
<1>4. OpensWhereAskedUnlessMoved'
  BY DEF OpensWhereAskedUnlessMoved, OpensWhereAsked, Quiet, Like, Blank, IsActive
<1>5. ConnectingIsServed'
  <2>1. ASSUME NEW i \in DOMAIN tabs', tabs'[i].connecting # None, ~moved
        PROVE  \E a \in attempts : a.tab \in DOMAIN tabs' /\ a.epoch = tabs'[a.tab].epoch
                                     /\ a.tab = i /\ a.n = tabs'[i].asked
    <3>1. i \in DOMAIN tabs /\ Like(tabs[i], tabs'[i])
      BY <2>1 DEF Quiet, Blank
    <3>2. PICK a \in attempts : Live(a) /\ a.tab = i /\ a.n = tabs[i].asked
      BY <2>1, <3>1 DEF ConnectingIsServed, Like
    <3> QED
      BY <3>1, <3>2 DEF Like, Live
  <2> QED
    BY <2>1 DEF ConnectingIsServed, Live, Quiet
<1>6. ASSUME picking' \in {picking, None} PROVE PickedHere'
  BY <1>6 DEF PickedHere, Quiet, Like, IsActive
<1> QED
  BY <1>1, <1>2, <1>3, <1>4, <1>5, <1>6

LEMMA TypedFacts ==
  ASSUME Typed
  PROVE  /\ DOMAIN tabs = 1..Len(tabs) /\ Len(tabs) \in Nat \ {0} /\ MaxTabs \in Nat \ {0}
         /\ \A i \in DOMAIN tabs : tabs[i] \in Tabs
         /\ active \in DOMAIN tabs /\ Here \in Tabs
<1> QED
  BY AppTabsAssumption, LenProperties, ElementOfSeq DEF Typed, Here

LEMMA HoldingIs ==
  ASSUME Typed, NEW c, Holding(c) # {}
  PROVE  TabFor(c) \in DOMAIN tabs /\ IsActive(TabFor(c)) /\ tabs[TabFor(c)].screen.title = c
<1>1. Holding(c) \in SUBSET Nat
  BY TypedFacts DEF Holding
<1>2. TabFor(c) \in Holding(c)
  BY <1>1, MinIsIn DEF TabFor
<1> QED
  BY <1>2 DEF Holding

(* A tab whose own list, filter or text is changed.                         *)
LEMMA TabChanges ==
  ASSUME TabsInv, NEW i \in DOMAIN tabs, NEW t \in Tabs, Like(tabs[i], t),
         tabs' = [tabs EXCEPT ![i] = t],
         UNCHANGED <<attempts, asked, restore, skipped, moved>>
  PROVE  /\ tabs' \in Seq(Tabs) /\ Len(tabs') = Len(tabs) /\ DOMAIN tabs' = DOMAIN tabs
         /\ Quiet
<1>1. /\ tabs' \in Seq(Tabs) /\ Len(tabs') = Len(tabs) /\ DOMAIN tabs' = DOMAIN tabs
      /\ \A j \in DOMAIN tabs : tabs'[j] = IF j = i THEN t ELSE tabs[j]
  BY TabSet DEF TabsInv, Typed
<1> QED
  BY <1>1 DEF Quiet, Like

LEMMA TabAppears ==
  ASSUME TabsInv, NEW t \in Tabs, Blank(t),
         tabs' = Append(tabs, t),
         UNCHANGED <<attempts, asked, restore, skipped, moved>>
  PROVE  /\ tabs' \in Seq(Tabs) /\ Len(tabs') = Len(tabs) + 1
         /\ Len(tabs') \in DOMAIN tabs'
         /\ Quiet
<1>1. /\ tabs' \in Seq(Tabs) /\ Len(tabs') = Len(tabs) + 1
      /\ DOMAIN tabs = 1..Len(tabs) /\ Len(tabs) \in Nat
      /\ DOMAIN tabs' = 1..(Len(tabs) + 1)
      /\ \A j \in DOMAIN tabs : tabs'[j] = tabs[j]
      /\ tabs'[Len(tabs) + 1] = t
  BY TabAdded DEF TabsInv, Typed
<1>2. \A i \in DOMAIN tabs' \ DOMAIN tabs : i = Len(tabs) + 1
  BY <1>1
<1> QED
  BY <1>1, <1>2 DEF Quiet, Like

LEMMA ConnsKept ==
  ASSUME NEW s \in Seq(Conns)
  PROVE  /\ \A c \in Conns : Append(s, c) \in Seq(Conns)
         /\ \A c, d \in Conns : ReplaceAll(s, c, d) \in Seq(Conns)
         /\ \A i \in DOMAIN s : RemoveAt(s, i) \in Seq(Conns)
<1>1. Len(s) \in Nat /\ DOMAIN s = 1..Len(s) /\ \A i \in 1..Len(s) : s[i] \in Conns
  BY LenProperties, ElementOfSeq
<1>2. \A c \in Conns : Append(s, c) \in Seq(Conns)
  BY AppendProperties
<1>3. ASSUME NEW c \in Conns, NEW d \in Conns PROVE ReplaceAll(s, c, d) \in Seq(Conns)
  BY <1>1 DEF ReplaceAll
<1>4. \A i \in DOMAIN s : RemoveAt(s, i) \in Seq(Conns)
  BY <1>1, RemoveAtProperties
<1> QED
  BY <1>2, <1>3, <1>4

-----------------------------------------------------------------------------
(* The steps that are quiet, one by one.                                    *)
LEMMA ListsAreQuiet ==
  ASSUME TabsInv,
         \/ \E c \in Conns : \/ AddConnection(c) \/ DeleteConnection(c)
                             \/ \E d \in Conns : RenameConnection(c, d)
         \/ \E f \in Conns \cup {None} : Filter(f)
  PROVE  Typed' /\ Quiet /\ picking' = picking
<1>0. Typed /\ Here \in Tabs /\ active \in DOMAIN tabs /\ tabs[active] = Here
  BY TypedFacts DEF TabsInv, Here
<1>1. PICK conns \in Seq(Conns), f \in Conns \cup {None} :
        /\ tabs' = [tabs EXCEPT ![active] = [Here EXCEPT !.conns = conns, !.filter = f]]
        /\ file' \in {file, conns}
        /\ UNCHANGED <<active, known, session, restore, attempts, picking, asked, moved, skipped>>
  <2>0. Here.conns \in Seq(Conns) /\ Here.filter \in Conns \cup {None}
        /\ Here = [Here EXCEPT !.conns = Here.conns, !.filter = Here.filter]
    BY <1>0 DEF Tabs
  <2>1. ASSUME NEW c \in Conns, AddConnection(c)
        PROVE  /\ tabs' = [tabs EXCEPT ![active] = [Here EXCEPT !.conns = Append(Here.conns, c), !.filter = None]]
               /\ Append(Here.conns, c) \in Seq(Conns)
               /\ file' = Append(Here.conns, c)
               /\ UNCHANGED <<active, known, session, restore, attempts, picking, asked, moved, skipped>>
    <3>1. tabs' = [tabs EXCEPT ![active].conns = Append(@, c), ![active].filter = None]
      BY <2>1 DEF AddConnection
    <3>2. tabs' = [tabs EXCEPT ![active] = [Here EXCEPT !.conns = Append(Here.conns, c), !.filter = None]]
      BY <1>0, <3>1
    <3> QED
      BY <2>0, <2>1, <3>2, ConnsKept DEF AddConnection
  <2>2. ASSUME NEW conns \in Seq(Conns), Saves(conns)
        PROVE  /\ tabs' = [tabs EXCEPT ![active] = [Here EXCEPT !.conns = conns, !.filter = Here.filter]]
               /\ file' = conns
               /\ UNCHANGED <<active, known, session, restore, attempts, picking, asked, moved, skipped>>
    <3>1. [Here EXCEPT !.conns = conns, !.filter = Here.filter] = [Here EXCEPT !.conns = conns]
      BY <1>0 DEF Tabs
    <3>2. tabs' = [tabs EXCEPT ![active] = [Here EXCEPT !.conns = conns]]
      BY <2>2 DEF Saves, Here
    <3> QED
      BY <2>2, <3>1, <3>2 DEF Saves
  <2>3. ASSUME NEW f \in Conns \cup {None}, Filter(f)
        PROVE  /\ tabs' = [tabs EXCEPT ![active] = [Here EXCEPT !.conns = Here.conns, !.filter = f]]
               /\ file' = file
               /\ UNCHANGED <<active, known, session, restore, attempts, picking, asked, moved, skipped>>
    <3>1. [Here EXCEPT !.conns = Here.conns, !.filter = f] = [Here EXCEPT !.filter = f]
      BY <1>0 DEF Tabs
    <3>2. tabs' = [tabs EXCEPT ![active] = [Here EXCEPT !.filter = f]]
      BY <2>3 DEF Filter, Here
    <3> QED
      BY <2>3, <3>1, <3>2 DEF Filter
  <2>4. CASE \E c \in Conns : AddConnection(c)
    BY <2>1, <2>4
  <2>5. CASE \E c \in Conns : DeleteConnection(c)
    <3>1. PICK c \in Conns : DeleteConnection(c)
      BY <2>5
    <3>2. PICK i \in DOMAIN Here.conns : Saves(RemoveAt(Here.conns, i))
      BY <3>1 DEF DeleteConnection
    <3>3. RemoveAt(Here.conns, i) \in Seq(Conns)
      BY <2>0, ConnsKept
    <3> QED
      BY <2>0, <2>2, <3>2, <3>3
  <2>6. CASE \E c, d \in Conns : RenameConnection(c, d)
    <3>1. PICK c \in Conns, d \in Conns : RenameConnection(c, d)
      BY <2>6
    <3>2. Saves(ReplaceAll(Here.conns, c, d)) /\ ReplaceAll(Here.conns, c, d) \in Seq(Conns)
      BY <2>0, <3>1, ConnsKept DEF RenameConnection
    <3> QED
      BY <2>0, <2>2, <3>2
  <2>7. CASE \E f \in Conns \cup {None} : Filter(f)
    BY <2>0, <2>3, <2>7
  <2> QED
    BY <2>4, <2>5, <2>6, <2>7
<1> DEFINE t == [Here EXCEPT !.conns = conns, !.filter = f]
<1>2. t \in Tabs /\ Like(tabs[active], t)
  BY <1>0 DEF Tabs, Like
<1> HIDE DEF t
<1>3. /\ tabs' \in Seq(Tabs) /\ Len(tabs') = Len(tabs) /\ DOMAIN tabs' = DOMAIN tabs
      /\ Quiet
  BY <1>0, <1>1, <1>2, TabChanges DEF t
<1>4. Typed'
  BY <1>0, <1>1, <1>3 DEF Typed
<1> QED
  BY <1>1, <1>3, <1>4

LEMMA TabsAreQuiet ==
  ASSUME TabsInv, NewTab \/ ShowDiff \/ \E i \in DOMAIN tabs : GoToTab(i)
  PROVE  Typed' /\ Quiet /\ picking' = picking
<1>0. Typed /\ MaxTabs \in Nat /\ Len(tabs) \in Nat \ {0}
  BY TypedFacts DEF TabsInv
<1>1. ASSUME NEW t \in Tabs, Blank(t), Len(tabs) < MaxTabs,
             tabs' = Append(tabs, t), active' = Len(tabs'),
             UNCHANGED <<known, file, session, restore, attempts, picking, asked, moved, skipped>>
      PROVE  Typed' /\ Quiet
  <2>1. /\ tabs' \in Seq(Tabs) /\ Len(tabs') = Len(tabs) + 1
        /\ Len(tabs') \in DOMAIN tabs' /\ Quiet
    BY <1>1, TabAppears
  <2>2. Len(tabs') \in 1..MaxTabs
    BY <1>0, <1>1, <2>1
  <2> QED
    BY <1>0, <1>1, <2>1, <2>2 DEF Typed
<1>2. CASE NewTab
  <2>1. Tab(known) \in Tabs /\ Blank(Tab(known))
    BY <1>0, TabIn DEF Typed, Tab, Blank
  <2> QED
    BY <1>1, <1>2, <2>1 DEF NewTab
<1>3. CASE ShowDiff
  <2> DEFINE t == [Tab(known) EXCEPT !.screen = Screen(Diff, None, 0)]
  <2>1. Screen(Diff, None, 0) \in Screens
    BY DEF Screen, Screens, Titles
  <2>2. Tab(known) \in Tabs /\ Tab(known).connecting = None
    BY <1>0, TabIn DEF Typed, Tab
  <2>3. t \in Tabs /\ t.connecting = None /\ t.screen = Screen(Diff, None, 0)
    BY <2>1, <2>2 DEF Tabs
  <2>4. Blank(t)
    BY <2>3 DEF Blank, Screen
  <2>5. /\ Len(tabs) < MaxTabs /\ tabs' = Append(tabs, t) /\ active' = Len(tabs')
        /\ UNCHANGED <<known, file, session, restore, attempts, picking, asked, moved, skipped>>
    BY <1>3 DEF ShowDiff
  <2> HIDE DEF t
  <2> QED
    BY <1>1, <2>3, <2>4, <2>5
<1>4. CASE \E i \in DOMAIN tabs : GoToTab(i)
  BY <1>0, <1>4 DEF GoToTab, Typed, Quiet, Like
<1> QED
  BY <1>2, <1>3, <1>4 DEF NewTab, ShowDiff, GoToTab

(* What a screen says is not what it is.                                    *)
LEMMA TextIsQuiet ==
  ASSUME TabsInv, NEW i \in DOMAIN tabs, IsActive(i), NEW x \in Conns,
         tabs' = [tabs EXCEPT ![i].screen.text = x],
         UNCHANGED <<attempts, asked, restore, skipped, moved>>
  PROVE  /\ tabs' \in Seq(Tabs) /\ Len(tabs') = Len(tabs) /\ DOMAIN tabs' = DOMAIN tabs
         /\ Quiet
<1> DEFINE s == [tabs[i].screen EXCEPT !.text = x]
           t == [tabs[i] EXCEPT !.screen = s]
<1>1. tabs[i] \in Tabs /\ tabs[i].screen \in Screens
  BY TypedFacts DEF TabsInv, Tabs, IsActive
<1>2. s \in Screens /\ s.by = tabs[i].screen.by /\ s.title = tabs[i].screen.title
  BY <1>1 DEF Screens
<1>3. s # None
  BY <1>2, NoScreen
<1>4. tabs' = [tabs EXCEPT ![i] = t]
  OBVIOUS
<1> HIDE DEF s
<1>5. t \in Tabs /\ Like(tabs[i], t)
  BY <1>1, <1>2, <1>3 DEF Tabs, Like, IsActive
<1> HIDE DEF t
<1> QED
  BY <1>4, <1>5, TabChanges

LEMMA TextsAreQuiet ==
  ASSUME TabsInv, Types \/ ColumnsConfirmed \/ ColumnsCancelled \/ \E c \in Conns : PickColumns(c)
  PROVE  Typed' /\ Quiet
<1>0. Typed /\ active \in DOMAIN tabs /\ tabs[active] = Here
      /\ \A i \in DOMAIN tabs : i \in Nat
  BY TypedFacts DEF TabsInv, Here
<1>1. ASSUME NEW i \in DOMAIN tabs, IsActive(i), NEW x \in Conns,
             tabs' = [tabs EXCEPT ![i].screen.text = x], active' \in DOMAIN tabs,
             picking' \in {picking, None},
             UNCHANGED <<known, file, session, restore, attempts, asked, moved, skipped>>
      PROVE  Typed' /\ Quiet
  <2>1. /\ tabs' \in Seq(Tabs) /\ Len(tabs') = Len(tabs) /\ DOMAIN tabs' = DOMAIN tabs
        /\ Quiet
    BY <1>1, TextIsQuiet
  <2> QED
    BY <1>0, <1>1, <2>1 DEF Typed
<1>2. ASSUME tabs' = tabs, active' \in DOMAIN tabs,
             picking' \in [tab : Nat, conn : Conns] \cup {None},
             UNCHANGED <<known, file, session, restore, attempts, asked, moved, skipped>>
      PROVE  Typed' /\ Quiet
  BY <1>0, <1>2 DEF Typed, Quiet, Like
<1>3. CASE Types
  <2>1. IsActive(active) /\ Here.screen.title \in Conns
    <3>1. Here \in Tabs /\ IsActive(active) /\ Here.screen.title # Diff
      BY <1>0, <1>3, TypedFacts DEF Types
    <3>2. Here.screen \in Screens
      BY <1>0, <3>1 DEF Tabs, IsActive
    <3> QED
      BY <3>1, <3>2 DEF Screens, Titles
  <2> QED
    BY <1>0, <1>1, <1>3, <2>1 DEF Types
<1>4. CASE ColumnsConfirmed
  <2>1. picking.tab \in DOMAIN tabs /\ picking.conn \in Conns
    BY <1>0, <1>4 DEF ColumnsConfirmed, Typed
  <2>2. /\ active' = picking.tab /\ picking' = None
        /\ UNCHANGED <<known, file, session, restore, attempts, asked, moved, skipped>>
    BY <1>4 DEF ColumnsConfirmed
  <2>3. CASE IsActive(picking.tab) /\ tabs[picking.tab].screen.title # Diff
    <3>1. tabs' = [tabs EXCEPT ![picking.tab].screen.text = picking.conn]
      BY <1>4, <2>3 DEF ColumnsConfirmed
    <3> QED
      BY <1>1, <2>1, <2>2, <2>3, <3>1
  <2>4. CASE ~(IsActive(picking.tab) /\ tabs[picking.tab].screen.title # Diff)
    <3>1. tabs' = tabs
      BY <1>4, <2>4 DEF ColumnsConfirmed
    <3> QED
      BY <1>2, <2>1, <2>2, <3>1
  <2> QED
    BY <2>3, <2>4
<1>5. CASE ColumnsCancelled
  BY <1>0, <1>2, <1>5 DEF ColumnsCancelled
<1>6. CASE \E c \in Conns : PickColumns(c)
  <2>1. PICK c \in Conns : PickColumns(c)
    BY <1>6
  <2>2. TabFor(c) \in Nat
    BY <1>0, <2>1, HoldingIs DEF PickColumns
  <2> QED
    BY <1>0, <1>2, <2>1, <2>2 DEF PickColumns
<1> QED
  BY <1>3, <1>4, <1>5, <1>6

LEMMA PicksHere ==
  ASSUME TabsInv, Types \/ ColumnsConfirmed \/ ColumnsCancelled \/ \E c \in Conns : PickColumns(c)
  PROVE  PickedHere'
<1>1. Quiet
  BY TextsAreQuiet
<1>2. CASE Types \/ ColumnsConfirmed \/ ColumnsCancelled
  BY <1>1, <1>2, QuietKeeps DEF Types, ColumnsConfirmed, ColumnsCancelled
<1>3. CASE \E c \in Conns : PickColumns(c)
  <2>1. PICK c \in Conns : PickColumns(c)
    BY <1>3
  <2>2. TabFor(c) \in DOMAIN tabs /\ IsActive(TabFor(c)) /\ tabs[TabFor(c)].screen.title = c
    BY <2>1, HoldingIs DEF PickColumns, TabsInv
  <2> QED
    BY <2>1, <2>2 DEF PickColumns, PickedHere, IsActive
<1> QED
  BY <1>2, <1>3

-----------------------------------------------------------------------------
(* Asking: the epoch of one tab goes on, and the number is a new one.  A    *)
(* tab that is added for it comes after all of them.                        *)
AsksOf(i, a) ==
    /\ i \in DOMAIN tabs' /\ tabs'[i].screen = None
    /\ i \in DOMAIN tabs => OnPicker(i) /\ tabs'[i].epoch = tabs[i].epoch + 1
    /\ \A j \in DOMAIN tabs \ {i} : j \in DOMAIN tabs' /\ tabs'[j] = tabs[j]
    /\ DOMAIN tabs' \subseteq DOMAIN tabs \cup {i}
    /\ asked' = asked + 1 /\ tabs'[i].epoch \in Nat \ {0}
    /\ \/ /\ attempts' = attempts \cup {a}
          /\ a.n = asked + 1 /\ a.tab = i /\ a.epoch = tabs'[i].epoch /\ a.owed = None
          /\ tabs'[i].asked = asked + 1
       \/ attempts' = attempts /\ tabs'[i].connecting = None
    /\ UNCHANGED <<restore, picking, skipped, moved>>

LEMMA AskKeeps ==
  ASSUME TabsInv, NEW i, NEW a, AsksOf(i, a)
  PROVE  /\ Numbered' /\ Placed' /\ TextKept' /\ PickedHere' /\ OpensWhereAskedUnlessMoved'
         /\ ConnectingIsServed'
<1> USE DEF TabsInv
<1>0. /\ asked \in Nat /\ attempts \subseteq Attempts
      /\ \A b \in attempts : b.n \in 1..asked /\ b.epoch \in Nat /\ b.epoch > 0
      /\ \A j \in DOMAIN tabs : tabs[j].epoch \in Nat
      /\ \A j \in DOMAIN tabs : IsActive(j) => tabs[j].screen.by \in Nat
  BY TypedFacts DEF Typed, Numbered, Attempts, Tabs, IsActive, Screens
<1>1. \A j \in DOMAIN tabs' : tabs'[j].screen # None => j # i /\ j \in DOMAIN tabs /\ tabs'[j] = tabs[j]
  BY DEF AsksOf
<1>2. Numbered'
  <2>1. \A b \in attempts' : b.n \in 1..asked' /\ b.epoch > 0
    BY <1>0 DEF AsksOf
  <2>2. \A b, c \in attempts' : b.n = c.n => b = c
    BY <1>0 DEF AsksOf, Numbered
  <2>3. ASSUME NEW j \in DOMAIN tabs', tabs'[j].screen # None
        PROVE  tabs'[j].screen.by <= asked' /\ \A b \in attempts' : b.n # tabs'[j].screen.by
    <3>1. /\ tabs'[j].screen = tabs[j].screen /\ tabs[j].screen.by \in Nat
          /\ tabs[j].screen.by <= asked /\ \A b \in attempts : b.n # tabs[j].screen.by
      BY <1>0, <1>1, <2>3 DEF Numbered, IsActive
    <3> QED
      BY <1>0, <3>1 DEF AsksOf
  <2> QED
    BY <2>1, <2>2, <2>3 DEF Numbered, IsActive
<1>3. Placed'
  <2>1. ASSUME ~moved, NEW b \in attempts'
        PROVE  /\ b.tab \in DOMAIN tabs' /\ b.epoch <= tabs'[b.tab].epoch
               /\ b.epoch = tabs'[b.tab].epoch =>
                     tabs'[b.tab].screen = None /\ b.n = tabs'[b.tab].asked
    <3>1. CASE b \in attempts
      <4>1. /\ b.tab \in DOMAIN tabs /\ b.epoch <= tabs[b.tab].epoch
            /\ b.epoch = tabs[b.tab].epoch =>
                     tabs[b.tab].screen = None /\ b.n = tabs[b.tab].asked
        BY <2>1, <3>1 DEF Placed, Live, OnPicker, IsActive
      <4>2. CASE b.tab = i
        BY <1>0, <3>1, <4>1, <4>2 DEF AsksOf
      <4>3. CASE b.tab # i
        BY <4>1, <4>3 DEF AsksOf
      <4> QED
        BY <4>2, <4>3
    <3>2. CASE b \notin attempts
      BY <3>2 DEF AsksOf
    <3> QED
      BY <3>1, <3>2
  <2> QED
    BY <2>1 DEF Placed, Live, OnPicker, IsActive, AsksOf
<1>4. TextKept'
  BY DEF TextKept, AsksOf
<1>5. PickedHere'
  BY DEF PickedHere, AsksOf, IsActive, OnPicker
<1>6. OpensWhereAskedUnlessMoved'
  BY <1>1 DEF OpensWhereAskedUnlessMoved, OpensWhereAsked, IsActive, AsksOf
<1>7. ConnectingIsServed'
  <2>1. ASSUME NEW j \in DOMAIN tabs', tabs'[j].connecting # None, ~moved
        PROVE  \E b \in attempts' : b.tab \in DOMAIN tabs' /\ b.epoch = tabs'[b.tab].epoch
                                     /\ b.tab = j /\ b.n = tabs'[j].asked
    <3>1. CASE j = i
      BY <2>1, <3>1 DEF AsksOf
    <3>2. CASE j # i
      <4>1. j \in DOMAIN tabs /\ tabs'[j] = tabs[j]
        BY <3>2 DEF AsksOf
      <4>2. PICK b \in attempts : Live(b) /\ b.tab = j /\ b.n = tabs[j].asked
        BY <2>1, <4>1 DEF ConnectingIsServed
      <4> QED
        BY <4>1, <4>2 DEF Live, AsksOf
    <3> QED
      BY <3>1, <3>2
  <2> QED
    BY <2>1 DEF ConnectingIsServed, Live, AsksOf
<1> QED
  BY <1>2, <1>3, <1>4, <1>5, <1>6, <1>7

(* A picker at another epoch, which says what it connects to.               *)
Saying(t, e, c, n) == [t EXCEPT !.epoch = e, !.connecting = c, !.asked = n]

Says(u, t, e, c, n) ==
    u \in Tabs /\ u.epoch = e /\ u.connecting = c /\ u.screen = t.screen /\ u.asked = n

LEMMA SayingSays ==
  ASSUME NEW t \in Tabs, NEW e \in Nat, NEW c \in Conns \cup {None}, NEW n \in Nat
  PROVE  Says(Saying(t, e, c, n), t, e, c, n)
<1> DEFINE v == [t EXCEPT !.epoch = e]
           w == [v EXCEPT !.connecting = c]
           u == [w EXCEPT !.asked = n]
<1>1. v \in Tabs /\ v.epoch = e /\ v.screen = t.screen
  BY DEF Tabs
<1> HIDE DEF v
<1>2. w \in Tabs /\ w.epoch = e /\ w.connecting = c /\ w.screen = t.screen
  BY <1>1 DEF Tabs
<1> HIDE DEF w
<1>3. u \in Tabs /\ u.epoch = e /\ u.connecting = c /\ u.screen = t.screen /\ u.asked = n
  BY <1>2 DEF Tabs
<1>4. Saying(t, e, c, n) = u
  BY DEF Saying, u, v, w
<1> HIDE DEF u
<1> QED
  BY <1>3, <1>4 DEF Says

LEMMA AsksIs ==
  ASSUME NEW t \in Tabs, NEW c \in Conns, asked \in Nat
  PROVE  t.epoch \in Nat /\ Says(Asks(t, c), t, t.epoch + 1, c, asked + 1)
<1>1. t.epoch \in Nat /\ t.epoch + 1 \in Nat /\ asked + 1 \in Nat
  BY DEF Tabs
<1>2. Asks(t, c) = Saying(t, t.epoch + 1, c, asked + 1)
  BY DEF Asks, Saying
<1> QED
  BY <1>1, <1>2, SayingSays

LEMMA OpenAsks ==
  ASSUME TabsInv, NEW c \in Conns, NEW force \in BOOLEAN, Open(c, force)
  PROVE  Typed' /\ \E a : AsksOf(active, a)
<1>0. /\ Typed /\ Here \in Tabs /\ active \in DOMAIN tabs /\ tabs[active] = Here
      /\ asked \in Nat /\ Here.epoch \in Nat /\ active \in Nat
      /\ OnPicker(active) /\ Here.screen = None
  <2>1. Typed /\ Here \in Tabs /\ active \in DOMAIN tabs /\ DOMAIN tabs = 1..Len(tabs)
    BY TypedFacts DEF TabsInv
  <2>2. asked \in Nat /\ Here.epoch \in Nat
    BY <2>1 DEF Typed, Tabs
  <2>3. OnPicker(active)
    BY DEF Open
  <2> QED
    BY <2>1, <2>2, <2>3 DEF Here, OnPicker, IsActive
<1>1. UNCHANGED <<known, file, session, restore, picking, launches, edits, moved, skipped>>
  BY DEF Open
<1>2. CASE ~force /\ Holding(c) # {}
  <2> DEFINE t == Saying(Here, Here.epoch + 1, None, 0)
  <2>1. t \in Tabs /\ t.epoch = Here.epoch + 1 /\ t.connecting = None /\ t.screen = None
    <3>1. Here.epoch + 1 \in Nat /\ 0 \in Nat /\ None \in Conns \cup {None}
      BY <1>0
    <3>2. Says(t, Here, Here.epoch + 1, None, 0)
      BY <1>0, <3>1, SayingSays
    <3> HIDE DEF t
    <3> QED
      BY <1>0, <3>2 DEF Says
  <2>2. tabs' = [tabs EXCEPT ![active] = t]
    <3>1. tabs' = [tabs EXCEPT ![active].epoch = @ + 1, ![active].connecting = None,
                               ![active].asked = 0]
      BY <1>2 DEF Open
    <3>2. t = [tabs[active] EXCEPT !.epoch = tabs[active].epoch + 1, !.connecting = None, !.asked = 0]
      BY <1>0 DEF Saying
    <3> QED
      BY <3>1, <3>2
  <2>3. active' = TabFor(c) /\ TabFor(c) \in DOMAIN tabs /\ asked' = asked + 1
        /\ attempts' = attempts
    BY <1>0, <1>2, HoldingIs DEF Open
  <2> HIDE DEF t
  <2>4. /\ tabs' \in Seq(Tabs) /\ Len(tabs') = Len(tabs) /\ DOMAIN tabs' = DOMAIN tabs
        /\ \A j \in DOMAIN tabs : tabs'[j] = IF j = active THEN t ELSE tabs[j]
    BY <1>0, <2>1, <2>2, TabSet DEF Typed
  <2>5. Typed'
    BY <1>0, <1>1, <2>3, <2>4 DEF Typed
  <2>6. AsksOf(active, None)
    BY <1>0, <1>1, <2>1, <2>3, <2>4 DEF AsksOf
  <2> QED
    BY <2>5, <2>6
<1>3. CASE ~(~force /\ Holding(c) # {})
  <2> DEFINE t == Asks(Here, c)
             a == [n |-> asked + 1, conn |-> c, epoch |-> Here.epoch + 1, tab |-> active, owed |-> None]
  <2>1. t \in Tabs /\ t.epoch = Here.epoch + 1 /\ t.screen = None /\ t.asked = asked + 1
    <3>1. Says(t, Here, Here.epoch + 1, c, asked + 1)
      BY <1>0, AsksIs
    <3> HIDE DEF t
    <3> QED
      BY <1>0, <3>1 DEF Says
  <2>2. tabs' = [tabs EXCEPT ![active] = t] /\ active' = active /\ asked' = asked + 1
        /\ attempts' = attempts \cup {a}
    BY <1>3 DEF Open, Request, Here
  <2>3. /\ a \in Attempts /\ a.n = asked + 1 /\ a.tab = active /\ a.epoch = Here.epoch + 1
        /\ a.owed = None
    BY <1>0 DEF Attempts
  <2> HIDE DEF t, a
  <2>4. /\ tabs' \in Seq(Tabs) /\ Len(tabs') = Len(tabs) /\ DOMAIN tabs' = DOMAIN tabs
        /\ \A j \in DOMAIN tabs : tabs'[j] = IF j = active THEN t ELSE tabs[j]
    BY <1>0, <2>1, <2>2, TabSet DEF Typed
  <2>5. Typed'
    BY <1>0, <1>1, <2>2, <2>3, <2>4 DEF Typed
  <2>6. AsksOf(active, a)
    BY <1>0, <1>1, <2>1, <2>2, <2>3, <2>4 DEF AsksOf
  <2> QED
    BY <2>5, <2>6
<1> QED
  BY <1>2, <1>3

LEMMA VisibleIs ==
  ASSUME NEW t \in Tabs
  PROVE  \A row \in DOMAIN Visible(t) : Visible(t)[row] \in Conns
<1> DEFINE K == {i \in DOMAIN t.conns : t.filter \in {None, t.conns[i]}}
<1>1. t.conns \in Seq(Conns) /\ K \in SUBSET DOMAIN t.conns
  BY DEF Tabs
<1> HIDE DEF K
<1>2. Kept(t.conns, K) \in Seq(Conns)
  BY <1>1, KeptIs
<1>3. Visible(t) = Kept(t.conns, K)
  BY DEF Visible, K
<1> QED
  BY <1>2, <1>3, LenProperties, ElementOfSeq

LEMMA NavOpenAsks ==
  ASSUME TabsInv, NEW row \in DOMAIN known, NavOpen(row)
  PROVE  Typed' /\ ((\E i, a : AsksOf(i, a)) \/ (Quiet /\ picking' = picking))
<1>0. /\ Typed /\ DOMAIN tabs = 1..Len(tabs) /\ Len(tabs) \in 1..MaxTabs /\ MaxTabs \in Nat
      /\ asked \in Nat /\ active \in DOMAIN tabs /\ known[row] \in Conns
      /\ \A j \in DOMAIN tabs : tabs[j] \in Tabs
  BY TypedFacts, ElementOfSeq, LenProperties DEF TabsInv, Typed
<1>1. UNCHANGED <<active, known, file, session, restore, picking, launches, edits, moved, skipped>>
  BY DEF NavOpen
<1> DEFINE here == OnPicker(active)
           all  == IF here THEN tabs ELSE Append(tabs, Tab(known))
           i    == IF here THEN active ELSE Len(all)
<1>2. here \/ Len(tabs) < MaxTabs
  BY DEF NavOpen
<1>3. /\ all \in Seq(Tabs) /\ Len(all) \in 1..MaxTabs /\ i \in DOMAIN all /\ i \in Nat
      /\ \A j \in DOMAIN tabs : j \in DOMAIN all /\ all[j] = tabs[j]
      /\ \A j \in DOMAIN all \ DOMAIN tabs : j = i /\ all[j] = Tab(known)
      /\ all[i] \in Tabs /\ all[i].screen = None
      /\ i \in DOMAIN tabs => here /\ all[i] = tabs[i]
  <2>1. CASE here
    BY <1>0, <2>1 DEF Typed, OnPicker, IsActive
  <2>2. CASE ~here
    <3>1. Tab(known) \in Tabs /\ Tab(known).screen = None
      BY <1>0, TabIn DEF Typed, Tab
    <3>2. /\ all \in Seq(Tabs) /\ Len(all) = Len(tabs) + 1
          /\ DOMAIN all = 1..(Len(tabs) + 1)
          /\ \A j \in DOMAIN tabs : all[j] = tabs[j]
          /\ all[Len(tabs) + 1] = Tab(known)
      BY <1>0, <2>2, <3>1, TabAdded DEF Typed
    <3>3. i = Len(tabs) + 1 /\ i \notin DOMAIN tabs /\ Len(all) \in 1..MaxTabs
      BY <1>0, <1>2, <2>2, <3>2
    <3> QED
      BY <1>0, <3>1, <3>2, <3>3
  <2> QED
    BY <2>1, <2>2
<1>4. CASE row \in DOMAIN Visible(all[i])
  <2> DEFINE t == Asks(all[i], Visible(all[i])[row])
             a == [n |-> asked + 1, conn |-> known[row], epoch |-> all[i].epoch + 1, tab |-> i,
                   owed |-> None]
  <2>1. /\ tabs' = [all EXCEPT ![i] = t]
        /\ asked' = asked + 1 /\ attempts' = attempts \cup {a}
    BY <1>4 DEF NavOpen, Request
  <2>2. Visible(all[i])[row] \in Conns
    BY <1>3, <1>4, VisibleIs
  <2>3. all[i].epoch \in Nat /\ Says(t, all[i], all[i].epoch + 1, Visible(all[i])[row], asked + 1)
    BY <1>0, <1>3, <2>2, AsksIs
  <2>4. /\ a \in Attempts /\ a.n = asked + 1 /\ a.tab = i /\ a.epoch = all[i].epoch + 1
        /\ a.owed = None
    BY <1>0, <1>3, <2>3 DEF Attempts
  <2> HIDE DEF t, a, all, i, here
  <2>5. t \in Tabs /\ t.epoch = all[i].epoch + 1 /\ t.screen = None /\ t.asked = asked + 1
    BY <1>3, <2>3 DEF Says
  <2>6. /\ tabs' \in Seq(Tabs) /\ Len(tabs') = Len(all) /\ DOMAIN tabs' = DOMAIN all
        /\ \A j \in DOMAIN all : tabs'[j] = IF j = i THEN t ELSE all[j]
    BY <1>3, <2>1, <2>5, TabSet
  <2>7. Typed'
    BY <1>0, <1>1, <1>3, <2>1, <2>4, <2>6 DEF Typed
  <2>8. AsksOf(i, a)
    <3>1. /\ i \in DOMAIN tabs' /\ tabs'[i] = t /\ tabs'[i].screen = None
          /\ tabs'[i].epoch = all[i].epoch + 1 /\ tabs'[i].epoch \in Nat \ {0}
      BY <1>3, <2>3, <2>5, <2>6
    <3>2. i \in DOMAIN tabs => OnPicker(i) /\ tabs'[i].epoch = tabs[i].epoch + 1
      BY <1>3, <3>1 DEF OnPicker, IsActive
    <3>3. \A j \in DOMAIN tabs \ {i} : j \in DOMAIN tabs' /\ tabs'[j] = tabs[j]
      BY <1>3, <2>6
    <3>4. DOMAIN tabs' \subseteq DOMAIN tabs \cup {i}
      BY <1>3, <2>6
    <3> QED
      BY <1>1, <2>1, <2>4, <2>5, <3>1, <3>2, <3>3, <3>4 DEF AsksOf
  <2> QED
    BY <2>7, <2>8
<1>5. CASE ~(row \in DOMAIN Visible(all[i]))
  <2>1. tabs' = all /\ UNCHANGED <<attempts, asked>>
    BY <1>5 DEF NavOpen
  <2>2. Blank(Tab(known))
    BY DEF Tab, Blank
  <2> HIDE DEF all, i, here
  <2>3. Quiet
    BY <1>1, <1>3, <2>1, <2>2 DEF Quiet, Like
  <2>4. Typed'
    BY <1>0, <1>1, <1>3, <2>1 DEF Typed
  <2> QED
    BY <1>1, <2>3, <2>4
<1> QED
  BY <1>4, <1>5

-----------------------------------------------------------------------------
(* An answer: the tab that asked is the only one it can change.             *)
AnswerTo(a, t) ==
    /\ a \in attempts /\ attempts' = attempts \ {a}
    /\ DOMAIN tabs' = DOMAIN tabs
    /\ \A i \in DOMAIN tabs : tabs'[i] = IF Live(a) /\ i = a.tab THEN t ELSE tabs[i]
    /\ Live(a) => /\ t.epoch = tabs[a.tab].epoch /\ t.asked = tabs[a.tab].asked
                  /\ t.connecting = None
                  /\ \/ t.screen = tabs[a.tab].screen
                     \/ t.screen # None /\ t.screen.by = a.n /\ t.screen.text = restore[a.tab]
    /\ UNCHANGED <<asked, restore, picking, skipped, moved>>

LEMMA AnswerKeeps ==
  ASSUME TabsInv, NEW a, NEW t, AnswerTo(a, t)
  PROVE  /\ Numbered' /\ Placed' /\ TextKept' /\ PickedHere' /\ OpensWhereAskedUnlessMoved'
         /\ ConnectingIsServed'
<1> USE DEF TabsInv
<1>0. /\ asked \in Nat
      /\ \A b \in attempts : b.n \in 1..asked /\ b.epoch > 0
      /\ \A b \in attempts' : b \in attempts /\ b # a /\ b.n # a.n
      /\ \A i \in DOMAIN tabs' : i \in DOMAIN tabs /\ tabs'[i].epoch = tabs[i].epoch
                                   /\ tabs'[i].asked = tabs[i].asked
  BY DEF Typed, Numbered, AnswerTo
<1>1. Numbered'
  <2>1. ASSUME NEW i \in DOMAIN tabs', tabs'[i].screen # None
        PROVE  tabs'[i].screen.by <= asked /\ \A b \in attempts' : b.n # tabs'[i].screen.by
    <3>1. \/ tabs'[i].screen = tabs[i].screen
          \/ tabs'[i].screen.by = a.n
      BY <1>0, <2>1 DEF AnswerTo
    <3>2. CASE tabs'[i].screen = tabs[i].screen
      BY <1>0, <2>1, <3>2 DEF Numbered, IsActive
    <3>3. CASE tabs'[i].screen.by = a.n
      BY <1>0, <3>3 DEF AnswerTo
    <3> QED
      BY <3>1, <3>2, <3>3
  <2>2. \A b, c \in attempts' : b.n = c.n => b = c
    BY <1>0 DEF Numbered
  <2> QED
    BY <1>0, <2>1, <2>2 DEF Numbered, IsActive, AnswerTo
<1>2. Placed'
  <2>1. ASSUME ~moved, NEW b \in attempts'
        PROVE  /\ b.tab \in DOMAIN tabs' /\ b.epoch <= tabs'[b.tab].epoch
               /\ b.epoch = tabs'[b.tab].epoch =>
                     tabs'[b.tab].screen = None /\ b.n = tabs'[b.tab].asked
    <3>1. /\ b.tab \in DOMAIN tabs /\ b.epoch <= tabs[b.tab].epoch
          /\ b.epoch = tabs[b.tab].epoch =>
                 tabs[b.tab].screen = None /\ b.n = tabs[b.tab].asked
      BY <1>0, <2>1 DEF Placed, Live, OnPicker, IsActive
    <3>2. ASSUME b.epoch = tabs[b.tab].epoch
          PROVE  ~(Live(a) /\ b.tab = a.tab)
      <4>1. Live(a) => a.n = tabs[a.tab].asked
        BY <2>1 DEF Placed, AnswerTo
      <4> QED
        BY <1>0, <3>1, <3>2, <4>1
    <3> QED
      BY <1>0, <3>1, <3>2 DEF AnswerTo
  <2> QED
    BY <2>1 DEF Placed, Live, OnPicker, IsActive, AnswerTo
<1>3. TextKept'
  BY <1>0 DEF TextKept, AnswerTo
<1>4. PickedHere'
  <2>1. ASSUME picking # None, ~moved
        PROVE  /\ picking.tab \in DOMAIN tabs' /\ tabs'[picking.tab].screen # None
               /\ tabs'[picking.tab].screen.title = picking.conn
    <3>1. /\ picking.tab \in DOMAIN tabs /\ tabs[picking.tab].screen # None
          /\ tabs[picking.tab].screen.title = picking.conn
      BY <2>1 DEF PickedHere, IsActive
    <3>2. ~(Live(a) /\ picking.tab = a.tab)
      BY <2>1, <3>1 DEF Placed, AnswerTo, OnPicker, IsActive
    <3> QED
      BY <3>1, <3>2 DEF AnswerTo
  <2> QED
    BY <2>1 DEF PickedHere, IsActive, AnswerTo
<1>5. OpensWhereAskedUnlessMoved'
  <2>1. ASSUME ~moved, NEW i \in DOMAIN tabs', tabs'[i].screen # None, tabs'[i].screen.title # Diff
        PROVE  tabs'[i].screen.by = tabs'[i].asked
    <3>1. CASE tabs'[i].screen = tabs[i].screen
      BY <1>0, <2>1, <3>1 DEF OpensWhereAskedUnlessMoved, OpensWhereAsked, IsActive
    <3>2. CASE tabs'[i].screen # tabs[i].screen
      BY <1>0, <2>1, <3>2 DEF AnswerTo, Placed
    <3> QED
      BY <3>1, <3>2
  <2> QED
    BY <2>1 DEF OpensWhereAskedUnlessMoved, OpensWhereAsked, IsActive, AnswerTo
<1>6. ConnectingIsServed'
  <2>1. ASSUME NEW i \in DOMAIN tabs', tabs'[i].connecting # None, ~moved
        PROVE  \E b \in attempts' : b.tab \in DOMAIN tabs' /\ b.epoch = tabs'[b.tab].epoch
                                     /\ b.tab = i /\ b.n = tabs'[i].asked
    <3>1. i \in DOMAIN tabs /\ tabs'[i] = tabs[i] /\ ~(Live(a) /\ i = a.tab)
      BY <1>0, <2>1 DEF AnswerTo
    <3>2. PICK b \in attempts : Live(b) /\ b.tab = i /\ b.n = tabs[i].asked
      BY <2>1, <3>1 DEF ConnectingIsServed
    <3>3. b # a
      BY <3>1, <3>2
    <3> QED
      BY <3>1, <3>2, <3>3 DEF Live, AnswerTo
  <2> QED
    BY <2>1 DEF ConnectingIsServed, Live, AnswerTo
<1> QED
  BY <1>1, <1>2, <1>3, <1>4, <1>5, <1>6

LEMMA AnswersAnswer ==
  ASSUME TabsInv, NEW a \in attempts, Opened(a) \/ OpenFailed(a)
  PROVE  Typed' /\ \E t : AnswerTo(a, t)
<1>0. /\ Typed /\ a \in Attempts /\ attempts' = attempts \ {a}
      /\ UNCHANGED <<active, known, file, session, restore, picking, asked, moved, skipped>>
      /\ DOMAIN tabs \subseteq 1..MaxTabs
  BY TypedFacts DEF TabsInv, Typed, Opened, OpenFailed, Answered
<1>1. CASE ~Live(a)
  <2>1. tabs' = tabs
    BY <1>1 DEF Opened, OpenFailed
  <2>2. Typed'
    BY <1>0, <2>1 DEF Typed
  <2>3. AnswerTo(a, None)
    BY <1>0, <1>1, <2>1 DEF AnswerTo
  <2> QED
    BY <2>2, <2>3
<1>2. CASE Live(a)
  <2> DEFINE u == [tabs[a.tab] EXCEPT !.connecting = None]
  <2>0. a.tab \in DOMAIN tabs /\ tabs[a.tab] \in Tabs
    BY <1>0, <1>2, TypedFacts DEF Live
  <2>1. /\ u \in Tabs /\ u.connecting = None /\ u.epoch = tabs[a.tab].epoch
        /\ u.asked = tabs[a.tab].asked /\ u.screen = tabs[a.tab].screen
    BY <2>0 DEF Tabs
  <2> HIDE DEF u
  <2> DEFINE s == Screen(a.conn, restore[a.tab], a.n)
             v == [u EXCEPT !.screen = s]
  <2>2. s \in Screens /\ s.by = a.n /\ s.text = restore[a.tab]
    <3>1. a.conn \in Conns /\ a.n \in Nat /\ restore[a.tab] \in Conns \cup {None}
      BY <1>0, <2>0 DEF Attempts, Typed
    <3> QED
      BY <3>1 DEF Screen, Screens, Titles
  <2>3. s # None
    BY <2>2, NoScreen
  <2> HIDE DEF s
  <2>4. /\ v \in Tabs /\ v.connecting = None /\ v.epoch = tabs[a.tab].epoch
        /\ v.asked = tabs[a.tab].asked /\ v.screen = s
    BY <2>1, <2>2 DEF Tabs
  <2>5. ASSUME NEW t \in {u, v}, tabs' = [tabs EXCEPT ![a.tab] = t]
        PROVE  Typed' /\ AnswerTo(a, t)
    <3>1. /\ t \in Tabs /\ t.connecting = None /\ t.epoch = tabs[a.tab].epoch
          /\ t.asked = tabs[a.tab].asked
          /\ \/ t.screen = tabs[a.tab].screen
             \/ t.screen # None /\ t.screen.by = a.n /\ t.screen.text = restore[a.tab]
      BY <2>1, <2>2, <2>3, <2>4, <2>5
    <3>2. /\ tabs' \in Seq(Tabs) /\ Len(tabs') = Len(tabs) /\ DOMAIN tabs' = DOMAIN tabs
          /\ \A j \in DOMAIN tabs : tabs'[j] = IF j = a.tab THEN t ELSE tabs[j]
      BY <1>0, <2>0, <2>5, <3>1, TabSet DEF Typed
    <3>3. Typed'
      BY <1>0, <3>2 DEF Typed
    <3>4. AnswerTo(a, t)
      BY <1>0, <1>2, <3>1, <3>2 DEF AnswerTo
    <3> QED
      BY <3>3, <3>4
  <2>6. CASE Opened(a)
    <3>1. tabs' = [tabs EXCEPT ![a.tab].connecting = None, ![a.tab].screen = s]
      BY <1>2, <2>6 DEF Opened, s
    <3>2. v = [[tabs[a.tab] EXCEPT !.connecting = None] EXCEPT !.screen = s]
      BY DEF u
    <3> HIDE DEF v
    <3>3. tabs' = [tabs EXCEPT ![a.tab] = v]
      BY <2>0, <3>1, <3>2
    <3> QED
      BY <2>5, <3>3
  <2>7. CASE OpenFailed(a)
    <3>1. tabs' = [tabs EXCEPT ![a.tab] = u]
      BY <1>2, <2>7 DEF OpenFailed, u
    <3> QED
      BY <2>5, <3>1
  <2> QED
    BY <2>6, <2>7
<1> QED
  BY <1>1, <1>2

-----------------------------------------------------------------------------
(* A tab is closed: what is above it is one lower, and if anything counted  *)
(* by that, it is told apart.                                               *)
LEMMA CloseKeeps ==
  ASSUME TabsInv, CloseTab
  PROVE  TabsInv' /\ \A i \in DOMAIN tabs' : \E j \in DOMAIN tabs : tabs'[i] = tabs[j]
<1> USE DEF TabsInv
<1>0. /\ DOMAIN tabs = 1..Len(tabs) /\ Len(tabs) \in Nat /\ Len(tabs) > 1
      /\ Len(tabs) <= MaxTabs /\ active \in 1..Len(tabs) /\ MaxTabs \in Nat
  BY TypedFacts DEF Typed, CloseTab
<1>1. /\ tabs' \in Seq(Tabs) /\ Len(tabs') = Len(tabs) - 1
      /\ DOMAIN tabs' = 1..(Len(tabs) - 1)
      /\ \A i \in 1..(Len(tabs) - 1) : tabs'[i] = IF i < active THEN tabs[i] ELSE tabs[i + 1]
  <2>1. tabs' = RemoveAt(tabs, active)
    BY DEF CloseTab
  <2>2. /\ RemoveAt(tabs, active) \in Seq(Tabs) /\ Len(RemoveAt(tabs, active)) = Len(tabs) - 1
        /\ \A i \in 1..(Len(tabs) - 1) :
              RemoveAt(tabs, active)[i] = IF i < active THEN tabs[i] ELSE tabs[i + 1]
    BY <1>0, RemoveAtProperties DEF Typed
  <2> QED
    BY <2>1, <2>2, LenProperties
<1>2. /\ UNCHANGED <<known, file, session, restore, attempts, picking, asked, skipped>>
      /\ moved' = (moved \/ (\E a \in attempts : a.tab >= active)
                         \/ (picking # None /\ picking.tab >= active))
      /\ active' = Min({active, Len(tabs')})
  BY DEF CloseTab
<1>3. Typed'
  <2>1. active' \in {active, Len(tabs')} /\ active' <= active /\ active' <= Len(tabs')
    <3>1. {active, Len(tabs')} \in SUBSET Nat /\ {active, Len(tabs')} # {}
      BY <1>0, <1>1
    <3> DEFINE S == {active, Len(tabs')}
    <3>2. Min(S) \in S /\ \A y \in S : Min(S) <= y
      BY <3>1, MinIsIn
    <3> QED
      BY <1>2, <3>2
  <2>2. active' \in DOMAIN tabs' /\ Len(tabs') \in 1..MaxTabs
    BY <1>0, <1>1, <2>1
  <2> QED
    BY <1>1, <1>2, <2>2 DEF Typed
<1>4. \A i \in DOMAIN tabs' : \E j \in DOMAIN tabs : tabs'[i] = tabs[j]
  <2>1. ASSUME NEW i \in DOMAIN tabs' PROVE \E j \in DOMAIN tabs : tabs'[i] = tabs[j]
    <3>1. i \in DOMAIN tabs /\ i + 1 \in DOMAIN tabs /\ i \in 1..(Len(tabs) - 1)
      BY <1>0, <1>1
    <3> QED
      BY <1>1, <3>1
  <2> QED
    BY <2>1
<1>5. Numbered'
  BY <1>2, <1>4 DEF Numbered, IsActive
<1>6. TextKept'
  BY <1>2 DEF TextKept
<1>7. ASSUME ~moved'
      PROVE  /\ ~moved
             /\ \A a \in attempts : a.tab \in DOMAIN tabs' /\ tabs'[a.tab] = tabs[a.tab]
             /\ picking # None => picking.tab \in DOMAIN tabs' /\ tabs'[picking.tab] = tabs[picking.tab]
  <2>1. /\ ~moved
        /\ \A a \in attempts : ~(a.tab >= active)
        /\ picking # None => ~(picking.tab >= active)
    BY <1>2, <1>7
  <2>2. \A a \in attempts : a.tab \in DOMAIN tabs
    BY <2>1 DEF Placed
  <2>3. picking # None => picking.tab \in DOMAIN tabs
    BY <2>1 DEF PickedHere
  <2>4. \A k \in DOMAIN tabs : ~(k >= active) =>
           k \in DOMAIN tabs' /\ tabs'[k] = tabs[k]
    BY <1>0, <1>1
  <2>5. \A a \in attempts : a.tab \in DOMAIN tabs' /\ tabs'[a.tab] = tabs[a.tab]
    BY <2>1, <2>2, <2>4
  <2>6. picking # None => picking.tab \in DOMAIN tabs' /\ tabs'[picking.tab] = tabs[picking.tab]
    BY <2>1, <2>3, <2>4
  <2> QED
    BY <2>1, <2>5, <2>6
<1>8. Placed'
  BY <1>2, <1>7 DEF Placed, Live, OnPicker, IsActive
<1>9. PickedHere'
  BY <1>2, <1>7 DEF PickedHere, IsActive
<1>10. OpensWhereAskedUnlessMoved'
  BY <1>4, <1>7 DEF OpensWhereAskedUnlessMoved, OpensWhereAsked, IsActive
<1>11. ConnectingIsServed'
  <2>1. ASSUME NEW i \in DOMAIN tabs', tabs'[i].connecting # None, ~moved'
        PROVE  \E b \in attempts : b.tab \in DOMAIN tabs' /\ b.epoch = tabs'[b.tab].epoch
                                     /\ b.tab = i /\ b.n = tabs'[i].asked
    <3>0. ~moved /\ \A b \in attempts : ~(b.tab >= active)
      BY <1>2, <2>1
    <3>1. CASE i < active
      <4>1. i \in DOMAIN tabs /\ tabs'[i] = tabs[i]
        BY <1>0, <1>1, <3>1
      <4>2. PICK b \in attempts : Live(b) /\ b.tab = i /\ b.n = tabs[i].asked
        BY <2>1, <3>0, <4>1 DEF ConnectingIsServed
      <4> QED
        BY <4>1, <4>2 DEF Live
    <3>2. CASE ~(i < active)
      <4>1. i + 1 \in DOMAIN tabs /\ tabs'[i] = tabs[i + 1] /\ i + 1 >= active
        BY <1>0, <1>1, <3>2
      <4>2. PICK b \in attempts : b.tab = i + 1
        BY <2>1, <3>0, <4>1 DEF ConnectingIsServed
      <4> QED
        BY <3>0, <4>1, <4>2
    <3> QED
      BY <3>1, <3>2
  <2> QED
    BY <1>2, <2>1 DEF ConnectingIsServed, Live
<1> QED
  BY <1>3, <1>4, <1>5, <1>6, <1>8, <1>9, <1>10, <1>11

(* A screen is left for its tab's picker.                                   *)
LEMMA BackKeeps ==
  ASSUME TabsInv, BackToPicker
  PROVE  TabsInv' /\ \A i \in DOMAIN tabs' : tabs'[i].screen # None =>
                        i \in DOMAIN tabs /\ tabs'[i] = tabs[i]
<1> USE DEF TabsInv
<1> DEFINE t == [tabs[active] EXCEPT !.screen = None]
<1>0. active \in DOMAIN tabs /\ tabs[active] \in Tabs /\ IsActive(active)
  BY TypedFacts DEF BackToPicker
<1>1. /\ t \in Tabs /\ t.screen = None /\ t.epoch = tabs[active].epoch
      /\ t.asked = tabs[active].asked /\ t.connecting = tabs[active].connecting
  BY <1>0 DEF Tabs
<1>2. /\ UNCHANGED <<active, known, file, session, restore, attempts, picking, asked, skipped>>
      /\ moved' = (moved \/ (picking # None /\ picking.tab = active))
      /\ tabs' = [tabs EXCEPT ![active] = t]
  BY DEF BackToPicker
<1> HIDE DEF t
<1>3. /\ tabs' \in Seq(Tabs) /\ Len(tabs') = Len(tabs) /\ DOMAIN tabs' = DOMAIN tabs
      /\ \A j \in DOMAIN tabs : tabs'[j] = IF j = active THEN t ELSE tabs[j]
  BY <1>0, <1>1, <1>2, TabSet DEF Typed
<1>4. \A j \in DOMAIN tabs : /\ tabs'[j].epoch = tabs[j].epoch /\ tabs'[j].asked = tabs[j].asked
                             /\ tabs'[j].connecting = tabs[j].connecting
                             /\ tabs'[j].screen # None => tabs'[j] = tabs[j]
                             /\ tabs[j].screen = None => tabs'[j].screen = None
  BY <1>1, <1>3
<1>5. Typed'
  BY <1>2, <1>3 DEF Typed
<1>6. Numbered'
  BY <1>2, <1>3, <1>4 DEF Numbered, IsActive
<1>7. Placed'
  <2> SUFFICES ASSUME ~moved', NEW a \in attempts
               PROVE  /\ a.tab \in DOMAIN tabs'
                      /\ a.epoch <= tabs'[a.tab].epoch
                      /\ Live(a)' => OnPicker(a.tab)' /\ a.n = tabs'[a.tab].asked
    BY <1>2 DEF Placed
  <2>1. /\ a.tab \in DOMAIN tabs /\ a.epoch <= tabs[a.tab].epoch
        /\ Live(a) => OnPicker(a.tab) /\ a.n = tabs[a.tab].asked
    BY <1>2 DEF Placed
  <2>2. Live(a)' => Live(a)
    BY <1>2, <1>3, <1>4, <2>1 DEF Live
  <2>3. OnPicker(a.tab) => OnPicker(a.tab)'
    BY <1>3, <1>4, <2>1 DEF OnPicker, IsActive
  <2> QED
    BY <1>3, <1>4, <2>1, <2>2, <2>3
<1>8. TextKept'
  BY <1>2 DEF TextKept
<1>9. PickedHere'
  BY <1>2, <1>3 DEF PickedHere, IsActive
<1>10. OpensWhereAskedUnlessMoved'
  <2>1. ASSUME ~moved, NEW i \in DOMAIN tabs', tabs'[i].screen # None, tabs'[i].screen.title # Diff
        PROVE  tabs'[i].screen.by = tabs'[i].asked
    BY <1>3, <1>4, <2>1 DEF OpensWhereAskedUnlessMoved, OpensWhereAsked, IsActive
  <2> QED
    BY <1>2, <2>1 DEF OpensWhereAskedUnlessMoved, OpensWhereAsked, IsActive
<1>11. ConnectingIsServed'
  <2>1. ASSUME ~moved, NEW i \in DOMAIN tabs', tabs'[i].connecting # None
        PROVE  \E b \in attempts : b.tab \in DOMAIN tabs' /\ b.epoch = tabs'[b.tab].epoch
                                     /\ b.tab = i /\ b.n = tabs'[i].asked
    <3>1. i \in DOMAIN tabs /\ tabs[i].connecting # None
      BY <1>3, <1>4, <2>1
    <3>2. PICK b \in attempts : Live(b) /\ b.tab = i /\ b.n = tabs[i].asked
      BY <2>1, <3>1 DEF ConnectingIsServed
    <3> QED
      BY <1>3, <1>4, <3>1, <3>2 DEF Live
  <2> QED
    BY <1>2, <2>1 DEF ConnectingIsServed, Live
<1> QED
  BY <1>3, <1>4, <1>5, <1>6, <1>7, <1>8, <1>9, <1>10, <1>11

-----------------------------------------------------------------------------
(* A launch: every tab it restores asks at once, with an epoch of its own.  *)
LEMMA SessionSaved ==
  ASSUME Typed
  PROVE  /\ SessionState \in [tabs : Seq(Saved), active : Nat \ {0}]
         /\ Len(SessionState.tabs) <= MaxTabs
<1> DEFINE titled == {i \in DOMAIN tabs : IsActive(i)}
           size   == Cardinality(titled)
           list   == [k \in 1..size |-> [conn |-> tabs[Nth(titled, k)].screen.title,
                                         text |-> tabs[Nth(titled, k)].screen.text]]
           at     == IF IsActive(active) THEN Cardinality({i \in titled : i <= active}) ELSE 1
<1>0. /\ DOMAIN tabs = 1..Len(tabs) /\ Len(tabs) \in Nat /\ Len(tabs) <= MaxTabs /\ MaxTabs \in Nat
      /\ active \in DOMAIN tabs /\ \A i \in DOMAIN tabs : tabs[i] \in Tabs
  BY TypedFacts DEF Typed
<1>1. SessionState = [tabs |-> list, active |-> at]
  BY DEF SessionState
<1>2. size \in 0..Len(tabs) /\ \A k \in 1..size : Nth(titled, k) \in titled
  <2>1. titled \in SUBSET (1..Len(tabs))
    BY <1>0
  <2> HIDE DEF titled
  <2> QED
    BY <1>0, <2>1, NthIsIn
<1>3. \A k \in 1..size : [conn |-> tabs[Nth(titled, k)].screen.title,
                          text |-> tabs[Nth(titled, k)].screen.text] \in Saved
  <2>1. \A i \in titled : tabs[i].screen \in Screens
    BY <1>0 DEF Tabs, IsActive
  <2> HIDE DEF titled
  <2> QED
    BY <1>2, <2>1 DEF Saved, Screens
<1>4. list \in Seq(Saved) /\ Len(list) = size
  <2> HIDE DEF titled
  <2> QED
    BY <1>2, <1>3
<1>5. at \in Nat \ {0}
  <2>1. ASSUME IsActive(active)
        PROVE  Cardinality({i \in titled : i <= active}) \in Nat \ {0}
    <3> DEFINE upto == {i \in titled : i <= active}
    <3>1. upto \in SUBSET (1..Len(tabs)) /\ active \in upto
      BY <1>0, <2>1
    <3>2. IsFiniteSet(1..Len(tabs))
      BY <1>0, FS_Interval
    <3> HIDE DEF upto
    <3>3. IsFiniteSet(upto) /\ upto # {}
      BY <3>1, <3>2, FS_Subset
    <3>4. Cardinality(upto) \in Nat /\ Cardinality(upto) # 0
      BY <3>3, FS_CardinalityType, FS_EmptySet
    <3> QED
      BY <3>4 DEF upto
  <2> QED
    BY <2>1
<1> HIDE DEF list, at, size
<1> QED
  BY <1>0, <1>1, <1>2, <1>4, <1>5

LEMMA BackIs ==
  ASSUME Typed, NEW s \in [tabs : Seq(Saved), active : Nat \ {0}], Len(s.tabs) <= MaxTabs
  PROVE  /\ RestoreTabs(s) \in Seq(Saved)
         /\ DOMAIN RestoreTabs(s) = 1..Len(RestoreTabs(s))
         /\ Len(RestoreTabs(s)) \in Nat /\ Len(RestoreTabs(s)) <= MaxTabs
         /\ \A k \in DOMAIN RestoreTabs(s) :
               RestoreTabs(s)[k] \in Saved /\ RestoreTabs(s)[k].conn \in Conns
<1> DEFINE K == {i \in DOMAIN s.tabs : Contains(file, s.tabs[i].conn)}
<1>1. s.tabs \in Seq(Saved) /\ K \in SUBSET DOMAIN s.tabs /\ Len(s.tabs) \in Nat /\ MaxTabs \in Nat
  BY AppTabsAssumption, LenProperties
<1>2. \A i \in K : s.tabs[i].conn \in Conns
  <2>1. file \in Seq(Conns)
    BY DEF Typed
  <2>2. \A j \in DOMAIN file : file[j] \in Conns
    BY <2>1, ElementOfSeq, LenProperties
  <2> QED
    BY <2>1, <2>2, LenProperties DEF Contains
<1> HIDE DEF K
<1>3. /\ Kept(s.tabs, K) \in Seq(Saved)
      /\ Len(Kept(s.tabs, K)) <= Len(s.tabs)
      /\ DOMAIN Kept(s.tabs, K) = 1..Len(Kept(s.tabs, K))
      /\ \A k \in DOMAIN Kept(s.tabs, K) :
            Nth(K, k) \in K /\ Kept(s.tabs, K)[k] = s.tabs[Nth(K, k)]
  BY <1>1, KeptIs
<1>4. RestoreTabs(s) = Kept(s.tabs, K)
  BY DEF RestoreTabs, K
<1>5. Len(Kept(s.tabs, K)) \in Nat
  BY <1>3, LenProperties
<1>6. \A k \in DOMAIN Kept(s.tabs, K) :
         Kept(s.tabs, K)[k] \in Saved /\ Kept(s.tabs, K)[k].conn \in Conns
  BY <1>2, <1>3, ElementOfSeq
<1>7. Len(Kept(s.tabs, K)) <= MaxTabs
  BY <1>1, <1>3, <1>5
<1> QED
  BY <1>3, <1>4, <1>5, <1>6, <1>7, Zenon

LEMMA TextsAre ==
  ASSUME NEW s \in [tabs : Seq(Saved), active : Nat \ {0}], Len(s.tabs) <= MaxTabs
  PROVE  /\ RestoreByTab(s) \in [1..MaxTabs -> Conns \cup {None}]
         /\ \A i \in DOMAIN s.tabs : i \in 1..MaxTabs /\ RestoreByTab(s)[i] = s.tabs[i].text
<1>1. /\ DOMAIN s.tabs = 1..Len(s.tabs) /\ Len(s.tabs) \in Nat /\ MaxTabs \in Nat
      /\ \A i \in DOMAIN s.tabs : s.tabs[i] \in Saved
  BY AppTabsAssumption, LenProperties, ElementOfSeq
<1>2. DOMAIN Texts(s) = DOMAIN s.tabs /\ \A i \in DOMAIN s.tabs : Texts(s)[i] = s.tabs[i].text
  BY DEF Texts
<1>3. \A i \in DOMAIN s.tabs : Texts(s)[i] \in Conns \cup {None}
  BY <1>1, <1>2 DEF Saved
<1>4. RestoreByTab(s) = [i \in 1..MaxTabs |-> IF i \in DOMAIN Texts(s) THEN Texts(s)[i] ELSE None]
  BY DEF RestoreByTab, TextOf
<1> QED
  BY <1>1, <1>2, <1>3, <1>4

Asking(i, back) == Saying(Tab(file), 1, back[i].conn, i)

LEMMA LaunchKeeps ==
  ASSUME TabsInv, NEW s \in [tabs : Seq(Saved), active : Nat \ {0}], Len(s.tabs) <= MaxTabs,
         Launch(s)
  PROVE  TabsInv' /\ \A i \in DOMAIN tabs' : tabs'[i].screen = None
<1> DEFINE back == RestoreTabs(s)
<1>0. /\ Typed /\ MaxTabs \in Nat \ {0} /\ file \in Seq(Conns)
      /\ Tab(file) \in Tabs /\ Tab(file).screen = None /\ Tab(file).connecting = None
  BY TypedFacts, TabIn DEF TabsInv, Typed, Tab
<1>1. /\ back \in Seq(Saved) /\ DOMAIN back = 1..Len(back)
      /\ Len(back) \in Nat /\ Len(back) <= MaxTabs
      /\ \A k \in DOMAIN back : back[k] \in Saved /\ back[k].conn \in Conns
  BY <1>0, BackIs
<1>2. /\ RestoreByTab(s) \in [1..MaxTabs -> Conns \cup {None}]
      /\ \A i \in DOMAIN s.tabs : i \in 1..MaxTabs /\ RestoreByTab(s)[i] = s.tabs[i].text
  BY TextsAre
<1>3. /\ session' = s /\ known' = file /\ picking' = None /\ file' = file
      /\ attempts' = {[n |-> i, conn |-> back[i].conn, epoch |-> 1, tab |-> i,
                       owed |-> back[i]] : i \in DOMAIN back}
      /\ asked' = Len(back) /\ moved' = FALSE /\ restore' = RestoreByTab(s)
      /\ skipped' = (back # s.tabs)
  BY DEF Launch
<1>4. /\ tabs' \in Seq(Tabs) /\ Len(tabs') \in 1..MaxTabs /\ DOMAIN tabs' = 1..Len(tabs')
      /\ active' \in DOMAIN tabs'
      /\ \A i \in DOMAIN tabs' : tabs'[i].screen = None
      /\ \A i \in DOMAIN tabs' : tabs'[i].connecting # None => i \in DOMAIN back
      /\ \A i \in DOMAIN back : i \in DOMAIN tabs' /\ tabs'[i].epoch = 1 /\ tabs'[i].asked = i
  <2>1. CASE back = <<>>
    <3>1. tabs' = <<Tab(file)>> /\ active' = 1
      BY <2>1 DEF Launch
    <3>2. DOMAIN back = {}
      BY <2>1
    <3> HIDE DEF back
    <3>3. /\ <<Tab(file)>> \in Seq(Tabs) /\ Len(<<Tab(file)>>) = 1
          /\ DOMAIN <<Tab(file)>> = 1..1 /\ <<Tab(file)>>[1] = Tab(file)
      BY <1>0
    <3> QED
      BY <1>0, <3>1, <3>2, <3>3
  <2>2. CASE back # <<>>
    <3>1. /\ tabs' = [i \in DOMAIN back |->
                        [Tab(file) EXCEPT !.epoch = 1, !.asked = i, !.connecting = back[i].conn]]
          /\ active' = Min({s.active, Len(back)})
      BY <2>2 DEF Launch
    <3>2. \A i \in DOMAIN back : Asking(i, back) =
             [Tab(file) EXCEPT !.epoch = 1, !.asked = i, !.connecting = back[i].conn]
      BY DEF Asking, Saying
    <3>3. tabs' = [i \in DOMAIN back |-> Asking(i, back)]
      BY <3>1, <3>2, Zenon
    <3>4. Len(back) # 0
      BY <1>1, <2>2, EmptySeq
    <3> HIDE DEF back
    <3>5. \A i \in DOMAIN back : Says(Asking(i, back), Tab(file), 1, back[i].conn, i)
      <4>1. \A i \in DOMAIN back : i \in Nat /\ back[i].conn \in Conns \cup {None}
        BY <1>1
      <4>2. 1 \in Nat
        OBVIOUS
      <4> QED
        BY <1>0, <4>1, <4>2, SayingSays DEF Asking
    <3>6. \A i \in DOMAIN back : /\ Asking(i, back) \in Tabs /\ Asking(i, back).screen = None
                                 /\ Asking(i, back).epoch = 1 /\ Asking(i, back).asked = i
      BY <1>0, <3>5 DEF Says
    <3>7. tabs' \in Seq(Tabs) /\ Len(tabs') = Len(back) /\ DOMAIN tabs' = 1..Len(back)
      BY <1>1, <3>3, <3>6
    <3>8. active' \in 1..Len(back)
      <4> DEFINE S == {s.active, Len(back)}
      <4>1. S \in SUBSET Nat /\ S # {} /\ s.active >= 1 /\ Len(back) >= 1
        BY <1>1, <3>4
      <4>2. Min(S) \in S /\ \A y \in S : Min(S) <= y
        BY <4>1, MinIsIn
      <4>3. active' = Min(S)
        BY <3>1
      <4> QED
        BY <1>1, <4>1, <4>2, <4>3
    <3> QED
      BY <1>1, <3>3, <3>4, <3>6, <3>7, <3>8
  <2> QED
    BY <2>1, <2>2
<1> HIDE DEF back
<1>5. ASSUME NEW a \in attempts'
      PROVE  /\ a \in Attempts /\ a.n \in DOMAIN back /\ a.tab = a.n /\ a.epoch = 1
             /\ a.owed = back[a.n] /\ a.conn = back[a.n].conn
             /\ a = [n |-> a.n, conn |-> back[a.n].conn, epoch |-> 1, tab |-> a.n,
                     owed |-> back[a.n]]
  <2>1. PICK i \in DOMAIN back : a = [n |-> i, conn |-> back[i].conn, epoch |-> 1, tab |-> i,
                                      owed |-> back[i]]
    BY <1>3
  <2> QED
    BY <1>1, <2>1 DEF Attempts
<1>6. Typed'
  BY <1>0, <1>1, <1>2, <1>3, <1>4, <1>5 DEF Typed
<1>7. Numbered'
  <2>1. \A a, b \in attempts' : a.n = b.n => a = b
    BY <1>5
  <2>2. \A a \in attempts' : a.n \in 1..asked' /\ a.epoch > 0
    BY <1>1, <1>3, <1>5
  <2> QED
    BY <1>4, <2>1, <2>2 DEF Numbered, IsActive
<1>8. Placed'
  BY <1>4, <1>5 DEF Placed, Live, OnPicker, IsActive
<1>9. TextKept'
  <2>1. ASSUME NEW a \in attempts', ~skipped'
        PROVE  a.tab \in 1..MaxTabs /\ restore'[a.tab] = a.owed.text
    <3>1. back = s.tabs
      BY <1>3, <2>1
    <3> QED
      BY <1>2, <1>3, <1>5, <3>1
  <2> QED
    BY <2>1 DEF TextKept
<1>10. PickedHere'
  BY <1>3 DEF PickedHere
<1>11. OpensWhereAskedUnlessMoved'
  BY <1>4 DEF OpensWhereAskedUnlessMoved, OpensWhereAsked, IsActive
<1>12. ConnectingIsServed'
  <2>1. ASSUME NEW i \in DOMAIN tabs', tabs'[i].connecting # None
        PROVE  \E b \in attempts' : b.tab \in DOMAIN tabs' /\ b.epoch = tabs'[b.tab].epoch
                                     /\ b.tab = i /\ b.n = tabs'[i].asked
    <3>1. i \in DOMAIN back /\ tabs'[i].epoch = 1 /\ tabs'[i].asked = i
      BY <1>4, <2>1
    <3>2. [n |-> i, conn |-> back[i].conn, epoch |-> 1, tab |-> i, owed |-> back[i]] \in attempts'
      BY <1>3, <3>1
    <3> QED
      BY <3>1, <3>2
  <2> QED
    BY <2>1 DEF ConnectingIsServed, Live
<1> QED
  BY <1>4, <1>6, <1>7, <1>8, <1>9, <1>10, <1>11, <1>12 DEF TabsInv

-----------------------------------------------------------------------------
(* Every step, and the theorems.                                            *)
LEMMA StepTabs == TabsInv /\ [Next]_vars => TabsInv'
<1> SUFFICES ASSUME TabsInv, [Next]_vars PROVE TabsInv'
  OBVIOUS
<1>1. ASSUME Typed', Quiet, PickedHere' PROVE TabsInv'
  BY <1>1, QuietKeeps DEF TabsInv
<1>2. ASSUME Typed', NEW i, NEW a, AsksOf(i, a) PROVE TabsInv'
  BY <1>2, AskKeeps DEF TabsInv
<1>3. ASSUME Quiet, picking' = picking PROVE PickedHere'
  BY <1>3, QuietKeeps
<1>4. CASE \/ \E c \in Conns : \/ AddConnection(c) \/ DeleteConnection(c)
                               \/ \E d \in Conns : RenameConnection(c, d)
           \/ \E f \in Conns \cup {None} : Filter(f)
  BY <1>1, <1>3, <1>4, ListsAreQuiet
<1>5. CASE NewTab \/ ShowDiff \/ \E i \in DOMAIN tabs : GoToTab(i)
  BY <1>1, <1>3, <1>5, TabsAreQuiet
<1>6. CASE Types \/ ColumnsConfirmed \/ ColumnsCancelled \/ \E c \in Conns : PickColumns(c)
  BY <1>1, <1>6, TextsAreQuiet, PicksHere
<1>7. ASSUME NEW c \in Conns, NEW force \in BOOLEAN, Open(c, force) PROVE TabsInv'
  BY <1>2, <1>7, OpenAsks
<1>8. ASSUME NEW row \in DOMAIN known, NavOpen(row) PROVE TabsInv'
  BY <1>1, <1>2, <1>3, <1>8, NavOpenAsks
<1>9. ASSUME NEW a \in attempts, Opened(a) \/ OpenFailed(a) PROVE TabsInv'
  <2>1. Typed' /\ \E t : AnswerTo(a, t)
    BY <1>9, AnswersAnswer
  <2> QED
    BY <2>1, AnswerKeeps DEF TabsInv
<1>10. CASE CloseTab
  BY <1>10, CloseKeeps
<1>11. CASE BackToPicker
  BY <1>11, BackKeeps
<1>12. CASE Quit
  BY <1>12, SessionSaved, LaunchKeeps DEF Quit, TabsInv
<1>13. CASE Crash \/ Panic
  BY <1>13, LaunchKeeps DEF Crash, Panic, TabsInv, Typed
<1>14. CASE UNCHANGED vars
  <2>1. Typed' /\ Quiet /\ picking' = picking
    BY <1>14 DEF vars, TabsInv, Typed, Quiet, Like
  <2> QED
    BY <1>1, <1>3, <2>1
<1> QED
  BY <1>4, <1>5, <1>6, <1>7, <1>8, <1>9, <1>10, <1>11, <1>12, <1>13, <1>14 DEF Next

LEMMA TabsHold == Spec => []TabsInv
  BY InitTabs, StepTabs, PTL DEF Spec

(* A tab shows the connection it asked for last, from the very connect it   *)
(* asked for, unless a tab below one that was asked from was closed.        *)
THEOREM AnswersFindTheirTab == Spec => []OpensWhereAskedUnlessMoved
<1>1. TabsInv => OpensWhereAskedUnlessMoved
  BY DEF TabsInv
<1> QED
  BY <1>1, TabsHold, PTL

(* A picker that says "connecting" will be told how that ended: the answer  *)
(* to its last request is out, and will not be dropped as stale.            *)
THEOREM ConnectingIsAnswered == Spec => []ConnectingIsServed
<1>1. TabsInv => ConnectingIsServed
  BY DEF TabsInv
<1> QED
  BY <1>1, TabsHold, PTL

(* Where the screen on a tab comes from: it was on one, it is a diff, or it *)
(* is the answer to a connect of that tab, with the text kept for it.       *)
ComesFrom(i) ==
    \/ \E j \in DOMAIN tabs : tabs[j].screen # None /\ tabs'[i].screen.by = tabs[j].screen.by
    \/ tabs'[i].screen.by = 0
    \/ \E b \in attempts : /\ i = b.tab /\ tabs'[i].screen.by = b.n
                           /\ tabs'[i].screen.text = restore[b.tab]

LEMMA ScreensComeFrom ==
  ASSUME TabsInv, [Next]_vars, NEW i \in DOMAIN tabs', tabs'[i].screen # None
  PROVE  ComesFrom(i)
<1>1. ASSUME Quiet PROVE ComesFrom(i)
  BY <1>1 DEF Quiet, Like, Blank, ComesFrom
<1>2. ASSUME NEW k, NEW a, AsksOf(k, a) PROVE ComesFrom(i)
  BY <1>2 DEF AsksOf, ComesFrom
<1>3. CASE \/ \E c \in Conns : \/ AddConnection(c) \/ DeleteConnection(c)
                               \/ \E d \in Conns : RenameConnection(c, d)
           \/ \E f \in Conns \cup {None} : Filter(f)
  BY <1>1, <1>3, ListsAreQuiet
<1>4. CASE NewTab \/ ShowDiff \/ \E k \in DOMAIN tabs : GoToTab(k)
  BY <1>1, <1>4, TabsAreQuiet
<1>5. CASE Types \/ ColumnsConfirmed \/ ColumnsCancelled \/ \E c \in Conns : PickColumns(c)
  BY <1>1, <1>5, TextsAreQuiet
<1>6. ASSUME NEW c \in Conns, NEW force \in BOOLEAN, Open(c, force) PROVE ComesFrom(i)
  BY <1>2, <1>6, OpenAsks
<1>7. ASSUME NEW row \in DOMAIN known, NavOpen(row) PROVE ComesFrom(i)
  BY <1>1, <1>2, <1>7, NavOpenAsks
<1>8. ASSUME NEW a \in attempts, Opened(a) \/ OpenFailed(a) PROVE ComesFrom(i)
  <2>1. PICK t : AnswerTo(a, t)
    BY <1>8, AnswersAnswer
  <2> QED
    BY <2>1 DEF AnswerTo, ComesFrom
<1>9. CASE CloseTab
  <2>1. PICK j \in DOMAIN tabs : tabs'[i] = tabs[j]
    BY <1>9, CloseKeeps
  <2> QED
    BY <2>1 DEF ComesFrom
<1>10. CASE BackToPicker
  BY <1>10, BackKeeps DEF ComesFrom
<1>11. CASE Quit
  BY <1>11, SessionSaved, LaunchKeeps DEF Quit, TabsInv
<1>12. CASE Crash \/ Panic
  BY <1>12, LaunchKeeps DEF Crash, Panic, TabsInv, Typed
<1>13. CASE UNCHANGED vars
  BY <1>13 DEF vars, ComesFrom
<1> QED
  BY <1>3, <1>4, <1>5, <1>6, <1>7, <1>8, <1>9, <1>10, <1>11, <1>12, <1>13 DEF Next

(* A restored tab opens with the text that was saved for it, if no tab was  *)
(* closed since the launch and none was skipped by it.                      *)
THEOREM TextsAreRestored == Spec => RestoredTextIsItsOwn
<1>1. ASSUME TabsInv, [Next]_vars, NEW a \in attempts, NEW i \in DOMAIN tabs',
             a.owed # None, tabs'[i].screen # None, tabs'[i].screen.by = a.n, OnPicker(i)
      PROVE  moved \/ skipped \/ tabs'[i].screen.text = a.owed.text
  <2>1. a.n \in 1..asked /\ asked \in Nat /\ a.n # 0
    BY <1>1 DEF TabsInv, Numbered, Typed
  <2>2. ComesFrom(i)
    BY <1>1, ScreensComeFrom
  <2>3. ~ \E j \in DOMAIN tabs : tabs[j].screen # None /\ tabs'[i].screen.by = tabs[j].screen.by
    BY <1>1 DEF TabsInv, Numbered, IsActive
  <2>4. PICK b \in attempts : /\ i = b.tab /\ tabs'[i].screen.by = b.n
                              /\ tabs'[i].screen.text = restore[b.tab]
    BY <1>1, <2>1, <2>2, <2>3 DEF ComesFrom
  <2>5. b = a
    BY <1>1, <2>4 DEF TabsInv, Numbered
  <2> QED
    BY <1>1, <2>4, <2>5 DEF TabsInv, TextKept
<1>2. TabsInv /\ [Next]_vars =>
        [\A a \in attempts : \A i \in DOMAIN tabs' :
           a.owed # None /\ tabs'[i].screen # None /\ tabs'[i].screen.by = a.n /\ OnPicker(i)
             => moved \/ skipped \/ tabs'[i].screen.text = a.owed.text]_vars
  BY <1>1
<1> QED
  BY <1>2, TabsHold, PTL DEF Spec, RestoredTextIsItsOwn

(* A snippet is typed into a screen of the connection its table is in.      *)
THEOREM SnippetsFindTheirConnection == Spec => SnippetsGoToTheirConnection
<1>1. ASSUME TabsInv, [Next]_vars, ColumnsConfirmed, ~moved
      PROVE  tabs'[active'].screen # None /\ tabs'[active'].screen.title = picking.conn
  <2>1. /\ picking.tab \in DOMAIN tabs /\ tabs[picking.tab].screen # None
        /\ tabs[picking.tab].screen.title = picking.conn
    BY <1>1 DEF TabsInv, PickedHere, ColumnsConfirmed, IsActive
  <2>2. Quiet /\ active' = picking.tab
    BY <1>1, TextsAreQuiet DEF ColumnsConfirmed
  <2> QED
    BY <2>1, <2>2 DEF Quiet, Like
<1>2. TabsInv /\ [Next]_vars =>
        [ColumnsConfirmed /\ ~moved =>
           tabs'[active'].screen # None /\ tabs'[active'].screen.title = picking.conn]_vars
  BY <1>1
<1> QED
  BY <1>2, TabsHold, PTL DEF Spec, SnippetsGoToTheirConnection
=============================================================================
