--------------------------- MODULE Server_proofs ---------------------------
(***************************************************************************)
(* The server's processes: of any number of them that come up, stop and    *)
(* crash in any order, one that started and stops beside nobody serves     *)
(* alone, on the path that names it, and no stale file kept it out.        *)
(*                                                                         *)
(* The results a server holds: for any limits and any results, what names  *)
(* them agrees, they stay within the limits, an execute evicts the oldest  *)
(* and no more than it must, and an id is never given twice.               *)
(*                                                                         *)
(* A running tail: for a ring of any size, any number of items and any     *)
(* number of threads, the ring and what the forwarder took from it stay    *)
(* within the cap, the forwarder never waits while items it was not told   *)
(* of are there, what is queued after the reply to a stop is no more than  *)
(* was carried then, and what is queued of the peer's items is a lossy     *)
(* feed of them.                                                           *)
(*                                                                         *)
(* The clients: on any number of sockets and subscriptions, on worker      *)
(* threads too, the registry is consistent and complete; no tail outlives  *)
(* a socket that was read to its end while no request of it was polled.    *)
(***************************************************************************)
EXTENDS ServerLifecycle, Cursors, TailPipeline, ClientSubscriptions, Lists_proofs,
        FiniteSetTheorems, SequenceTheorems, TLAPS

-----------------------------------------------------------------------------
(* The processes of a server: ServerLifecycle.                              *)

(* The states from `bind` on, in which the path is the process's own.       *)
Owning == {"bound", "listening", "serving", "stopping"}

(* ... and those before it in which the process acts on what it learnt.     *)
Taking == {"removing", "binding"} \cup Owning

(* A process that did not overlap another one starts by itself, ...         *)
StartsAlone ==
    \A s \in Servers \ raced : pc[s] \in Starting =>
        raced = {} /\ \A u \in Servers \ {s} : pc[u] \notin Starting \cup {"stopping"}

(* ... stops while nobody starts, ...                                       *)
StopsAlone ==
    \A s \in Servers \ raced : pc[s] = "stopping" => \A u \in Servers : pc[u] \notin Starting

(* ... is the one its path names, ...                                       *)
OwnersAreNamed == \A s \in Servers \ raced : pc[s] \in Owning => file = s

(* ... and has nobody beside it, overlapping others included, that takes    *)
(* the path or has it.                                                      *)
NobodyElse ==
    \A s \in Servers \ raced : pc[s] \in Taking =>
        \A u \in Servers \ {s} : pc[u] \notin Taking

Inv == ServersTypeOK /\ StartsAlone /\ StopsAlone /\ OwnersAreNamed /\ NobodyElse

-----------------------------------------------------------------------------
(* The initial state: nobody runs.                                          *)
LEMMA InitInv == ServersInit => Inv
  BY LifecycleAssumption DEF ServersInit, Inv, ServersTypeOK, StartsAlone, StopsAlone,
     OwnersAreNamed, NobodyElse, Starting, Owning, Taking

(* Every step of a process preserves the invariant.                         *)
LEMMA StepInv ==
  ASSUME Inv, [ServersNext]_lifecycle
  PROVE  Inv'
<1> USE LifecycleAssumption DEF Inv, ServersTypeOK, StartsAlone, StopsAlone, OwnersAreNamed,
                                NobodyElse, Starting, Owning, Taking, Goto
<1>1. CASE UNCHANGED lifecycle
  BY <1>1 DEF lifecycle
<1>2. ASSUME NEW s \in Servers, Start(s)
      PROVE  Inv'
  BY <1>2 DEF Start, In
<1>3. ASSUME NEW s \in Servers, Check(s)
      PROVE  Inv'
  BY <1>3 DEF Check
<1>4. ASSUME NEW s \in Servers, Probe(s)
      PROVE  Inv'
  BY <1>4 DEF Probe, Answers
<1>5. ASSUME NEW s \in Servers, RemoveStale(s)
      PROVE  Inv'
  BY <1>5 DEF RemoveStale
<1>6. ASSUME NEW s \in Servers, Bind(s)
      PROVE  Inv'
  BY <1>6 DEF Bind
<1>7. ASSUME NEW s \in Servers, Listen(s) \/ Chmod(s)
      PROVE  Inv'
  BY <1>7 DEF Listen, Chmod
<1>8. ASSUME NEW s \in Servers, Stop(s)
      PROVE  Inv'
  BY <1>8 DEF Stop, In
<1>9. ASSUME NEW s \in Servers, RemoveSocket(s) \/ Crash(s)
      PROVE  Inv'
  BY <1>9 DEF RemoveSocket, Crash
<1>10. QED
  BY <1>1, <1>2, <1>3, <1>4, <1>5, <1>6, <1>7, <1>8, <1>9 DEF ServersNext, Step

-----------------------------------------------------------------------------
(* The invariant holds throughout, however the processes overlap.           *)
THEOREM PathsHold == ServersSpec => []Inv
  BY InitInv, StepInv, PTL DEF ServersSpec

(* A process that serves, and started and stops beside nobody, is the one a  *)
(* client that opens the path reaches, and the only one that serves, beside  *)
(* starts that overlap each other too (`bind`, transport.rs).                *)
THEOREM ServerIsReachable == ServersSpec => []ServingIsReachable
<1>1. Inv => ServingIsReachable
  BY DEF Inv, OwnersAreNamed, NobodyElse, Owning, Taking, ServingIsReachable
<1> QED
  BY PathsHold, <1>1, PTL

-----------------------------------------------------------------------------
(* What a process that starts by itself learnt about the path is still so    *)
(* when it acts on it.                                                       *)
PathAsSeen ==
    \A s \in Servers \ raced :
        /\ pc[s] \in {"probing", "removing"} => file # None
        /\ pc[s] = "binding" => file = None

LEMMA StepPathAsSeen ==
  ASSUME Inv, PathAsSeen, [ServersNext]_lifecycle
  PROVE  PathAsSeen'
<1> USE LifecycleAssumption DEF Inv, ServersTypeOK, StartsAlone, PathAsSeen, Starting, Goto
<1>1. CASE UNCHANGED lifecycle
  BY <1>1 DEF lifecycle
<1>2. ASSUME NEW s \in Servers, Start(s)
      PROVE  PathAsSeen'
  BY <1>2 DEF Start, In
<1>3. ASSUME NEW s \in Servers, Check(s) \/ Probe(s)
      PROVE  PathAsSeen'
  BY <1>3 DEF Check, Probe
<1>4. ASSUME NEW s \in Servers, RemoveStale(s) \/ Bind(s)
      PROVE  PathAsSeen'
  BY <1>4 DEF RemoveStale, Bind
<1>5. ASSUME NEW s \in Servers, Listen(s) \/ Chmod(s) \/ Stop(s) \/ Crash(s)
      PROVE  PathAsSeen'
  BY <1>5 DEF Listen, Chmod, Stop, Crash, In
<1>6. ASSUME NEW s \in Servers, RemoveSocket(s)
      PROVE  PathAsSeen'
  BY <1>6 DEF RemoveSocket
<1> QED
  BY <1>1, <1>2, <1>3, <1>4, <1>5, <1>6 DEF ServersNext, Step

(* A process that starts by itself and gives up leaves one behind that       *)
(* answers: whatever socket file crashes left, at whatever point of `bind`   *)
(* or of the end of `main`, the next start gets past it.                     *)
THEOREM StaleFilesAreReplaced == ServersSpec => StaleFilesAreNoObstacle
<1>1. ServersInit => PathAsSeen
  BY DEF ServersInit, PathAsSeen
<1>2. Inv /\ PathAsSeen /\ [ServersNext]_lifecycle => PathAsSeen'
  BY StepPathAsSeen
<1>3. ASSUME Inv, PathAsSeen, NEW s \in Servers \ raced, Step(s), pc'[s] = "exited"
      PROVE  \E u \in Servers \ {s} : Answers(u)
  <2> USE <1>3 DEF Inv, ServersTypeOK, Goto
  <2>1. CASE Probe(s)
    BY <2>1 DEF Probe, Answers
  <2>2. ~Check(s) /\ ~Listen(s)
    BY DEF Check, Listen
  <2>3. ~RemoveStale(s) /\ ~Bind(s)
    BY DEF RemoveStale, Bind, PathAsSeen
  <2>4. ~Chmod(s)
    BY LifecycleAssumption DEF Chmod, OwnersAreNamed, Owning
  <2> QED
    BY <2>1, <2>2, <2>3, <2>4 DEF Step
<1>4. Inv /\ PathAsSeen /\ [ServersNext]_lifecycle =>
        [\A s \in Servers \ raced : Step(s) /\ pc'[s] = "exited" =>
            \E u \in Servers \ {s} : Answers(u)]_lifecycle
  BY <1>3
<1> QED
  BY PathsHold, <1>1, <1>2, <1>4, PTL DEF ServersSpec, StaleFilesAreNoObstacle

-----------------------------------------------------------------------------
(* The results a server holds: Cursors.                                     *)

(* The server holds its results soundly, as an inductive invariant: no id   *)
(* it holds is past the last one given.                                     *)
StoreInv ==
    /\ StoreTypeOK
    /\ StoreConsistent
    /\ \A c \in cursors : c <= next
    /\ MemoryBounded

Rising(o) == \A i, j \in DOMAIN o : i < j => o[i] < o[j]

(* s is o without its first k.                                              *)
Without(s, o, k) == \A i \in 1..Len(s) : s[i] = o[i + k]

(* What is left of a rising list when its k oldest are popped.              *)
LEMMA Popped ==
  ASSUME NEW o \in Seq(Ids), Rising(o), NEW k \in 0..Len(o), NEW s, s = SubSeq(o, k + 1, Len(o))
  PROVE  /\ s \in Seq(Ids) /\ Len(s) = Len(o) - k
         /\ Without(s, o, k)
         /\ Rising(s)
         /\ ToSet(s) = ToSet(o) \ Oldest(o, k)
<1> DEFINE n == Len(o)
           m == Len(s)
<1>1. n \in Nat /\ DOMAIN o = 1..n /\ \A i \in 1..n : o[i] \in Ids /\ o[i] \in Nat
  BY LenProperties, ElementOfSeq, CursorsAssumption DEF Ids
<1>2. k \in Nat /\ k <= n
  BY <1>1
<1>3. /\ s \in Seq(Ids)
      /\ m = IF k + 1 <= n THEN n - (k + 1) + 1 ELSE 0
      /\ \A i \in 1..(n - (k + 1) + 1) : s[i] = o[(k + 1) + i - 1]
  <2>1. k + 1 \in Int /\ n \in Int /\ \A i \in (k + 1)..n : o[i] \in Ids
    BY <1>1, <1>2
  <2> QED
    BY <2>1, SubSeqProperties
<1>4. DOMAIN s = 1..m
  BY <1>3, LenProperties
<1> HIDE DEF n, m
<1>5. m = n - k /\ n - (k + 1) + 1 = m
  BY <1>1, <1>2, <1>3
<1>6. ASSUME NEW i \in 1..m
      PROVE  s[i] = o[i + k] /\ i + k \in 1..n /\ i + k > k /\ i \in Nat
  <2>1. (k + 1) + i - 1 = i + k /\ i + k \in 1..n /\ i + k > k /\ i \in Nat
    BY <1>1, <1>2, <1>5
  <2> QED
    BY <1>3, <1>5, <2>1
<1>7. Rising(s)
  <2> SUFFICES ASSUME NEW i \in 1..m, NEW j \in 1..m, i < j
               PROVE  s[i] < s[j]
    BY <1>4 DEF Rising
  <2>1. i \in Nat /\ j \in Nat
    BY <1>6
  <2>2. i + k < j + k
    BY <1>2, <2>1
  <2> QED
    BY <1>1, <1>6, <2>2 DEF Rising
<1>8. Oldest(o, k) = {o[i] : i \in 1..k}
  <2> DEFINE p == SubSeq(o, 1, k)
  <2>1. 1 \in Int /\ k \in Int /\ \A i \in 1..k : o[i] \in Ids
    BY <1>1, <1>2
  <2>2. p \in Seq(Ids) /\ Len(p) = (IF 1 <= k THEN k - 1 + 1 ELSE 0)
        /\ \A i \in 1..(k - 1 + 1) : p[i] = o[1 + i - 1]
    BY <2>1, SubSeqProperties
  <2>3. DOMAIN p = 1..Len(p)
    BY <2>2, LenProperties
  <2> HIDE DEF p
  <2>4. k - 1 + 1 = k /\ \A i \in 1..k : 1 + i - 1 = i
    BY <1>2
  <2>5. DOMAIN p = 1..k /\ \A i \in 1..k : p[i] = o[i]
    BY <1>2, <2>2, <2>3, <2>4
  <2>6. ToSet(p) = {o[i] : i \in 1..k}
    BY <2>5 DEF ToSet
  <2> QED
    BY <2>6 DEF p, Oldest
<1>9. ToSet(s) \subseteq ToSet(o) \ Oldest(o, k)
  <2> SUFFICES ASSUME NEW i \in 1..m
               PROVE  s[i] \in ToSet(o) /\ ~ \E j \in 1..k : s[i] = o[j]
    BY <1>4, <1>8 DEF ToSet
  <2>1. PICK q \in 1..n : s[i] = o[q] /\ q > k
    BY <1>6
  <2>2. s[i] \in ToSet(o) /\ o[q] \in Nat
    BY <1>1, <2>1 DEF ToSet
  <2>3. ASSUME NEW j \in 1..k PROVE s[i] # o[j]
    <3>1. j \in 1..n /\ j < q
      BY <1>1, <1>2, <2>1
    <3>2. o[j] < o[q] /\ o[j] \in Nat
      BY <1>1, <3>1 DEF Rising
    <3>3. o[j] # o[q]
      BY <2>2, <3>2
    <3> QED
      BY <2>1, <3>3
  <2> QED
    BY <2>2, <2>3
<1>10. ToSet(o) \ Oldest(o, k) \subseteq ToSet(s)
  <2> SUFFICES ASSUME NEW i \in 1..n, ~ (i \in 1..k)
               PROVE  \E j \in 1..m : s[j] = o[i]
    BY <1>1, <1>4, <1>8 DEF ToSet
  <2>1. i \in Nat /\ i > k /\ i <= n
    BY <1>1, <1>2
  <2>2. i - k \in 1..m /\ (i - k) + k = i
    BY <1>1, <1>2, <1>5, <2>1
  <2> QED
    BY <1>6, <2>2
<1> QED
  BY <1>3, <1>5, <1>6, <1>7, <1>9, <1>10 DEF Without, n, m

(* The eviction loop ends before it has popped the last of the list, the    *)
(* result just stored.                                                      *)
LEMMA RoundsAre ==
  ASSUME NEW weight, NEW o, Len(o) \in Nat, Len(o) >= 1
  PROVE  /\ Rounds(weight, o) \in 0..(Len(o) - 1)
         /\ ~MustEvict(weight, o, Rounds(weight, o))
         /\ \A j \in 0..(Rounds(weight, o) - 1) : MustEvict(weight, o, j)
<1> DEFINE Go(k) == MustEvict(weight, o, k)
           Ends == {k \in 0..Len(o) : ~Go(k)}
           last == Len(o) - 1
<1>1. last \in 0..Len(o) /\ last \in Nat
  OBVIOUS
<1>2. ~Go(last)
  <2>1. Len(o) - last = 1
    OBVIOUS
  <2>2. ~(Len(o) - last > MaxCursors) /\ ~(Len(o) - last > 1)
    BY <2>1, CursorsAssumption
  <2> QED
    BY <2>2 DEF MustEvict
<1>3. PICK k \in Ends : \A j \in Ends : k <= j
  <2>1. Ends \in SUBSET Nat /\ last \in Ends
    BY <1>1, <1>2
  <2> HIDE DEF Ends
  <2> QED
    BY <2>1, LeastExists
<1> HIDE DEF Go
<1>4. \A j \in 0..(k - 1) : Go(j)
  <2> TAKE j \in 0..(k - 1)
  <2>1. j \in 0..Len(o) /\ ~ (k <= j)
    BY <1>3
  <2> QED
    BY <1>3, <2>1
<1> DEFINE r == Rounds(weight, o)
<1>5. r \in 0..Len(o) /\ ~Go(r) /\ \A j \in 0..(r - 1) : Go(j)
  <2>1. k \in 0..Len(o) /\ ~Go(k) /\ \A j \in 0..(k - 1) : Go(j)
    BY <1>3, <1>4
  <2> QED
    BY <2>1 DEF Rounds, Go
<1> HIDE DEF r
<1>6. r \in 0..last
  <2>1. ~ (last \in 0..(r - 1))
    BY <1>2, <1>5 DEF Go
  <2> QED
    BY <1>1, <1>5, <2>1
<1> QED
  BY <1>5, <1>6 DEF r, Go

(* What `execute` works on: the list with the fresh id at its end, and the  *)
(* weights with that of its result.                                         *)
All == Append(order, next + 1)

Weight(size) ==
    [c \in DOMAIN bytes \cup {next + 1} |-> IF c = next + 1 THEN size ELSE bytes[c]]

LEMMA WithTheResult ==
  ASSUME StoreInv, NEW size \in Sizes, next < MaxResults
  PROVE  /\ next + 1 \in Ids /\ next + 1 \notin cursors
         /\ All \in Seq(Ids) /\ Len(All) = Len(order) + 1 /\ Len(order) \in Nat /\ Rising(All)
         /\ All[Len(All)] = next + 1
         /\ \A i \in 1..Len(order) : All[i] = order[i]
         /\ ToSet(All) = cursors \cup {next + 1} /\ DOMAIN Weight(size) = ToSet(All)
         /\ \A c \in ToSet(All) : Weight(size)[c] \in Sizes
<1> USE DEF StoreInv, StoreTypeOK, StoreConsistent
<1>1. next \in Nat /\ MaxResults \in Nat /\ next + 1 \in Ids
  BY CursorsAssumption DEF Ids
<1>2. \A c \in cursors : c \in Nat /\ c <= next /\ c # next + 1
  BY <1>1 DEF Ids
<1>3. /\ All \in Seq(Ids) /\ Len(All) = Len(order) + 1
      /\ \A i \in 1..Len(order) : All[i] = order[i]
      /\ All[Len(order) + 1] = next + 1
  BY <1>1, AppendProperties DEF All
<1>4. Len(order) \in Nat /\ DOMAIN order = 1..Len(order) /\ DOMAIN All = 1..Len(All)
  BY <1>3, LenProperties
<1>5. \A i \in 1..Len(order) : order[i] \in cursors
  BY <1>4 DEF ToSet
<1>6. Rising(All)
  <2> SUFFICES ASSUME NEW i \in 1..(Len(order) + 1), NEW j \in 1..(Len(order) + 1), i < j
               PROVE  All[i] < All[j]
    BY <1>3, <1>4 DEF Rising
  <2>1. i \in 1..Len(order) /\ (j \in 1..Len(order) \/ j = Len(order) + 1)
    BY <1>4
  <2>2. CASE j \in 1..Len(order)
    BY <1>3, <1>4, <2>1, <2>2
  <2>3. CASE j = Len(order) + 1
    <3>1. All[i] \in cursors /\ All[j] = next + 1
      BY <1>3, <1>5, <2>1, <2>3
    <3> QED
      BY <1>1, <1>2, <3>1
  <2> QED
    BY <2>1, <2>2, <2>3
<1>7. ToSet(All) = cursors \cup {next + 1}
  <2>1. 1..Len(All) = 1..Len(order) \cup {Len(order) + 1}
    BY <1>3, <1>4
  <2>2. ToSet(order) = {order[i] : i \in 1..Len(order)} /\ ToSet(All) = {All[i] : i \in 1..Len(All)}
    BY <1>4 DEF ToSet
  <2> QED
    BY <1>3, <2>1, <2>2
<1>8. DOMAIN Weight(size) = ToSet(All) /\ \A c \in ToSet(All) : Weight(size)[c] \in Sizes
  BY <1>2, <1>7 DEF Weight
<1> QED
  BY <1>1, <1>2, <1>3, <1>4, <1>6, <1>7, <1>8

(* What `execute` leaves: of the whole, all but the k oldest, for the first *)
(* k within the limits.                                                     *)
LEMMA Storing ==
  ASSUME StoreInv, NEW size \in Sizes, Store(size)
  PROVE  \E k \in 0..(Len(All) - 1) :
           /\ ~MustEvict(Weight(size), All, k)
           /\ \A j \in 0..(k - 1) : MustEvict(Weight(size), All, j)
           /\ order' = SubSeq(All, k + 1, Len(All))
           /\ cursors' = ToSet(All) \ Oldest(All, k)
           /\ bytes' = [c \in ToSet(All) \ Oldest(All, k) |-> Weight(size)[c]]
           /\ next' = next + 1
<1> DEFINE k == Rounds(Weight(size), All)
<1>1. Len(All) \in Nat /\ Len(All) >= 1 /\ ToSet(All) = cursors \cup {next + 1}
      /\ DOMAIN Weight(size) = ToSet(All)
  BY WithTheResult DEF Store
<1>2. /\ next' = next + 1
      /\ order' = SubSeq(All, k + 1, Len(All))
      /\ cursors' = (cursors \cup {next + 1}) \ Oldest(All, k)
      /\ bytes' = [c \in DOMAIN Weight(size) \ Oldest(All, k) |-> Weight(size)[c]]
  BY Zenon DEF Store, Weight, All
<1>3. k \in 0..(Len(All) - 1) /\ ~MustEvict(Weight(size), All, k)
      /\ \A j \in 0..(k - 1) : MustEvict(Weight(size), All, j)
  BY <1>1, RoundsAre
<1> HIDE DEF k
<1>4. \E kk \in 0..(Len(All) - 1) : kk = k
  BY <1>3
<1> QED
  BY <1>1, <1>2, <1>3

LEMMA StoreKeeps ==
  ASSUME StoreInv, NEW size \in Sizes, Store(size)
  PROVE  StoreInv'
<1> DEFINE w == Weight(size)
           o == All
<1>1. PICK k \in 0..(Len(o) - 1) :
        /\ ~MustEvict(w, o, k)
        /\ order' = SubSeq(o, k + 1, Len(o))
        /\ cursors' = ToSet(o) \ Oldest(o, k)
        /\ bytes' = [c \in ToSet(o) \ Oldest(o, k) |-> w[c]]
        /\ next' = next + 1
  BY Storing
<1>2. /\ next + 1 \in Ids /\ next \in Nat /\ MaxResults \in Nat
      /\ o \in Seq(Ids) /\ Len(o) \in Nat /\ Rising(o)
      /\ ToSet(o) = cursors \cup {next + 1} /\ DOMAIN w = ToSet(o)
      /\ \A c \in ToSet(o) : w[c] \in Sizes
  BY WithTheResult, CursorsAssumption, LenProperties DEF Store, StoreInv, StoreTypeOK
<1>3. cursors \subseteq Ids /\ \A c \in cursors : c <= next
  BY DEF StoreInv, StoreTypeOK
<1> HIDE DEF w, o
<1>4. k \in 0..Len(o) /\ k \in Nat
  BY <1>2
<1>5. /\ order' \in Seq(Ids) /\ Len(order') = Len(o) - k /\ Rising(order')
      /\ ToSet(order') = cursors'
  BY <1>1, <1>2, <1>4, Popped
<1>6. StoreTypeOK'
  <2>1. cursors' \subseteq Ids /\ DOMAIN bytes' = cursors' /\ \A c \in cursors' : bytes'[c] = w[c]
    BY <1>1, <1>2, <1>3
  <2>2. \A c \in DOMAIN bytes' : bytes'[c] \in Sizes
    BY <1>1, <1>2, <2>1
  <2>3. next' \in 0..MaxResults
    BY <1>1, <1>2 DEF Ids
  <2> QED
    BY <1>5, <2>1, <2>2, <2>3 DEF StoreTypeOK
<1>7. StoreConsistent'
  BY <1>1, <1>5 DEF StoreConsistent, Rising
<1>8. \A c \in cursors' : c <= next'
  <2>1. \A c \in cursors' : c \in cursors \/ c = next + 1
    BY <1>1, <1>2
  <2>2. \A c \in cursors : c \in Nat
    BY <1>3 DEF Ids
  <2> QED
    BY <1>1, <1>2, <1>3, <2>1, <2>2
<1>9. MemoryBounded'
  <2>1. Len(order') <= MaxCursors
    BY <1>1, <1>2, <1>4, <1>5, CursorsAssumption DEF MustEvict
  <2>2. ASSUME Len(order') > 1
        PROVE  SumFunctionOnSet(bytes', ToSet(order')) <= MaxBytes
    <3>1. IsFiniteSet(cursors')
      <4>1. IsFiniteSet(Ids)
        <5>1. 1 \in Int /\ MaxResults \in Int
          BY <1>2
        <5> QED
          BY <5>1, FS_Interval DEF Ids
      <4> QED
        BY <1>6, <4>1, FS_Subset DEF StoreTypeOK
    <3>2. \A c \in cursors' : bytes'[c] = w[c]
      BY <1>1
    <3>3. \A c \in cursors' : w[c] \in Nat
      BY <1>1, <1>2, CursorsAssumption
    <3>4. SumFunctionOnSet(bytes', cursors') = SumFunctionOnSet(w, cursors')
      BY <3>1, <3>2, SumAgrees
    <3>5. SumFunctionOnSet(w, cursors') \in Nat
      BY <3>1, <3>3, SumGrows DEF Natural
    <3>6. HeldAfter(w, o, k) = SumFunctionOnSet(w, cursors')
      BY <1>1, <1>2 DEF HeldAfter
    <3>7. ~ (HeldAfter(w, o, k) > MaxBytes)
      BY <1>1, <1>5, <2>2 DEF MustEvict
    <3>8. SumFunctionOnSet(w, cursors') <= MaxBytes
      BY <3>5, <3>6, <3>7, CursorsAssumption
    <3> QED
      BY <1>5, <3>4, <3>8
  <2> QED
    BY <2>1, <2>2 DEF MemoryBounded
<1> QED
  BY <1>6, <1>7, <1>8, <1>9 DEF StoreInv

LEMMA CloseKeeps ==
  ASSUME StoreInv, NEW c \in Ids, Close(c)
  PROVE  StoreInv'
<1> DEFINE K == {i \in DOMAIN order : order[i] # c}
<1>1. /\ order \in Seq(Ids) /\ Len(order) \in Nat /\ ToSet(order) = cursors /\ Rising(order)
      /\ cursors \subseteq Ids /\ DOMAIN bytes = cursors /\ \A x \in cursors : x <= next
      /\ \A x \in DOMAIN bytes : bytes[x] \in Sizes
      /\ MaxCursors \in Nat /\ MaxBytes \in Nat /\ Sizes \subseteq Nat /\ MaxResults \in Nat
  BY LenProperties, CursorsAssumption DEF StoreInv, StoreTypeOK, StoreConsistent, Rising
<1>2. /\ order' = Kept(order, K) /\ bytes' = [x \in DOMAIN bytes \ {c} |-> bytes[x]]
      /\ cursors' = cursors \ {c} /\ next' = next
  BY DEF Close
<1>3. K \in SUBSET DOMAIN order
  OBVIOUS
<1>4. {order[i] : i \in K} = cursors \ {c}
  BY <1>1 DEF ToSet
<1> HIDE DEF K
<1>5. /\ order' \in Seq(Ids) /\ Len(order') <= Len(order) /\ Len(order') \in Nat
      /\ ToSet(order') = cursors'
      /\ \A k, l \in DOMAIN order' : k < l =>
            \E i, j \in K : i < j /\ order'[k] = order[i] /\ order'[l] = order[j]
  <2>1. /\ order' \in Seq(Ids) /\ Len(order') <= Len(order)
        /\ ToSet(order') = {order[i] : i \in K}
        /\ \A k, l \in DOMAIN order' : k < l =>
              \E i, j \in K : i < j /\ order'[k] = order[i] /\ order'[l] = order[j]
    BY <1>1, <1>2, <1>3, KeptIs, KeptOrders
  <2> QED
    BY <1>2, <1>4, <2>1, LenProperties
<1>6. StoreTypeOK'
  BY <1>1, <1>2, <1>5 DEF StoreTypeOK, StoreInv
<1>7. StoreConsistent'
  <2>1. Rising(order')
    BY <1>1, <1>3, <1>5 DEF Rising
  <2> QED
    BY <1>1, <1>2, <1>5, <2>1 DEF StoreConsistent, Rising
<1>8. \A x \in cursors' : x <= next'
  BY <1>1, <1>2
<1>9. MemoryBounded'
  <2>1. Len(order) <= MaxCursors /\ (Len(order) > 1 => SumFunctionOnSet(bytes, cursors) <= MaxBytes)
    BY <1>1 DEF StoreInv, MemoryBounded
  <2>2. IsFiniteSet(cursors)
    <3>1. 1 \in Int /\ MaxResults \in Int
      BY <1>1
    <3>2. IsFiniteSet(Ids)
      BY <3>1, FS_Interval DEF Ids
    <3> QED
      BY <1>1, <3>2, FS_Subset
  <2>3. IsFiniteSet(cursors') /\ cursors' \in SUBSET cursors
    BY <1>2, <2>2, FS_Subset
  <2>4. Natural(bytes, cursors)
    BY <1>1 DEF Natural
  <2>5. \A x \in cursors' : bytes'[x] = bytes[x]
    BY <1>1, <1>2
  <2>6. SumFunctionOnSet(bytes', cursors') = SumFunctionOnSet(bytes, cursors')
    BY <2>3, <2>5, SumAgrees
  <2>7. /\ SumFunctionOnSet(bytes, cursors) \in Nat /\ SumFunctionOnSet(bytes, cursors') \in Nat
        /\ SumFunctionOnSet(bytes, cursors') <= SumFunctionOnSet(bytes, cursors)
    BY <2>2, <2>3, <2>4, SumGrows
  <2>8. Len(order') <= MaxCursors /\ (Len(order') > 1 => Len(order) > 1)
    BY <1>1, <1>5, <2>1
  <2>9. Len(order') > 1 => SumFunctionOnSet(bytes', cursors') <= MaxBytes
    BY <1>1, <2>1, <2>6, <2>7, <2>8
  <2> QED
    BY <1>5, <2>8, <2>9 DEF MemoryBounded
<1> QED
  BY <1>6, <1>7, <1>8, <1>9 DEF StoreInv

LEMMA SuffixIs ==
  ASSUME NEW o \in Seq(Ids), NEW s \in Seq(Ids), NEW k \in 0..Len(o), Len(s) = Len(o) - k,
         Without(s, o, k)
  PROVE  IsSuffix(s, o)
<1> DEFINE n == Len(o)
           m == Len(s)
           r == Reverse(s)
           q == Reverse(o)
<1>1. n \in Nat /\ m \in Nat
      /\ (\A i \in 1..n : o[i] \in Ids) /\ (\A i \in 1..m : s[i] \in Ids)
  BY LenProperties, ElementOfSeq
<1>2. m = n - k /\ \A i \in 1..m : s[i] = o[i + k]
  BY DEF Without
<1> HIDE DEF n, m
<1>3. k \in Nat /\ k <= n
  BY <1>1 DEF n
<1>4. /\ \A i \in 1..m : (m - i) + 1 \in 1..m
      /\ \A i \in 1..n : (n - i) + 1 \in 1..n
  BY <1>1
<1>5. r = [i \in 1..m |-> s[(m - i) + 1]] /\ q = [i \in 1..n |-> o[(n - i) + 1]]
  BY DEF Reverse, n, m
<1>6. \A i \in 1..m : r[i] \in Ids /\ r[i] = s[(m - i) + 1]
  BY <1>1, <1>4, <1>5
<1>7. \A i \in 1..n : q[i] \in Ids /\ q[i] = o[(n - i) + 1]
  BY <1>1, <1>4, <1>5
<1>8. r \in Seq(Ids) /\ Len(r) = m /\ q \in Seq(Ids) /\ Len(q) = n
  BY <1>1, <1>4, <1>5
<1> HIDE DEF r, q
<1>9. \A i \in 1..m : r[i] = q[i]
  <2> TAKE i \in 1..m
  <2>1. i \in 1..n /\ (m - i) + 1 \in 1..m /\ ((m - i) + 1) + k = (n - i) + 1
    BY <1>1, <1>2, <1>3
  <2>2. r[i] = s[(m - i) + 1] /\ q[i] = o[(n - i) + 1]
    BY <1>6, <1>7, <2>1
  <2>3. s[(m - i) + 1] = o[((m - i) + 1) + k]
    BY <1>2, <2>1
  <2> QED
    BY <2>1, <2>2, <2>3
<1>10. SubSeq(r, 1, m) = SubSeq(q, 1, m)
  <2>1. 1 \in Int /\ m \in Int /\ m <= n /\ m - 1 + 1 = m /\ \A i \in 1..m : 1 + i - 1 = i /\ i \in 1..n
    BY <1>1, <1>2, <1>3
  <2>2. /\ \A i \in 1..m : r[i] \in Ids
        /\ \A i \in 1..m : q[i] \in Ids
    BY <1>6, <1>7, <2>1
  <2>3. /\ SubSeq(r, 1, m) \in Seq(Ids) /\ Len(SubSeq(r, 1, m)) = (IF 1 <= m THEN m - 1 + 1 ELSE 0)
        /\ \A i \in 1..(m - 1 + 1) : SubSeq(r, 1, m)[i] = r[1 + i - 1]
    BY <2>1, <2>2, SubSeqProperties
  <2>4. /\ SubSeq(q, 1, m) \in Seq(Ids) /\ Len(SubSeq(q, 1, m)) = (IF 1 <= m THEN m - 1 + 1 ELSE 0)
        /\ \A i \in 1..(m - 1 + 1) : SubSeq(q, 1, m)[i] = q[1 + i - 1]
    BY <2>1, <2>2, SubSeqProperties
  <2>5. Len(SubSeq(r, 1, m)) = m
    BY <1>1, <2>1, <2>3
  <2>6. \A i \in 1..m : SubSeq(r, 1, m)[i] = SubSeq(q, 1, m)[i]
    BY <1>9, <2>1, <2>3, <2>4
  <2> QED
    BY <2>3, <2>4, <2>5, <2>6, SeqEqual
<1>11. m <= n
  BY <1>1, <1>2, <1>3
<1> QED
  BY <1>8, <1>10, <1>11 DEF IsSuffix, IsPrefix, r, q

LEMMA EvictsLittle ==
  ASSUME StoreInv, NEW weigh \in Sizes, Store(weigh)
  PROVE  LET all  == Append(order, next')
             lost == Len(all) - Len(order')
             size == [c \in ToSet(all) |-> IF c = next' THEN bytes'[c] ELSE bytes[c]]
         IN /\ next' \in cursors'
            /\ IsSuffix(order', all)
            /\ lost > 0 =>
                  LET oneMore == SubSeq(all, lost, Len(all))
                  IN \/ Len(oneMore) > MaxCursors
                     \/ SumFunctionOnSet(size, ToSet(oneMore)) > MaxBytes
<1> DEFINE w == Weight(weigh)
           o == All
           size == [c \in ToSet(o) |-> IF c = next' THEN bytes'[c] ELSE bytes[c]]
<1>1. PICK k \in 0..(Len(o) - 1) :
        /\ \A j \in 0..(k - 1) : MustEvict(w, o, j)
        /\ order' = SubSeq(o, k + 1, Len(o))
        /\ cursors' = ToSet(o) \ Oldest(o, k)
        /\ bytes' = [c \in ToSet(o) \ Oldest(o, k) |-> w[c]]
        /\ next' = next + 1
  BY Storing
<1>2. /\ o \in Seq(Ids) /\ Len(o) \in Nat /\ Rising(o)
      /\ o[Len(o)] = next + 1
      /\ ToSet(o) = cursors \cup {next + 1} /\ DOMAIN w = ToSet(o)
      /\ DOMAIN bytes = cursors
  BY WithTheResult, LenProperties DEF Store, StoreInv, StoreConsistent
<1>3. w = [c \in ToSet(o) |-> IF c = next + 1 THEN weigh ELSE bytes[c]]
  BY <1>2 DEF Weight
<1>4. Append(order, next') = o
  BY <1>1 DEF All
<1> HIDE DEF w, o
<1>5. k \in 0..Len(o) /\ k \in Nat
  BY <1>2
<1>6. /\ order' \in Seq(Ids) /\ Len(order') = Len(o) - k /\ Without(order', o, k)
      /\ ToSet(order') = cursors'
  BY <1>1, <1>2, <1>5, Popped
<1>7. next' \in cursors'
  <2>1. Len(o) - k \in 1..Len(order') /\ (Len(o) - k) + k = Len(o)
    BY <1>1, <1>2, <1>5, <1>6
  <2>2. order'[Len(o) - k] = next'
    BY <1>1, <1>2, <1>6, <2>1 DEF Without
  <2>3. DOMAIN order' = 1..Len(order')
    BY <1>6, LenProperties
  <2>4. order'[Len(o) - k] \in ToSet(order')
    BY <2>1, <2>3 DEF ToSet
  <2> QED
    BY <1>6, <2>2, <2>4
<1>8. IsSuffix(order', o)
  BY <1>2, <1>5, <1>6, SuffixIs
<1>9. size = w
  <2>1. bytes'[next'] = weigh
    BY <1>1, <1>3, <1>7
  <2> QED
    BY <1>1, <1>3, <2>1
<1>10. Len(o) - Len(order') = k
  BY <1>2, <1>5, <1>6
<1>11. ASSUME k > 0
       PROVE  \/ Len(SubSeq(o, k, Len(o))) > MaxCursors
              \/ SumFunctionOnSet(w, ToSet(SubSeq(o, k, Len(o)))) > MaxBytes
  <2>1. k - 1 \in 0..Len(o) /\ k - 1 \in 0..(k - 1) /\ (k - 1) + 1 = k
    BY <1>2, <1>5, <1>11
  <2>2. MustEvict(w, o, k - 1)
    BY <1>1, <2>1
  <2>3. /\ Len(SubSeq(o, k, Len(o))) = Len(o) - (k - 1)
        /\ ToSet(SubSeq(o, k, Len(o))) = ToSet(o) \ Oldest(o, k - 1)
    BY <1>2, <2>1, Popped
  <2> QED
    BY <1>2, <2>2, <2>3 DEF MustEvict, HeldAfter
<1> HIDE DEF size
<1> QED
  BY <1>4, <1>7, <1>8, <1>9, <1>10, <1>11 DEF size

(* The containers of the results a server holds agree and stay within both  *)
(* limits, whatever the limits, the sizes and the order of executes and     *)
(* closes.                                                                  *)
LEMMA StoreHolds == StoreSpec => []StoreInv
<1>1. StoreInit => StoreInv
  <2> SUFFICES ASSUME StoreInit PROVE StoreInv
    OBVIOUS
  <2>1. order = <<>> /\ order \in Seq(Ids) /\ Len(order) = 0 /\ DOMAIN order = {} /\ ToSet(order) = {}
    BY EmptySeq DEF StoreInit, ToSet
  <2>2. cursors = {} /\ DOMAIN bytes = {} /\ next = 0
    BY DEF StoreInit
  <2> QED
    BY <2>1, <2>2, CursorsAssumption
    DEF StoreInv, StoreTypeOK, StoreConsistent, MemoryBounded
<1>2. StoreInv /\ [StoreNext]_<<cursors, order, bytes, next>> => StoreInv'
  <2> SUFFICES ASSUME StoreInv, [StoreNext]_<<cursors, order, bytes, next>> PROVE StoreInv'
    OBVIOUS
  <2>1. CASE UNCHANGED <<cursors, order, bytes, next>>
    BY <2>1 DEF StoreInv, StoreTypeOK, StoreConsistent, MemoryBounded
  <2> QED
    BY <2>1, StoreKeeps, CloseKeeps DEF StoreNext
<1> QED
  BY <1>1, <1>2, PTL DEF StoreSpec, vars

THEOREM ResultsAreHeldSoundly == StoreSpec => []StoreIsSound
<1>1. StoreInv => StoreIsSound
  BY DEF StoreInv, StoreIsSound
<1> QED
  BY StoreHolds, <1>1, PTL

(* An execute evicts the oldest results, no more than the limits call for,  *)
(* and never its own.                                                       *)
THEOREM EvictionIsMinimal == StoreSpec => EvictsOnlyWhatItMust
<1>1. ASSUME StoreInv, StoreNext, next' > next
      PROVE  \E size \in Sizes : Store(size)
  <2>1. next \in Nat /\ ~ (next > next)
    BY <1>1 DEF StoreInv, StoreTypeOK
  <2> QED
    BY <1>1, <2>1 DEF StoreNext, Close
<1>2. StoreInv /\ [StoreNext]_vars =>
        [next' > next =>
            LET all  == Append(order, next')
                lost == Len(all) - Len(order')
                size == [c \in ToSet(all) |-> IF c = next' THEN bytes'[c] ELSE bytes[c]]
            IN /\ next' \in cursors'
               /\ IsSuffix(order', all)
               /\ lost > 0 =>
                     LET oneMore == SubSeq(all, lost, Len(all))
                     IN \/ Len(oneMore) > MaxCursors
                        \/ SumFunctionOnSet(size, ToSet(oneMore)) > MaxBytes]_vars
  BY <1>1, EvictsLittle
<1> QED
  BY StoreHolds, <1>2, PTL DEF StoreSpec, EvictsOnlyWhatItMust

(* The id of a result that is gone never names another one.                 *)
THEOREM GoneForEver == StoreSpec => GoneStaysGone
<1>1. ASSUME StoreInv, StoreNext, NEW c \in 1..next, c \notin cursors
      PROVE  c \notin cursors'
  <2>1. next \in Nat /\ c # next + 1
    BY <1>1 DEF StoreInv, StoreTypeOK
  <2>2. cursors' \subseteq cursors \cup {next + 1}
    <3>1. ASSUME NEW size \in Sizes, Store(size) PROVE cursors' \subseteq cursors \cup {next + 1}
      BY <3>1 DEF Store
    <3>2. ASSUME NEW d \in Ids, Close(d) PROVE cursors' \subseteq cursors
      BY <3>2 DEF Close
    <3> QED
      BY <1>1, <3>1, <3>2 DEF StoreNext
  <2> QED
    BY <1>1, <2>1, <2>2
<1>2. StoreInv /\ [StoreNext]_vars => [\A c \in 1..next : c \notin cursors => c \notin cursors']_vars
  BY <1>1
<1> QED
  BY StoreHolds, <1>2, PTL DEF StoreSpec, GoneStaysGone

-----------------------------------------------------------------------------
(* A running tail: TailPipeline.                                            *)

(* A forwarder about to wait, or waiting, has a permit for whatever came    *)
(* after its empty drain.                                                   *)
WakeInv == fwd \in {"arming", "waiting"} /\ buf # <<>> => permit

RingInv ==
    /\ buf \in Seq(Nat) /\ batch \in Seq(Nat)
    /\ read \in Nat
    /\ RingBounded
    /\ fwd = "pushing" => batch # <<>>

(* What Newest keeps is a suffix of what it is given, of at most Cap items. *)
LEMMA NewestIsASuffix ==
  ASSUME NEW S, NEW s \in Seq(S)
  PROVE  /\ Newest(s) \in Seq(S)
         /\ Len(Newest(s)) = IF Len(s) > Cap THEN Cap ELSE Len(s)
         /\ \A i \in 1..Len(Newest(s)) : Newest(s)[i] = s[i + (Len(s) - Len(Newest(s)))]
<1>1. Len(s) \in Nat /\ Cap \in Nat \ {0} /\ \A i \in 1..Len(s) : s[i] \in S
  BY TailAssumption, LenProperties, ElementOfSeq
<1>2. CASE Len(s) > Cap
  <2> DEFINE m == Len(s) - Cap + 1
  <2>1. Newest(s) = SubSeq(s, m, Len(s))
    BY <1>2 DEF Newest
  <2>2. m \in 1..Len(s) /\ Len(s) - m + 1 = Cap /\ \A i \in m..Len(s) : s[i] \in S
    BY <1>1, <1>2
  <2> HIDE DEF m
  <2>3. /\ SubSeq(s, m, Len(s)) \in Seq(S)
        /\ Len(SubSeq(s, m, Len(s))) = IF m <= Len(s) THEN Len(s) - m + 1 ELSE 0
        /\ \A i \in 1..(Len(s) - m + 1) : SubSeq(s, m, Len(s))[i] = s[m + i - 1]
    <3>1. m \in Int /\ Len(s) \in Int
      BY <1>1, <2>2
    <3> QED
      BY <3>1, <2>2, SubSeqProperties
  <2>4. Len(SubSeq(s, m, Len(s))) = Cap
    BY <1>1, <2>2, <2>3
  <2>5. \A i \in 1..Cap : SubSeq(s, m, Len(s))[i] = s[i + (Len(s) - Cap)]
    <3> TAKE i \in 1..Cap
    <3>1. i \in 1..(Len(s) - m + 1) /\ m + i - 1 = i + (Len(s) - Cap)
      BY <1>1, <2>2 DEF m
    <3> QED
      BY <2>3, <3>1
  <2> QED
    BY <1>2, <2>1, <2>3, <2>4, <2>5
<1>3. CASE ~(Len(s) > Cap)
  <2>1. Newest(s) = s
    BY <1>3 DEF Newest
  <2>2. \A i \in 1..Len(s) : i + (Len(s) - Len(s)) = i
    BY <1>1
  <2> QED
    BY <1>3, <2>1, <2>2
<1> QED
  BY <1>2, <1>3

LEMMA NewestLen ==
  ASSUME NEW S, NEW s \in Seq(S)
  PROVE  /\ Newest(s) \in Seq(S) /\ Len(Newest(s)) <= Cap /\ Len(Newest(s)) <= Len(s)
         /\ Len(Newest(s)) \in Nat
<1>1. Len(s) \in Nat /\ Cap \in Nat
  BY TailAssumption, LenProperties
<1> QED
  BY <1>1, NewestIsASuffix

LEMMA StepWakeInv == WakeInv /\ [Next]_tailVars => WakeInv'
  BY DEF WakeInv, tailVars, Next, Forward, ReadChunk, PushChunk, Poll, Drain, Arm, Wake, PushOne,
         StopTail, ReplyStopped, WriteLine

(* A push that falls between the forwarder's empty drain and its wait is    *)
(* never missed: the permit is stored for it.                               *)
THEOREM WakeupsAreKept == Spec => []NoLostWakeup
<1>1. Init => WakeInv
  BY DEF Init, WakeInv
<1>2. WakeInv => NoLostWakeup
  BY DEF WakeInv, NoLostWakeup
<1> QED
  BY <1>1, <1>2, StepWakeInv, PTL DEF Spec

LEMMA StepRingInv == RingInv /\ [Next]_tailVars => RingInv'
<1> SUFFICES ASSUME RingInv, [Next]_tailVars
             PROVE  RingInv'
  OBVIOUS
<1> USE TailAssumption DEF RingInv, RingBounded
<1>1. CASE ReadChunk
  BY <1>1 DEF ReadChunk
<1>2. CASE PushChunk
  <2>1. Append(buf, read) \in Seq(Nat)
    OBVIOUS
  <2> QED
    BY <1>2, <2>1, NewestLen DEF PushChunk
<1>3. CASE Drain
  BY <1>3 DEF Drain
<1>4. CASE PushOne
  <2>1. Len(batch) > 0 /\ Tail(batch) \in Seq(Nat) /\ Len(Tail(batch)) = Len(batch) - 1
    BY <1>4, HeadTailProperties, EmptySeq DEF PushOne
  <2> QED
    BY <1>4, <2>1 DEF PushOne
<1>5. CASE Poll \/ Arm \/ Wake \/ StopTail \/ ReplyStopped \/ WriteLine
  BY <1>5 DEF Poll, Arm, Wake, StopTail, ReplyStopped, WriteLine
<1>6. CASE UNCHANGED tailVars
  BY <1>6 DEF tailVars
<1> QED
  BY <1>1, <1>2, <1>3, <1>4, <1>5, <1>6 DEF Next, Forward

(* However fast the peer sends, what waits for the forwarder, in the ring   *)
(* and in its hands, stays within MAX_BUFFERED_MESSAGES each.               *)
THEOREM RingStaysBounded == Spec => []RingBounded
<1>1. Init => RingInv
  BY TailAssumption, EmptySeq DEF Init, RingInv, RingBounded
<1>2. RingInv => RingBounded
  BY DEF RingInv
<1> QED
  BY <1>1, <1>2, StepRingInv, PTL DEF Spec
-----------------------------------------------------------------------------
(* The stragglers *)

Positive == Nat \ {0}

ItemInv ==
    /\ buf \in Seq(Positive) /\ batch \in Seq(Positive) /\ lines \in Seq(Nat)
    /\ read \in Nat
    /\ reader \in {"got", "gotEnd"} => read \in Positive
    /\ fwd = "pushing" => batch # <<>>

(* What the aborted tasks still have in hand.                               *)
InHand  == IF reader \in {"got", "gotEnd"} THEN 1 ELSE 0
Carried == Len(batch) + Len(buf) + InHand

(* The reply is queued once, and from then on a line after it is one that   *)
(* was carried when it was queued: a reader that was told to stop reads no  *)
(* more, so what is carried only shrinks.                                   *)
RepliedAt(r) ==
    /\ r \in 1..Len(lines) /\ lines[r] = StopReply
    /\ \A i \in 1..Len(lines) : lines[i] = StopReply => i = r
    /\ (Len(lines) - r) + Carried <= 2 * Cap + 1

StopInv ==
    /\ stop \in {"no", "asked", "replied"}
    /\ stop # "no" => reader # "reading"
    /\ stop # "replied" => ~HasReply(lines)
    /\ stop = "replied" => \E r \in 1..Len(lines) : RepliedAt(r)

LEMMA StepItemInv == ItemInv /\ [Next]_tailVars => ItemInv'
<1> SUFFICES ASSUME ItemInv, [Next]_tailVars
             PROVE  ItemInv'
  OBVIOUS
<1> USE DEF ItemInv
<1>1. CASE ReadChunk
  BY <1>1 DEF ReadChunk, Positive
<1>2. CASE PushChunk
  <2>1. Append(buf, read) \in Seq(Positive)
    BY <1>2, AppendProperties DEF PushChunk
  <2> QED
    BY <1>2, <2>1, NewestLen DEF PushChunk
<1>3. CASE Drain
  BY <1>3, EmptySeq DEF Drain
<1>4. CASE PushOne
  <2>1. Head(batch) \in Nat /\ Tail(batch) \in Seq(Positive)
    BY <1>4, HeadTailProperties DEF PushOne, Positive
  <2>2. Append(lines, Head(batch)) \in Seq(Nat)
    BY <2>1, AppendProperties
  <2> QED
    BY <1>4, <2>1, <2>2 DEF PushOne
<1>5. CASE ReplyStopped
  <2>1. Append(lines, StopReply) \in Seq(Nat)
    BY AppendProperties DEF StopReply
  <2> QED
    BY <1>5, <2>1 DEF ReplyStopped
<1>6. CASE Poll \/ Arm \/ Wake \/ StopTail \/ WriteLine
  BY <1>6 DEF Poll, Arm, Wake, StopTail, WriteLine
<1>7. CASE UNCHANGED tailVars
  BY <1>7 DEF tailVars
<1> QED
  BY <1>1, <1>2, <1>3, <1>4, <1>5, <1>6, <1>7 DEF Next, Forward

(* A step that queues no line keeps where the reply is, if it carries no    *)
(* more than before.                                                        *)
LEMMA SameLines ==
  ASSUME StopInv, lines' = lines, stop' = stop, Carried' <= Carried,
         Carried \in Nat, Carried' \in Nat, lines \in Seq(Nat),
         stop # "no" => reader' # "reading"
  PROVE  StopInv'
<1>1. stop \in {"no", "asked", "replied"} /\ (stop' # "replied" => ~HasReply(lines'))
  BY DEF StopInv, HasReply
<1>2. ASSUME NEW r \in 1..Len(lines), RepliedAt(r)
      PROVE  RepliedAt(r)'
  <2>1. Len(lines) \in Nat /\ Cap \in Nat
    BY TailAssumption, LenProperties
  <2>2. (Len(lines') - r) + Carried' <= 2 * Cap + 1
    BY <1>2, <2>1 DEF RepliedAt
  <2> QED
    BY <1>2, <2>2 DEF RepliedAt
<1>3. stop' = "replied" => \E r \in 1..Len(lines') : RepliedAt(r)'
  BY <1>2 DEF StopInv
<1> QED
  BY <1>1, <1>3 DEF StopInv

LEMMA CarriedIsNat ==
  /\ ItemInv => Carried \in Nat /\ Len(batch) \in Nat /\ Len(buf) \in Nat /\ Len(lines) \in Nat
  /\ ItemInv' => Carried' \in Nat /\ Len(batch') \in Nat /\ Len(buf') \in Nat
<1>1. ItemInv => Carried \in Nat /\ Len(batch) \in Nat /\ Len(buf) \in Nat /\ Len(lines) \in Nat
  BY LenProperties DEF ItemInv, Carried, InHand
<1>2. ItemInv' => Carried' \in Nat /\ Len(batch') \in Nat /\ Len(buf') \in Nat
  BY LenProperties DEF ItemInv, Carried, InHand
<1> QED
  BY <1>1, <1>2

LEMMA StepStopInv == ItemInv /\ ItemInv' /\ RingInv /\ StopInv /\ [Next]_tailVars => StopInv'
<1> SUFFICES ASSUME ItemInv, ItemInv', RingInv, StopInv, [Next]_tailVars
             PROVE  StopInv'
  OBVIOUS
<1>n. /\ Carried \in Nat /\ Len(batch) \in Nat /\ Len(buf) \in Nat /\ Len(lines) \in Nat
      /\ Carried' \in Nat /\ Len(batch') \in Nat /\ Len(buf') \in Nat
      /\ Cap \in Nat /\ lines \in Seq(Nat) /\ lines' \in Seq(Nat)
  BY CarriedIsNat, TailAssumption DEF ItemInv
<1>1. CASE ReadChunk
  <2>1. stop = "no" /\ stop' = "no" /\ lines' = lines
    BY <1>1 DEF ReadChunk, StopInv
  <2> QED
    BY <2>1 DEF StopInv, HasReply
<1>2. CASE PushChunk
  <2>1. Append(buf, read) \in Seq(Positive) /\ Len(Append(buf, read)) = Len(buf) + 1
    BY <1>2, AppendProperties DEF PushChunk, ItemInv
  <2>2. Len(buf') <= Len(buf) + 1
    BY <1>2, <2>1, <1>n, NewestLen DEF PushChunk
  <2>3. InHand = 1 /\ InHand' = 0 /\ batch' = batch
    BY <1>2 DEF PushChunk, InHand
  <2>4. Carried' <= Carried
    BY <2>2, <2>3, <1>n DEF Carried
  <2>5. lines' = lines /\ stop' = stop /\ (stop # "no" => reader' # "reading")
    BY <1>2 DEF PushChunk
  <2> QED
    BY <2>4, <2>5, <1>n, SameLines
<1>3. CASE Drain
  <2>1. Len(batch') = Len(buf) /\ Len(buf') = 0 /\ InHand' = InHand /\ InHand \in Nat
    BY <1>3, EmptySeq DEF Drain, InHand
  <2>2. Carried' <= Carried
    BY <2>1, <1>n DEF Carried
  <2>3. lines' = lines /\ stop' = stop /\ reader' = reader
    BY <1>3 DEF Drain
  <2>4. stop # "no" => reader' # "reading"
    BY <2>3 DEF StopInv
  <2> QED
    BY <2>2, <2>3, <2>4, <1>n, SameLines
<1>4. CASE PushOne
  <2>1. /\ Head(batch) \in Positive /\ Len(batch') = Len(batch) - 1
        /\ buf' = buf /\ InHand' = InHand /\ InHand \in Nat
    BY <1>4, HeadTailProperties DEF PushOne, ItemInv, InHand
  <2>2. Carried' = Carried - 1
    BY <2>1, <1>n DEF Carried
  <2>3. /\ Head(batch) \in Nat /\ Head(batch) # StopReply
        /\ lines' = Append(lines, Head(batch))
        /\ stop' = stop /\ reader' = reader
    BY <1>4, <2>1 DEF PushOne, Positive, StopReply
  <2>4. /\ Len(lines') = Len(lines) + 1
        /\ \A i \in 1..Len(lines) : lines'[i] = lines[i]
        /\ lines'[Len(lines) + 1] # StopReply
    BY <2>3, <1>n, AppendProperties
  <2>5. DOMAIN lines = 1..Len(lines) /\ DOMAIN lines' = 1..Len(lines')
    BY <1>n, LenProperties
  <2>6. HasReply(lines') => HasReply(lines)
    <3> SUFFICES ASSUME NEW i \in DOMAIN lines', lines'[i] = StopReply
                 PROVE  HasReply(lines)
      BY DEF HasReply
    <3>1. i \in 1..Len(lines)
      BY <1>n, <2>4, <2>5
    <3> QED
      BY <3>1, <2>4, <2>5 DEF HasReply
  <2>7. ASSUME NEW r \in 1..Len(lines), RepliedAt(r)
        PROVE  r \in 1..Len(lines') /\ RepliedAt(r)'
    <3>1. r \in 1..Len(lines') /\ lines'[r] = StopReply
      <4>1. lines[r] = StopReply
        BY <2>7 DEF RepliedAt
      <4>2. lines'[r] = lines[r]
        BY <2>4
      <4>3. r \in 1..Len(lines')
        BY <1>n, <2>4
      <4> QED
        BY <4>1, <4>2, <4>3
    <3>2. \A i \in 1..Len(lines') : lines'[i] = StopReply => i = r
      <4> TAKE i \in 1..Len(lines')
      <4> HAVE lines'[i] = StopReply
      <4>1. i # Len(lines) + 1
        BY <2>4
      <4>2. i \in 1..Len(lines)
        <5>1. Len(lines) \in Nat /\ Len(lines') = Len(lines) + 1
          BY <1>n, <2>4
        <5> QED
          BY <4>1, <5>1
      <4>3. lines[i] = StopReply
        BY <4>2, <2>4
      <4> QED
        BY <4>2, <4>3, <2>7 DEF RepliedAt
    <3>3. (Len(lines') - r) + Carried' <= 2 * Cap + 1
      <4>1. (Len(lines) - r) + Carried <= 2 * Cap + 1
        BY <2>7 DEF RepliedAt
      <4>2. Len(lines') = Len(lines) + 1 /\ r \in Nat
        BY <2>4, <2>7, <1>n
      <4>3. Carried \in Nat /\ Len(lines) \in Nat /\ Cap \in Nat
        BY <1>n
      <4> QED
        BY <4>1, <4>2, <4>3, <2>2
    <3> QED
      BY <3>1, <3>2, <3>3 DEF RepliedAt, StopReply
  <2> QED
    BY <2>3, <2>6, <2>7 DEF StopInv
<1>5. CASE ReplyStopped
  <2>1. /\ stop = "asked" /\ stop' = "replied" /\ lines' = Append(lines, StopReply)
        /\ reader' = reader /\ buf' = buf /\ batch' = batch
    BY <1>5 DEF ReplyStopped
  <2>2. ~HasReply(lines) /\ reader # "reading"
    BY <2>1 DEF StopInv
  <2>3. /\ Len(lines') = Len(lines) + 1
        /\ \A i \in 1..Len(lines) : lines'[i] = lines[i]
        /\ lines'[Len(lines) + 1] = StopReply
    BY <2>1, <1>n, AppendProperties DEF StopReply
  <2>4. DOMAIN lines = 1..Len(lines)
    BY <1>n, LenProperties
  <2>r. PICK r \in 1..Len(lines') : r = Len(lines) + 1
    BY <2>3, <1>n
  <2>5. \A i \in 1..Len(lines') : lines'[i] = StopReply => i = r
    <3> TAKE i \in 1..Len(lines')
    <3> HAVE lines'[i] = StopReply
    <3>1. i \notin 1..Len(lines)
      BY <2>2, <2>3, <2>4 DEF HasReply
    <3> QED
      BY <3>1, <2>3, <2>r, <1>n
  <2>6. Carried' <= 2 * Cap + 1
    <3>1. Len(buf) <= Cap /\ Len(batch) <= Cap
      BY DEF RingInv, RingBounded
    <3>2. Carried' = Len(batch) + Len(buf) + InHand' /\ InHand' \in Nat /\ InHand' <= 1
      BY <2>1 DEF Carried, InHand
    <3>3. Len(batch) \in Nat /\ Len(buf) \in Nat /\ Cap \in Nat
      BY <1>n
    <3>4. Len(batch) + Len(buf) + InHand' <= 2 * Cap + 1
      BY <3>1, <3>2, <3>3
    <3> QED
      BY <3>2, <3>4
  <2>7. RepliedAt(r)'
    <3>1. lines'[r] = StopReply /\ StopReply' = StopReply
      BY <2>3, <2>r DEF StopReply
    <3>2. Len(lines') - r = 0
      BY <2>3, <2>r, <1>n
    <3>3. (Len(lines') - r) + Carried' <= 2 * Cap + 1
      BY <2>6, <3>2, <1>n
    <3> QED
      BY <3>1, <3>3, <2>5 DEF RepliedAt
  <2> QED
    BY <2>1, <2>2, <2>7 DEF StopInv
<1>6. CASE Poll \/ Arm \/ Wake \/ WriteLine \/ UNCHANGED tailVars
  <2>1. /\ lines' = lines /\ stop' = stop /\ reader' = reader /\ buf' = buf /\ batch' = batch
    BY <1>6 DEF Poll, Arm, Wake, WriteLine, tailVars
  <2>2. Carried' = Carried
    BY <2>1 DEF Carried, InHand
  <2>3. stop # "no" => reader' # "reading"
    BY <2>1 DEF StopInv
  <2> QED
    BY <2>1, <2>2, <2>3, <1>n, SameLines
<1>7. CASE StopTail
  BY <1>7 DEF StopTail, StopInv, HasReply
<1> QED
  BY <1>1, <1>2, <1>3, <1>4, <1>5, <1>6, <1>7 DEF Next, Forward

(* After the reply to `tail.stop` the client is still sent what the two     *)
(* aborted tasks carried, one batch, one ring and one chunk at most, however *)
(* much the peer goes on sending.                                           *)
THEOREM StragglersAreBounded == Spec => []StragglersBounded
<1>1. Init => ItemInv /\ RingInv /\ StopInv
  BY TailAssumption, EmptySeq DEF Init, ItemInv, RingInv, RingBounded, StopInv, HasReply
<1>2. ItemInv /\ StopInv => StragglersBounded
  <2> SUFFICES ASSUME ItemInv, StopInv
               PROVE  StragglersBounded
    OBVIOUS
  <2>1. Carried \in Nat /\ Len(lines) \in Nat /\ Cap \in Nat /\ DOMAIN lines = 1..Len(lines)
    BY CarriedIsNat, TailAssumption, LenProperties DEF ItemInv
  <2>2. CASE ~HasReply(lines)
    BY <2>1, <2>2 DEF StragglersBounded, AfterStop
  <2>3. CASE HasReply(lines)
    <3>1. PICK r \in 1..Len(lines) : RepliedAt(r)
      BY <2>3 DEF StopInv
    <3>2. ReplyAt(lines) = r
      BY <2>1, <3>1 DEF RepliedAt, ReplyAt
    <3>3. (Len(lines) - r) + Carried <= 2 * Cap + 1
      BY <3>1 DEF RepliedAt
    <3> QED
      BY <2>1, <2>3, <3>2, <3>3 DEF StragglersBounded, AfterStop
  <2> QED
    BY <2>2, <2>3
<1> QED
  BY <1>1, <1>2, StepItemInv, StepRingInv, StepStopInv, PTL DEF Spec
-----------------------------------------------------------------------------
(* The feed the tail implements *)

Increasing(s) == \A i, j \in 1..Len(s) : i < j => s[i] < s[j]

Produced == IF reader \in {"got", "gotEnd"} THEN read - 1 ELSE read

(* What waits is in the order it was produced: first the batch the          *)
(* forwarder is pushing, then the ring.                                     *)
OrderInv ==
    /\ Increasing(batch) /\ Increasing(buf)
    /\ \A i \in 1..Len(batch), j \in 1..Len(buf) : batch[i] < buf[j]
    /\ \A i \in 1..Len(batch) : batch[i] <= Produced
    /\ \A j \in 1..Len(buf) : buf[j] <= Produced
    /\ fwd # "pushing" => batch = <<>>

(* A line that is not the reply is one more item.                           *)
LEMMA ItemsOfAnItem ==
  ASSUME NEW s \in Seq(Nat), NEW x \in Positive,
         \A i, j \in 1..Len(s) : s[i] = StopReply /\ s[j] = StopReply => i = j
  PROVE  Items(Append(s, x)) = Append(Items(s), x)
<1> DEFINE t == Append(s, x)
<1>1. x \in Nat /\ x # StopReply /\ Len(s) \in Nat
  BY LenProperties DEF Positive, StopReply
<1>2. /\ t \in Seq(Nat) /\ Len(t) = Len(s) + 1
      /\ \A i \in 1..Len(s) : t[i] = s[i]
      /\ t[Len(s) + 1] = x
  BY <1>1, AppendProperties
<1>3. DOMAIN s = 1..Len(s) /\ DOMAIN t = 1..Len(t)
  BY <1>2, LenProperties
<1> HIDE DEF t
<1>4. ASSUME NEW i \in 1..Len(t), t[i] = StopReply
      PROVE  i \in 1..Len(s) /\ s[i] = StopReply
  <2>1. i # Len(s) + 1
    BY <1>1, <1>2, <1>4
  <2>2. i \in 1..Len(s)
    BY <1>1, <1>2, <2>1
  <2> QED
    BY <1>2, <1>4, <2>2
<1>5. CASE ~HasReply(s)
  <2>1. ~HasReply(t)
    BY <1>3, <1>4, <1>5 DEF HasReply
  <2> QED
    BY <1>5, <2>1 DEF Items, t
<1>6. CASE HasReply(s)
  <2>1. PICK r \in 1..Len(s) : s[r] = StopReply
    BY <1>3, <1>6 DEF HasReply
  <2>2. ReplyAt(s) = r
    BY <1>3, <2>1 DEF ReplyAt
  <2>3. r \in 1..Len(t) /\ t[r] = StopReply
    BY <1>1, <1>2, <2>1
  <2>4. HasReply(t) /\ ReplyAt(t) = r
    BY <1>3, <1>4, <2>1, <2>3 DEF HasReply, ReplyAt
  <2>5. Items(s) = RemoveAt(s, r) /\ Items(t) = RemoveAt(t, r)
    BY <1>6, <2>2, <2>4 DEF Items
  <2>6. /\ RemoveAt(s, r) \in Seq(Nat) /\ Len(RemoveAt(s, r)) = Len(s) - 1
        /\ \A i \in 1..(Len(s) - 1) : RemoveAt(s, r)[i] = IF i < r THEN s[i] ELSE s[i + 1]
    BY RemoveAtProperties
  <2>7. /\ RemoveAt(t, r) \in Seq(Nat) /\ Len(RemoveAt(t, r)) = Len(t) - 1
        /\ \A i \in 1..(Len(t) - 1) : RemoveAt(t, r)[i] = IF i < r THEN t[i] ELSE t[i + 1]
    BY <1>2, <2>3, RemoveAtProperties
  <2> DEFINE a == RemoveAt(s, r)
             b == RemoveAt(t, r)
             c == Append(a, x)
  <2>8. /\ c \in Seq(Nat) /\ Len(c) = Len(a) + 1
        /\ \A i \in 1..Len(a) : c[i] = a[i]
        /\ c[Len(a) + 1] = x
    BY <1>1, <2>6, AppendProperties
  <2> HIDE DEF a, b, c
  <2>9. Len(a) = Len(s) - 1 /\ Len(b) = Len(s) /\ Len(c) = Len(s)
    BY <1>1, <1>2, <2>6, <2>7, <2>8 DEF a, b
  <2>10. ASSUME NEW i \in 1..Len(s)
         PROVE  b[i] = c[i]
    <3>1. b[i] = IF i < r THEN t[i] ELSE t[i + 1]
      <4>1. i \in 1..(Len(t) - 1)
        BY <1>1, <1>2
      <4> QED
        BY <2>7, <4>1 DEF b
    <3>2. CASE i = Len(s)
      <4>1. ~(i < r) /\ t[i + 1] = x
        BY <1>1, <1>2, <3>2
      <4>2. i = Len(a) + 1
        BY <1>1, <2>9, <3>2
      <4> QED
        BY <2>8, <3>1, <4>1, <4>2
    <3>3. CASE i # Len(s)
      <4>1. i \in 1..(Len(s) - 1) /\ i + 1 \in 1..Len(s) /\ i \in 1..Len(a)
        BY <1>1, <2>9, <3>3
      <4>2. c[i] = a[i] /\ t[i] = s[i] /\ t[i + 1] = s[i + 1]
        BY <1>2, <2>8, <4>1
      <4>3. a[i] = IF i < r THEN s[i] ELSE s[i + 1]
        BY <2>6, <4>1 DEF a
      <4> QED
        BY <3>1, <4>2, <4>3
    <3> QED
      BY <3>2, <3>3
  <2>11. b = c
    <3>1. b \in Seq(Nat) /\ c \in Seq(Nat) /\ Len(b) = Len(c) /\ \A i \in 1..Len(b) : b[i] = c[i]
      BY <2>7, <2>8, <2>9, <2>10 DEF b
    <3> QED
      BY <3>1, SeqEqual
  <2> QED
    BY <2>5, <2>11 DEF a, b, c, t
<1> QED
  BY <1>5, <1>6

(* The reply is not one of the items.                                       *)
LEMMA ItemsOfTheReply ==
  ASSUME NEW s \in Seq(Nat), ~HasReply(s)
  PROVE  Items(Append(s, StopReply)) = Items(s)
<1> DEFINE t == Append(s, StopReply)
           n == Len(s) + 1
           u == RemoveAt(t, n)
<1>1. Len(s) \in Nat /\ StopReply \in Nat /\ DOMAIN s = 1..Len(s)
  BY LenProperties DEF StopReply
<1>2. /\ t \in Seq(Nat) /\ Len(t) = n
      /\ \A i \in 1..Len(s) : t[i] = s[i]
      /\ t[n] = StopReply
  BY <1>1, AppendProperties
<1>3. DOMAIN t = 1..n /\ n \in 1..n /\ n \in Nat /\ n - 1 = Len(s)
  BY <1>1, <1>2, LenProperties
<1> HIDE DEF t
<1>4. ASSUME NEW i \in 1..n, t[i] = StopReply
      PROVE  i = n
  <2>1. i \notin 1..Len(s)
    BY <1>1, <1>2, <1>4 DEF HasReply
  <2> QED
    BY <1>1, <2>1
<1> HIDE DEF n
<1>5. HasReply(t) /\ ReplyAt(t) = n
  BY <1>2, <1>3, <1>4 DEF HasReply, ReplyAt
<1>6. /\ u \in Seq(Nat) /\ Len(u) = n - 1
      /\ \A i \in 1..(n - 1) : u[i] = IF i < n THEN t[i] ELSE t[i + 1]
  BY <1>2, <1>3, RemoveAtProperties
<1> HIDE DEF u
<1>7. \A i \in 1..Len(s) : u[i] = s[i]
  <2> TAKE i \in 1..Len(s)
  <2>1. i \in 1..(n - 1) /\ i < n
    BY <1>1, <1>3
  <2> QED
    BY <1>2, <1>6, <2>1
<1>8. u = s
  <2>1. Len(u) = Len(s) /\ \A i \in 1..Len(u) : u[i] = s[i]
    BY <1>3, <1>6, <1>7
  <2> QED
    BY <1>6, <2>1, SeqEqual
<1> QED
  BY <1>5, <1>8 DEF Items, t, u, n
(* A push adds its item at the end and may drop others.                     *)
LEMMA WhatAPushLeaves ==
  ASSUME ItemInv, PushChunk
  PROVE  /\ buf' \in Seq(Positive) /\ Len(buf') \in Nat /\ Len(buf') >= 1 /\ Len(buf) \in Nat
         /\ buf'[Len(buf')] = read
         /\ \E d \in Nat : /\ d + Len(buf') = Len(buf) + 1
                          /\ \A i \in 1..(Len(buf') - 1) : buf'[i] = buf[i + d]
<1> DEFINE a == Append(buf, read)
           d == Len(a) - Len(Newest(a))
<1>1. buf \in Seq(Positive) /\ read \in Positive /\ Len(buf) \in Nat /\ Cap \in Nat \ {0}
  BY TailAssumption, LenProperties DEF ItemInv, PushChunk
<1>2. /\ a \in Seq(Positive) /\ Len(a) = Len(buf) + 1
      /\ \A i \in 1..Len(buf) : a[i] = buf[i]
      /\ a[Len(buf) + 1] = read
  BY <1>1, AppendProperties
<1>3. buf' = Newest(a)
  BY DEF PushChunk
<1> HIDE DEF a
<1>4. /\ buf' \in Seq(Positive)
      /\ Len(buf') = IF Len(a) > Cap THEN Cap ELSE Len(a)
      /\ \A i \in 1..Len(buf') : buf'[i] = a[i + d]
  BY <1>2, <1>3, NewestIsASuffix
<1>5. /\ Len(buf') \in Nat /\ Len(buf') >= 1
      /\ d \in Nat /\ d + Len(buf') = Len(buf) + 1
  BY <1>1, <1>2, <1>3, <1>4
<1> HIDE DEF d
<1>6. buf'[Len(buf')] = read
  <2>1. Len(buf') \in 1..Len(buf') /\ Len(buf') + d = Len(buf) + 1
    BY <1>1, <1>5
  <2> QED
    BY <1>2, <1>4, <2>1
<1>7. \A i \in 1..(Len(buf') - 1) : buf'[i] = buf[i + d]
  <2> TAKE i \in 1..(Len(buf') - 1)
  <2>1. i \in 1..Len(buf') /\ i + d \in 1..Len(buf)
    BY <1>1, <1>5
  <2> QED
    BY <1>2, <1>4, <2>1
<1> QED
  BY <1>1, <1>4, <1>5, <1>6, <1>7

LEMMA StepOrderInv == ItemInv /\ OrderInv /\ [Next]_tailVars => OrderInv'
<1> SUFFICES ASSUME ItemInv, OrderInv, [Next]_tailVars
             PROVE  OrderInv'
  OBVIOUS
<1>n. /\ Len(batch) \in Nat /\ Len(buf) \in Nat /\ read \in Nat
      /\ \A i \in 1..Len(batch) : batch[i] \in Nat
      /\ \A i \in 1..Len(buf) : buf[i] \in Nat
  BY LenProperties, ElementOfSeq DEF ItemInv, Positive
<1>1. CASE ReadChunk
  <2>1. Produced' = Produced /\ batch' = batch /\ buf' = buf /\ fwd' = fwd
    BY <1>1, <1>n DEF ReadChunk, Produced
  <2> QED
    BY <2>1 DEF OrderInv, Increasing
<1>2. CASE PushChunk
  <2>1. /\ Len(buf') \in Nat /\ Len(buf') >= 1
        /\ buf'[Len(buf')] = read
        /\ \E d \in Nat : /\ d + Len(buf') = Len(buf) + 1
                         /\ \A i \in 1..(Len(buf') - 1) : buf'[i] = buf[i + d]
    BY <1>2, WhatAPushLeaves
  <2>2. PICK d \in Nat : /\ d + Len(buf') = Len(buf) + 1
                         /\ \A i \in 1..(Len(buf') - 1) : buf'[i] = buf[i + d]
    BY <2>1
  <2>3. Produced = read - 1 /\ Produced' = read /\ batch' = batch /\ fwd' = fwd
    BY <1>2 DEF PushChunk, Produced
  <2>4. \A i \in 1..(Len(buf') - 1) : i + d \in 1..Len(buf) /\ buf'[i] = buf[i + d]
    BY <1>n, <2>1, <2>2
  <2>5. \A i \in 1..(Len(buf') - 1) : buf'[i] \in Nat /\ buf'[i] < read
    <3> TAKE i \in 1..(Len(buf') - 1)
    <3>1. i + d \in 1..Len(buf) /\ buf'[i] = buf[i + d]
      BY <2>4
    <3>2. buf[i + d] \in Nat /\ buf[i + d] <= Produced
      BY <1>n, <3>1 DEF OrderInv
    <3> QED
      BY <1>n, <2>3, <3>1, <3>2
  <2>6. \A i \in 1..Len(buf') : i = Len(buf') \/ i \in 1..(Len(buf') - 1)
    BY <2>1
  <2>7. Increasing(buf')
    <3> SUFFICES ASSUME NEW i \in 1..Len(buf'), NEW j \in 1..Len(buf'), i < j
                 PROVE  buf'[i] < buf'[j]
      BY DEF Increasing
    <3>1. i \in 1..(Len(buf') - 1)
      BY <2>1
    <3>2. CASE j = Len(buf')
      BY <2>1, <2>5, <3>1, <3>2
    <3>3. CASE j # Len(buf')
      <4>1. j \in 1..(Len(buf') - 1)
        BY <2>6, <3>3
      <4>2. i + d \in 1..Len(buf) /\ j + d \in 1..Len(buf) /\ i + d < j + d
        BY <2>4, <3>1, <4>1
      <4> QED
        BY <2>4, <3>1, <4>1, <4>2 DEF OrderInv, Increasing
    <3> QED
      BY <3>2, <3>3
  <2>8. \A i \in 1..Len(batch), j \in 1..Len(buf') : batch[i] < buf'[j]
    <3> TAKE i \in 1..Len(batch), j \in 1..Len(buf')
    <3>1. CASE j = Len(buf')
      <4>1. batch[i] \in Nat /\ batch[i] <= read - 1
        BY <1>n, <2>3 DEF OrderInv
      <4>2. batch[i] < read
        BY <1>n, <4>1
      <4> QED
        BY <2>1, <3>1, <4>2
    <3>2. CASE j # Len(buf')
      <4>1. j \in 1..(Len(buf') - 1)
        BY <2>6, <3>2
      <4> QED
        BY <2>4, <4>1 DEF OrderInv
    <3> QED
      BY <3>1, <3>2
  <2>9. \A i \in 1..Len(batch) : batch[i] <= read
    <3> TAKE i \in 1..Len(batch)
    <3>1. batch[i] \in Nat /\ batch[i] <= read - 1
      BY <1>n, <2>3 DEF OrderInv
    <3> QED
      BY <1>n, <3>1
  <2>10. \A j \in 1..Len(buf') : buf'[j] <= read
    <3> TAKE j \in 1..Len(buf')
    <3>1. CASE j = Len(buf')
      BY <1>n, <2>1, <3>1
    <3>2. CASE j # Len(buf')
      <4>1. j \in 1..(Len(buf') - 1)
        BY <2>6, <3>2
      <4>2. buf'[j] \in Nat /\ buf'[j] < read
        BY <2>5, <4>1
      <4> QED
        BY <1>n, <4>2
    <3> QED
      BY <3>1, <3>2
  <2> QED
    BY <2>3, <2>7, <2>8, <2>9, <2>10 DEF OrderInv
<1>3. CASE Drain
  <2>1. batch' = buf /\ Len(buf') = 0 /\ Produced' = Produced
    BY <1>3, EmptySeq DEF Drain, Produced
  <2>2. fwd' # "pushing" => batch' = <<>>
    BY <1>3 DEF Drain
  <2>3. \A j \in 1..Len(buf') : FALSE
    BY <2>1
  <2> QED
    BY <2>1, <2>2, <2>3 DEF OrderInv, Increasing
<1>4. CASE PushOne
  <2>1. batch # <<>> /\ batch \in Seq(Positive)
    BY <1>4 DEF PushOne, ItemInv
  <2>2. /\ Len(batch') = Len(batch) - 1
        /\ \A i \in 1..Len(batch') : batch'[i] = batch[i + 1]
        /\ buf' = buf /\ Produced' = Produced
    BY <1>4, <2>1, HeadTailProperties DEF PushOne, Produced
  <2>3. fwd' # "pushing" => batch' = <<>>
    BY <1>4 DEF PushOne
  <2>4. \A i \in 1..Len(batch') : i + 1 \in 1..Len(batch) /\ batch'[i] = batch[i + 1]
    BY <1>n, <2>2
  <2>5. Increasing(batch')
    <3> SUFFICES ASSUME NEW i \in 1..Len(batch'), NEW j \in 1..Len(batch'), i < j
                 PROVE  batch'[i] < batch'[j]
      BY DEF Increasing
    <3>1. i + 1 \in 1..Len(batch) /\ j + 1 \in 1..Len(batch) /\ i + 1 < j + 1
      BY <2>4
    <3> QED
      BY <2>4, <3>1 DEF OrderInv, Increasing
  <2> QED
    BY <2>2, <2>3, <2>4, <2>5 DEF OrderInv
<1>5. CASE Poll \/ Arm \/ Wake \/ ReplyStopped \/ WriteLine \/ UNCHANGED tailVars
  <2>1. /\ batch' = batch /\ buf' = buf /\ Produced' = Produced
        /\ fwd' # "pushing" => fwd # "pushing" \/ batch = <<>>
    BY <1>5 DEF Poll, Arm, Wake, ReplyStopped, WriteLine, tailVars, Produced, OrderInv
  <2> QED
    BY <2>1 DEF OrderInv, Increasing
<1>6. CASE StopTail
  <2>1. /\ batch' = batch /\ buf' = buf /\ Produced' = Produced
        /\ fwd' # "pushing" => fwd # "pushing"
    BY <1>6 DEF StopTail, Produced
  <2> QED
    BY <2>1 DEF OrderInv, Increasing
<1> QED
  BY <1>1, <1>2, <1>3, <1>4, <1>5, <1>6 DEF Next, Forward
-----------------------------------------------------------------------------
LEMMA InSeqIs ==
  ASSUME NEW S, NEW s \in Seq(S)
  PROVE  InSeq(s) = {s[i] : i \in 1..Len(s)}
BY LenProperties DEF InSeq

(* A push produces the next item; the ring may lose others.                 *)
LEMMA PushProduces ==
  ASSUME ItemInv, OrderInv, PushChunk
  PROVE  Feed!Produce
<1> DEFINE pending == InSeq(batch) \cup InSeq(buf)
<1>1. /\ buf' \in Seq(Positive) /\ Len(buf') \in Nat /\ Len(buf') >= 1 /\ Len(buf) \in Nat
      /\ buf'[Len(buf')] = read
      /\ \E d \in Nat : /\ d + Len(buf') = Len(buf) + 1
                       /\ \A i \in 1..(Len(buf') - 1) : buf'[i] = buf[i + d]
  BY WhatAPushLeaves
<1>2. PICK d \in Nat : /\ d + Len(buf') = Len(buf) + 1
                       /\ \A i \in 1..(Len(buf') - 1) : buf'[i] = buf[i + d]
  BY <1>1
<1>3. /\ batch' = batch /\ lines' = lines /\ stop' = stop
      /\ reader \in {"got", "gotEnd"} /\ reader' \notin {"got", "gotEnd"}
      /\ read' = read /\ read - 1 + 1 = read
  BY DEF PushChunk, ItemInv
<1>4. InSeq(buf) = {buf[i] : i \in 1..Len(buf)} /\ InSeq(buf') = {buf'[i] : i \in 1..Len(buf')}
  BY <1>1, InSeqIs DEF ItemInv
<1>5. read \in InSeq(buf')
  <2>1. Len(buf') \in 1..Len(buf')
    BY <1>1
  <2> QED
    BY <1>1, <1>4, <2>1
<1>6. InSeq(buf') \subseteq InSeq(buf) \cup {read}
  <2> SUFFICES ASSUME NEW i \in 1..Len(buf')
               PROVE  buf'[i] \in InSeq(buf) \cup {read}
    BY <1>4
  <2>1. CASE i = Len(buf')
    BY <1>1, <2>1
  <2>2. CASE i # Len(buf')
    <3>1. i \in 1..(Len(buf') - 1) /\ i + d \in 1..Len(buf)
      BY <1>1, <1>2, <2>2
    <3> QED
      BY <1>2, <1>4, <3>1
  <2> QED
    BY <2>1, <2>2
<1> DEFINE lost == pending \ (InSeq(batch) \cup InSeq(buf'))
<1>7. InSeq(batch') \cup InSeq(buf') = (pending \ lost) \cup {read} /\ lost \in SUBSET pending
  BY <1>3, <1>5, <1>6
<1> HIDE DEF lost
<1>8. \E l \in SUBSET pending : InSeq(batch') \cup InSeq(buf') = (pending \ l) \cup {read}
  BY <1>7
<1> QED
  BY <1>3, <1>8 DEF Feed!Produce

(* The head of the batch is the oldest of what waits.                       *)
LEMMA HeadIsOldest ==
  ASSUME ItemInv, OrderInv, fwd = "pushing"
  PROVE  /\ Head(batch) \in InSeq(batch) \cup InSeq(buf)
         /\ \A x \in InSeq(batch) \cup InSeq(buf) : Head(batch) <= x
         /\ InSeq(Tail(batch)) \cup InSeq(buf)
               = (InSeq(batch) \cup InSeq(buf)) \ {Head(batch)}
<1>1. batch \in Seq(Positive) /\ batch # <<>> /\ buf \in Seq(Positive)
  BY DEF ItemInv
<1>2. /\ Len(batch) \in Nat /\ Len(batch) >= 1 /\ Len(buf) \in Nat /\ Head(batch) = batch[1]
      /\ \A i \in 1..Len(batch) : batch[i] \in Nat
      /\ \A i \in 1..Len(buf) : buf[i] \in Nat
  BY <1>1, EmptySeq, LenProperties, ElementOfSeq DEF Positive
<1>3. /\ Tail(batch) \in Seq(Positive)
      /\ Len(Tail(batch)) = Len(batch) - 1
      /\ \A i \in 1..Len(Tail(batch)) : Tail(batch)[i] = batch[i + 1]
  BY <1>1, HeadTailProperties
<1>4. /\ InSeq(batch) = {batch[i] : i \in 1..Len(batch)}
      /\ InSeq(buf) = {buf[i] : i \in 1..Len(buf)}
      /\ InSeq(Tail(batch)) = {Tail(batch)[i] : i \in 1..Len(Tail(batch))}
  BY <1>1, <1>3, InSeqIs
<1>5. 1 \in 1..Len(batch)
  BY <1>2
<1>6. \A i \in 1..Len(batch) : i = 1 \/ batch[1] < batch[i]
  <2> TAKE i \in 1..Len(batch)
  <2> SUFFICES ASSUME i # 1
               PROVE  batch[1] < batch[i]
    OBVIOUS
  <2>1. 1 < i
    BY <1>2
  <2> QED
    BY <1>5, <2>1 DEF OrderInv, Increasing
<1>7. \A i \in 1..Len(buf) : batch[1] < buf[i]
  BY <1>5 DEF OrderInv
<1>8. \A x \in InSeq(batch) \cup InSeq(buf) : batch[1] <= x
  <2>1. ASSUME NEW i \in 1..Len(batch)
        PROVE  batch[1] <= batch[i]
    <3>1. batch[1] \in Nat /\ batch[i] \in Nat
      BY <1>2, <1>5
    <3> QED
      BY <1>6, <3>1
  <2>2. ASSUME NEW i \in 1..Len(buf)
        PROVE  batch[1] <= buf[i]
    <3>1. batch[1] \in Nat /\ buf[i] \in Nat
      BY <1>2, <1>5
    <3> QED
      BY <1>7, <3>1
  <2> QED
    BY <1>4, <2>1, <2>2
<1>9. InSeq(Tail(batch)) = InSeq(batch) \ {batch[1]}
  <2>1. ASSUME NEW i \in 1..Len(Tail(batch))
        PROVE  Tail(batch)[i] \in InSeq(batch) \ {batch[1]}
    <3>1. i + 1 \in 1..Len(batch) /\ i + 1 # 1
      BY <1>2, <1>3
    <3>2. batch[1] < batch[i + 1] /\ batch[1] \in Nat /\ batch[i + 1] \in Nat
      BY <1>2, <1>5, <1>6, <3>1
    <3>3. batch[1] # batch[i + 1]
      BY <3>2
    <3> QED
      BY <1>3, <1>4, <3>1, <3>3
  <2>2. ASSUME NEW i \in 1..Len(batch), batch[i] # batch[1]
        PROVE  batch[i] \in InSeq(Tail(batch))
    <3>1. i # 1
      BY <2>2
    <3>2. i - 1 \in 1..Len(Tail(batch)) /\ (i - 1) + 1 = i
      BY <1>2, <1>3, <3>1
    <3> QED
      BY <1>3, <1>4, <3>2
  <2> QED
    BY <1>4, <2>1, <2>2
<1>10. batch[1] \notin InSeq(buf)
  <2> SUFFICES ASSUME NEW i \in 1..Len(buf), buf[i] = batch[1]
               PROVE  FALSE
    BY <1>4
  <2>1. batch[1] < buf[i] /\ batch[1] \in Nat
    BY <1>2, <1>5, <1>7
  <2> QED
    BY <2>1
<1> QED
  BY <1>2, <1>4, <1>5, <1>8, <1>9, <1>10

LEMMA LeastIsMin ==
  ASSUME NEW S \in SUBSET Nat, NEW m \in S, \A x \in S : m <= x
  PROVE  Feed!Min(S) = m
<1>1. \A x \in S : (\A y \in S : x <= y) => x = m
  OBVIOUS
<1> QED
  BY <1>1 DEF Feed!Min

(* Queueing a line delivers the oldest item that waits.                     *)
LEMMA PushDelivers ==
  ASSUME ItemInv, StopInv, OrderInv, PushOne
  PROVE  Feed!Deliver
<1> DEFINE pending == InSeq(batch) \cup InSeq(buf)
<1>1. /\ fwd = "pushing" /\ lines' = Append(lines, Head(batch)) /\ batch' = Tail(batch)
      /\ buf' = buf /\ read' = read /\ reader' = reader /\ stop' = stop
  BY DEF PushOne
<1>2. batch \in Seq(Positive) /\ batch # <<>> /\ buf \in Seq(Positive) /\ lines \in Seq(Nat)
  BY <1>1 DEF ItemInv
<1>3. Head(batch) \in Positive
  BY <1>2, HeadTailProperties
<1>4. pending \in SUBSET Nat
  <2>1. \A i \in 1..Len(batch) : batch[i] \in Nat
    BY <1>2, ElementOfSeq DEF Positive
  <2>2. \A i \in 1..Len(buf) : buf[i] \in Nat
    BY <1>2, ElementOfSeq DEF Positive
  <2>3. /\ InSeq(batch) = {batch[i] : i \in 1..Len(batch)}
        /\ InSeq(buf) = {buf[i] : i \in 1..Len(buf)}
    BY <1>2, InSeqIs
  <2> QED
    BY <2>1, <2>2, <2>3
<1>5. /\ Head(batch) \in pending
      /\ \A x \in pending : Head(batch) <= x
      /\ InSeq(batch') \cup InSeq(buf') = pending \ {Head(batch)}
  BY <1>1, HeadIsOldest
<1>6. Feed!Min(pending) = Head(batch)
  BY <1>4, <1>5, LeastIsMin
<1>7. \A i, j \in 1..Len(lines) : lines[i] = StopReply /\ lines[j] = StopReply => i = j
  <2>1. CASE stop = "replied"
    BY <2>1 DEF StopInv, RepliedAt
  <2>2. CASE stop # "replied"
    BY <1>2, <2>2, LenProperties DEF StopInv, HasReply
  <2> QED
    BY <2>1, <2>2
<1>8. Items(lines') = Append(Items(lines), Head(batch))
  BY <1>1, <1>2, <1>3, <1>7, ItemsOfAnItem
<1> QED
  BY <1>1, <1>5, <1>6, <1>8 DEF Feed!Deliver

LEMMA StepOfFeed ==
  ItemInv /\ StopInv /\ OrderInv /\ [Next]_tailVars => [Feed!Next]_Feed!feed
<1> SUFFICES ASSUME ItemInv, StopInv, OrderInv, [Next]_tailVars
             PROVE  [Feed!Next]_Feed!feed
  OBVIOUS
<1>1. CASE PushChunk
  BY <1>1, PushProduces DEF Feed!Next
<1>2. CASE PushOne
  BY <1>2, PushDelivers DEF Feed!Next
<1>3. CASE StopTail
  <2>1. /\ stop = "no" /\ stop' = "asked" /\ read' = read /\ batch' = batch /\ buf' = buf
        /\ lines' = lines
        /\ reader' \in {"got", "gotEnd"} <=> reader \in {"got", "gotEnd"}
    BY <1>3 DEF StopTail
  <2>2. Feed!Stop
    BY <2>1 DEF Feed!Stop
  <2> QED
    BY <2>2 DEF Feed!Next
<1>4. CASE Drain
  <2>1. batch = <<>> /\ batch' = buf /\ buf' = <<>>
    BY <1>4 DEF Drain, OrderInv
  <2>2. InSeq(batch') \cup InSeq(buf') = InSeq(batch) \cup InSeq(buf)
    BY <2>1 DEF InSeq
  <2>3. read' = read /\ reader' = reader /\ lines' = lines /\ stop' = stop
    BY <1>4 DEF Drain
  <2> QED
    BY <2>2, <2>3 DEF Feed!feed
<1>5. CASE ReplyStopped
  <2>1. /\ stop = "asked" /\ stop' = "replied" /\ lines' = Append(lines, StopReply)
        /\ read' = read /\ reader' = reader /\ batch' = batch /\ buf' = buf
    BY <1>5 DEF ReplyStopped
  <2>2. Items(lines') = Items(lines)
    BY <2>1, ItemsOfTheReply DEF ItemInv, StopInv
  <2>3. (stop' # "no") = (stop # "no")
    BY <2>1
  <2> QED
    BY <2>1, <2>2, <2>3 DEF Feed!feed
<1>6. CASE ReadChunk
  <2>1. /\ (IF reader' \in {"got", "gotEnd"} THEN read' - 1 ELSE read')
             = (IF reader \in {"got", "gotEnd"} THEN read - 1 ELSE read)
        /\ batch' = batch /\ buf' = buf /\ lines' = lines /\ stop' = stop
    BY <1>6 DEF ReadChunk, ItemInv
  <2> QED
    BY <2>1 DEF Feed!feed
<1>7. CASE Poll \/ Arm \/ Wake \/ WriteLine \/ UNCHANGED tailVars
  <2>1. /\ read' = read /\ reader' = reader /\ batch' = batch /\ buf' = buf
        /\ lines' = lines /\ stop' = stop
    BY <1>7 DEF Poll, Arm, Wake, WriteLine, tailVars
  <2> QED
    BY <2>1 DEF Feed!feed
<1> QED
  BY <1>1, <1>2, <1>3, <1>4, <1>5, <1>6, <1>7 DEF Next, Forward

(* Every step of a tail is a step of a lossy feed, or none: the client gets *)
(* the items in order and at most once, and one that is missing was pushed  *)
(* out of a full ring by a newer one.                                       *)
THEOREM TailIsALossyFeed == Spec => Feed!Init /\ [][Feed!Next]_Feed!feed
<1>1. Init => ItemInv /\ RingInv /\ StopInv /\ OrderInv /\ Feed!Init
  <2> SUFFICES ASSUME Init
               PROVE  ItemInv /\ RingInv /\ StopInv /\ OrderInv /\ Feed!Init
    OBVIOUS
  <2>1. ItemInv /\ RingInv
    BY TailAssumption, EmptySeq DEF Init, ItemInv, RingInv, RingBounded
  <2>2. StopInv
    BY EmptySeq DEF Init, StopInv, HasReply
  <2>3. OrderInv
    BY EmptySeq DEF Init, OrderInv, Increasing
  <2>4. Feed!Init
    <3>1. InSeq(<<>>) = {} /\ Items(<<>>) = <<>>
      BY DEF InSeq, Items, HasReply
    <3> QED
      BY <3>1 DEF Init, Feed!Init
  <2> QED
    BY <2>1, <2>2, <2>3, <2>4
<1> QED
  BY <1>1, StepItemInv, StepRingInv, StepStopInv, StepOrderInv, StepOfFeed, PTL DEF Spec

-----------------------------------------------------------------------------
(* The sockets of the clients and their subscriptions: ClientSubscriptions. *)

(* The types but for the counter, on which the registry does not depend.    *)
SubsTyped ==
    /\ conn \in [Clients -> {"new", "open", "eof", "gone", "cut"}]
    /\ owner \in [Subs -> Clients \cup {NoClient}]
    /\ start \in [Subs -> {"unused", "dialing", "polled", "over"}]
    /\ tail \in [Subs -> {"none", "running", "stopping", "ended"}]
    /\ entries \in [Subs -> Clients \cup {NoClient}]
    /\ byClient \in [Clients -> SUBSET Subs]

(* An id is handed out to one request before anything is known of it, and   *)
(* is registered only by the end of that request, under its client.         *)
StartsAreOwned  == \A s \in Subs : start[s] \in {"dialing", "polled"} => owner[s] # NoClient
EntriesAreOver  == \A s \in Subs : entries[s] # NoClient => start[s] = "over" /\ entries[s] = owner[s]
PendingNotRun   == \A s \in Subs : start[s] \in {"unused", "dialing"} => tail[s] = "none"

RegistryInv ==
    /\ SubsTyped
    /\ StartsAreOwned
    /\ EntriesAreOver
    /\ PendingNotRun
    /\ RegistryConsistent
    /\ RunningTailsAreRegistered

-----------------------------------------------------------------------------
LEMMA InitRegistryInv == SubsInit => RegistryInv
  BY SubscriptionsAssumption DEF SubsInit, RegistryInv, SubsTyped, StartsAreOwned, EntriesAreOver,
     PendingNotRun, RegistryConsistent, RunningTailsAreRegistered

(* Every step keeps the registry in order.                                  *)
LEMMA StepRegistryInv == RegistryInv /\ [SubsNext]_subsVars => RegistryInv'
<1> SUFFICES ASSUME RegistryInv, [SubsNext]_subsVars
             PROVE  RegistryInv'
  OBVIOUS
<1> USE SubscriptionsAssumption
        DEF RegistryInv, SubsTyped, StartsAreOwned, EntriesAreOver, PendingNotRun,
            RegistryConsistent, RunningTailsAreRegistered
<1>1. CASE UNCHANGED subsVars
  BY <1>1 DEF subsVars
<1>2. ASSUME NEW c \in Clients, Accept(c) \/ HangUp(c) \/ ReadFailed(c)
      PROVE  RegistryInv'
  BY <1>2 DEF Accept, HangUp, ReadFailed, AbortRequests
<1>3. ASSUME NEW c \in Clients, Disconnected(c)
      PROVE  RegistryInv'
  BY <1>3 DEF Disconnected, RemoveClient, StopHandles
<1>4. ASSUME NEW c \in Clients, NEW s \in Subs, TailStart(c, s)
      PROVE  RegistryInv'
  BY <1>4 DEF TailStart
<1>5. ASSUME NEW c \in Clients, NEW s \in Subs, TailStop(c, s)
      PROVE  RegistryInv'
  BY <1>5 DEF TailStop, RemoveEntry, StopHandles
<1>6. ASSUME NEW s \in Subs, DialFailed(s) \/ Dialed(s)
      PROVE  RegistryInv'
  BY <1>6 DEF DialFailed, Dialed
<1>7. ASSUME NEW s \in Subs, Inserted(s)
      PROVE  RegistryInv'
  BY <1>7 DEF Inserted, Insert
<1>8. ASSUME NEW s \in Subs, TailEnds(s)
      PROVE  RegistryInv'
  BY <1>8 DEF TailEnds
<1> QED
  BY <1>1, <1>2, <1>3, <1>4, <1>5, <1>6, <1>7, <1>8 DEF SubsNext

(* The invariant holds in every reachable state.                            *)
THEOREM RegistryHolds == SubsSpec => []RegistryInv
  BY InitRegistryInv, StepRegistryInv, PTL DEF SubsSpec

(* The two maps of `Subscriptions` never disagree, whatever clients start,  *)
(* stop, hang up and are cut off in between.                                *)
THEOREM RegistryIsConsistent == SubsSpec => []RegistryConsistent
<1>1. RegistryInv => RegistryConsistent
  BY DEF RegistryInv
<1> QED
  BY RegistryHolds, <1>1, PTL

(* A running tail can always be stopped through the registry.               *)
THEOREM TailsCanBeStopped == SubsSpec => []RunningTailsAreRegistered
<1>1. RegistryInv => RunningTailsAreRegistered
  BY DEF RegistryInv
<1> QED
  BY RegistryHolds, <1>1, PTL

(* The cleanup of one socket stops no tail of another.                      *)
THEOREM CleanupIsLocal == SubsSpec => CleanupStopsOnlyItsOwn
<1>1. RegistryInv /\ [SubsNext]_subsVars =>
        [\A c \in Clients, s \in Subs :
            Disconnected(c) /\ tail'[s] # tail[s] => owner[s] = c]_subsVars
  BY SubscriptionsAssumption
     DEF RegistryInv, SubsTyped, RegistryConsistent, EntriesAreOver, Disconnected, StopHandles
<1> QED
  BY RegistryHolds, <1>1, PTL DEF SubsSpec, CleanupStopsOnlyItsOwn

-----------------------------------------------------------------------------
(* A request of a socket that is open may be dialing; a socket that no       *)
(* worker polls for has no request between two of its own awaits, and is    *)
(* left with an empty list by its cleanup.                                  *)
CleanupInv ==
    /\ \A s \in Subs : start[s] = "polled" => owner[s] \in Parallel
    /\ \A s \in Subs : start[s] = "dialing" => conn[owner[s]] = "open"
    /\ \A s \in Subs : start[s] = "unused" => owner[s] = NoClient
    /\ \A c \in Clients : conn[c] = "cut" => c \in ReadErrors
    /\ \A c \in Clients \ Parallel : conn[c] = "gone" => byClient[c] = {}

LEMMA StepCleanupInv ==
  ASSUME RegistryInv, CleanupInv, [SubsNext]_subsVars
  PROVE  CleanupInv'
<1> USE SubscriptionsAssumption
        DEF RegistryInv, SubsTyped, StartsAreOwned, EntriesAreOver, RegistryConsistent, CleanupInv
<1>1. CASE UNCHANGED subsVars
  BY <1>1 DEF subsVars
<1>2. ASSUME NEW c \in Clients, Accept(c) \/ HangUp(c) \/ ReadFailed(c) \/ Disconnected(c)
      PROVE  CleanupInv'
  BY <1>2 DEF Accept, HangUp, ReadFailed, AbortRequests, Disconnected, RemoveClient
<1>3. ASSUME NEW c \in Clients, NEW s \in Subs, TailStart(c, s) \/ TailStop(c, s)
      PROVE  CleanupInv'
  BY <1>3 DEF TailStart, TailStop, RemoveEntry
<1>4. ASSUME NEW s \in Subs, DialFailed(s) \/ Dialed(s) \/ Inserted(s) \/ TailEnds(s)
      PROVE  CleanupInv'
  BY <1>4 DEF DialFailed, Dialed, Inserted, Insert, TailEnds
<1> QED
  BY <1>1, <1>2, <1>3, <1>4 DEF SubsNext

(* However many sockets there are and whatever happens to the others, none  *)
(* of the subscriptions and tails of a client is left once its socket was   *)
(* read to the end while no request of it was being polled.                 *)
THEOREM SocketsCleanUp == SubsSpec => []CleanupIsComplete
<1>1. SubsInit => CleanupInv
  BY SubscriptionsAssumption DEF SubsInit, CleanupInv
<1>2. RegistryInv /\ CleanupInv /\ [SubsNext]_subsVars => CleanupInv'
  BY StepCleanupInv
<1>3. RegistryInv /\ CleanupInv => CleanupIsComplete
  BY SubscriptionsAssumption
     DEF RegistryInv, SubsTyped, RegistryConsistent, EntriesAreOver, RunningTailsAreRegistered,
         CleanupInv, CleanupIsComplete, Orphaned
<1> QED
  BY RegistryHolds, <1>1, <1>2, <1>3, PTL DEF SubsSpec

=============================================================================
