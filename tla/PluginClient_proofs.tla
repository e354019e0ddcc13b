------------------------- MODULE PluginClient_proofs -------------------------
(***************************************************************************)
(* For any number of statements, requests, pipes and events: a statement   *)
(* the user runs is executed at most once, unless its error reads "not     *)
(* connected", the one shown as running is the one that is out, and an     *)
(* answer is owed to each that is waited for.                              *)
(*                                                                         *)
(* A run is with at most one callback at a time, in one of four places:    *)
(* waiting for a pipe, for an answer, for its turn or for a connect        *)
(* (PlaceInv).  Only one that was turned down moves back to an earlier     *)
(* place, and what was turned down was not executed, if it was the server  *)
(* that turned it down and not an error misread (SpentInv).  One that      *)
(* is out is the one `running` names, until two overlap (ShownInv).  And   *)
(* what waits for an answer has a message or an answer on a pipe that is   *)
(* still read, or the end of a dead one to come (OwedInv).                 *)
(***************************************************************************)
EXTENDS PluginClient, SequenceTheorems, FiniteSetTheorems, TLAPS

USE DEF served

PipeStates == {"unused", "open", "dead", "closed"}

RunStates  == {"new", "refused", "waits", "done", "failed"}

Messages == [id : Ids, pipe : Pipes, run : Runs \cup {None}, method : Methods]
Answered == [id : Ids, pipe : Pipes, err : Errors \cup {None}, half : BOOLEAN]
Turns    == [cont : Conts, err : Errors \cup {None}]

TypeInv ==
    /\ pipe \in Pipes \cup {None}
    /\ nextId \in Nat
    /\ pending \in [Ids -> Conts \cup {None}]
    /\ pipes \in [Pipes -> PipeStates]
    /\ \A e \in ensuring : e.cont \in Conts
    /\ scheduled \in Seq(Turns)
    /\ connecting \in Seq(Waiters) \cup {None}
    /\ running \in Runs \cup {None}
    /\ runs \in [Runs -> RunStates]
    /\ wire \subseteq Messages
    /\ replies \subseteq Answered

(* A number is given once, and what is under it on the wire is what the     *)
(* client keeps under it.                                                   *)
LinkInv ==
    /\ \A m \in wire : /\ m.id <= nextId
                       /\ pending[m.id] # None => /\ pending[m.id].run = m.run
                                                  /\ pending[m.id].method = m.method
    /\ \A x \in replies : x.id <= nextId
    /\ \A i \in Ids : pending[i] # None => i <= nextId

-----------------------------------------------------------------------------
(* Where a run is                                                           *)

IsCall(c, r) == c.run = r /\ c.method = "execute"

Ens(r)  == {e \in ensuring : IsCall(e.cont, r)}
Pend(r) == {i \in Ids : pending[i] # None /\ IsCall(pending[i], r)}
Turn(r) == {i \in 1..Len(scheduled) : IsCall(scheduled[i].cont, r)}
Conn(r) == {i \in DOMAIN connecting : connecting # None /\ connecting[i].run = r}
Wire(r) == {m \in wire : m.method = "execute" /\ m.run = r}

AtMost(S) == \A x, y \in S : x = y

OnePlace(r) ==
    /\ AtMost(Ens(r)) /\ AtMost(Pend(r)) /\ AtMost(Turn(r)) /\ AtMost(Conn(r))
    /\ Ens(r) = {} \/ (Pend(r) = {} /\ Turn(r) = {} /\ Conn(r) = {})
    /\ Pend(r) = {} \/ (Turn(r) = {} /\ Conn(r) = {})
    /\ Turn(r) = {} \/ Conn(r) = {}

Nowhere(r) == Ens(r) = {} /\ Pend(r) = {} /\ Turn(r) = {} /\ Conn(r) = {}

PlaceInv == \A r \in Runs : OnePlace(r) /\ (runs[r] = "waits" \/ Nowhere(r))

-----------------------------------------------------------------------------
(* What sending some callbacks leaves.                                      *)

Message(p, conts, k) ==
    [id |-> nextId + k, pipe |-> p, run |-> conts[k].run, method |-> conts[k].method]

LEMMA SendsLeave ==
  ASSUME TypeInv, LinkInv, NEW p \in Pipes, NEW conts \in Seq(Conts), Sends(p, conts)
  PROVE  /\ nextId' \in Nat /\ nextId' = nextId + Len(conts)
         /\ pending' \in [Ids -> Conts \cup {None}]
         /\ wire' \subseteq Messages
         /\ \A i \in Ids : i <= nextId => pending'[i] = pending[i]
         /\ \A k \in 1..Len(conts) : nextId + k \in Ids /\ pending'[nextId + k] = conts[k]
         /\ \A i \in Ids : i <= nextId \/ pending'[i] = None
                             \/ \E k \in 1..Len(conts) : i = nextId + k
         /\ wire \subseteq wire'
         /\ \A m \in wire' : m \in wire \/ \E k \in 1..Len(conts) : m = Message(p, conts, k)
         /\ pipes[p] # "dead" => \A k \in 1..Len(conts) : Message(p, conts, k) \in wire'
<1>1. /\ nextId \in Nat /\ Len(conts) \in Nat /\ nextId + Len(conts) <= MaxIds /\ MaxIds \in Nat
      /\ nextId' = nextId + Len(conts)
  BY PluginClientAssumption, LenProperties DEF Sends, TypeInv
<1>2. \A k \in 1..Len(conts) : conts[k] \in Conts
  BY ElementOfSeq
<1>3. \A k \in 1..Len(conts) : nextId + k \in Ids /\ nextId + k \in (nextId + 1)..nextId'
  BY <1>1 DEF Ids
<1>4. \A i \in Ids : i \in (nextId + 1)..nextId' => i - nextId \in 1..Len(conts) /\ nextId + (i - nextId) = i
  BY <1>1 DEF Ids
<1>5. pending' = [i \in Ids |-> IF i \in (nextId + 1)..nextId' THEN conts[i - nextId]
                                ELSE pending[i]]
  BY DEF Sends
<1>6. pending' \in [Ids -> Conts \cup {None}]
  BY <1>2, <1>4, <1>5 DEF TypeInv
<1>7. \A i \in Ids : i <= nextId => pending'[i] = pending[i]
  BY <1>1, <1>5 DEF Ids
<1>8. \A k \in 1..Len(conts) : pending'[nextId + k] = conts[k]
  <2> TAKE k \in 1..Len(conts)
  <2>1. (nextId + k) - nextId = k
    BY <1>1
  <2> QED
    BY <1>3, <1>5, <2>1
<1>9. \A i \in Ids : i <= nextId \/ pending'[i] = None \/ \E k \in 1..Len(conts) : i = nextId + k
  <2> SUFFICES ASSUME NEW i \in Ids, ~(i <= nextId), ~(\E k \in 1..Len(conts) : i = nextId + k)
               PROVE  pending'[i] = None
    OBVIOUS
  <2>1. i \notin (nextId + 1)..nextId'
    BY <1>4
  <2> QED
    BY <1>5, <2>1 DEF LinkInv
<1>10. DOMAIN conts = 1..Len(conts)
  BY LenProperties
<1>11. \A k \in 1..Len(conts) : Message(p, conts, k) \in Messages
  <2> TAKE k \in 1..Len(conts)
  <2>1. conts[k].run \in Runs \cup {None} /\ conts[k].method \in Methods
    BY <1>2 DEF Conts, Methods
  <2> QED
    BY <1>3, <2>1 DEF Message, Messages
<1>12. wire' = IF pipes[p] = "dead" THEN wire
               ELSE wire \cup {Message(p, conts, k) : k \in 1..Len(conts)}
  BY <1>10 DEF Sends, Message
<1> QED
  BY <1>1, <1>3, <1>6, <1>7, <1>8, <1>9, <1>11, <1>12 DEF TypeInv

(* The callbacks among conts that are calls of the run r.                   *)
Asked(conts, r) == {k \in 1..Len(conts) : IsCall(conts[k], r)}

(* LinkInv speaks of the answers too: they are not of a number to come.     *)
LEMMA SendsKeepLinks ==
  ASSUME TypeInv, LinkInv, NEW p \in Pipes, NEW conts \in Seq(Conts), Sends(p, conts),
         replies' = replies
  PROVE  LinkInv'
<1>1. /\ nextId' \in Nat /\ nextId' = nextId + Len(conts)
      /\ \A i \in Ids : i <= nextId => pending'[i] = pending[i]
      /\ \A k \in 1..Len(conts) : nextId + k \in Ids /\ pending'[nextId + k] = conts[k]
      /\ \A i \in Ids : i <= nextId \/ pending'[i] = None
                             \/ \E k \in 1..Len(conts) : i = nextId + k
      /\ \A m \in wire' : m \in wire \/ \E k \in 1..Len(conts) : m = Message(p, conts, k)
  BY SendsLeave
<1>2. nextId \in Nat /\ Len(conts) \in Nat /\ nextId <= nextId'
  BY <1>1, LenProperties DEF TypeInv
<1>3. ASSUME NEW m \in wire'
      PROVE  /\ m.id <= nextId'
             /\ pending'[m.id] # None => /\ pending'[m.id].run = m.run
                                         /\ pending'[m.id].method = m.method
  <2>1. CASE m \in wire
    <3>1. m.id \in Ids /\ m.id \in Nat /\ m.id <= nextId
      BY <2>1 DEF TypeInv, LinkInv, Messages, Ids
    <3>2. pending'[m.id] = pending[m.id]
      BY <1>1, <3>1
    <3>3. m.id <= nextId'
      BY <1>2, <3>1, <1>1
    <3> QED
      BY <2>1, <3>2, <3>3 DEF LinkInv
  <2>2. ASSUME NEW k \in 1..Len(conts), m = Message(p, conts, k)
        PROVE  /\ m.id <= nextId'
               /\ pending'[m.id] # None => /\ pending'[m.id].run = m.run
                                           /\ pending'[m.id].method = m.method
    <3>1. m.id = nextId + k /\ m.run = conts[k].run /\ m.method = conts[k].method
      BY <2>2 DEF Message
    <3>2. pending'[m.id] = conts[k]
      BY <1>1, <3>1
    <3>3. m.id <= nextId'
      BY <1>1, <1>2, <3>1
    <3> QED
      BY <3>1, <3>2, <3>3
  <2> QED
    BY <1>1, <2>1, <2>2
<1>4. ASSUME NEW x \in replies'
      PROVE  x.id <= nextId'
  <2>1. x.id \in Nat /\ x.id <= nextId
    BY <1>4 DEF TypeInv, LinkInv, Answered, Ids
  <2> QED
    BY <1>1, <1>2, <2>1
<1>5. ASSUME NEW i \in Ids, pending'[i] # None
      PROVE  i <= nextId'
  <2>1. CASE i <= nextId
    BY <1>1, <1>2, <2>1 DEF Ids
  <2>2. CASE \E k \in 1..Len(conts) : i = nextId + k
    BY <1>1, <1>2, <2>2
  <2> QED
    BY <1>1, <1>5, <2>1, <2>2
<1> QED
  BY <1>3, <1>4, <1>5 DEF LinkInv

LEMMA SendsOfARun ==
  ASSUME TypeInv, LinkInv, NEW p \in Pipes, NEW conts \in Seq(Conts), Sends(p, conts),
         NEW r \in Runs
  PROVE  /\ Asked(conts, r) = {} => Pend(r)' = Pend(r) /\ Wire(r)' = Wire(r)
         /\ AtMost(Asked(conts, r)) /\ Pend(r) = {} => AtMost(Pend(r)')
         /\ AtMost(Asked(conts, r)) /\ Wire(r) = {} => AtMost(Wire(r)')
<1>1. /\ \A i \in Ids : i <= nextId => pending'[i] = pending[i]
      /\ \A k \in 1..Len(conts) : nextId + k \in Ids /\ pending'[nextId + k] = conts[k]
      /\ \A i \in Ids : i <= nextId \/ pending'[i] = None
                             \/ \E k \in 1..Len(conts) : i = nextId + k
      /\ wire \subseteq wire'
      /\ \A m \in wire' : m \in wire \/ \E k \in 1..Len(conts) : m = Message(p, conts, k)
  BY SendsLeave
<1>2. Pend(r) \subseteq Pend(r)' /\ Wire(r) \subseteq Wire(r)'
  BY <1>1 DEF Pend, Wire, LinkInv
<1>3. \A i \in Pend(r)' : i \in Pend(r) \/ \E k \in Asked(conts, r) : i = nextId + k
  <2> SUFFICES ASSUME NEW i \in Ids, pending'[i] # None, IsCall(pending'[i], r), i \notin Pend(r)
               PROVE  \E k \in Asked(conts, r) : i = nextId + k
    BY DEF Pend
  <2>1. ~(i <= nextId)
    BY <1>1 DEF Pend
  <2>2. PICK k \in 1..Len(conts) : i = nextId + k
    BY <1>1, <2>1
  <2> QED
    BY <1>1, <2>2 DEF Asked
<1>4. \A m \in Wire(r)' : m \in Wire(r) \/ \E k \in Asked(conts, r) : m = Message(p, conts, k)
  <2> SUFFICES ASSUME NEW m \in wire', m.method = "execute", m.run = r, m \notin wire
               PROVE  \E k \in Asked(conts, r) : m = Message(p, conts, k)
    BY DEF Wire
  <2>1. PICK k \in 1..Len(conts) : m = Message(p, conts, k)
    BY <1>1
  <2>2. m.run = conts[k].run /\ m.method = conts[k].method
    BY <2>1 DEF Message
  <2> QED
    BY <2>1, <2>2 DEF Asked, IsCall
<1>5. CASE Asked(conts, r) = {}
  BY <1>2, <1>3, <1>4, <1>5 DEF AtMost
<1>6. CASE Asked(conts, r) # {} /\ AtMost(Asked(conts, r))
  <2>1. PICK k \in Asked(conts, r) : \A j \in Asked(conts, r) : j = k
    BY <1>6 DEF AtMost
  <2>2. \A i \in Pend(r)' : i \in Pend(r) \/ i = nextId + k
    BY <1>3, <2>1
  <2>3. \A m \in Wire(r)' : m \in Wire(r) \/ m = Message(p, conts, k)
    BY <1>4, <2>1
  <2> QED
    BY <1>6, <2>2, <2>3 DEF AtMost
<1> QED
  BY <1>5, <1>6

(* A call goes out on the pipe, or waits for one of its own.                *)
LEMMA CallsAre ==
  ASSUME NEW conts \in Seq(Conts), Calls(conts)
  PROVE  \/ pipe # None /\ Sends(pipe, conts) /\ ensuring' = ensuring
         \/ /\ nextId' = nextId /\ pending' = pending /\ wire' = wire
            /\ \E n : ensuring' = ensuring \cup {Ensure(conts[i], 0, n + i) : i \in 1..Len(conts)}
<1>1. DOMAIN conts = 1..Len(conts)
  BY LenProperties
<1>2. CASE pipe # None
  BY <1>2 DEF Calls
<1>3. CASE pipe = None
  <2>1. ensuring' = ensuring \cup {Ensure(conts[i], 0, Max({0} \cup {e.n : e \in ensuring}) + i) :
                                      i \in 1..Len(conts)}
    BY <1>1, <1>3 DEF Calls
  <2>2. nextId' = nextId /\ pending' = pending /\ wire' = wire
    BY <1>3 DEF Calls
  <2> QED
    BY <2>1, <2>2
<1> QED
  BY <1>2, <1>3

LEMMA CallsLeave ==
  ASSUME TypeInv, LinkInv, NEW conts \in Seq(Conts), Calls(conts), replies' = replies
  PROVE  /\ nextId' \in Nat
         /\ pending' \in [Ids -> Conts \cup {None}]
         /\ \A e \in ensuring' : e.cont \in Conts
         /\ wire' \subseteq Messages
         /\ LinkInv'
<1>1. CASE pipe # None /\ Sends(pipe, conts) /\ ensuring' = ensuring
  <2>1. pipe \in Pipes
    BY <1>1 DEF TypeInv
  <2>2. nextId' \in Nat /\ pending' \in [Ids -> Conts \cup {None}] /\ wire' \subseteq Messages
    BY <1>1, <2>1, SendsLeave
  <2>3. LinkInv'
    BY <1>1, <2>1, SendsKeepLinks
  <2> QED
    BY <1>1, <2>2, <2>3 DEF TypeInv
<1>2. CASE /\ nextId' = nextId /\ pending' = pending /\ wire' = wire
           /\ \E n : ensuring' = ensuring \cup {Ensure(conts[i], 0, n + i) : i \in 1..Len(conts)}
  <2>1. \A i \in 1..Len(conts) : conts[i] \in Conts
    BY ElementOfSeq
  <2>2. \A e \in ensuring' : e.cont \in Conts
    BY <1>2, <2>1 DEF Ensure, TypeInv
  <2> QED
    BY <1>2, <2>2 DEF TypeInv, LinkInv
<1> QED
  BY <1>1, <1>2, CallsAre

LEMMA CallsOfARun ==
  ASSUME TypeInv, LinkInv, NEW conts \in Seq(Conts), Calls(conts), NEW r \in Runs
  PROVE  /\ Asked(conts, r) = {} =>
                Ens(r)' = Ens(r) /\ Pend(r)' = Pend(r) /\ Wire(r)' = Wire(r)
         /\ AtMost(Asked(conts, r)) /\ Ens(r) = {} /\ Pend(r) = {} =>
                AtMost(Ens(r)') /\ AtMost(Pend(r)') /\ (Ens(r)' = {} \/ Pend(r)' = {})
         /\ AtMost(Asked(conts, r)) /\ Wire(r) = {} => AtMost(Wire(r)')
         /\ Ens(r)' = Ens(r) \/ (Pend(r)' = Pend(r) /\ Wire(r)' = Wire(r))
<1>1. CASE pipe # None /\ Sends(pipe, conts) /\ ensuring' = ensuring
  <2>1. pipe \in Pipes
    BY <1>1 DEF TypeInv
  <2>2. Ens(r)' = Ens(r)
    BY <1>1 DEF Ens
  <2>3. AtMost({})
    BY DEF AtMost
  <2> QED
    BY <1>1, <2>1, <2>2, <2>3, SendsOfARun
<1>2. CASE /\ nextId' = nextId /\ pending' = pending /\ wire' = wire
           /\ \E n : ensuring' = ensuring \cup {Ensure(conts[i], 0, n + i) : i \in 1..Len(conts)}
  <2>1. Pend(r)' = Pend(r) /\ Wire(r)' = Wire(r)
    BY <1>2 DEF Pend, Wire
  <2>2. PICK n : ensuring' = ensuring \cup {Ensure(conts[i], 0, n + i) : i \in 1..Len(conts)}
    BY <1>2
  <2>3. Ens(r) \subseteq Ens(r)'
    BY <2>2 DEF Ens
  <2>4. \A e \in Ens(r)' : e \in Ens(r) \/ \E i \in Asked(conts, r) : e = Ensure(conts[i], 0, n + i)
    <3> SUFFICES ASSUME NEW e \in ensuring', IsCall(e.cont, r), e \notin ensuring
                 PROVE  \E i \in Asked(conts, r) : e = Ensure(conts[i], 0, n + i)
      BY DEF Ens
    <3>1. PICK i \in 1..Len(conts) : e = Ensure(conts[i], 0, n + i)
      BY <2>2
    <3>2. e.cont = conts[i]
      BY <3>1 DEF Ensure
    <3> QED
      BY <3>1, <3>2 DEF Asked
  <2>5. Asked(conts, r) = {} => Ens(r)' = Ens(r)
    BY <2>3, <2>4
  <2>6. AtMost(Asked(conts, r)) /\ Ens(r) = {} => AtMost(Ens(r)')
    BY <2>4 DEF AtMost
  <2>7. AtMost({})
    BY DEF AtMost
  <2> QED
    BY <2>1, <2>5, <2>6, <2>7
<1> QED
  BY <1>1, <1>2, CallsAre

LEMMA CallsNothingLeaves ==
  ASSUME TypeInv, LinkInv, CallsNothing, replies' = replies
  PROVE  /\ nextId' \in Nat
         /\ pending' \in [Ids -> Conts \cup {None}]
         /\ \A e \in ensuring' : e.cont \in Conts
         /\ wire' \subseteq Messages
         /\ LinkInv'
         /\ \A r \in Runs : Ens(r)' = Ens(r) /\ Pend(r)' = Pend(r) /\ Wire(r)' = Wire(r)
BY DEF CallsNothing, calls, TypeInv, LinkInv, Ens, Pend, Wire

(* One callback alone.                                                      *)
LEMMA OneCall ==
  ASSUME NEW c \in Conts
  PROVE  /\ <<c>> \in Seq(Conts)
         /\ \A r \in Runs : AtMost(Asked(<<c>>, r))
         /\ \A r \in Runs : ~IsCall(c, r) => Asked(<<c>>, r) = {}
<1>1. <<c>> \in Seq(Conts) /\ Len(<<c>>) = 1 /\ <<c>>[1] = c
  OBVIOUS
<1>2. \A k \in 1..Len(<<c>>) : k = 1
  BY <1>1
<1> QED
  BY <1>1, <1>2 DEF Asked, AtMost

(* What goes out for some that waited for a connect.                        *)
Executes(ws) == [i \in DOMAIN ws |-> Cont(ws[i].run, "execute", ws[i].retried, ws[i].again)]

LEMMA ExecutesAre ==
  ASSUME NEW ws \in Seq(Waiters)
  PROVE  /\ Executes(ws) \in Seq(Conts)
         /\ \A r \in Runs : Asked(Executes(ws), r) = {i \in 1..Len(ws) : ws[i].run = r}
<1>1. DOMAIN ws = 1..Len(ws) /\ Len(ws) \in Nat
  BY LenProperties
<1>2. \A i \in 1..Len(ws) : Cont(ws[i].run, "execute", ws[i].retried, ws[i].again) \in Conts
  <2> TAKE i \in 1..Len(ws)
  <2>1. ws[i] \in Waiters
    BY ElementOfSeq
  <2> QED
    BY <2>1 DEF Waiters, Cont, Conts, Methods
<1>3. Executes(ws) \in [1..Len(ws) -> Conts]
  BY <1>1, <1>2 DEF Executes
<1>4. Executes(ws) \in Seq(Conts)
  BY <1>1, <1>3
<1>5. Len(Executes(ws)) = Len(ws)
  BY <1>1, <1>3, <1>4, LenProperties
<1>6. \A i \in 1..Len(ws), r \in Runs : IsCall(Executes(ws)[i], r) <=> ws[i].run = r
  BY <1>1 DEF Executes, IsCall, Cont
<1> QED
  BY <1>4, <1>5, <1>6 DEF Asked

LEMMA Popped ==
  ASSUME TypeInv, scheduled # <<>>, scheduled' = Tail(scheduled), NEW r
  PROVE  /\ scheduled' \in Seq(Turns) /\ Head(scheduled) \in Turns
         /\ \A i \in Turn(r)' : i + 1 \in Turn(r) /\ scheduled'[i] = scheduled[i + 1]
         /\ AtMost(Turn(r)) => AtMost(Turn(r)')
         /\ Turn(r) = {} => Turn(r)' = {} /\ ~IsCall(Head(scheduled).cont, r)
         /\ AtMost(Turn(r)) /\ IsCall(Head(scheduled).cont, r) => Turn(r)' = {}
         /\ IsCall(Head(scheduled).cont, r) => 1 \in Turn(r) /\ scheduled[1] = Head(scheduled)
<1>1. scheduled \in Seq(Turns)
  BY DEF TypeInv
<1>2. /\ Tail(scheduled) \in Seq(Turns) /\ Head(scheduled) \in Turns
      /\ Len(Tail(scheduled)) = Len(scheduled) - 1
      /\ \A i \in 1..Len(Tail(scheduled)) : Tail(scheduled)[i] = scheduled[i + 1]
      /\ Len(scheduled) \in Nat /\ Len(scheduled) >= 1 /\ Head(scheduled) = scheduled[1]
  BY <1>1, HeadTailProperties, EmptySeq, LenProperties
<1>3. \A i \in 1..Len(scheduled') : i + 1 \in 1..Len(scheduled) /\ scheduled'[i] = scheduled[i + 1]
                                     /\ i \in Nat /\ i + 1 # 1
  BY <1>2
<1>4. \A i \in Turn(r)' : i + 1 \in Turn(r) /\ scheduled'[i] = scheduled[i + 1] /\ i \in Nat /\ i + 1 # 1
  BY <1>3 DEF Turn
<1>5. IsCall(Head(scheduled).cont, r) => 1 \in Turn(r) /\ scheduled[1] = Head(scheduled)
  BY <1>2 DEF Turn
<1>6. ASSUME AtMost(Turn(r))
      PROVE  AtMost(Turn(r)')
  <2> SUFFICES ASSUME NEW i \in Turn(r)', NEW j \in Turn(r)'
               PROVE  i = j
    BY DEF AtMost
  <2>1. i + 1 = j + 1 /\ i \in Nat /\ j \in Nat
    BY <1>4, <1>6 DEF AtMost
  <2> QED
    BY <2>1
<1>7. AtMost(Turn(r)) /\ IsCall(Head(scheduled).cont, r) => Turn(r)' = {}
  BY <1>4, <1>5 DEF AtMost
<1>8. Turn(r) = {} => Turn(r)' = {} /\ ~IsCall(Head(scheduled).cont, r)
  BY <1>4, <1>5
<1> QED
  BY <1>2, <1>4, <1>5, <1>6, <1>7, <1>8

LEMMA ConnectAgainLeaves ==
  ASSUME TypeInv, LinkInv, NEW w \in Waiters, ConnectAgain(w), replies' = replies
  PROVE  /\ connecting' \in Seq(Waiters)
         /\ nextId' \in Nat
         /\ pending' \in [Ids -> Conts \cup {None}]
         /\ \A e \in ensuring' : e.cont \in Conts
         /\ wire' \subseteq Messages
         /\ LinkInv'
         /\ \A r \in Runs : Ens(r)' = Ens(r) /\ Pend(r)' = Pend(r) /\ Wire(r)' = Wire(r)
         /\ \A r \in Runs \ {w.run} : Conn(r)' = Conn(r)
         /\ Conn(w.run) = {} => AtMost(Conn(w.run)')
         /\ \A i \in DOMAIN connecting' :
               \/ connecting'[i] = w
               \/ connecting # None /\ i \in DOMAIN connecting /\ connecting'[i] = connecting[i]
<1>1. CASE connecting # None
  <2>1. connecting \in Seq(Waiters) /\ connecting' = Append(connecting, w) /\ CallsNothing
    BY <1>1 DEF ConnectAgain, TypeInv
  <2>2. /\ connecting' \in Seq(Waiters) /\ Len(connecting') = Len(connecting) + 1
        /\ \A i \in 1..Len(connecting) : connecting'[i] = connecting[i]
        /\ connecting'[Len(connecting) + 1] = w
        /\ Len(connecting) \in Nat
    BY <2>1, AppendProperties, LenProperties
  <2>3. DOMAIN connecting = 1..Len(connecting) /\ DOMAIN connecting' = 1..(Len(connecting) + 1)
    BY <2>1, <2>2, LenProperties
  <2>4. connecting' # None
    BY <2>2, PluginClientAssumption
  <2>5. \A i \in DOMAIN connecting' : i = Len(connecting) + 1 \/ i \in DOMAIN connecting
    BY <2>2, <2>3
  <2>6. \A i \in DOMAIN connecting : i \in DOMAIN connecting' /\ i # Len(connecting) + 1
    BY <2>2, <2>3
  <2>7. \A r \in Runs \ {w.run} : Conn(r)' = Conn(r)
    BY <1>1, <2>2, <2>3, <2>4, <2>5, <2>6 DEF Conn
  <2>8. Conn(w.run) = {} => AtMost(Conn(w.run)')
    BY <1>1, <2>2, <2>3, <2>5 DEF Conn, AtMost
  <2> QED
    BY <1>1, <2>1, <2>2, <2>3, <2>5, <2>7, <2>8, CallsNothingLeaves
<1>2. CASE connecting = None
  <2>1. connecting' = <<w>> /\ Calls(<<Connects>>)
    BY <1>2 DEF ConnectAgain
  <2>2. connecting' \in Seq(Waiters) /\ DOMAIN connecting' = {1} /\ connecting'[1] = w
    BY <2>1
  <2>3. Connects \in Conts /\ \A r \in Runs : ~IsCall(Connects, r)
    BY DEF Connects, Cont, Conts, Methods, IsCall
  <2>4. /\ \A r \in Runs \ {w.run} : Conn(r)' = Conn(r)
        /\ AtMost(Conn(w.run)')
    BY <1>2, <2>2 DEF Conn, AtMost
  <2>5. <<Connects>> \in Seq(Conts) /\ \A r \in Runs : Asked(<<Connects>>, r) = {}
    BY <2>3, OneCall
  <2>6. \A r \in Runs : Ens(r)' = Ens(r) /\ Pend(r)' = Pend(r) /\ Wire(r)' = Wire(r)
    BY <2>1, <2>5, CallsOfARun
  <2>7. /\ nextId' \in Nat
        /\ pending' \in [Ids -> Conts \cup {None}]
        /\ \A e \in ensuring' : e.cont \in Conts
        /\ wire' \subseteq Messages
        /\ LinkInv'
    BY <2>1, <2>5, CallsLeave
  <2> QED
    BY <2>2, <2>4, <2>6, <2>7
<1> QED
  BY <1>1, <1>2

-----------------------------------------------------------------------------
(* What a callback does: its run ends, or waits for a connect once more, or *)
(* the connect it answers is done or failed, or nothing.                    *)
Ended(c) ==
    /\ c.method = "execute"
    /\ \E how \in {"done", "failed"} : runs' = [runs EXCEPT ![c.run] = how]
    /\ running' = None
    /\ CallsNothing /\ UNCHANGED <<connected, connecting, overlapped>>

Requeued(c, err, w) ==
    /\ c.method = "execute" /\ err = "unconnected"
    /\ w \in Waiters /\ w.run = c.run
    /\ ConnectAgain(w)
    /\ runs' = runs /\ connected' = FALSE
    /\ IF w.retried THEN running' = running ELSE running' = None

Ignored(c) ==
    /\ c.method \in {"status", "cancel"} /\ (connected' => connected)
    /\ CallsNothing /\ UNCHANGED <<connecting, running, runs, overlapped>>

LEMMA CallbackIs ==
  ASSUME TypeInv, Callback
  PROVE  LET c   == Head(scheduled).cont
             err == Head(scheduled).err
         IN \/ Ended(c)
            \/ \E w : Requeued(c, err, w)
            \/ c.method = "connect" /\ ConnectDone
            \/ c.method = "connect" /\ ConnectFails /\ connected' = connected
            \/ Ignored(c)
<1> DEFINE c   == Head(scheduled).cont
           err == Head(scheduled).err
<1>1. scheduled # <<>> /\ c.method # "shutdown"
  BY DEF Callback
<1>2. c \in Conts
  <2>1. Head(scheduled) \in Turns
    BY <1>1, HeadTailProperties DEF TypeInv
  <2> QED
    BY <2>1 DEF Turns
<1> HIDE DEF c, err
<1>3. c.method \in {"execute", "connect", "status", "cancel"}
  BY <1>1, <1>2 DEF Conts, c
<1>w. ASSUME c.method = "execute", NEW b \in BOOLEAN, NEW d \in BOOLEAN
      PROVE  /\ Waiter(c.run, b, d) \in Waiters
             /\ Waiter(c.run, b, d).run = c.run /\ Waiter(c.run, b, d).retried = b
  BY <1>2, <1>w DEF Conts, Waiters, Waiter
<1>f. ASSUME c.method = "execute", RunFails(c, err)
      PROVE  Ended(c) \/ \E w : Requeued(c, err, w)
  <2>1. CASE err = "unconnected" /\ ~c.again
    <3>1. /\ connected' = FALSE /\ runs' = runs /\ running' = None
          /\ ConnectAgain(Waiter(c.run, FALSE, TRUE))
      BY <1>f, <2>1 DEF RunFails, Finish
    <3> QED
      BY <1>f, <1>w, <2>1, <3>1 DEF Requeued
  <2>2. CASE ~(err = "unconnected" /\ ~c.again)
    <3>1. /\ runs' = [runs EXCEPT ![c.run] = "failed"] /\ running' = None
          /\ CallsNothing /\ UNCHANGED <<connected, connecting, overlapped>>
      BY <1>f, <2>2 DEF RunFails, Finish, Ends
    <3> QED
      BY <1>f, <3>1 DEF Ended
  <2> QED
    BY <2>1, <2>2
<1>4. CASE c.method = "execute"
  <2>1. Executed(c, err)
    BY <1>4 DEF Callback, c, err
  <2>2. CASE err = None
    <3>1. /\ runs' = [runs EXCEPT ![c.run] = "done"] /\ running' = None
          /\ CallsNothing /\ UNCHANGED <<connected, connecting, overlapped>>
      BY <2>1, <2>2, PluginClientAssumption DEF Executed, Finish, Ends, Errors
    <3> QED
      BY <1>4, <3>1 DEF Ended, c
  <2>3. CASE err # None /\ err = "unconnected" /\ ~c.retried /\ connected
    <3>1. /\ connected' = FALSE /\ runs' = runs /\ running' = running
          /\ ConnectAgain(Waiter(c.run, TRUE, c.again))
      BY <2>1, <2>3 DEF Executed
    <3>2. c.again \in BOOLEAN
      BY <1>2 DEF Conts
    <3> QED
      BY <1>4, <1>w, <2>3, <3>1, <3>2 DEF Requeued, c, err
  <2>4. CASE err # None /\ ~(err = "unconnected" /\ ~c.retried /\ connected)
    <3>1. RunFails(c, err)
      BY <2>1, <2>4 DEF Executed
    <3> QED
      BY <1>4, <1>f, <3>1 DEF c, err
  <2> QED
    BY <2>2, <2>3, <2>4
<1>5. CASE c.method = "connect" /\ err = None
  BY <1>5 DEF Callback, c, err
<1>6. CASE c.method = "connect" /\ err # None
  <2>1. Fails(c, err)
    BY <1>6 DEF Callback, c, err
  <2>2. ConnectFails /\ connected' = connected
    BY <1>6, <2>1 DEF Fails, ConnectFails
  <2> QED
    BY <1>6, <2>2 DEF c
<1>7. CASE c.method = "status"
  <2>1. /\ connected' = (connected /\ err # "unconnected")
        /\ CallsNothing /\ UNCHANGED <<connecting, running, runs, overlapped>>
    BY <1>7 DEF Callback, c, err
  <2> QED
    BY <1>7, <2>1 DEF Ignored, c
<1>8. CASE c.method = "cancel"
  <2>1. Fails(c, err)
    BY <1>8 DEF Callback, c, err
  <2>2. CallsNothing /\ UNCHANGED <<plugin, overlapped>>
    BY <1>8, <2>1 DEF Fails
  <2> QED
    BY <1>8, <2>2 DEF Ignored, c, plugin
<1> QED
  BY <1>3, <1>4, <1>5, <1>6, <1>7, <1>8

-----------------------------------------------------------------------------
(* What the server does behind the client's back, or a half line read,      *)
(* moves no callback: messages go away and answers to them appear.          *)
Background == UNCHANGED <<pipe, nextId, pending, ensuring, scheduled, connected, connecting,
                          running, runs, overlapped>>

LEMMA AnswersLeave ==
  ASSUME TypeInv, NEW m, NEW err \in Errors \cup {None}, Answers(m, err)
  PROVE  /\ Background /\ pipes' = pipes
         /\ m \in wire /\ wire' = wire \ {m}
         /\ replies' = replies \cup {Reply(m, err)}
         /\ Reply(m, err) \in Answered /\ Reply(m, err).id = m.id /\ Reply(m, err).err = err
<1>1. m \in wire /\ m \in Messages
  BY DEF Answers, TypeInv
<1>2. Reply(m, err) \in Answered /\ Reply(m, err).id = m.id /\ Reply(m, err).err = err
  BY <1>1 DEF Reply, Answered, Messages
<1> QED
  BY <1>1, <1>2 DEF Answers, Background, lines, calls, plugin

ServerMoves ==
    /\ Background
    /\ pipes' \in [Pipes -> PipeStates]
    /\ wire' \subseteq wire
    /\ \A x \in replies' : /\ x \in Answered
                          /\ \E y \in wire \cup replies : x.id = y.id

LEMMA ServerIs == TypeInv /\ Server => ServerMoves
<1> SUFFICES ASSUME TypeInv, Server
             PROVE  ServerMoves
  OBVIOUS
<1>t. /\ pipes \in [Pipes -> PipeStates] /\ replies \subseteq Answered /\ wire \subseteq Messages
      /\ \A x \in replies : x \in Answered /\ \E y \in wire \cup replies : x.id = y.id
  BY DEF TypeInv
<1>a. ASSUME NEW m, NEW err \in Errors \cup {None}, Answers(m, err)
      PROVE  ServerMoves
  <2>1. /\ Background /\ pipes' = pipes /\ m \in wire /\ wire' = wire \ {m}
        /\ replies' = replies \cup {Reply(m, err)}
        /\ Reply(m, err) \in Answered /\ Reply(m, err).id = m.id
    BY <1>a, AnswersLeave
  <2> QED
    BY <2>1, <1>t DEF ServerMoves
<1>1. ASSUME NEW m \in wire, ServeExecute(m) \/ ServeConnect(m) \/ ServeStatus(m) \/ ServeShutdown(m)
      PROVE  ServerMoves
  <2>1. \E err \in Errors \cup {None} : Answers(m, err)
    BY <1>1 DEF ServeExecute, ServeConnect, ServeStatus, ServeShutdown, Errors
  <2> QED
    BY <2>1, <1>a
<1>2. ASSUME NEW m \in wire, ServeCancel(m)
      PROVE  ServerMoves
  <2>1. PICK hit \in {{}, {x \in wire : x.method = "execute" /\ x.run = m.run}} :
          /\ wire' = wire \ (hit \cup {m})
          /\ replies' = replies \cup {Reply(m, None)} \cup {Reply(x, "cancelled") : x \in hit}
    BY <1>2 DEF ServeCancel
  <2>2. hit \subseteq wire
    BY <2>1
  <2>3. \A x \in wire, err \in Errors \cup {None} :
          Reply(x, err) \in Answered /\ Reply(x, err).id = x.id
    BY <1>t DEF Reply, Answered, Messages
  <2>4. Background /\ pipes' = pipes
    BY <1>2 DEF ServeCancel, Background, lines, calls, plugin, history
  <2>5. \A x \in replies' : x \in Answered /\ \E y \in wire \cup replies : x.id = y.id
    <3> SUFFICES ASSUME NEW x \in replies'
                 PROVE  x \in Answered /\ \E y \in wire \cup replies : x.id = y.id
      OBVIOUS
    <3>1. CASE x \in replies
      BY <1>t, <3>1
    <3>2. CASE x = Reply(m, None)
      BY <2>3, <3>2
    <3>3. ASSUME NEW y \in hit, x = Reply(y, "cancelled")
          PROVE  x \in Answered /\ \E z \in wire \cup replies : x.id = z.id
      <4>1. "cancelled" \in Errors /\ y \in wire
        BY <2>2 DEF Errors
      <4> QED
        BY <2>3, <3>3, <4>1
    <3> QED
      BY <2>1, <3>1, <3>2, <3>3
  <2> QED
    BY <1>t, <2>1, <2>4, <2>5 DEF ServerMoves
<1>3. CASE Stops \/ Crash
  <2>1. Background
    BY <1>3 DEF Stops, Crash, Down, Background, calls, plugin
  <2>2. /\ pipes' = [p \in Pipes |-> IF pipes[p] = "open" THEN "dead" ELSE pipes[p]]
        /\ wire' = {}
    BY <1>3 DEF Stops, Crash, Down
  <2>3. pipes' \in [Pipes -> PipeStates]
    BY <1>t, <2>2 DEF PipeStates
  <2>4. replies' \subseteq replies
    BY <1>3 DEF Stops, Crash
  <2> QED
    BY <1>t, <2>1, <2>2, <2>3, <2>4 DEF ServerMoves
<1>4. CASE Reaped \/ Starts
  <2>1. Background /\ pipes' = pipes /\ wire' = wire /\ replies' = replies
    BY <1>4 DEF Reaped, Starts, Background, lines, calls, plugin, history
  <2> QED
    BY <1>t, <2>1 DEF ServerMoves
<1> QED
  BY <1>1, <1>2, <1>3, <1>4 DEF Server

LEMMA HalfIs == TypeInv /\ (\E r \in replies : ReadHalf(r)) => ServerMoves
<1> SUFFICES ASSUME TypeInv, NEW r \in replies, ReadHalf(r)
             PROVE  ServerMoves
  OBVIOUS
<1>1. r \in Answered
  BY DEF TypeInv
<1>2. [r EXCEPT !.half = TRUE] \in Answered /\ [r EXCEPT !.half = TRUE].id = r.id
  BY <1>1 DEF Answered
<1>3. Background /\ pipes' = pipes /\ wire' = wire
  BY DEF ReadHalf, Background, calls, plugin
<1>4. replies' = (replies \ {r}) \cup {[r EXCEPT !.half = TRUE]}
  BY DEF ReadHalf
<1> QED
  BY <1>2, <1>3, <1>4 DEF ServerMoves, TypeInv

LEMMA ServerMovesNobody ==
  ASSUME TypeInv, LinkInv, PlaceInv, ServerMoves
  PROVE  TypeInv' /\ LinkInv' /\ PlaceInv'
<1>1. TypeInv'
  BY DEF TypeInv, ServerMoves, Background
<1>2. LinkInv'
  BY DEF LinkInv, ServerMoves, Background
<1>3. \A r : Ens(r)' = Ens(r) /\ Pend(r)' = Pend(r) /\ Turn(r)' = Turn(r) /\ Conn(r)' = Conn(r)
  BY DEF ServerMoves, Background, Ens, Pend, Turn, Conn
<1>4. PlaceInv'
  BY <1>3 DEF PlaceInv, OnePlace, Nowhere, AtMost, ServerMoves, Background
<1> QED
  BY <1>1, <1>2, <1>4

-----------------------------------------------------------------------------
(* Each step of the client moves the callback of at most one run, from one  *)
(* place to another.                                                        *)

(* A run of whom nothing moved.                                             *)
LEMMA Unmoved ==
  ASSUME NEW r \in Runs, OnePlace(r) /\ (runs[r] = "waits" \/ Nowhere(r)),
         Ens(r)' = Ens(r), Pend(r)' = Pend(r), Turn(r)' = Turn(r), Conn(r)' = Conn(r),
         runs'[r] = runs[r] \/ runs'[r] = "waits" \/ runs[r] = "new"
  PROVE  OnePlace(r)' /\ (runs'[r] = "waits" \/ Nowhere(r)')
BY DEF OnePlace, Nowhere, AtMost

LEMMA RunKeeps ==
  ASSUME TypeInv, LinkInv, PlaceInv, NEW r \in Runs, Run(r)
  PROVE  TypeInv' /\ LinkInv' /\ PlaceInv'
<1> DEFINE w == Waiter(r, FALSE, FALSE)
<1>1. /\ pipe' = pipe /\ pipes' = pipes /\ scheduled' = scheduled /\ replies' = replies
      /\ runs[r] = "new" /\ Nowhere(r) /\ runs \in [Runs -> RunStates]
  BY DEF Run, lines, PlaceInv, TypeInv
<1>2. \A q \in Runs : Turn(q)' = Turn(q)
  BY <1>1 DEF Turn
<1>3. w \in Waiters /\ w.run = r
  BY DEF Waiter, Waiters
<1> HIDE DEF w
<1>4. CASE running # None
  <2>1. /\ runs' = [runs EXCEPT ![r] = "refused"] /\ CallsNothing
        /\ UNCHANGED <<connecting, running, overlapped>>
    BY <1>4 DEF Run
  <2>2. /\ nextId' = nextId /\ pending' = pending /\ ensuring' = ensuring /\ wire' = wire
    BY <2>1 DEF CallsNothing, calls
  <2>3. TypeInv' /\ LinkInv'
    BY <1>1, <2>1, <2>2 DEF TypeInv, LinkInv, RunStates
  <2>4. \A q \in Runs : Ens(q)' = Ens(q) /\ Pend(q)' = Pend(q) /\ Conn(q)' = Conn(q)
    BY <2>1, <2>2 DEF Ens, Pend, Conn
  <2>5. \A q \in Runs : runs'[q] = runs[q] \/ runs[q] = "new"
    BY <1>1, <2>1
  <2> QED
    BY <1>2, <2>3, <2>4, <2>5, Unmoved DEF PlaceInv
<1>5. CASE running = None /\ connected
  <2>1. /\ runs' = [runs EXCEPT ![r] = "waits"] /\ Proceed(<<w>>) /\ connecting' = connecting
    BY <1>5 DEF Run, EnsureConnected, w
  <2>2. Calls(Executes(<<w>>)) /\ running' \in {None, r}
    BY <1>3, <1>5, <2>1 DEF Proceed, Executes
  <2>3. <<w>> \in Seq(Waiters) /\ Len(<<w>>) = 1 /\ <<w>>[1] = w
    BY <1>3
  <2>4. /\ Executes(<<w>>) \in Seq(Conts)
        /\ \A q \in Runs : Asked(Executes(<<w>>), q) = {i \in 1..1 : <<w>>[i].run = q}
    BY <2>3, ExecutesAre
  <2>5. /\ AtMost(Asked(Executes(<<w>>), r))
        /\ \A q \in Runs \ {r} : Asked(Executes(<<w>>), q) = {}
    BY <1>3, <2>3, <2>4 DEF AtMost
  <2>6. TypeInv' /\ LinkInv'
    <3>1. /\ nextId' \in Nat /\ pending' \in [Ids -> Conts \cup {None}]
          /\ \A e \in ensuring' : e.cont \in Conts
          /\ wire' \subseteq Messages /\ LinkInv'
      BY <1>1, <2>2, <2>4, CallsLeave
    <3> QED
      BY <1>1, <2>1, <2>2, <3>1 DEF TypeInv, RunStates
  <2>7. \A q \in Runs : Conn(q)' = Conn(q)
    BY <2>1 DEF Conn
  <2>8. \A q \in Runs \ {r} : Ens(q)' = Ens(q) /\ Pend(q)' = Pend(q)
    BY <2>2, <2>4, <2>5, CallsOfARun
  <2>9. \A q \in Runs \ {r} : OnePlace(q)' /\ (runs'[q] = "waits" \/ Nowhere(q)')
    <3>1. \A q \in Runs \ {r} : runs'[q] = runs[q]
      BY <1>1, <2>1
    <3> QED
      BY <1>2, <2>7, <2>8, <3>1, Unmoved DEF PlaceInv
  <2>10. OnePlace(r)' /\ runs'[r] = "waits"
    <3>1. AtMost(Ens(r)') /\ AtMost(Pend(r)') /\ (Ens(r)' = {} \/ Pend(r)' = {})
      BY <1>1, <2>2, <2>4, <2>5, CallsOfARun DEF Nowhere
    <3>2. Turn(r)' = {} /\ Conn(r)' = {} /\ AtMost({})
      BY <1>1, <1>2, <2>7 DEF Nowhere, AtMost
    <3> QED
      BY <1>1, <2>1, <3>1, <3>2 DEF OnePlace
  <2> QED
    BY <2>6, <2>9, <2>10 DEF PlaceInv
<1>6. CASE running = None /\ ~connected
  <2>1. /\ runs' = [runs EXCEPT ![r] = "waits"] /\ ConnectAgain(w) /\ running' = running
    BY <1>6 DEF Run, EnsureConnected, w
  <2>2. /\ connecting' \in Seq(Waiters)
        /\ nextId' \in Nat /\ pending' \in [Ids -> Conts \cup {None}]
        /\ \A e \in ensuring' : e.cont \in Conts
        /\ wire' \subseteq Messages /\ LinkInv'
        /\ \A q \in Runs : Ens(q)' = Ens(q) /\ Pend(q)' = Pend(q) /\ Wire(q)' = Wire(q)
        /\ \A q \in Runs \ {w.run} : Conn(q)' = Conn(q)
        /\ Conn(w.run) = {} => AtMost(Conn(w.run)')
    BY <1>1, <1>3, <2>1, ConnectAgainLeaves
  <2>3. TypeInv'
    BY <1>1, <2>1, <2>2 DEF TypeInv, RunStates
  <2>4. \A q \in Runs \ {r} : OnePlace(q)' /\ (runs'[q] = "waits" \/ Nowhere(q)')
    <3>1. \A q \in Runs \ {r} : runs'[q] = runs[q]
      BY <1>1, <2>1
    <3> QED
      BY <1>2, <1>3, <2>2, <3>1, Unmoved DEF PlaceInv
  <2>5. OnePlace(r)' /\ runs'[r] = "waits"
    <3>1. Ens(r)' = {} /\ Pend(r)' = {} /\ Turn(r)' = {} /\ AtMost({}) /\ AtMost(Conn(r)')
      BY <1>1, <1>2, <1>3, <2>2 DEF Nowhere, AtMost
    <3> QED
      BY <1>1, <2>1, <3>1 DEF OnePlace
  <2> QED
    BY <2>2, <2>3, <2>4, <2>5 DEF PlaceInv
<1> QED
  BY <1>4, <1>5, <1>6

(* A cancel, a restart and a poll are calls of no run, if they call.         *)
LEMMA AsksAre ==
  ASSUME TypeInv, CancelRun \/ Restart \/ Poll
  PROVE  \/ \E c \in Conts : (\A q \in Runs : ~IsCall(c, q)) /\ Calls(<<c>>)
         \/ CallsNothing
<1>1. CASE CancelRun
  <2>1. Cont(running, "cancel", FALSE, FALSE) \in Conts
    BY <1>1 DEF CancelRun, TypeInv, Cont, Conts
  <2>2. \A q \in Runs : ~IsCall(Cont(running, "cancel", FALSE, FALSE), q)
    BY DEF Cont, IsCall
  <2> QED
    BY <1>1, <2>1, <2>2 DEF CancelRun
<1>2. ASSUME NEW c \in {Shutdown, Status}, pipe # None, Sends(pipe, <<c>>), ensuring' = ensuring
      PROVE  c \in Conts /\ (\A q \in Runs : ~IsCall(c, q)) /\ Calls(<<c>>)
  <2>1. c \in Conts /\ \A q \in Runs : ~IsCall(c, q)
    <3>1. CASE c = Shutdown
      BY <3>1 DEF Shutdown, Cont, Conts, IsCall
    <3>2. CASE c = Status
      BY <3>2 DEF Status, Cont, Conts, IsCall
    <3> QED
      BY <1>2, <3>1, <3>2
  <2> QED
    BY <1>2, <2>1 DEF Calls
<1>3. CASE Restart
  BY <1>2, <1>3 DEF Restart
<1>4. CASE Poll /\ pipe # None
  <2>1. pipe # None /\ Sends(pipe, <<Status>>) /\ ensuring' = ensuring
    BY <1>4 DEF Poll
  <2> QED
    BY <1>2, <2>1
<1>5. CASE Poll /\ pipe = None
  BY <1>5 DEF Poll, CallsNothing, calls
<1> QED
  BY <1>1, <1>3, <1>4, <1>5

LEMMA AsksKeep ==
  ASSUME TypeInv, LinkInv, PlaceInv, CancelRun \/ Restart \/ Poll
  PROVE  TypeInv' /\ LinkInv' /\ PlaceInv'
<1>1. /\ pipe' = pipe /\ pipes' = pipes /\ scheduled' = scheduled /\ replies' = replies
      /\ connecting' = connecting /\ running' = running /\ runs' = runs
  BY DEF CancelRun, Restart, Poll, lines, plugin
<1>2. \A q \in Runs : Turn(q)' = Turn(q) /\ Conn(q)' = Conn(q)
  BY <1>1 DEF Turn, Conn
<1>3. /\ nextId' \in Nat /\ pending' \in [Ids -> Conts \cup {None}]
      /\ \A e \in ensuring' : e.cont \in Conts
      /\ wire' \subseteq Messages /\ LinkInv'
      /\ \A q \in Runs : Ens(q)' = Ens(q) /\ Pend(q)' = Pend(q) /\ Wire(q)' = Wire(q)
  <2>1. ASSUME NEW c \in Conts, \A q \in Runs : ~IsCall(c, q), Calls(<<c>>)
        PROVE  /\ nextId' \in Nat /\ pending' \in [Ids -> Conts \cup {None}]
               /\ \A e \in ensuring' : e.cont \in Conts
               /\ wire' \subseteq Messages /\ LinkInv'
               /\ \A q \in Runs : Ens(q)' = Ens(q) /\ Pend(q)' = Pend(q) /\ Wire(q)' = Wire(q)
    <3>1. <<c>> \in Seq(Conts) /\ \A q \in Runs : Asked(<<c>>, q) = {}
      BY <2>1, OneCall
    <3>2. \A q \in Runs : Ens(q)' = Ens(q) /\ Pend(q)' = Pend(q) /\ Wire(q)' = Wire(q)
      BY <2>1, <3>1, CallsOfARun
    <3> QED
      BY <1>1, <2>1, <3>1, <3>2, CallsLeave
  <2> QED
    BY <1>1, <2>1, AsksAre, CallsNothingLeaves
<1>4. TypeInv'
  BY <1>1, <1>3 DEF TypeInv
<1>5. PlaceInv'
  BY <1>1, <1>2, <1>3, Unmoved DEF PlaceInv
<1> QED
  BY <1>3, <1>4, <1>5

(* An answer read puts the callback it is for in the queue.                 *)
LEMMA DeliversMoves ==
  ASSUME TypeInv, NEW x \in replies, Delivers(x), pending[x.id] # None
  PROVE  /\ x.id \in Ids /\ pending[x.id] \in Conts
         /\ scheduled' \in Seq(Turns)
         /\ Len(scheduled') = Len(scheduled) + 1 /\ Len(scheduled) \in Nat
         /\ \A i \in 1..Len(scheduled) : scheduled'[i] = scheduled[i]
         /\ scheduled'[Len(scheduled) + 1] = [cont |-> pending[x.id], err |-> x.err]
         /\ pending' = [pending EXCEPT ![x.id] = None]
         /\ pending' \in [Ids -> Conts \cup {None}]
<1>1. x \in Answered /\ x.id \in Ids /\ x.err \in Errors \cup {None}
  BY DEF TypeInv, Answered
<1>2. pending[x.id] \in Conts
  BY <1>1 DEF TypeInv
<1>3. [cont |-> pending[x.id], err |-> x.err] \in Turns
  BY <1>1, <1>2 DEF Turns
<1>4. scheduled \in Seq(Turns) /\ scheduled' = Append(scheduled, [cont |-> pending[x.id], err |-> x.err])
  BY DEF TypeInv, Delivers
<1>5. pending' = [pending EXCEPT ![x.id] = None] /\ pending' \in [Ids -> Conts \cup {None}]
  BY DEF Delivers, TypeInv
<1> QED
  BY <1>1, <1>2, <1>3, <1>4, <1>5, AppendProperties, LenProperties

LEMMA DeliversOfARun ==
  ASSUME TypeInv, NEW x \in replies, Delivers(x), pending[x.id] # None,
         NEW r \in Runs, OnePlace(r)
  PROVE  /\ IsCall(pending[x.id], r) =>
                /\ Pend(r) # {} /\ Pend(r)' = {}
                /\ Turn(r) = {} /\ Turn(r)' = {Len(scheduled) + 1}
                /\ x.id \in Pend(r)
         /\ ~IsCall(pending[x.id], r) => Pend(r)' = Pend(r) /\ Turn(r)' = Turn(r)
<1>1. /\ x.id \in Ids
      /\ Len(scheduled') = Len(scheduled) + 1 /\ Len(scheduled) \in Nat
      /\ \A i \in 1..Len(scheduled) : scheduled'[i] = scheduled[i]
      /\ scheduled'[Len(scheduled) + 1] = [cont |-> pending[x.id], err |-> x.err]
      /\ pending' = [pending EXCEPT ![x.id] = None]
  BY DeliversMoves
<1>2. /\ \A i \in 1..Len(scheduled') : i \in 1..Len(scheduled) \/ i = Len(scheduled) + 1
      /\ \A i \in 1..Len(scheduled) : i \in 1..Len(scheduled') /\ i # Len(scheduled) + 1
      /\ Len(scheduled) + 1 \in 1..Len(scheduled')
  BY <1>1
<1>3. \A i \in Ids : pending'[i] = IF i = x.id THEN None ELSE pending[i]
  BY <1>1 DEF TypeInv
<1>4. scheduled'[Len(scheduled) + 1].cont = pending[x.id]
  BY <1>1
<1>5. CASE IsCall(pending[x.id], r)
  <2>1. x.id \in Pend(r) /\ Turn(r) = {} /\ AtMost(Pend(r))
    BY <1>1, <1>5 DEF Pend, OnePlace
  <2>2. Pend(r)' = {}
    BY <1>3, <2>1 DEF Pend, AtMost
  <2>3. Turn(r)' = {Len(scheduled) + 1}
    BY <1>1, <1>2, <1>4, <1>5, <2>1 DEF Turn
  <2> QED
    BY <1>5, <2>1, <2>2, <2>3
<1>6. CASE ~IsCall(pending[x.id], r)
  <2>1. Pend(r)' = Pend(r)
    BY <1>1, <1>3, <1>6 DEF Pend
  <2>2. Turn(r)' = Turn(r)
    BY <1>1, <1>2, <1>4, <1>6 DEF Turn
  <2> QED
    BY <1>6, <2>1, <2>2
<1> QED
  BY <1>5, <1>6

LEMMA ReadKeeps ==
  ASSUME TypeInv, LinkInv, PlaceInv, NEW x \in replies, Read(x)
  PROVE  TypeInv' /\ LinkInv' /\ PlaceInv'
<1>1. /\ pipe' = pipe /\ pipes' = pipes /\ nextId' = nextId /\ ensuring' = ensuring
      /\ connecting' = connecting /\ running' = running /\ runs' = runs
      /\ wire' = wire /\ replies' = replies \ {x}
  BY DEF Read, plugin
<1>2. \A q \in Runs : Ens(q)' = Ens(q) /\ Conn(q)' = Conn(q)
  BY <1>1 DEF Ens, Conn
<1>3. CASE Delivers(x) /\ pending[x.id] # None
  <2>1. /\ x.id \in Ids /\ scheduled' \in Seq(Turns)
        /\ pending' = [pending EXCEPT ![x.id] = None]
        /\ pending' \in [Ids -> Conts \cup {None}]
    BY <1>3, DeliversMoves
  <2>2. TypeInv'
    BY <1>1, <2>1 DEF TypeInv
  <2>3. \A i \in Ids : pending'[i] = pending[i] \/ pending'[i] = None
    BY <2>1 DEF TypeInv
  <2>4. LinkInv'
    BY <1>1, <2>3 DEF LinkInv, TypeInv, Messages
  <2>5. ASSUME NEW r \in Runs
        PROVE  OnePlace(r)' /\ (runs'[r] = "waits" \/ Nowhere(r)')
    <3>1. OnePlace(r) /\ (runs[r] = "waits" \/ Nowhere(r))
      BY DEF PlaceInv
    <3>2. CASE IsCall(pending[x.id], r)
      <4>1. Pend(r) # {} /\ Pend(r)' = {} /\ Turn(r) = {} /\ Turn(r)' = {Len(scheduled) + 1}
        BY <1>3, <3>1, <3>2, DeliversOfARun
      <4>2. AtMost({Len(scheduled) + 1}) /\ AtMost({}) /\ runs[r] = "waits"
        BY <3>1, <4>1 DEF AtMost, Nowhere
      <4> QED
        BY <1>1, <1>2, <3>1, <4>1, <4>2 DEF OnePlace
    <3>3. CASE ~IsCall(pending[x.id], r)
      BY <1>1, <1>2, <1>3, <3>1, <3>3, DeliversOfARun, Unmoved
    <3> QED
      BY <3>2, <3>3
  <2> QED
    BY <2>2, <2>4, <2>5 DEF PlaceInv
<1>4. CASE Garbles \/ (Delivers(x) /\ pending[x.id] = None)
  <2>1. x.id \in Ids
    BY DEF TypeInv, Answered
  <2>2. scheduled' = scheduled /\ pending' = pending
    BY <1>4, <2>1 DEF Garbles, Delivers, TypeInv
  <2>3. TypeInv' /\ LinkInv'
    BY <1>1, <2>2 DEF TypeInv, LinkInv
  <2>4. \A q \in Runs : Turn(q)' = Turn(q) /\ Pend(q)' = Pend(q)
    BY <2>2 DEF Turn, Pend
  <2> QED
    BY <1>1, <1>2, <2>3, <2>4, Unmoved DEF PlaceInv
<1> QED
  BY <1>3, <1>4 DEF Read

(* The end of a pipe fails what was waiting: all of it takes its turn.      *)
FailedTurns(order) == [i \in DOMAIN order |-> [cont |-> pending[order[i]], err |-> "closed"]]

LEMMA EofFails ==
  ASSUME TypeInv, NEW p \in Pipes, Eof(p)
  PROVE  /\ pipe' = None /\ nextId' = nextId /\ ensuring' = ensuring
         /\ connected' = connected /\ connecting' = connecting
         /\ running' = running /\ runs' = runs
         /\ pending' = [i \in Ids |-> None]
         /\ pipes' \in [Pipes -> PipeStates]
         /\ wire' \subseteq wire /\ replies' \subseteq replies
         /\ scheduled' \in Seq(Turns)
         /\ \E n \in Nat : \E order \in [1..n -> Waiting] :
               /\ \A i, j \in 1..n : i # j => order[i] # order[j]
               /\ \A i \in Waiting : \E j \in 1..n : order[j] = i
               /\ Len(scheduled) \in Nat /\ Len(scheduled') = Len(scheduled) + n
               /\ \A i \in 1..Len(scheduled) : scheduled'[i] = scheduled[i]
               /\ \A i \in 1..n : /\ scheduled'[Len(scheduled) + i].cont = pending[order[i]]
                                  /\ scheduled'[Len(scheduled) + i].err = "closed"
<1>1. /\ pipe' = None /\ nextId' = nextId /\ ensuring' = ensuring
      /\ connected' = connected /\ connecting' = connecting
      /\ running' = running /\ runs' = runs
      /\ pending' = [i \in Ids |-> None]
      /\ wire' \subseteq wire /\ replies' \subseteq replies
  BY DEF Eof, Closes, plugin
<1>2. pipes' \in [Pipes -> PipeStates]
  BY DEF Eof, Closes, TypeInv, PipeStates
<1>3. PICK order \in SetToSeqs(Waiting) : scheduled' = scheduled \o FailedTurns(order)
  BY DEF Eof, FailedTurns
<1> DEFINE size == Cardinality(Waiting)
<1>4. IsFiniteSet(Waiting) /\ size \in Nat
  <2>1. IsFiniteSet(Ids)
    BY FS_Interval, PluginClientAssumption DEF Ids
  <2>2. Waiting \in SUBSET Ids
    BY DEF Waiting
  <2>3. IsFiniteSet(Waiting)
    BY <2>1, <2>2, FS_Subset
  <2> QED
    BY <2>3, FS_CardinalityType
<1>5. order \in [1..size -> Waiting] /\ \A i, j \in 1..size : i # j => order[i] # order[j]
  BY <1>3 DEF SetToSeqs
<1> HIDE DEF size
<1>6. \A i \in Waiting : \E j \in 1..size : order[j] = i
  <2>1. order \in Injection(1..size, Waiting)
    BY <1>5 DEF Injection, IsInjective
  <2>2. IsFiniteSet(1..size) /\ Cardinality(1..size) = size
    <3>1. 1 \in Int /\ size \in Int
      BY <1>4
    <3>2. IsFiniteSet(1..size) /\ Cardinality(1..size) = IF 1 > size THEN 0 ELSE size - 1 + 1
      BY <3>1, FS_Interval
    <3> QED
      BY <1>4, <3>2
  <2>3. order \in Surjection(1..size, Waiting)
    BY <1>4, <2>1, <2>2, FS_Injection DEF size
  <2> QED
    BY <2>3 DEF Surjection
<1>7. /\ FailedTurns(order) \in [1..size -> Turns]
      /\ \A i \in 1..size : /\ FailedTurns(order)[i].cont = pending[order[i]]
                        /\ FailedTurns(order)[i].err = "closed"
  <2>1. DOMAIN order = 1..size
    BY <1>5
  <2>2. \A i \in 1..size : pending[order[i]] \in Conts
    BY <1>5 DEF Waiting, TypeInv
  <2>3. \A i \in 1..size : [cont |-> pending[order[i]], err |-> "closed"] \in Turns
    BY <2>2 DEF Turns, Errors
  <2> QED
    BY <2>1, <2>3 DEF FailedTurns
<1>8. FailedTurns(order) \in Seq(Turns) /\ Len(FailedTurns(order)) = size
  <2>1. FailedTurns(order) \in Seq(Turns)
    BY <1>4, <1>7
  <2>2. DOMAIN FailedTurns(order) = 1..size /\ DOMAIN FailedTurns(order) = 1..Len(FailedTurns(order))
        /\ Len(FailedTurns(order)) \in Nat
    BY <1>7, <2>1, LenProperties
  <2> QED
    BY <1>4, <2>1, <2>2
<1>9. /\ scheduled' \in Seq(Turns) /\ Len(scheduled) \in Nat
      /\ Len(scheduled') = Len(scheduled) + size
      /\ \A i \in 1..Len(scheduled) + size : scheduled'[i] =
              IF i <= Len(scheduled) THEN scheduled[i] ELSE FailedTurns(order)[i - Len(scheduled)]
  <2>1. scheduled \in Seq(Turns)
    BY DEF TypeInv
  <2> QED
    BY <1>3, <1>8, <2>1, ConcatProperties, LenProperties
<1>10. \A i \in 1..Len(scheduled) : scheduled'[i] = scheduled[i]
  <2>1. \A i \in 1..Len(scheduled) : i \in 1..Len(scheduled) + size /\ i <= Len(scheduled)
    BY <1>4, <1>9
  <2> QED
    BY <1>9, <2>1
<1>11. \A i \in 1..size : scheduled'[Len(scheduled) + i] = FailedTurns(order)[i]
  <2> TAKE i \in 1..size
  <2>1. /\ Len(scheduled) + i \in 1..Len(scheduled) + size /\ ~(Len(scheduled) + i <= Len(scheduled))
        /\ (Len(scheduled) + i) - Len(scheduled) = i
    BY <1>4, <1>9
  <2> QED
    BY <1>9, <2>1
<1>12. \A i \in 1..size : /\ scheduled'[Len(scheduled) + i].cont = pending[order[i]]
                         /\ scheduled'[Len(scheduled) + i].err = "closed"
  BY <1>7, <1>11
<1>13. \E o \in [1..size -> Waiting] :
          /\ \A i, j \in 1..size : i # j => o[i] # o[j]
          /\ \A i \in Waiting : \E j \in 1..size : o[j] = i
          /\ Len(scheduled) \in Nat /\ Len(scheduled') = Len(scheduled) + size
          /\ \A i \in 1..Len(scheduled) : scheduled'[i] = scheduled[i]
          /\ \A i \in 1..size : /\ scheduled'[Len(scheduled) + i].cont = pending[o[i]]
                             /\ scheduled'[Len(scheduled) + i].err = "closed"
  <2>1. order \in [1..size -> Waiting]
    BY <1>5
  <2> QED
    BY <2>1, <1>5, <1>6, <1>9, <1>10, <1>12
<1> QED
  BY <1>1, <1>2, <1>4, <1>9, <1>13

LEMMA EofKeeps ==
  ASSUME TypeInv, LinkInv, PlaceInv, NEW p \in Pipes, Eof(p)
  PROVE  TypeInv' /\ LinkInv' /\ PlaceInv'
<1>1. /\ pipe' = None /\ nextId' = nextId /\ ensuring' = ensuring
      /\ connecting' = connecting /\ running' = running /\ runs' = runs
      /\ pending' = [i \in Ids |-> None]
      /\ pipes' \in [Pipes -> PipeStates]
      /\ wire' \subseteq wire /\ replies' \subseteq replies
      /\ scheduled' \in Seq(Turns)
  BY EofFails
<1>e. PICK n \in Nat : \E order \in [1..n -> Waiting] :
               /\ \A i, j \in 1..n : i # j => order[i] # order[j]
               /\ \A i \in Waiting : \E j \in 1..n : order[j] = i
               /\ Len(scheduled) \in Nat /\ Len(scheduled') = Len(scheduled) + n
               /\ \A i \in 1..Len(scheduled) : scheduled'[i] = scheduled[i]
               /\ \A i \in 1..n : /\ scheduled'[Len(scheduled) + i].cont = pending[order[i]]
                                  /\ scheduled'[Len(scheduled) + i].err = "closed"
  BY EofFails
<1>2. PICK order \in [1..n -> Waiting] :
               /\ \A i, j \in 1..n : i # j => order[i] # order[j]
               /\ Len(scheduled) \in Nat /\ Len(scheduled') = Len(scheduled) + n
               /\ \A i \in 1..Len(scheduled) : scheduled'[i] = scheduled[i]
               /\ \A i \in 1..n : scheduled'[Len(scheduled) + i].cont = pending[order[i]]
  BY <1>e
<1>3. pending' \in [Ids -> Conts \cup {None}] /\ \A i \in Ids : pending'[i] = None
  BY <1>1
<1>4. TypeInv'
  BY <1>1, <1>3 DEF TypeInv
<1>5. LinkInv'
  BY <1>1, <1>3 DEF LinkInv, TypeInv, Messages
<1>6. \A q \in Runs : Ens(q)' = Ens(q) /\ Conn(q)' = Conn(q) /\ Pend(q)' = {}
  BY <1>1, <1>3 DEF Ens, Conn, Pend
<1>7. ASSUME NEW r \in Runs
      PROVE  OnePlace(r)' /\ (runs'[r] = "waits" \/ Nowhere(r)')
  <2>1. OnePlace(r) /\ (runs[r] = "waits" \/ Nowhere(r))
    BY DEF PlaceInv
  <2>2. \A i \in 1..Len(scheduled') : i \in 1..Len(scheduled)
                                       \/ \E j \in 1..n : i = Len(scheduled) + j
    <3> SUFFICES ASSUME NEW i \in 1..Len(scheduled'), i \notin 1..Len(scheduled)
                 PROVE  \E j \in 1..n : i = Len(scheduled) + j
      OBVIOUS
    <3>1. i - Len(scheduled) \in 1..n /\ i = Len(scheduled) + (i - Len(scheduled))
      BY <1>2
    <3> QED
      BY <3>1
  <2>3. \A i \in 1..Len(scheduled) : i \in 1..Len(scheduled')
    BY <1>2
  <2>4. \A i \in Turn(r)' : i \in Turn(r) \/ \E j \in 1..n : i = Len(scheduled) + j /\ order[j] \in Pend(r)
    <3> SUFFICES ASSUME NEW i \in 1..Len(scheduled'), IsCall(scheduled'[i].cont, r), i \notin Turn(r)
                 PROVE  \E j \in 1..n : i = Len(scheduled) + j /\ order[j] \in Pend(r)
      BY DEF Turn
    <3>1. i \notin 1..Len(scheduled)
      BY <1>2 DEF Turn
    <3>2. PICK j \in 1..n : i = Len(scheduled) + j
      BY <2>2, <3>1
    <3>3. IsCall(pending[order[j]], r) /\ order[j] \in Waiting
      BY <1>2, <3>2
    <3> QED
      BY <3>2, <3>3 DEF Pend, Waiting
  <2>5. Turn(r) \subseteq Turn(r)'
    BY <1>2, <2>3 DEF Turn
  <2>6. CASE Pend(r) = {}
    <3>1. Turn(r)' = Turn(r)
      BY <2>4, <2>5, <2>6
    <3> QED
      BY <1>1, <1>6, <2>1, <2>6, <3>1, Unmoved
  <2>7. CASE Pend(r) # {}
    <3>1. Turn(r) = {} /\ Ens(r) = {} /\ Conn(r) = {} /\ AtMost(Pend(r)) /\ runs[r] = "waits"
      BY <2>1, <2>7 DEF OnePlace, Nowhere
    <3>2. AtMost(Turn(r)')
      <4> SUFFICES ASSUME NEW i \in Turn(r)', NEW k \in Turn(r)'
                   PROVE  i = k
        BY DEF AtMost
      <4>1. PICK j \in 1..n : i = Len(scheduled) + j /\ order[j] \in Pend(r)
        BY <2>4, <3>1
      <4>2. PICK l \in 1..n : k = Len(scheduled) + l /\ order[l] \in Pend(r)
        BY <2>4, <3>1
      <4>3. order[j] = order[l]
        BY <3>1, <4>1, <4>2 DEF AtMost
      <4>4. j = l
        BY <1>2, <4>3
      <4> QED
        BY <4>1, <4>2, <4>4
    <3>3. AtMost({})
      BY DEF AtMost
    <3> QED
      BY <1>1, <1>6, <3>1, <3>2, <3>3 DEF OnePlace
  <2> QED
    BY <2>6, <2>7
<1> QED
  BY <1>4, <1>5, <1>7 DEF PlaceInv

(* A run of whom nothing moved but that a turn before its own was taken.    *)
LEMMA Unturned ==
  ASSUME NEW r \in Runs, OnePlace(r) /\ (runs[r] = "waits" \/ Nowhere(r)),
         Ens(r)' = Ens(r), Pend(r)' = Pend(r), Conn(r)' = Conn(r),
         AtMost(Turn(r)) => AtMost(Turn(r)'), Turn(r) = {} => Turn(r)' = {},
         runs'[r] = runs[r]
  PROVE  OnePlace(r)' /\ (runs'[r] = "waits" \/ Nowhere(r)')
<1>1. /\ AtMost(Ens(r)') /\ AtMost(Pend(r)') /\ AtMost(Conn(r)') /\ AtMost(Turn(r)')
  BY DEF OnePlace, AtMost
<1> QED
  BY <1>1 DEF OnePlace, Nowhere

(* When the connect fails, all that waited for it end.                      *)
LEMMA WaitersFailLeave ==
  ASSUME TypeInv, WaitersFail
  PROVE  /\ connecting' = None
         /\ runs' \in [Runs -> RunStates] /\ running' \in Runs \cup {None}
         /\ \A r \in Runs : /\ Conn(r)' = {}
                            /\ Conn(r) = {} => runs'[r] = runs[r]
                            /\ Conn(r) # {} => runs'[r] = "failed"
         /\ running' = running \/ running' = None
<1>1. connecting' = None /\ \A r : Conn(r)' = {}
  BY DEF WaitersFail, Conn
<1>2. CASE connecting = None
  <2>1. runs' = runs /\ running' = running
    BY <1>2 DEF WaitersFail
  <2>2. \A r : Conn(r) = {}
    BY <1>2 DEF Conn
  <2> QED
    BY <1>1, <2>1, <2>2 DEF TypeInv
<1>3. CASE connecting # None
  <2>1. /\ runs' = [r \in Runs |-> IF \E w \in ToSet(connecting) : w.run = r THEN "failed"
                                   ELSE runs[r]]
        /\ running' = IF \E w \in ToSet(connecting) : w.retried THEN None ELSE running
    BY <1>3 DEF WaitersFail
  <2>2. \A r : (\E w \in ToSet(connecting) : w.run = r) <=> Conn(r) # {}
    BY <1>3 DEF Conn, ToSet
  <2>3. runs' \in [Runs -> RunStates]
    BY <2>1 DEF TypeInv, RunStates
  <2>4. running' \in {None, running}
    BY <2>1
  <2> QED
    BY <1>1, <2>1, <2>2, <2>3, <2>4 DEF TypeInv
<1> QED
  BY <1>2, <1>3

(* Behind the connect, all that waited for it are sent out.                 *)
LEMMA WaitersProceed ==
  ASSUME TypeInv, LinkInv, connecting # None, Proceed(connecting), connecting' = None,
         replies' = replies
  PROVE  /\ nextId' \in Nat /\ pending' \in [Ids -> Conts \cup {None}]
         /\ \A e \in ensuring' : e.cont \in Conts
         /\ wire' \subseteq Messages /\ LinkInv'
         /\ running' \in Runs \cup {None}
         /\ \A r \in Runs : Conn(r)' = {}
         /\ \A r \in Runs : Conn(r) = {} =>
                Ens(r)' = Ens(r) /\ Pend(r)' = Pend(r) /\ Wire(r)' = Wire(r)
         /\ \A r \in Runs : AtMost(Conn(r)) /\ Ens(r) = {} /\ Pend(r) = {} =>
                AtMost(Ens(r)') /\ AtMost(Pend(r)') /\ (Ens(r)' = {} \/ Pend(r)' = {})
         /\ \A r \in Runs : AtMost(Conn(r)) /\ Wire(r) = {} => AtMost(Wire(r)')
         /\ \A r \in Runs : Ens(r)' = Ens(r) \/ (Pend(r)' = Pend(r) /\ Wire(r)' = Wire(r))
<1>1. connecting \in Seq(Waiters)
  BY DEF TypeInv
<1>2. /\ Executes(connecting) \in Seq(Conts)
      /\ \A r \in Runs : Asked(Executes(connecting), r) = {i \in 1..Len(connecting) : connecting[i].run = r}
  BY <1>1, ExecutesAre
<1>3. DOMAIN connecting = 1..Len(connecting)
  BY <1>1, LenProperties
<1>4. \A r \in Runs : Asked(Executes(connecting), r) = Conn(r)
  BY <1>2, <1>3 DEF Conn
<1>5. Calls(Executes(connecting))
  BY DEF Proceed, Executes
<1>6. /\ nextId' \in Nat /\ pending' \in [Ids -> Conts \cup {None}]
      /\ \A e \in ensuring' : e.cont \in Conts
      /\ wire' \subseteq Messages /\ LinkInv'
  BY <1>2, <1>5, CallsLeave
<1>7. running' \in Runs \cup {None}
  <2>1. CASE \A i \in DOMAIN connecting : connecting[i].retried
    BY <2>1 DEF Proceed, TypeInv
  <2>2. ASSUME NEW i \in DOMAIN connecting, running' = connecting[i].run
        PROVE  running' \in Runs
    <3>1. connecting[i] \in Waiters
      BY <1>1, <1>3, ElementOfSeq
    <3> QED
      BY <2>2, <3>1 DEF Waiters
  <2> QED
    BY <2>1, <2>2 DEF Proceed
<1>8. \A r \in Runs : Conn(r)' = {}
  BY DEF Conn
<1> QED
  BY <1>2, <1>4, <1>5, <1>6, <1>7, <1>8, CallsOfARun

LEMMA CallbackKeeps ==
  ASSUME TypeInv, LinkInv, PlaceInv, Callback
  PROVE  TypeInv' /\ LinkInv' /\ PlaceInv'
<1>0. PICK c, err : c = Head(scheduled).cont /\ err = Head(scheduled).err
  OBVIOUS
<1>1. /\ scheduled # <<>> /\ scheduled' = Tail(scheduled)
      /\ pipe' = pipe /\ pipes' = pipes /\ replies' = replies
  BY DEF Callback, lines
<1>2. \A r : /\ scheduled' \in Seq(Turns) /\ Head(scheduled) \in Turns
             /\ AtMost(Turn(r)) => AtMost(Turn(r)')
             /\ Turn(r) = {} => Turn(r)' = {} /\ ~IsCall(c, r)
             /\ AtMost(Turn(r)) /\ IsCall(c, r) => Turn(r)' = {}
  BY <1>0, <1>1, Popped
<1>3. c \in Conts
  BY <1>0, <1>2 DEF Turns
<1>p. \A r \in Runs : OnePlace(r) /\ (runs[r] = "waits" \/ Nowhere(r))
  BY DEF PlaceInv
<1>c. ASSUME c.method = "execute"
      PROVE  /\ c.run \in Runs /\ runs[c.run] = "waits"
             /\ Ens(c.run) = {} /\ Pend(c.run) = {} /\ Conn(c.run) = {} /\ Turn(c.run)' = {}
  <2>1. c.run \in Runs /\ IsCall(c, c.run)
    BY <1>3, <1>c DEF Conts, IsCall
  <2>2. Turn(c.run) # {} /\ OnePlace(c.run)
    BY <1>2, <1>p, <2>1
  <2> QED
    BY <1>2, <1>p, <2>1, <2>2 DEF OnePlace, Nowhere
<1>q. \A r \in Runs : ~IsCall(c, r) \/ (c.method = "execute" /\ r = c.run)
  BY DEF IsCall
<1>4. CASE Ended(c)
  <2>1. /\ c.method = "execute" /\ running' = None /\ connecting' = connecting
        /\ CallsNothing
    BY <1>4 DEF Ended
  <2>2. PICK how \in {"done", "failed"} : runs' = [runs EXCEPT ![c.run] = how]
    BY <1>4 DEF Ended
  <2>3. /\ nextId' \in Nat /\ pending' \in [Ids -> Conts \cup {None}]
        /\ \A e \in ensuring' : e.cont \in Conts
        /\ wire' \subseteq Messages /\ LinkInv'
        /\ \A r \in Runs : Ens(r)' = Ens(r) /\ Pend(r)' = Pend(r) /\ Wire(r)' = Wire(r)
    BY <1>1, <2>1, CallsNothingLeaves
  <2>4. runs' \in [Runs -> RunStates] /\ \A r \in Runs \ {c.run} : runs'[r] = runs[r]
    BY <2>2 DEF TypeInv, RunStates
  <2>5. TypeInv'
    BY <1>1, <1>2, <2>1, <2>3, <2>4 DEF TypeInv
  <2>6. \A r \in Runs : Conn(r)' = Conn(r)
    BY <2>1 DEF Conn
  <2>7. OnePlace(c.run)' /\ Nowhere(c.run)'
    BY <1>c, <2>1, <2>3, <2>6 DEF OnePlace, Nowhere, AtMost
  <2>8. \A r \in Runs \ {c.run} : OnePlace(r)' /\ (runs'[r] = "waits" \/ Nowhere(r)')
    BY <1>2, <1>p, <2>3, <2>4, <2>6, Unturned
  <2> QED
    BY <2>3, <2>5, <2>7, <2>8 DEF PlaceInv
<1>5. ASSUME NEW w, Requeued(c, err, w)
      PROVE  TypeInv' /\ LinkInv' /\ PlaceInv'
  <2>1. /\ c.method = "execute" /\ w \in Waiters /\ w.run = c.run
        /\ ConnectAgain(w) /\ runs' = runs /\ running' \in {running, None}
    BY <1>5 DEF Requeued
  <2>2. /\ connecting' \in Seq(Waiters)
        /\ nextId' \in Nat /\ pending' \in [Ids -> Conts \cup {None}]
        /\ \A e \in ensuring' : e.cont \in Conts
        /\ wire' \subseteq Messages /\ LinkInv'
        /\ \A r \in Runs : Ens(r)' = Ens(r) /\ Pend(r)' = Pend(r) /\ Wire(r)' = Wire(r)
        /\ \A r \in Runs \ {c.run} : Conn(r)' = Conn(r)
        /\ Conn(c.run) = {} => AtMost(Conn(c.run)')
    BY <1>1, <2>1, ConnectAgainLeaves
  <2>3. TypeInv'
    BY <1>1, <1>2, <2>1, <2>2 DEF TypeInv
  <2>4. OnePlace(c.run)' /\ runs'[c.run] = "waits"
    BY <1>c, <2>1, <2>2 DEF OnePlace, AtMost
  <2>5. \A r \in Runs \ {c.run} : OnePlace(r)' /\ (runs'[r] = "waits" \/ Nowhere(r)')
    <3>1. \A r \in Runs \ {c.run} : runs'[r] = runs[r]
      BY <2>1
    <3> QED
      BY <1>2, <1>p, <2>2, <3>1, Unturned
  <2> QED
    BY <2>2, <2>3, <2>4, <2>5 DEF PlaceInv
<1>6. CASE c.method = "connect" /\ ConnectDone
  <2>1. connecting' = None /\ runs' = runs
    BY <1>6 DEF ConnectDone
  <2>2. CASE connecting = None
    <3>1. CallsNothing /\ running' = running
      BY <1>6, <2>2 DEF ConnectDone
    <3>2. /\ nextId' \in Nat /\ pending' \in [Ids -> Conts \cup {None}]
          /\ \A e \in ensuring' : e.cont \in Conts
          /\ wire' \subseteq Messages /\ LinkInv'
          /\ \A r \in Runs : Ens(r)' = Ens(r) /\ Pend(r)' = Pend(r) /\ Wire(r)' = Wire(r)
      BY <1>1, <3>1, CallsNothingLeaves
    <3>3. \A r \in Runs : Conn(r)' = Conn(r) /\ runs'[r] = runs[r]
      BY <2>1, <2>2 DEF Conn
    <3>4. TypeInv'
      BY <1>1, <1>2, <2>1, <3>1, <3>2 DEF TypeInv
    <3> QED
      BY <1>2, <1>p, <3>2, <3>3, <3>4, Unturned DEF PlaceInv
  <2>3. CASE connecting # None
    <3>1. Proceed(connecting)
      BY <1>6, <2>3 DEF ConnectDone
    <3>2. /\ nextId' \in Nat /\ pending' \in [Ids -> Conts \cup {None}]
          /\ \A e \in ensuring' : e.cont \in Conts
          /\ wire' \subseteq Messages /\ LinkInv'
          /\ running' \in Runs \cup {None}
          /\ \A r \in Runs : Conn(r)' = {}
          /\ \A r \in Runs : Conn(r) = {} =>
                 Ens(r)' = Ens(r) /\ Pend(r)' = Pend(r) /\ Wire(r)' = Wire(r)
          /\ \A r \in Runs : AtMost(Conn(r)) /\ Ens(r) = {} /\ Pend(r) = {} =>
                 AtMost(Ens(r)') /\ AtMost(Pend(r)') /\ (Ens(r)' = {} \/ Pend(r)' = {})
      BY <1>1, <2>1, <2>3, <3>1, WaitersProceed
    <3>3. TypeInv'
      BY <1>1, <1>2, <2>1, <3>2 DEF TypeInv
    <3>4. ASSUME NEW r \in Runs
          PROVE  OnePlace(r)' /\ (runs'[r] = "waits" \/ Nowhere(r)')
      <4>1. OnePlace(r) /\ (runs[r] = "waits" \/ Nowhere(r)) /\ runs'[r] = runs[r]
        BY <1>p, <2>1
      <4>2. CASE Conn(r) = {}
        BY <1>2, <3>2, <4>1, <4>2, Unturned
      <4>3. CASE Conn(r) # {}
        <5>1. /\ runs[r] = "waits" /\ AtMost(Conn(r))
              /\ Ens(r) = {} /\ Pend(r) = {} /\ Turn(r) = {}
          BY <4>1, <4>3 DEF OnePlace, Nowhere
        <5>2. AtMost(Ens(r)') /\ AtMost(Pend(r)') /\ (Ens(r)' = {} \/ Pend(r)' = {})
          BY <3>2, <5>1
        <5>3. Turn(r)' = {} /\ Conn(r)' = {} /\ AtMost({})
          BY <1>2, <3>2, <5>1 DEF AtMost
        <5> QED
          BY <4>1, <5>1, <5>2, <5>3 DEF OnePlace
      <4> QED
        BY <4>2, <4>3
    <3> QED
      BY <3>2, <3>3, <3>4 DEF PlaceInv
  <2> QED
    BY <2>2, <2>3
<1>7. CASE c.method = "connect" /\ ConnectFails
  <2>1. WaitersFail /\ CallsNothing
    BY <1>7 DEF ConnectFails
  <2>2. /\ nextId' \in Nat /\ pending' \in [Ids -> Conts \cup {None}]
        /\ \A e \in ensuring' : e.cont \in Conts
        /\ wire' \subseteq Messages /\ LinkInv'
        /\ \A r \in Runs : Ens(r)' = Ens(r) /\ Pend(r)' = Pend(r) /\ Wire(r)' = Wire(r)
    BY <1>1, <2>1, CallsNothingLeaves
  <2>3. /\ connecting' = None
        /\ runs' \in [Runs -> RunStates] /\ running' \in Runs \cup {None}
        /\ \A r \in Runs : /\ Conn(r)' = {}
                           /\ Conn(r) = {} => runs'[r] = runs[r]
    BY <2>1, WaitersFailLeave
  <2>4. TypeInv'
    BY <1>1, <1>2, <2>2, <2>3 DEF TypeInv
  <2>5. ASSUME NEW r \in Runs
        PROVE  OnePlace(r)' /\ (runs'[r] = "waits" \/ Nowhere(r)')
    <3>1. CASE Conn(r) = {}
      BY <1>2, <1>p, <2>2, <2>3, <3>1, Unturned
    <3>2. CASE Conn(r) # {}
      <4>1. Ens(r) = {} /\ Pend(r) = {} /\ Turn(r) = {}
        BY <1>p, <3>2 DEF OnePlace
      <4> QED
        BY <1>2, <2>2, <2>3, <4>1 DEF OnePlace, Nowhere, AtMost
    <3> QED
      BY <3>1, <3>2
  <2> QED
    BY <2>2, <2>4, <2>5 DEF PlaceInv
<1>8. CASE Ignored(c)
  <2>1. CallsNothing /\ connecting' = connecting /\ running' = running /\ runs' = runs
    BY <1>8 DEF Ignored
  <2>2. /\ nextId' \in Nat /\ pending' \in [Ids -> Conts \cup {None}]
        /\ \A e \in ensuring' : e.cont \in Conts
        /\ wire' \subseteq Messages /\ LinkInv'
        /\ \A r \in Runs : Ens(r)' = Ens(r) /\ Pend(r)' = Pend(r) /\ Wire(r)' = Wire(r)
    BY <1>1, <2>1, CallsNothingLeaves
  <2>3. TypeInv'
    BY <1>1, <1>2, <2>1, <2>2 DEF TypeInv
  <2>4. \A r \in Runs : Conn(r)' = Conn(r) /\ runs'[r] = runs[r]
    BY <2>1 DEF Conn
  <2> QED
    BY <1>2, <1>p, <2>2, <2>3, <2>4, Unturned DEF PlaceInv
<1> QED
  BY <1>4, <1>5, <1>6, <1>7, <1>8, CallbackIs, <1>0

LEMMA RestartDoneLeaves ==
  ASSUME TypeInv, RestartDone
  PROVE  /\ scheduled # <<>> /\ scheduled' = Tail(scheduled)
         /\ \A r : ~IsCall(Head(scheduled).cont, r)
         /\ pipe' = None /\ nextId' = nextId /\ ensuring' = ensuring /\ connecting' = None
         /\ connected' = FALSE
         /\ running' = running /\ runs' = runs /\ overlapped' = overlapped
         /\ pending' \in [Ids -> Conts \cup {None}] /\ \A i \in Ids : pending'[i] = None
         /\ pipes' \in [Pipes -> PipeStates]
         /\ wire' \subseteq wire /\ replies' \subseteq replies
<1>1. pending' = [i \in Ids |-> None] /\ pipe' = None
  BY DEF RestartDone, Closes
<1>2. pipes' \in [Pipes -> PipeStates]
  BY DEF RestartDone, Closes, TypeInv, PipeStates
<1> QED
  BY <1>1, <1>2 DEF RestartDone, Closes, IsCall

LEMMA RestartDoneKeeps ==
  ASSUME TypeInv, LinkInv, PlaceInv, RestartDone
  PROVE  TypeInv' /\ LinkInv' /\ PlaceInv'
<1>1. /\ scheduled # <<>> /\ scheduled' = Tail(scheduled)
      /\ pipe' = None /\ nextId' = nextId /\ ensuring' = ensuring /\ connecting' = None
      /\ running' = running /\ runs' = runs
      /\ pending' \in [Ids -> Conts \cup {None}] /\ \A i \in Ids : pending'[i] = None
      /\ pipes' \in [Pipes -> PipeStates]
      /\ wire' \subseteq wire /\ replies' \subseteq replies
  BY RestartDoneLeaves
<1>2. \A r : /\ scheduled' \in Seq(Turns)
             /\ AtMost(Turn(r)) => AtMost(Turn(r)')
             /\ Turn(r) = {} => Turn(r)' = {}
  BY <1>1, Popped
<1>3. TypeInv'
  BY <1>1, <1>2 DEF TypeInv
<1>4. LinkInv'
  BY <1>1 DEF LinkInv, TypeInv, Messages
<1>5. \A r : Ens(r)' = Ens(r) /\ Pend(r)' = {} /\ Conn(r)' = {}
  BY <1>1 DEF Ens, Pend, Conn
<1>6. ASSUME NEW r \in Runs
      PROVE  OnePlace(r)' /\ (runs'[r] = "waits" \/ Nowhere(r)')
  <2>1. OnePlace(r) /\ (runs[r] = "waits" \/ Nowhere(r)) /\ runs'[r] = runs[r]
    BY <1>1 DEF PlaceInv
  <2>2. AtMost(Ens(r)') /\ AtMost(Turn(r)') /\ AtMost({})
    BY <1>2, <1>5, <2>1 DEF OnePlace, AtMost
  <2> QED
    BY <1>2, <1>5, <2>1, <2>2 DEF OnePlace, Nowhere
<1> QED
  BY <1>3, <1>4, <1>6 DEF PlaceInv

(* A pipe for a callback: it goes out.                                      *)
LEMMA PipeConnectedKeeps ==
  ASSUME TypeInv, LinkInv, PlaceInv, NEW e \in ensuring, PipeConnected(e)
  PROVE  TypeInv' /\ LinkInv' /\ PlaceInv'
<1>1. /\ ensuring' = ensuring \ {e} /\ scheduled' = scheduled /\ replies' = replies
      /\ connecting' = connecting /\ running' = running /\ runs' = runs
  BY DEF PipeConnected, plugin
<1>2. PICK p \in Pipes : /\ pipes' = [pipes EXCEPT ![p] = "open"]
                         /\ pipe' = p /\ Sends(p, <<e.cont>>)
  BY DEF PipeConnected
<1>3. e.cont \in Conts
  BY DEF TypeInv
<1>4. /\ <<e.cont>> \in Seq(Conts)
      /\ \A r \in Runs : AtMost(Asked(<<e.cont>>, r))
      /\ \A r \in Runs : ~IsCall(e.cont, r) => Asked(<<e.cont>>, r) = {}
  BY <1>3, OneCall
<1>5. nextId' \in Nat /\ pending' \in [Ids -> Conts \cup {None}] /\ wire' \subseteq Messages
  BY <1>2, <1>4, SendsLeave
<1>6. LinkInv'
  BY <1>1, <1>2, <1>4, SendsKeepLinks
<1>7. pipes' \in [Pipes -> PipeStates]
  BY <1>2 DEF TypeInv, PipeStates
<1>8. TypeInv'
  BY <1>1, <1>2, <1>5, <1>7 DEF TypeInv
<1>9. \A r \in Runs : Turn(r)' = Turn(r) /\ Conn(r)' = Conn(r)
  BY <1>1 DEF Turn, Conn
<1>10. ASSUME NEW r \in Runs
       PROVE  OnePlace(r)' /\ (runs'[r] = "waits" \/ Nowhere(r)')
  <2>1. OnePlace(r) /\ (runs[r] = "waits" \/ Nowhere(r)) /\ runs'[r] = runs[r]
    BY <1>1 DEF PlaceInv
  <2>2. CASE IsCall(e.cont, r)
    <3>1. e \in Ens(r)
      BY <2>2 DEF Ens
    <3>2. /\ AtMost(Ens(r)) /\ Pend(r) = {} /\ Turn(r) = {} /\ Conn(r) = {} /\ runs[r] = "waits"
      BY <2>1, <3>1 DEF OnePlace, Nowhere
    <3>3. Ens(r)' = {}
      BY <1>1, <3>1, <3>2 DEF Ens, AtMost
    <3>4. AtMost(Pend(r)') /\ AtMost({})
      BY <1>2, <1>4, <3>2, SendsOfARun DEF AtMost
    <3> QED
      BY <1>9, <2>1, <3>2, <3>3, <3>4 DEF OnePlace
  <2>3. CASE ~IsCall(e.cont, r)
    <3>1. Ens(r)' = Ens(r)
      BY <1>1, <2>3 DEF Ens
    <3>2. Pend(r)' = Pend(r)
      BY <1>2, <1>4, <2>3, SendsOfARun
    <3> QED
      BY <1>9, <2>1, <3>1, <3>2, Unmoved
  <2> QED
    BY <2>2, <2>3
<1> QED
  BY <1>6, <1>8, <1>10 DEF PlaceInv

LEMMA RefusedKeeps ==
  ASSUME TypeInv, LinkInv, PlaceInv, NEW e \in ensuring, Refused(e)
  PROVE  TypeInv' /\ LinkInv' /\ PlaceInv'
<1> DEFINE f == Ensure(e.cont, e.tries + 1, e.n)
<1>1. /\ ensuring' = (ensuring \ {e}) \cup {f} /\ f.cont = e.cont
      /\ pipe' = pipe /\ pipes' = pipes /\ pending' = pending /\ nextId' = nextId
      /\ scheduled' = scheduled /\ wire' = wire /\ replies' = replies
      /\ connecting' = connecting /\ running' = running /\ runs' = runs
  BY DEF Refused, Ensure, lines, plugin
<1> HIDE DEF f
<1>2. TypeInv' /\ LinkInv'
  BY <1>1 DEF TypeInv, LinkInv
<1>3. \A r \in Runs : Pend(r)' = Pend(r) /\ Turn(r)' = Turn(r) /\ Conn(r)' = Conn(r)
  BY <1>1 DEF Pend, Turn, Conn
<1>4. ASSUME NEW r \in Runs
      PROVE  /\ AtMost(Ens(r)) => AtMost(Ens(r)')
             /\ Ens(r) = {} <=> Ens(r)' = {}
  <2>1. CASE IsCall(e.cont, r)
    <3>1. e \in Ens(r) /\ f \in Ens(r)'
      BY <1>1, <2>1 DEF Ens
    <3>2. Ens(r)' = (Ens(r) \ {e}) \cup {f}
      BY <1>1, <2>1 DEF Ens
    <3> QED
      BY <3>1, <3>2 DEF AtMost
  <2>2. CASE ~IsCall(e.cont, r)
    <3>1. Ens(r)' = Ens(r)
      BY <1>1, <2>2 DEF Ens
    <3> QED
      BY <3>1
  <2> QED
    BY <2>1, <2>2
<1>5. PlaceInv'
  BY <1>1, <1>3, <1>4 DEF PlaceInv, OnePlace, Nowhere, AtMost
<1> QED
  BY <1>2, <1>5

LEMMA UnreachableLeaves ==
  ASSUME TypeInv, NEW e \in ensuring, Unreachable(e)
  PROVE  /\ ensuring' = ensuring \ {e}
         /\ pipe' = pipe /\ pipes' = pipes /\ pending' = pending /\ nextId' = nextId
         /\ scheduled' = scheduled /\ wire' = wire /\ replies' = replies
         /\ connected' = connected /\ overlapped' = overlapped
         /\ \/ /\ e.cont.method = "execute" /\ connecting' = connecting
               /\ running' = None /\ runs' = [runs EXCEPT ![e.cont.run] = "failed"]
            \/ e.cont.method = "connect" /\ WaitersFail
            \/ /\ e.cont.method \notin {"execute", "connect"}
               /\ connecting' = connecting /\ running' = running /\ runs' = runs
<1>1. /\ ensuring' = ensuring \ {e}
      /\ pipe' = pipe /\ pipes' = pipes /\ pending' = pending /\ nextId' = nextId
      /\ scheduled' = scheduled /\ wire' = wire /\ replies' = replies
      /\ connected' = connected /\ overlapped' = overlapped
  BY DEF Unreachable, lines, history
<1>2. CASE e.cont.method = "execute"
  BY <1>1, <1>2 DEF Unreachable, Ends
<1>3. CASE e.cont.method = "connect"
  BY <1>1, <1>3 DEF Unreachable
<1>4. CASE e.cont.method \notin {"execute", "connect"}
  BY <1>1, <1>4 DEF Unreachable
<1> QED
  BY <1>2, <1>3, <1>4

LEMMA UnreachableKeeps ==
  ASSUME TypeInv, LinkInv, PlaceInv, NEW e \in ensuring, Unreachable(e)
  PROVE  TypeInv' /\ LinkInv' /\ PlaceInv'
<1>1. /\ ensuring' = ensuring \ {e}
      /\ pipe' = pipe /\ pipes' = pipes /\ pending' = pending /\ nextId' = nextId
      /\ scheduled' = scheduled /\ wire' = wire /\ replies' = replies
  BY UnreachableLeaves
<1>2. LinkInv'
  BY <1>1 DEF LinkInv
<1>3. \A r \in Runs : Pend(r)' = Pend(r) /\ Turn(r)' = Turn(r) /\ Ens(r)' \subseteq Ens(r)
  BY <1>1 DEF Pend, Turn, Ens
<1>p. \A r \in Runs : OnePlace(r) /\ (runs[r] = "waits" \/ Nowhere(r))
  BY DEF PlaceInv
<1>4. ASSUME NEW r \in Runs, Conn(r)' = Conn(r) \/ Conn(r)' = {}, runs'[r] = runs[r]
      PROVE  OnePlace(r)' /\ (runs'[r] = "waits" \/ Nowhere(r)')
  <2>1. AtMost(Ens(r)') /\ AtMost({}) /\ (Ens(r) = {} => Ens(r)' = {})
    BY <1>3, <1>p DEF OnePlace, AtMost
  <2> QED
    BY <1>3, <1>4, <1>p, <2>1 DEF OnePlace, Nowhere
<1>5. CASE /\ e.cont.method = "execute" /\ connecting' = connecting
           /\ running' = None /\ runs' = [runs EXCEPT ![e.cont.run] = "failed"]
  <2>1. PICK d \in Runs : d = e.cont.run
    BY <1>5 DEF TypeInv, Conts
  <2>2. runs' \in [Runs -> RunStates] /\ \A r \in Runs \ {d} : runs'[r] = runs[r]
    BY <1>5, <2>1 DEF TypeInv, RunStates
  <2>3. TypeInv'
    BY <1>1, <1>5, <2>2 DEF TypeInv
  <2>4. \A r \in Runs : Conn(r)' = Conn(r)
    BY <1>5 DEF Conn
  <2>5. e \in Ens(d)
    BY <1>5, <2>1 DEF Ens, IsCall
  <2>6. /\ Pend(d) = {} /\ Turn(d) = {} /\ Conn(d) = {} /\ AtMost(Ens(d))
    BY <1>p, <2>5 DEF OnePlace
  <2>7. Ens(d)' = {}
    BY <1>1, <2>5, <2>6 DEF Ens, AtMost
  <2>8. OnePlace(d)' /\ Nowhere(d)'
    BY <1>3, <2>4, <2>6, <2>7 DEF OnePlace, Nowhere, AtMost
  <2> QED
    BY <1>2, <1>4, <2>2, <2>3, <2>4, <2>8 DEF PlaceInv
<1>6. CASE e.cont.method = "connect" /\ WaitersFail
  <2>1. /\ connecting' = None
        /\ runs' \in [Runs -> RunStates] /\ running' \in Runs \cup {None}
        /\ \A r \in Runs : /\ Conn(r)' = {}
                           /\ Conn(r) = {} => runs'[r] = runs[r]
    BY <1>6, WaitersFailLeave
  <2>2. TypeInv'
    BY <1>1, <2>1 DEF TypeInv
  <2>3. ASSUME NEW r \in Runs, Conn(r) # {}
        PROVE  OnePlace(r)' /\ Nowhere(r)'
    <3>1. Ens(r)' = {} /\ Pend(r)' = {} /\ Turn(r)' = {}
      BY <1>3, <1>p, <2>3 DEF OnePlace
    <3> QED
      BY <2>1, <3>1 DEF OnePlace, Nowhere, AtMost
  <2> QED
    BY <1>2, <1>4, <2>1, <2>2, <2>3 DEF PlaceInv
<1>7. CASE /\ e.cont.method \notin {"execute", "connect"}
           /\ connecting' = connecting /\ running' = running /\ runs' = runs
  <2>1. TypeInv'
    BY <1>1, <1>7 DEF TypeInv
  <2>2. \A r \in Runs : Conn(r)' = Conn(r) /\ runs'[r] = runs[r]
    BY <1>7 DEF Conn
  <2> QED
    BY <1>2, <1>4, <2>1, <2>2 DEF PlaceInv
<1> QED
  BY <1>5, <1>6, <1>7, UnreachableLeaves

PlacesInv == TypeInv /\ LinkInv /\ PlaceInv

LEMMA StepPlaces == PlacesInv /\ [Next]_vars => PlacesInv'
<1> SUFFICES ASSUME TypeInv, LinkInv, PlaceInv, [Next]_vars
             PROVE  TypeInv' /\ LinkInv' /\ PlaceInv'
  BY DEF PlacesInv
<1>1. CASE \E r \in Runs : Run(r)
  BY <1>1, RunKeeps
<1>2. CASE CancelRun \/ Restart \/ Poll
  BY <1>2, AsksKeep
<1>3. CASE Server
  BY <1>3, ServerIs, ServerMovesNobody
<1>4. CASE Reads
  BY <1>4, ReadKeeps, HalfIs, ServerMovesNobody, EofKeeps DEF Reads
<1>5. CASE Callback
  BY <1>5, CallbackKeeps
<1>6. CASE RestartDone
  BY <1>6, RestartDoneKeeps
<1>7. CASE Connecting
  BY <1>7, PipeConnectedKeeps, RefusedKeeps, UnreachableKeeps DEF Connecting
<1>8. CASE UNCHANGED vars
  BY <1>8 DEF vars, lines, calls, plugin, history, events, TypeInv, LinkInv, PlaceInv, OnePlace,
          Nowhere, AtMost, Ens, Pend, Turn, Conn
<1> QED
  BY <1>1, <1>2, <1>3, <1>4, <1>5, <1>6, <1>7, <1>8 DEF Next

-----------------------------------------------------------------------------
(* What may still go out, or go out again, is not on the wire, and what is  *)
(* on the wire is there once.  Neither was executed, unless its error was   *)
(* misread.                                                                 *)
Denied(r) == {x \in replies : x.err = "unconnected" /\ x.id \in Pend(r)}
Turned(r) == {i \in Turn(r) : scheduled[i].err = "unconnected"}

Fresh(r) == \/ runs[r] = "new" \/ Ens(r) # {} \/ Conn(r) # {}
            \/ Denied(r) # {} \/ Turned(r) # {}

Spent(r) ==
    /\ Fresh(r) => Wire(r) = {}
    /\ AtMost(Wire(r))
    /\ r \in misread \/ executed[r] = 0 \/ (executed[r] = 1 /\ ~Fresh(r) /\ Wire(r) = {})

SpentInv == executed \in [Runs -> Nat] /\ \A r \in Runs : Spent(r)

LEMMA SpentStays ==
  ASSUME NEW r \in Runs, Spent(r), executed'[r] = executed[r], misread \subseteq misread',
         Fresh(r)' => Fresh(r), Wire(r)' \subseteq Wire(r)
  PROVE  Spent(r)'
<1>1. AtMost(Wire(r)') /\ (Wire(r) = {} => Wire(r)' = {})
  BY DEF Spent, AtMost
<1> QED
  BY <1>1 DEF Spent, AtMost

LEMMA SpentGoesOut ==
  ASSUME NEW r \in Runs, Spent(r), executed'[r] = executed[r], misread \subseteq misread',
         Fresh(r), AtMost(Wire(r)'), Wire(r)' = {} \/ ~Fresh(r)'
  PROVE  Spent(r)'
BY DEF Spent, AtMost

(* Nobody was told anything yet of a number to come.                        *)
LEMMA SendsDeny ==
  ASSUME TypeInv, LinkInv, NEW p \in Pipes, NEW conts \in Seq(Conts), Sends(p, conts),
         replies' = replies
  PROVE  \A r \in Runs : Denied(r)' = Denied(r)
<1>1. \A i \in Ids : i <= nextId => pending'[i] = pending[i]
  BY SendsLeave
<1>2. \A x \in replies : x.id \in Ids /\ x.id <= nextId
  BY DEF TypeInv, LinkInv, Answered
<1>3. \A x \in replies, r \in Runs : x.id \in Pend(r)' <=> x.id \in Pend(r)
  BY <1>1, <1>2 DEF Pend
<1> QED
  BY <1>3 DEF Denied

LEMMA CallsDeny ==
  ASSUME TypeInv, LinkInv, NEW conts \in Seq(Conts), Calls(conts), replies' = replies
  PROVE  \A r \in Runs : Denied(r)' = Denied(r)
<1>1. CASE pipe # None /\ Sends(pipe, conts) /\ ensuring' = ensuring
  BY <1>1, SendsDeny DEF TypeInv
<1>2. CASE /\ nextId' = nextId /\ pending' = pending /\ wire' = wire
           /\ \E n : ensuring' = ensuring \cup {Ensure(conts[i], 0, n + i) : i \in 1..Len(conts)}
  BY <1>2 DEF Denied, Pend
<1> QED
  BY <1>1, <1>2, CallsAre

LEMMA CallsNothingDenies ==
  ASSUME CallsNothing, replies' = replies
  PROVE  \A r \in Runs : Denied(r)' = Denied(r)
BY DEF CallsNothing, calls, Denied, Pend

LEMMA ConnectAgainDenies ==
  ASSUME TypeInv, LinkInv, NEW w \in Waiters, ConnectAgain(w), replies' = replies
  PROVE  \A r \in Runs : Denied(r)' = Denied(r)
<1>1. CASE connecting # None
  BY <1>1, CallsNothingDenies DEF ConnectAgain
<1>2. CASE connecting = None
  <2>1. Connects \in Conts
    BY DEF Connects, Cont, Conts, Methods
  <2>2. <<Connects>> \in Seq(Conts)
    BY <2>1
  <2> QED
    BY <1>2, <2>2, CallsDeny DEF ConnectAgain
<1> QED
  BY <1>1, <1>2

LEMMA PoppedTurns ==
  ASSUME TypeInv, scheduled # <<>>, scheduled' = Tail(scheduled), NEW r \in Runs
  PROVE  /\ Turned(r)' # {} => Turned(r) # {}
         /\ IsCall(Head(scheduled).cont, r) /\ Head(scheduled).err = "unconnected" =>
                Turned(r) # {}
BY Popped DEF Turned

(* Keys and timers: a new run goes out.                                     *)
LEMMA RunSpends ==
  ASSUME PlacesInv, SpentInv, NEW r \in Runs, Run(r)
  PROVE  SpentInv'
<1> USE DEF PlacesInv
<1> DEFINE w == Waiter(r, FALSE, FALSE)
<1>1. /\ scheduled' = scheduled /\ replies' = replies /\ served' = served
      /\ runs[r] = "new" /\ Nowhere(r)
  BY DEF Run, lines, events, PlaceInv
<1>2. \A q \in Runs : /\ Turned(q)' = Turned(q)
                      /\ Turn(q)' = Turn(q)
                      /\ Spent(q)
  BY <1>1 DEF Turned, Turn, SpentInv
<1>3. w \in Waiters /\ w.run = r
  BY DEF Waiter, Waiters
<1>4. Fresh(r) /\ Wire(r) = {} /\ Turned(r) = {}
  BY <1>1, <1>2 DEF Fresh, Spent, Nowhere, Turned
<1>5. /\ runs' \in [Runs -> RunStates] /\ runs'[r] # "new"
      /\ \A q \in Runs \ {r} : runs'[q] = runs[q]
  BY DEF Run, TypeInv, RunStates
<1> HIDE DEF w
<1>6. CASE running # None
  <2>1. CallsNothing /\ connecting' = connecting
    BY <1>6 DEF Run
  <2>2. \A q \in Runs : /\ Ens(q)' = Ens(q) /\ Wire(q)' = Wire(q)
                        /\ Denied(q)' = Denied(q) /\ Conn(q)' = Conn(q)
    BY <1>1, <2>1, CallsNothingLeaves, CallsNothingDenies DEF Conn
  <2>3. \A q \in Runs : Fresh(q)' => Fresh(q)
    BY <1>2, <1>5, <2>2 DEF Fresh
  <2> QED
    BY <1>1, <1>2, <2>2, <2>3, SpentStays DEF SpentInv
<1>7. CASE running = None /\ connected
  <2>1. Calls(Executes(<<w>>)) /\ connecting' = connecting
    BY <1>7 DEF Run, EnsureConnected, Proceed, Executes, w
  <2>2. <<w>> \in Seq(Waiters) /\ Len(<<w>>) = 1 /\ <<w>>[1] = w
    BY <1>3
  <2>3. /\ Executes(<<w>>) \in Seq(Conts)
        /\ \A q \in Runs : Asked(Executes(<<w>>), q) = {i \in 1..1 : <<w>>[i].run = q}
    BY <2>2, ExecutesAre
  <2>4. /\ AtMost(Asked(Executes(<<w>>), r))
        /\ \A q \in Runs \ {r} : Asked(Executes(<<w>>), q) = {}
    BY <1>3, <2>2, <2>3 DEF AtMost
  <2>5. \A q \in Runs : Conn(q)' = Conn(q) /\ Denied(q)' = Denied(q)
    BY <1>1, <2>1, <2>3, CallsDeny DEF Conn
  <2>6. \A q \in Runs \ {r} : Ens(q)' = Ens(q) /\ Wire(q)' = Wire(q)
    BY <2>1, <2>3, <2>4, CallsOfARun
  <2>7. \A q \in Runs \ {r} : Fresh(q)' => Fresh(q)
    BY <1>2, <1>5, <2>5, <2>6 DEF Fresh
  <2>8. AtMost(Wire(r)') /\ (Wire(r)' = {} \/ ~Fresh(r)')
    <3>1. AtMost(Wire(r)') /\ (Ens(r)' = Ens(r) \/ Wire(r)' = Wire(r))
      BY <1>4, <2>1, <2>3, <2>4, CallsOfARun
    <3>2. Conn(r)' = {} /\ Denied(r)' = {} /\ Turned(r)' = {}
      BY <1>1, <1>2, <1>4, <2>5 DEF Nowhere, Denied
    <3> QED
      BY <1>1, <1>4, <1>5, <3>1, <3>2 DEF Fresh, Nowhere
  <2>9. Spent(r)'
    BY <1>1, <1>2, <1>4, <2>8, SpentGoesOut
  <2> QED
    BY <1>1, <1>2, <2>6, <2>7, <2>9, SpentStays DEF SpentInv
<1>8. CASE running = None /\ ~connected
  <2>1. ConnectAgain(w)
    BY <1>8 DEF Run, EnsureConnected, w
  <2>2. /\ \A q \in Runs : Ens(q)' = Ens(q) /\ Wire(q)' = Wire(q) /\ Denied(q)' = Denied(q)
        /\ \A q \in Runs \ {w.run} : Conn(q)' = Conn(q)
    BY <1>1, <1>3, <2>1, ConnectAgainLeaves, ConnectAgainDenies
  <2>3. \A q \in Runs \ {r} : Fresh(q)' => Fresh(q)
    BY <1>2, <1>3, <1>5, <2>2 DEF Fresh
  <2>4. Spent(r)'
    BY <1>1, <1>2, <1>4, <2>2, SpentGoesOut DEF Spent
  <2> QED
    BY <1>1, <1>2, <2>2, <2>3, <2>4, SpentStays DEF SpentInv
<1> QED
  BY <1>6, <1>7, <1>8

LEMMA AsksSpend ==
  ASSUME PlacesInv, SpentInv, CancelRun \/ Restart \/ Poll
  PROVE  SpentInv'
<1> USE DEF PlacesInv
<1>1. /\ scheduled' = scheduled /\ replies' = replies /\ served' = served
      /\ connecting' = connecting /\ runs' = runs
  BY DEF CancelRun, Restart, Poll, plugin
<1>2. \A q \in Runs : Turned(q)' = Turned(q) /\ Conn(q)' = Conn(q)
  BY <1>1 DEF Turned, Turn, Conn
<1>3. \A q \in Runs : Ens(q)' = Ens(q) /\ Wire(q)' = Wire(q) /\ Denied(q)' = Denied(q)
  <2>1. ASSUME NEW c \in Conts, \A q \in Runs : ~IsCall(c, q), Calls(<<c>>)
        PROVE  \A q \in Runs : Ens(q)' = Ens(q) /\ Wire(q)' = Wire(q) /\ Denied(q)' = Denied(q)
    <3>1. <<c>> \in Seq(Conts) /\ \A q \in Runs : Asked(<<c>>, q) = {}
      BY <2>1, OneCall
    <3> QED
      BY <1>1, <2>1, <3>1, CallsOfARun, CallsDeny
  <2> QED
    BY <1>1, <2>1, AsksAre, CallsNothingLeaves, CallsNothingDenies
<1>4. \A q \in Runs : Fresh(q)' => Fresh(q)
  BY <1>1, <1>2, <1>3 DEF Fresh
<1> QED
  BY <1>1, <1>3, <1>4, SpentStays DEF SpentInv

(* Nothing the client does not do itself makes a run fresh, but an answer   *)
(* that it was turned down.                                                 *)
LEMMA ServerFreshens ==
  ASSUME Background, NEW r \in Runs, Fresh(r)'
  PROVE  Fresh(r) \/ \E x \in replies' \ replies : x.err = "unconnected" /\ x.id \in Pend(r)
<1>1. /\ Ens(r)' = Ens(r) /\ Conn(r)' = Conn(r) /\ Turned(r)' = Turned(r)
      /\ Pend(r)' = Pend(r) /\ runs' = runs
  BY DEF Background, Ens, Conn, Turned, Turn, Pend
<1>2. Denied(r)' = {} \/ Denied(r) # {} \/
        \E x \in replies' \ replies : x.err = "unconnected" /\ x.id \in Pend(r)
  BY <1>1 DEF Denied
<1> QED
  BY <1>1, <1>2 DEF Fresh

LEMMA ExecuteSpends ==
  ASSUME PlacesInv, SpentInv, NEW m \in wire, ServeExecute(m)
  PROVE  SpentInv'
<1> USE DEF PlacesInv
<1>1. m.method = "execute" /\ m \in Messages
  BY DEF ServeExecute, TypeInv
<1>r. \A r \in Runs : Spent(r)
  BY DEF SpentInv
<1>2. CASE server.knows
  <2>1. PICK err \in {None, "failed", "unconnected"} :
          /\ Answers(m, err)
          /\ executed' = [executed EXCEPT ![m.run] = @ + 1]
          /\ misread' = IF err = "unconnected" THEN misread \cup {m.run} ELSE misread
    BY <1>2 DEF ServeExecute
  <2>2. /\ Background /\ wire' = wire \ {m} /\ replies' = replies \cup {Reply(m, err)}
        /\ Reply(m, err).id = m.id /\ Reply(m, err).err = err
    BY <2>1, AnswersLeave DEF Errors
  <2>3. misread \subseteq misread' /\ (err = "unconnected" => m.run \in misread')
    BY <2>1
  <2>4. \A r \in Runs : Fresh(r)' => Fresh(r) \/ (err = "unconnected" /\ m.id \in Pend(r))
    BY <2>2, ServerFreshens
  <2>6. ASSUME NEW r \in Runs
        PROVE  Spent(r)' /\ executed'[r] \in Nat
    <3>1. CASE m.run = r
      <4>1. /\ m \in Wire(r) /\ AtMost(Wire(r)) /\ ~Fresh(r) /\ executed[r] \in Nat
            /\ r \in misread \/ executed[r] = 0
        BY <1>1, <1>r, <3>1 DEF Wire, Spent, SpentInv
      <4>2. Wire(r)' = {}
        BY <2>2, <4>1 DEF Wire, AtMost
      <4>3. executed'[r] = executed[r] + 1
        BY <2>1, <3>1, <4>1 DEF SpentInv
      <4>4. r \in misread' \/ (executed'[r] = 1 /\ ~Fresh(r)')
        BY <2>3, <2>4, <3>1, <4>1, <4>3
      <4> QED
        BY <4>1, <4>2, <4>3, <4>4 DEF Spent, AtMost
    <3>2. CASE m.run # r
      <4>1. executed'[r] = executed[r] /\ Wire(r)' \subseteq Wire(r)
        BY <2>1, <2>2, <3>2 DEF SpentInv, Wire
      <4>2. m.id \notin Pend(r)
        BY <3>2 DEF Pend, LinkInv, IsCall
      <4> QED
        BY <1>r, <2>3, <2>4, <4>1, <4>2, SpentStays DEF SpentInv
    <3> QED
      BY <3>1, <3>2
  <2>7. executed' \in [Runs -> Nat]
    BY <2>1, <2>6 DEF SpentInv
  <2> QED
    BY <2>6, <2>7 DEF SpentInv
<1>3. CASE ~server.knows
  <2>1. Answers(m, "unconnected") /\ served' = served
    BY <1>3 DEF ServeExecute
  <2>2. /\ Background /\ wire' = wire \ {m}
        /\ replies' = replies \cup {Reply(m, "unconnected")}
        /\ Reply(m, "unconnected").id = m.id
    BY <2>1, AnswersLeave DEF Errors
  <2>3. ASSUME NEW r \in Runs
        PROVE  Spent(r)'
    <3>1. CASE m.run = r
      <4>1. m \in Wire(r) /\ AtMost(Wire(r)) /\ (r \in misread \/ executed[r] = 0)
        BY <1>1, <1>r, <3>1 DEF Wire, Spent
      <4>2. Wire(r)' = {}
        BY <2>2, <4>1 DEF Wire, AtMost
      <4> QED
        BY <2>1, <4>1, <4>2 DEF Spent, AtMost
    <3>2. CASE m.run # r
      <4>1. m.id \notin Pend(r)
        BY <3>2 DEF Pend, LinkInv, IsCall
      <4>2. Fresh(r)' => Fresh(r)
        BY <2>2, <4>1, ServerFreshens
      <4>3. Wire(r)' \subseteq Wire(r)
        BY <2>2 DEF Wire
      <4> QED
        BY <1>r, <2>1, <4>2, <4>3, SpentStays
    <3> QED
      BY <3>1, <3>2
  <2> QED
    BY <2>1, <2>3 DEF SpentInv
<1> QED
  BY <1>2, <1>3

LEMMA ServerSpends == PlacesInv /\ SpentInv /\ Server => SpentInv'
<1> SUFFICES ASSUME PlacesInv, SpentInv, Server
             PROVE  SpentInv'
  OBVIOUS
<1> USE DEF PlacesInv
<1>s. ASSUME Background, served' = served, wire' \subseteq wire,
             \A r \in Runs : \A x \in replies' \ replies :
                 x.err # "unconnected" \/ x.id \notin Pend(r)
      PROVE  SpentInv'
  <2>1. \A r \in Runs : (Fresh(r)' => Fresh(r)) /\ Wire(r)' \subseteq Wire(r)
    BY <1>s, ServerFreshens DEF Wire
  <2> QED
    BY <1>s, <2>1, SpentStays DEF SpentInv
<1>a. ASSUME NEW m, NEW err \in Errors \cup {None}, Answers(m, err), served' = served,
             err # "unconnected" \/ m.method # "execute"
      PROVE  SpentInv'
  <2>1. /\ Background /\ m \in wire /\ wire' = wire \ {m}
        /\ replies' = replies \cup {Reply(m, err)}
        /\ Reply(m, err).id = m.id /\ Reply(m, err).err = err
    BY <1>a, AnswersLeave
  <2>2. \A r \in Runs : m.method # "execute" => m.id \notin Pend(r)
    BY <2>1 DEF Pend, LinkInv, IsCall
  <2> QED
    BY <1>a, <1>s, <2>1, <2>2
<1>n. None # "unconnected"
  BY PluginClientAssumption DEF Errors
<1>1. ASSUME NEW m \in wire, ServeConnect(m) \/ ServeStatus(m) \/ ServeShutdown(m)
      PROVE  SpentInv'
  <2>1. \/ m.method = "connect" /\ \E err \in {None, "failed"} : Answers(m, err)
        \/ m.method \in {"status", "shutdown"} /\ \E err \in {None, "unconnected"} : Answers(m, err)
    BY <1>1 DEF ServeConnect, ServeStatus, ServeShutdown
  <2>2. served' = served
    BY <1>1 DEF ServeConnect, ServeStatus, ServeShutdown
  <2>3. {None, "failed", "unconnected"} \subseteq Errors \cup {None}
    BY DEF Errors
  <2> QED
    BY <1>a, <1>n, <2>1, <2>2, <2>3
<1>2. ASSUME NEW m \in wire, ServeCancel(m)
      PROVE  SpentInv'
  <2>1. PICK hit \in {{}, {x \in wire : x.method = "execute" /\ x.run = m.run}} :
          /\ wire' = wire \ (hit \cup {m})
          /\ replies' = replies \cup {Reply(m, None)} \cup {Reply(x, "cancelled") : x \in hit}
    BY <1>2 DEF ServeCancel
  <2>2. Background /\ served' = served
    BY <1>2 DEF ServeCancel, Background, calls, lines, plugin, history, events
  <2>3. \A x \in replies' \ replies : x.err # "unconnected"
    BY <1>n, <2>1 DEF Reply
  <2> QED
    BY <1>s, <2>1, <2>2, <2>3
<1>3. CASE Stops \/ Crash \/ Reaped \/ Starts
  <2>1. Background /\ served' = served /\ wire' \subseteq wire /\ replies' \subseteq replies
    BY <1>3 DEF Stops, Crash, Reaped, Starts, Down, Background, calls, lines, plugin, history,
            events
  <2> QED
    BY <1>s, <2>1
<1> QED
  BY <1>1, <1>2, <1>3, ExecuteSpends DEF Server

LEMMA HalfSpends ==
  ASSUME PlacesInv, SpentInv, NEW x \in replies, ReadHalf(x)
  PROVE  SpentInv'
<1> USE DEF PlacesInv
<1>1. Background /\ served' = served /\ wire' = wire
  BY DEF ReadHalf, Background, calls, plugin
<1>2. /\ replies' = (replies \ {x}) \cup {[x EXCEPT !.half = TRUE]}
      /\ [x EXCEPT !.half = TRUE].id = x.id /\ [x EXCEPT !.half = TRUE].err = x.err
  BY DEF ReadHalf, TypeInv, Answered
<1>3. ASSUME NEW r \in Runs
      PROVE  Fresh(r)' => Fresh(r)
  <2>1. (\E y \in replies' \ replies : y.err = "unconnected" /\ y.id \in Pend(r)) => x \in Denied(r)
    BY <1>2 DEF Denied
  <2> QED
    BY <1>1, <2>1, ServerFreshens DEF Fresh
<1>4. \A r \in Runs : Wire(r)' = Wire(r)
  BY <1>1 DEF Wire
<1> QED
  BY <1>1, <1>3, <1>4, SpentStays DEF SpentInv

LEMMA ReadSpends ==
  ASSUME PlacesInv, SpentInv, NEW x \in replies, Read(x)
  PROVE  SpentInv'
<1> USE DEF PlacesInv
<1>1. /\ ensuring' = ensuring /\ connecting' = connecting /\ runs' = runs
      /\ wire' = wire /\ replies' \subseteq replies /\ served' = served
  BY DEF Read, plugin, events
<1>2. \A q \in Runs : Ens(q)' = Ens(q) /\ Conn(q)' = Conn(q) /\ Wire(q)' = Wire(q)
  BY <1>1 DEF Ens, Conn, Wire
<1>3. CASE Delivers(x) /\ pending[x.id] # None
  <2>1. /\ Len(scheduled') = Len(scheduled) + 1 /\ Len(scheduled) \in Nat
        /\ \A i \in 1..Len(scheduled) : scheduled'[i] = scheduled[i]
        /\ scheduled'[Len(scheduled) + 1] = [cont |-> pending[x.id], err |-> x.err]
    BY <1>3, DeliversMoves
  <2>2. ASSUME NEW r \in Runs
        PROVE  Fresh(r)' => Fresh(r)
    <3>1. OnePlace(r)
      BY DEF PlaceInv
    <3>2. CASE IsCall(pending[x.id], r)
      <4>1. Pend(r)' = {} /\ Turn(r)' = {Len(scheduled) + 1} /\ x.id \in Pend(r)
        BY <1>3, <3>1, <3>2, DeliversOfARun
      <4>2. Denied(r)' = {}
        BY <4>1 DEF Denied
      <4>3. scheduled'[Len(scheduled) + 1].err = x.err
        BY <2>1
      <4>4. Turned(r)' # {} => x \in Denied(r)
        BY <4>1, <4>3 DEF Turned, Denied
      <4> QED
        BY <1>1, <1>2, <4>2, <4>4 DEF Fresh
    <3>3. CASE ~IsCall(pending[x.id], r)
      <4>1. Pend(r)' = Pend(r) /\ Turn(r)' = Turn(r)
        BY <1>3, <3>1, <3>3, DeliversOfARun
      <4>2. Denied(r)' \subseteq Denied(r)
        BY <1>1, <4>1 DEF Denied
      <4>3. Turned(r)' = Turned(r)
        BY <2>1, <4>1 DEF Turned, Turn
      <4> QED
        BY <1>1, <1>2, <4>2, <4>3 DEF Fresh
    <3> QED
      BY <3>2, <3>3
  <2> QED
    BY <1>1, <1>2, <2>2, SpentStays DEF SpentInv
<1>4. CASE Garbles \/ (Delivers(x) /\ pending[x.id] = None)
  <2>1. x.id \in Ids
    BY DEF TypeInv, Answered
  <2>2. scheduled' = scheduled /\ pending' = pending
    BY <1>4, <2>1 DEF Garbles, Delivers, TypeInv
  <2>3. \A q \in Runs : Turned(q)' = Turned(q) /\ Denied(q)' \subseteq Denied(q)
    BY <1>1, <2>2 DEF Turned, Turn, Denied, Pend
  <2>4. \A q \in Runs : Fresh(q)' => Fresh(q)
    BY <1>1, <1>2, <2>3 DEF Fresh
  <2> QED
    BY <1>1, <1>2, <2>4, SpentStays DEF SpentInv
<1> QED
  BY <1>3, <1>4 DEF Read

LEMMA EofSpends ==
  ASSUME PlacesInv, SpentInv, NEW p \in Pipes, Eof(p)
  PROVE  SpentInv'
<1> USE DEF PlacesInv
<1>1. /\ ensuring' = ensuring /\ connecting' = connecting /\ runs' = runs
      /\ pending' = [i \in Ids |-> None]
      /\ wire' \subseteq wire
  BY EofFails
<1>2. served' = served
  BY DEF Eof, history, events
<1>3. PICK n \in Nat : \E order \in [1..n -> Waiting] :
               /\ \A i, j \in 1..n : i # j => order[i] # order[j]
               /\ \A i \in Waiting : \E j \in 1..n : order[j] = i
               /\ Len(scheduled) \in Nat /\ Len(scheduled') = Len(scheduled) + n
               /\ \A i \in 1..Len(scheduled) : scheduled'[i] = scheduled[i]
               /\ \A i \in 1..n : /\ scheduled'[Len(scheduled) + i].cont = pending[order[i]]
                                  /\ scheduled'[Len(scheduled) + i].err = "closed"
  BY EofFails
<1>4. /\ Len(scheduled) \in Nat /\ Len(scheduled') = Len(scheduled) + n
      /\ \A i \in 1..Len(scheduled) : scheduled'[i] = scheduled[i]
      /\ \A i \in 1..n : scheduled'[Len(scheduled) + i].err = "closed"
  BY <1>3
<1>5. \A i \in 1..Len(scheduled') : i \in 1..Len(scheduled) \/ scheduled'[i].err = "closed"
  <2> SUFFICES ASSUME NEW i \in 1..Len(scheduled'), i \notin 1..Len(scheduled)
               PROVE  scheduled'[i].err = "closed"
    OBVIOUS
  <2>1. i - Len(scheduled) \in 1..n /\ i = Len(scheduled) + (i - Len(scheduled))
    BY <1>4
  <2> QED
    BY <1>4, <2>1
<1>6. \A r \in Runs : Turned(r)' \subseteq Turned(r)
  BY <1>4, <1>5 DEF Turned, Turn
<1>7. \A r \in Runs : /\ Ens(r)' = Ens(r) /\ Conn(r)' = Conn(r) /\ Denied(r)' = {}
                      /\ Wire(r)' \subseteq Wire(r)
  BY <1>1 DEF Ens, Conn, Denied, Pend, Wire
<1>8. \A r \in Runs : Fresh(r)' => Fresh(r)
  BY <1>1, <1>6, <1>7 DEF Fresh
<1> QED
  BY <1>2, <1>7, <1>8, SpentStays DEF SpentInv

LEMMA RestartDoneSpends ==
  ASSUME PlacesInv, SpentInv, RestartDone
  PROVE  SpentInv'
<1> USE DEF PlacesInv
<1>1. /\ scheduled # <<>> /\ scheduled' = Tail(scheduled)
      /\ ensuring' = ensuring /\ connecting' = None /\ runs' = runs
      /\ \A i \in Ids : pending'[i] = None
      /\ wire' \subseteq wire
  BY RestartDoneLeaves
<1>2. served' = served
  BY DEF RestartDone, events
<1>3. \A r \in Runs : Turned(r)' # {} => Turned(r) # {}
  BY <1>1, PoppedTurns
<1>4. \A r \in Runs : /\ Ens(r)' = Ens(r) /\ Conn(r)' = {} /\ Denied(r)' = {}
                      /\ Wire(r)' \subseteq Wire(r)
  BY <1>1 DEF Ens, Conn, Denied, Pend, Wire
<1>5. \A r \in Runs : Fresh(r)' => Fresh(r)
  BY <1>1, <1>3, <1>4 DEF Fresh
<1> QED
  BY <1>2, <1>4, <1>5, SpentStays DEF SpentInv

LEMMA PipeConnectedSpends ==
  ASSUME PlacesInv, SpentInv, NEW e \in ensuring, PipeConnected(e)
  PROVE  SpentInv'
<1> USE DEF PlacesInv
<1>1. /\ ensuring' = ensuring \ {e} /\ scheduled' = scheduled /\ replies' = replies
      /\ connecting' = connecting /\ runs' = runs /\ served' = served
  BY DEF PipeConnected, plugin, history, events
<1>2. PICK p \in Pipes : Sends(p, <<e.cont>>)
  BY DEF PipeConnected
<1>3. e.cont \in Conts
  BY DEF TypeInv
<1>4. /\ <<e.cont>> \in Seq(Conts)
      /\ \A r \in Runs : AtMost(Asked(<<e.cont>>, r))
      /\ \A r \in Runs : ~IsCall(e.cont, r) => Asked(<<e.cont>>, r) = {}
  BY <1>3, OneCall
<1>5. \A r \in Runs : Turned(r)' = Turned(r) /\ Conn(r)' = Conn(r) /\ Ens(r)' \subseteq Ens(r)
  BY <1>1 DEF Turned, Turn, Conn, Ens
<1>6. \A r \in Runs : Denied(r)' = Denied(r)
  BY <1>1, <1>2, <1>4, SendsDeny
<1>7. \A r \in Runs : Fresh(r)' => Fresh(r)
  BY <1>1, <1>5, <1>6 DEF Fresh
<1>8. ASSUME NEW r \in Runs
      PROVE  Spent(r)'
  <2>1. Spent(r) /\ OnePlace(r) /\ (runs[r] = "waits" \/ Nowhere(r))
    BY DEF SpentInv, PlaceInv
  <2>2. CASE IsCall(e.cont, r)
    <3>1. e \in Ens(r)
      BY <2>2 DEF Ens
    <3>2. /\ AtMost(Ens(r)) /\ Pend(r) = {} /\ Turn(r) = {} /\ Conn(r) = {} /\ runs[r] = "waits"
          /\ Wire(r) = {} /\ Fresh(r)
      BY <2>1, <3>1 DEF OnePlace, Nowhere, Spent, Fresh
    <3>3. Ens(r)' = {}
      BY <1>1, <3>1, <3>2 DEF Ens, AtMost
    <3>4. Denied(r) = {} /\ Turned(r) = {}
      BY <3>2 DEF Denied, Turned
    <3>5. ~Fresh(r)'
      BY <1>1, <1>5, <1>6, <3>2, <3>3, <3>4 DEF Fresh
    <3>6. AtMost(Wire(r)')
      BY <1>2, <1>4, <3>2, SendsOfARun
    <3> QED
      BY <1>1, <2>1, <3>2, <3>5, <3>6, SpentGoesOut
  <2>3. CASE ~IsCall(e.cont, r)
    <3>1. Wire(r)' = Wire(r)
      BY <1>2, <1>4, <2>3, SendsOfARun
    <3> QED
      BY <1>1, <1>7, <2>1, <3>1, SpentStays
  <2> QED
    BY <2>2, <2>3
<1> QED
  BY <1>1, <1>8 DEF SpentInv

LEMMA EnsureSpends ==
  ASSUME PlacesInv, SpentInv, NEW e \in ensuring, Refused(e) \/ Unreachable(e)
  PROVE  SpentInv'
<1> USE DEF PlacesInv
<1>1. /\ scheduled' = scheduled /\ pending' = pending /\ wire' = wire /\ replies' = replies
      /\ served' = served
  BY DEF Refused, Unreachable, history, events
<1>2. \A r \in Runs : /\ Turned(r)' = Turned(r) /\ Denied(r)' = Denied(r) /\ Wire(r)' = Wire(r)
  BY <1>1 DEF Turned, Turn, Denied, Pend, Wire
<1>3. ASSUME NEW r \in Runs
      PROVE  Fresh(r)' => Fresh(r)
  <2>1. CASE Refused(e)
    <3>1. /\ ensuring' = (ensuring \ {e}) \cup {Ensure(e.cont, e.tries + 1, e.n)}
          /\ connecting' = connecting /\ runs' = runs
      BY <2>1 DEF Refused, plugin
    <3>2. Ensure(e.cont, e.tries + 1, e.n).cont = e.cont
      BY DEF Ensure
    <3>3. (Ens(r)' # {} => Ens(r) # {}) /\ Conn(r)' = Conn(r)
      BY <3>1, <3>2 DEF Ens, Conn
    <3> QED
      BY <1>2, <3>1, <3>3 DEF Fresh
  <2>2. CASE Unreachable(e)
    <3>1. /\ ensuring' = ensuring \ {e}
          /\ \/ /\ connecting' = connecting
                /\ \E d : runs' = [runs EXCEPT ![d] = "failed"]
             \/ WaitersFail
             \/ connecting' = connecting /\ runs' = runs
      BY <2>2, UnreachableLeaves
    <3>2. Ens(r)' \subseteq Ens(r)
      BY <3>1 DEF Ens
    <3>3. /\ Conn(r)' = Conn(r) \/ Conn(r)' = {}
          /\ runs'[r] = "new" => runs[r] = "new"
      <4>1. CASE WaitersFail
        BY <4>1, WaitersFailLeave
      <4>2. ASSUME NEW d, runs' = [runs EXCEPT ![d] = "failed"]
            PROVE  runs'[r] = "new" => runs[r] = "new"
        BY <4>2 DEF TypeInv
      <4> QED
        BY <3>1, <4>1, <4>2 DEF Conn
    <3> QED
      BY <1>2, <3>2, <3>3 DEF Fresh
  <2> QED
    BY <2>1, <2>2
<1> QED
  BY <1>1, <1>2, <1>3, SpentStays DEF SpentInv

LEMMA CallbackSpends ==
  ASSUME PlacesInv, SpentInv, Callback
  PROVE  SpentInv'
<1> USE DEF PlacesInv
<1>0. PICK c, err : c = Head(scheduled).cont /\ err = Head(scheduled).err
  OBVIOUS
<1>1. /\ scheduled # <<>> /\ scheduled' = Tail(scheduled)
      /\ replies' = replies /\ served' = served
  BY DEF Callback, lines, events
<1>2. \A r \in Runs : /\ Turned(r)' # {} => Turned(r) # {}
                      /\ IsCall(c, r) /\ err = "unconnected" => Turned(r) # {}
  BY <1>0, <1>1, PoppedTurns
<1>3. c \in Conts
  BY <1>0, <1>1, Popped DEF Turns
<1>r. \A r \in Runs : Spent(r) /\ OnePlace(r) /\ (runs[r] = "waits" \/ Nowhere(r))
  BY DEF SpentInv, PlaceInv
<1>s. ASSUME \A r \in Runs : /\ Ens(r)' = Ens(r) /\ Wire(r)' = Wire(r) /\ Denied(r)' = Denied(r)
                             /\ Conn(r)' = Conn(r) \/ Conn(r)' = {}
                             /\ runs'[r] = "new" => runs[r] = "new"
      PROVE  SpentInv'
  <2>1. \A r \in Runs : Fresh(r)' => Fresh(r)
    BY <1>2, <1>s DEF Fresh
  <2> QED
    BY <1>1, <1>r, <1>s, <2>1, SpentStays DEF SpentInv
<1>n. ASSUME CallsNothing
      PROVE  \A r \in Runs : Ens(r)' = Ens(r) /\ Wire(r)' = Wire(r) /\ Denied(r)' = Denied(r)
  BY <1>1, <1>n, CallsNothingLeaves, CallsNothingDenies
<1>4. CASE Ended(c)
  <2>1. CallsNothing /\ connecting' = connecting /\
          \E how \in {"done", "failed"} : runs' = [runs EXCEPT ![c.run] = how]
    BY <1>4 DEF Ended
  <2>2. \A r \in Runs : Conn(r)' = Conn(r) /\ (runs'[r] = "new" => runs[r] = "new")
    BY <2>1 DEF Conn, TypeInv
  <2> QED
    BY <1>n, <1>s, <2>1, <2>2
<1>5. ASSUME NEW w, Requeued(c, err, w)
      PROVE  SpentInv'
  <2>1. /\ c.method = "execute" /\ err = "unconnected" /\ w \in Waiters /\ w.run = c.run
        /\ ConnectAgain(w) /\ runs' = runs
    BY <1>5 DEF Requeued
  <2>2. c.run \in Runs /\ IsCall(c, c.run)
    BY <1>3, <2>1 DEF Conts, IsCall
  <2>3. /\ \A r \in Runs : Ens(r)' = Ens(r) /\ Wire(r)' = Wire(r) /\ Denied(r)' = Denied(r)
        /\ \A r \in Runs \ {c.run} : Conn(r)' = Conn(r)
    BY <1>1, <2>1, ConnectAgainLeaves, ConnectAgainDenies
  <2>4. Fresh(c.run)
    BY <1>2, <2>1, <2>2 DEF Fresh
  <2>5. \A r \in Runs : Fresh(r)' => Fresh(r)
    BY <1>2, <2>1, <2>3, <2>4 DEF Fresh
  <2> QED
    BY <1>1, <1>r, <2>3, <2>5, SpentStays DEF SpentInv
<1>6. CASE c.method = "connect" /\ ConnectDone
  <2>1. connecting' = None /\ runs' = runs
    BY <1>6 DEF ConnectDone
  <2>2. \A r \in Runs : Conn(r)' = {}
    BY <2>1 DEF Conn
  <2>3. CASE connecting = None
    BY <1>6, <1>n, <1>s, <2>1, <2>2, <2>3 DEF ConnectDone
  <2>4. CASE connecting # None
    <3>1. Proceed(connecting)
      BY <1>6, <2>4 DEF ConnectDone
    <3>2. /\ \A r \in Runs : Conn(r) = {} => Ens(r)' = Ens(r) /\ Wire(r)' = Wire(r)
          /\ \A r \in Runs : AtMost(Conn(r)) /\ Wire(r) = {} => AtMost(Wire(r)')
          /\ \A r \in Runs : Ens(r)' = Ens(r) \/ Wire(r)' = Wire(r)
      BY <1>1, <2>1, <2>4, <3>1, WaitersProceed
    <3>3. \A r \in Runs : Denied(r)' = Denied(r)
      <4>1. Calls(Executes(connecting)) /\ connecting \in Seq(Waiters)
        BY <2>4, <3>1 DEF Proceed, Executes, TypeInv
      <4> QED
        BY <1>1, <4>1, ExecutesAre, CallsDeny
    <3>4. ASSUME NEW r \in Runs
          PROVE  Spent(r)'
      <4>1. CASE Conn(r) = {}
        <5>1. Fresh(r)' => Fresh(r)
          BY <1>2, <2>1, <2>2, <3>2, <3>3, <4>1 DEF Fresh
        <5> QED
          BY <1>1, <1>r, <3>2, <4>1, <5>1, SpentStays
      <4>2. CASE Conn(r) # {}
        <5>1. /\ Ens(r) = {} /\ Pend(r) = {} /\ Turn(r) = {} /\ AtMost(Conn(r))
              /\ runs[r] = "waits" /\ Fresh(r) /\ Wire(r) = {} /\ Spent(r)
          BY <1>r, <4>2 DEF OnePlace, Nowhere, Fresh, Spent
        <5>2. Turned(r)' = {} /\ Denied(r)' = {}
          BY <1>2, <3>3, <5>1 DEF Turned, Denied
        <5>3. AtMost(Wire(r)') /\ (Wire(r)' = {} \/ ~Fresh(r)')
          BY <2>1, <2>2, <3>2, <5>1, <5>2 DEF Fresh
        <5> QED
          BY <1>1, <5>1, <5>3, SpentGoesOut
      <4> QED
        BY <4>1, <4>2
    <3> QED
      BY <1>1, <3>4 DEF SpentInv
  <2> QED
    BY <2>3, <2>4
<1>7. CASE c.method = "connect" /\ ConnectFails
  <2>1. WaitersFail /\ CallsNothing
    BY <1>7 DEF ConnectFails
  <2>2. \A r \in Runs : Conn(r)' = {} /\ (runs'[r] = "new" => runs[r] = "new")
    BY <2>1, WaitersFailLeave
  <2> QED
    BY <1>n, <1>s, <2>1, <2>2
<1>8. CASE Ignored(c)
  <2>1. CallsNothing /\ connecting' = connecting /\ runs' = runs
    BY <1>8 DEF Ignored
  <2> QED
    BY <1>n, <1>s, <2>1 DEF Conn
<1> QED
  BY <1>0, <1>4, <1>5, <1>6, <1>7, <1>8, CallbackIs

-----------------------------------------------------------------------------
LEMMA InitPlaces == Init => PlacesInv /\ SpentInv
<1> SUFFICES ASSUME Init
             PROVE  PlacesInv /\ SpentInv
  OBVIOUS
<1>1. \A r : Ens(r) = {} /\ Pend(r) = {} /\ Turn(r) = {} /\ Conn(r) = {} /\ Wire(r) = {}
  <2>1. \A i \in Ids : pending[i] = None
    BY DEF Init
  <2>2. 1..Len(scheduled) = {}
    BY DEF Init
  <2> QED
    BY <2>1, <2>2 DEF Init, Ens, Pend, Turn, Conn, Wire
<1>2. TypeInv
  <2>1. scheduled \in Seq(Turns) /\ nextId \in Nat
    BY DEF Init
  <2>2. pending \in [Ids -> Conts \cup {None}]
    BY DEF Init
  <2> QED
    BY <2>1, <2>2 DEF Init, TypeInv, PipeStates, RunStates
<1>3. LinkInv
  BY DEF Init, LinkInv
<1>4. PlaceInv
  BY <1>1 DEF PlaceInv, OnePlace, Nowhere, AtMost
<1>5. SpentInv
  <2>1. executed = [r \in Runs |-> 0] /\ misread = {}
    BY DEF Init
  <2> QED
    BY <1>1, <2>1 DEF SpentInv, Spent, AtMost
<1> QED
  BY <1>2, <1>3, <1>4, <1>5 DEF PlacesInv

LEMMA StepSpends == PlacesInv /\ SpentInv /\ [Next]_vars => SpentInv'
<1> SUFFICES ASSUME PlacesInv, SpentInv, [Next]_vars
             PROVE  SpentInv'
  OBVIOUS
<1>1. CASE \E r \in Runs : Run(r)
  BY <1>1, RunSpends
<1>2. CASE CancelRun \/ Restart \/ Poll
  BY <1>2, AsksSpend
<1>3. CASE Server
  BY <1>3, ServerSpends
<1>4. CASE Reads
  BY <1>4, ReadSpends, HalfSpends, EofSpends DEF Reads
<1>5. CASE Callback
  BY <1>5, CallbackSpends
<1>6. CASE RestartDone
  BY <1>6, RestartDoneSpends
<1>7. CASE Connecting
  BY <1>7, PipeConnectedSpends, EnsureSpends DEF Connecting
<1>8. CASE UNCHANGED vars
  <2>1. \A r : /\ Ens(r)' = Ens(r) /\ Turned(r)' = Turned(r) /\ Denied(r)' = Denied(r)
               /\ Conn(r)' = Conn(r) /\ Wire(r)' = Wire(r)
    BY <1>8 DEF vars, lines, calls, plugin, history, events, Ens, Turned, Turn, Denied, Pend, Conn,
            Wire
  <2>2. served' = served /\ runs' = runs
    BY <1>8 DEF vars, plugin, history, events
  <2> QED
    BY <2>1, <2>2, SpentStays DEF SpentInv, Fresh
<1> QED
  BY <1>1, <1>2, <1>3, <1>4, <1>5, <1>6, <1>7, <1>8 DEF Next

(* The repeated call and the repeated run never execute a statement a       *)
(* second time, for any number of statements, requests, pipes, crashes and  *)
(* restarts of the server, idle closings, cancels and restarts by the user. *)
(* A statement whose own error reads "not connected" is the exception the   *)
(* code makes, and the only one.                                            *)
THEOREM StatementsRunOnce == Spec => []RunsOnce
<1>1. PlacesInv /\ SpentInv /\ [Next]_vars => PlacesInv' /\ SpentInv'
  BY StepPlaces, StepSpends
<1>2. SpentInv => RunsOnce
  <2>1. 0 <= 1 /\ 1 <= 1
    OBVIOUS
  <2> QED
    BY <2>1 DEF SpentInv, Spent, RunsOnce
<1> QED
  BY <1>1, <1>2, InitPlaces, PTL DEF Spec

-----------------------------------------------------------------------------
(* What `running` names, and what is out without a name                     *)

(* A run is out: its call is on its way, or waits to be repeated.           *)
Out(r) == \/ Ens(r) # {} \/ Pend(r) # {} \/ Turn(r) # {}
          \/ \E i \in Conn(r) : connecting[i].retried

ShownInv ==
    /\ connected => connecting = None
    /\ running # None => runs[running] = "waits"
    /\ connecting # None =>
         \A i \in DOMAIN connecting : connecting[i].retried \/ connecting[i].run # running
    /\ overlapped \/ \A r \in Runs : Out(r) => running = r

(* A step that ends nothing and sends nothing out.                          *)
LEMMA ShownStays ==
  ASSUME TypeInv, ShownInv, overlapped' = overlapped, running' = running,
         connected' => connected \/ connecting' = None,
         connecting' = connecting \/ connecting' = None,
         \A r \in Runs : runs[r] = "waits" => runs'[r] = "waits",
         \A r \in Runs : Out(r)' => Out(r)
  PROVE  ShownInv'
<1>1. connected' => connecting' = None
  BY DEF ShownInv
<1>2. running' # None => runs'[running'] = "waits"
  BY DEF ShownInv, TypeInv
<1>3. connecting' # None =>
         \A i \in DOMAIN connecting' : connecting'[i].retried \/ connecting'[i].run # running'
  BY DEF ShownInv
<1>4. overlapped' \/ \A r \in Runs : Out(r)' => running' = r
  BY DEF ShownInv
<1> QED
  BY <1>1, <1>2, <1>3, <1>4 DEF ShownInv

(* A step after which no run is named, and none is out.                     *)
LEMMA ShownNone ==
  ASSUME TypeInv', running' = None,
         connected' => connecting' = None,
         overlapped' \/ \A r \in Runs : ~Out(r)'
  PROVE  ShownInv'
<1>1. ASSUME connecting' # None, NEW i \in DOMAIN connecting'
      PROVE  connecting'[i].run # running'
  <2>1. connecting' \in Seq(Waiters)
    BY <1>1 DEF TypeInv
  <2>2. connecting'[i] \in Waiters
    BY <1>1, <2>1, LenProperties, ElementOfSeq
  <2> QED
    BY <2>2, PluginClientAssumption DEF Waiters
<1> QED
  BY <1>1 DEF ShownInv

(* The one that was out ends: nobody is out any more.                       *)
LEMMA ShownEnds ==
  ASSUME TypeInv', ShownInv, overlapped' = overlapped, running' = None,
         connected' => connected, connecting' = connecting \/ ~connected',
         NEW d \in Runs, Out(d), ~Out(d)', \A r \in Runs \ {d} : Out(r)' => Out(r)
  PROVE  ShownInv'
<1>1. overlapped' \/ \A r \in Runs : ~Out(r)'
  BY DEF ShownInv
<1>2. connected' => connecting' = None
  BY DEF ShownInv
<1> QED
  BY <1>1, <1>2, ShownNone

LEMMA WaitersFailShow ==
  ASSUME PlacesInv, TypeInv', ShownInv, WaitersFail,
         connected' = connected, overlapped' = overlapped,
         \A r \in Runs : /\ Ens(r)' \subseteq Ens(r) /\ Pend(r)' = Pend(r)
                         /\ Turn(r) = {} => Turn(r)' = {}
  PROVE  ShownInv'
<1> USE DEF PlacesInv
<1>1. /\ connecting' = None
      /\ \A r \in Runs : /\ Conn(r)' = {}
                         /\ Conn(r) = {} => runs'[r] = runs[r]
      /\ running' = running \/ running' = None
  BY WaitersFailLeave
<1>2. \A r \in Runs : /\ Out(r)' => Out(r)
                      /\ Conn(r) # {} => ~Out(r)'
  BY <1>1 DEF Out, PlaceInv, OnePlace
<1>3. CASE connecting = None
  <2>1. runs' = runs /\ running' = running
    BY <1>3 DEF WaitersFail
  <2> QED
    BY <1>1, <1>2, <2>1, ShownStays
<1>4. CASE connecting # None
  <2>1. running' = IF \E w \in ToSet(connecting) : w.retried THEN None ELSE running
    BY <1>4 DEF WaitersFail
  <2>2. ToSet(connecting) = {connecting[i] : i \in DOMAIN connecting}
    BY DEF ToSet
  <2>3. CASE \E i \in DOMAIN connecting : connecting[i].retried
    <3>1. PICK i \in DOMAIN connecting : connecting[i].retried
      BY <2>3
    <3>2. running' = None
      BY <2>1, <2>2, <3>1
    <3>3. connecting[i] \in Waiters
      <4>1. connecting \in Seq(Waiters)
        BY <1>4 DEF TypeInv
      <4> QED
        BY <4>1, LenProperties, ElementOfSeq
    <3>4. PICK d \in Runs : d = connecting[i].run
      BY <3>3 DEF Waiters
    <3>5. i \in Conn(d) /\ Out(d) /\ ~Out(d)'
      BY <1>2, <1>4, <3>1, <3>4 DEF Conn, Out
    <3>6. overlapped' \/ \A r \in Runs : ~Out(r)'
      BY <1>2, <3>5 DEF ShownInv
    <3> QED
      BY <1>1, <3>2, <3>6, ShownNone
  <2>4. CASE \A i \in DOMAIN connecting : ~connecting[i].retried
    <3>1. running' = running
      BY <2>1, <2>2, <2>4
    <3>2. running # None => running \in Runs /\ Conn(running) = {}
      BY <1>4, <2>4 DEF Conn, ShownInv, TypeInv
    <3>3. running' # None => runs'[running'] = "waits"
      BY <1>1, <3>1, <3>2 DEF ShownInv
    <3>4. overlapped' \/ \A r \in Runs : Out(r)' => running' = r
      BY <1>2, <3>1 DEF ShownInv
    <3> QED
      BY <1>1, <3>3, <3>4 DEF ShownInv
  <2> QED
    BY <2>3, <2>4
<1> QED
  BY <1>3, <1>4

(* Who goes out is named, the last of them if there are several.            *)
LEMMA ProceedNames ==
  ASSUME NEW ws \in Seq(Waiters), Proceed(ws)
  PROVE  /\ \/ running' = running /\ \A i \in DOMAIN ws : ws[i].retried
            \/ \E i \in DOMAIN ws : ~ws[i].retried /\ running' = ws[i].run
         /\ ~overlapped' => ~overlapped /\ ~(Len(ws) > 1) /\ running \in {None, ws[1].run}
BY DEF Proceed

LEMMA RunShows ==
  ASSUME PlacesInv, PlacesInv', ShownInv, NEW r \in Runs, Run(r)
  PROVE  ShownInv'
<1> USE DEF PlacesInv
<1> DEFINE w == Waiter(r, FALSE, FALSE)
<1>1. /\ scheduled' = scheduled /\ replies' = replies /\ connected' = connected
      /\ runs[r] = "new" /\ Nowhere(r)
  BY DEF Run, lines, PlaceInv
<1>2. \A q \in Runs : Turn(q)' = Turn(q)
  BY <1>1 DEF Turn
<1>3. w \in Waiters /\ w.run = r /\ ~w.retried
  BY DEF Waiter, Waiters
<1>4. \A q \in Runs : q # None
  BY PluginClientAssumption
<1> HIDE DEF w
<1>5. CASE running # None
  <2>1. /\ CallsNothing /\ runs' = [runs EXCEPT ![r] = "refused"]
        /\ UNCHANGED <<connecting, running, overlapped>>
    BY <1>5 DEF Run
  <2>2. \A q \in Runs : Out(q)' => Out(q)
    BY <1>1, <1>2, <2>1, CallsNothingLeaves DEF Out, Conn
  <2>3. \A q \in Runs : runs[q] = "waits" => runs'[q] = "waits"
    BY <1>1, <2>1 DEF TypeInv
  <2> QED
    BY <1>1, <2>1, <2>2, <2>3, ShownStays
<1>6. CASE running = None /\ connected
  <2>1. /\ Proceed(<<w>>) /\ Calls(Executes(<<w>>)) /\ connecting' = connecting
        /\ runs' = [runs EXCEPT ![r] = "waits"]
    BY <1>6 DEF Run, EnsureConnected, Proceed, Executes, w
  <2>2. <<w>> \in Seq(Waiters) /\ Len(<<w>>) = 1 /\ <<w>>[1] = w /\ DOMAIN <<w>> = {1}
    BY <1>3
  <2>3. /\ Executes(<<w>>) \in Seq(Conts)
        /\ \A q \in Runs : Asked(Executes(<<w>>), q) = {i \in 1..1 : <<w>>[i].run = q}
    BY <2>2, ExecutesAre
  <2>4. \A q \in Runs \ {r} : Asked(Executes(<<w>>), q) = {}
    BY <1>3, <2>2, <2>3
  <2>5. \A q \in Runs \ {r} : Ens(q)' = Ens(q) /\ Pend(q)' = Pend(q)
    BY <2>1, <2>3, <2>4, CallsOfARun
  <2>6. running' = r /\ (~overlapped' => ~overlapped)
    BY <1>3, <2>1, <2>2, ProceedNames
  <2>7. connecting' = None
    BY <1>6, <2>1 DEF ShownInv
  <2>8. runs'[running'] = "waits"
    BY <2>1, <2>6 DEF TypeInv
  <2>9. \A q \in Runs \ {r} : Out(q)' => Out(q)
    BY <1>2, <2>5, <2>7 DEF Out, Conn
  <2>10. overlapped' \/ \A q \in Runs : Out(q)' => running' = q
    BY <1>4, <1>6, <2>6, <2>9 DEF ShownInv
  <2> QED
    BY <2>7, <2>8, <2>10 DEF ShownInv
<1>7. CASE running = None /\ ~connected
  <2>1. ConnectAgain(w) /\ running' = running
    BY <1>7 DEF Run, EnsureConnected, w
  <2>2. /\ \A q \in Runs : Ens(q)' = Ens(q) /\ Pend(q)' = Pend(q)
        /\ \A i \in DOMAIN connecting' :
              \/ connecting'[i] = w
              \/ connecting # None /\ i \in DOMAIN connecting /\ connecting'[i] = connecting[i]
    BY <1>1, <1>3, <2>1, ConnectAgainLeaves
  <2>3. \A q \in Runs : Out(q)' => Out(q)
    BY <1>2, <1>3, <2>2 DEF Out, Conn
  <2>4. overlapped' = overlapped
    BY <2>1 DEF ConnectAgain
  <2>5. overlapped' \/ \A q \in Runs : ~Out(q)'
    BY <1>4, <1>7, <2>3, <2>4, PluginClientAssumption DEF ShownInv
  <2> QED
    BY <1>1, <1>7, <2>1, <2>5, ShownNone
<1> QED
  BY <1>5, <1>6, <1>7

LEMMA AsksShow ==
  ASSUME PlacesInv, ShownInv, CancelRun \/ Restart \/ Poll
  PROVE  ShownInv'
<1> USE DEF PlacesInv
<1>1. /\ scheduled' = scheduled /\ replies' = replies /\ (connected' => connected)
      /\ connecting' = connecting /\ running' = running /\ runs' = runs
      /\ overlapped' = overlapped
  BY DEF CancelRun, Restart, Poll, plugin
<1>2. \A q \in Runs : Ens(q)' = Ens(q) /\ Pend(q)' = Pend(q)
  <2>1. ASSUME NEW c \in Conts, \A q \in Runs : ~IsCall(c, q), Calls(<<c>>)
        PROVE  \A q \in Runs : Ens(q)' = Ens(q) /\ Pend(q)' = Pend(q)
    <3>1. <<c>> \in Seq(Conts) /\ \A q \in Runs : Asked(<<c>>, q) = {}
      BY <2>1, OneCall
    <3> QED
      BY <2>1, <3>1, CallsOfARun
  <2> QED
    BY <1>1, <2>1, AsksAre, CallsNothingLeaves
<1>3. \A q \in Runs : Out(q)' => Out(q)
  BY <1>1, <1>2 DEF Out, Turn, Conn
<1> QED
  BY <1>1, <1>3, ShownStays

LEMMA BackgroundShows ==
  ASSUME TypeInv, ShownInv, Background
  PROVE  ShownInv'
BY DEF Background, ShownInv, Out, Ens, Pend, Turn, Conn

LEMMA ReadShows ==
  ASSUME PlacesInv, ShownInv, NEW x \in replies, Read(x)
  PROVE  ShownInv'
<1> USE DEF PlacesInv
<1>1. /\ ensuring' = ensuring /\ connecting' = connecting /\ runs' = runs
      /\ connected' = connected /\ running' = running /\ overlapped' = overlapped
  BY DEF Read, plugin
<1>2. \A q \in Runs : Ens(q)' = Ens(q) /\ Conn(q)' = Conn(q)
  BY <1>1 DEF Ens, Conn
<1>3. CASE Delivers(x) /\ pending[x.id] # None
  <2>1. \A q \in Runs : Out(q)' => Out(q)
    <3> TAKE q \in Runs
    <3>1. OnePlace(q)
      BY DEF PlaceInv
    <3> QED
      BY <1>1, <1>2, <1>3, <3>1, DeliversOfARun DEF Out
  <2> QED
    BY <1>1, <2>1, ShownStays
<1>4. CASE Garbles \/ (Delivers(x) /\ pending[x.id] = None)
  <2>1. x.id \in Ids
    BY DEF TypeInv, Answered
  <2>2. scheduled' = scheduled /\ pending' = pending
    BY <1>4, <2>1 DEF Garbles, Delivers, TypeInv
  <2>3. \A q \in Runs : Out(q)' => Out(q)
    BY <1>1, <1>2, <2>2 DEF Out, Turn, Pend
  <2> QED
    BY <1>1, <2>3, ShownStays
<1> QED
  BY <1>3, <1>4 DEF Read

LEMMA EofShows ==
  ASSUME PlacesInv, ShownInv, NEW p \in Pipes, Eof(p)
  PROVE  ShownInv'
<1> USE DEF PlacesInv
<1>1. /\ ensuring' = ensuring /\ connecting' = connecting /\ runs' = runs
      /\ connected' = connected /\ running' = running
      /\ pending' = [i \in Ids |-> None]
  BY EofFails
<1>2. overlapped' = overlapped
  BY DEF Eof, history
<1>3. PICK n \in Nat : \E order \in [1..n -> Waiting] :
               /\ \A i, j \in 1..n : i # j => order[i] # order[j]
               /\ \A i \in Waiting : \E j \in 1..n : order[j] = i
               /\ Len(scheduled) \in Nat /\ Len(scheduled') = Len(scheduled) + n
               /\ \A i \in 1..Len(scheduled) : scheduled'[i] = scheduled[i]
               /\ \A i \in 1..n : /\ scheduled'[Len(scheduled) + i].cont = pending[order[i]]
                                  /\ scheduled'[Len(scheduled) + i].err = "closed"
  BY EofFails
<1>4. PICK order \in [1..n -> Waiting] :
               /\ Len(scheduled) \in Nat /\ Len(scheduled') = Len(scheduled) + n
               /\ \A i \in 1..Len(scheduled) : scheduled'[i] = scheduled[i]
               /\ \A i \in 1..n : scheduled'[Len(scheduled) + i].cont = pending[order[i]]
  BY <1>3
<1>5. \A i \in 1..Len(scheduled') : \/ i \in 1..Len(scheduled) /\ scheduled'[i] = scheduled[i]
                                    \/ \E j \in Waiting : scheduled'[i].cont = pending[j]
  <2> SUFFICES ASSUME NEW i \in 1..Len(scheduled'), i \notin 1..Len(scheduled)
               PROVE  \E j \in Waiting : scheduled'[i].cont = pending[j]
    BY <1>4
  <2>1. i - Len(scheduled) \in 1..n /\ i = Len(scheduled) + (i - Len(scheduled))
    BY <1>4
  <2>2. PICK k \in 1..n : i = Len(scheduled) + k
    BY <2>1
  <2>3. scheduled'[i].cont = pending[order[k]] /\ order[k] \in Waiting
    BY <1>4, <2>2
  <2> QED
    BY <2>3
<1>6. \A q \in Runs : Turn(q)' # {} => Turn(q) # {} \/ Pend(q) # {}
  BY <1>5 DEF Turn, Pend, Waiting
<1>7. \A q \in Runs : Ens(q)' = Ens(q) /\ Conn(q)' = Conn(q) /\ Pend(q)' = {}
  BY <1>1 DEF Ens, Conn, Pend
<1>8. \A q \in Runs : Out(q)' => Out(q)
  BY <1>1, <1>6, <1>7 DEF Out
<1> QED
  BY <1>1, <1>2, <1>8, ShownStays

LEMMA RestartDoneShows ==
  ASSUME PlacesInv, ShownInv, RestartDone
  PROVE  ShownInv'
<1> USE DEF PlacesInv
<1>1. /\ scheduled # <<>> /\ scheduled' = Tail(scheduled)
      /\ ensuring' = ensuring /\ connecting' = None /\ runs' = runs
      /\ connected' = FALSE /\ running' = running /\ overlapped' = overlapped
      /\ \A i \in Ids : pending'[i] = None
  BY RestartDoneLeaves
<1>2. \A r \in Runs : Turn(r) = {} => Turn(r)' = {}
  BY <1>1, Popped
<1>3. \A r \in Runs : Out(r)' => Out(r)
  BY <1>1, <1>2 DEF Out, Ens, Pend, Conn
<1> QED
  BY <1>1, <1>3, ShownStays

LEMMA PipeConnectedShows ==
  ASSUME PlacesInv, ShownInv, NEW e \in ensuring, PipeConnected(e)
  PROVE  ShownInv'
<1> USE DEF PlacesInv
<1>1. /\ ensuring' = ensuring \ {e} /\ scheduled' = scheduled
      /\ connecting' = connecting /\ runs' = runs
      /\ connected' = connected /\ running' = running /\ overlapped' = overlapped
  BY DEF PipeConnected, plugin, history
<1>2. PICK p \in Pipes : Sends(p, <<e.cont>>)
  BY DEF PipeConnected
<1>3. e.cont \in Conts
  BY DEF TypeInv
<1>4. /\ <<e.cont>> \in Seq(Conts)
      /\ \A r \in Runs : ~IsCall(e.cont, r) => Asked(<<e.cont>>, r) = {}
  BY <1>3, OneCall
<1>5. ASSUME NEW r \in Runs
      PROVE  Out(r)' => Out(r)
  <2>1. CASE IsCall(e.cont, r)
    BY <2>1 DEF Out, Ens
  <2>2. CASE ~IsCall(e.cont, r)
    <3>1. Pend(r)' = Pend(r)
      BY <1>2, <1>4, <2>2, SendsOfARun
    <3> QED
      BY <1>1, <3>1 DEF Out, Ens, Turn, Conn
  <2> QED
    BY <2>1, <2>2
<1> QED
  BY <1>1, <1>5, ShownStays

LEMMA CallbackShows ==
  ASSUME PlacesInv, PlacesInv', ShownInv, Callback
  PROVE  ShownInv'
<1> USE DEF PlacesInv
<1>0. PICK c, err : c = Head(scheduled).cont /\ err = Head(scheduled).err
  OBVIOUS
<1>1. scheduled # <<>> /\ scheduled' = Tail(scheduled) /\ replies' = replies
  BY DEF Callback
<1>2. \A r \in Runs : /\ Turn(r) = {} => Turn(r)' = {} /\ ~IsCall(c, r)
                      /\ AtMost(Turn(r)) /\ IsCall(c, r) => Turn(r)' = {}
  BY <1>0, <1>1, Popped
<1>3. c \in Conts
  BY <1>0, <1>1, Popped DEF Turns
<1>p. \A r \in Runs : OnePlace(r) /\ (runs[r] = "waits" \/ Nowhere(r))
  BY DEF PlaceInv
<1>o. \A r \in Runs : r # None
  BY PluginClientAssumption
<1>c. ASSUME c.method = "execute"
      PROVE  /\ c.run \in Runs /\ Out(c.run)
             /\ Ens(c.run) = {} /\ Pend(c.run) = {} /\ Conn(c.run) = {} /\ Turn(c.run)' = {}
  <2>1. c.run \in Runs /\ IsCall(c, c.run)
    BY <1>3, <1>c DEF Conts, IsCall
  <2>2. Turn(c.run) # {} /\ OnePlace(c.run)
    BY <1>2, <1>p, <2>1
  <2> QED
    BY <1>2, <2>1, <2>2 DEF OnePlace, Out
<1>n. ASSUME CallsNothing
      PROVE  \A r \in Runs : Ens(r)' = Ens(r) /\ Pend(r)' = Pend(r)
  BY <1>1, <1>n, CallsNothingLeaves
<1>4. CASE Ended(c)
  <2>1. /\ c.method = "execute" /\ CallsNothing /\ running' = None
        /\ connected' = connected /\ connecting' = connecting /\ overlapped' = overlapped
    BY <1>4 DEF Ended
  <2>2. \A r \in Runs : Out(r)' => Out(r)
    BY <1>2, <1>n, <2>1 DEF Out, Conn
  <2>3. ~Out(c.run)'
    BY <1>c, <1>n, <2>1 DEF Out, Conn
  <2> QED
    BY <1>c, <2>1, <2>2, <2>3, ShownEnds
<1>5. ASSUME NEW w, Requeued(c, err, w)
      PROVE  ShownInv'
  <2>1. /\ c.method = "execute" /\ w \in Waiters /\ w.run = c.run
        /\ ConnectAgain(w) /\ runs' = runs /\ connected' = FALSE /\ overlapped' = overlapped
    BY <1>5 DEF Requeued, ConnectAgain
  <2>2. PICK d \in Runs : d = c.run
    BY <1>c, <2>1
  <2>3. /\ Out(d) /\ Ens(d) = {} /\ Pend(d) = {} /\ Conn(d) = {} /\ Turn(d)' = {}
    BY <1>c, <2>1, <2>2
  <2>4. /\ connecting' \in Seq(Waiters)
        /\ \A r \in Runs : Ens(r)' = Ens(r) /\ Pend(r)' = Pend(r)
        /\ \A i \in DOMAIN connecting' :
               \/ connecting'[i] = w
               \/ connecting # None /\ i \in DOMAIN connecting /\ connecting'[i] = connecting[i]
    BY <1>1, <2>1, ConnectAgainLeaves
  <2>5. \A r \in Runs \ {d} : Out(r)' => Out(r)
    BY <1>2, <2>1, <2>2, <2>4 DEF Out, Conn
  <2>6. CASE w.retried
    <3>1. running' = running
      BY <1>5, <2>6 DEF Requeued
    <3>2. running' # None => runs'[running'] = "waits"
      BY <2>1, <3>1 DEF ShownInv
    <3>3. connecting # None =>
            \A i \in DOMAIN connecting : connecting[i].retried \/ connecting[i].run # running
      BY DEF ShownInv
    <3>4. \A i \in DOMAIN connecting' : connecting'[i].retried \/ connecting'[i].run # running'
      BY <2>4, <2>6, <3>1, <3>3
    <3>5. overlapped' \/ \A r \in Runs : Out(r)' => running' = r
      BY <2>1, <2>3, <2>5, <3>1 DEF ShownInv
    <3> QED
      BY <2>1, <3>2, <3>4, <3>5 DEF ShownInv
  <2>7. CASE ~w.retried
    <3>1. running' = None
      BY <1>5, <2>7 DEF Requeued
    <3>2. ~Out(d)'
      BY <2>2, <2>3, <2>4, <2>7 DEF Out, Conn
    <3>3. overlapped' \/ \A r \in Runs : ~Out(r)'
      BY <2>1, <2>3, <2>5, <3>2 DEF ShownInv
    <3> QED
      BY <2>1, <3>1, <3>3, ShownNone
  <2> QED
    BY <2>6, <2>7
<1>6. CASE c.method = "connect" /\ ConnectDone
  <2>1. connecting' = None /\ runs' = runs
    BY <1>6 DEF ConnectDone
  <2>2. CASE connecting = None
    <3>1. CallsNothing /\ running' = running /\ overlapped' = overlapped
      BY <1>6, <2>2 DEF ConnectDone
    <3>2. \A r \in Runs : Out(r)' => Out(r)
      BY <1>2, <1>n, <2>1, <3>1 DEF Out, Conn
    <3> QED
      BY <2>1, <3>1, <3>2, ShownStays
  <2>3. CASE connecting # None
    <3>1. Proceed(connecting) /\ connecting \in Seq(Waiters)
      BY <1>6, <2>3 DEF ConnectDone, TypeInv
    <3>2. \A r \in Runs : Conn(r) = {} => Ens(r)' = Ens(r) /\ Pend(r)' = Pend(r)
      BY <1>1, <2>1, <2>3, <3>1, WaitersProceed
    <3>3. /\ \/ running' = running /\ \A i \in DOMAIN connecting : connecting[i].retried
             \/ \E i \in DOMAIN connecting :
                   ~connecting[i].retried /\ running' = connecting[i].run
          /\ ~overlapped' => /\ ~overlapped /\ ~(Len(connecting) > 1)
                             /\ running \in {None, connecting[1].run}
      BY <3>1, ProceedNames
    <3>4. \A r \in Runs : Conn(r) = {} /\ Out(r)' => Out(r)
      <4>1. \A r \in Runs : Conn(r)' = {}
        BY <2>1 DEF Conn
      <4> QED
        BY <1>2, <3>2, <4>1 DEF Out
    <3>5. DOMAIN connecting = 1..Len(connecting) /\ Len(connecting) \in Nat
      BY <3>1, LenProperties
    <3>6. \A i \in DOMAIN connecting : connecting[i].run \in Runs /\ i \in Conn(connecting[i].run)
      <4> TAKE i \in DOMAIN connecting
      <4>1. connecting[i] \in Waiters
        BY <3>1, <3>5, ElementOfSeq
      <4> QED
        BY <2>3, <4>1 DEF Waiters, Conn
    <3>7. running' # None => runs'[running'] = "waits"
      <4>1. CASE running' = running
        BY <2>1, <4>1 DEF ShownInv
      <4>2. ASSUME NEW i \in DOMAIN connecting, running' = connecting[i].run
            PROVE  runs'[running'] = "waits"
        BY <1>p, <2>1, <3>6, <4>2 DEF Nowhere
      <4> QED
        BY <3>3, <4>1, <4>2
    <3>8. ASSUME ~overlapped', NEW r \in Runs, Out(r)'
          PROVE  running' = r
      <4>1. /\ ~overlapped /\ running \in {None, connecting[1].run}
            /\ \A i \in DOMAIN connecting : i = 1
        BY <3>3, <3>5, <3>8
      <4>2. \A q \in Runs : Out(q) => running = q
        BY <4>1 DEF ShownInv
      <4>3. CASE Conn(r) = {}
        <5>1. running = r
          BY <3>4, <3>8, <4>2, <4>3
        <5>2. \A i \in DOMAIN connecting : connecting[i].run # r
          BY <2>3, <4>3 DEF Conn
        <5>3. \A i \in DOMAIN connecting : connecting[i].run # running
          BY <5>1, <5>2
        <5>4. DOMAIN connecting = {}
          BY <1>o, <4>1, <5>1, <5>3
        <5> QED
          BY <3>3, <5>1, <5>4
      <4>4. CASE Conn(r) # {}
        <5>1. 1 \in DOMAIN connecting /\ connecting[1].run = r
          BY <4>1, <4>4 DEF Conn
        <5>2. CASE connecting[1].retried
          <6>1. Out(r)
            BY <2>3, <5>1, <5>2 DEF Out, Conn
          <6>2. running' = running
            BY <3>3, <4>1, <5>2
          <6> QED
            BY <4>2, <6>1, <6>2
        <5>3. CASE ~connecting[1].retried
          BY <3>3, <4>1, <5>1, <5>3
        <5> QED
          BY <5>2, <5>3
      <4> QED
        BY <4>3, <4>4
    <3> QED
      BY <2>1, <3>7, <3>8 DEF ShownInv
  <2> QED
    BY <2>2, <2>3
<1>7. CASE c.method = "connect" /\ ConnectFails /\ connected' = connected
  <2>1. WaitersFail /\ CallsNothing /\ overlapped' = overlapped
    BY <1>7 DEF ConnectFails
  <2> QED
    BY <1>2, <1>7, <1>n, <2>1, WaitersFailShow
<1>8. CASE Ignored(c)
  <2>1. /\ CallsNothing /\ (connected' => connected) /\ connecting' = connecting
        /\ running' = running /\ runs' = runs /\ overlapped' = overlapped
    BY <1>8 DEF Ignored
  <2>2. \A r \in Runs : Out(r)' => Out(r)
    BY <1>2, <1>n, <2>1 DEF Out, Conn
  <2> QED
    BY <2>1, <2>2, ShownStays
<1> QED
  BY <1>0, <1>4, <1>5, <1>6, <1>7, <1>8, CallbackIs

LEMMA EnsureShows ==
  ASSUME PlacesInv, PlacesInv', ShownInv, NEW e \in ensuring, Refused(e) \/ Unreachable(e)
  PROVE  ShownInv'
<1> USE DEF PlacesInv
<1>1. /\ scheduled' = scheduled /\ pending' = pending
      /\ connected' = connected /\ overlapped' = overlapped
  BY DEF Refused, Unreachable, history, plugin
<1>2. \A r \in Runs : Turn(r)' = Turn(r) /\ Pend(r)' = Pend(r)
  BY <1>1 DEF Turn, Pend
<1>3. CASE Refused(e)
  <2>1. /\ ensuring' = (ensuring \ {e}) \cup {Ensure(e.cont, e.tries + 1, e.n)}
        /\ connecting' = connecting /\ running' = running /\ runs' = runs
    BY <1>3 DEF Refused, plugin
  <2>2. Ensure(e.cont, e.tries + 1, e.n).cont = e.cont
    BY DEF Ensure
  <2>3. \A r \in Runs : Ens(r)' # {} => Ens(r) # {}
    BY <2>1, <2>2 DEF Ens
  <2>4. \A r \in Runs : Out(r)' => Out(r)
    BY <1>2, <2>1, <2>3 DEF Out, Conn
  <2> QED
    BY <1>1, <2>1, <2>4, ShownStays
<1>4. CASE Unreachable(e)
  <2>1. ensuring' = ensuring \ {e}
    BY <1>4, UnreachableLeaves
  <2>2. \A r \in Runs : Ens(r)' \subseteq Ens(r)
    BY <2>1 DEF Ens
  <2>3. CASE e.cont.method = "execute" /\ connecting' = connecting /\ running' = None
    <3>1. PICK d \in Runs : d = e.cont.run
      BY <2>3 DEF TypeInv, Conts
    <3>2. e \in Ens(d)
      BY <2>3, <3>1 DEF Ens, IsCall
    <3>3. Pend(d) = {} /\ Turn(d) = {} /\ Conn(d) = {} /\ AtMost(Ens(d)) /\ Out(d)
      BY <3>2 DEF PlaceInv, OnePlace, Out
    <3>4. ~Out(d)'
      BY <1>2, <2>1, <2>2, <2>3, <3>2, <3>3 DEF Out, Conn, Ens, AtMost
    <3>5. \A r \in Runs : Out(r)' => Out(r)
      BY <1>2, <2>2, <2>3 DEF Out, Conn
    <3> QED
      BY <1>1, <2>3, <3>3, <3>4, <3>5, ShownEnds
  <2>4. CASE WaitersFail
    BY <1>1, <1>2, <2>2, <2>4, WaitersFailShow
  <2>5. CASE connecting' = connecting /\ running' = running /\ runs' = runs
    <3>1. \A r \in Runs : Out(r)' => Out(r)
      BY <1>2, <2>2, <2>5 DEF Out, Conn
    <3> QED
      BY <1>1, <2>5, <3>1, ShownStays
  <2> QED
    BY <1>4, <2>3, <2>4, <2>5, UnreachableLeaves
<1> QED
  BY <1>3, <1>4

LEMMA StepShows == PlacesInv /\ PlacesInv' /\ ShownInv /\ [Next]_vars => ShownInv'
<1> SUFFICES ASSUME PlacesInv, PlacesInv', ShownInv, [Next]_vars
             PROVE  ShownInv'
  OBVIOUS
<1>1. CASE \E r \in Runs : Run(r)
  BY <1>1, RunShows
<1>2. CASE CancelRun \/ Restart \/ Poll
  BY <1>2, AsksShow
<1>3. CASE Server
  BY <1>3, ServerIs, BackgroundShows DEF PlacesInv, ServerMoves
<1>4. CASE Reads
  BY <1>4, ReadShows, HalfIs, BackgroundShows, EofShows DEF Reads, PlacesInv, ServerMoves
<1>5. CASE Callback
  BY <1>5, CallbackShows
<1>6. CASE RestartDone
  BY <1>6, RestartDoneShows
<1>7. CASE Connecting
  BY <1>7, PipeConnectedShows, EnsureShows DEF Connecting
<1>8. CASE UNCHANGED vars
  BY <1>8, BackgroundShows DEF vars, lines, calls, plugin, history, events, Background, PlacesInv
<1> QED
  BY <1>1, <1>2, <1>3, <1>4, <1>5, <1>6, <1>7, <1>8 DEF Next

(* What `state.running` names is a statement the user waits for, and as     *)
(* long as none overlapped another, one that is out is named there: a       *)
(* second is refused, and a cancel finds the one it is for.                 *)
THEOREM RunningIsTheOneOut == Spec => []RunningIsShown
<1>1. Init => ShownInv
  <2> SUFFICES ASSUME Init
               PROVE  ShownInv
    OBVIOUS
  <2>1. /\ connecting = None /\ running = None /\ ensuring = {}
        /\ \A i \in Ids : pending[i] = None
    BY DEF Init
  <2>2. 1..Len(scheduled) = {}
    BY DEF Init
  <2>3. \A r \in Runs : ~Out(r)
    BY <2>1, <2>2 DEF Out, Ens, Pend, Turn, Conn
  <2> QED
    BY <2>1, <2>3 DEF ShownInv
<1>2. PlacesInv /\ ShownInv /\ [Next]_vars => PlacesInv' /\ ShownInv'
  BY StepPlaces, StepShows
<1>3. PlacesInv /\ ShownInv => RunningIsShown
  <2> SUFFICES ASSUME PlacesInv, ShownInv
               PROVE  RunningIsShown
    OBVIOUS
  <2>1. \A r \in Runs : Owed(r, "execute") => Out(r)
    <3>1. DOMAIN scheduled = 1..Len(scheduled)
      BY LenProperties DEF PlacesInv, TypeInv
    <3> QED
      BY <3>1 DEF Owed, Out, Ens, Pend, Turn, IsCall, Waiting
  <2> QED
    BY <2>1 DEF ShownInv, RunningIsShown
<1> QED
  BY <1>1, <1>2, <1>3, InitPlaces, PTL DEF Spec

-----------------------------------------------------------------------------
(* What is owed                                                             *)

Is(c, r, method) == c.run = r /\ c.method = method

(* A callback waits for a pipe or for an answer, or for its turn.           *)
Sent(r, method) == \/ \E e \in ensuring : Is(e.cont, r, method)
                   \/ \E i \in Ids : pending[i] # None /\ Is(pending[i], r, method)
Due(r, method)  == \E i \in 1..Len(scheduled) : Is(scheduled[i].cont, r, method)
UnderWay(r, method) == Sent(r, method) \/ Due(r, method)

(* What is under way is on a pipe whose end will be read.                   *)
PipeInv ==
    /\ \A m \in wire : pipes[m.pipe] = "open"
    /\ \A x \in replies : pipes[x.pipe] \in {"open", "dead"}
    /\ pipe # None => pipes[pipe] \in {"open", "dead"}

Reached == \A i \in Ids : pending[i] # None =>
              \/ \E x \in wire : x.id = i
              \/ \E x \in replies : x.id = i
              \/ \E p \in Pipes : pipes[p] = "dead"

ConnectDue == connecting # None => UnderWay(None, "connect")

Kept(r) == runs[r] = "waits" /\ r \notin forgotten =>
              UnderWay(r, "execute") \/ Conn(r) # {}

OwedInv == PipeInv /\ (garbled \/ (Reached /\ ConnectDue /\ \A r \in Runs : Kept(r)))

LEMMA OwedInvOwes == TypeInv /\ OwedInv => WaitersAreOwed
<1> SUFFICES ASSUME TypeInv, OwedInv, ~garbled,
                    NEW r \in Runs \ forgotten, runs[r] = "waits"
             PROVE  Owed(r, "execute") \/ AwaitsConnect(r)
  BY DEF WaitersAreOwed
<1>1. DOMAIN scheduled = 1..Len(scheduled)
  BY LenProperties DEF TypeInv
<1>2. ASSUME NEW q, NEW method, UnderWay(q, method)
      PROVE  Owed(q, method)
  <2>1. CASE Due(q, method)
    BY <1>1, <2>1 DEF Due, Is, Owed
  <2>2. CASE \E e \in ensuring : Is(e.cont, q, method)
    BY <2>2 DEF Is, Owed
  <2>3. ASSUME NEW i \in Ids, pending[i] # None, Is(pending[i], q, method)
        PROVE  Owed(q, method)
    <3>1. i \in Waiting
      BY <2>3 DEF Waiting
    <3>2. (\E x \in wire \cup replies : x.id = i) \/ \E p \in Pipes : pipes[p] = "dead"
      BY <2>3 DEF OwedInv, Reached
    <3> QED
      BY <2>3, <3>1, <3>2 DEF Is, Owed
  <2> QED
    BY <1>2, <2>1, <2>2, <2>3 DEF UnderWay, Sent
<1>3. CASE UnderWay(r, "execute")
  BY <1>2, <1>3
<1>4. CASE Conn(r) # {}
  <2>1. connecting # None /\ \E i \in DOMAIN connecting : connecting[i].run = r
    BY <1>4 DEF Conn
  <2>2. \E w \in ToSet(connecting) : w.run = r
    BY <2>1 DEF ToSet
  <2>3. Owed(None, "connect")
    BY <1>2, <2>1 DEF OwedInv, ConnectDue
  <2> QED
    BY <2>1, <2>2, <2>3 DEF AwaitsConnect
<1> QED
  BY <1>3, <1>4 DEF OwedInv, Kept

LEMMA SendsReach ==
  ASSUME TypeInv, LinkInv, NEW p \in Pipes, NEW conts \in Seq(Conts), Sends(p, conts),
         pipes[p] # "dead" => pipes'[p] = "open",
         pipes[p] = "dead" => pipes'[p] = "dead",
         \A q \in Pipes \ {p} : pipes'[q] = pipes[q],
         pipe' = p, replies' = replies, PipeInv
  PROVE  /\ PipeInv'
         /\ Reached => Reached'
<1>1. /\ \A i \in Ids : i <= nextId => pending'[i] = pending[i]
      /\ \A i \in Ids : i <= nextId \/ pending'[i] = None
                             \/ \E k \in 1..Len(conts) : i = nextId + k
      /\ wire \subseteq wire'
      /\ \A m \in wire' : m \in wire \/ \E k \in 1..Len(conts) : m = Message(p, conts, k)
      /\ pipes[p] # "dead" => \A k \in 1..Len(conts) : Message(p, conts, k) \in wire'
  BY SendsLeave
<1>2. \A k : Message(p, conts, k).pipe = p /\ Message(p, conts, k).id = nextId + k
  BY DEF Message
<1>3. \A m \in wire : m.pipe \in Pipes
  BY DEF TypeInv, Messages
<1>4. \A x \in replies : x.pipe \in Pipes
  BY DEF TypeInv, Answered
<1>5. pipes[p] = "dead" => wire' = wire
  BY DEF Sends
<1>6. \A m \in wire' : pipes'[m.pipe] = "open"
  <2> TAKE m \in wire'
  <2>1. CASE m \in wire
    BY <1>3, <2>1 DEF PipeInv
  <2>2. CASE m \notin wire
    BY <1>1, <1>2, <1>5, <2>2
  <2> QED
    BY <2>1, <2>2
<1>7. \A x \in replies' : pipes'[x.pipe] \in {"open", "dead"}
  BY <1>4 DEF PipeInv
<1>8. PipeInv'
  BY <1>6, <1>7 DEF PipeInv
<1>9. ASSUME Reached, NEW i \in Ids, pending'[i] # None
      PROVE  \/ \E x \in wire' : x.id = i
             \/ \E x \in replies' : x.id = i
             \/ \E q \in Pipes : pipes'[q] = "dead"
  <2>1. CASE i <= nextId
    <3>1. pending[i] # None
      BY <1>1, <1>9, <2>1
    <3>2. CASE \E q \in Pipes : pipes[q] = "dead"
      BY <3>2
    <3> QED
      BY <1>1, <1>9, <3>1, <3>2 DEF Reached
  <2>2. CASE \E k \in 1..Len(conts) : i = nextId + k
    BY <1>1, <1>2, <2>2
  <2> QED
    BY <1>1, <1>9, <2>1, <2>2
<1> QED
  BY <1>8, <1>9 DEF Reached

LEMMA CallsReach ==
  ASSUME TypeInv, LinkInv, NEW conts \in Seq(Conts), Calls(conts),
         pipe' = pipe, pipes' = pipes, replies' = replies, PipeInv
  PROVE  /\ PipeInv'
         /\ Reached => Reached'
         /\ \A r, method : Sent(r, method) => Sent(r, method)'
         /\ \A k \in 1..Len(conts) : \A r, method : Is(conts[k], r, method) => Sent(r, method)'
<1>1. CASE pipe # None /\ Sends(pipe, conts) /\ ensuring' = ensuring
  <2>1. pipe \in Pipes
    BY <1>1 DEF TypeInv
  <2>2. /\ \A i \in Ids : i <= nextId => pending'[i] = pending[i]
        /\ \A k \in 1..Len(conts) : nextId + k \in Ids /\ pending'[nextId + k] = conts[k]
    BY <1>1, <2>1, SendsLeave
  <2>3. \A i \in Ids : pending[i] # None => pending'[i] = pending[i]
    BY <2>2 DEF LinkInv
  <2>4. \A k \in 1..Len(conts) : conts[k] # None
    BY ElementOfSeq, PluginClientAssumption
  <2>5. PipeInv' /\ (Reached => Reached')
    <3>1. pipes[pipe] # "dead" => pipes'[pipe] = "open"
      BY <1>1 DEF PipeInv
    <3> QED
      BY <1>1, <2>1, <3>1, SendsReach
  <2> QED
    BY <1>1, <2>2, <2>3, <2>4, <2>5 DEF Sent
<1>2. CASE /\ nextId' = nextId /\ pending' = pending /\ wire' = wire
           /\ \E n : ensuring' = ensuring \cup {Ensure(conts[i], 0, n + i) : i \in 1..Len(conts)}
  <2>1. PICK n : ensuring' = ensuring \cup {Ensure(conts[i], 0, n + i) : i \in 1..Len(conts)}
    BY <1>2
  <2>2. PipeInv' /\ (Reached => Reached')
    BY <1>2 DEF PipeInv, Reached
  <2>3. \A k \in 1..Len(conts) : \E e \in ensuring' : e.cont = conts[k]
    <3> TAKE k \in 1..Len(conts)
    <3>1. Ensure(conts[k], 0, n + k) \in ensuring'
      BY <2>1
    <3>2. Ensure(conts[k], 0, n + k).cont = conts[k]
      BY DEF Ensure
    <3> QED
      BY <3>1, <3>2
  <2> QED
    BY <1>2, <2>1, <2>2, <2>3 DEF Sent
<1> QED
  BY <1>1, <1>2, CallsAre

LEMMA CallsNothingReaches ==
  ASSUME CallsNothing, pipe' = pipe, pipes' = pipes, replies' = replies, PipeInv
  PROVE  /\ PipeInv'
         /\ Reached => Reached'
         /\ \A r, method : Sent(r, method) => Sent(r, method)'
BY DEF CallsNothing, calls, PipeInv, Reached, Sent

LEMMA ConnectAgainReaches ==
  ASSUME TypeInv, LinkInv, NEW w \in Waiters, ConnectAgain(w),
         pipe' = pipe, pipes' = pipes, replies' = replies, PipeInv
  PROVE  /\ PipeInv'
         /\ Reached => Reached'
         /\ \A r, method : Sent(r, method) => Sent(r, method)'
         /\ connecting = None => Sent(None, "connect")'
         /\ \A r : Conn(r) # {} => Conn(r)' # {}
         /\ Conn(w.run)' # {}
<1>1. CASE connecting # None
  <2>1. connecting \in Seq(Waiters) /\ connecting' = Append(connecting, w) /\ CallsNothing
    BY <1>1 DEF ConnectAgain, TypeInv
  <2>2. /\ connecting' \in Seq(Waiters) /\ Len(connecting') = Len(connecting) + 1
        /\ \A i \in 1..Len(connecting) : connecting'[i] = connecting[i]
        /\ connecting'[Len(connecting) + 1] = w
        /\ Len(connecting) \in Nat
    BY <2>1, AppendProperties, LenProperties
  <2>3. DOMAIN connecting = 1..Len(connecting) /\ DOMAIN connecting' = 1..(Len(connecting) + 1)
    BY <2>1, <2>2, LenProperties
  <2>4. connecting' # None
    BY <2>2, PluginClientAssumption
  <2>5. /\ Len(connecting) + 1 \in DOMAIN connecting'
        /\ \A i \in DOMAIN connecting : i \in DOMAIN connecting' /\ connecting'[i] = connecting[i]
    BY <2>2, <2>3
  <2>6. /\ \A r : Conn(r) # {} => Conn(r)' # {}
        /\ Conn(w.run)' # {}
    BY <2>2, <2>4, <2>5 DEF Conn
  <2> QED
    BY <1>1, <2>1, <2>6, CallsNothingReaches
<1>2. CASE connecting = None
  <2>1. connecting' = <<w>> /\ Calls(<<Connects>>)
    BY <1>2 DEF ConnectAgain
  <2>2. connecting' \in Seq(Waiters) /\ 1 \in DOMAIN connecting' /\ connecting'[1] = w
    BY <2>1
  <2>3. connecting' # None
    BY <2>2, PluginClientAssumption
  <2>4. Connects \in Conts /\ Is(Connects, None, "connect")
    BY DEF Connects, Cont, Conts, Is
  <2>5. <<Connects>> \in Seq(Conts) /\ 1 \in 1..Len(<<Connects>>) /\ <<Connects>>[1] = Connects
    BY <2>4
  <2>6. (\A r : Conn(r) = {}) /\ Conn(w.run)' # {}
    BY <1>2, <2>2, <2>3 DEF Conn
  <2> QED
    BY <2>1, <2>4, <2>5, <2>6, CallsReach
<1> QED
  BY <1>1, <1>2

(* A step that ends nothing, and after which all is still under way.        *)
LEMMA OwedStays ==
  ASSUME OwedInv, PipeInv', garbled \/ (Reached => Reached'),
         garbled' = garbled, forgotten' = forgotten, connecting' = connecting,
         \A r \in Runs : runs'[r] = "waits" => runs[r] = "waits",
         garbled \/ (UnderWay(None, "connect") => UnderWay(None, "connect")'),
         garbled \/ \A r \in Runs : UnderWay(r, "execute") => UnderWay(r, "execute")'
  PROVE  OwedInv'
<1> SUFFICES ASSUME ~garbled
             PROVE  Reached' /\ ConnectDue' /\ \A r \in Runs : Kept(r)'
  BY DEF OwedInv
<1>1. Reached' /\ ConnectDue'
  BY DEF OwedInv, ConnectDue
<1>2. \A r \in Runs : Conn(r)' = Conn(r)
  BY DEF Conn
<1>3. \A r \in Runs : Kept(r)'
  BY <1>2 DEF OwedInv, Kept
<1> QED
  BY <1>1, <1>3

LEMMA PoppedDue ==
  ASSUME TypeInv, scheduled # <<>>, scheduled' = Tail(scheduled), NEW r, NEW method
  PROVE  Due(r, method) => Due(r, method)' \/ Is(Head(scheduled).cont, r, method)
<1>1. /\ Len(Tail(scheduled)) = Len(scheduled) - 1
      /\ \A i \in 1..Len(Tail(scheduled)) : Tail(scheduled)[i] = scheduled[i + 1]
      /\ Len(scheduled) \in Nat /\ Len(scheduled) >= 1 /\ Head(scheduled) = scheduled[1]
  BY HeadTailProperties, EmptySeq, LenProperties DEF TypeInv
<1>2. ASSUME NEW i \in 1..Len(scheduled), i # 1
      PROVE  i - 1 \in 1..Len(scheduled') /\ scheduled'[i - 1] = scheduled[i]
  <2>1. i - 1 \in 1..Len(Tail(scheduled)) /\ (i - 1) + 1 = i
    BY <1>1, <1>2
  <2> QED
    BY <1>1, <2>1
<1> QED
  BY <1>1, <1>2 DEF Due

LEMMA RunOwes ==
  ASSUME PlacesInv, OwedInv, NEW r \in Runs, Run(r)
  PROVE  OwedInv'
<1> USE DEF PlacesInv
<1> DEFINE w == Waiter(r, FALSE, FALSE)
<1>1. /\ pipe' = pipe /\ pipes' = pipes /\ scheduled' = scheduled /\ replies' = replies
      /\ runs[r] = "new" /\ garbled' = garbled /\ forgotten' = forgotten
  BY DEF Run, lines
<1>2. \A q, method : Due(q, method)' = Due(q, method)
  BY <1>1 DEF Due
<1>3. w \in Waiters /\ w.run = r
  BY DEF Waiter, Waiters
<1>4. \A q \in Runs \ {r} : runs'[q] = runs[q]
  BY DEF Run, TypeInv
<1>p. PipeInv
  BY DEF OwedInv
<1> HIDE DEF w
<1>5. CASE running # None
  <2>1. CallsNothing /\ connecting' = connecting /\ runs' = [runs EXCEPT ![r] = "refused"]
    BY <1>5 DEF Run
  <2>2. /\ PipeInv' /\ (Reached => Reached')
        /\ \A q, method : UnderWay(q, method) => UnderWay(q, method)'
    BY <1>1, <1>2, <1>p, <2>1, CallsNothingReaches DEF UnderWay
  <2>3. \A q \in Runs : runs'[q] = "waits" => runs[q] = "waits"
    BY <2>1 DEF TypeInv
  <2> QED
    BY <1>1, <2>1, <2>2, <2>3, OwedStays
<1>6. CASE running = None /\ connected
  <2>1. Calls(Executes(<<w>>)) /\ connecting' = connecting
    BY <1>6 DEF Run, EnsureConnected, Proceed, Executes, w
  <2>2. <<w>> \in Seq(Waiters) /\ Len(<<w>>) = 1 /\ <<w>>[1] = w /\ DOMAIN <<w>> = {1}
    BY <1>3
  <2>3. /\ Executes(<<w>>) \in Seq(Conts)
        /\ Asked(Executes(<<w>>), r) = {i \in 1..1 : <<w>>[i].run = r}
    BY <2>2, ExecutesAre
  <2>4. 1 \in Asked(Executes(<<w>>), r)
    BY <1>3, <2>2, <2>3
  <2>5. /\ PipeInv' /\ (Reached => Reached')
        /\ \A q, method : UnderWay(q, method) => UnderWay(q, method)'
        /\ Sent(r, "execute")'
    BY <1>1, <1>2, <1>p, <2>1, <2>3, <2>4, CallsReach DEF UnderWay, Asked, IsCall, Is
  <2>6. \A q \in Runs : Conn(q)' = Conn(q)
    BY <2>1 DEF Conn
  <2>7. ASSUME ~garbled, NEW q \in Runs
        PROVE  Kept(q)'
    <3>1. CASE q = r
      BY <2>5, <3>1 DEF Kept, UnderWay
    <3>2. CASE q # r
      BY <1>1, <1>4, <2>5, <2>6, <2>7, <3>2 DEF Kept, OwedInv
    <3> QED
      BY <3>1, <3>2
  <2>8. ASSUME ~garbled
        PROVE  Reached' /\ ConnectDue'
    BY <2>1, <2>5, <2>8 DEF OwedInv, ConnectDue
  <2> QED
    BY <1>1, <2>5, <2>7, <2>8 DEF OwedInv
<1>7. CASE running = None /\ ~connected
  <2>1. ConnectAgain(w)
    BY <1>7 DEF Run, EnsureConnected, w
  <2>2. /\ PipeInv' /\ (Reached => Reached')
        /\ \A q, method : UnderWay(q, method) => UnderWay(q, method)'
        /\ connecting = None => Sent(None, "connect")'
        /\ \A q : Conn(q) # {} => Conn(q)' # {}
        /\ Conn(r)' # {}
    BY <1>1, <1>2, <1>3, <1>p, <2>1, ConnectAgainReaches DEF UnderWay
  <2>3. ASSUME ~garbled, NEW q \in Runs
        PROVE  Kept(q)'
    <3>1. CASE q = r
      BY <2>2, <3>1 DEF Kept
    <3>2. CASE q # r
      BY <1>1, <1>4, <2>2, <2>3, <3>2 DEF Kept, OwedInv
    <3> QED
      BY <3>1, <3>2
  <2>4. ASSUME ~garbled
        PROVE  Reached' /\ ConnectDue'
    BY <2>2, <2>4 DEF OwedInv, ConnectDue, UnderWay
  <2> QED
    BY <1>1, <2>2, <2>3, <2>4 DEF OwedInv
<1> QED
  BY <1>5, <1>6, <1>7

LEMMA AsksOwe ==
  ASSUME PlacesInv, OwedInv, CancelRun \/ Restart \/ Poll
  PROVE  OwedInv'
<1> USE DEF PlacesInv
<1>1. /\ pipe' = pipe /\ pipes' = pipes /\ scheduled' = scheduled /\ replies' = replies
      /\ connecting' = connecting /\ runs' = runs
      /\ garbled' = garbled /\ forgotten' = forgotten
  BY DEF CancelRun, Restart, Poll, plugin, lines
<1>2. \A q, method : Due(q, method)' = Due(q, method)
  BY <1>1 DEF Due
<1>p. PipeInv
  BY DEF OwedInv
<1>3. /\ PipeInv' /\ (Reached => Reached')
      /\ \A q, method : Sent(q, method) => Sent(q, method)'
  <2>1. ASSUME NEW c \in Conts, Calls(<<c>>)
        PROVE  /\ PipeInv' /\ (Reached => Reached')
               /\ \A q, method : Sent(q, method) => Sent(q, method)'
    <3>1. <<c>> \in Seq(Conts)
      BY OneCall
    <3> QED
      BY <1>1, <1>p, <2>1, <3>1, CallsReach
  <2> QED
    BY <1>1, <1>p, <2>1, AsksAre, CallsNothingReaches
<1> QED
  BY <1>1, <1>2, <1>3, OwedStays DEF UnderWay

LEMMA BackgroundOwes ==
  ASSUME OwedInv, Background, garbled' = garbled, forgotten' = forgotten,
         PipeInv', Reached => Reached'
  PROVE  OwedInv'
<1>1. connecting' = connecting /\ runs' = runs
  BY DEF Background
<1>2. \A r, method : UnderWay(r, method)' = UnderWay(r, method)
  BY DEF Background, UnderWay, Sent, Due
<1> QED
  BY <1>1, <1>2, OwedStays

(* Messages become answers on the same pipe, or their pipe is dead.         *)
LEMMA AnsweredReach ==
  ASSUME TypeInv, PipeInv, Background, pipes' = pipes, NEW ms \in SUBSET wire,
         wire' = wire \ ms, replies \subseteq replies',
         \A m \in ms : \E x \in replies' : x.id = m.id,
         \A x \in replies' \ replies : \E m \in ms : x.pipe = m.pipe
  PROVE  PipeInv' /\ (Reached => Reached')
<1>1. PipeInv'
  <2>1. \A x \in replies' : pipes'[x.pipe] \in {"open", "dead"}
    BY DEF PipeInv
  <2> QED
    BY <2>1 DEF PipeInv, Background
<1>2. Reached => Reached'
  BY DEF Reached, Background
<1> QED
  BY <1>1, <1>2

LEMMA ServerOwes == PlacesInv /\ OwedInv /\ Server => OwedInv'
<1> SUFFICES ASSUME PlacesInv, OwedInv, Server
             PROVE  OwedInv'
  OBVIOUS
<1> USE DEF PlacesInv
<1>b. Background
  BY ServerIs DEF ServerMoves
<1>h. garbled' = garbled /\ forgotten' = forgotten
  BY DEF Server, ServeExecute, ServeConnect, ServeStatus, ServeCancel, ServeShutdown, Answers,
         Stops, Crash, Down, Reaped, Starts, history
<1>p. PipeInv
  BY DEF OwedInv
<1>a. ASSUME NEW m, NEW err \in Errors \cup {None}, Answers(m, err)
      PROVE  OwedInv'
  <2>1. /\ Background /\ pipes' = pipes /\ m \in wire /\ wire' = wire \ {m}
        /\ replies' = replies \cup {Reply(m, err)} /\ Reply(m, err).id = m.id
    BY <1>a, AnswersLeave
  <2>2. Reply(m, err).pipe = m.pipe
    BY DEF Reply
  <2>3. PipeInv' /\ (Reached => Reached')
    <3>1. {m} \in SUBSET wire /\ replies \subseteq replies'
      BY <2>1
    <3>2. /\ \A n \in {m} : \E x \in replies' : x.id = n.id
          /\ \A x \in replies' \ replies : \E n \in {m} : x.pipe = n.pipe
      BY <2>1, <2>2
    <3> QED
      BY <1>p, <2>1, <3>1, <3>2, AnsweredReach
  <2> QED
    BY <1>b, <1>h, <2>3, BackgroundOwes
<1>1. ASSUME NEW m \in wire, ServeExecute(m) \/ ServeConnect(m) \/ ServeStatus(m) \/ ServeShutdown(m)
      PROVE  OwedInv'
  <2>1. \E err \in Errors \cup {None} : Answers(m, err)
    BY <1>1 DEF ServeExecute, ServeConnect, ServeStatus, ServeShutdown, Errors
  <2> QED
    BY <2>1, <1>a
<1>2. ASSUME NEW m \in wire, ServeCancel(m)
      PROVE  OwedInv'
  <2>1. PICK hit \in {{}, {x \in wire : x.method = "execute" /\ x.run = m.run}} :
          /\ wire' = wire \ (hit \cup {m})
          /\ replies' = replies \cup {Reply(m, None)} \cup {Reply(x, "cancelled") : x \in hit}
    BY <1>2 DEF ServeCancel
  <2>2. pipes' = pipes
    BY <1>2 DEF ServeCancel, lines
  <2>3. hit \cup {m} \in SUBSET wire /\ replies \subseteq replies'
    BY <2>1
  <2>4. \A x, err : Reply(x, err).id = x.id /\ Reply(x, err).pipe = x.pipe
    BY DEF Reply
  <2>5. \A n \in hit \cup {m} : \E x \in replies' : x.id = n.id
    BY <2>1, <2>4
  <2>6. \A x \in replies' \ replies : \E n \in hit \cup {m} : x.pipe = n.pipe
    BY <2>1, <2>4
  <2> QED
    BY <1>b, <1>h, <1>p, <2>1, <2>2, <2>3, <2>5, <2>6, AnsweredReach, BackgroundOwes
<1>3. CASE Stops \/ Crash
  <2>1. /\ pipes' = [p \in Pipes |-> IF pipes[p] = "open" THEN "dead" ELSE pipes[p]]
        /\ wire' = {} /\ replies' \subseteq replies /\ pipe' = pipe /\ pending' = pending
    BY <1>3 DEF Stops, Crash, Down, calls
  <2>2. \A p \in Pipes : pipes[p] \in {"open", "dead"} => pipes'[p] = "dead"
    BY <2>1
  <2>3. /\ \A m \in wire : m.pipe \in Pipes
        /\ \A x \in replies : x.pipe \in Pipes
        /\ pipe # None => pipe \in Pipes
    BY DEF TypeInv, Messages, Answered
  <2>4. PipeInv'
    BY <1>p, <2>1, <2>2, <2>3 DEF PipeInv
  <2>5. Reached => Reached'
    <3> SUFFICES ASSUME Reached, NEW i \in Ids, pending[i] # None
                 PROVE  \E p \in Pipes : pipes'[p] = "dead"
      BY <2>1 DEF Reached
    <3> QED
      BY <1>p, <2>2, <2>3 DEF PipeInv, Reached
  <2> QED
    BY <1>b, <1>h, <2>4, <2>5, BackgroundOwes
<1>4. CASE Reaped \/ Starts
  <2>1. pipes' = pipes /\ wire' = wire /\ replies' = replies
    BY <1>4 DEF Reaped, Starts, lines
  <2>2. PipeInv' /\ (Reached => Reached')
    BY <1>b, <1>p, <2>1 DEF PipeInv, Reached, Background
  <2> QED
    BY <1>b, <1>h, <2>2, BackgroundOwes
<1> QED
  BY <1>1, <1>2, <1>3, <1>4 DEF Server

LEMMA HalfOwes ==
  ASSUME PlacesInv, OwedInv, NEW x \in replies, ReadHalf(x)
  PROVE  OwedInv'
<1> USE DEF PlacesInv
<1>1. /\ Background /\ pipes' = pipes /\ wire' = wire
      /\ garbled' = garbled /\ forgotten' = forgotten
  BY DEF ReadHalf, Background, calls, plugin
<1>2. /\ replies' = (replies \ {x}) \cup {[x EXCEPT !.half = TRUE]}
      /\ [x EXCEPT !.half = TRUE].id = x.id /\ [x EXCEPT !.half = TRUE].pipe = x.pipe
  BY DEF ReadHalf, TypeInv, Answered
<1>3. PipeInv'
  <2>1. \A y \in replies' : pipes'[y.pipe] \in {"open", "dead"}
    BY <1>1, <1>2 DEF PipeInv, OwedInv
  <2> QED
    BY <1>1, <2>1 DEF PipeInv, OwedInv, Background
<1>4. Reached => Reached'
  BY <1>1, <1>2 DEF Reached, Background
<1> QED
  BY <1>1, <1>3, <1>4, BackgroundOwes

LEMMA ReadOwes ==
  ASSUME PlacesInv, OwedInv, NEW x \in replies, Read(x)
  PROVE  OwedInv'
<1> USE DEF PlacesInv
<1>1. /\ pipe' = pipe /\ pipes' = pipes /\ ensuring' = ensuring /\ connecting' = connecting
      /\ runs' = runs /\ wire' = wire /\ replies' = replies \ {x} /\ forgotten' = forgotten
  BY DEF Read, plugin
<1>2. PipeInv'
  BY <1>1 DEF OwedInv, PipeInv
<1>3. CASE Garbles
  BY <1>2, <1>3 DEF Garbles, OwedInv
<1>4. CASE Delivers(x)
  <2>1. garbled' = garbled
    BY <1>4 DEF Delivers
  <2>2. x.id \in Ids /\ \A i \in Ids : pending'[i] = IF i = x.id THEN None ELSE pending[i]
    BY <1>4 DEF Delivers, TypeInv, Answered
  <2>3. Reached => Reached'
    BY <1>1, <2>2 DEF Reached
  <2>4. CASE pending[x.id] = None
    <3>1. scheduled' = scheduled /\ \A i \in Ids : pending'[i] = pending[i]
      BY <1>4, <2>2, <2>4 DEF Delivers
    <3>2. \A r, method : UnderWay(r, method) => UnderWay(r, method)'
      BY <1>1, <3>1 DEF UnderWay, Sent, Due
    <3> QED
      BY <1>1, <1>2, <2>1, <2>3, <3>2, OwedStays
  <2>5. CASE pending[x.id] # None
    <3>1. /\ Len(scheduled') = Len(scheduled) + 1 /\ Len(scheduled) \in Nat
          /\ \A i \in 1..Len(scheduled) : scheduled'[i] = scheduled[i]
          /\ scheduled'[Len(scheduled) + 1] = [cont |-> pending[x.id], err |-> x.err]
      BY <1>4, <2>5, DeliversMoves
    <3>2. /\ \A i \in 1..Len(scheduled) : i \in 1..Len(scheduled') /\ scheduled'[i] = scheduled[i]
          /\ Len(scheduled) + 1 \in 1..Len(scheduled')
          /\ scheduled'[Len(scheduled) + 1].cont = pending[x.id]
      BY <3>1
    <3>3. \A r, method : Due(r, method) => Due(r, method)'
      BY <3>2 DEF Due
    <3>4. \A r, method : Sent(r, method) => UnderWay(r, method)'
      BY <1>1, <2>2, <3>2 DEF UnderWay, Sent, Due
    <3> QED
      BY <1>1, <1>2, <2>1, <2>3, <3>3, <3>4, OwedStays DEF UnderWay
  <2> QED
    BY <2>4, <2>5
<1> QED
  BY <1>3, <1>4 DEF Read

(* A pipe closed takes all that is on it along, and nobody waits then.      *)
LEMMA ClosesPipes ==
  ASSUME TypeInv, PipeInv, NEW ps, Closes(ps)
  PROVE  PipeInv' /\ Reached'
<1>1. /\ pipes' = [p \in Pipes |-> IF p \in ps THEN "closed" ELSE pipes[p]]
      /\ pipe' = None
      /\ wire' = {m \in wire : m.pipe \notin ps}
      /\ replies' = {r \in replies : r.pipe \notin ps}
      /\ \A i \in Ids : pending'[i] = None
  BY DEF Closes
<1>2. /\ \A m \in wire' : m.pipe \in Pipes /\ m.pipe \notin ps /\ m \in wire
      /\ \A x \in replies' : x.pipe \in Pipes /\ x.pipe \notin ps /\ x \in replies
  BY <1>1 DEF TypeInv, Messages, Answered
<1>3. PipeInv'
  BY <1>1, <1>2 DEF PipeInv
<1> QED
  BY <1>1, <1>3 DEF Reached

LEMMA EofOwes ==
  ASSUME PlacesInv, OwedInv, NEW p \in Pipes, Eof(p)
  PROVE  OwedInv'
<1> USE DEF PlacesInv
<1>1. ensuring' = ensuring /\ connecting' = connecting /\ runs' = runs
  BY EofFails
<1>2. garbled' = garbled /\ forgotten' = forgotten
  BY DEF Eof, history
<1>3. PipeInv' /\ Reached'
  BY ClosesPipes DEF Eof, OwedInv
<1>4. PICK n \in Nat : \E order \in [1..n -> Waiting] :
               /\ \A i, j \in 1..n : i # j => order[i] # order[j]
               /\ \A i \in Waiting : \E j \in 1..n : order[j] = i
               /\ Len(scheduled) \in Nat /\ Len(scheduled') = Len(scheduled) + n
               /\ \A i \in 1..Len(scheduled) : scheduled'[i] = scheduled[i]
               /\ \A i \in 1..n : /\ scheduled'[Len(scheduled) + i].cont = pending[order[i]]
                                  /\ scheduled'[Len(scheduled) + i].err = "closed"
  BY EofFails
<1>5. PICK order \in [1..n -> Waiting] :
               /\ \A i \in Waiting : \E j \in 1..n : order[j] = i
               /\ Len(scheduled) \in Nat /\ Len(scheduled') = Len(scheduled) + n
               /\ \A i \in 1..Len(scheduled) : scheduled'[i] = scheduled[i]
               /\ \A i \in 1..n : scheduled'[Len(scheduled) + i].cont = pending[order[i]]
  BY <1>4
<1>6. /\ \A i \in 1..Len(scheduled) : i \in 1..Len(scheduled')
      /\ \A i \in 1..n : Len(scheduled) + i \in 1..Len(scheduled')
  BY <1>5
<1>7. \A r, method : Due(r, method) => Due(r, method)'
  BY <1>5, <1>6 DEF Due
<1>8. ASSUME NEW r, NEW method, NEW i \in Ids, pending[i] # None, Is(pending[i], r, method)
      PROVE  Due(r, method)'
  <2>1. PICK j \in 1..n : order[j] = i
    BY <1>5, <1>8 DEF Waiting
  <2>2. Len(scheduled) + j \in 1..Len(scheduled')
    BY <1>6
  <2>3. scheduled'[Len(scheduled) + j].cont = pending[i]
    BY <1>5, <2>1
  <2>4. Is(scheduled'[Len(scheduled) + j].cont, r, method)
    BY <1>8, <2>3
  <2> QED
    BY <2>2, <2>4 DEF Due
<1>9. \A r, method : UnderWay(r, method) => UnderWay(r, method)'
  BY <1>1, <1>7, <1>8 DEF UnderWay, Sent
<1> QED
  BY <1>1, <1>2, <1>3, <1>9, OwedStays

(* A restart forgets those whose callbacks it throws away.                  *)
LEMMA RestartDoneOwes ==
  ASSUME PlacesInv, OwedInv, RestartDone
  PROVE  OwedInv'
<1> USE DEF PlacesInv
<1>1. /\ scheduled # <<>> /\ scheduled' = Tail(scheduled)
      /\ ensuring' = ensuring /\ connecting' = None /\ runs' = runs
  BY RestartDoneLeaves
<1>2. garbled' = garbled /\ Head(scheduled).cont.method = "shutdown"
  BY DEF RestartDone
<1>3. forgotten' = forgotten \cup {pending[i].run : i \in Waiting}
                     \cup (IF connecting = None THEN {} ELSE {w.run : w \in ToSet(connecting)})
  BY DEF RestartDone
<1>4. PipeInv' /\ Reached'
  BY ClosesPipes DEF RestartDone, OwedInv
<1>5. ASSUME ~garbled, NEW r \in Runs
      PROVE  Kept(r)'
  <2> SUFFICES ASSUME runs[r] = "waits", r \notin forgotten'
               PROVE  UnderWay(r, "execute")'
    BY <1>1 DEF Kept
  <2>1. UnderWay(r, "execute") \/ Conn(r) # {}
    BY <1>3, <1>5 DEF OwedInv, Kept
  <2>2. Conn(r) = {}
    BY <1>3 DEF Conn, ToSet
  <2>3. Due(r, "execute") => Due(r, "execute")'
    BY <1>1, <1>2, PoppedDue DEF Is
  <2>4. \A i \in Ids : pending[i] # None => pending[i].run # r
    BY <1>3 DEF Waiting
  <2> QED
    BY <1>1, <2>1, <2>2, <2>3, <2>4 DEF UnderWay, Sent, Is
<1> QED
  BY <1>1, <1>2, <1>4, <1>5 DEF OwedInv, ConnectDue

LEMMA PipeConnectedOwes ==
  ASSUME PlacesInv, OwedInv, NEW e \in ensuring, PipeConnected(e)
  PROVE  OwedInv'
<1> USE DEF PlacesInv
<1>1. /\ ensuring' = ensuring \ {e} /\ scheduled' = scheduled /\ replies' = replies
      /\ connecting' = connecting /\ runs' = runs
      /\ garbled' = garbled /\ forgotten' = forgotten
  BY DEF PipeConnected, plugin, history
<1>2. PICK p \in Pipes : /\ pipes[p] = "unused"
                         /\ pipes' = [pipes EXCEPT ![p] = "open"]
                         /\ pipe' = p /\ Sends(p, <<e.cont>>)
  BY DEF PipeConnected
<1>3. e.cont \in Conts
  BY DEF TypeInv
<1>4. <<e.cont>> \in Seq(Conts) /\ 1 \in 1..Len(<<e.cont>>) /\ <<e.cont>>[1] = e.cont
  BY <1>3
<1>5. PipeInv' /\ (Reached => Reached')
  <2>1. /\ pipes'[p] = "open" /\ pipes[p] # "dead"
        /\ \A q \in Pipes \ {p} : pipes'[q] = pipes[q]
    BY <1>2 DEF TypeInv
  <2> QED
    BY <1>1, <1>2, <1>4, <2>1, SendsReach DEF OwedInv
<1>6. \A r, method : UnderWay(r, method) => UnderWay(r, method)'
  <2>1. /\ \A i \in Ids : i <= nextId => pending'[i] = pending[i]
        /\ nextId + 1 \in Ids /\ pending'[nextId + 1] = e.cont
    BY <1>2, <1>4, SendsLeave
  <2>2. \A i \in Ids : pending[i] # None => pending'[i] = pending[i]
    BY <2>1 DEF LinkInv
  <2>3. e.cont # None
    BY <1>3, PluginClientAssumption
  <2> QED
    BY <1>1, <2>1, <2>2, <2>3 DEF UnderWay, Sent, Due
<1> QED
  BY <1>1, <1>5, <1>6, OwedStays

LEMMA EnsureOwes ==
  ASSUME PlacesInv, OwedInv, NEW e \in ensuring, Refused(e) \/ Unreachable(e)
  PROVE  OwedInv'
<1> USE DEF PlacesInv
<1>1. /\ pipe' = pipe /\ pipes' = pipes /\ pending' = pending /\ scheduled' = scheduled
      /\ wire' = wire /\ replies' = replies /\ garbled' = garbled /\ forgotten' = forgotten
  BY DEF Refused, Unreachable, history, lines
<1>2. PipeInv' /\ (Reached => Reached')
  BY <1>1 DEF OwedInv, PipeInv, Reached
<1>3. CASE Refused(e)
  <2>1. /\ ensuring' = (ensuring \ {e}) \cup {Ensure(e.cont, e.tries + 1, e.n)}
        /\ connecting' = connecting /\ runs' = runs
    BY <1>3 DEF Refused, plugin
  <2>2. Ensure(e.cont, e.tries + 1, e.n).cont = e.cont
    BY DEF Ensure
  <2>3. \A f \in ensuring : \E g \in ensuring' : g.cont = f.cont
    BY <2>1, <2>2
  <2>4. \A r, method : UnderWay(r, method) => UnderWay(r, method)'
    BY <1>1, <2>3 DEF UnderWay, Sent, Due
  <2> QED
    BY <1>1, <1>2, <2>1, <2>4, OwedStays
<1>4. CASE Unreachable(e)
  <2>1. /\ ensuring' = ensuring \ {e}
        /\ \/ /\ e.cont.method = "execute" /\ connecting' = connecting
              /\ runs' = [runs EXCEPT ![e.cont.run] = "failed"]
           \/ e.cont.method = "connect" /\ WaitersFail
           \/ /\ e.cont.method \notin {"execute", "connect"}
              /\ connecting' = connecting /\ runs' = runs
    BY <1>4, UnreachableLeaves
  <2>2. \A r, method : UnderWay(r, method) => Is(e.cont, r, method) \/ UnderWay(r, method)'
    BY <1>1, <2>1 DEF UnderWay, Sent, Due
  <2>3. CASE /\ e.cont.method = "execute" /\ connecting' = connecting
             /\ runs' = [runs EXCEPT ![e.cont.run] = "failed"]
    <3>1. ConnectDue => ConnectDue'
      BY <2>2, <2>3 DEF ConnectDue, Is
    <3>2. ASSUME NEW r \in Runs, Kept(r)
          PROVE  Kept(r)'
      <4>1. CASE r = e.cont.run
        BY <2>3, <4>1 DEF Kept, TypeInv
      <4>2. CASE r # e.cont.run
        BY <1>1, <2>2, <2>3, <3>2, <4>2 DEF Kept, TypeInv, Is, Conn
      <4> QED
        BY <4>1, <4>2
    <3> QED
      BY <1>1, <1>2, <3>1, <3>2 DEF OwedInv
  <2>4. CASE e.cont.method = "connect" /\ WaitersFail
    <3>1. /\ connecting' = None
          /\ \A r \in Runs : /\ Conn(r) = {} => runs'[r] = runs[r]
                             /\ Conn(r) # {} => runs'[r] = "failed"
      BY <2>4, WaitersFailLeave
    <3>2. \A r \in Runs : Kept(r) => Kept(r)'
      BY <1>1, <2>2, <2>4, <3>1 DEF Kept, Is
    <3> QED
      BY <1>1, <1>2, <3>1, <3>2 DEF OwedInv, ConnectDue
  <2>5. CASE /\ e.cont.method \notin {"execute", "connect"}
             /\ connecting' = connecting /\ runs' = runs
    BY <1>1, <1>2, <2>2, <2>5, OwedStays DEF Is
  <2> QED
    BY <2>1, <2>3, <2>4, <2>5
<1> QED
  BY <1>3, <1>4

LEMMA CallbackOwes ==
  ASSUME PlacesInv, OwedInv, Callback
  PROVE  OwedInv'
<1> USE DEF PlacesInv
<1>0. PICK c, err : c = Head(scheduled).cont /\ err = Head(scheduled).err
  OBVIOUS
<1>1. /\ scheduled # <<>> /\ scheduled' = Tail(scheduled)
      /\ pipe' = pipe /\ pipes' = pipes /\ replies' = replies
      /\ garbled' = garbled /\ forgotten' = forgotten
  BY DEF Callback, lines
<1>2. \A r, method : Due(r, method) => Due(r, method)' \/ Is(c, r, method)
  BY <1>0, <1>1, PoppedDue
<1>3. c \in Conts
  BY <1>0, <1>1, Popped DEF Turns
<1>p. PipeInv
  BY DEF OwedInv
<1>n. ASSUME CallsNothing
      PROVE  /\ PipeInv' /\ (Reached => Reached')
             /\ \A r, method : UnderWay(r, method) => UnderWay(r, method)' \/ Is(c, r, method)
  BY <1>1, <1>2, <1>n, <1>p, CallsNothingReaches DEF UnderWay
<1>4. CASE Ended(c)
  <2>1. c.method = "execute" /\ CallsNothing /\ connecting' = connecting
    BY <1>4 DEF Ended
  <2>2. PICK how \in {"done", "failed"} : runs' = [runs EXCEPT ![c.run] = how]
    BY <1>4 DEF Ended
  <2>3. ConnectDue => ConnectDue'
    BY <1>n, <2>1 DEF ConnectDue, Is
  <2>4. ASSUME NEW r \in Runs, Kept(r)
        PROVE  Kept(r)'
    <3>1. CASE r = c.run
      BY <2>2, <3>1 DEF Kept, TypeInv
    <3>2. CASE r # c.run
      <4>1. runs'[r] = runs[r] /\ Conn(r)' = Conn(r)
        BY <2>1, <2>2, <3>2 DEF TypeInv, Conn
      <4> QED
        BY <1>1, <1>n, <2>1, <2>4, <3>2, <4>1 DEF Kept, Is
    <3> QED
      BY <3>1, <3>2
  <2> QED
    BY <1>1, <1>n, <2>1, <2>3, <2>4 DEF OwedInv
<1>5. ASSUME NEW w, Requeued(c, err, w)
      PROVE  OwedInv'
  <2>1. /\ c.method = "execute" /\ w \in Waiters /\ w.run = c.run
        /\ ConnectAgain(w) /\ runs' = runs
    BY <1>5 DEF Requeued
  <2>2. /\ PipeInv' /\ (Reached => Reached')
        /\ \A r, method : Sent(r, method) => Sent(r, method)'
        /\ connecting = None => Sent(None, "connect")'
        /\ \A r : Conn(r) # {} => Conn(r)' # {}
        /\ Conn(w.run)' # {}
    BY <1>1, <1>p, <2>1, ConnectAgainReaches
  <2>3. \A r, method : UnderWay(r, method) => UnderWay(r, method)' \/ Is(c, r, method)
    BY <1>2, <2>2 DEF UnderWay
  <2>4. ConnectDue => ConnectDue'
    BY <2>1, <2>2, <2>3 DEF ConnectDue, UnderWay, Is
  <2>5. \A r \in Runs : Kept(r) => Kept(r)'
    BY <1>1, <2>1, <2>2, <2>3 DEF Kept, Is
  <2> QED
    BY <1>1, <2>2, <2>4, <2>5 DEF OwedInv
<1>6. CASE c.method = "connect" /\ ConnectDone
  <2>1. connecting' = None /\ runs' = runs
    BY <1>6 DEF ConnectDone
  <2>2. CASE connecting = None
    <3>1. CallsNothing
      BY <1>6, <2>2 DEF ConnectDone
    <3>2. \A r \in Runs : Kept(r) => Kept(r)'
      BY <1>1, <1>6, <1>n, <2>1, <2>2, <3>1 DEF Kept, Is, Conn
    <3> QED
      BY <1>1, <1>n, <2>1, <3>1, <3>2 DEF OwedInv, ConnectDue
  <2>3. CASE connecting # None
    <3>1. Calls(Executes(connecting)) /\ connecting \in Seq(Waiters)
      BY <1>6, <2>3 DEF ConnectDone, Proceed, Executes, TypeInv
    <3>2. /\ Executes(connecting) \in Seq(Conts)
          /\ \A r \in Runs : Asked(Executes(connecting), r)
                               = {i \in 1..Len(connecting) : connecting[i].run = r}
      BY <3>1, ExecutesAre
    <3>3. /\ PipeInv' /\ (Reached => Reached')
          /\ \A r, method : Sent(r, method) => Sent(r, method)'
          /\ \A k \in 1..Len(Executes(connecting)) : \A r, method :
                Is(Executes(connecting)[k], r, method) => Sent(r, method)'
      BY <1>1, <1>p, <3>1, <3>2, CallsReach
    <3>4. ASSUME NEW r \in Runs, Conn(r) # {}
          PROVE  Sent(r, "execute")'
      <4>1. DOMAIN connecting = 1..Len(connecting)
        BY <3>1, LenProperties
      <4>2. PICK i \in 1..Len(connecting) : connecting[i].run = r
        BY <3>4, <4>1 DEF Conn
      <4>3. i \in Asked(Executes(connecting), r)
        BY <3>2, <4>2
      <4>4. i \in 1..Len(Executes(connecting)) /\ Is(Executes(connecting)[i], r, "execute")
        BY <4>3 DEF Asked, IsCall, Is
      <4> QED
        BY <3>3, <4>4
    <3>5. \A r \in Runs : UnderWay(r, "execute") => UnderWay(r, "execute")'
      BY <1>2, <1>6, <3>3 DEF UnderWay, Is
    <3>6. \A r \in Runs : Kept(r) => Kept(r)'
      BY <1>1, <2>1, <3>4, <3>5 DEF Kept, UnderWay
    <3> QED
      BY <1>1, <2>1, <3>3, <3>6 DEF OwedInv, ConnectDue
  <2> QED
    BY <2>2, <2>3
<1>7. CASE c.method = "connect" /\ ConnectFails
  <2>1. WaitersFail /\ CallsNothing
    BY <1>7 DEF ConnectFails
  <2>2. /\ connecting' = None
        /\ \A r \in Runs : /\ Conn(r) = {} => runs'[r] = runs[r]
                           /\ Conn(r) # {} => runs'[r] = "failed"
    BY <2>1, WaitersFailLeave
  <2>3. \A r \in Runs : Kept(r) => Kept(r)'
    BY <1>1, <1>7, <1>n, <2>1, <2>2 DEF Kept, Is
  <2> QED
    BY <1>1, <1>n, <2>1, <2>2, <2>3 DEF OwedInv, ConnectDue
<1>8. CASE Ignored(c)
  <2>1. /\ CallsNothing /\ connecting' = connecting /\ runs' = runs
        /\ c.method \in {"status", "cancel"}
    BY <1>8 DEF Ignored
  <2>2. /\ PipeInv' /\ (Reached => Reached')
        /\ UnderWay(None, "connect") => UnderWay(None, "connect")'
        /\ \A r \in Runs : UnderWay(r, "execute") => UnderWay(r, "execute")'
    BY <1>n, <2>1 DEF Is
  <2> QED
    BY <1>1, <2>1, <2>2, OwedStays
<1> QED
  BY <1>0, <1>4, <1>5, <1>6, <1>7, <1>8, CallbackIs

LEMMA StepOwes == PlacesInv /\ OwedInv /\ [Next]_vars => OwedInv'
<1> SUFFICES ASSUME PlacesInv, OwedInv, [Next]_vars
             PROVE  OwedInv'
  OBVIOUS
<1>1. CASE \E r \in Runs : Run(r)
  BY <1>1, RunOwes
<1>2. CASE CancelRun \/ Restart \/ Poll
  BY <1>2, AsksOwe
<1>3. CASE Server
  BY <1>3, ServerOwes
<1>4. CASE Reads
  BY <1>4, ReadOwes, HalfOwes, EofOwes DEF Reads
<1>5. CASE Callback
  BY <1>5, CallbackOwes
<1>6. CASE RestartDone
  BY <1>6, RestartDoneOwes
<1>7. CASE Connecting
  BY <1>7, PipeConnectedOwes, EnsureOwes DEF Connecting
<1>8. CASE UNCHANGED vars
  <2>1. Background /\ garbled' = garbled /\ forgotten' = forgotten
    BY <1>8 DEF vars, lines, calls, plugin, history, events, Background
  <2>2. PipeInv' /\ (Reached => Reached')
    BY <1>8 DEF vars, lines, calls, OwedInv, PipeInv, Reached
  <2> QED
    BY <2>1, <2>2, BackgroundOwes
<1> QED
  BY <1>1, <1>2, <1>3, <1>4, <1>5, <1>6, <1>7, <1>8 DEF Next

(* A statement the user waits for is owed an answer, or the connect it      *)
(* waits for is: nothing the server and its pipes do makes it hang, but     *)
(* what :TradarRestart throws away and lines that ran into each other.      *)
THEOREM AnswersAreOwed == Spec => []WaitersAreOwed
<1>1. Init => OwedInv
  <2> SUFFICES ASSUME Init
               PROVE  OwedInv
    OBVIOUS
  <2>1. PipeInv
    BY DEF Init, PipeInv
  <2>2. Reached /\ ConnectDue
    BY DEF Init, Reached, ConnectDue
  <2>3. \A r \in Runs : runs[r] # "waits"
    BY DEF Init
  <2> QED
    BY <2>1, <2>2, <2>3 DEF OwedInv, Kept
<1>2. PlacesInv /\ OwedInv /\ [Next]_vars => PlacesInv' /\ OwedInv'
  BY StepPlaces, StepOwes
<1>3. PlacesInv /\ OwedInv => WaitersAreOwed
  BY OwedInvOwes DEF PlacesInv
<1> QED
  BY <1>1, <1>2, <1>3, InitPlaces, PTL DEF Spec
=============================================================================
