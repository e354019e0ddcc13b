------------------------------- MODULE Cursors -------------------------------
(***************************************************************************)
(* The result cursors of tradar-server: the fields `cursors`,              *)
(* `cursor_order`, `cursor_bytes` and `next_cursor` of `State` (server.rs) *)
(* and the handlers that write them (server/query.rs).  Each handler does  *)
(* its work in one critical section, after the database answered, so the   *)
(* executes of all clients arrive here in any order.  A stored result is   *)
(* what it weighs; `fetch` reads and changes nothing.                      *)
(***************************************************************************)
EXTENDS Naturals, Sequences, SequencesExt, Lists

CONSTANTS
    MaxCursors,  \* MAX_CURSORS
    MaxBytes,    \* MAX_CURSOR_BYTES
    Sizes,       \* what a result can weigh
    MaxResults   \* how many results are stored (a bound)

ASSUME CursorsAssumption ==
    /\ MaxCursors \in Nat \ {0}
    /\ MaxBytes \in Nat
    /\ Sizes \subseteq Nat
    /\ MaxResults \in Nat

VARIABLES
    cursors,  \* the ids under which a result is held (`State::cursors`)
    order,    \* the ids, oldest first (`cursor_order`)
    bytes,    \* id -> what its result weighs (`cursor_bytes`)
    next      \* the last id given (`next_cursor`)

vars == <<cursors, order, bytes, next>>

Ids == 1..MaxResults

StoreTypeOK ==
    /\ cursors \subseteq Ids
    /\ order \in Seq(Ids)
    /\ DOMAIN bytes \subseteq Ids
    /\ \A c \in DOMAIN bytes : bytes[c] \in Sizes
    /\ next \in 0..MaxResults

StoreInit ==
    /\ cursors = {}
    /\ order = <<>>
    /\ bytes = <<>>
    /\ next = 0

-----------------------------------------------------------------------------
Oldest(o, k) == ToSet(SubSeq(o, 1, k))

(* `held` once the k oldest of o have been popped.                          *)
HeldAfter(weight, o, k) == SumFunctionOnSet(weight, DOMAIN weight \ Oldest(o, k))

(* Mutant: the loop stops at the number of cursors.                         *)
MustEvictByCount(weight, o, k) == Len(o) - k > MaxCursors

(* Mutant: a result at the limit is one too many.                           *)
MustEvictAtLimit(weight, o, k) ==
    \/ Len(o) - k > MaxCursors
    \/ HeldAfter(weight, o, k) >= MaxBytes /\ Len(o) - k > 1

(* The condition of the eviction loop after k rounds.                       *)
MustEvict(weight, o, k) ==
    \/ Len(o) - k > MaxCursors
    \/ HeldAfter(weight, o, k) > MaxBytes /\ Len(o) - k > 1

(* How many rounds the loop makes: it goes on while the condition holds.    *)
Rounds(weight, o) ==
    CHOOSE k \in 0..Len(o) :
        /\ ~MustEvict(weight, o, k)
        /\ \A j \in 0..(k - 1) : MustEvict(weight, o, j)

(* Mutant: the id of the first free place is given again.                   *)
StoreReused(size) ==
    LET id     == Cardinality(cursors) + 1
        weight == [c \in DOMAIN bytes \cup {id} |-> IF c = id THEN size ELSE bytes[c]]
        o      == Append(order, id)
        k      == Rounds(weight, o)
    IN
    /\ next < MaxResults
    /\ next' = next + 1
    /\ order' = SubSeq(o, k + 1, Len(o))
    /\ cursors' = (cursors \cup {id}) \ Oldest(o, k)
    /\ bytes' = [c \in DOMAIN weight \ Oldest(o, k) |-> weight[c]]

(* `execute` read rows: they are stored under a fresh id.                   *)
Store(size) ==
    LET id     == next + 1
        weight == [c \in DOMAIN bytes \cup {id} |-> IF c = id THEN size ELSE bytes[c]]
        o      == Append(order, id)
        k      == Rounds(weight, o)
    IN
    /\ next < MaxResults
    /\ next' = id
    /\ order' = SubSeq(o, k + 1, Len(o))
    /\ cursors' = (cursors \cup {id}) \ Oldest(o, k)
    /\ bytes' = [c \in DOMAIN weight \ Oldest(o, k) |-> weight[c]]

(* `cursor.close`, of any id, held or not.                                  *)
Close(c) ==
    /\ order' = Kept(order, {i \in DOMAIN order : order[i] # c})
    /\ bytes' = [x \in DOMAIN bytes \ {c} |-> bytes[x]]
    /\ cursors' = cursors \ {c}
    /\ UNCHANGED next

StoreNext == (\E size \in Sizes : Store(size)) \/ (\E c \in Ids : Close(c))

StoreSpec == StoreInit /\ [][StoreNext]_vars

-----------------------------------------------------------------------------
(* Properties *)

(* The three containers name the same cursors, each once and in the order   *)
(* they were given: eviction always finds the result it pops, and nothing   *)
(* is held that neither eviction nor `cursor.close` can reach.  And what is *)
(* held stays within both limits, however many executes finish: at most     *)
(* MAX_CURSORS results and MAX_CURSOR_BYTES, unless one result alone weighs *)
(* more.                                                                    *)
StoreConsistent ==
    /\ ToSet(order) = cursors
    /\ DOMAIN bytes = cursors
    /\ \A i, j \in DOMAIN order : i < j => order[i] < order[j]

MemoryBounded ==
    /\ Len(order) <= MaxCursors
    /\ Len(order) > 1 => SumFunctionOnSet(bytes, ToSet(order)) <= MaxBytes

StoreIsSound == StoreTypeOK /\ StoreConsistent /\ MemoryBounded

(* An execute evicts the oldest results and no more of them than the limits *)
(* call for; its own result is always there to be fetched.                  *)
EvictsOnlyWhatItMust ==
    [][next' > next =>
          LET all  == Append(order, next')
              lost == Len(all) - Len(order')
              size == [c \in ToSet(all) |-> IF c = next' THEN bytes'[c] ELSE bytes[c]]
          IN /\ next' \in cursors'
             /\ IsSuffix(order', all)
             /\ lost > 0 =>
                   LET oneMore == SubSeq(all, lost, Len(all))
                   IN \/ Len(oneMore) > MaxCursors
                      \/ SumFunctionOnSet(size, ToSet(oneMore)) > MaxBytes]_vars

(* An id a client still holds never comes to name another result: once a    *)
(* cursor is gone, a `fetch` of it is told so for ever.                     *)
GoneStaysGone ==
    [][\A c \in 1..next : c \notin cursors => c \notin cursors']_vars
=============================================================================
