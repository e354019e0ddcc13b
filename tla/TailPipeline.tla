---------------------------- MODULE TailPipeline ----------------------------
(***************************************************************************)
(* One running tail (`start_tail` in socket.rs and kafka.rs): a reader     *)
(* task, a ring buffer, a Notify, a forwarder task, and the outbox and     *)
(* writer task of the client's socket (transport.rs).                      *)
(*                                                                         *)
(* Items are the numbers 1, 2, 3 ... in the order the peer sends them; the *)
(* last may be the notification that the peer closed or failed.  The tasks *)
(* run on worker threads (`tokio::main`): only the buffer's lock region and *)
(* the outbox are atomic.                                                   *)
(***************************************************************************)
EXTENDS Naturals, Sequences, SequencesExt

CONSTANTS
    Cap,       \* MAX_BUFFERED_MESSAGES
    MaxItems   \* how many items the peer sends (a bound)

ASSUME TailAssumption ==
    /\ Cap \in Nat \ {0}
    /\ MaxItems \in Nat

VARIABLES
    read,     \* how many items the reader has taken from the peer
    reader,   \* "reading", "got" or "gotEnd" (about to push it), "ended"
    buf,      \* the ring buffer
    permit,   \* the Notify holds a permit
    fwd,      \* the forwarder: "woken", "draining", "arming", "pushing",
              \* "waiting", "ended"
    batch,    \* what it drained and has not pushed yet
    stop,     \* `tail.stop`: "no", "asked", "replied"
    lines,    \* every line ever queued on the client's outbox
    written   \* how many of them the writer has taken

tailVars == <<read, reader, buf, permit, fwd, batch, stop, lines, written>>

StopReply == 0   \* the line that answers `tail.stop`; items are positive

TypeOK ==
    /\ read \in 0..MaxItems
    /\ reader \in {"reading", "got", "gotEnd", "ended"}
    /\ buf \in Seq(1..MaxItems)
    /\ permit \in BOOLEAN
    /\ fwd \in {"woken", "draining", "arming", "pushing", "waiting", "ended"}
    /\ batch \in Seq(1..MaxItems)
    /\ stop \in {"no", "asked", "replied"}
    /\ lines \in Seq(0..MaxItems)
    /\ written \in 0..Len(lines)

Init ==
    /\ read = 0
    /\ reader = "reading"
    /\ buf = <<>>
    /\ permit = FALSE
    /\ fwd = "woken"
    /\ batch = <<>>
    /\ stop = "no"
    /\ lines = <<>>
    /\ written = 0

-----------------------------------------------------------------------------
(* Mutant: a full ring refuses the new item.                                *)
NewestRefused(s) == IF Len(s) > Cap THEN SubSeq(s, 1, Cap) ELSE s

(* The newest Cap items of a sequence.                                      *)
Newest(s) == IF Len(s) > Cap THEN SubSeq(s, Len(s) - Cap + 1, Len(s)) ELSE s

-----------------------------------------------------------------------------
(* The reader *)

ReadChunk ==
    /\ reader = "reading"
    /\ read < MaxItems
    /\ read' = read + 1
    /\ reader' \in {"got", "gotEnd"}
    /\ UNCHANGED <<buf, permit, fwd, batch, stop, lines, written>>

(* Mutant: `notify_waiters`, which stores no permit.                        *)
PushChunkUnstored ==
    /\ reader \in {"got", "gotEnd"}
    /\ buf' = Newest(Append(buf, read))
    /\ permit' = (permit \/ fwd = "waiting")
    /\ reader' = IF reader = "gotEnd" \/ stop # "no" THEN "ended" ELSE "reading"
    /\ UNCHANGED <<read, fwd, batch, stop, lines, written>>

(* Mutant: a reader that no abort ends.                                     *)
PushChunkDetached ==
    /\ reader \in {"got", "gotEnd"}
    /\ buf' = Newest(Append(buf, read))
    /\ permit' = TRUE
    /\ reader' = IF reader = "gotEnd" THEN "ended" ELSE "reading"
    /\ UNCHANGED <<read, fwd, batch, stop, lines, written>>

(* push_notification: back of the ring, oldest dropped, `notify_one`.  The  *)
(* reader returns after the closing item, and an abort lands at its next    *)
(* await.                                                                   *)
PushChunk ==
    /\ reader \in {"got", "gotEnd"}
    /\ buf' = Newest(Append(buf, read))
    /\ permit' = TRUE
    /\ reader' = IF reader = "gotEnd" \/ stop # "no" THEN "ended" ELSE "reading"
    /\ UNCHANGED <<read, fwd, batch, stop, lines, written>>

-----------------------------------------------------------------------------
(* The forwarder *)

Poll ==
    /\ fwd = "woken"
    /\ fwd' = "draining"
    /\ UNCHANGED <<read, reader, buf, permit, batch, stop, lines, written>>

Drain ==
    /\ fwd = "draining"
    /\ batch' = buf
    /\ buf' = <<>>
    /\ fwd' = IF buf = <<>> THEN "arming" ELSE "pushing"
    /\ UNCHANGED <<read, reader, permit, stop, lines, written>>

(* `ready.notified().await`: a stored permit is consumed at once.  With an  *)
(* abort pending the task goes no further than this await.                  *)
Arm ==
    /\ fwd = "arming"
    /\ fwd' = IF permit THEN "draining" ELSE IF stop = "no" THEN "waiting" ELSE "ended"
    /\ permit' = FALSE
    /\ UNCHANGED <<read, reader, buf, batch, stop, lines, written>>

Wake ==
    /\ fwd = "waiting" /\ permit
    /\ fwd' = "woken"
    /\ permit' = FALSE
    /\ UNCHANGED <<read, reader, buf, batch, stop, lines, written>>

PushOne ==
    /\ fwd = "pushing"
    /\ lines' = Append(lines, Head(batch))
    /\ batch' = Tail(batch)
    /\ fwd' = IF Tail(batch) = <<>> THEN "draining" ELSE "pushing"
    /\ UNCHANGED <<read, reader, buf, permit, stop, written>>

-----------------------------------------------------------------------------
(* `tail.stop` and the writer *)

(* Aborts both tasks: one parked at an await is gone, one being polled goes *)
(* on to its next await.                                                    *)
StopTail ==
    /\ stop = "no"
    /\ stop' = "asked"
    /\ reader' = IF reader = "reading" THEN "ended" ELSE reader
    /\ fwd' = IF fwd \in {"woken", "waiting"} THEN "ended" ELSE fwd
    /\ UNCHANGED <<read, buf, permit, batch, lines, written>>

ReplyStopped ==
    /\ stop = "asked"
    /\ stop' = "replied"
    /\ lines' = Append(lines, StopReply)
    /\ UNCHANGED <<read, reader, buf, permit, fwd, batch, written>>

(* The writer takes the next line when the socket took the one before.      *)
WriteLine ==
    /\ written < Len(lines)
    /\ written' = written + 1
    /\ UNCHANGED <<read, reader, buf, permit, fwd, batch, stop, lines>>

-----------------------------------------------------------------------------
Forward == Poll \/ Drain \/ Arm \/ Wake \/ PushOne

Next == ReadChunk \/ PushChunk \/ Forward \/ StopTail \/ ReplyStopped \/ WriteLine

Spec == Init /\ [][Next]_tailVars

(* The runtime polls a task that is ready, and code between two awaits runs *)
(* on.  Nothing is assumed of the peer or of the client's reading.          *)
Fairness == WF_tailVars(Forward) /\ WF_tailVars(PushChunk)

FairSpec == Spec /\ Fairness

-----------------------------------------------------------------------------
(* Properties *)

(* Where the answer to `tail.stop` is among the lines s, and s without it.  *)
HasReply(s) == \E i \in DOMAIN s : s[i] = StopReply
ReplyAt(s)  == CHOOSE i \in DOMAIN s : s[i] = StopReply

Items(s) == IF HasReply(s) THEN RemoveAt(s, ReplyAt(s)) ELSE s

InSeq(s) == {s[i] : i \in DOMAIN s}

(* A tail is a lossy feed of what the reader pushed: in order, at most once, *)
(* the newest item never lost, and as long as nobody stops the tail whatever *)
(* is buffered reaches the client's outbox, the closing item included.       *)
Feed == INSTANCE LossyFeed WITH
    produced <- IF reader \in {"got", "gotEnd"} THEN read - 1 ELSE read,
    pending <- InSeq(batch) \cup InSeq(buf),
    delivered <- Items(lines),
    stopped <- stop # "no"

ImplementsFeed == Feed!Spec

(* What waits for a forwarder on its way is bounded by the ring, however    *)
(* fast the peer sends.                                                     *)
RingBounded == Len(buf) <= Cap /\ Len(batch) <= Cap

(* A forwarder that waits has been told of everything in the ring: no push  *)
(* falls between its empty drain and its wait.                              *)
NoLostWakeup == fwd = "waiting" /\ buf # <<>> => permit

(* What the aborted tasks still deliver after the reply is what they were   *)
(* already carrying: one batch, one ring and one chunk at most.             *)
AfterStop == IF HasReply(lines) THEN Len(lines) - ReplyAt(lines) ELSE 0

StragglersBounded == AfterStop <= 2 * Cap + 1
=============================================================================
