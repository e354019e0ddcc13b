---------------------------- MODULE QueryEditor ----------------------------
(***************************************************************************)
(* The modal editor of the query buffer                                    *)
(* (crates/tradar-query-workbench/src/components/query_editor.rs): its     *)
(* text, cursor, modes, operators, register, and the two stacks of undo.   *)
(* An action is a key, or what the screen around it does to it; `vim` is   *)
(* the `[editor] vim-mode` of the configuration.                           *)
(*                                                                         *)
(* Rows count from 1, columns from 0: a column is what is left of the      *)
(* cursor.  A character is one of a word, of another ("y" is the other     *)
(* case of "x"), a blank, or a bracket.  Folds need the SQL dialect and    *)
(* are left out, and so is scrolling.                                      *)
(***************************************************************************)
EXTENDS Integers, Sequences, FiniteSetsExt, SequencesExt

CONSTANTS
    Typed,      \* characters that are typed
    Texts,      \* buffers that are loaded, as sequences of lines
    MaxUndo,    \* MAX_UNDO_HISTORY
    IndentWidth,
    MaxEdits, MaxLine, MaxLines,   \* bounds: edits and copies, size of the text
    None

Chars     == {"x", "y", " ", "(", ")"}
Operators == {"d", "c", "y"}
Scopes    == {"inner", "around"}

ASSUME QueryEditorAssumption ==
    /\ Typed \subseteq Chars
    /\ \A t \in Texts : t # <<>> /\ t \in Seq(Seq(Typed))
    /\ None \notin Operators /\ None \notin Nat \X Nat
    /\ {MaxUndo, IndentWidth, MaxLine, MaxLines} \subseteq Nat \ {0} /\ MaxEdits \in Nat

VARIABLES
    buf,        \* `lines`, `cursor_row`, `cursor_col`: what an undo step keeps
    mode, vim,
    anchor,     \* `visual_anchor`
    register,
    undo, redo, \* the stacks
    runEnd,     \* `typing_run_end`
    pending,    \* `pending_operator` with its `pending_scope`
    lastAction,
    edits,      \* history
    base,       \* history: the text at the last checkpoint
    rewound     \* history: undone or redone amid an insertion or a selection

vars == <<buf, mode, vim, anchor, register, undo, redo, runEnd, pending,
          lastAction, edits, base, rewound>>

At(lines, p) == [lines |-> lines, row |-> p[1], col |-> p[2]]
Pos(b)       == <<b.row, b.col>>
LineOf(b)    == b.lines[b.row]
Least(a, b)  == IF a < b THEN a ELSE b
Minus(a, b)  == IF a > b THEN a - b ELSE 0      \* `saturating_sub`
Before(p, q) == p[1] < q[1] \/ (p[1] = q[1] /\ p[2] <= q[2])

Take(s, n)   == SubSeq(s, 1, Least(n, Len(s)))
Drop(s, n)   == SubSeq(s, n + 1, Len(s))

ClampCol(b, m) ==
    LET max == IF m = "insert" THEN Len(LineOf(b)) ELSE Minus(Len(LineOf(b)), 1)
    IN  [b EXCEPT !.col = Least(@, max)]

WithLine(b, line)  == [b EXCEPT !.lines[b.row] = line]
CharClass(c) == CASE c \in {"x", "y"} -> "word" [] c = " " -> "space" [] OTHER -> "punct"

-----------------------------------------------------------------------------
(* Positions and words.                                                     *)
NextPos(ls, p) ==
    CASE p[2] + 1 < Len(ls[p[1]]) -> <<p[1], p[2] + 1>>
      [] p[2] + 1 >= Len(ls[p[1]]) /\ p[1] < Len(ls) -> <<p[1] + 1, 0>>
      [] OTHER -> None
PrevPos(ls, p) ==
    CASE p[2] > 0 -> <<p[1], p[2] - 1>>
      [] p[2] = 0 /\ p[1] > 1 -> <<p[1] - 1, Minus(Len(ls[p[1] - 1]), 1)>>
      [] OTHER -> None

ClassAt(ls, p) == IF p[2] < Len(ls[p[1]]) THEN CharClass(ls[p[1]][p[2] + 1]) ELSE "space"

(* What `next_pos` and `prev_pos` go through, in the order of reading.       *)
Spots(ls)   == UNION {{r} \X (0..Minus(Len(ls[r]), 1)) : r \in DOMAIN ls}
Earliest(S) == CHOOSE p \in S : \A q \in S : Before(p, q)
Latest(S)   == CHOOSE p \in S : \A q \in S : Before(q, p)

(* The first position at which the loop ends.                               *)
AdvanceWhile(ls, from, class) ==
    Earliest({p \in Spots(ls) :
                 /\ Before(from, p)
                 /\ \/ ClassAt(ls, p) # class \/ NextPos(ls, p) = None
                    \/ class # "space" /\ p[1] # from[1]})

RetreatOverSpace(ls, from) ==
    Latest({p \in Spots(ls) :
               Before(p, from) /\ (ClassAt(ls, p) # "space" \/ PrevPos(ls, p) = None)})

RunStart(ls, p, class) ==
    <<p[1], Min({c \in 0..p[2] : \A k \in c..(p[2] - 1) : ClassAt(ls, <<p[1], k>>) = class})>>
RunEnd(ls, p, class) ==
    <<p[1], Max({c \in p[2]..Max({p[2], Len(ls[p[1]]) - 1}) :
                    \A k \in (p[2] + 1)..c : ClassAt(ls, <<p[1], k>>) = class})>>

WordForward(ls, p) ==
    LET class == ClassAt(ls, p) IN
    AdvanceWhile(ls, IF class = "space" THEN p ELSE AdvanceWhile(ls, p, class), "space")

WordBack(ls, p) ==
    LET q == IF PrevPos(ls, p) = None THEN p ELSE RetreatOverSpace(ls, PrevPos(ls, p))
    IN  IF ClassAt(ls, q) = "space" THEN q ELSE RunStart(ls, q, ClassAt(ls, q))

WordEnd(ls, p) ==
    LET q == AdvanceWhile(ls, IF NextPos(ls, p) = None THEN p ELSE NextPos(ls, p), "space")
    IN  IF ClassAt(ls, q) = "space" THEN q ELSE RunEnd(ls, q, ClassAt(ls, q))

(* `apply_motion_command`.                                                  *)
Motions == {"h", "l", "0", "$", "w", "b", "e", "j", "k", "gg", "G"}
OperatorMotions  == {"w", "b", "e", "0", "$"}
ExclusiveMotions == {"w", "b", "0"}

Lands(b, motion) ==
    LET last == Minus(Len(LineOf(b)), 1) IN
    CASE motion = "h"  -> <<b.row, Minus(b.col, 1)>>
      [] motion = "l"  -> <<b.row, Least(b.col + 1, last)>>
      [] motion = "0"  -> <<b.row, 0>>
      [] motion = "$"  -> <<b.row, last>>
      [] motion = "w"  -> WordForward(b.lines, Pos(b))
      [] motion = "b"  -> WordBack(b.lines, Pos(b))
      [] motion = "e"  -> WordEnd(b.lines, Pos(b))
      [] motion = "j"  -> <<Least(b.row + 1, Len(b.lines)), b.col>>
      [] motion = "k"  -> <<Max({b.row - 1, 1}), b.col>>
      [] motion = "gg" -> <<1, b.col>>
      [] motion = "G"  -> <<Len(b.lines), b.col>>

Moved(b, motion) == ClampCol(At(b.lines, Lands(b, motion)), "normal")

-----------------------------------------------------------------------------
(* What the edits do to a buffer.                                           *)
InsertMultiline(b, pieces) ==
    LET line == LineOf(b)
        all  == [i \in DOMAIN pieces |->
                    (IF i = 1 THEN Take(line, b.col) ELSE <<>>) \o pieces[i]
                    \o (IF i = Len(pieces) THEN Drop(line, b.col) ELSE <<>>)]
    IN  At(Take(b.lines, b.row - 1) \o all \o Drop(b.lines, b.row),
           <<b.row + Len(pieces) - 1,
             Len(Last(pieces)) + IF Len(pieces) = 1 THEN b.col ELSE 0>>)

TypeChar(b, c) ==
    LET follows == b.col < Len(LineOf(b)) /\ LineOf(b)[b.col + 1] = c IN
    CASE c = ")" /\ follows -> [b EXCEPT !.col = @ + 1]
      [] c = "("            -> [InsertMultiline(b, << <<"(", ")">> >>) EXCEPT !.col = @ - 1]
      [] OTHER              -> InsertMultiline(b, << <<c>> >>)

Backspaced(b) ==
    LET line == LineOf(b)
        pair == b.col > 0 /\ b.col < Len(line) /\ line[b.col] = "(" /\ line[b.col + 1] = ")"
    IN  CASE b.col > 0 ->
                 [WithLine(b, Take(line, b.col - 1) \o Drop(line, IF pair THEN b.col + 1 ELSE b.col))
                     EXCEPT !.col = @ - 1]
          [] b.col = 0 /\ b.row > 1 ->
                 LET above == b.lines[b.row - 1] IN
                 At(RemoveAt([b.lines EXCEPT ![b.row - 1] = @ \o line], b.row),
                    <<b.row - 1, Len(above)>>)
          [] OTHER -> b

LinesGone(b, from, to) ==     \* `V` … `d`, and `dd`
    LET rest == Take(b.lines, from - 1) \o Drop(b.lines, to)
        left == IF rest = <<>> THEN << <<>> >> ELSE rest
    IN  [b EXCEPT !.lines = left, !.row = Least(from, Len(left))]

Slice(ls, lo, hi) ==          \* both ends included
    IF lo[1] = hi[1] THEN << Drop(Take(ls[lo[1]], hi[2] + 1), lo[2]) >>
    ELSE << Drop(ls[lo[1]], lo[2]) >> \o SubSeq(ls, lo[1] + 1, hi[1] - 1)
         \o << Take(ls[hi[1]], hi[2] + 1) >>

SliceGone(ls, lo, hi) ==
    At(Take(ls, lo[1] - 1) \o << Take(ls[lo[1]], lo[2]) \o Drop(ls[hi[1]], hi[2] + 1) >>
       \o Drop(ls, hi[1]), lo)

Joined(b) ==
    LET line  == LineOf(b)
        below == b.lines[b.row + 1]
        blank == Max({n \in 0..Len(below) : \A k \in 1..n : below[k] = " "})
        rest  == Drop(below, blank)
        gap   == IF line # <<>> /\ rest # <<>> THEN <<" ">> ELSE <<>>
    IN  [WithLine(b, line \o gap \o rest) EXCEPT !.lines = RemoveAt(@, b.row + 1),
                                                 !.col = Len(line)]

Leading(line) == Max({n \in 0..Least(Len(line), IndentWidth) : \A k \in 1..n : line[k] = " "})
Toggled(c)    == CASE c = "x" -> "y" [] c = "y" -> "x" [] OTHER -> c

Charwise(lines) == [linewise |-> FALSE, lines |-> lines]
Linewise(lines) == [linewise |-> TRUE, lines |-> lines]

Pasted(b, r, before) ==
    IF r.linewise
    THEN LET at == IF before THEN b.row ELSE b.row + 1 IN
         At(Take(b.lines, at - 1) \o r.lines \o Drop(b.lines, at - 1), <<at, 0>>)
    ELSE InsertMultiline([b EXCEPT !.col = IF before THEN @ ELSE Least(@ + 1, Len(LineOf(b)))],
                         r.lines)

-----------------------------------------------------------------------------
Init ==                       \* a new editor, or one given back the text of its tab
    /\ vim \in BOOLEAN
    /\ \E text \in Texts \cup {<< <<>> >>} :
          /\ buf = At(text, <<1, 0>>)
          /\ mode = IF vim \/ text # << <<>> >> THEN "normal" ELSE "insert"
    /\ anchor = None /\ register = None /\ undo = <<>> /\ redo = <<>>
    /\ runEnd = None /\ pending = None /\ lastAction = None
    /\ edits = 0 /\ base = buf.lines /\ rewound = FALSE

Fits(b) == Len(b.lines) <= MaxLines /\ \A i \in DOMAIN b.lines : Len(b.lines[i]) <= MaxLine

Counted == edits < MaxEdits /\ edits' = edits + 1

(* Mutant: what was undone can still be redone after an edit.               *)
CheckpointKeepingRedo ==
    /\ Counted
    /\ undo' = Append(IF Len(undo) = MaxUndo THEN Tail(undo) ELSE undo, buf)
    /\ runEnd' = None
    /\ base' = buf.lines /\ rewound' = FALSE
    /\ UNCHANGED redo

Checkpoint ==
    /\ Counted
    /\ undo' = Append(IF Len(undo) = MaxUndo THEN Tail(undo) ELSE undo, buf)
    /\ redo' = <<>>
    /\ runEnd' = None
    /\ base' = buf.lines /\ rewound' = FALSE

Unkept == UNCHANGED <<undo, redo, runEnd, base>>
NoCheckpoint == Unkept /\ UNCHANGED edits

Becomes(b, m) == buf' = ClampCol(b, m) /\ mode' = m /\ Fits(buf')

(* `undo`, `redo`: `u` and `U`, or Ctrl-Z and Ctrl-J in any mode.           *)
Rewind(from, to) ==
    LET b == Last(from) IN
    /\ from # <<>>
    /\ buf' = ClampCol([b EXCEPT !.row = Least(@, Len(b.lines))], mode)
    /\ rewound' = (mode # "normal" \/ (rewound /\ pending # None))
    /\ UNCHANGED <<mode, vim, anchor, register, runEnd, pending, lastAction, edits,
                   base>>

Undo == Rewind(undo, redo) /\ undo' = Front(undo) /\ redo' = Append(redo, buf)
Redo == Rewind(redo, undo) /\ redo' = Front(redo) /\ undo' = Append(undo, buf)

-----------------------------------------------------------------------------
(* The edits of Normal mode, which `.` repeats.  `Cuts` and `Copies` take a *)
(* charwise range.                                                          *)
Cuts(lo, hi, m) ==
    /\ Checkpoint
    /\ register' = Charwise(Slice(buf.lines, lo, hi))
    /\ Becomes(SliceGone(buf.lines, lo, hi), m)
    /\ anchor' = None

Copies(lo, hi) ==
    /\ register' = Charwise(Slice(buf.lines, lo, hi))
    /\ Becomes(At(buf.lines, lo), "normal")
    /\ anchor' = None
    /\ Counted /\ Unkept /\ UNCHANGED rewound

Applies(op, lo, hi) ==
    CASE op = "d" -> Cuts(lo, hi, "normal")
      [] op = "c" -> Cuts(lo, hi, "insert")
      [] op = "y" -> Copies(lo, hi)

Nothing == /\ NoCheckpoint
           /\ UNCHANGED <<buf, mode, anchor, register, rewound>>

(* The characters an operator works on, the first and the last.             *)
MotionRange(motion) ==
    LET there == Pos(Moved(buf, motion))
        lo    == IF Before(Pos(buf), there) THEN Pos(buf) ELSE there
        top   == IF lo = there THEN Pos(buf) ELSE there
        back  == PrevPos(buf.lines, top)
    IN  <<lo, IF motion \notin ExclusiveMotions THEN top ELSE IF back = None THEN lo ELSE back>>

WordRange(scope) ==           \* `iw`, `aw`
    LET ls     == buf.lines
        class  == ClassAt(ls, Pos(buf))
        lo     == RunStart(ls, Pos(buf), class)
        hi     == RunEnd(ls, Pos(buf), class)
        after  == NextPos(ls, hi)
        before == PrevPos(ls, lo)
    IN  CASE scope = "around" /\ after # None /\ ClassAt(ls, after) = "space" ->
                 <<lo, RunEnd(ls, after, "space")>>
          [] scope = "around" /\ ~(after # None /\ ClassAt(ls, after) = "space")
                 /\ before # None /\ ClassAt(ls, before) = "space" ->
                 <<RunStart(ls, before, "space"), hi>>
          [] OTHER -> <<lo, hi>>

OperatorMotion(op, motion) ==
    IF Pos(Moved(buf, motion)) = Pos(buf) THEN Nothing
    ELSE Applies(op, MotionRange(motion)[1], MotionRange(motion)[2])

TextObject(op, scope) == Applies(op, WordRange(scope)[1], WordRange(scope)[2])

Edit(b) == Checkpoint /\ Becomes(b, mode) /\ UNCHANGED anchor

(* Mutant: a deleted line leaves the cursor where it was.                   *)
DeleteLineInPlace ==
    /\ Checkpoint
    /\ register' = Linewise(<<LineOf(buf)>>)
    /\ LET b == LinesGone(buf, buf.row, buf.row) IN buf' = b
    /\ UNCHANGED <<mode, anchor>>

DeleteLine ==
    /\ register' = Linewise(<<LineOf(buf)>>)
    /\ Edit(LinesGone(IF Len(buf.lines) = 1 THEN [buf EXCEPT !.col = 0] ELSE buf,
                      buf.row, buf.row))

YankLine ==
    /\ register' = Linewise(<<LineOf(buf)>>)
    /\ Counted /\ Unkept /\ UNCHANGED <<buf, mode, anchor, rewound>>

DeleteChar ==
    IF buf.col < Len(LineOf(buf))
    THEN /\ register' = Charwise(<< <<LineOf(buf)[buf.col + 1]>> >>)
         /\ Edit(WithLine(buf, RemoveAt(LineOf(buf), buf.col + 1)))
    ELSE Nothing

DeleteCharBefore ==
    IF buf.col > 0
    THEN /\ register' = Charwise(<< <<LineOf(buf)[buf.col]>> >>)
         /\ Edit([WithLine(buf, RemoveAt(LineOf(buf), buf.col)) EXCEPT !.col = @ - 1])
    ELSE Nothing

Paste(before) ==
    IF register = None THEN Nothing
    ELSE Edit(Pasted(buf, register, before)) /\ UNCHANGED register

ToggleCase ==
    IF buf.col < Len(LineOf(buf))
    THEN /\ Edit([WithLine(buf, [LineOf(buf) EXCEPT ![buf.col + 1] = Toggled(@)])
                     EXCEPT !.col = @ + 1])
         /\ UNCHANGED register
    ELSE Nothing

JoinLines ==
    IF buf.row < Len(buf.lines) THEN Edit(Joined(buf)) /\ UNCHANGED register ELSE Nothing

IndentLine ==
    /\ Edit([WithLine(buf, [i \in 1..IndentWidth |-> " "] \o LineOf(buf))
                EXCEPT !.col = @ + IndentWidth])
    /\ UNCHANGED register

DedentLine ==
    LET n == Leading(LineOf(buf)) IN
    IF n = 0 THEN Nothing
    ELSE /\ Edit([WithLine(buf, Drop(LineOf(buf), n)) EXCEPT !.col = Minus(@, n)])
         /\ UNCHANGED register

Key(k) == [does |-> k, op |-> None]
WithMotion(op, m) == [does |-> m, op |-> op]
WithObject(op, s) == [does |-> s, op |-> op]

Does(a) ==
    CASE a.op # None /\ a.does \in OperatorMotions -> OperatorMotion(a.op, a.does)
      [] a.op # None /\ a.does \in Scopes -> TextObject(a.op, a.does)
      [] a = Key("x")  -> DeleteChar   [] a = Key("X")  -> DeleteCharBefore
      [] a = Key("dd") -> DeleteLine   [] a = Key("yy") -> YankLine
      [] a = Key("p")  -> Paste(FALSE) [] a = Key("P")  -> Paste(TRUE)
      [] a = Key("~")  -> ToggleCase   [] a = Key("J")  -> JoinLines
      [] a = Key(">>") -> IndentLine   [] a = Key("<<") -> DedentLine

(* A change is not repeated, and an operator only if it had a range.        *)
Remembers(a) ==
    lastAction' = IF a.op = "c" \/ (a.does \in OperatorMotions /\ Moved(buf, a.does) = buf)
                  THEN lastAction ELSE a

-----------------------------------------------------------------------------
(* Normal mode.                                                             *)
InNormal == mode = "normal" /\ pending = None

Move(motion) ==
    /\ mode # "insert" /\ pending = None
    /\ buf' = Moved(buf, motion)
    /\ UNCHANGED <<mode, vim, anchor, register, undo, redo, runEnd, pending, lastAction,
                   edits, base, rewound>>

SimpleKeys == {"x", "X", "p", "P", "~", "J", ">>", "<<"}

SimpleEdit(k) ==
    /\ InNormal
    /\ Does(Key(k)) /\ Remembers(Key(k))
    /\ UNCHANGED <<vim, pending>>

ToLineEnd(op) ==              \* `D`, `C`, `Y`
    /\ InNormal
    /\ Does(WithMotion(op, "$")) /\ Remembers(WithMotion(op, "$"))
    /\ UNCHANGED <<vim, pending>>

RepeatLast ==
    /\ InNormal /\ lastAction # None
    /\ Does(lastAction)
    /\ UNCHANGED <<vim, pending, lastAction>>

OperatorKey(op) ==
    /\ InNormal
    /\ pending' = [op |-> op, scope |-> None]
    /\ UNCHANGED <<buf, mode, vim, anchor, register, undo, redo, runEnd, lastAction,
                   edits, base, rewound>>

(* The key after the operator, and after its `i` or `a`.                    *)
OperatorTakes(a) ==
    /\ mode = "normal" /\ pending # None /\ pending.scope = None
    /\ pending' = None
    /\ Does(a) /\ Remembers(a)
    /\ UNCHANGED <<vim>>

OperatorTakesMotion == \E m \in OperatorMotions : OperatorTakes(WithMotion(pending.op, m))
OperatorDoubled     == \/ pending # None /\ pending.op = "d" /\ OperatorTakes(Key("dd"))
                       \/ pending # None /\ pending.op = "y" /\ OperatorTakes(Key("yy"))

ChangeLine ==                 \* `cc`
    /\ mode = "normal" /\ pending = [op |-> "c", scope |-> None]
    /\ pending' = None
    /\ Checkpoint
    /\ register' = Linewise(<<LineOf(buf)>>)
    /\ Becomes([WithLine(buf, <<>>) EXCEPT !.col = 0], "insert")
    /\ UNCHANGED <<vim, anchor, lastAction>>

OperatorScope(scope) ==
    /\ mode = "normal" /\ pending # None /\ pending.scope = None
    /\ pending' = [pending EXCEPT !.scope = scope]
    /\ UNCHANGED <<buf, mode, vim, anchor, register, undo, redo, runEnd, lastAction,
                   edits, base, rewound>>

OperatorTakesWord ==
    /\ mode = "normal" /\ pending # None /\ pending.scope # None
    /\ pending' = None
    /\ Does(WithObject(pending.op, pending.scope))
    /\ Remembers(WithObject(pending.op, pending.scope))
    /\ UNCHANGED <<vim>>

OperatorCancelled ==          \* any other key
    /\ mode = "normal" /\ pending # None
    /\ pending' = None
    /\ UNCHANGED <<buf, mode, vim, anchor, register, undo, redo, runEnd, lastAction,
                   edits, base, rewound>>

EnterInsert(k) ==
    /\ InNormal
    /\ Checkpoint
    /\ LET line == LineOf(buf) IN
       Becomes(CASE k = "i" -> buf
                 [] k = "a" -> [buf EXCEPT !.col = IF line = <<>> THEN @ ELSE @ + 1]
                 [] k = "I" -> [buf EXCEPT !.col = 0]
                 [] k = "A" -> [buf EXCEPT !.col = Len(line)]
                 [] k = "o" -> At(InsertAt(buf.lines, buf.row + 1, <<>>), <<buf.row + 1, 0>>)
                 [] k = "O" -> At(InsertAt(buf.lines, buf.row, <<>>), <<buf.row, 0>>),
               "insert")
    /\ UNCHANGED <<vim, anchor, register, pending, lastAction>>

-----------------------------------------------------------------------------
(* Visual modes.                                                            *)
InVisual == mode \in {"visual", "visual line"}

EnterVisual(m) ==
    /\ InNormal
    /\ mode' = m /\ anchor' = Pos(buf) /\ rewound' = FALSE
    /\ UNCHANGED <<buf, vim, register, undo, redo, runEnd, pending, lastAction, edits,
                   base>>

Low  == IF Before(anchor, Pos(buf)) THEN anchor ELSE Pos(buf)
High == IF Low = anchor THEN Pos(buf) ELSE anchor

(* Code that reads a row that is gone panics.                               *)
Readable == anchor[1] <= Len(buf.lines) /\ anchor[2] <= Len(buf.lines[anchor[1]])

Selection(op) ==
    /\ InVisual /\ Readable
    /\ IF mode = "visual" THEN Applies(op, Low, High)
       ELSE /\ register' = Linewise(SubSeq(buf.lines, Low[1], High[1]))
            /\ anchor' = None
            /\ IF op = "y"
               THEN /\ Becomes(At(buf.lines, Low), "normal")
                    /\ Counted /\ Unkept /\ UNCHANGED rewound
               ELSE /\ Checkpoint
                    /\ Becomes([LinesGone(buf, Low[1], High[1]) EXCEPT !.col = 0],
                               IF op = "c" THEN "insert" ELSE "normal")
    /\ UNCHANGED <<vim, pending, lastAction>>

-----------------------------------------------------------------------------
(* Insert mode.  Without vim every key but a run of characters is a step of *)
(* its own.                                                                 *)
Esc ==
    /\ vim /\ mode # "normal"
    /\ Becomes(buf, "normal")
    /\ anchor' = IF InVisual THEN None ELSE anchor
    /\ rewound' = FALSE
    /\ UNCHANGED <<vim, register, undo, redo, runEnd, pending, lastAction, edits, base>>

Inserts(b) == /\ Becomes(b, "insert")
              /\ UNCHANGED <<vim, anchor, register, pending, lastAction>>

Continues == Counted /\ UNCHANGED <<undo, redo, base, rewound>>

Type(c) ==
    /\ mode = "insert"
    /\ Inserts(TypeChar(buf, c))
    /\ IF vim \/ runEnd = Pos(buf)
       THEN Continues /\ runEnd' = IF vim THEN runEnd ELSE Pos(buf')
       ELSE /\ Counted
            /\ undo' = Append(IF Len(undo) = MaxUndo THEN Tail(undo) ELSE undo, buf)
            /\ redo' = <<>> /\ base' = buf.lines /\ rewound' = FALSE
            /\ runEnd' = Pos(buf')

StepIfNonModal == IF vim THEN Continues /\ UNCHANGED runEnd ELSE Checkpoint

Enter ==
    /\ mode = "insert"
    /\ StepIfNonModal
    /\ Inserts(InsertMultiline(buf, << <<>>, <<>> >>))

Backspace ==
    /\ mode = "insert"
    /\ StepIfNonModal
    /\ Inserts(Backspaced(buf))

Arrow(to) ==
    /\ mode = "insert" /\ to # Pos(buf)
    /\ to \in { <<buf.row, Minus(buf.col, 1)>>, <<buf.row, Least(buf.col + 1, Len(LineOf(buf)))>>,
                <<Max({buf.row - 1, 1}), buf.col>>, <<Least(buf.row + 1, Len(buf.lines)), buf.col>> }
    /\ runEnd' = None
    /\ Inserts(At(buf.lines, to))
    /\ UNCHANGED <<undo, redo, edits, base, rewound>>

-----------------------------------------------------------------------------
(* What the screen does: a name or a paste at the cursor, a completion, a   *)
(* text from a file or the history, a search, and `:s`.                     *)
InsertAtCursor(pieces) ==
    /\ Checkpoint
    /\ Becomes(InsertMultiline(buf, pieces), "insert")
    /\ UNCHANGED <<vim, anchor, register, pending, lastAction>>

ReplaceWord(word) ==
    LET line  == LineOf(buf)
        start == Min({c \in 0..buf.col : \A k \in (c + 1)..buf.col : CharClass(line[k]) = "word"})
    IN  /\ mode = "insert"
        /\ Checkpoint
        /\ Inserts([WithLine(buf, Take(line, start) \o word \o Drop(line, buf.col))
                       EXCEPT !.col = start + Len(word)])

SetText(text) ==
    /\ Counted
    /\ buf' = At(text, <<1, 0>>)
    /\ mode' = "normal" /\ anchor' = None
    /\ undo' = <<>> /\ redo' = <<>> /\ runEnd' = None
    /\ base' = text /\ rewound' = FALSE
    /\ UNCHANGED <<vim, register, pending, lastAction>>

Found(p) ==     \* `find`, or back to where the search began
    /\ mode # "insert"
    /\ p[1] \in DOMAIN buf.lines /\ p[2] < Len(buf.lines[p[1]])
    /\ buf' = At(buf.lines, p)
    /\ UNCHANGED <<mode, vim, anchor, register, undo, redo, runEnd, pending, lastAction,
                   edits, base, rewound>>

Replaced(line, c, by, all) ==
    LET hits  == {i \in DOMAIN line : line[i] = c}
        these == IF all THEN hits ELSE {Min(hits)}
    IN  FlattenSeq([i \in DOMAIN line |-> IF i \in these THEN by ELSE <<line[i]>>])

Substitute(c, by, whole, all) ==
    LET rows == {r \in DOMAIN buf.lines : Contains(buf.lines[r], c) /\ (whole \/ r = buf.row)}
    IN  /\ mode = "normal" /\ rows # {}
        /\ Checkpoint
        /\ Becomes([buf EXCEPT !.lines = [r \in DOMAIN @ |-> IF r \in rows
                                              THEN Replaced(@[r], c, by, all) ELSE @[r]],
                               !.row = Max(rows)], "normal")
        /\ UNCHANGED <<vim, anchor, register, pending, lastAction>>

-----------------------------------------------------------------------------
Places(ls) == (DOMAIN ls) \X (0..MaxLine)

Next ==
    \/ \E m \in Motions : Move(m)
    \/ \E k \in SimpleKeys : SimpleEdit(k)
    \/ \E op \in Operators : ToLineEnd(op) \/ OperatorKey(op) \/ Selection(op)
    \/ RepeatLast \/ OperatorTakesMotion \/ OperatorDoubled \/ ChangeLine
    \/ \E s \in Scopes : OperatorScope(s)
    \/ OperatorTakesWord \/ OperatorCancelled
    \/ \E k \in {"i", "a", "I", "A", "o", "O"} : EnterInsert(k)
    \/ \E m \in {"visual", "visual line"} : EnterVisual(m)
    \/ Esc \/ Enter \/ Backspace \/ Undo \/ Redo
    \/ \E c \in Typed : Type(c)
    \/ \E to \in Places(buf.lines) : Arrow(to) \/ Found(to)
    \/ \E t \in Texts : InsertAtCursor(t) \/ SetText(t)
    \/ \E c \in Typed : ReplaceWord(<<c>>)
    \/ \E c, by \in Typed, whole, all \in BOOLEAN : Substitute(c, <<by>>, whole, all)

Spec == Init /\ [][Next]_vars

-----------------------------------------------------------------------------
(* The cursor is on a character, or behind the last one where one may type, *)
(* and a selection has both ends in the text: every edit indexes the text   *)
(* with them.  (`rewound`: an undo or redo amid a selection breaks it.)     *)
CursorInside ==
    /\ buf.row \in DOMAIN buf.lines
    /\ buf.col <= IF mode = "insert" THEN Len(LineOf(buf)) ELSE Minus(Len(LineOf(buf)), 1)

SelectionInside == InVisual => rewound \/ (anchor # None /\ Readable)

(* What an operator would work on is in the text too, and not turned around *)
(* by a motion that goes back or excludes its end.  (A pending operator can *)
(* be cancelled: what is true without one is true with it.)                 *)
IsRange(r) == Before(r[1], r[2]) /\ {r[1], r[2]} \subseteq Spots(buf.lines)

RangesInside ==
    InNormal =>
        /\ \A m \in OperatorMotions : Pos(Moved(buf, m)) # Pos(buf) => IsRange(MotionRange(m))
        /\ \A s \in Scopes : IsRange(WordRange(s))

PositionsInside == CursorInside /\ SelectionInside /\ RangesInside

Loads == \E t \in Texts : SetText(t)

(* Every edit can be taken back by one `undo`, to the text it was made of,  *)
(* or for a run of typing to the one the run began with; and no `redo`      *)
(* brings back anything across it.                                          *)
EditsCanBeUndone ==
    [][buf'.lines # buf.lines /\ ~(Undo \/ Redo \/ Loads) =>
          \/ rewound
          \/ /\ undo' # <<>> /\ Last(undo').lines = base'
             /\ redo' = <<>>
             /\ mode = "insert" \/ base' = buf.lines]_vars
=============================================================================
