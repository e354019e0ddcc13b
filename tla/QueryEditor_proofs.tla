------------------------ MODULE QueryEditor_proofs ------------------------
(***************************************************************************)
(* The query editor: on any texts and for any history, width and bounds,   *)
(* no key leaves the cursor, the end of a selection or the range of an     *)
(* operator outside the text, and every edit can be taken back.            *)
(*                                                                         *)
(* ClampCol puts the column right after every step, so an operator on      *)
(* buffers has only to leave a text of one line or more with the cursor on *)
(* one of its rows: `InText`.  What a motion lands on is a spot of the     *)
(* text: `Spots`.                                                          *)
(***************************************************************************)
EXTENDS QueryEditor, Lists_proofs, TLAPS

Line      == Seq(Chars)
Text      == Seq(Line) \ {<<>>}
Buffers   == [lines : Text, row : Nat \ {0}, col : Nat]
Registers == [linewise : BOOLEAN, lines : Text]
Modes     == {"normal", "insert", "visual", "visual line"}
Pendings  == [op : Operators, scope : Scopes \cup {None}]
Actions   == {Key(k) : k \in SimpleKeys \cup {"dd", "yy"}}
             \cup [op : Operators, does : OperatorMotions \cup Scopes]

EditorTypeOK ==
    /\ buf \in Buffers
    /\ mode \in Modes /\ vim \in BOOLEAN
    /\ anchor \in ((Nat \ {0}) \X Nat) \cup {None}
    /\ register \in Registers \cup {None}
    /\ undo \in Seq(Buffers) /\ redo \in Seq(Buffers)
    /\ pending \in Pendings \cup {None}
    /\ lastAction \in Actions \cup {None}
    /\ edits \in Nat /\ rewound \in BOOLEAN

(* Only `v` and `V` lead to a visual mode, and every way out of one that    *)
(* comes back forgets the anchor or sets it again.                          *)
AnchorSet == InVisual => anchor # None

(* What is typed goes on from a checkpoint: the text before it is on top of *)
(* the stack of undo, and there is nothing to redo.                         *)
StepKept ==
    mode = "insert" /\ ~rewound /\ (vim \/ runEnd # None) =>
        undo # <<>> /\ Last(undo).lines = base /\ redo = <<>>

(* Only a checkpoint looks at the limit: `undo` and `redo` move one buffer   *)
(* from stack to stack, and push it unchecked.                              *)
StacksBounded == Len(undo) + Len(redo) <= MaxUndo

EditorInv ==
    EditorTypeOK /\ CursorInside /\ SelectionInside /\ AnchorSet /\ StepKept /\ StacksBounded

-----------------------------------------------------------------------------
(* Pieces of sequences.                                                     *)

(* A function on 1..n is a sequence.                                        *)
LEMMA FunctionIsSeq ==
  ASSUME NEW S, NEW n \in Nat, NEW f \in [1..n -> S]
  PROVE  f \in Seq(S) /\ Len(f) = n
<1>1. f \in Seq(S)
  BY SeqDef
<1>2. Len(f) \in Nat /\ 1..Len(f) = 1..n
  BY <1>1, LenProperties
<1> QED
  BY <1>1, <1>2

LEMMA Piece ==
  ASSUME NEW S, NEW s \in Seq(S), NEW m \in Nat \ {0}, NEW n \in Int, n <= Len(s)
  PROVE  /\ SubSeq(s, m, n) \in Seq(S)
         /\ Len(SubSeq(s, m, n)) = IF m <= n THEN n - m + 1 ELSE 0
<1>1. \A i \in m..n : i \in 1..Len(s)
  BY LenProperties
<1>2. m \in Int /\ \A i \in m..n : s[i] \in S
  BY <1>1, ElementOfSeq
<1> QED
  BY <1>2, SubSeqProperties

LEMMA TakeIs ==
  ASSUME NEW S, NEW s \in Seq(S), NEW n \in Nat
  PROVE  Take(s, n) \in Seq(S) /\ Len(Take(s, n)) = Least(n, Len(s))
<1>1. Len(s) \in Nat /\ Least(n, Len(s)) \in Nat /\ Least(n, Len(s)) <= Len(s)
  BY LenProperties DEF Least
<1>2. 1 \in Nat \ {0} /\ Least(n, Len(s)) \in Int
  BY <1>1
<1>3. /\ Take(s, n) \in Seq(S)
      /\ Len(Take(s, n)) = IF 1 <= Least(n, Len(s)) THEN Least(n, Len(s)) - 1 + 1 ELSE 0
  BY <1>1, <1>2, Piece DEF Take
<1> QED
  BY <1>1, <1>3

LEMMA DropIs ==
  ASSUME NEW S, NEW s \in Seq(S), NEW n \in Nat
  PROVE  Drop(s, n) \in Seq(S) /\ Len(Drop(s, n)) = Minus(Len(s), n)
<1>1. Len(s) \in Nat /\ Len(s) <= Len(s) /\ n + 1 \in Nat \ {0} /\ Len(s) \in Int
  BY LenProperties
<1>2. /\ Drop(s, n) \in Seq(S)
      /\ Len(Drop(s, n)) = IF n + 1 <= Len(s) THEN Len(s) - (n + 1) + 1 ELSE 0
  BY <1>1, Piece DEF Drop
<1> QED
  BY <1>1, <1>2 DEF Minus

LEMMA LastIs ==
  ASSUME NEW S, NEW s \in Seq(S), s # <<>>
  PROVE  /\ Last(s) \in S /\ Front(s) \in Seq(S)
         /\ Len(s) \in 1..Len(s) /\ Len(s) \in Nat \ {0}
<1>1. Len(s) \in Nat \ {0} /\ Len(s) \in 1..Len(s)
  BY EmptySeq, LenProperties
<1>2. Last(s) \in S
  BY <1>1, ElementOfSeq DEF Last
<1>3. 1 \in Nat \ {0} /\ Len(s) - 1 \in Int /\ Len(s) - 1 <= Len(s)
  BY <1>1
<1>4. Front(s) \in Seq(S)
  BY <1>3, Piece DEF Front
<1> QED
  BY <1>1, <1>2, <1>4

LEMMA AppendLast ==
  ASSUME NEW S, NEW s \in Seq(S), NEW e \in S
  PROVE  /\ Append(s, e) \in Seq(S) /\ Append(s, e) # <<>>
         /\ Last(Append(s, e)) = e /\ Len(Append(s, e)) = Len(s) + 1
<1>1. /\ Append(s, e) \in Seq(S) /\ Append(s, e) # <<>>
      /\ Len(Append(s, e)) = Len(s) + 1 /\ Append(s, e)[Len(s) + 1] = e
  BY AppendProperties
<1> QED
  BY <1>1 DEF Last

(* Lines in the middle of lines.                                            *)
LEMMA Between ==
  ASSUME NEW S, NEW s \in Seq(S), NEW t \in Seq(S), NEW u \in Seq(S)
  PROVE  /\ s \o t \o u \in Seq(S)
         /\ Len(s \o t \o u) = Len(s) + Len(t) + Len(u)
<1>1. s \o t \in Seq(S) /\ Len(s \o t) = Len(s) + Len(t)
  BY ConcatProperties
<1> QED
  BY <1>1, ConcatProperties

LEMMA Single ==
  ASSUME NEW S, NEW e \in S
  PROVE  <<e>> \in Seq(S) /\ Len(<<e>>) = 1
  OBVIOUS

LEMMA Double ==
  ASSUME NEW S, NEW d \in S, NEW e \in S
  PROVE  <<d, e>> \in Seq(S) /\ Len(<<d, e>>) = 2
  OBVIOUS

-----------------------------------------------------------------------------
(* Buffers.                                                                 *)

(* A buffer with its cursor on a row of its text.                           *)
InText(b) == b \in Buffers /\ b.row \in 1..Len(b.lines)

LEMMA Rows ==
  ASSUME NEW b, InText(b)
  PROVE  /\ b.lines \in Text /\ b.lines \in Seq(Line) /\ b.lines # <<>>
         /\ Len(b.lines) \in Nat \ {0} /\ DOMAIN b.lines = 1..Len(b.lines)
         /\ b.row \in 1..Len(b.lines) /\ b.row \in Nat \ {0} /\ b.col \in Nat
         /\ LineOf(b) \in Line /\ Len(LineOf(b)) \in Nat
         /\ b = [lines |-> b.lines, row |-> b.row, col |-> b.col]
<1>1. /\ b.lines \in Seq(Line) /\ b.lines # <<>> /\ b.row \in Nat \ {0} /\ b.col \in Nat
      /\ b = [lines |-> b.lines, row |-> b.row, col |-> b.col]
  BY DEF InText, Buffers, Text
<1>2. Len(b.lines) \in Nat \ {0} /\ DOMAIN b.lines = 1..Len(b.lines)
  BY <1>1, EmptySeq, LenProperties
<1>3. LineOf(b) \in Line
  BY <1>1, ElementOfSeq DEF InText, LineOf
<1>4. Len(LineOf(b)) \in Nat
  BY <1>3, LenProperties DEF Line
<1> QED
  BY <1>1, <1>2, <1>3, <1>4 DEF InText, Text

(* Any lines with a row and a column.                                       *)
LEMMA Builds ==
  ASSUME NEW ls \in Seq(Line), NEW r \in 1..Len(ls), NEW c \in Nat
  PROVE  /\ InText([lines |-> ls, row |-> r, col |-> c])
         /\ At(ls, <<r, c>>) = [lines |-> ls, row |-> r, col |-> c]
<1>1. Len(ls) \in Nat /\ r \in Nat \ {0}
  BY LenProperties
<1>2. ls # <<>>
  BY <1>1, EmptySeq
<1> QED
  BY <1>1, <1>2 DEF InText, Buffers, Text, At

LEMMA AtIs ==
  ASSUME NEW ls \in Seq(Line), NEW p \in (1..Len(ls)) \X Nat
  PROVE  /\ InText(At(ls, p)) /\ At(ls, p).lines = ls
         /\ At(ls, p).row = p[1] /\ At(ls, p).col = p[2]
<1>1. p = <<p[1], p[2]>> /\ p[1] \in 1..Len(ls) /\ p[2] \in Nat
  OBVIOUS
<1> QED
  BY <1>1, Builds DEF At

(* Where a column may be.                                                   *)
Rightmost(b, m) == IF m = "insert" THEN Len(LineOf(b)) ELSE Minus(Len(LineOf(b)), 1)

LEMMA ClampIs ==
  ASSUME NEW b, InText(b), NEW m
  PROVE  /\ InText(ClampCol(b, m)) /\ ClampCol(b, m).lines = b.lines
         /\ ClampCol(b, m).row = b.row /\ ClampCol(b, m).col \in Nat
         /\ ClampCol(b, m).col <= Rightmost(b, m)
<1>1. Rightmost(b, m) \in Nat /\ Least(b.col, Rightmost(b, m)) \in Nat
      /\ Least(b.col, Rightmost(b, m)) <= Rightmost(b, m)
  BY Rows DEF Rightmost, Minus, Least
<1>2. ClampCol(b, m) = [b EXCEPT !.col = Least(b.col, Rightmost(b, m))]
  BY DEF ClampCol, Rightmost
<1>3. ClampCol(b, m) = [lines |-> b.lines, row |-> b.row, col |-> Least(b.col, Rightmost(b, m))]
  BY <1>2, Rows
<1>4. InText(ClampCol(b, m))
  <2>1. b.lines \in Seq(Line) /\ b.row \in 1..Len(b.lines)
    BY Rows
  <2> QED
    BY <1>1, <1>3, <2>1, Builds
<1> QED
  BY <1>1, <1>3, <1>4

LEMMA WithLineIs ==
  ASSUME NEW b, InText(b), NEW line \in Line, NEW c \in Nat
  PROVE  /\ InText(WithLine(b, line)) /\ WithLine(b, line).row = b.row
         /\ WithLine(b, line).col = b.col
         /\ Len(WithLine(b, line).lines) = Len(b.lines)
         /\ WithLine(b, line).lines[b.row] = line
         /\ InText([WithLine(b, line) EXCEPT !.col = c])
<1> DEFINE ls == [b.lines EXCEPT ![b.row] = line]
<1>1. ls \in Seq(Line) /\ Len(ls) = Len(b.lines) /\ ls[b.row] = line
  BY Rows, ExceptSeq DEF InText
<1>2. WithLine(b, line) = [lines |-> ls, row |-> b.row, col |-> b.col]
  BY Rows DEF WithLine
<1> HIDE DEF ls
<1>3. [WithLine(b, line) EXCEPT !.col = c] = [lines |-> ls, row |-> b.row, col |-> c]
  BY <1>2
<1>4. b.row \in 1..Len(ls) /\ b.col \in Nat
  BY <1>1, Rows
<1>5. InText(WithLine(b, line)) /\ InText([WithLine(b, line) EXCEPT !.col = c])
  <2>1. /\ InText([lines |-> ls, row |-> b.row, col |-> b.col])
        /\ InText([lines |-> ls, row |-> b.row, col |-> c])
    BY <1>1, <1>4, Builds
  <2> QED
    BY <1>2, <1>3, <2>1
<1> QED
  BY <1>1, <1>2, <1>5

LEMMA WithColIs ==
  ASSUME NEW b, InText(b), NEW c \in Nat
  PROVE  /\ InText([b EXCEPT !.col = c]) /\ [b EXCEPT !.col = c].lines = b.lines
         /\ [b EXCEPT !.col = c].row = b.row /\ [b EXCEPT !.col = c].col = c
<1>1. [b EXCEPT !.col = c] = [lines |-> b.lines, row |-> b.row, col |-> c]
  BY Rows
<1>2. b.lines \in Seq(Line) /\ b.row \in 1..Len(b.lines)
  BY Rows
<1> QED
  BY <1>1, <1>2, Builds

-----------------------------------------------------------------------------
(* What the edits leave.                                                    *)
LEMMA InsertMultilineIs ==
  ASSUME NEW b, InText(b), NEW pieces \in Text
  PROVE  /\ InText(InsertMultiline(b, pieces))
         /\ pieces = <<pieces[1]>> => InsertMultiline(b, pieces).col = Len(pieces[1]) + b.col
<1> DEFINE n    == Len(pieces)
           line == LineOf(b)
           all  == [i \in 1..n |->
                       (IF i = 1 THEN Take(line, b.col) ELSE <<>>) \o pieces[i]
                       \o (IF i = n THEN Drop(line, b.col) ELSE <<>>)]
           ls   == Take(b.lines, b.row - 1) \o all \o Drop(b.lines, b.row)
           row  == b.row + n - 1
           col  == Len(Last(pieces)) + IF n = 1 THEN b.col ELSE 0
<1>1. /\ pieces \in Seq(Line) /\ n \in Nat \ {0} /\ DOMAIN pieces = 1..n
      /\ \A i \in 1..n : pieces[i] \in Line
      /\ Last(pieces) = pieces[n] /\ n \in 1..n
  BY EmptySeq, LenProperties, ElementOfSeq DEF Text, Last
<1>2. all \in Seq(Line) /\ Len(all) = n
  <2>1. <<>> \in Line /\ Take(line, b.col) \in Line /\ Drop(line, b.col) \in Line
    BY Rows, TakeIs, DropIs, EmptySeq DEF Line
  <2>2. \A s, t \in Line : s \o t \in Line
    BY ConcatProperties DEF Line
  <2>3. \A i \in 1..n : (IF i = 1 THEN Take(line, b.col) ELSE <<>>) \o pieces[i]
                        \o (IF i = n THEN Drop(line, b.col) ELSE <<>>) \in Line
    <3> HIDE DEF n, line
    <3> TAKE i \in 1..n
    <3>1. (IF i = 1 THEN Take(line, b.col) ELSE <<>>) \in Line
      BY <2>1
    <3>2. (IF i = n THEN Drop(line, b.col) ELSE <<>>) \in Line
      BY <2>1
    <3> QED
      BY <1>1, <2>2, <3>1, <3>2
  <2>4. all \in [1..n -> Line]
    BY <2>3
  <2> HIDE DEF all, n
  <2> QED
    BY <1>1, <2>4, FunctionIsSeq
<1>3. /\ Take(b.lines, b.row - 1) \in Seq(Line) /\ Len(Take(b.lines, b.row - 1)) = b.row - 1
      /\ Drop(b.lines, b.row) \in Seq(Line) /\ Len(Drop(b.lines, b.row)) = Len(b.lines) - b.row
  <2>1. b.row - 1 \in Nat /\ b.row \in Nat
    BY Rows
  <2>2. Least(b.row - 1, Len(b.lines)) = b.row - 1 /\ Minus(Len(b.lines), b.row) = Len(b.lines) - b.row
    BY Rows DEF Least, Minus
  <2> QED
    BY <2>1, <2>2, Rows, TakeIs, DropIs
<1>4. ls \in Seq(Line) /\ Len(ls) = b.row - 1 + n + (Len(b.lines) - b.row)
  <2> DEFINE top == Take(b.lines, b.row - 1)
             end == Drop(b.lines, b.row)
  <2> HIDE DEF all, n, top, end
  <2>1. top \in Seq(Line) /\ all \in Seq(Line) /\ end \in Seq(Line)
    BY <1>2, <1>3 DEF top, end
  <2>2. top \o all \o end \in Seq(Line) /\ Len(top \o all \o end) = Len(top) + Len(all) + Len(end)
    BY <2>1, Between
  <2>3. Len(top) = b.row - 1 /\ Len(end) = Len(b.lines) - b.row
    BY <1>3 DEF top, end
  <2> QED
    BY <1>2, <2>2, <2>3 DEF top, end
<1>5. row \in 1..Len(ls) /\ col \in Nat
  <2>1. Len(pieces[n]) \in Nat
    BY <1>1, LenProperties DEF Line
  <2>2. /\ b.row \in 1..Len(b.lines) /\ b.row \in Nat \ {0} /\ b.col \in Nat
        /\ Len(b.lines) \in Nat
    BY Rows
  <2> HIDE DEF ls, n
  <2>3. row \in 1..Len(ls)
    BY <1>1, <1>4, <2>2
  <2>4. col \in Nat
    BY <1>1, <2>1, <2>2
  <2> QED
    BY <2>3, <2>4
<1>6. InsertMultiline(b, pieces) = At(ls, <<row, col>>)
  BY <1>1 DEF InsertMultiline
<1>7. pieces = <<pieces[1]>> => n = 1
  OBVIOUS
<1> HIDE DEF ls, row, all
<1>8. InText(InsertMultiline(b, pieces)) /\ InsertMultiline(b, pieces).col = col
  <2> HIDE DEF col
  <2>1. /\ InText([lines |-> ls, row |-> row, col |-> col])
        /\ At(ls, <<row, col>>) = [lines |-> ls, row |-> row, col |-> col]
    BY <1>4, <1>5, Builds
  <2> QED
    BY <1>6, <2>1
<1> QED
  BY <1>1, <1>7, <1>8

LEMMA CharsAre == "x" \in Chars /\ "y" \in Chars /\ " " \in Chars /\ "(" \in Chars /\ ")" \in Chars
  BY DEF Chars

LEMMA OneLine ==
  ASSUME NEW line \in Line
  PROVE  <<line>> \in Text /\ <<line>>[1] = line
<1>1. <<line>> \in Seq(Line) /\ Len(<<line>>) = 1
  BY Single
<1> QED
  BY <1>1, EmptySeq DEF Text

LEMMA TypeCharIs ==
  ASSUME NEW b, InText(b), NEW c \in Chars
  PROVE  InText(TypeChar(b, c))
<1>1. b.col + 1 \in Nat /\ InText([b EXCEPT !.col = b.col + 1])
  <2>1. b.col + 1 \in Nat
    BY Rows
  <2> QED
    BY <2>1, WithColIs
<1>2. InText([InsertMultiline(b, << <<"(", ")">> >>) EXCEPT !.col = @ - 1])
  <2> DEFINE pair == <<"(", ")">>
  <2>1. pair \in Line /\ Len(pair) = 2
    BY CharsAre, Double DEF Line
  <2> HIDE DEF pair
  <2>2. <<pair>> \in Text /\ <<pair>> = << <<pair>>[1] >>
    BY <2>1, OneLine
  <2>3. InText(InsertMultiline(b, <<pair>>))
        /\ InsertMultiline(b, <<pair>>).col = 2 + b.col
    BY <2>1, <2>2, InsertMultilineIs
  <2>4. InsertMultiline(b, <<pair>>).col - 1 \in Nat
    BY <2>3, Rows
  <2> QED
    BY <2>3, <2>4, WithColIs DEF pair
<1>3. InText(InsertMultiline(b, << <<c>> >>))
  <2>1. <<c>> \in Line
    BY Single DEF Line
  <2> QED
    BY <2>1, OneLine, InsertMultilineIs
<1> QED
  BY <1>1, <1>2, <1>3 DEF TypeChar

LEMMA BackspacedIs ==
  ASSUME NEW b, InText(b)
  PROVE  InText(Backspaced(b))
<1> DEFINE line == LineOf(b)
           pair == b.col > 0 /\ b.col < Len(line) /\ line[b.col] = "(" /\ line[b.col + 1] = ")"
           less == Take(line, b.col - 1) \o Drop(line, IF pair THEN b.col + 1 ELSE b.col)
           above == b.lines[b.row - 1]
           joined == RemoveAt([b.lines EXCEPT ![b.row - 1] = @ \o line], b.row)
<1>1. CASE b.col > 0
  <2>1. b.col - 1 \in Nat /\ (IF pair THEN b.col + 1 ELSE b.col) \in Nat /\ line \in Line
    <3> HIDE DEF pair
    <3> QED
      BY <1>1, Rows
  <2>2. less \in Line
    <3> HIDE DEF pair, line
    <3> QED
      BY <2>1, TakeIs, DropIs, ConcatProperties DEF Line
  <2> HIDE DEF less
  <2>3. InText([WithLine(b, less) EXCEPT !.col = b.col - 1]) /\ WithLine(b, less).col = b.col
    BY <2>1, <2>2, WithLineIs
  <2>4. [WithLine(b, less) EXCEPT !.col = @ - 1] = [WithLine(b, less) EXCEPT !.col = b.col - 1]
    BY <2>3
  <2>5. Backspaced(b) = [WithLine(b, less) EXCEPT !.col = @ - 1]
    BY <1>1 DEF Backspaced, less
  <2> QED
    BY <2>3, <2>4, <2>5
<1>2. CASE b.col = 0 /\ b.row > 1
  <2>1. b.row - 1 \in 1..Len(b.lines) /\ above \in Line /\ line \in Line
    <3>1. b.row - 1 \in 1..Len(b.lines) /\ b.lines \in Seq(Line) /\ line \in Line
      BY <1>2, Rows
    <3> QED
      BY <3>1, ElementOfSeq
  <2>2. above \o line \in Line /\ Len(above) \in Nat
    BY <2>1, ConcatProperties, LenProperties DEF Line
  <2> DEFINE ls == [b.lines EXCEPT ![b.row - 1] = above \o line]
  <2>3. ls \in Seq(Line) /\ Len(ls) = Len(b.lines)
    BY <2>1, <2>2, Rows, ExceptSeq
  <2>4. joined = RemoveAt(ls, b.row)
    OBVIOUS
  <2> HIDE DEF ls
  <2>5. joined \in Seq(Line) /\ Len(joined) = Len(b.lines) - 1
    <3>1. b.row \in 1..Len(ls)
      BY <2>3, Rows
    <3> QED
      BY <2>3, <2>4, <3>1, RemoveAtProperties
  <2>6. b.row - 1 \in 1..Len(joined)
    <3> HIDE DEF joined
    <3> QED
      BY <1>2, <2>5, Rows
  <2>7. Backspaced(b) = At(joined, <<b.row - 1, Len(above)>>)
    BY <1>2 DEF Backspaced
  <2> HIDE DEF joined
  <2> QED
    BY <2>2, <2>5, <2>6, <2>7, Builds
<1>3. CASE ~(b.col > 0) /\ ~(b.col = 0 /\ b.row > 1)
  BY <1>3 DEF Backspaced
<1> QED
  BY <1>1, <1>2, <1>3

LEMMA LinesGoneIs ==
  ASSUME NEW b, InText(b), NEW from \in Nat \ {0}, NEW to \in Nat
  PROVE  InText(LinesGone(b, from, to)) /\ InText([LinesGone(b, from, to) EXCEPT !.col = 0])
<1> DEFINE rest == Take(b.lines, from - 1) \o Drop(b.lines, to)
           left == IF rest = <<>> THEN << <<>> >> ELSE rest
           row  == Least(from, Len(left))
<1>1. rest \in Seq(Line)
  <2>1. b.lines \in Seq(Line) /\ from - 1 \in Nat
    BY Rows
  <2> QED
    BY <2>1, TakeIs, DropIs, ConcatProperties
<1>2. left \in Seq(Line) /\ left # <<>>
  <2>1. <<>> \in Line
    BY EmptySeq DEF Line
  <2>2. << <<>> >> \in Seq(Line) /\ << <<>> >> # <<>>
    BY <2>1, Single, EmptySeq
  <2> HIDE DEF rest
  <2> QED
    BY <1>1, <2>2
<1>3. LinesGone(b, from, to) = [b EXCEPT !.lines = left, !.row = row]
  BY DEF LinesGone
<1> HIDE DEF left
<1>4. row \in 1..Len(left)
  BY <1>2, EmptySeq DEF Least
<1> HIDE DEF row
<1>5. /\ LinesGone(b, from, to) = [lines |-> left, row |-> row, col |-> b.col]
      /\ [LinesGone(b, from, to) EXCEPT !.col = 0] = [lines |-> left, row |-> row, col |-> 0]
  <2>1. b = [lines |-> b.lines, row |-> b.row, col |-> b.col]
    BY Rows
  <2>2. LinesGone(b, from, to) = [lines |-> left, row |-> row, col |-> b.col]
    BY <1>3, <2>1
  <2> QED
    BY <2>2
<1>6. b.col \in Nat /\ 0 \in Nat
  BY Rows
<1>7. \A c \in Nat : InText([lines |-> left, row |-> row, col |-> c])
  BY <1>2, <1>4, Builds
<1> QED
  BY <1>5, <1>6, <1>7

(* A part of a text is a text, and what is left without it one too.         *)
LEMMA SliceIs ==
  ASSUME NEW ls \in Text, NEW lo \in (1..Len(ls)) \X Nat, NEW hi \in (1..Len(ls)) \X Nat
  PROVE  Slice(ls, lo, hi) \in Text /\ InText(SliceGone(ls, lo, hi))
<1>1. /\ ls \in Seq(Line) /\ Len(ls) \in Nat
      /\ lo[1] \in 1..Len(ls) /\ hi[1] \in 1..Len(ls) /\ lo[2] \in Nat /\ hi[2] \in Nat
      /\ hi[2] + 1 \in Nat /\ hi[1] \in Nat /\ lo[1] - 1 \in Nat /\ lo[1] + 1 \in Nat \ {0}
      /\ lo = <<lo[1], lo[2]>>
  BY LenProperties DEF Text
<1>2. ls[lo[1]] \in Line /\ ls[hi[1]] \in Line
  BY <1>1, ElementOfSeq
<1>3. /\ \A s \in Line, n \in Nat : Take(s, n) \in Line /\ Drop(s, n) \in Line
      /\ \A s, t \in Line : s \o t \in Line
  BY TakeIs, DropIs, ConcatProperties DEF Line
<1>4. ASSUME NEW line \in Line
      PROVE  <<line>> \in Seq(Line) /\ Len(<<line>>) = 1
  BY Single
<1>5. Slice(ls, lo, hi) \in Text
  <2>1. CASE lo[1] = hi[1]
    <3>1. Drop(Take(ls[lo[1]], hi[2] + 1), lo[2]) \in Line
      BY <1>1, <1>2, <1>3
    <3> QED
      BY <2>1, <3>1, OneLine DEF Slice
  <2>2. CASE lo[1] # hi[1]
    <3> DEFINE first == << Drop(ls[lo[1]], lo[2]) >>
               mid   == SubSeq(ls, lo[1] + 1, hi[1] - 1)
               last  == << Take(ls[hi[1]], hi[2] + 1) >>
    <3>1. first \in Seq(Line) /\ Len(first) = 1 /\ last \in Seq(Line) /\ Len(last) = 1
      BY <1>1, <1>2, <1>3, <1>4
    <3>2. mid \in Seq(Line)
      <4>1. hi[1] - 1 \in Int /\ hi[1] - 1 <= Len(ls)
        BY <1>1
      <4> QED
        BY <1>1, <4>1, Piece
    <3>3. Slice(ls, lo, hi) = first \o mid \o last
      BY <2>2 DEF Slice
    <3> HIDE DEF first, mid, last
    <3>4. Slice(ls, lo, hi) \in Seq(Line) /\ Len(Slice(ls, lo, hi)) = 1 + Len(mid) + 1
      <4>1. first \in Seq(Line) /\ mid \in Seq(Line) /\ last \in Seq(Line)
        BY <3>1, <3>2
      <4>2. /\ first \o mid \o last \in Seq(Line)
            /\ Len(first \o mid \o last) = Len(first) + Len(mid) + Len(last)
        BY <4>1, Between
      <4> QED
        BY <3>1, <3>3, <4>2
    <3>5. Len(mid) \in Nat
      BY <3>2, LenProperties
    <3> QED
      BY <3>4, <3>5, EmptySeq DEF Text
  <2> QED
    BY <2>1, <2>2
<1>6. InText(SliceGone(ls, lo, hi))
  <2> DEFINE top == Take(ls, lo[1] - 1)
             mid == Take(ls[lo[1]], lo[2]) \o Drop(ls[hi[1]], hi[2] + 1)
             end == Drop(ls, hi[1])
             new == top \o <<mid>> \o end
  <2>1. top \in Seq(Line) /\ Len(top) = lo[1] - 1
    <3>1. Least(lo[1] - 1, Len(ls)) = lo[1] - 1
      BY <1>1 DEF Least
    <3> QED
      BY <1>1, <3>1, TakeIs
  <2>2. end \in Seq(Line) /\ Len(end) \in Nat
    BY <1>1, DropIs, LenProperties
  <2>3. mid \in Line
    BY <1>1, <1>2, <1>3
  <2>4. SliceGone(ls, lo, hi) = At(new, lo)
    BY DEF SliceGone
  <2> HIDE DEF top, mid, end
  <2>5. new \in Seq(Line) /\ Len(new) = lo[1] - 1 + 1 + Len(end)
    BY <2>1, <2>2, <2>3, <1>4, Between
  <2> HIDE DEF new
  <2>n. lo[1] \in Nat \ {0} /\ Len(end) \in Nat
    BY <1>1, <2>2
  <2>6. lo[1] \in 1..Len(new)
    BY <2>5, <2>n
  <2>7. lo \in (1..Len(new)) \X Nat
    BY <1>1, <2>6
  <2> QED
    BY <2>4, <2>5, <2>7, AtIs
<1> QED
  BY <1>5, <1>6

LEMMA JoinedIs ==
  ASSUME NEW b, InText(b), b.row < Len(b.lines)
  PROVE  InText(Joined(b))
<1> DEFINE line  == LineOf(b)
           below == b.lines[b.row + 1]
           blanks == {n \in 0..Len(below) : \A k \in 1..n : below[k] = " "}
           rest  == Drop(below, Max(blanks))
           gap   == IF line # <<>> /\ rest # <<>> THEN <<" ">> ELSE <<>>
           new   == WithLine(b, line \o gap \o rest)
           ls    == RemoveAt(new.lines, b.row + 1)
<1>1. /\ b.row + 1 \in 1..Len(b.lines) /\ b.lines \in Seq(Line) /\ line \in Line
      /\ Len(line) \in Nat /\ Len(b.lines) \in Nat
  BY Rows
<1>2. below \in Line /\ Len(below) \in Nat
  <2>1. below \in Line
    BY <1>1, ElementOfSeq
  <2> QED
    BY <2>1, LenProperties DEF Line
<1>3. Max(blanks) \in Nat
  <2>1. blanks \in SUBSET (0..Len(below)) /\ blanks # {}
    <3>1. 0 \in 0..Len(below) /\ 1..0 = {}
      BY <1>2
    <3>2. 0 \in blanks
      <4> HIDE DEF below
      <4> QED
        BY <3>1
    <3> QED
      BY <3>2
  <2> HIDE DEF blanks
  <2>2. Max(blanks) \in blanks
    BY <1>2, <2>1, MaxIsIn
  <2>3. Max(blanks) \in 0..Len(below)
    BY <2>1, <2>2
  <2> HIDE DEF below
  <2> QED
    BY <1>2, <2>3
<1>4. line \o gap \o rest \in Line
  <2>1. rest \in Line
    <3> HIDE DEF blanks, below
    <3> QED
      BY <1>2, <1>3, DropIs DEF Line
  <2>2. gap \in Line
    <3>1. <<" ">> \in Line /\ <<>> \in Line
      BY CharsAre, Single, EmptySeq DEF Line
    <3> HIDE DEF rest
    <3> QED
      BY <3>1
  <2> HIDE DEF rest, gap, line
  <2> QED
    BY <1>1, <2>1, <2>2, Between DEF Line
<1> DEFINE joined == line \o gap \o rest
<1> HIDE DEF joined
<1>5. InText(new) /\ new.row = b.row /\ Len(new.lines) = Len(b.lines) /\ new.lines \in Seq(Line)
  <2>1. joined \in Line /\ b.col \in Nat
    BY <1>4, Rows DEF joined
  <2>2. InText(WithLine(b, joined)) /\ WithLine(b, joined).row = b.row
        /\ Len(WithLine(b, joined).lines) = Len(b.lines)
    BY <2>1, WithLineIs
  <2>3. WithLine(b, joined).lines \in Seq(Line)
    BY <2>2, Rows
  <2> QED
    BY <2>2, <2>3 DEF joined
<1>6. Joined(b) = [new EXCEPT !.lines = ls, !.col = Len(line)]
  BY DEF Joined
<1> HIDE DEF new
<1>7. ls \in Seq(Line) /\ Len(ls) = Len(b.lines) - 1
  BY <1>1, <1>5, RemoveAtProperties
<1> HIDE DEF ls, line
<1>8. Joined(b) = [lines |-> ls, row |-> b.row, col |-> Len(line)]
  <2>1. new = [lines |-> new.lines, row |-> new.row, col |-> new.col]
    BY <1>5, Rows
  <2> QED
    BY <1>5, <1>6, <2>1
<1>9. b.row \in 1..Len(ls)
  BY <1>1, <1>7, Rows
<1> QED
  BY <1>1, <1>7, <1>8, <1>9, Builds

LEMMA PastedIs ==
  ASSUME NEW b, InText(b), NEW r \in Registers, NEW before \in BOOLEAN
  PROVE  InText(Pasted(b, r, before))
<1>1. r.lines \in Text /\ r.lines \in Seq(Line) /\ Len(r.lines) \in Nat \ {0}
  BY EmptySeq DEF Registers, Text
<1>2. CASE r.linewise
  <2> DEFINE at  == IF before THEN b.row ELSE b.row + 1
             top == Take(b.lines, at - 1)
             end == Drop(b.lines, at - 1)
             new == top \o r.lines \o end
  <2>1. at - 1 \in 0..Len(b.lines) /\ Len(b.lines) \in Nat /\ b.lines \in Seq(Line) /\ at - 1 \in Nat
    BY Rows
  <2>2. Pasted(b, r, before) = At(new, <<at, 0>>)
    BY <1>2 DEF Pasted
  <2> HIDE DEF at
  <2>3. Least(at - 1, Len(b.lines)) = at - 1
    BY <2>1 DEF Least
  <2>4. top \in Seq(Line) /\ Len(top) = at - 1 /\ end \in Seq(Line) /\ Len(end) \in Nat
    BY <2>1, <2>3, TakeIs, DropIs, LenProperties
  <2> HIDE DEF top, end
  <2>5. new \in Seq(Line) /\ Len(new) = Len(top) + Len(r.lines) + Len(end)
    <3>1. top \in Seq(Line) /\ r.lines \in Seq(Line) /\ end \in Seq(Line)
      BY <1>1, <2>4
    <3> QED
      BY <3>1, Between
  <2> HIDE DEF new
  <2>6. at \in 1..Len(new) /\ 0 \in Nat
    <3>1. at \in Nat \ {0}
      BY Rows DEF at
    <3> QED
      BY <1>1, <2>1, <2>4, <2>5, <3>1
  <2> QED
    BY <2>2, <2>5, <2>6, Builds
<1>3. CASE ~r.linewise
  <2> DEFINE col == IF before THEN b.col ELSE Least(b.col + 1, Len(LineOf(b)))
  <2>1. col \in Nat
    BY Rows DEF Least
  <2>2. Pasted(b, r, before) = InsertMultiline([b EXCEPT !.col = col], r.lines)
    BY <1>3 DEF Pasted
  <2> HIDE DEF col
  <2>3. InText([b EXCEPT !.col = col])
    BY <2>1, WithColIs
  <2> QED
    BY <1>1, <2>2, <2>3, InsertMultilineIs
<1> QED
  BY <1>2, <1>3

(* Pieces put together: the recursive function of FlattenSeq exists, since  *)
(* the least length at which it would not is neither zero nor more, and all *)
(* that it puts together are sequences.                                     *)
Flattens(f, ss) ==
    f = [i \in 1..Len(ss) |-> IF i = 1 THEN ss[i] ELSE f[i - 1] \o ss[i]]

LEMMA FlatteningExists ==
  ASSUME NEW ss, Len(ss) \in Nat
  PROVE  \E f : Flattens(f, ss)
<1> DEFINE n == Len(ss)
           Rule(f, i) == f[i] = IF i = 1 THEN ss[i] ELSE f[i - 1] \o ss[i]
           Upto(f, m) == \A i \in 1..n : i <= m => Rule(f, i)
           Bad == {m \in Nat : ~ \E f : Upto(f, m)}
<1>1. Bad = {}
  <2> SUFFICES ASSUME Bad # {} PROVE FALSE
    OBVIOUS
  <2>1. PICK m \in Bad : \A k \in Bad : m <= k
    <3>1. Bad \in SUBSET Nat
      OBVIOUS
    <3> HIDE DEF Bad
    <3> QED
      BY <3>1, LeastExists
  <2>2. m \in Nat /\ ~ \E f : Upto(f, m)
    BY <2>1
  <2>3. m # 0
    <3>1. Upto(<<>>, 0)
      OBVIOUS
    <3> HIDE DEF Upto
    <3> QED
      BY <2>2, <3>1
  <2>4. PICK f : Upto(f, m - 1)
    <3>1. m - 1 \in Nat /\ ~(m <= m - 1)
      BY <2>2, <2>3
    <3>2. m - 1 \notin Bad
      <4> HIDE DEF Bad
      <4> QED
        BY <2>1, <3>1
    <3> HIDE DEF Upto
    <3> QED
      BY <3>1, <3>2
  <2> DEFINE h == [i \in 1..n |-> IF i < m THEN f[i]
                                  ELSE IF i = 1 THEN ss[i] ELSE f[i - 1] \o ss[i]]
  <2>5. ASSUME NEW i \in 1..n, i <= m
        PROVE  Rule(h, i)
    <3>1. CASE i < m
      <4>1. Rule(f, i) /\ h[i] = f[i]
        BY <2>2, <2>4, <3>1
      <4>2. i # 1 => i - 1 \in 1..n /\ i - 1 < m
        BY <2>2, <3>1
      <4> QED
        BY <4>1, <4>2
    <3>2. CASE ~(i < m)
      <4>1. i # 1 => i - 1 \in 1..n /\ i - 1 < m
        BY <2>2, <2>5
      <4>2. i # 1 => h[i - 1] = f[i - 1]
        BY <4>1
      <4> QED
        BY <3>2, <4>2
    <3> QED
      BY <3>1, <3>2
  <2>6. Upto(h, m)
    BY <2>5
  <2> QED
    BY <2>2, <2>6
<1>2. PICK f : Upto(f, n)
  <2> HIDE DEF Upto
  <2> QED
    BY <1>1
<1> DEFINE g == [i \in 1..n |-> f[i]]
<1>3. \A i \in 1..n : Rule(g, i)
  <2> TAKE i \in 1..n
  <2>1. Rule(f, i)
    BY <1>2
  <2>2. i # 1 => i - 1 \in 1..n
    OBVIOUS
  <2> QED
    BY <2>1, <2>2
<1>4. Flattens(g, ss)
  <2> DEFINE value == [i \in 1..n |-> IF i = 1 THEN ss[i] ELSE g[i - 1] \o ss[i]]
  <2>1. \A i \in 1..n : g[i] = value[i]
    BY <1>3
  <2>2. g = value
    <3> HIDE DEF Rule
    <3> QED
      BY <2>1
  <2> QED
    BY <2>2 DEF Flattens
<1> QED
  BY <1>4

LEMMA FlattenIs ==
  ASSUME NEW S, NEW ss \in Seq(Seq(S))
  PROVE  FlattenSeq(ss) \in Seq(S)
<1>1. Len(ss) \in Nat /\ \A i \in 1..Len(ss) : ss[i] \in Seq(S)
  BY LenProperties, ElementOfSeq
<1> DEFINE f == CHOOSE f : Flattens(f, ss)
           Bad == {i \in 1..Len(ss) : f[i] \notin Seq(S)}
<1>2. Flattens(f, ss)
  BY <1>1, FlatteningExists
<1>3. FlattenSeq(ss) = IF Len(ss) = 0 THEN ss ELSE f[Len(ss)]
  BY DEF FlattenSeq, Flattens
<1> HIDE DEF f
<1>4. \A i \in 1..Len(ss) : f[i] = IF i = 1 THEN ss[i] ELSE f[i - 1] \o ss[i]
  BY <1>2 DEF Flattens
<1>5. Bad = {}
  <2> SUFFICES ASSUME Bad # {} PROVE FALSE
    OBVIOUS
  <2>1. PICK i \in Bad : \A k \in Bad : i <= k
    <3>1. Bad \in SUBSET Nat
      OBVIOUS
    <3> HIDE DEF Bad
    <3> QED
      BY <3>1, LeastExists
  <2>2. i \in 1..Len(ss) /\ f[i] \notin Seq(S)
    BY <2>1
  <2>3. i # 1 => i - 1 \in 1..Len(ss) /\ ~(i <= i - 1)
    BY <1>1, <2>2
  <2>4. i # 1 => f[i - 1] \in Seq(S)
    BY <2>1, <2>3
  <2> HIDE DEF Bad
  <2>5. CASE i = 1
    BY <1>1, <1>4, <2>2, <2>5
  <2>6. CASE i # 1
    <3>1. f[i - 1] \o ss[i] \in Seq(S)
      BY <1>1, <2>2, <2>4, <2>6, ConcatProperties
    <3> QED
      BY <1>4, <2>2, <2>6, <3>1
  <2> QED
    BY <2>5, <2>6
<1>6. CASE Len(ss) = 0
  <2>1. ss = <<>>
    BY <1>6, EmptySeq
  <2> QED
    BY <1>3, <1>6, <2>1, EmptySeq
<1>7. CASE Len(ss) # 0
  <2>1. Len(ss) \in 1..Len(ss)
    BY <1>1, <1>7
  <2> QED
    BY <1>3, <1>5, <1>7, <2>1
<1> QED
  BY <1>6, <1>7

LEMMA ReplacedIs ==
  ASSUME NEW line \in Line, NEW c, NEW by \in Line, NEW all
  PROVE  Replaced(line, c, by, all) \in Line
<1> DEFINE these == IF all THEN {i \in DOMAIN line : line[i] = c}
                    ELSE {Min({i \in DOMAIN line : line[i] = c})}
           parts == [i \in 1..Len(line) |-> IF i \in these THEN by ELSE <<line[i]>>]
<1>1. Len(line) \in Nat /\ DOMAIN line = 1..Len(line) /\ \A i \in 1..Len(line) : line[i] \in Chars
  BY LenProperties, ElementOfSeq DEF Line
<1>2. parts \in [1..Len(line) -> Line]
  <2>1. \A i \in 1..Len(line) : <<line[i]>> \in Line
    BY <1>1, Single DEF Line
  <2> HIDE DEF these
  <2> QED
    BY <2>1
<1>3. Replaced(line, c, by, all) = FlattenSeq(parts)
  BY <1>1 DEF Replaced
<1> HIDE DEF parts
<1>4. parts \in Seq(Line)
  BY <1>1, <1>2, FunctionIsSeq
<1> QED
  BY <1>3, <1>4, FlattenIs DEF Line

(* Edits within a line.                                                     *)
LEMMA LineEdits ==
  ASSUME NEW line \in Line, NEW i \in 1..Len(line)
  PROVE  /\ RemoveAt(line, i) \in Line /\ <<line[i]>> \in Line
         /\ [line EXCEPT ![i] = Toggled(@)] \in Line
<1>1. line \in Seq(Chars) /\ line[i] \in Chars
  BY ElementOfSeq DEF Line
<1>2. Toggled(line[i]) \in Chars
  BY <1>1, CharsAre DEF Toggled
<1>3. RemoveAt(line, i) \in Line /\ <<line[i]>> \in Line
  BY <1>1, RemoveAtProperties, Single DEF Line
<1>4. [line EXCEPT ![i] = Toggled(line[i])] \in Line
  BY <1>1, <1>2, ExceptSeq DEF Line
<1> QED
  BY <1>3, <1>4

LEMMA Indented ==
  ASSUME NEW line \in Line
  PROVE  /\ [i \in 1..IndentWidth |-> " "] \o line \in Line
         /\ Leading(line) \in Nat /\ IndentWidth \in Nat
<1>1. IndentWidth \in Nat
  BY QueryEditorAssumption
<1>2. [i \in 1..IndentWidth |-> " "] \o line \in Line
  <2> DEFINE blanks == [i \in 1..IndentWidth |-> " "]
  <2>1. blanks \in [1..IndentWidth -> Chars]
    BY CharsAre
  <2> HIDE DEF blanks
  <2>2. blanks \in Seq(Chars)
    BY <1>1, <2>1, FunctionIsSeq
  <2> QED
    BY <2>2, ConcatProperties DEF Line, blanks
<1>3. Leading(line) \in Nat
  <2> DEFINE n == Least(Len(line), IndentWidth)
             blank == {k \in 0..n : \A j \in 1..k : line[j] = " "}
  <2>1. n \in Nat
    BY <1>1, LenProperties DEF Line, Least
  <2> HIDE DEF n
  <2>2. blank \in SUBSET (0..n) /\ blank # {}
    <3>1. 0 \in 0..n /\ 1..0 = {}
      BY <2>1
    <3>2. 0 \in blank
      BY <3>1
    <3> QED
      BY <3>2
  <2>3. Leading(line) = Max(blank)
    BY DEF Leading, n
  <2> HIDE DEF blank
  <2>4. Max(blank) \in blank
    BY <2>1, <2>2, MaxIsIn
  <2>5. Max(blank) \in 0..n
    BY <2>2, <2>4
  <2> QED
    BY <2>1, <2>3, <2>5
<1> QED
  BY <1>1, <1>2, <1>3

(* A line opened.                                                           *)
LEMMA OpenedIs ==
  ASSUME NEW b, InText(b), NEW r \in 1..(Len(b.lines) + 1)
  PROVE  InText(At(InsertAt(b.lines, r, <<>>), <<r, 0>>))
<1> DEFINE top == SubSeq(b.lines, 1, r - 1)
           end == SubSeq(b.lines, r, Len(b.lines))
<1>1. /\ b.lines \in Seq(Line) /\ Len(b.lines) \in Nat /\ r \in Nat \ {0}
      /\ r - 1 \in Int /\ r - 1 <= Len(b.lines) /\ 1 \in Nat \ {0}
      /\ Len(b.lines) \in Int /\ Len(b.lines) <= Len(b.lines)
  BY Rows
<1>2. top \in Seq(Line) /\ Len(top) = IF 1 <= r - 1 THEN r - 1 - 1 + 1 ELSE 0
  BY <1>1, Piece
<1>3. end \in Seq(Line) /\ Len(end) \in Nat
  BY <1>1, Piece, LenProperties
<1>4. <<  <<>> >> \in Seq(Line) /\ Len(<< <<>> >>) = 1
  BY EmptySeq, Single DEF Line
<1> DEFINE new == top \o << <<>> >> \o end
<1>5. InsertAt(b.lines, r, <<>>) = new
  BY DEF InsertAt
<1> HIDE DEF top, end
<1>6. new \in Seq(Line) /\ Len(new) = Len(top) + 1 + Len(end)
  BY <1>2, <1>3, <1>4, Between
<1> HIDE DEF new
<1>7. r \in 1..Len(new) /\ 0 \in Nat
  BY <1>1, <1>2, <1>3, <1>6
<1> QED
  BY <1>5, <1>6, <1>7, Builds

(* `:s` on some of the rows.                                                *)
Substituted(b, c, by, all, rows) ==
    [b EXCEPT !.lines = [r \in DOMAIN @ |-> IF r \in rows
                             THEN Replaced(@[r], c, by, all) ELSE @[r]],
              !.row = Max(rows)]

LEMMA SubstitutedIs ==
  ASSUME NEW b, InText(b), NEW c, NEW by \in Line, NEW all,
         NEW rows \in SUBSET (1..Len(b.lines)), rows # {}
  PROVE  InText(Substituted(b, c, by, all, rows))
<1> DEFINE n  == Len(b.lines)
           ls == [r \in 1..n |-> IF r \in rows THEN Replaced(b.lines[r], c, by, all)
                                 ELSE b.lines[r]]
<1>1. n \in Nat /\ DOMAIN b.lines = 1..n /\ \A r \in 1..n : b.lines[r] \in Line
  BY Rows, ElementOfSeq
<1>2. ls \in Seq(Line) /\ Len(ls) = n
  <2>1. \A r \in 1..n : Replaced(b.lines[r], c, by, all) \in Line
    BY <1>1, ReplacedIs
  <2>2. ls \in [1..n -> Line]
    BY <1>1, <2>1
  <2> HIDE DEF ls, n
  <2> QED
    BY <1>1, <2>2, FunctionIsSeq
<1>3. Max(rows) \in 1..n
  <2>1. rows \in SUBSET (0..n)
    BY <1>1
  <2>2. Max(rows) \in rows
    BY <1>1, <2>1, MaxIsIn
  <2> QED
    BY <2>2
<1>4. [b EXCEPT !.lines = [r \in DOMAIN @ |-> IF r \in rows
                               THEN Replaced(@[r], c, by, all) ELSE @[r]],
                !.row = Max(rows)]
      = [lines |-> ls, row |-> Max(rows), col |-> b.col]
  <2>1. ASSUME NEW r, NEW t, NEW x, x = [b EXCEPT !.lines = t, !.row = r]
        PROVE  x = [lines |-> t, row |-> r, col |-> b.col]
    <3>1. b = [lines |-> b.lines, row |-> b.row, col |-> b.col]
      BY Rows
    <3> QED
      BY <2>1, <3>1
  <2>2. [r \in DOMAIN b.lines |-> IF r \in rows THEN Replaced(b.lines[r], c, by, all)
                                  ELSE b.lines[r]] = ls
    BY <1>1
  <2> HIDE DEF ls
  <2>3. [b EXCEPT !.lines = ls, !.row = Max(rows)] = [lines |-> ls, row |-> Max(rows), col |-> b.col]
    BY <2>1
  <2> QED
    BY <2>2, <2>3
<1> HIDE DEF ls
<1>5. b.col \in Nat /\ Max(rows) \in 1..Len(ls)
  BY <1>2, <1>3, Rows
<1>6. InText([lines |-> ls, row |-> Max(rows), col |-> b.col])
  BY <1>2, <1>5, Builds
<1> QED
  BY <1>4, <1>6 DEF Substituted

-----------------------------------------------------------------------------
(* Spots: the positions with a character, and the start of an empty line,   *)
(* in the order of reading.                                                 *)
LEMMA SpotIs ==
  ASSUME NEW ls \in Text, NEW p \in Spots(ls)
  PROVE  /\ p = <<p[1], p[2]>> /\ p \in Nat \X Nat /\ p \in (1..Len(ls)) \X Nat
         /\ p[1] \in 1..Len(ls) /\ p[2] \in Nat
         /\ Len(ls[p[1]]) \in Nat /\ p[2] <= Minus(Len(ls[p[1]]), 1)
<1>1. ls \in Seq(Line) /\ DOMAIN ls = 1..Len(ls) /\ Len(ls) \in Nat
  BY LenProperties DEF Text
<1>2. \A r \in 1..Len(ls) : Len(ls[r]) \in Nat
  BY <1>1, ElementOfSeq, LenProperties DEF Line
<1>3. PICK r \in 1..Len(ls) : p \in {r} \X (0..Minus(Len(ls[r]), 1))
  BY <1>1 DEF Spots
<1>4. p = <<p[1], p[2]>> /\ p[1] = r /\ p[2] \in 0..Minus(Len(ls[r]), 1)
  BY <1>3
<1>5. Minus(Len(ls[r]), 1) \in Nat
  BY <1>2, <1>3 DEF Minus
<1>6. p[2] \in Nat /\ p[2] <= Minus(Len(ls[r]), 1) /\ r \in Nat
  BY <1>1, <1>3, <1>4, <1>5
<1> QED
  BY <1>2, <1>3, <1>4, <1>6

LEMMA IsSpot ==
  ASSUME NEW ls \in Text, NEW r \in 1..Len(ls), NEW c \in Nat, c <= Minus(Len(ls[r]), 1)
  PROVE  <<r, c>> \in Spots(ls)
<1>1. ls \in Seq(Line) /\ DOMAIN ls = 1..Len(ls)
  BY LenProperties DEF Text
<1>2. Len(ls[r]) \in Nat
  BY <1>1, ElementOfSeq, LenProperties DEF Line
<1>3. c \in 0..Minus(Len(ls[r]), 1)
  BY <1>2 DEF Minus
<1>4. <<r, c>> \in {r} \X (0..Minus(Len(ls[r]), 1))
  BY <1>3
<1> QED
  BY <1>1, <1>4 DEF Spots

(* The order of reading is total.                                           *)
LEMMA Reading ==
  ASSUME NEW p \in Nat \X Nat, NEW q \in Nat \X Nat
  PROVE  /\ Before(p, q) \/ Before(q, p)
         /\ Before(p, q) /\ Before(q, p) => p = q
         /\ Before(p, p)
         /\ \A r \in Nat \X Nat : Before(p, q) /\ Before(q, r) => Before(p, r)
<1>1. \A s \in Nat \X Nat : s = <<s[1], s[2]>> /\ s[1] \in Nat /\ s[2] \in Nat
  OBVIOUS
<1>2. /\ Before(p, q) \/ Before(q, p)
      /\ Before(p, q) /\ Before(q, p) => p[1] = q[1] /\ p[2] = q[2]
      /\ Before(p, p)
  BY <1>1 DEF Before
<1>3. \A r \in Nat \X Nat : Before(p, q) /\ Before(q, r) => Before(p, r)
  <2> TAKE r \in Nat \X Nat
  <2>1. p[1] \in Nat /\ p[2] \in Nat /\ q[1] \in Nat /\ q[2] \in Nat /\ r[1] \in Nat /\ r[2] \in Nat
    BY <1>1
  <2> QED
    BY <2>1 DEF Before
<1> QED
  BY <1>1, <1>2, <1>3

LEMMA EarliestIs ==
  ASSUME NEW S \in SUBSET (Nat \X Nat), S # {}
  PROVE  Earliest(S) \in S /\ \A q \in S : Before(Earliest(S), q)
<1>0. \A q \in S : q = <<q[1], q[2]>> /\ q[1] \in Nat /\ q[2] \in Nat
  OBVIOUS
<1> DEFINE Firsts == {q[1] : q \in S}
<1>1. PICK r \in Firsts : \A x \in Firsts : r <= x
  <2>1. Firsts \in SUBSET Nat /\ Firsts # {}
    BY <1>0
  <2> HIDE DEF Firsts
  <2> QED
    BY <2>1, LeastExists
<1> DEFINE Seconds == {q[2] : q \in {s \in S : s[1] = r}}
<1>2. PICK c \in Seconds : \A x \in Seconds : c <= x
  <2>1. Seconds \in SUBSET Nat /\ Seconds # {}
    BY <1>0, <1>1
  <2> HIDE DEF Seconds
  <2> QED
    BY <2>1, LeastExists
<1>3. PICK p \in S : p[1] = r /\ p[2] = c
  BY <1>2
<1>4. \A q \in S : Before(p, q)
  <2> TAKE q \in S
  <2>1. r <= q[1] /\ (q[1] = r => c <= q[2]) /\ r \in Nat /\ q[1] \in Nat
    BY <1>0, <1>1, <1>2, <1>3
  <2> QED
    BY <1>3, <2>1 DEF Before
<1> QED
  BY <1>3, <1>4 DEF Earliest

LEMMA LatestIs ==
  ASSUME NEW ls \in Text, NEW S \in SUBSET Spots(ls), S # {}
  PROVE  Latest(S) \in S /\ \A q \in S : Before(q, Latest(S))
<1>0. /\ \A q \in S : /\ q[1] \in 1..Len(ls) /\ q[2] \in Nat /\ q[1] \in Nat
                      /\ Len(ls[q[1]]) \in Nat /\ q[2] <= Minus(Len(ls[q[1]]), 1)
      /\ Len(ls) \in Nat
  BY SpotIs, LenProperties DEF Text
<1> DEFINE Firsts == {q[1] : q \in S}
           r == Max(Firsts)
<1>1. r \in Firsts /\ \A x \in Firsts : x <= r
  <2>1. Firsts \in SUBSET (0..Len(ls)) /\ Firsts # {}
    BY <1>0
  <2> HIDE DEF Firsts
  <2> QED
    BY <1>0, <2>1, MaxIsIn
<1> HIDE DEF r
<1> DEFINE Seconds == {q[2] : q \in {s \in S : s[1] = r}}
           c == Max(Seconds)
<1>2. c \in Seconds /\ \A x \in Seconds : x <= c
  <2> DEFINE last == Minus(Len(ls[r]), 1)
  <2>1. Len(ls[r]) \in Nat
    BY <1>0, <1>1
  <2>2. last \in Nat
    BY <2>1 DEF Minus
  <2>3. \A s \in S : s[1] = r => s[2] \in 0..last
    BY <1>0, <2>2
  <2> HIDE DEF last
  <2>4. Seconds \in SUBSET (0..last) /\ Seconds # {}
    BY <1>1, <2>3
  <2> HIDE DEF Seconds
  <2> QED
    BY <2>2, <2>4, MaxIsIn
<1> HIDE DEF c
<1>3. PICK p \in S : p[1] = r /\ p[2] = c
  BY <1>2
<1>4. \A q \in S : Before(q, p)
  <2> TAKE q \in S
  <2>1. q[1] <= r /\ (q[1] = r => q[2] <= c) /\ r \in Nat /\ q[1] \in Nat
    BY <1>0, <1>1, <1>2, <1>3
  <2> QED
    BY <1>3, <2>1 DEF Before
<1> QED
  BY <1>3, <1>4 DEF Latest

(* The next and the previous spot.                                          *)
LEMMA NextIs ==
  ASSUME NEW ls \in Text, NEW p \in Spots(ls), NextPos(ls, p) # None
  PROVE  NextPos(ls, p) \in Spots(ls) /\ Before(p, NextPos(ls, p))
<1>1. /\ p[1] \in 1..Len(ls) /\ p[2] \in Nat /\ Len(ls[p[1]]) \in Nat
      /\ p[2] <= Minus(Len(ls[p[1]]), 1) /\ Len(ls) \in Nat
  BY SpotIs, LenProperties DEF Text
<1>2. CASE p[2] + 1 < Len(ls[p[1]])
  <2>1. p[2] + 1 \in Nat /\ p[2] + 1 <= Minus(Len(ls[p[1]]), 1) /\ p[1] \in Nat
    BY <1>1, <1>2 DEF Minus
  <2>2. NextPos(ls, p) = <<p[1], p[2] + 1>>
    BY <1>1, <1>2 DEF NextPos
  <2> QED
    BY <1>1, <2>1, <2>2, IsSpot DEF Before
<1>3. CASE ~(p[2] + 1 < Len(ls[p[1]]))
  <2>1. p[2] + 1 >= Len(ls[p[1]])
    BY <1>1, <1>3
  <2>2. p[1] < Len(ls) /\ NextPos(ls, p) = <<p[1] + 1, 0>>
    BY <1>3, <2>1 DEF NextPos
  <2>3. p[1] + 1 \in 1..Len(ls) /\ 0 \in Nat /\ p[1] < p[1] + 1
    BY <1>1, <2>2
  <2>4. 0 <= Minus(Len(ls[p[1] + 1]), 1)
    <3>1. Len(ls[p[1] + 1]) \in Nat
      BY <2>3, ElementOfSeq, LenProperties DEF Text, Line
    <3> QED
      BY <3>1 DEF Minus
  <2> QED
    BY <2>2, <2>3, <2>4, IsSpot DEF Before
<1> QED
  BY <1>2, <1>3

LEMMA PrevIs ==
  ASSUME NEW ls \in Text, NEW p \in Spots(ls)
  PROVE  /\ PrevPos(ls, p) # None =>
               PrevPos(ls, p) \in Spots(ls) /\ Before(PrevPos(ls, p), p)
         /\ \A q \in Spots(ls) : q # p /\ Before(q, p) =>
               PrevPos(ls, p) # None /\ Before(q, PrevPos(ls, p))
<1>1. /\ p = <<p[1], p[2]>> /\ p[1] \in 1..Len(ls) /\ p[2] \in Nat /\ Len(ls[p[1]]) \in Nat
      /\ p[2] <= Minus(Len(ls[p[1]]), 1) /\ Len(ls) \in Nat
  BY SpotIs, LenProperties DEF Text
<1>2. ASSUME NEW q \in Spots(ls)
      PROVE  /\ q = <<q[1], q[2]>> /\ q[1] \in Nat \ {0} /\ q[2] \in Nat
             /\ q[2] <= Minus(Len(ls[q[1]]), 1)
  <2>1. /\ q = <<q[1], q[2]>> /\ q[1] \in 1..Len(ls) /\ q[2] \in Nat
        /\ q[2] <= Minus(Len(ls[q[1]]), 1)
    BY SpotIs
  <2> QED
    BY <1>1, <2>1
<1>3. \A x \in Nat \X Nat : x # None
  BY QueryEditorAssumption
<1>4. CASE p[2] > 0
  <2>1. PrevPos(ls, p) = <<p[1], p[2] - 1>>
    BY <1>1, <1>4 DEF PrevPos
  <2>2. p[2] - 1 \in Nat /\ p[2] - 1 <= Minus(Len(ls[p[1]]), 1) /\ p[1] \in Nat
    BY <1>1, <1>4 DEF Minus
  <2>3. <<p[1], p[2] - 1>> \in Spots(ls) /\ <<p[1], p[2] - 1>> # None
    BY <1>1, <1>3, <2>2, IsSpot
  <2>4. Before(<<p[1], p[2] - 1>>, p)
    BY <1>1, <2>2 DEF Before
  <2>5. ASSUME NEW q \in Spots(ls), q # p, Before(q, p)
        PROVE  Before(q, <<p[1], p[2] - 1>>)
    <3>1. q[1] = p[1] => q[2] # p[2]
      BY <1>1, <1>2, <2>5
    <3>2. q[1] \in Nat /\ q[2] \in Nat
      BY <1>2
    <3> QED
      BY <1>1, <2>5, <3>1, <3>2 DEF Before
  <2> QED
    BY <2>1, <2>3, <2>4, <2>5
<1>5. CASE ~(p[2] > 0) /\ p[1] > 1
  <2> DEFINE r == p[1] - 1
             c == Minus(Len(ls[r]), 1)
  <2>1. PrevPos(ls, p) = <<r, c>>
    <3>1. p[2] = 0
      BY <1>1, <1>5
    <3> QED
      BY <1>5, <3>1 DEF PrevPos
  <2>2. r \in 1..Len(ls) /\ r \in Nat /\ p[1] = r + 1
    BY <1>1, <1>5
  <2>3. c \in Nat /\ c <= Minus(Len(ls[r]), 1)
    <3> HIDE DEF r
    <3>1. Len(ls[r]) \in Nat
      BY <2>2, ElementOfSeq, LenProperties DEF Text, Line
    <3> QED
      BY <3>1 DEF Minus
  <2> HIDE DEF r
  <2>4. \A q \in Spots(ls) : q[1] = r => q[2] <= c
    BY <1>2
  <2> HIDE DEF c
  <2>5. <<r, c>> \in Spots(ls) /\ <<r, c>> # None
    <3>1. c <= Minus(Len(ls[r]), 1)
      BY <2>3
    <3> QED
      BY <1>3, <2>2, <2>3, <3>1, IsSpot
  <2>6. Before(<<r, c>>, p)
    BY <2>2 DEF Before
  <2>7. ASSUME NEW q \in Spots(ls), q # p, Before(q, p)
        PROVE  Before(q, <<r, c>>)
    <3>1. q[1] = p[1] => q[2] # p[2]
      BY <1>1, <1>2, <2>7
    <3>2. q[1] \in Nat /\ q[2] \in Nat
      BY <1>2
    <3>3. q[1] < p[1]
      BY <1>1, <1>5, <2>7, <3>1, <3>2 DEF Before
    <3> QED
      BY <2>2, <2>4, <3>2, <3>3 DEF Before
  <2> QED
    BY <2>1, <2>5, <2>6, <2>7
<1>6. CASE ~(p[2] > 0) /\ ~(p[1] > 1)
  <2>1. p[1] = 1 /\ p[2] = 0 /\ PrevPos(ls, p) = None
    BY <1>1, <1>6 DEF PrevPos
  <2>2. ASSUME NEW q \in Spots(ls), q # p
        PROVE  ~Before(q, p)
    <3>1. q[1] \in Nat \ {0} /\ q[2] \in Nat /\ (q[1] = p[1] => q[2] # p[2])
      BY <1>1, <1>2, <2>2
    <3> QED
      BY <2>1, <3>1 DEF Before
  <2> QED
    BY <2>1, <2>2
<1> QED
  BY <1>4, <1>5, <1>6

(* The words of a motion end on a spot, since both ends of the text end it. *)
LEMMA AdvanceIs ==
  ASSUME NEW ls \in Text, NEW from \in Spots(ls), NEW class
  PROVE  /\ AdvanceWhile(ls, from, class) \in Spots(ls)
         /\ Before(from, AdvanceWhile(ls, from, class))
<1> DEFINE Ends == {p \in Spots(ls) :
                       /\ Before(from, p)
                       /\ \/ ClassAt(ls, p) # class \/ NextPos(ls, p) = None
                          \/ class # "space" /\ p[1] # from[1]}
           n == Len(ls)
           last == <<n, Minus(Len(ls[n]), 1)>>
<1>1. n \in Nat \ {0} /\ n \in 1..n /\ ls \in Seq(Line)
  BY EmptySeq DEF Text
<1>2. Len(ls[n]) \in Nat /\ Minus(Len(ls[n]), 1) \in Nat
  <2>1. ls[n] \in Line
    BY <1>1, ElementOfSeq
  <2>2. Len(ls[n]) \in Nat
    BY <2>1, LenProperties DEF Line
  <2> QED
    BY <2>2 DEF Minus
<1>3. last \in Spots(ls)
  <2>1. Minus(Len(ls[n]), 1) <= Minus(Len(ls[n]), 1)
    BY <1>2
  <2> QED
    BY <1>1, <1>2, <2>1, IsSpot
<1>4. Before(from, last)
  <2>1. from[1] \in 1..n /\ from[2] \in Nat /\ from[2] <= Minus(Len(ls[from[1]]), 1)
    BY SpotIs
  <2> QED
    BY <1>1, <1>2, <2>1 DEF Before
<1>5. NextPos(ls, last) = None
  <2>1. ~(Minus(Len(ls[n]), 1) + 1 < Len(ls[n])) /\ ~(n < n)
    BY <1>1, <1>2 DEF Minus
  <2> QED
    BY <2>1 DEF NextPos
<1>6. last \in Ends
  <2> HIDE DEF last
  <2> QED
    BY <1>3, <1>4, <1>5
<1>7. Ends \in SUBSET (Nat \X Nat)
  BY SpotIs
<1>8. AdvanceWhile(ls, from, class) = Earliest(Ends)
  BY DEF AdvanceWhile
<1>9. Earliest(Ends) \in Ends
  <2> HIDE DEF Ends, last
  <2> QED
    BY <1>6, <1>7, EarliestIs
<1> QED
  BY <1>8, <1>9

LEMMA RetreatIs ==
  ASSUME NEW ls \in Text, NEW from \in Spots(ls)
  PROVE  RetreatOverSpace(ls, from) \in Spots(ls)
<1> DEFINE Ends == {p \in Spots(ls) :
                       Before(p, from) /\ (ClassAt(ls, p) # "space" \/ PrevPos(ls, p) = None)}
           first == <<1, 0>>
<1>1. from[1] \in 1..Len(ls) /\ from[2] \in Nat /\ Len(ls) \in Nat
  BY SpotIs, LenProperties DEF Text
<1>2. first \in Spots(ls)
  <2>1. 1 \in 1..Len(ls) /\ 0 \in Nat
    BY <1>1
  <2>2. Len(ls[1]) \in Nat
    BY <2>1, ElementOfSeq, LenProperties DEF Text, Line
  <2>3. 0 <= Minus(Len(ls[1]), 1)
    BY <2>2 DEF Minus
  <2> QED
    BY <2>1, <2>3, IsSpot
<1>3. Before(first, from)
  BY <1>1 DEF Before
<1>4. PrevPos(ls, first) = None
  BY DEF PrevPos
<1>5. first \in Ends
  <2> HIDE DEF first
  <2> QED
    BY <1>2, <1>3, <1>4
<1>6. RetreatOverSpace(ls, from) = Latest(Ends)
  BY DEF RetreatOverSpace
<1>7. Latest(Ends) \in Ends
  <2>1. Ends \in SUBSET Spots(ls)
    OBVIOUS
  <2> HIDE DEF Ends, first
  <2> QED
    BY <1>5, <2>1, LatestIs
<1> QED
  BY <1>6, <1>7

LEMMA RunIs ==
  ASSUME NEW ls \in Text, NEW p \in Spots(ls), NEW class
  PROVE  /\ RunStart(ls, p, class) \in Spots(ls) /\ Before(RunStart(ls, p, class), p)
         /\ RunEnd(ls, p, class) \in Spots(ls) /\ Before(p, RunEnd(ls, p, class))
<1>1. /\ p[1] \in 1..Len(ls) /\ p[2] \in Nat /\ Len(ls[p[1]]) \in Nat
      /\ p[2] <= Minus(Len(ls[p[1]]), 1) /\ Minus(Len(ls[p[1]]), 1) \in Nat
  <2>1. /\ p[1] \in 1..Len(ls) /\ p[2] \in Nat /\ Len(ls[p[1]]) \in Nat
        /\ p[2] <= Minus(Len(ls[p[1]]), 1)
    BY SpotIs
  <2> QED
    BY <2>1 DEF Minus
<1>2. RunStart(ls, p, class) \in Spots(ls) /\ Before(RunStart(ls, p, class), p)
  <2> DEFINE Starts == {c \in 0..p[2] : \A k \in c..(p[2] - 1) : ClassAt(ls, <<p[1], k>>) = class}
             c == Min(Starts)
  <2>1. Starts \in SUBSET (0..p[2])
    OBVIOUS
  <2>2. p[2] \in Starts
    <3>1. p[2] \in 0..p[2] /\ p[2]..(p[2] - 1) = {}
      BY <1>1
    <3> QED
      BY <3>1
  <2>3. RunStart(ls, p, class) = <<p[1], c>>
    BY DEF RunStart
  <2> HIDE DEF Starts
  <2>4. c \in Starts
    <3>1. Starts \in SUBSET Nat
      BY <1>1, <2>1
    <3> QED
      BY <2>2, <3>1, MinIsIn
  <2>5. c \in 0..p[2]
    BY <2>1, <2>4
  <2> HIDE DEF c
  <2>6. c \in Nat /\ c <= p[2] /\ c <= Minus(Len(ls[p[1]]), 1)
    BY <1>1, <2>5
  <2> QED
    BY <1>1, <2>3, <2>6, IsSpot DEF Before
<1>3. RunEnd(ls, p, class) \in Spots(ls) /\ Before(p, RunEnd(ls, p, class))
  <2> DEFINE len  == Len(ls[p[1]])
             far  == Max({p[2], len - 1})
             Stops == {c \in p[2]..far : \A k \in (p[2] + 1)..c : ClassAt(ls, <<p[1], k>>) = class}
             c == Max(Stops)
  <2>1. far \in Nat /\ far <= Minus(len, 1) /\ p[2] <= far
    <3> DEFINE more == IF p[2] >= len - 1 THEN p[2] ELSE len - 1
    <3> HIDE DEF len
    <3>1. len \in Nat /\ p[2] <= Minus(len, 1)
      BY <1>1 DEF len
    <3>2. more \in {p[2], len - 1} /\ \A y \in {p[2], len - 1} : more >= y
      BY <1>1, <3>1
    <3>3. far \in {p[2], len - 1} /\ \A y \in {p[2], len - 1} : far >= y
      <4> HIDE DEF more
      <4> QED
        BY <3>2 DEF Max
    <3>4. far \in {p[2], len - 1} /\ far >= p[2] /\ far >= len - 1
      BY <3>3
    <3> HIDE DEF far
    <3> QED
      BY <1>1, <3>1, <3>4 DEF Minus
  <2> HIDE DEF far
  <2>2. Stops \in SUBSET (0..far)
    BY <1>1, <2>1
  <2>3. p[2] \in Stops
    <3>1. p[2] \in p[2]..far /\ (p[2] + 1)..p[2] = {}
      BY <1>1, <2>1
    <3> QED
      BY <3>1
  <2>4. RunEnd(ls, p, class) = <<p[1], c>>
    BY DEF RunEnd, far
  <2>5. Stops \in SUBSET (p[2]..far)
    OBVIOUS
  <2> HIDE DEF Stops, len
  <2>6. c \in Stops
    BY <2>1, <2>2, <2>3, MaxIsIn
  <2>7. c \in p[2]..far
    BY <2>5, <2>6
  <2> HIDE DEF c
  <2>8. c \in Nat /\ p[2] <= c /\ c <= Minus(Len(ls[p[1]]), 1)
    <3>1. Minus(len, 1) \in Nat /\ far <= Minus(len, 1)
      BY <1>1, <2>1 DEF len
    <3>2. c \in Nat /\ p[2] <= c /\ c <= Minus(len, 1)
      BY <1>1, <2>1, <2>7, <3>1
    <3> QED
      BY <3>2 DEF len
  <2> QED
    BY <1>1, <2>4, <2>8, IsSpot DEF Before
<1> QED
  BY <1>2, <1>3

LEMMA WordsAre ==
  ASSUME NEW ls \in Text, NEW p \in Spots(ls)
  PROVE  /\ WordForward(ls, p) \in Spots(ls)
         /\ WordBack(ls, p) \in Spots(ls)
         /\ WordEnd(ls, p) \in Spots(ls)
<1>1. WordForward(ls, p) \in Spots(ls)
  <2> DEFINE class == ClassAt(ls, p)
             q == IF class = "space" THEN p ELSE AdvanceWhile(ls, p, class)
  <2>1. q \in Spots(ls)
    BY AdvanceIs
  <2>2. WordForward(ls, p) = AdvanceWhile(ls, q, "space")
    BY DEF WordForward
  <2> HIDE DEF q
  <2> QED
    BY <2>1, <2>2, AdvanceIs
<1>2. WordBack(ls, p) \in Spots(ls)
  <2> DEFINE q == IF PrevPos(ls, p) = None THEN p ELSE RetreatOverSpace(ls, PrevPos(ls, p))
  <2>1. q \in Spots(ls)
    BY PrevIs, RetreatIs
  <2>2. WordBack(ls, p) = IF ClassAt(ls, q) = "space" THEN q ELSE RunStart(ls, q, ClassAt(ls, q))
    BY DEF WordBack
  <2> HIDE DEF q
  <2> QED
    BY <2>1, <2>2, RunIs
<1>3. WordEnd(ls, p) \in Spots(ls)
  <2> DEFINE r == IF NextPos(ls, p) = None THEN p ELSE NextPos(ls, p)
             q == AdvanceWhile(ls, r, "space")
  <2>1. r \in Spots(ls)
    BY NextIs
  <2>2. WordEnd(ls, p) = IF ClassAt(ls, q) = "space" THEN q ELSE RunEnd(ls, q, ClassAt(ls, q))
    BY DEF WordEnd
  <2> HIDE DEF r
  <2>3. q \in Spots(ls)
    BY <2>1, AdvanceIs
  <2> HIDE DEF q
  <2> QED
    BY <2>2, <2>3, RunIs
<1> QED
  BY <1>1, <1>2, <1>3

(* Where a motion lands, and how the cursor stands there.                   *)
OnSpot(b) == InText(b) /\ b.col <= Minus(Len(LineOf(b)), 1)

LEMMA OnSpotIs ==
  ASSUME NEW b, OnSpot(b)
  PROVE  Pos(b) \in Spots(b.lines) /\ b.lines \in Text
<1>1. b.lines \in Text /\ b.row \in 1..Len(b.lines) /\ b.col \in Nat
  BY Rows DEF OnSpot
<1> QED
  BY <1>1, IsSpot DEF OnSpot, Pos, LineOf

LEMMA LandsIs ==
  ASSUME NEW b, OnSpot(b), NEW m \in Motions
  PROVE  Lands(b, m) \in (1..Len(b.lines)) \X Nat
<1>1. /\ b.lines \in Text /\ b.row \in 1..Len(b.lines) /\ b.col \in Nat
      /\ Len(b.lines) \in Nat \ {0} /\ Len(LineOf(b)) \in Nat
  BY Rows DEF OnSpot
<1>2. \A p \in Spots(b.lines) : p \in (1..Len(b.lines)) \X Nat
  BY <1>1, SpotIs
<1>3. /\ WordForward(b.lines, Pos(b)) \in Spots(b.lines)
      /\ WordBack(b.lines, Pos(b)) \in Spots(b.lines)
      /\ WordEnd(b.lines, Pos(b)) \in Spots(b.lines)
  BY OnSpotIs, WordsAre
<1>4. m \in {"w", "b", "e"} => Lands(b, m) \in Spots(b.lines)
  BY <1>3 DEF Lands
<1>5. m \in {"h", "l", "0", "$"} => Lands(b, m) \in (1..Len(b.lines)) \X Nat
  <2>1. /\ Minus(b.col, 1) \in Nat /\ Minus(Len(LineOf(b)), 1) \in Nat
        /\ Least(b.col + 1, Minus(Len(LineOf(b)), 1)) \in Nat
    BY <1>1 DEF Minus, Least
  <2> QED
    BY <1>1, <2>1 DEF Lands
<1>6. m \in {"j", "k", "gg", "G"} => Lands(b, m) \in (1..Len(b.lines)) \X Nat
  <2>1. Least(b.row + 1, Len(b.lines)) \in 1..Len(b.lines)
    BY <1>1 DEF Least
  <2>2. Max({b.row - 1, 1}) \in 1..Len(b.lines)
    <3> DEFINE up == IF b.row - 1 >= 1 THEN b.row - 1 ELSE 1
    <3>1. up \in {b.row - 1, 1} /\ \A y \in {b.row - 1, 1} : up >= y
      BY <1>1
    <3> HIDE DEF up
    <3>2. Max({b.row - 1, 1}) \in {b.row - 1, 1} /\ \A y \in {b.row - 1, 1} : Max({b.row - 1, 1}) >= y
      BY <3>1 DEF Max
    <3>3. Max({b.row - 1, 1}) \in {b.row - 1, 1} /\ Max({b.row - 1, 1}) >= 1
      BY <3>2
    <3> QED
      BY <1>1, <3>3
  <2> QED
    BY <1>1, <2>1, <2>2 DEF Lands
<1> QED
  BY <1>2, <1>4, <1>5, <1>6 DEF Motions

LEMMA MovedIs ==
  ASSUME NEW b, OnSpot(b), NEW m \in Motions
  PROVE  OnSpot(Moved(b, m)) /\ Moved(b, m).lines = b.lines
<1> DEFINE there == At(b.lines, Lands(b, m))
<1>1. InText(there) /\ there.lines = b.lines
  <2>1. b.lines \in Seq(Line)
    BY Rows DEF OnSpot
  <2> QED
    BY <2>1, LandsIs, AtIs
<1>2. Moved(b, m) = ClampCol(there, "normal")
  BY DEF Moved
<1> HIDE DEF there
<1>3. /\ InText(Moved(b, m)) /\ Moved(b, m).lines = there.lines /\ Moved(b, m).row = there.row
      /\ Moved(b, m).col <= Minus(Len(LineOf(there)), 1)
  BY <1>1, <1>2, ClampIs DEF Rightmost
<1>4. LineOf(Moved(b, m)) = LineOf(there)
  BY <1>3 DEF LineOf
<1> QED
  BY <1>1, <1>3, <1>4 DEF OnSpot

(* The range of an operator and a motion: an exclusive one leaves out the   *)
(* later end, and the spot before that is not before the earlier one.       *)
LEMMA MotionRangeIs ==
  ASSUME OnSpot(buf), NEW m \in OperatorMotions, Pos(Moved(buf, m)) # Pos(buf)
  PROVE  IsRange(MotionRange(m))
<1> DEFINE ls    == buf.lines
           here  == Pos(buf)
           there == Pos(Moved(buf, m))
           lo    == IF Before(here, there) THEN here ELSE there
           top   == IF lo = there THEN here ELSE there
           back  == PrevPos(ls, top)
           hi    == IF m \notin ExclusiveMotions THEN top ELSE IF back = None THEN lo ELSE back
<1>1. ls \in Text /\ here \in Spots(ls) /\ there \in Spots(ls)
  <2>1. m \in Motions
    BY DEF OperatorMotions, Motions
  <2>2. OnSpot(Moved(buf, m)) /\ Moved(buf, m).lines = ls
    BY <2>1, MovedIs
  <2> QED
    BY <2>2, OnSpotIs
<1>2. MotionRange(m) = <<lo, hi>>
  BY DEF MotionRange
<1>3. here # there
  OBVIOUS
<1> HIDE DEF ls, here, there
<1>4. here \in Nat \X Nat /\ there \in Nat \X Nat
  BY <1>1, SpotIs
<1>5. Before(here, there) \/ Before(there, here)
  BY <1>4, Reading
<1>6. lo \in Spots(ls) /\ top \in Spots(ls) /\ lo # top /\ Before(lo, top)
  BY <1>1, <1>3, <1>5
<1> HIDE DEF lo, top
<1>7. back # None /\ back \in Spots(ls) /\ Before(lo, back)
  BY <1>1, <1>6, PrevIs
<1> HIDE DEF back
<1>8. hi \in Spots(ls) /\ Before(lo, hi)
  BY <1>6, <1>7
<1> HIDE DEF hi
<1> QED
  BY <1>2, <1>6, <1>8 DEF IsRange, ls

LEMMA WordRangeIs ==
  ASSUME OnSpot(buf), NEW s \in Scopes
  PROVE  IsRange(WordRange(s))
<1> DEFINE ls     == buf.lines
           class  == ClassAt(ls, Pos(buf))
           lo     == RunStart(ls, Pos(buf), class)
           hi     == RunEnd(ls, Pos(buf), class)
           after  == NextPos(ls, hi)
           before == PrevPos(ls, lo)
           far    == RunEnd(ls, after, "space")
           near   == RunStart(ls, before, "space")
<1>1. ls \in Text /\ Pos(buf) \in Spots(ls)
  BY OnSpotIs
<1>2. /\ lo \in Spots(ls) /\ hi \in Spots(ls)
      /\ Before(lo, Pos(buf)) /\ Before(Pos(buf), hi)
  BY <1>1, RunIs
<1>3. \A p, q, r \in Spots(ls) : Before(p, q) /\ Before(q, r) => Before(p, r)
  <2> HIDE DEF ls
  <2>1. \A p \in Spots(ls) : p \in Nat \X Nat
    BY <1>1, SpotIs
  <2> QED
    BY <2>1, Reading
<1> HIDE DEF lo, hi
<1>4. Before(lo, hi)
  BY <1>1, <1>2, <1>3
<1>5. after # None => far \in Spots(ls) /\ Before(lo, far)
  <2> SUFFICES ASSUME after # None PROVE far \in Spots(ls) /\ Before(lo, far)
    OBVIOUS
  <2>1. after \in Spots(ls) /\ Before(hi, after)
    BY <1>1, <1>2, NextIs
  <2> HIDE DEF after
  <2>2. far \in Spots(ls) /\ Before(after, far)
    BY <1>1, <2>1, RunIs
  <2> HIDE DEF far, ls
  <2> QED
    BY <1>2, <1>3, <1>4, <2>1, <2>2
<1>6. before # None => near \in Spots(ls) /\ Before(near, hi)
  <2> SUFFICES ASSUME before # None PROVE near \in Spots(ls) /\ Before(near, hi)
    OBVIOUS
  <2>1. before \in Spots(ls) /\ Before(before, lo)
    BY <1>1, <1>2, PrevIs
  <2> HIDE DEF before
  <2>2. near \in Spots(ls) /\ Before(near, before)
    BY <1>1, <2>1, RunIs
  <2> HIDE DEF near, ls
  <2> QED
    BY <1>2, <1>3, <1>4, <2>1, <2>2
<1> DEFINE blankAfter  == after # None /\ ClassAt(ls, after) = "space"
           blankBefore == before # None /\ ClassAt(ls, before) = "space"
<1>7. CASE s = "around" /\ blankAfter
  <2>1. WordRange(s) = <<lo, far>>
    BY <1>7 DEF WordRange, lo, hi
  <2> HIDE DEF far
  <2> QED
    BY <1>2, <1>5, <1>7, <2>1 DEF IsRange
<1>8. CASE s = "around" /\ ~blankAfter /\ blankBefore
  <2>1. WordRange(s) = <<near, hi>>
    BY <1>8 DEF WordRange, lo, hi
  <2> HIDE DEF near
  <2> QED
    BY <1>2, <1>6, <1>8, <2>1 DEF IsRange
<1>9. CASE ~(s = "around" /\ blankAfter) /\ ~(s = "around" /\ ~blankAfter /\ blankBefore)
  <2>1. WordRange(s) = <<lo, hi>>
    BY <1>9 DEF WordRange, lo, hi
  <2> QED
    BY <1>2, <1>4, <2>1 DEF IsRange
<1> QED
  BY <1>7, <1>8, <1>9

-----------------------------------------------------------------------------
(* What a step does.                                                        *)

(* A step kept for undo, and one that changes no text and is not.           *)
Saved ==
    /\ undo' \in Seq(Buffers) /\ undo' # <<>> /\ Last(undo').lines = base'
    /\ Len(undo') <= MaxUndo /\ redo' = <<>> /\ base' = buf.lines
    /\ rewound' = FALSE /\ edits' \in Nat

Untouched ==
    /\ buf'.lines = buf.lines /\ undo' = undo /\ redo' = redo
    /\ rewound' \in {rewound, FALSE} /\ edits' \in Nat
    /\ mode' # "insert"

Outcome ==
    /\ Saved \/ Untouched
    /\ InText(buf') /\ CursorInside'
    /\ mode' \in {"normal", "insert"}
    /\ anchor' \in {anchor, None}
    /\ register' \in Registers \cup {None}

(* What EditsCanBeUndone says of a step.                                    *)
Undoable ==
    buf'.lines # buf.lines =>
        \/ rewound
        \/ /\ undo' # <<>> /\ Last(undo').lines = base'
           /\ redo' = <<>>
           /\ mode = "insert" \/ base' = buf.lines

LEMMA BufIs ==
  ASSUME EditorInv
  PROVE  /\ InText(buf) /\ buf.lines \in Text /\ buf.col <= Len(LineOf(buf))
         /\ mode # "insert" => OnSpot(buf)
<1>1. buf \in Buffers /\ CursorInside
  BY DEF EditorInv, EditorTypeOK
<1>2. buf.lines \in Text
  BY <1>1 DEF Buffers
<1>3. DOMAIN buf.lines = 1..Len(buf.lines)
  BY <1>2, LenProperties DEF Text
<1>4. InText(buf)
  BY <1>1, <1>3 DEF CursorInside, InText
<1>5. buf.col <= Len(LineOf(buf))
  BY <1>1, <1>4, Rows DEF CursorInside, Minus
<1> QED
  BY <1>1, <1>2, <1>4, <1>5 DEF CursorInside, OnSpot

(* The step that ends an action leaves the cursor inside.                   *)
LEMMA ClampedInside ==
  ASSUME NEW b, InText(b), buf' = ClampCol(b, mode')
  PROVE  InText(buf') /\ buf'.lines = b.lines /\ CursorInside'
<1>1. /\ InText(buf') /\ buf'.lines = b.lines /\ buf'.row = b.row /\ buf'.col \in Nat
      /\ buf'.col <= Rightmost(b, mode')
  BY ClampIs
<1>2. LineOf(buf') = LineOf(b) /\ buf'.row \in DOMAIN buf'.lines
  BY <1>1, Rows DEF LineOf
<1> QED
  BY <1>1, <1>2 DEF CursorInside, Rightmost

LEMMA OutcomeKeeps ==
  ASSUME EditorInv, Outcome, vim' = vim, pending' \in Pendings \cup {None},
         lastAction' \in Actions \cup {None}
  PROVE  EditorInv' /\ Undoable
<1>1. EditorTypeOK /\ StepKept
  BY DEF EditorInv
<1>2. undo' \in Seq(Buffers) /\ redo' \in Seq(Buffers) /\ edits' \in Nat /\ rewound' \in BOOLEAN
  <2>1. <<>> \in Seq(Buffers)
    BY EmptySeq
  <2> QED
    BY <1>1, <2>1 DEF EditorTypeOK, Outcome, Saved, Untouched
<1>3. EditorTypeOK'
  BY <1>1, <1>2 DEF EditorTypeOK, Outcome, InText, Modes
<1>4. CursorInside'
  BY DEF Outcome
<1>5. SelectionInside' /\ AnchorSet'
  BY DEF Outcome, SelectionInside, AnchorSet, InVisual
<1>6. StepKept'
  BY <1>1 DEF Outcome, Saved, Untouched, StepKept
<1>7. Undoable
  BY DEF Outcome, Saved, Untouched, Undoable
<1>8. StacksBounded'
  <2>1. CASE Untouched
    BY <2>1 DEF Untouched, EditorInv, StacksBounded
  <2>2. CASE Saved
    <3>1. Len(undo') \in Nat /\ Len(undo') <= MaxUndo /\ Len(redo') = 0
      BY <2>2, LenProperties, EmptySeq DEF Saved
    <3>2. Len(undo') + Len(redo') = Len(undo')
      BY <3>1
    <3> QED
      BY <3>1, <3>2 DEF StacksBounded
  <2> QED
    BY <2>1, <2>2 DEF Outcome
<1> QED
  BY <1>3, <1>4, <1>5, <1>6, <1>7, <1>8 DEF EditorInv

LEMMA Pushed ==
  ASSUME undo \in Seq(Buffers), buf \in Buffers, Len(undo) <= MaxUndo,
         undo' = Append(IF Len(undo) = MaxUndo THEN Tail(undo) ELSE undo, buf)
  PROVE  /\ undo' \in Seq(Buffers) /\ undo' # <<>> /\ Last(undo') = buf
         /\ Len(undo') <= MaxUndo
<1> DEFINE below == IF Len(undo) = MaxUndo THEN Tail(undo) ELSE undo
<1>0. MaxUndo \in Nat \ {0} /\ Len(undo) \in Nat
  BY QueryEditorAssumption, LenProperties
<1>1. below \in Seq(Buffers) /\ Len(below) \in Nat /\ Len(below) + 1 <= MaxUndo
  <2>1. CASE Len(undo) = MaxUndo
    <3>1. undo # <<>>
      BY <1>0, <2>1, EmptySeq
    <3>2. Tail(undo) \in Seq(Buffers) /\ Len(Tail(undo)) = Len(undo) - 1
      BY <3>1, HeadTailProperties
    <3> QED
      BY <1>0, <2>1, <3>2
  <2>2. CASE Len(undo) # MaxUndo
    <3>1. below = undo
      BY <2>2
    <3> HIDE DEF below
    <3> QED
      BY <1>0, <2>2, <3>1
  <2> QED
    BY <2>1, <2>2
<1> HIDE DEF below
<1>2. undo' = Append(below, buf)
  BY DEF below
<1>3. /\ Append(below, buf) \in Seq(Buffers) /\ Append(below, buf) # <<>>
      /\ Last(Append(below, buf)) = buf /\ Len(Append(below, buf)) = Len(below) + 1
  BY <1>1, AppendLast
<1> QED
  BY <1>1, <1>2, <1>3

LEMMA NothingStacked == Len(<<>>) + Len(<<>>) <= MaxUndo
<1>1. Len(<<>>) = 0 /\ MaxUndo \in Nat
  BY EmptySeq, QueryEditorAssumption
<1> QED
  BY <1>1

LEMMA HistoryIs ==
  ASSUME EditorInv
  PROVE  undo \in Seq(Buffers) /\ redo \in Seq(Buffers) /\ Len(undo) <= MaxUndo
<1>1. undo \in Seq(Buffers) /\ redo \in Seq(Buffers) /\ Len(undo) + Len(redo) <= MaxUndo
  BY DEF EditorInv, EditorTypeOK, StacksBounded
<1>2. Len(undo) \in Nat /\ Len(redo) \in Nat /\ MaxUndo \in Nat
  BY <1>1, LenProperties, QueryEditorAssumption
<1> QED
  BY <1>1, <1>2

LEMMA CheckpointSaves ==
  ASSUME EditorInv, Checkpoint
  PROVE  Saved
<1>1. undo \in Seq(Buffers) /\ buf \in Buffers /\ edits \in Nat
  BY DEF EditorInv, EditorTypeOK
<1>2. undo' = Append(IF Len(undo) = MaxUndo THEN Tail(undo) ELSE undo, buf)
  BY DEF Checkpoint
<1>3. undo' \in Seq(Buffers) /\ undo' # <<>> /\ Last(undo') = buf /\ Len(undo') <= MaxUndo
  BY <1>1, <1>2, HistoryIs, Pushed
<1> QED
  BY <1>1, <1>3 DEF Checkpoint, Counted, Saved

LEMMA NothingIs ==
  ASSUME EditorInv, mode = "normal", Nothing
  PROVE  Outcome
<1>1. EditorTypeOK /\ CursorInside
  BY DEF EditorInv
<1>2. buf' = buf /\ mode' = mode
  BY DEF Nothing
<1>3. InText(buf') /\ CursorInside'
  BY <1>1, <1>2, BufIs DEF CursorInside
<1>4. Untouched
  BY <1>1 DEF Nothing, NoCheckpoint, Unkept, Untouched, EditorTypeOK
<1> QED
  BY <1>1, <1>2, <1>3, <1>4 DEF Outcome, Nothing, EditorTypeOK

LEMMA EditIs ==
  ASSUME EditorInv, mode = "normal", NEW b, InText(b), Edit(b),
         register' \in Registers \cup {None}
  PROVE  Outcome
<1>1. Saved
  BY CheckpointSaves DEF Edit
<1>2. mode' = mode /\ buf' = ClampCol(b, mode') /\ anchor' = anchor
  BY DEF Edit, Becomes
<1>3. InText(buf') /\ CursorInside'
  BY <1>2, ClampedInside
<1> QED
  BY <1>1, <1>2, <1>3 DEF Outcome

(* An operator on a range with both rows in the text.                       *)
LEMMA AppliesIs ==
  ASSUME EditorInv, NEW op \in Operators,
         NEW lo \in (1..Len(buf.lines)) \X Nat, NEW hi \in (1..Len(buf.lines)) \X Nat,
         Applies(op, lo, hi)
  PROVE  Outcome
<1>1. buf.lines \in Text /\ buf.lines \in Seq(Line)
  BY BufIs DEF Text
<1>2. Slice(buf.lines, lo, hi) \in Text /\ InText(SliceGone(buf.lines, lo, hi))
  BY <1>1, SliceIs
<1>3. Charwise(Slice(buf.lines, lo, hi)) \in Registers
  BY <1>2 DEF Charwise, Registers
<1>4. ASSUME NEW m \in {"normal", "insert"}, Cuts(lo, hi, m)
      PROVE  Outcome
  <2>1. Saved
    BY <1>4, CheckpointSaves DEF Cuts
  <2>2. /\ mode' = m /\ buf' = ClampCol(SliceGone(buf.lines, lo, hi), mode')
        /\ anchor' = None /\ register' = Charwise(Slice(buf.lines, lo, hi))
    BY <1>4 DEF Cuts, Becomes
  <2>3. InText(buf') /\ CursorInside'
    BY <1>2, <2>2, ClampedInside
  <2> QED
    BY <1>3, <2>1, <2>2, <2>3 DEF Outcome
<1>5. ASSUME Copies(lo, hi)
      PROVE  Outcome
  <2>1. InText(At(buf.lines, lo)) /\ At(buf.lines, lo).lines = buf.lines
    BY <1>1, AtIs
  <2>2. /\ mode' = "normal" /\ buf' = ClampCol(At(buf.lines, lo), mode')
        /\ anchor' = None /\ register' = Charwise(Slice(buf.lines, lo, hi))
        /\ undo' = undo /\ redo' = redo /\ rewound' = rewound /\ edits' = edits + 1
    BY <1>5 DEF Copies, Becomes, Unkept, Counted
  <2>3. InText(buf') /\ CursorInside' /\ buf'.lines = buf.lines
    BY <2>1, <2>2, ClampedInside
  <2>4. Untouched
    BY <2>2, <2>3 DEF Untouched, EditorInv, EditorTypeOK
  <2> QED
    BY <1>3, <2>2, <2>3, <2>4 DEF Outcome
<1>6. Cuts(lo, hi, "normal") \/ Cuts(lo, hi, "insert") \/ Copies(lo, hi)
  BY DEF Applies, Operators
<1> QED
  BY <1>4, <1>5, <1>6

-----------------------------------------------------------------------------
(* The edits of Normal mode.                                                *)
LEMMA LineRegister ==
  ASSUME EditorInv
  PROVE  Linewise(<<LineOf(buf)>>) \in Registers
<1>1. <<LineOf(buf)>> \in Text
  BY BufIs, Rows, OneLine
<1> QED
  BY <1>1 DEF Linewise, Registers

LEMMA OperatorMotionIs ==
  ASSUME EditorInv, mode = "normal", NEW op \in Operators, NEW m \in OperatorMotions,
         OperatorMotion(op, m)
  PROVE  Outcome
<1>1. CASE Pos(Moved(buf, m)) = Pos(buf)
  BY <1>1, NothingIs DEF OperatorMotion
<1>2. CASE Pos(Moved(buf, m)) # Pos(buf)
  <2> DEFINE lo == MotionRange(m)[1]
             hi == MotionRange(m)[2]
  <2>1. OnSpot(buf) /\ buf.lines \in Text
    BY BufIs
  <2>2. lo \in Spots(buf.lines) /\ hi \in Spots(buf.lines)
    BY <1>2, <2>1, MotionRangeIs DEF IsRange
  <2>3. Applies(op, lo, hi)
    BY <1>2 DEF OperatorMotion
  <2> HIDE DEF lo, hi
  <2>4. lo \in (1..Len(buf.lines)) \X Nat /\ hi \in (1..Len(buf.lines)) \X Nat
    BY <2>1, <2>2, SpotIs
  <2> QED
    BY <2>3, <2>4, AppliesIs
<1> QED
  BY <1>1, <1>2

LEMMA TextObjectIs ==
  ASSUME EditorInv, mode = "normal", NEW op \in Operators, NEW s \in Scopes, TextObject(op, s)
  PROVE  Outcome
<1> DEFINE lo == WordRange(s)[1]
           hi == WordRange(s)[2]
<1>1. OnSpot(buf) /\ buf.lines \in Text
  BY BufIs
<1>2. lo \in Spots(buf.lines) /\ hi \in Spots(buf.lines)
  BY <1>1, WordRangeIs DEF IsRange
<1>3. Applies(op, lo, hi)
  BY DEF TextObject
<1> HIDE DEF lo, hi
<1>4. lo \in (1..Len(buf.lines)) \X Nat /\ hi \in (1..Len(buf.lines)) \X Nat
  BY <1>1, <1>2, SpotIs
<1> QED
  BY <1>3, <1>4, AppliesIs

LEMMA DeleteLineIs ==
  ASSUME EditorInv, mode = "normal", DeleteLine
  PROVE  Outcome
<1> DEFINE b == IF Len(buf.lines) = 1 THEN [buf EXCEPT !.col = 0] ELSE buf
<1>1. InText(buf) /\ buf.row \in Nat \ {0}
  BY BufIs, Rows
<1>2. InText(b)
  BY <1>1, WithColIs
<1> HIDE DEF b
<1>3. InText(LinesGone(b, buf.row, buf.row))
  BY <1>1, <1>2, LinesGoneIs
<1>4. register' = Linewise(<<LineOf(buf)>>) /\ Edit(LinesGone(b, buf.row, buf.row))
  BY DEF DeleteLine, b
<1> QED
  BY <1>3, <1>4, LineRegister, EditIs

LEMMA YankLineIs ==
  ASSUME EditorInv, mode = "normal", YankLine
  PROVE  Outcome
<1>1. EditorTypeOK /\ CursorInside
  BY DEF EditorInv
<1>2. /\ buf' = buf /\ mode' = mode /\ anchor' = anchor /\ rewound' = rewound
      /\ undo' = undo /\ redo' = redo /\ edits' = edits + 1
      /\ register' = Linewise(<<LineOf(buf)>>)
  BY DEF YankLine, Unkept, Counted
<1>3. InText(buf') /\ CursorInside'
  BY <1>1, <1>2, BufIs DEF CursorInside
<1>4. Untouched
  BY <1>1, <1>2 DEF Untouched, EditorTypeOK
<1> QED
  BY <1>2, <1>3, <1>4, LineRegister DEF Outcome

LEMMA DeleteCharIs ==
  ASSUME EditorInv, mode = "normal", DeleteChar \/ DeleteCharBefore
  PROVE  Outcome
<1> DEFINE line == LineOf(buf)
<1>0. InText(buf) /\ line \in Line /\ Len(line) \in Nat /\ buf.col \in Nat /\ buf.col <= Len(line)
  BY BufIs, Rows
<1>1. ASSUME NEW i \in 1..Len(line)
      PROVE  /\ InText(WithLine(buf, RemoveAt(line, i)))
             /\ WithLine(buf, RemoveAt(line, i)).col = buf.col
             /\ Charwise(<< <<line[i]>> >>) \in Registers
  <2>1. RemoveAt(line, i) \in Line /\ <<line[i]>> \in Line
    BY <1>0, LineEdits
  <2>2. InText(WithLine(buf, RemoveAt(line, i))) /\ WithLine(buf, RemoveAt(line, i)).col = buf.col
    BY <1>0, <2>1, WithLineIs
  <2>3. << <<line[i]>> >> \in Text
    BY <2>1, OneLine
  <2> QED
    BY <2>2, <2>3 DEF Charwise, Registers
<1>2. CASE DeleteChar
  <2>1. CASE buf.col < Len(line)
    <3>1. buf.col + 1 \in 1..Len(line)
      BY <1>0, <2>1
    <3>2. /\ register' = Charwise(<< <<line[buf.col + 1]>> >>)
          /\ Edit(WithLine(buf, RemoveAt(line, buf.col + 1)))
      BY <1>2, <2>1 DEF DeleteChar
    <3> HIDE DEF line
    <3> QED
      BY <1>1, <3>1, <3>2, EditIs
  <2>2. CASE ~(buf.col < Len(line))
    BY <1>2, <2>2, NothingIs DEF DeleteChar
  <2> QED
    BY <2>1, <2>2
<1>3. CASE DeleteCharBefore
  <2>1. CASE buf.col > 0
    <3>1. buf.col \in 1..Len(line) /\ buf.col - 1 \in Nat
      BY <1>0, <2>1
    <3> DEFINE b == WithLine(buf, RemoveAt(line, buf.col))
    <3>2. register' = Charwise(<< <<line[buf.col]>> >>) /\ Edit([b EXCEPT !.col = @ - 1])
      BY <1>3, <2>1 DEF DeleteCharBefore
    <3>3. InText(b) /\ b.col = buf.col /\ Charwise(<< <<line[buf.col]>> >>) \in Registers
      BY <1>1, <3>1
    <3> HIDE DEF b
    <3>4. InText([b EXCEPT !.col = @ - 1])
      BY <3>1, <3>3, WithColIs
    <3> QED
      BY <3>2, <3>3, <3>4, EditIs
  <2>2. CASE ~(buf.col > 0)
    BY <1>3, <2>2, NothingIs DEF DeleteCharBefore
  <2> QED
    BY <2>1, <2>2
<1> QED
  BY <1>2, <1>3

LEMMA PasteIs ==
  ASSUME EditorInv, mode = "normal", NEW before \in BOOLEAN, Paste(before)
  PROVE  Outcome
<1>1. CASE register = None
  BY <1>1, NothingIs DEF Paste
<1>2. CASE register # None
  <2>1. register \in Registers
    BY <1>2 DEF EditorInv, EditorTypeOK
  <2>2. InText(Pasted(buf, register, before))
    BY <2>1, BufIs, PastedIs
  <2>3. Edit(Pasted(buf, register, before)) /\ register' = register
    BY <1>2 DEF Paste
  <2> QED
    BY <2>1, <2>2, <2>3, EditIs
<1> QED
  BY <1>1, <1>2

(* The edits of the line under the cursor that leave the register.          *)
LEMMA LineEditIs ==
  ASSUME EditorInv, mode = "normal",
         ToggleCase \/ JoinLines \/ IndentLine \/ DedentLine
  PROVE  Outcome
<1> DEFINE line == LineOf(buf)
<1>0. /\ InText(buf) /\ line \in Line /\ Len(line) \in Nat /\ buf.col \in Nat
      /\ register \in Registers \cup {None}
  BY BufIs, Rows DEF EditorInv, EditorTypeOK
<1>1. ASSUME NEW b, InText(b), Edit(b), register' = register
      PROVE  Outcome
  BY <1>0, <1>1, EditIs
<1>2. CASE ToggleCase
  <2>1. CASE buf.col < Len(line)
    <3> DEFINE new == [line EXCEPT ![buf.col + 1] = Toggled(@)]
               b   == WithLine(buf, new)
    <3>1. buf.col + 1 \in 1..Len(line) /\ buf.col + 1 \in Nat
      BY <1>0, <2>1
    <3>2. new \in Line
      BY <1>0, <3>1, LineEdits
    <3>3. Edit([b EXCEPT !.col = @ + 1]) /\ register' = register
      BY <1>2, <2>1 DEF ToggleCase
    <3> HIDE DEF new
    <3>4. InText(b) /\ b.col = buf.col
      BY <1>0, <3>2, WithLineIs
    <3> HIDE DEF b
    <3>5. InText([b EXCEPT !.col = @ + 1])
      BY <3>1, <3>4, WithColIs
    <3> QED
      BY <1>1, <3>3, <3>5
  <2>2. CASE ~(buf.col < Len(line))
    BY <1>2, <2>2, NothingIs DEF ToggleCase
  <2> QED
    BY <2>1, <2>2
<1>3. CASE JoinLines
  <2>1. CASE buf.row < Len(buf.lines)
    BY <1>0, <1>1, <1>3, <2>1, JoinedIs DEF JoinLines
  <2>2. CASE ~(buf.row < Len(buf.lines))
    BY <1>3, <2>2, NothingIs DEF JoinLines
  <2> QED
    BY <2>1, <2>2
<1>4. CASE IndentLine
  <2> DEFINE new == [i \in 1..IndentWidth |-> " "] \o line
             b   == WithLine(buf, new)
  <2>1. new \in Line /\ IndentWidth \in Nat
    BY <1>0, Indented
  <2>2. Edit([b EXCEPT !.col = @ + IndentWidth]) /\ register' = register
    BY <1>4 DEF IndentLine
  <2> HIDE DEF new
  <2>3. InText(b) /\ b.col = buf.col
    BY <1>0, <2>1, WithLineIs
  <2>4. buf.col + IndentWidth \in Nat
    BY <1>0, <2>1
  <2> HIDE DEF b
  <2>5. InText([b EXCEPT !.col = @ + IndentWidth])
    BY <2>3, <2>4, WithColIs
  <2> QED
    BY <1>1, <2>2, <2>5
<1>5. CASE DedentLine
  <2> DEFINE n == Leading(line)
             b == WithLine(buf, Drop(line, n))
  <2>1. CASE n = 0
    BY <1>5, <2>1, NothingIs DEF DedentLine
  <2>2. CASE n # 0
    <3>1. n \in Nat
      BY <1>0, Indented
    <3>2. Edit([b EXCEPT !.col = Minus(@, n)]) /\ register' = register
      BY <1>5, <2>2 DEF DedentLine
    <3> HIDE DEF n
    <3>3. Drop(line, n) \in Line
      BY <1>0, <3>1, DropIs DEF Line
    <3>4. InText(b) /\ b.col = buf.col
      BY <1>0, <3>3, WithLineIs
    <3>5. Minus(buf.col, n) \in Nat
      BY <1>0, <3>1 DEF Minus
    <3> HIDE DEF b
    <3>6. InText([b EXCEPT !.col = Minus(@, n)])
      BY <3>4, <3>5, WithColIs
    <3> QED
      BY <1>1, <3>2, <3>6
  <2> QED
    BY <2>1, <2>2
<1> QED
  BY <1>2, <1>3, <1>4, <1>5

(* Whatever `.` may repeat.                                                 *)
LEMMA DoesIs ==
  ASSUME EditorInv, mode = "normal", NEW a \in Actions, Does(a)
  PROVE  Outcome
<1>1. CASE a \in [op : Operators, does : OperatorMotions \cup Scopes]
  <2>0. a.op \in Operators /\ a.op # None /\ a.does \in OperatorMotions \cup Scopes
    BY <1>1, QueryEditorAssumption
  <2>n. \A k : a # Key(k)
    BY <2>0 DEF Key
  <2>1. CASE a.does \in OperatorMotions
    <3>1. OperatorMotion(a.op, a.does)
      <4>1. a.does \notin Scopes
        BY <2>1 DEF OperatorMotions, Scopes
      <4> QED
        BY <2>0, <2>n, <2>1, <4>1 DEF Does
    <3> QED
      BY <2>0, <2>1, <3>1, OperatorMotionIs
  <2>2. CASE a.does \in Scopes
    <3>1. TextObject(a.op, a.does)
      <4>1. a.does \notin OperatorMotions
        BY <2>2 DEF OperatorMotions, Scopes
      <4> QED
        BY <2>0, <2>n, <2>2, <4>1 DEF Does
    <3> QED
      BY <2>0, <2>2, <3>1, TextObjectIs
  <2> QED
    BY <2>0, <2>1, <2>2
<1>2. ASSUME NEW k \in SimpleKeys \cup {"dd", "yy"}, a = Key(k)
      PROVE  Outcome
  <2>0. a = [does |-> k, op |-> None]
    BY <1>2 DEF Key
  <2>1. CASE k = "x"
    BY <2>0, <2>1, DeleteCharIs DEF Does, Key
  <2>2. CASE k = "X"
    BY <2>0, <2>2, DeleteCharIs DEF Does, Key
  <2>3. CASE k = "dd"
    BY <2>0, <2>3, DeleteLineIs DEF Does, Key
  <2>4. CASE k = "yy"
    BY <2>0, <2>4, YankLineIs DEF Does, Key
  <2>5. CASE k = "p"
    BY <2>0, <2>5, PasteIs DEF Does, Key
  <2>6. CASE k = "P"
    BY <2>0, <2>6, PasteIs DEF Does, Key
  <2>7. CASE k = "~"
    BY <2>0, <2>7, LineEditIs DEF Does, Key
  <2>8. CASE k = "J"
    BY <2>0, <2>8, LineEditIs DEF Does, Key
  <2>9. CASE k = ">>"
    BY <2>0, <2>9, LineEditIs DEF Does, Key
  <2>10. CASE k = "<<"
    BY <2>0, <2>10, LineEditIs DEF Does, Key
  <2> QED
    BY <2>1, <2>2, <2>3, <2>4, <2>5, <2>6, <2>7, <2>8, <2>9, <2>10 DEF SimpleKeys
<1> QED
  BY <1>1, <1>2 DEF Actions

-----------------------------------------------------------------------------
(* Every step.                                                              *)

(* Steps that leave the text, outside Insert mode.                          *)
LEMMA QuietKeeps ==
  ASSUME EditorInv, InText(buf'), CursorInside', buf'.lines = buf.lines,
         mode' \in Modes, mode' # "insert", vim' = vim,
         anchor' \in ((Nat \ {0}) \X Nat) \cup {None}, register' = register,
         undo' = undo, redo' = redo, edits' = edits, rewound' \in {rewound, FALSE},
         pending' \in Pendings \cup {None}, lastAction' = lastAction,
         SelectionInside', AnchorSet'
  PROVE  EditorInv' /\ Undoable
<1>1. EditorTypeOK'
  BY DEF EditorInv, EditorTypeOK, InText
<1>2. StepKept' /\ Undoable
  BY DEF StepKept, Undoable
<1>3. StacksBounded'
  BY DEF EditorInv, StacksBounded
<1> QED
  BY <1>1, <1>2, <1>3 DEF EditorInv

(* Steps of Insert mode that go on from the checkpoint before them.         *)
LEMMA TypingKeeps ==
  ASSUME EditorInv, mode = "insert", mode' = "insert",
         NEW b, InText(b), buf' = ClampCol(b, "insert"),
         UNCHANGED <<vim, anchor, register, pending, lastAction, undo, redo, base, rewound>>,
         edits' \in Nat,
         vim' \/ runEnd' # None \/ b.lines # buf.lines => vim \/ runEnd # None
  PROVE  EditorInv' /\ Undoable
<1>1. EditorTypeOK /\ StepKept
  BY DEF EditorInv
<1>2. InText(buf') /\ CursorInside' /\ buf'.lines = b.lines
  BY ClampedInside
<1>3. EditorTypeOK'
  BY <1>1, <1>2 DEF EditorTypeOK, InText
<1>4. SelectionInside' /\ AnchorSet'
  BY DEF SelectionInside, AnchorSet, InVisual
<1>5. StepKept'
  BY <1>1 DEF StepKept
<1>6. Undoable
  BY <1>1, <1>2 DEF StepKept, Undoable
<1>7. StacksBounded'
  BY DEF EditorInv, StacksBounded
<1> QED
  BY <1>2, <1>3, <1>4, <1>5, <1>6, <1>7 DEF EditorInv

LEMMA FrontShorter ==
  ASSUME NEW S, NEW s \in Seq(S), s # <<>>
  PROVE  Len(Front(s)) + 1 = Len(s)
<1>1. Len(s) \in Nat \ {0}
  BY EmptySeq, LenProperties
<1>2. 1 \in Nat \ {0} /\ Len(s) - 1 \in Int /\ Len(s) - 1 <= Len(s)
  BY <1>1
<1>3. Len(Front(s)) = IF 1 <= Len(s) - 1 THEN Len(s) - 1 - 1 + 1 ELSE 0
  BY <1>2, Piece DEF Front
<1>4. CASE Len(s) = 1
  BY <1>3, <1>4
<1>5. CASE Len(s) # 1
  <2>1. \A n \in Nat \ {0} : n # 1 => 1 <= n - 1 /\ n - 1 - 1 + 1 + 1 = n
    OBVIOUS
  <2> QED
    BY <1>1, <1>3, <1>5, <2>1
<1> QED
  BY <1>4, <1>5

(* `u`, `U`: a buffer moves from one stack to the other.                    *)
LEMMA RewindKeeps ==
  ASSUME EditorInv, Undo \/ Redo
  PROVE  EditorInv'
<1>1. EditorTypeOK /\ SelectionInside /\ AnchorSet
  BY DEF EditorInv
<1>2. ASSUME NEW from \in Seq(Buffers), from # <<>>, NEW to \in Seq(Buffers),
             Rewind(from, to), NEW left, NEW kept, left = Front(from), kept = Append(to, buf)
      PROVE  /\ InText(buf') /\ CursorInside'
             /\ left \in Seq(Buffers) /\ kept \in Seq(Buffers)
             /\ UNCHANGED <<mode, vim, anchor, register, pending, lastAction, edits>>
             /\ rewound' \in BOOLEAN /\ (mode # "normal" => rewound' = TRUE)
  <2> DEFINE last == Last(from)
             b == [last EXCEPT !.row = Least(@, Len(last.lines))]
  <2>1. last \in Buffers /\ left \in Seq(Buffers)
    BY <1>2, LastIs
  <2>2. kept \in Seq(Buffers)
    BY <1>1, <1>2, AppendProperties DEF EditorTypeOK
  <2>3. buf' = ClampCol(b, mode) /\ mode' = mode
    BY <1>2 DEF Rewind
  <2> HIDE DEF last
  <2>4. InText(b)
    <3>1. /\ last = [lines |-> last.lines, row |-> last.row, col |-> last.col]
          /\ last.lines \in Seq(Line) /\ last.lines # <<>> /\ last.row \in Nat \ {0} /\ last.col \in Nat
      BY <2>1 DEF Buffers, Text
    <3>2. Least(last.row, Len(last.lines)) \in 1..Len(last.lines)
      BY <3>1, EmptySeq DEF Least
    <3>3. b = [lines |-> last.lines, row |-> Least(last.row, Len(last.lines)), col |-> last.col]
      BY <3>1
    <3> HIDE DEF b
    <3> QED
      BY <3>1, <3>2, <3>3, Builds
  <2> HIDE DEF b
  <2>5. InText(buf') /\ CursorInside'
    BY <2>3, <2>4, ClampedInside
  <2>6. /\ UNCHANGED <<mode, vim, anchor, register, pending, lastAction, edits>>
        /\ rewound' \in BOOLEAN /\ (mode # "normal" => rewound' = TRUE)
    BY <1>2 DEF Rewind
  <2> QED
    BY <2>1, <2>2, <2>5, <2>6
<1>3. /\ InText(buf') /\ CursorInside'
      /\ undo' \in Seq(Buffers) /\ redo' \in Seq(Buffers)
      /\ \/ Len(undo') + 1 = Len(undo) /\ Len(redo') = Len(redo) + 1
         \/ Len(redo') + 1 = Len(redo) /\ Len(undo') = Len(undo) + 1
      /\ UNCHANGED <<mode, vim, anchor, register, pending, lastAction, edits>>
      /\ rewound' \in BOOLEAN /\ (mode # "normal" => rewound' = TRUE)
  <2>1. CASE Undo
    <3>1. Rewind(undo, redo) /\ undo' = Front(undo) /\ redo' = Append(redo, buf) /\ undo # <<>>
      BY <2>1 DEF Undo, Rewind
    <3>2. undo \in Seq(Buffers) /\ redo \in Seq(Buffers)
      BY <1>1 DEF EditorTypeOK
    <3>3. /\ InText(buf') /\ CursorInside'
          /\ undo' \in Seq(Buffers) /\ redo' \in Seq(Buffers)
          /\ UNCHANGED <<mode, vim, anchor, register, pending, lastAction, edits>>
          /\ rewound' \in BOOLEAN /\ (mode # "normal" => rewound' = TRUE)
      BY <1>2, <3>1, <3>2
    <3>4. Len(undo') + 1 = Len(undo)
      BY <3>1, <3>2, FrontShorter
    <3>5. buf \in Buffers
      BY <1>1 DEF EditorTypeOK
    <3>6. Len(redo') = Len(redo) + 1
      BY <3>1, <3>2, <3>5, AppendProperties
    <3> QED
      BY <3>3, <3>4, <3>6
  <2>2. CASE Redo
    <3>1. Rewind(redo, undo) /\ redo' = Front(redo) /\ undo' = Append(undo, buf) /\ redo # <<>>
      BY <2>2 DEF Redo, Rewind
    <3>2. undo \in Seq(Buffers) /\ redo \in Seq(Buffers)
      BY <1>1 DEF EditorTypeOK
    <3>3. /\ InText(buf') /\ CursorInside'
          /\ redo' \in Seq(Buffers) /\ undo' \in Seq(Buffers)
          /\ UNCHANGED <<mode, vim, anchor, register, pending, lastAction, edits>>
          /\ rewound' \in BOOLEAN /\ (mode # "normal" => rewound' = TRUE)
      BY <1>2, <3>1, <3>2
    <3>4. Len(redo') + 1 = Len(redo)
      BY <3>1, <3>2, FrontShorter
    <3>5. buf \in Buffers
      BY <1>1 DEF EditorTypeOK
    <3>6. Len(undo') = Len(undo) + 1
      BY <3>1, <3>2, <3>5, AppendProperties
    <3> QED
      BY <3>3, <3>4, <3>6
  <2> QED
    BY <2>1, <2>2
<1>4. EditorTypeOK'
  BY <1>1, <1>3 DEF EditorTypeOK, InText
<1>5. SelectionInside' /\ AnchorSet' /\ StepKept'
  BY <1>1, <1>3 DEF SelectionInside, AnchorSet, InVisual, StepKept
<1>6. StacksBounded'
  <2>1. Len(undo') \in Nat /\ Len(redo') \in Nat /\ Len(undo) \in Nat /\ Len(redo) \in Nat
    BY <1>1, <1>3, LenProperties DEF EditorTypeOK
  <2>2. Len(undo') + Len(redo') = Len(undo) + Len(redo)
    BY <1>3, <2>1
  <2> QED
    BY <2>2 DEF EditorInv, StacksBounded
<1> QED
  BY <1>3, <1>4, <1>5, <1>6 DEF EditorInv

LEMMA TextsAre ==
  ASSUME NEW t \in Texts
  PROVE  t \in Text /\ t \in Seq(Line) /\ 1 \in 1..Len(t)
<1>1. t # <<>> /\ t \in Seq(Seq(Typed)) /\ Typed \subseteq Chars
  BY QueryEditorAssumption
<1>2. Seq(Typed) \subseteq Line
  BY <1>1, SeqMonotonic DEF Line
<1>3. t \in Seq(Line)
  BY <1>1, <1>2, SeqMonotonic
<1> QED
  BY <1>1, <1>3, EmptySeq DEF Text

LEMMA SetTextKeeps ==
  ASSUME EditorInv, NEW t \in Texts, SetText(t)
  PROVE  EditorInv'
<1>1. InText(At(t, <<1, 0>>)) /\ At(t, <<1, 0>>) = [lines |-> t, row |-> 1, col |-> 0]
  BY TextsAre, Builds
<1>2. /\ buf' = [lines |-> t, row |-> 1, col |-> 0] /\ InText(buf')
      /\ mode' = "normal" /\ anchor' = None /\ undo' = <<>> /\ redo' = <<>> /\ rewound' = FALSE
      /\ edits' = edits + 1 /\ UNCHANGED <<vim, register, pending, lastAction>>
  BY <1>1 DEF SetText, Counted
<1>3. EditorTypeOK'
  <2>1. <<>> \in Seq(Buffers)
    BY EmptySeq
  <2>2. EditorTypeOK
    BY DEF EditorInv
  <2>3. /\ vim' \in BOOLEAN /\ register' \in Registers \cup {None} /\ edits' \in Nat
        /\ pending' \in Pendings \cup {None} /\ lastAction' \in Actions \cup {None}
    BY <1>2, <2>2 DEF EditorTypeOK
  <2>4. /\ buf' \in Buffers /\ mode' \in Modes /\ rewound' \in BOOLEAN
        /\ anchor' \in ((Nat \ {0}) \X Nat) \cup {None}
        /\ undo' \in Seq(Buffers) /\ redo' \in Seq(Buffers)
    BY <1>2, <2>1 DEF InText, Modes
  <2> QED
    BY <2>3, <2>4 DEF EditorTypeOK
<1>4. CursorInside'
  <2>1. buf'.row \in DOMAIN buf'.lines /\ LineOf(buf') \in Line /\ buf'.col = 0
    BY <1>2, Rows
  <2>2. 0 <= Minus(Len(LineOf(buf')), 1)
    BY <2>1, LenProperties DEF Minus, Line
  <2> QED
    BY <1>2, <2>1, <2>2 DEF CursorInside
<1>5. SelectionInside' /\ AnchorSet' /\ StepKept'
  BY <1>2 DEF SelectionInside, AnchorSet, InVisual, StepKept
<1>6. StacksBounded'
  <2>1. undo' = <<>> /\ redo' = <<>>
    BY <1>2
  <2> QED
    BY <2>1, NothingStacked DEF StacksBounded
<1> QED
  BY <1>3, <1>4, <1>5, <1>6 DEF EditorInv

(* Keys that leave the text, and the mode unless they select.               *)
LEMMA MovesKeep ==
  ASSUME EditorInv, mode # "insert",
         NEW b, OnSpot(b), b.lines = buf.lines, buf' = b,
         UNCHANGED <<mode, vim, anchor, register, undo, redo, pending, lastAction,
                     edits, rewound>>
  PROVE  EditorInv' /\ Undoable
<1>1. EditorTypeOK /\ SelectionInside /\ AnchorSet
  BY DEF EditorInv
<1>2. InText(buf') /\ buf'.lines = buf.lines
  BY DEF OnSpot
<1>3. CursorInside'
  <2>1. b.row \in DOMAIN b.lines /\ b.col <= Minus(Len(LineOf(b)), 1)
    BY Rows DEF OnSpot
  <2> QED
    BY <2>1 DEF CursorInside
<1>4. SelectionInside' /\ AnchorSet'
  BY <1>1, <1>2 DEF SelectionInside, AnchorSet, InVisual, Readable
<1>5. /\ mode' \in Modes /\ anchor' \in ((Nat \ {0}) \X Nat) \cup {None}
      /\ pending' \in Pendings \cup {None} /\ rewound' \in {rewound, FALSE}
  BY <1>1 DEF EditorTypeOK
<1> QED
  BY <1>2, <1>3, <1>4, <1>5, QuietKeeps

LEMMA MoveKeeps ==
  ASSUME EditorInv, NEW m \in Motions, Move(m)
  PROVE  EditorInv' /\ Undoable
<1>1. mode # "insert" /\ OnSpot(buf)
  BY BufIs DEF Move
<1>2. OnSpot(Moved(buf, m)) /\ Moved(buf, m).lines = buf.lines
  BY <1>1, MovedIs
<1>3. /\ buf' = Moved(buf, m)
      /\ UNCHANGED <<mode, vim, anchor, register, undo, redo, pending, lastAction,
                     edits, rewound>>
  BY DEF Move
<1> QED
  BY <1>1, <1>2, <1>3, MovesKeep

LEMMA FoundKeeps ==
  ASSUME EditorInv, NEW p \in Places(buf.lines), Found(p)
  PROVE  EditorInv' /\ Undoable
<1>1. buf.lines \in Seq(Line) /\ DOMAIN buf.lines = 1..Len(buf.lines)
  BY BufIs, Rows
<1>2. p \in (1..Len(buf.lines)) \X Nat
  BY <1>1, QueryEditorAssumption DEF Places
<1>3. /\ InText(At(buf.lines, p)) /\ At(buf.lines, p).lines = buf.lines
      /\ At(buf.lines, p).row = p[1] /\ At(buf.lines, p).col = p[2]
  BY <1>1, <1>2, AtIs
<1>4. p[2] < Len(buf.lines[p[1]]) /\ p[2] \in Nat /\ Len(buf.lines[p[1]]) \in Nat
  <2>1. buf.lines[p[1]] \in Line
    BY <1>1, <1>2, ElementOfSeq
  <2> QED
    BY <1>2, <2>1, LenProperties DEF Found, Line
<1>5. OnSpot(At(buf.lines, p))
  BY <1>3, <1>4 DEF OnSpot, LineOf, Minus
<1>6. /\ mode # "insert" /\ buf' = At(buf.lines, p)
      /\ UNCHANGED <<mode, vim, anchor, register, undo, redo, pending, lastAction,
                     edits, rewound>>
  BY DEF Found
<1> QED
  BY <1>3, <1>5, <1>6, MovesKeep

LEMMA OperatorWaits ==
  ASSUME EditorInv,
         \/ \E op \in Operators : OperatorKey(op)
         \/ \E s \in Scopes : OperatorScope(s)
         \/ OperatorCancelled
  PROVE  EditorInv' /\ Undoable
<1>1. EditorTypeOK /\ CursorInside /\ SelectionInside /\ AnchorSet /\ InText(buf)
  BY BufIs DEF EditorInv
<1>2. /\ mode = "normal" /\ pending' \in Pendings \cup {None}
      /\ UNCHANGED <<buf, mode, vim, anchor, register, undo, redo, lastAction, edits, rewound>>
  <2>1. CASE \E op \in Operators : OperatorKey(op)
    BY <2>1 DEF OperatorKey, InNormal, Pendings
  <2>2. CASE \E s \in Scopes : OperatorScope(s)
    <3>1. PICK s \in Scopes : OperatorScope(s)
      BY <2>2
    <3>2. pending \in Pendings
      BY <1>1, <3>1 DEF EditorTypeOK, OperatorScope
    <3>3. [pending EXCEPT !.scope = s] \in Pendings
      BY <3>2 DEF Pendings
    <3> QED
      BY <3>1, <3>3 DEF OperatorScope
  <2>3. CASE OperatorCancelled
    BY <2>3 DEF OperatorCancelled
  <2> QED
    BY <2>1, <2>2, <2>3
<1>3. InText(buf') /\ CursorInside' /\ SelectionInside' /\ AnchorSet' /\ buf'.lines = buf.lines
  BY <1>1, <1>2 DEF CursorInside, SelectionInside, AnchorSet, InVisual
<1>4. mode' \in Modes /\ mode' # "insert" /\ anchor' \in ((Nat \ {0}) \X Nat) \cup {None}
  BY <1>1, <1>2 DEF EditorTypeOK
<1> QED
  BY <1>2, <1>3, <1>4, QuietKeeps

LEMMA PosIsSet ==
  ASSUME NEW b, InText(b)
  PROVE  Pos(b) \in (Nat \ {0}) \X Nat /\ Pos(b) # None /\ b.row <= Len(b.lines)
<1>1. None \notin Nat \X Nat
  BY QueryEditorAssumption
<1>2. b.row \in Nat \ {0} /\ b.col \in Nat
  BY Rows
<1>3. Pos(b) \in (Nat \ {0}) \X Nat /\ Pos(b) \in Nat \X Nat
  BY <1>2 DEF Pos
<1>4. b.row <= Len(b.lines)
  <2>1. b.row \in 1..Len(b.lines) /\ Len(b.lines) \in Nat
    BY Rows
  <2> QED
    BY <2>1
<1> QED
  BY <1>1, <1>3, <1>4

LEMMA EnterVisualKeeps ==
  ASSUME EditorInv, NEW m \in {"visual", "visual line"}, EnterVisual(m)
  PROVE  EditorInv' /\ Undoable
<1>1. /\ EditorTypeOK /\ CursorInside /\ InText(buf) /\ mode = "normal"
      /\ buf.col <= Len(LineOf(buf))
  BY BufIs DEF EditorInv, EnterVisual, InNormal
<1>2. /\ buf' = buf /\ mode' = m /\ anchor' = Pos(buf) /\ rewound' = FALSE
      /\ UNCHANGED <<vim, register, undo, redo, pending, lastAction, edits>>
  BY DEF EnterVisual
<1>3. buf.row \in 1..Len(buf.lines) /\ buf.row \in Nat \ {0} /\ buf.col \in Nat
  BY <1>1, Rows
<1>4. Pos(buf) \in (Nat \ {0}) \X Nat /\ Pos(buf) # None
  BY <1>1, PosIsSet
<1>5. Readable'
  <2>1. buf' = buf /\ anchor'[1] = buf.row /\ anchor'[2] = buf.col
    BY <1>2 DEF Pos
  <2>2. buf.row <= Len(buf.lines)
    BY <1>1, PosIsSet
  <2>3. buf.col <= Len(buf.lines[buf.row])
    BY <1>1 DEF LineOf
  <2> QED
    BY <2>1, <2>2, <2>3 DEF Readable
<1>6. CursorInside'
  BY <1>1, <1>2 DEF CursorInside
<1>7. SelectionInside' /\ AnchorSet' /\ InText(buf') /\ buf'.lines = buf.lines
  BY <1>1, <1>2, <1>4, <1>5 DEF SelectionInside, AnchorSet
<1>8. /\ mode' \in Modes /\ mode' # "insert"
      /\ anchor' \in ((Nat \ {0}) \X Nat) \cup {None}
      /\ pending' \in Pendings \cup {None} /\ rewound' \in {rewound, FALSE}
  BY <1>1, <1>2, <1>4 DEF Modes, EditorTypeOK
<1> QED
  BY <1>2, <1>6, <1>7, <1>8, QuietKeeps

(* Keys of Normal mode that `.` may repeat, and `.` itself.                 *)
LEMMA DoesKeeps ==
  ASSUME EditorInv, mode = "normal", NEW a \in Actions, Does(a),
         Remembers(a) \/ lastAction' = lastAction, vim' = vim, pending' \in {pending, None}
  PROVE  EditorInv' /\ Undoable
<1>1. Outcome
  BY DoesIs
<1>2. EditorTypeOK
  BY DEF EditorInv
<1>3. lastAction' \in Actions \cup {None} /\ pending' \in Pendings \cup {None}
  BY <1>2 DEF EditorTypeOK, Remembers
<1> QED
  BY <1>1, <1>3, OutcomeKeeps

LEMMA ActionsAre ==
  /\ \A k \in SimpleKeys \cup {"dd", "yy"} : Key(k) \in Actions
  /\ \A op \in Operators, m \in OperatorMotions : WithMotion(op, m) \in Actions
  /\ \A op \in Operators, s \in Scopes : WithObject(op, s) \in Actions
<1>1. \A k \in SimpleKeys \cup {"dd", "yy"} : Key(k) \in Actions
  BY DEF Actions
<1>2. \A op \in Operators, d \in OperatorMotions \cup Scopes :
          [does |-> d, op |-> op] \in Actions
  BY DEF Actions
<1> QED
  BY <1>1, <1>2 DEF WithMotion, WithObject

LEMMA NormalKeeps ==
  ASSUME EditorInv,
         \/ \E k \in SimpleKeys : SimpleEdit(k)
         \/ \E op \in Operators : ToLineEnd(op)
         \/ RepeatLast \/ OperatorTakesMotion \/ OperatorDoubled \/ OperatorTakesWord
  PROVE  EditorInv' /\ Undoable
<1>1. EditorTypeOK
  BY DEF EditorInv
<1>2. \E a \in Actions : /\ mode = "normal" /\ Does(a)
                         /\ Remembers(a) \/ lastAction' = lastAction
                         /\ vim' = vim /\ pending' \in {pending, None}
  <2>1. CASE \E k \in SimpleKeys : SimpleEdit(k)
    BY <2>1, ActionsAre DEF SimpleEdit, InNormal
  <2>2. CASE \E op \in Operators : ToLineEnd(op)
    <3>1. "$" \in OperatorMotions
      BY DEF OperatorMotions
    <3> QED
      BY <2>2, <3>1, ActionsAre DEF ToLineEnd, InNormal
  <2>3. CASE RepeatLast
    <3>1. lastAction \in Actions
      BY <1>1, <2>3 DEF RepeatLast, EditorTypeOK
    <3> QED
      BY <2>3, <3>1 DEF RepeatLast, InNormal
  <2>4. CASE OperatorTakesMotion
    <3>1. PICK m \in OperatorMotions : OperatorTakes(WithMotion(pending.op, m))
      BY <2>4 DEF OperatorTakesMotion
    <3>2. pending.op \in Operators
      BY <1>1, <3>1 DEF OperatorTakes, EditorTypeOK, Pendings
    <3> QED
      BY <3>1, <3>2, ActionsAre DEF OperatorTakes
  <2>5. CASE OperatorDoubled
    <3>1. OperatorTakes(Key("dd")) \/ OperatorTakes(Key("yy"))
      BY <2>5 DEF OperatorDoubled
    <3> QED
      BY <3>1, ActionsAre DEF OperatorTakes
  <2>6. CASE OperatorTakesWord
    <3>1. pending.op \in Operators /\ pending.scope \in Scopes
      BY <1>1, <2>6 DEF OperatorTakesWord, EditorTypeOK, Pendings
    <3>2. WithObject(pending.op, pending.scope) \in Actions
      BY <3>1, ActionsAre
    <3> QED
      BY <2>6, <3>2 DEF OperatorTakesWord
  <2> QED
    BY <2>1, <2>2, <2>3, <2>4, <2>5, <2>6
<1> QED
  BY <1>2, DoesKeeps

(* A checkpoint, and then an edit.                                          *)
LEMMA SavedKeeps ==
  ASSUME EditorInv, Saved, NEW b, InText(b), NEW m \in {"normal", "insert"},
         buf' = ClampCol(b, m), mode' = m,
         anchor' \in {anchor, None}, register' \in Registers \cup {None}, vim' = vim,
         pending' \in {pending, None}, lastAction' = lastAction
  PROVE  EditorInv' /\ Undoable
<1>1. EditorTypeOK
  BY DEF EditorInv
<1>2. InText(buf') /\ CursorInside'
  BY ClampedInside
<1>3. Outcome
  BY <1>2 DEF Outcome
<1>4. lastAction' \in Actions \cup {None} /\ pending' \in Pendings \cup {None}
  BY <1>1 DEF EditorTypeOK
<1> QED
  BY <1>3, <1>4, OutcomeKeeps

LEMMA ChangeLineKeeps ==
  ASSUME EditorInv, ChangeLine
  PROVE  EditorInv' /\ Undoable
<1> DEFINE b == [WithLine(buf, <<>>) EXCEPT !.col = 0]
<1>1. InText(buf) /\ <<>> \in Line /\ 0 \in Nat
  BY BufIs, EmptySeq DEF Line
<1>2. InText(b)
  BY <1>1, WithLineIs
<1>3. Saved
  BY CheckpointSaves DEF ChangeLine
<1>4. register' \in Registers \cup {None}
  BY LineRegister DEF ChangeLine
<1>5. /\ buf' = ClampCol(b, "insert") /\ mode' = "insert" /\ anchor' \in {anchor, None}
      /\ vim' = vim /\ pending' \in {pending, None} /\ lastAction' = lastAction
  BY DEF ChangeLine, Becomes
<1> HIDE DEF b
<1> QED
  BY <1>2, <1>3, <1>4, <1>5, SavedKeeps

LEMMA EnterInsertKeeps ==
  ASSUME EditorInv, NEW k \in {"i", "a", "I", "A", "o", "O"}, EnterInsert(k)
  PROVE  EditorInv' /\ Undoable
<1> DEFINE line == LineOf(buf)
           ls   == buf.lines
<1>1. /\ InText(buf) /\ buf.row \in 1..Len(ls) /\ Len(ls) \in Nat /\ buf.col \in Nat
      /\ Len(line) \in Nat
  BY BufIs, Rows
<1>2. \A c \in Nat : InText([buf EXCEPT !.col = c])
  BY <1>1, WithColIs
<1>3. \A r \in 1..(Len(ls) + 1) : InText(At(InsertAt(ls, r, <<>>), <<r, 0>>))
  BY <1>1, OpenedIs
<1>4. buf.row + 1 \in 1..(Len(ls) + 1) /\ buf.row \in 1..(Len(ls) + 1)
      /\ buf.col + 1 \in Nat
  BY <1>1
<1>5. Saved /\ mode' = "insert"
  BY CheckpointSaves DEF EnterInsert, Becomes
<1>6. /\ register' \in Registers \cup {None} /\ anchor' \in {anchor, None} /\ vim' = vim
      /\ pending' \in {pending, None} /\ lastAction' = lastAction
  BY DEF EnterInsert, EditorInv, EditorTypeOK
<1>7. ASSUME NEW b, InText(b), buf' = ClampCol(b, "insert")
      PROVE  EditorInv' /\ Undoable
  BY <1>5, <1>6, <1>7, SavedKeeps
<1>8. CASE k = "i"
  <2>1. buf' = ClampCol(buf, "insert")
    BY <1>8 DEF EnterInsert, Becomes
  <2> QED
    BY <1>1, <1>7, <2>1
<1>9. CASE k = "a"
  <2> DEFINE c == IF line = <<>> THEN buf.col ELSE buf.col + 1
  <2>1. buf' = ClampCol([buf EXCEPT !.col = c], "insert")
    BY <1>9 DEF EnterInsert, Becomes
  <2>2. c \in Nat
    BY <1>1, <1>4
  <2> HIDE DEF c
  <2>3. InText([buf EXCEPT !.col = c])
    BY <1>2, <2>2
  <2> QED
    BY <1>7, <2>1, <2>3
<1>10. CASE k = "I"
  <2>1. buf' = ClampCol([buf EXCEPT !.col = 0], "insert")
    BY <1>10 DEF EnterInsert, Becomes
  <2>2. InText([buf EXCEPT !.col = 0])
    BY <1>2
  <2> QED
    BY <1>7, <2>1, <2>2
<1>11. CASE k = "A"
  <2>1. buf' = ClampCol([buf EXCEPT !.col = Len(line)], "insert")
    BY <1>11 DEF EnterInsert, Becomes
  <2>2. InText([buf EXCEPT !.col = Len(line)])
    BY <1>1, <1>2
  <2> QED
    BY <1>7, <2>1, <2>2
<1>12. CASE k = "o"
  <2>1. buf' = ClampCol(At(InsertAt(ls, buf.row + 1, <<>>), <<buf.row + 1, 0>>), "insert")
    BY <1>12 DEF EnterInsert, Becomes
  <2> QED
    BY <1>3, <1>4, <1>7, <2>1
<1>13. CASE k = "O"
  <2>1. buf' = ClampCol(At(InsertAt(ls, buf.row, <<>>), <<buf.row, 0>>), "insert")
    BY <1>13 DEF EnterInsert, Becomes
  <2> QED
    BY <1>3, <1>4, <1>7, <2>1
<1> QED
  BY <1>8, <1>9, <1>10, <1>11, <1>12, <1>13

(* The keys of a selection.                                                 *)
LEMMA EndsInside ==
  ASSUME EditorInv, InVisual, Readable
  PROVE  /\ Low \in (1..Len(buf.lines)) \X Nat /\ High \in (1..Len(buf.lines)) \X Nat
         /\ Low[1] <= High[1]
<1>1. InText(buf) /\ Len(buf.lines) \in Nat /\ buf.row \in 1..Len(buf.lines) /\ buf.col \in Nat
  BY BufIs, Rows
<1>2. anchor \in (Nat \ {0}) \X Nat
  BY DEF EditorInv, EditorTypeOK, AnchorSet
<1>3. anchor[1] \in 1..Len(buf.lines) /\ anchor[2] \in Nat /\ anchor = <<anchor[1], anchor[2]>>
  BY <1>1, <1>2 DEF Readable
<1>4. anchor \in (1..Len(buf.lines)) \X Nat /\ anchor \in Nat \X Nat
  BY <1>2, <1>3
<1>5. Pos(buf) \in (1..Len(buf.lines)) \X Nat /\ Pos(buf) \in Nat \X Nat
  BY <1>1 DEF Pos
<1>6. Before(anchor, Pos(buf)) \/ Before(Pos(buf), anchor)
  BY <1>4, <1>5, Reading
<1>7. CASE Before(anchor, Pos(buf))
  <2>1. Low = anchor /\ High = Pos(buf)
    BY <1>7 DEF Low, High
  <2> QED
    BY <1>4, <1>5, <1>7, <2>1 DEF Before
<1>8. CASE ~Before(anchor, Pos(buf))
  <2>1. Low = Pos(buf) /\ High = anchor
    BY <1>8 DEF Low, High
  <2> QED
    BY <1>4, <1>5, <1>6, <1>8, <2>1 DEF Before
<1> QED
  BY <1>7, <1>8

LEMMA SelectionKeeps ==
  ASSUME EditorInv, NEW op \in Operators, Selection(op)
  PROVE  EditorInv' /\ Undoable
<1> DEFINE ls   == buf.lines
           from == Low[1]
           to   == High[1]
<1>0. EditorTypeOK /\ InVisual /\ Readable
  BY DEF EditorInv, Selection
<1>1. InText(buf) /\ ls \in Text /\ ls \in Seq(Line) /\ Len(ls) \in Nat
  BY BufIs, Rows
<1>2. Low \in (1..Len(ls)) \X Nat /\ High \in (1..Len(ls)) \X Nat /\ from <= to
  BY <1>0, EndsInside
<1>3. from \in Nat \ {0} /\ to \in Nat /\ to <= Len(ls)
  BY <1>1, <1>2
<1>4. vim' = vim /\ pending' = pending /\ lastAction' = lastAction
  BY DEF Selection
<1>5. CASE mode = "visual"
  <2>1. Applies(op, Low, High)
    BY <1>5 DEF Selection
  <2>2. Outcome
    BY <1>2, <2>1, AppliesIs
  <2> QED
    BY <1>0, <1>4, <2>2, OutcomeKeeps DEF EditorTypeOK
<1>6. CASE mode # "visual"
  <2>1. register' \in Registers \cup {None}
    <3>1. /\ SubSeq(ls, from, to) \in Seq(Line)
          /\ Len(SubSeq(ls, from, to)) = to - from + 1
      <4>1. to \in Int
        BY <1>3
      <4>2. /\ SubSeq(ls, from, to) \in Seq(Line)
            /\ Len(SubSeq(ls, from, to)) = IF from <= to THEN to - from + 1 ELSE 0
        BY <1>1, <1>3, <4>1, Piece
      <4> QED
        BY <1>2, <4>2
    <3>2. SubSeq(ls, from, to) # <<>>
      <4>1. to - from + 1 # 0
        BY <1>2, <1>3
      <4> QED
        BY <3>1, <4>1, EmptySeq
    <3>3. register' = Linewise(SubSeq(ls, from, to))
      BY <1>6 DEF Selection
    <3> QED
      BY <3>1, <3>2, <3>3 DEF Linewise, Registers, Text
  <2>2. anchor' = None
    BY <1>6 DEF Selection
  <2>3. CASE op = "y"
    <3>1. InText(At(ls, Low)) /\ At(ls, Low).lines = ls
      BY <1>1, <1>2, AtIs
    <3>2. /\ mode' = "normal" /\ buf' = ClampCol(At(ls, Low), mode')
          /\ undo' = undo /\ redo' = redo /\ rewound' = rewound /\ edits' = edits + 1
      BY <1>6, <2>3 DEF Selection, Becomes, Unkept, Counted
    <3>3. InText(buf') /\ CursorInside' /\ buf'.lines = ls
      BY <3>1, <3>2, ClampedInside
    <3>4. Untouched
      BY <1>0, <3>2, <3>3 DEF Untouched, EditorTypeOK
    <3>5. Outcome
      BY <2>1, <2>2, <3>2, <3>3, <3>4 DEF Outcome
    <3> QED
      BY <1>0, <1>4, <3>5, OutcomeKeeps DEF EditorTypeOK
  <2>4. CASE op # "y"
    <3> DEFINE m == IF op = "c" THEN "insert" ELSE "normal"
               b == [LinesGone(buf, from, to) EXCEPT !.col = 0]
    <3>1. InText(b) /\ m \in {"normal", "insert"}
      BY <1>1, <1>3, LinesGoneIs
    <3>2. Saved
      BY <1>6, <2>4, CheckpointSaves DEF Selection
    <3>3. buf' = ClampCol(b, m) /\ mode' = m
      BY <1>6, <2>4 DEF Selection, Becomes
    <3> HIDE DEF b, m
    <3> QED
      BY <1>4, <2>1, <2>2, <3>1, <3>2, <3>3, SavedKeeps
  <2> QED
    BY <2>3, <2>4
<1> QED
  BY <1>5, <1>6

LEMMA EscKeeps ==
  ASSUME EditorInv, Esc
  PROVE  EditorInv' /\ Undoable
<1>1. EditorTypeOK /\ InText(buf)
  BY BufIs DEF EditorInv
<1>2. /\ mode' = "normal" /\ buf' = ClampCol(buf, mode') /\ anchor' \in {anchor, None}
      /\ rewound' = FALSE
      /\ UNCHANGED <<vim, register, undo, redo, pending, lastAction, edits>>
  BY DEF Esc, Becomes
<1>3. InText(buf') /\ CursorInside' /\ buf'.lines = buf.lines
  BY <1>1, <1>2, ClampedInside
<1>4. Untouched
  BY <1>1, <1>2, <1>3 DEF Untouched, EditorTypeOK
<1>5. register' \in Registers \cup {None}
  BY <1>1, <1>2 DEF EditorTypeOK
<1>6. Outcome
  BY <1>2, <1>3, <1>4, <1>5 DEF Outcome
<1> QED
  BY <1>1, <1>2, <1>6, OutcomeKeeps DEF EditorTypeOK

(* What the screen does.                                                    *)
LEMMA InsertAtCursorKeeps ==
  ASSUME EditorInv, NEW t \in Texts, InsertAtCursor(t)
  PROVE  EditorInv' /\ Undoable
<1>1. InText(InsertMultiline(buf, t))
  BY BufIs, TextsAre, InsertMultilineIs
<1>2. Saved
  BY CheckpointSaves DEF InsertAtCursor
<1>3. /\ buf' = ClampCol(InsertMultiline(buf, t), "insert") /\ mode' = "insert"
      /\ register' \in Registers \cup {None} /\ anchor' \in {anchor, None} /\ vim' = vim
      /\ pending' \in {pending, None} /\ lastAction' = lastAction
  BY DEF InsertAtCursor, Becomes, EditorInv, EditorTypeOK
<1> QED
  BY <1>1, <1>2, <1>3, SavedKeeps

LEMMA ReplaceWordKeeps ==
  ASSUME EditorInv, NEW c \in Typed, ReplaceWord(<<c>>)
  PROVE  EditorInv' /\ Undoable
<1> DEFINE line   == LineOf(buf)
           starts == {i \in 0..buf.col : \A k \in (i + 1)..buf.col : CharClass(line[k]) = "word"}
           start  == Min(starts)
           new    == Take(line, start) \o <<c>> \o Drop(line, buf.col)
           b      == [WithLine(buf, new) EXCEPT !.col = start + Len(<<c>>)]
<1>1. InText(buf) /\ line \in Seq(Chars) /\ buf.col \in Nat
  BY BufIs, Rows DEF Line
<1>2. start \in Nat
  <2>1. starts \in SUBSET Nat
    BY <1>1
  <2>2. buf.col \in starts
    BY <1>1
  <2> HIDE DEF starts
  <2> QED
    BY <2>1, <2>2, MinIsIn
<1>3. /\ Saved /\ buf' = ClampCol(b, "insert") /\ mode' = "insert"
      /\ register' \in Registers \cup {None} /\ anchor' \in {anchor, None} /\ vim' = vim
      /\ pending' \in {pending, None} /\ lastAction' = lastAction
  BY CheckpointSaves DEF ReplaceWord, Inserts, Becomes, EditorInv, EditorTypeOK
<1> HIDE DEF start
<1>4. c \in Chars
  BY QueryEditorAssumption
<1>5. <<c>> \in Seq(Chars) /\ Len(<<c>>) = 1
  BY <1>4, Single
<1>6. Take(line, start) \in Seq(Chars)
  BY <1>1, <1>2, TakeIs
<1>7. Drop(line, buf.col) \in Seq(Chars)
  BY <1>1, DropIs
<1>8. new \in Line
  BY <1>5, <1>6, <1>7, Between DEF Line
<1>9. start + Len(<<c>>) \in Nat
  BY <1>2, <1>5
<1> HIDE DEF new
<1>10. InText(b)
  BY <1>1, <1>8, <1>9, WithLineIs
<1> HIDE DEF b
<1> QED
  BY <1>3, <1>10, SavedKeeps

LEMMA SubstituteKeeps ==
  ASSUME EditorInv, NEW c \in Typed, NEW by \in Typed,
         NEW whole \in BOOLEAN, NEW all \in BOOLEAN, Substitute(c, <<by>>, whole, all)
  PROVE  EditorInv' /\ Undoable
<1> DEFINE rows == {r \in DOMAIN buf.lines : Contains(buf.lines[r], c) /\ (whole \/ r = buf.row)}
           b    == Substituted(buf, c, <<by>>, all, rows)
<1>1. InText(buf) /\ DOMAIN buf.lines = 1..Len(buf.lines)
  BY BufIs, Rows
<1>2. rows \in SUBSET (1..Len(buf.lines)) /\ rows # {}
  BY <1>1 DEF Substitute
<1>3. /\ Saved /\ buf' = ClampCol(b, "normal") /\ mode' = "normal"
      /\ register' \in Registers \cup {None} /\ anchor' \in {anchor, None} /\ vim' = vim
      /\ pending' \in {pending, None} /\ lastAction' = lastAction
  BY CheckpointSaves DEF Substitute, Substituted, Becomes, EditorInv, EditorTypeOK
<1>4. <<by>> \in Line
  <2>1. by \in Chars
    BY QueryEditorAssumption
  <2>2. <<by>> \in Seq(Chars)
    BY <2>1, Single
  <2> QED
    BY <2>2 DEF Line
<1> HIDE DEF rows
<1>5. InText(b)
  <2>1. InText(buf) /\ rows \in SUBSET (1..Len(buf.lines)) /\ rows # {}
    BY <1>1, <1>2
  <2> QED
    BY <1>4, <2>1, SubstitutedIs
<1> HIDE DEF b
<1> QED
  BY <1>3, <1>5, SavedKeeps

-----------------------------------------------------------------------------
(* Typing.                                                                  *)
LEMMA TypeKeeps ==
  ASSUME EditorInv, NEW c \in Typed, Type(c)
  PROVE  EditorInv' /\ Undoable
<1>0. EditorTypeOK /\ InText(buf)
  BY BufIs DEF EditorInv
<1>1. c \in Chars
  BY QueryEditorAssumption
<1>2. InText(TypeChar(buf, c))
  BY <1>0, <1>1, TypeCharIs
<1>3. /\ mode = "insert" /\ mode' = "insert" /\ buf' = ClampCol(TypeChar(buf, c), "insert")
      /\ UNCHANGED <<vim, anchor, register, pending, lastAction>>
  BY DEF Type, Inserts, Becomes
<1>4. CASE vim \/ runEnd = Pos(buf)
  <2>1. UNCHANGED <<undo, redo, base, rewound>> /\ edits' = edits + 1
    BY <1>4 DEF Type, Continues, Counted
  <2>2. vim \/ runEnd # None
    BY <1>0, <1>4, PosIsSet
  <2>3. edits' \in Nat
    BY <1>0, <2>1 DEF EditorTypeOK
  <2> QED
    BY <1>2, <1>3, <2>1, <2>2, <2>3, TypingKeeps
<1>5. CASE ~(vim \/ runEnd = Pos(buf))
  <2>1. /\ undo' = Append(IF Len(undo) = MaxUndo THEN Tail(undo) ELSE undo, buf)
        /\ redo' = <<>> /\ base' = buf.lines /\ rewound' = FALSE /\ edits' = edits + 1
    BY <1>5 DEF Type, Counted
  <2>2. undo \in Seq(Buffers) /\ buf \in Buffers
    BY <1>0 DEF EditorTypeOK
  <2>3. undo' \in Seq(Buffers) /\ undo' # <<>> /\ Last(undo') = buf /\ Len(undo') <= MaxUndo
    BY <2>1, <2>2, HistoryIs, Pushed
  <2>4. Saved
    BY <1>0, <2>1, <2>3 DEF Saved, EditorTypeOK
  <2>5. /\ anchor' \in {anchor, None} /\ register' \in Registers \cup {None}
        /\ pending' \in {pending, None}
    BY <1>0, <1>3 DEF EditorTypeOK
  <2> QED
    BY <1>2, <1>3, <2>4, <2>5, SavedKeeps
<1> QED
  BY <1>4, <1>5

(* A key that is a step of its own without vim.                             *)
LEMMA KeyKeeps ==
  ASSUME EditorInv, mode = "insert", StepIfNonModal, NEW b, InText(b), Inserts(b)
  PROVE  EditorInv' /\ Undoable
<1>0. EditorTypeOK
  BY DEF EditorInv
<1>1. /\ mode' = "insert" /\ buf' = ClampCol(b, "insert")
      /\ UNCHANGED <<vim, anchor, register, pending, lastAction>>
  BY DEF Inserts, Becomes
<1>2. CASE vim
  <2>1. UNCHANGED <<undo, redo, base, rewound>> /\ edits' = edits + 1
    BY <1>2 DEF StepIfNonModal, Continues, Counted
  <2>2. edits' \in Nat
    BY <1>0, <2>1 DEF EditorTypeOK
  <2> QED
    BY <1>1, <1>2, <2>1, <2>2, TypingKeeps
<1>3. CASE ~vim
  <2>1. Saved
    BY <1>3, CheckpointSaves DEF StepIfNonModal
  <2>2. /\ anchor' \in {anchor, None} /\ register' \in Registers \cup {None}
        /\ pending' \in {pending, None}
    BY <1>0, <1>1 DEF EditorTypeOK
  <2> QED
    BY <1>1, <2>1, <2>2, SavedKeeps
<1> QED
  BY <1>2, <1>3

LEMMA EnterKeeps ==
  ASSUME EditorInv, Enter
  PROVE  EditorInv' /\ Undoable
<1>1. << <<>>, <<>> >> \in Text
  <2>1. <<>> \in Line
    BY EmptySeq DEF Line
  <2>2. << <<>>, <<>> >> \in Seq(Line) /\ Len(<< <<>>, <<>> >>) = 2
    BY <2>1, Double
  <2> QED
    BY <2>2, EmptySeq DEF Text
<1>2. InText(InsertMultiline(buf, << <<>>, <<>> >>))
  BY <1>1, BufIs, InsertMultilineIs
<1>3. mode = "insert" /\ StepIfNonModal /\ Inserts(InsertMultiline(buf, << <<>>, <<>> >>))
  BY DEF Enter
<1> QED
  BY <1>2, <1>3, KeyKeeps

LEMMA BackspaceKeeps ==
  ASSUME EditorInv, Backspace
  PROVE  EditorInv' /\ Undoable
<1>1. InText(Backspaced(buf))
  BY BufIs, BackspacedIs
<1>2. mode = "insert" /\ StepIfNonModal /\ Inserts(Backspaced(buf))
  BY DEF Backspace
<1> QED
  BY <1>1, <1>2, KeyKeeps

LEMMA ArrowKeeps ==
  ASSUME EditorInv, NEW to \in Places(buf.lines), Arrow(to)
  PROVE  EditorInv' /\ Undoable
<1>1. buf.lines \in Seq(Line) /\ DOMAIN buf.lines = 1..Len(buf.lines)
  BY BufIs, Rows
<1>2. to \in (1..Len(buf.lines)) \X Nat
  BY <1>1, QueryEditorAssumption DEF Places
<1>3. InText(At(buf.lines, to)) /\ At(buf.lines, to).lines = buf.lines
  BY <1>1, <1>2, AtIs
<1>4. /\ mode = "insert" /\ mode' = "insert" /\ buf' = ClampCol(At(buf.lines, to), "insert")
      /\ runEnd' = None
      /\ UNCHANGED <<vim, anchor, register, pending, lastAction, undo, redo, edits, base,
                     rewound>>
  BY DEF Arrow, Inserts, Becomes
<1>5. edits' \in Nat
  BY <1>4 DEF EditorInv, EditorTypeOK
<1> QED
  BY <1>3, <1>4, <1>5, TypingKeeps

-----------------------------------------------------------------------------
LEMMA InitEditorInv == Init => EditorInv
<1> SUFFICES ASSUME Init PROVE EditorInv
  OBVIOUS
<1>1. PICK text \in Texts \cup {<< <<>> >>} :
          /\ buf = At(text, <<1, 0>>)
          /\ mode = IF vim \/ text # << <<>> >> THEN "normal" ELSE "insert"
  BY DEF Init
<1>2. text \in Seq(Line) /\ 1 \in 1..Len(text)
  <2>1. CASE text \in Texts
    BY <2>1, TextsAre
  <2>2. CASE text = << <<>> >>
    <3>1. <<>> \in Line
      BY EmptySeq DEF Line
    <3>2. << <<>> >> \in Seq(Line) /\ Len(<< <<>> >>) = 1
      BY <3>1, Single
    <3> QED
      BY <2>2, <3>2
  <2> QED
    BY <2>1, <2>2
<1>3. InText(buf) /\ buf = [lines |-> text, row |-> 1, col |-> 0]
  BY <1>1, <1>2, Builds
<1>4. mode \in {"normal", "insert"} /\ anchor = None /\ runEnd = None /\ vim \in BOOLEAN
  BY <1>1 DEF Init
<1>5. EditorTypeOK
  <2>1. <<>> \in Seq(Buffers)
    BY EmptySeq
  <2>2. mode \in Modes /\ buf \in Buffers /\ edits \in Nat
    BY <1>3, <1>4 DEF Init, Modes, InText
  <2> QED
    BY <1>4, <2>1, <2>2 DEF Init, EditorTypeOK
<1>6. CursorInside
  <2>1. buf.row \in DOMAIN buf.lines /\ LineOf(buf) \in Seq(Chars) /\ buf.col = 0
    BY <1>3, Rows DEF Line
  <2>2. 0 <= Len(LineOf(buf)) /\ 0 <= Minus(Len(LineOf(buf)), 1)
    BY <2>1, LenProperties DEF Minus
  <2> QED
    BY <2>1, <2>2 DEF CursorInside
<1>7. SelectionInside /\ AnchorSet
  BY <1>4 DEF SelectionInside, AnchorSet, InVisual
<1>8. StepKept
  BY <1>1, <1>4 DEF StepKept
<1>9. StacksBounded
  BY NothingStacked DEF Init, StacksBounded
<1> QED
  BY <1>5, <1>6, <1>7, <1>8, <1>9 DEF EditorInv

LEMMA StepKeeps ==
  ASSUME EditorInv, [Next]_vars
  PROVE  EditorInv' /\ (Undoable \/ Undo \/ Redo \/ Loads)
<1>1. CASE \E m \in Motions : Move(m)
  BY <1>1, MoveKeeps
<1>2. CASE \E k \in SimpleKeys : SimpleEdit(k)
  BY <1>2, NormalKeeps
<1>3. CASE \E op \in Operators : ToLineEnd(op)
  BY <1>3, NormalKeeps
<1>4. CASE \E op \in Operators : OperatorKey(op)
  BY <1>4, OperatorWaits
<1>5. CASE \E op \in Operators : Selection(op)
  BY <1>5, SelectionKeeps
<1>6. CASE RepeatLast \/ OperatorTakesMotion \/ OperatorDoubled \/ OperatorTakesWord
  BY <1>6, NormalKeeps
<1>7. CASE ChangeLine
  BY <1>7, ChangeLineKeeps
<1>8. CASE (\E s \in Scopes : OperatorScope(s)) \/ OperatorCancelled
  BY <1>8, OperatorWaits
<1>9. CASE \E k \in {"i", "a", "I", "A", "o", "O"} : EnterInsert(k)
  BY <1>9, EnterInsertKeeps
<1>10. CASE \E m \in {"visual", "visual line"} : EnterVisual(m)
  BY <1>10, EnterVisualKeeps
<1>11. CASE Esc
  BY <1>11, EscKeeps
<1>12. CASE Enter
  BY <1>12, EnterKeeps
<1>13. CASE Backspace
  BY <1>13, BackspaceKeeps
<1>14. CASE Undo \/ Redo
  BY <1>14, RewindKeeps
<1>15. CASE \E c \in Typed : Type(c)
  BY <1>15, TypeKeeps
<1>16. CASE \E to \in Places(buf.lines) : Arrow(to)
  BY <1>16, ArrowKeeps
<1>17. CASE \E p \in Places(buf.lines) : Found(p)
  BY <1>17, FoundKeeps
<1>18. CASE \E t \in Texts : InsertAtCursor(t)
  BY <1>18, InsertAtCursorKeeps
<1>19. CASE \E t \in Texts : SetText(t)
  BY <1>19, SetTextKeeps DEF Loads
<1>20. CASE \E c \in Typed : ReplaceWord(<<c>>)
  BY <1>20, ReplaceWordKeeps
<1>21. CASE \E c, by \in Typed, whole, all \in BOOLEAN : Substitute(c, <<by>>, whole, all)
  BY <1>21, SubstituteKeeps
<1>22. CASE UNCHANGED vars
  <2>1. EditorTypeOK' /\ CursorInside' /\ SelectionInside'
    BY <1>22 DEF vars, EditorInv, EditorTypeOK, CursorInside, SelectionInside, InVisual, Readable
  <2>2. AnchorSet' /\ StepKept' /\ StacksBounded' /\ Undoable
    BY <1>22 DEF vars, EditorInv, AnchorSet, InVisual, StepKept, StacksBounded, Undoable
  <2> QED
    BY <2>1, <2>2 DEF EditorInv
<1> QED
  BY <1>1, <1>2, <1>3, <1>4, <1>5, <1>6, <1>7, <1>8, <1>9, <1>10, <1>11, <1>12, <1>13,
     <1>14, <1>15, <1>16, <1>17, <1>18, <1>19, <1>20, <1>21, <1>22 DEF Next

LEMMA EditorInvHolds == Spec => []EditorInv
<1>1. EditorInv /\ [Next]_vars => EditorInv'
  BY StepKeeps
<1> QED
  BY <1>1, InitEditorInv, PTL DEF Spec

(* The cursor, the ends of a selection and the range of every operator are  *)
(* in the text, whatever is typed, loaded, pasted or taken back: of texts   *)
(* of any size, on a stack of any depth.                                    *)
THEOREM PositionsStayInside == Spec => []PositionsInside
<1>1. ASSUME EditorInv
      PROVE  PositionsInside
  <2>1. CursorInside /\ SelectionInside
    BY <1>1 DEF EditorInv
  <2>2. RangesInside
    <3>1. CASE InNormal
      <4>1. OnSpot(buf)
        BY <1>1, <3>1, BufIs DEF InNormal
      <4>2. \A m \in OperatorMotions : Pos(Moved(buf, m)) # Pos(buf) => IsRange(MotionRange(m))
        BY <4>1, MotionRangeIs
      <4>3. \A s \in Scopes : IsRange(WordRange(s))
        BY <4>1, WordRangeIs
      <4> QED
        BY <4>2, <4>3 DEF RangesInside
    <3>2. CASE ~InNormal
      BY <3>2 DEF RangesInside
    <3> QED
      BY <3>1, <3>2
  <2> QED
    BY <2>1, <2>2 DEF PositionsInside
<1> QED
  BY <1>1, EditorInvHolds, PTL

(* The two stacks of undo together never hold more than MAX_UNDO_HISTORY,   *)
(* although `undo` and `redo` push without looking at it.                   *)
THEOREM HistoryStaysBounded == Spec => []StacksBounded
<1>1. EditorInv => StacksBounded
  BY DEF EditorInv
<1> QED
  BY <1>1, EditorInvHolds, PTL

(* Every edit can be taken back by one `undo`, and a `redo` never crosses   *)
(* it: with a stack of any depth, and whatever was forgotten at its bottom. *)
THEOREM EditsAreKept == Spec => EditsCanBeUndone
<1> DEFINE Takable ==
             buf'.lines # buf.lines /\ ~(Undo \/ Redo \/ Loads) =>
                 \/ rewound
                 \/ /\ undo' # <<>> /\ Last(undo').lines = base'
                    /\ redo' = <<>>
                    /\ mode = "insert" \/ base' = buf.lines
<1>1. EditorInv /\ [Next]_vars => [Takable]_vars
  BY StepKeeps DEF Undoable
<1> HIDE DEF Takable
<1>2. Spec => [][Takable]_vars
  BY <1>1, EditorInvHolds, PTL DEF Spec
<1> USE DEF Takable
<1> QED
  BY <1>2 DEF EditsCanBeUndone
=============================================================================
