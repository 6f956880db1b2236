--------------------------- MODULE PrinterProofs ---------------------------
(***************************************************************************)
(* For all expressions, however deep, and all buffer sizes: the printers   *)
(* keep one level per open parenthesis, print_sexp counts what is left of  *)
(* the buffer, what is returned is the text of the expression, and nothing *)
(* is written outside the buffer but at the edges of a binary atom.  And   *)
(* what the operations of sexp_ops.c return for all expressions.           *)
(***************************************************************************)
EXTENDS Operations, SequenceTheorems, WellFoundedInduction, TLAPS

Walking == pc \in {"print", "cstr"}

Shape(s, d) ==
  /\ s \in Seq(Seq(Tree)) /\ d \in Nat
  /\ \/ s = << >> /\ d = 0
     \/ Len(s) = d + 1 /\ \A i \in 1..d : s[i] # << >>

Counted(w, n) == w \in Seq(Char) /\ n \in Nat /\ n >= 1 /\ Len(w) + n = job.size

PrinterInv ==
  /\ job \in Jobs
  /\ pc = "call" => b = << >> /\ left = job.size /\ depth = 0 /\ tc = 0
  /\ Walking => Shape(stack, depth)
  /\ pc = "print" => Counted(b, left)
-----------------------------------------------------------------------------
(* The levels. *)
LEMMA AdvanceShape ==
  ASSUME NEW s, NEW d, Shape(s, d), s # << >>, s[Len(s)] # << >>
  PROVE  Shape(Advance(s), d)
<1> DEFINE n == Len(s)
<1>1. s \in Seq(Seq(Tree)) /\ d \in Nat /\ n = d + 1 /\ \A i \in 1..d : s[i] # << >>
  BY DEF Shape
<1>2. n \in 1..Len(s) /\ s[n] \in Seq(Tree)
  BY <1>1
<1>3. Tail(s[n]) \in Seq(Tree)
  BY <1>2, HeadTailProperties
<1>4. Advance(s) = [s EXCEPT ![n] = Tail(s[n])]
  BY DEF Advance
<1> HIDE DEF n
<1>5. Advance(s) \in Seq(Seq(Tree)) /\ Len(Advance(s)) = n
  BY <1>1, <1>2, <1>3, <1>4, ExceptSeq DEF n
<1>6. \A i \in 1..d : Advance(s)[i] = s[i]
  BY <1>1, <1>2, <1>4 DEF n
<1> QED
  BY <1>1, <1>5, <1>6 DEF Shape

LEMMA BelowShape ==
  ASSUME NEW s, NEW d, Shape(s, d), s # << >>,
         NEW p, p = SubSeq(s, 1, Len(s) - 1)
  PROVE  /\ p = << >> => d = 0
         /\ p # << >> => d >= 1 /\ Shape(p, d - 1) /\ p[Len(p)] # << >>
<1>1. s \in Seq(Seq(Tree)) /\ d \in Nat /\ Len(s) = d + 1 /\ \A i \in 1..d : s[i] # << >>
  BY DEF Shape
<1>2. p \in Seq(Seq(Tree)) /\ Len(p) = d /\ \A i \in 1..d : p[i] = s[i]
  BY <1>1, SubSeqProperties
<1>3. p = << >> <=> d = 0
  BY <1>1, <1>2, EmptySeq
<1>4. ASSUME d # 0
      PROVE  Shape(p, d - 1) /\ p[Len(p)] # << >>
  <2>1. d - 1 \in Nat /\ d \in 1..d /\ \A i \in 1..(d - 1) : i \in 1..d
    BY <1>1, <1>4
  <2> QED
    BY <1>1, <1>2, <2>1 DEF Shape
<1>5. d # 0 => d >= 1
  BY <1>1
<1> QED
  BY <1>3, <1>4, <1>5

LEMMA OpenShape ==
  ASSUME NEW s, NEW d, Shape(s, d), s # << >>, s[Len(s)] # << >>, NEW kids \in Seq(Tree)
  PROVE  Shape(s \o <<kids>>, d + 1)
<1> DEFINE q == s \o <<kids>>
<1>1. s \in Seq(Seq(Tree)) /\ d \in Nat /\ Len(s) = d + 1 /\ \A i \in 1..d : s[i] # << >>
  BY DEF Shape
<1>2. <<kids>> \in Seq(Seq(Tree)) /\ Len(<<kids>>) = 1
  OBVIOUS
<1>3. q \in Seq(Seq(Tree)) /\ Len(q) = d + 2 /\ \A i \in 1..(d + 1) : q[i] = s[i]
  BY <1>1, <1>2, ConcatProperties
<1> HIDE DEF q
<1>4. \A i \in 1..(d + 1) : i \in 1..d \/ i = d + 1
  BY <1>1
<1>5. \A i \in 1..(d + 1) : q[i] # << >>
  BY <1>1, <1>3, <1>4
<1> QED
  BY <1>1, <1>3, <1>5 DEF Shape, q

LEMMA BlankText == \A rest : Blank(rest) \in Seq(Char)
<1>1. "sp" \in Char
  BY CharAssumption DEF Marks
<1> QED
  BY <1>1 DEF Blank

(* The element at hand, and what is written for a text atom. *)
LEMMA AtHand ==
  ASSUME Shape(stack, depth), NEW kind, At(kind)
  PROVE  /\ stack # << >> /\ Top # << >> /\ Top = stack[Len(stack)]
         /\ Top[1] \in Tree /\ Top[1].val \in Seq(Char) /\ Top[1].kids \in Seq(Tree)
<1>1. stack # << >> /\ Top # << >> /\ Top = stack[Len(stack)]
  BY DEF At, Top
<1>2. stack \in Seq(Seq(Tree)) /\ Len(stack) \in 1..Len(stack)
  BY <1>1, EmptySeq DEF Shape
<1>3. Top \in Seq(Tree)
  BY <1>1, <1>2
<1>4. Len(Top) \in Nat /\ Len(Top) # 0
  BY <1>1, <1>3, EmptySeq
<1>5. Top[1] \in Tree
  BY <1>3, <1>4
<1> QED
  BY <1>1, <1>5, TreeAssumption

LEMMA TextWritten ==
  ASSUME Shape(stack, depth), Text
  PROVE  /\ Opening \in Seq(Char) /\ Ending \in Seq(Char)
         /\ tc \in 1..Len(Top[1].val) => Character \in Seq(Char)
<1>1. \A c \in Marks : c \in Char /\ <<c>> \in Seq(Char)
  BY CharAssumption
<1>2. <<"dq">> \in Seq(Char) /\ <<"sq">> \in Seq(Char) /\ "bs" \in Char
  BY <1>1 DEF Marks
<1>3. Opening \in Seq(Char)
  BY <1>2 DEF Opening
<1>4. Blank(Tail(Top)) \in Seq(Char)
  BY BlankText
<1>5. Ending \in Seq(Char)
  BY <1>2, <1>4, ConcatProperties DEF Ending
<1>6. ASSUME tc \in 1..Len(Top[1].val)
      PROVE  Character \in Seq(Char)
  <2>1. Top[1].val[tc] \in Char
    BY <1>6, AtHand DEF Text
  <2> DEFINE c == Top[1].val[tc]
  <2>2. <<c>> \in Seq(Char) /\ <<"bs", c>> \in Seq(Char)
    BY <1>2, <2>1
  <2> QED
    BY <2>2 DEF Character
<1> QED
  BY <1>3, <1>5, <1>6

LEMMA ClosedShape ==
  ASSUME Shape(stack, depth), stack # << >>
  PROVE  Closed.text \in Seq(Char) /\ Shape(Closed.stack, Up)
<1>1. Closing \in Seq(Char)
  BY CharAssumption DEF Closing, Marks
<1>2. /\ Below = << >> => depth = 0
      /\ Below # << >> => depth >= 1 /\ Shape(Below, depth - 1) /\ Below[Len(Below)] # << >>
  BY BelowShape DEF Below
<1>3. depth \in Nat
  BY DEF Shape
<1>4. CASE Below = << >>
  <2>1. Closed.text = Closing /\ Closed.stack = << >> /\ Up = 0
    BY <1>2, <1>4 DEF Closed, Up
  <2> QED
    BY <1>1, <2>1 DEF Shape
<1>5. CASE Below # << >>
  <2>1. /\ Closed.text = Closing \o Blank(Tail(Below[Len(Below)]))
        /\ Closed.stack = Advance(Below)
    BY <1>5 DEF Closed
  <2>2. Up = depth - 1
    BY <1>2, <1>3, <1>5 DEF Up
  <2>3. Closed.text \in Seq(Char)
    BY <1>1, <2>1, BlankText, ConcatProperties
  <2> QED
    BY <1>2, <1>5, <2>1, <2>2, <2>3, AdvanceShape
<1> QED
  BY <1>4, <1>5
-----------------------------------------------------------------------------
(* Writing: the invariant afterwards, and no write outside the buffer.      *)
LEMMA OutOfSpaceKeeps ==
  ASSUME PrinterInv, pc = "print", NEW w, OutOfSpace(w)
  PROVE  PrinterInv' /\ (w # << >> => pc' = "done")
<1>1. job' = job /\ pc' \in {"undefined", "done"} /\ (w # << >> => pc' = "done")
  BY DEF OutOfSpace
<1> QED
  BY <1>1 DEF PrinterInv, Walking

LEMMA AddKeeps ==
  ASSUME PrinterInv, pc = "print",
         NEW w, NEW n, Counted(w, n), NEW cs \in Seq(Char), NEW s, NEW d, Shape(s, d),
         NEW k, Add(w, n, cs, s, d, k)
  PROVE  PrinterInv' /\ pc' # "undefined"
<1>1. /\ w \in Seq(Char) /\ n \in Nat /\ n >= 1 /\ Len(w) + n = job.size
      /\ Len(w) \in Nat /\ Len(cs) \in Nat
  BY DEF Counted
<1>2. CASE Len(cs) >= n
  <2> DEFINE v == w \o SubSeq(cs, 1, n)
  <2>1. OutOfSpace(v)
    BY <1>2 DEF Add
  <2>2. SubSeq(cs, 1, n) \in Seq(Char) /\ Len(SubSeq(cs, 1, n)) = n
    BY <1>1, <1>2, SubSeqProperties
  <2>3. v \in Seq(Char) /\ Len(v) = Len(w) + n
    BY <1>1, <2>2, ConcatProperties
  <2> HIDE DEF v
  <2>4. Len(v) >= 1
    BY <1>1, <2>3
  <2>5. v # << >>
    BY <2>4
  <2> QED
    BY <2>1, <2>5, OutOfSpaceKeeps
<1>3. CASE ~(Len(cs) >= n)
  <2>1. /\ b' = w \o cs /\ left' = n - Len(cs)
        /\ stack' = s /\ depth' = d /\ job' = job /\ pc' = pc
    BY <1>3 DEF Add
  <2>2. w \o cs \in Seq(Char) /\ Len(w \o cs) = Len(w) + Len(cs)
    BY <1>1, ConcatProperties
  <2>3. Counted(b, left)'
    BY <1>1, <1>3, <2>1, <2>2 DEF Counted
  <2>4. Shape(stack, depth)'
    BY <2>1 DEF Shape
  <2> QED
    BY <2>1, <2>3, <2>4 DEF PrinterInv, Walking
<1> QED
  BY <1>2, <1>3

LEMMA SaddKeeps ==
  ASSUME PrinterInv, pc = "cstr", NEW cs, NEW s, NEW d, Shape(s, d), NEW k,
         Sadd(cs, s, d, k)
  PROVE  PrinterInv' /\ pc' # "undefined"
<1>1. job' = job /\ pc' = pc /\ stack' = s /\ depth' = d
  BY DEF Sadd
<1>2. Shape(stack, depth)'
  BY <1>1 DEF Shape
<1> QED
  BY <1>1, <1>2 DEF PrinterInv, Walking

LEMMA BinaryKeeps ==
  ASSUME PrinterInv, PrintBinary
  PROVE  PrinterInv'
<1> DEFINE val == Top[1].val
           room == left - 3 - Len(Size)
           head == b \o Prefix \o Size \o val
           cs == <<"sp">> \o Blank(Tail(Top))
<1>1. pc = "print" /\ Counted(b, left) /\ Shape(stack, depth) /\ At("VALUE")
  BY DEF PrintBinary, PrinterInv, Walking, Bytes
<1>2. /\ stack # << >> /\ stack[Len(stack)] # << >> /\ val \in Seq(Char)
      /\ Top[1] \in Tree
  BY <1>1, AtHand
<1>3. Size \in Seq(Char)
  <2>1. Decimal(Len(val)) \in Seq(Char)
    BY <1>2, CharAssumption DEF PrintBinary, Bytes
  <2>2. <<"hash">> \in Seq(Char)
    BY CharAssumption DEF Marks
  <2> QED
    BY <2>1, <2>2, ConcatProperties DEF Size
<1>4. Prefix \in Seq(Char) /\ Len(Prefix) = 3
  BY CharAssumption DEF Prefix, Marks
<1>5. cs \in Seq(Char)
  <2>1. <<"sp">> \in Seq(Char)
    BY CharAssumption DEF Marks
  <2> QED
    BY <2>1, BlankText, ConcatProperties
<1>6. Shape(Advance(stack), depth)
  BY <1>1, <1>2, AdvanceShape
<1>7. \/ \E w : OutOfSpace(w)
      \/ Overrun
      \/ /\ ~(room <= Len(val))
         /\ Add(head, room - Len(val), cs, Advance(stack), depth, 0)
  BY DEF PrintBinary
<1>8. CASE \E w : OutOfSpace(w)
  BY <1>1, <1>8, OutOfSpaceKeeps
<1>9. CASE Overrun
  BY <1>9 DEF Overrun, PrinterInv, Walking
<1>10. CASE /\ ~(room <= Len(val))
            /\ Add(head, room - Len(val), cs, Advance(stack), depth, 0)
  <2>1. b \in Seq(Char) /\ left \in Nat /\ Len(b) + left = job.size
    BY <1>1 DEF Counted
  <2> DEFINE p == b \o Prefix
             q == p \o Size
  <2>2. p \in Seq(Char) /\ Len(p) = Len(b) + Len(Prefix)
    BY <1>4, <2>1, ConcatProperties
  <2> HIDE DEF p
  <2>3. q \in Seq(Char) /\ Len(q) = Len(p) + Len(Size)
    BY <1>3, <2>2, ConcatProperties
  <2> HIDE DEF q
  <2>4. head \in Seq(Char) /\ Len(head) = Len(q) + Len(val)
    <3>1. head = q \o val
      BY DEF p, q
    <3>2. val \in Seq(Char)
      BY <1>2
    <3> HIDE DEF head, val
    <3> QED
      BY <2>3, <3>1, <3>2, ConcatProperties
  <2>5. Len(b) \in Nat /\ Len(Size) \in Nat /\ Len(val) \in Nat
    BY <1>2, <1>3, <2>1
  <2> HIDE DEF head, val
  <2>6. /\ room - Len(val) \in Nat /\ room - Len(val) >= 1
        /\ Len(head) + (room - Len(val)) = job.size
    BY <1>4, <1>10, <2>1, <2>2, <2>3, <2>4, <2>5
  <2>7. Counted(head, room - Len(val))
    BY <2>4, <2>6 DEF Counted
  <2> HIDE DEF cs, room
  <2> QED
    BY <1>1, <1>5, <1>6, <1>10, <2>7, AddKeeps
<1> QED
  BY <1>7, <1>8, <1>9, <1>10
-----------------------------------------------------------------------------
LEMMA PrinterInit == Init => PrinterInv
  BY DEF Init, PrinterInv, Walking

(* Every action but PrintBinary, which alone may leave a buffer of at least *)
(* one character.                                                           *)
LEMMA StepKeeps ==
  ASSUME PrinterInv, Next, ~PrintBinary
  PROVE  /\ PrinterInv'
         /\ pc' = "undefined" => job' = job /\ job \in Jobs /\ job.sx = << >> /\ job.size = 0
                                 /\ job.fn = "print_sexp"
<1>1. job \in Jobs /\ job.size \in Nat /\ job.sx \in Seq(Tree)
  BY JobsAssumption DEF PrinterInv
<1>2. << >> \in Seq(Char) /\ Len(<< >>) = 0
  OBVIOUS
<1>3. Walking => Shape(stack, depth)
  BY DEF PrinterInv
<1>4. pc = "print" => Walking /\ Counted(b, left)
  BY DEF PrinterInv, Walking
<1>5. Shape(<<job.sx>>, 0)
  <2>1. <<job.sx>> \in Seq(Seq(Tree)) /\ Len(<<job.sx>>) = 1
    BY <1>1
  <2> QED
    BY <2>1 DEF Shape
<1>6. CASE print_sexp
  <2>1. /\ pc = "call" /\ b = << >> /\ left = job.size /\ depth = 0
        /\ job' = job /\ depth' = depth /\ b' = b /\ left' = left
    BY <1>6 DEF print_sexp, PrinterInv
  <2>2. \/ pc' = "done" \/ (pc' = "print" /\ stack' = <<job.sx>> /\ job.size >= 1)
        \/ pc' = "undefined" /\ job.sx = << >> /\ job.size < 1 /\ job.fn = "print_sexp"
    BY <1>6 DEF print_sexp, CannotStart
  <2>3. CASE pc' = "done"
    BY <2>1, <2>3, <1>1 DEF PrinterInv, Walking
  <2>4. CASE pc' = "print" /\ stack' = <<job.sx>> /\ job.size >= 1
    <3>1. Counted(b, left)'
      BY <1>1, <1>2, <2>1, <2>4 DEF Counted
    <3>2. Shape(stack, depth)'
      BY <1>5, <2>1, <2>4 DEF Shape
    <3> QED
      BY <1>1, <2>1, <2>4, <3>1, <3>2 DEF PrinterInv, Walking
  <2>5. CASE pc' = "undefined" /\ job.sx = << >> /\ job.size < 1 /\ job.fn = "print_sexp"
    <3>1. job.size = 0
      BY <1>1, <2>5
    <3> QED
      BY <1>1, <2>1, <2>5, <3>1 DEF PrinterInv, Walking
  <2> QED
    BY <2>2, <2>3, <2>4, <2>5
<1>7. CASE print_sexp_cstr
  <2>1. pc = "call" /\ depth = 0 /\ job' = job /\ depth' = depth
    BY <1>7 DEF print_sexp_cstr, PrinterInv
  <2>2. pc' = "done" \/ (pc' = "cstr" /\ stack' = <<job.sx>>)
    BY <1>7 DEF print_sexp_cstr, CannotStart
  <2>3. pc' = "cstr" => Shape(stack, depth)'
    BY <1>5, <2>1, <2>2 DEF Shape
  <2> QED
    BY <1>1, <2>1, <2>2, <2>3 DEF PrinterInv, Walking
<1>8. CASE PrintClose
  <2>1. Closed.text \in Seq(Char) /\ Shape(Closed.stack, Up)
    BY <1>3, <1>4, <1>8, ClosedShape DEF PrintClose
  <2> QED
    BY <1>4, <1>8, <2>1, AddKeeps DEF PrintClose
<1>9. CASE CstrClose
  <2>1. Shape(Closed.stack, Up)
    BY <1>3, <1>9, ClosedShape DEF CstrClose, Walking
  <2> QED
    BY <1>9, <2>1, SaddKeeps DEF CstrClose
<1>10. ASSUME Walking, Text
       PROVE  /\ Opening \in Seq(Char) /\ Ending \in Seq(Char)
              /\ tc \in 1..Len(Top[1].val) => Character \in Seq(Char)
              /\ Shape(stack, depth) /\ Shape(Advance(stack), depth)
  BY <1>3, <1>10, TextWritten, AtHand, AdvanceShape DEF Text
<1>11. CASE PrintAtom
  <2>1. Walking /\ Text /\ pc = "print" /\ Counted(b, left)
    BY <1>4, <1>11 DEF PrintAtom
  <2>2. \/ Add(b, left, Opening, stack, depth, 1)
        \/ tc \in 1..Len(Top[1].val) /\ Add(b, left, Character, stack, depth, tc + 1)
        \/ Add(b, left, Ending, Advance(stack), depth, 0)
    BY <1>11 DEF PrintAtom
  <2>3. CASE Add(b, left, Opening, stack, depth, 1)
    BY <1>10, <2>1, <2>3, AddKeeps
  <2>4. CASE tc \in 1..Len(Top[1].val) /\ Add(b, left, Character, stack, depth, tc + 1)
    BY <1>10, <2>1, <2>4, AddKeeps
  <2>5. CASE Add(b, left, Ending, Advance(stack), depth, 0)
    BY <1>10, <2>1, <2>5, AddKeeps
  <2> QED
    BY <2>2, <2>3, <2>4, <2>5
<1>12. CASE CstrAtom
  <2>1. Walking /\ Text /\ pc = "cstr"
    BY <1>12 DEF CstrAtom, Walking
  <2>2. \/ Sadd(Opening, stack, depth, 1)
        \/ Sadd(Character, stack, depth, tc + 1)
        \/ Sadd(Ending, Advance(stack), depth, 0)
    BY <1>12 DEF CstrAtom
  <2>3. CASE Sadd(Opening, stack, depth, 1)
    BY <1>10, <2>1, <2>3, SaddKeeps
  <2>4. CASE Sadd(Character, stack, depth, tc + 1)
    BY <1>10, <2>1, <2>4, SaddKeeps
  <2>5. CASE Sadd(Ending, Advance(stack), depth, 0)
    BY <1>10, <2>1, <2>5, SaddKeeps
  <2> QED
    BY <2>2, <2>3, <2>4, <2>5
<1>13. CASE CstrBinary
  <2>1. Walking /\ At("VALUE") /\ pc = "cstr"
    BY <1>13 DEF CstrBinary, Walking, Bytes
  <2>2. Shape(Advance(stack), depth)
    BY <1>3, <2>1, AtHand, AdvanceShape
  <2> QED
    BY <1>13, <2>1, <2>2, SaddKeeps DEF CstrBinary
<1>14. ASSUME Walking, At("LIST")
       PROVE  Shape(Opened, depth + 1)
  BY <1>3, <1>14, AtHand, OpenShape DEF Opened
<1>15. CASE PrintList
  <2>1. <<"lp">> \in Seq(Char)
    BY CharAssumption DEF Marks
  <2> QED
    BY <1>4, <1>14, <1>15, <2>1, AddKeeps DEF PrintList
<1>16. CASE CstrList
  BY <1>14, <1>16, SaddKeeps DEF CstrList, Walking
<1>17. CASE PrintEnd \/ CstrEnd
  BY <1>17 DEF PrintEnd, CstrEnd, PrinterInv, Walking
<1> QED
  BY <1>6, <1>7, <1>8, <1>9, <1>11, <1>12, <1>13, <1>15, <1>16, <1>17 DEF Next

LEMMA PrinterNext == PrinterInv /\ [Next]_vars => PrinterInv'
<1>1. ASSUME PrinterInv, UNCHANGED vars
      PROVE  PrinterInv'
  BY <1>1 DEF vars, PrinterInv, Walking, Shape, Counted
<1> QED
  BY <1>1, StepKeeps, BinaryKeeps

(* As long as it runs print_sexp knows how much of the buffer is left, for  *)
(* all expressions, binary atoms among them, and all buffer sizes.          *)
THEOREM PrinterBufferCounted == Spec => []BufferCounted
<1>1. PrinterInv => BufferCounted
  BY DEF PrinterInv, Counted, BufferCounted
<1> QED
  BY <1>1, PrinterInit, PrinterNext, PTL DEF Spec

(* Both printers keep one level for each open parenthesis, however deep the *)
(* expression: none is left open at the end and none is closed twice.       *)
THEOREM PrinterLevels == Spec => []ParensMatchLevels
<1>1. PrinterInv => ParensMatchLevels
  BY DEF PrinterInv, Walking, Shape, ParensMatchLevels
<1> QED
  BY <1>1, PrinterInit, PrinterNext, PTL DEF Spec

NoBinary == \A x \in Tree : x.aty # "BINARY"

NullFits == \A j \in Jobs : j.fn = "print_sexp" /\ j.sx = << >> => j.size > 0

(* print_sexp writes only inside the buffer it was given if there are no    *)
(* binary atoms and NULL comes with a buffer of at least one character,     *)
(* whatever the expression and, for one that is not NULL, the size.         *)
THEOREM PrinterInsideBuffer ==
  ASSUME NoBinary, NullFits
  PROVE  Spec => []InsideBuffer
<1>1. PrinterInv => ~PrintBinary
  <2>1. ASSUME PrinterInv, PrintBinary
        PROVE  FALSE
    <3>1. Shape(stack, depth) /\ At("VALUE") /\ Top[1].aty = "BINARY"
      BY <2>1 DEF PrintBinary, Bytes, PrinterInv, Walking
    <3>2. Top[1] \in Tree
      BY <3>1, AtHand
    <3> QED
      BY <3>1, <3>2 DEF NoBinary
  <2> QED
    BY <2>1
<1>2. Init => InsideBuffer
  BY DEF Init, InsideBuffer
<1>3. ASSUME PrinterInv, Next PROVE pc' # "undefined"
  <2>1. pc' = "undefined" => job \in Jobs /\ job.sx = << >> /\ job.size = 0 /\ job.fn = "print_sexp"
    BY <1>1, <1>3, StepKeeps
  <2> QED
    BY <2>1 DEF NullFits
<1>4. PrinterInv /\ InsideBuffer /\ [Next]_vars => InsideBuffer'
  BY <1>3 DEF InsideBuffer, vars
<1> QED
  BY <1>2, <1>4, PrinterInit, PrinterNext, PTL DEF Spec

(* Recursion.  D is a set of things with two parts each, k and t, but for   *)
(* those in Z.  If one cannot go on taking parts for ever, a set with an    *)
(* element has one whose parts are not in it: every proof by induction over *)
(* expressions below looks at a least counterexample.                       *)
Founded(D, Z, k, t) ==
  /\ k \in [D -> D] /\ t \in [D -> D]
  /\ \A P \in SUBSET D : P # {} => \E f \in P : f \in Z \/ (k[f] \notin P /\ t[f] \notin P)

Recipe(D, T, z, e) == z \in [D -> T] /\ e \in [D -> [T -> [T -> T]]]
Solution(D, Z, k, t, T, z, e, g) ==
  /\ g \in [D -> T]
  /\ \A f \in D : g[f] = IF f \in Z THEN z[f] ELSE e[f][g[k[f]]][g[t[f]]]

LEMMA RecursionSolved ==
  ASSUME NEW D, NEW Z, NEW k, NEW t, Founded(D, Z, k, t), NEW T, NEW z, NEW e, Recipe(D, T, z, e)
  PROVE  \E g : Solution(D, Z, k, t, T, z, e, g)
<1> DEFINE Obeys(R) ==
             \A f \in D : IF f \in Z THEN z[f] \in R[f]
                          ELSE \A u \in R[k[f]], v \in R[t[f]] : e[f][u][v] \in R[f]
           Rel == [D -> SUBSET T]
           G == [f \in D |-> {v \in T : \A R \in Rel : Obeys(R) => v \in R[f]}]
<1>0. z \in [D -> T] /\ e \in [D -> [T -> [T -> T]]]
  BY DEF Recipe
<1>1. k \in [D -> D] /\ t \in [D -> D]
  BY DEF Founded
<1>2. \A f \in D : k[f] \in D /\ t[f] \in D
  BY <1>1
<1>3. G \in Rel /\ \A R \in Rel : Obeys(R) => \A f \in D : G[f] \subseteq R[f]
  OBVIOUS
<1>4. Obeys(G)
  <2> SUFFICES ASSUME NEW f \in D
               PROVE  IF f \in Z THEN z[f] \in G[f]
                      ELSE \A u \in G[k[f]], v \in G[t[f]] : e[f][u][v] \in G[f]
    OBVIOUS
  <2>1. CASE f \in Z
    BY <1>0, <2>1
  <2>2. CASE f \notin Z
    <3> SUFFICES ASSUME NEW u \in G[k[f]], NEW v \in G[t[f]] PROVE e[f][u][v] \in G[f]
      BY <2>2
    <3>1. u \in T /\ v \in T
      BY <1>2
    <3>2. e[f][u][v] \in T
      BY <1>0, <3>1
    <3>3. ASSUME NEW R \in Rel, Obeys(R) PROVE e[f][u][v] \in R[f]
      <4>1. u \in R[k[f]] /\ v \in R[t[f]]
        BY <1>2, <1>3, <3>3
      <4> QED
        BY <2>2, <3>3, <4>1
    <3> QED
      BY <3>2, <3>3
  <2> QED
    BY <2>1, <2>2
<1> HIDE DEF G
<1>5. ASSUME NEW f \in D, NEW w \in G[f],
             f \in Z => w # z[f],
             f \notin Z => \A u \in G[k[f]], v \in G[t[f]] : w # e[f][u][v]
      PROVE  FALSE
  <2> DEFINE R == [G EXCEPT ![f] = @ \ {w}]
  <2>1. R \in Rel /\ R[f] = G[f] \ {w} /\ \A x \in D : x # f => R[x] = G[x]
    BY <1>3
  <2> HIDE DEF R
  <2>2. \A x \in D : R[x] \subseteq G[x]
    BY <2>1
  <2>3. Obeys(R)
    <3> SUFFICES ASSUME NEW x \in D
                 PROVE  IF x \in Z THEN z[x] \in R[x]
                        ELSE \A u \in R[k[x]], v \in R[t[x]] : e[x][u][v] \in R[x]
      OBVIOUS
    <3>1. CASE x \in Z
      BY <1>4, <1>5, <2>1, <3>1
    <3>2. CASE x \notin Z
      <4> SUFFICES ASSUME NEW u \in R[k[x]], NEW v \in R[t[x]] PROVE e[x][u][v] \in R[x]
        BY <3>2
      <4>1. u \in G[k[x]] /\ v \in G[t[x]]
        BY <1>2, <2>2
      <4>2. e[x][u][v] \in G[x]
        BY <1>4, <3>2, <4>1
      <4> QED
        BY <1>5, <2>1, <3>2, <4>1, <4>2
    <3> QED
      BY <3>1, <3>2
  <2> QED
    BY <1>3, <1>5, <2>1, <2>3
<1>6. \A f \in D : \E v \in T : G[f] = {v}
  <2> DEFINE P == {f \in D : ~\E v \in T : G[f] = {v}}
  <2>1. ASSUME NEW f \in D, f \in Z PROVE f \notin P
    <3>1. z[f] \in G[f] /\ z[f] \in T
      BY <1>0, <1>4, <2>1
    <3>2. \A w \in G[f] : w = z[f]
      BY <1>5, <2>1
    <3>3. G[f] = {z[f]}
      BY <3>1, <3>2
    <3> QED
      BY <3>1, <3>3
  <2>2. ASSUME NEW f \in D, f \notin Z, k[f] \notin P, t[f] \notin P PROVE f \notin P
    <3>1. PICK u \in T : G[k[f]] = {u}
      BY <1>2, <2>2
    <3>2. PICK v \in T : G[t[f]] = {v}
      BY <1>2, <2>2
    <3> DEFINE y == e[f][u][v]
    <3>3. y \in G[f] /\ y \in T
      <4>1. u \in G[k[f]] /\ v \in G[t[f]]
        BY <3>1, <3>2
      <4>2. y \in G[f]
        BY <1>4, <2>2, <4>1, Zenon
      <4>3. G[f] \in SUBSET T
        BY <1>3
      <4> QED
        BY <4>2, <4>3
    <3>4. \A w \in G[f] : w = y
      BY <1>5, <2>2, <3>1, <3>2
    <3> HIDE DEF y
    <3>5. G[f] = {y}
      BY <3>3, <3>4
    <3> QED
      BY <3>3, <3>5
  <2>3. P \in SUBSET D
    OBVIOUS
  <2> HIDE DEF P
  <2>4. P = {}
    BY <2>1, <2>2, <2>3 DEF Founded
  <2> QED
    BY <2>4 DEF P
<1> DEFINE g == [f \in D |-> CHOOSE v \in T : G[f] = {v}]
<1>7. g \in [D -> T] /\ \A f \in D : G[f] = {g[f]}
  BY <1>6
<1> HIDE DEF g
<1>8. ASSUME NEW f \in D
      PROVE  g[f] = IF f \in Z THEN z[f] ELSE e[f][g[k[f]]][g[t[f]]]
  <2>1. CASE f \in Z
    <3>1. z[f] \in G[f]
      BY <1>4, <2>1
    <3> QED
      BY <1>7, <2>1, <3>1
  <2>2. CASE f \notin Z
    <3>1. g[k[f]] \in G[k[f]] /\ g[t[f]] \in G[t[f]]
      BY <1>2, <1>7
    <3>2. e[f][g[k[f]]][g[t[f]]] \in G[f]
      BY <1>4, <2>2, <3>1
    <3> QED
      BY <1>7, <2>2, <3>2
  <2> QED
    BY <2>1, <2>2
<1> QED
  BY <1>7, <1>8 DEF Solution

(* Every set of naturals with an element has a least one. *)
LEMMA LeastNumber ==
  ASSUME NEW T \in SUBSET Nat, T # {} PROVE \E m \in T : \A n \in T : m <= n
<1>1. PICK m \in T : \A n \in T : ~(<<n, m>> \in OpToRel(<, Nat))
  BY NatLessThanWellFounded, WFMin
<1>2. \A n \in T : ~(n < m)
  BY <1>1 DEF OpToRel
<1> QED
  BY <1>2

(* The parts of a sequence: the contents of its first element and its rest. *)
Rest(S) == [f \in Seq(S) |-> IF f = << >> THEN << >> ELSE Tail(f)]
Inner(S, kids) == [f \in Seq(S) |-> IF f = << >> THEN << >> ELSE kids[f[1]]]

LEMMA RestIs ==
  ASSUME NEW S, NEW f \in Seq(S), f # << >>
  PROVE  /\ Tail(f) \in Seq(S) /\ f[1] \in S /\ Len(f) \in Nat \ {0}
         /\ Len(Tail(f)) = Len(f) - 1 /\ \A i \in 1..Len(Tail(f)) : Tail(f)[i] = f[i + 1]
<1>1. Len(f) \in Nat \ {0}
  BY EmptySeq
<1>2. 1 \in 1..Len(f)
  BY <1>1
<1> QED
  BY <1>1, <1>2, HeadTailProperties

LEMMA Shortest ==
  ASSUME NEW S, NEW P \in SUBSET Seq(S), P # {}
  PROVE  \E f \in P : \A g \in P : Len(f) <= Len(g)
<1> DEFINE T == {Len(f) : f \in P}
<1>1. \A f \in P : Len(f) \in Nat
  OBVIOUS
<1>2. T \in SUBSET Nat /\ T # {}
  BY <1>1
<1> HIDE DEF T
<1>3. PICK m \in T : \A n \in T : m <= n
  BY <1>2, LeastNumber
<1> QED
  BY <1>3 DEF T

LEMMA SequencesBounded ==
  ASSUME NEW S, NEW h \in [S -> Nat], NEW f \in Seq(S)
  PROVE  \E n \in Nat : \A i \in 1..Len(f) : h[f[i]] < n
<1> DEFINE P == {g \in Seq(S) : ~\E n \in Nat : \A i \in 1..Len(g) : h[g[i]] < n}
<1> SUFFICES ASSUME P # {} PROVE FALSE
  OBVIOUS
<1>1. P \in SUBSET Seq(S)
  OBVIOUS
<1> HIDE DEF P
<1>2. PICK g \in P : \A x \in P : Len(g) <= Len(x)
  BY <1>1, Shortest
<1>3. g \in Seq(S) /\ g # << >>
  BY <1>1, <1>2 DEF P
<1>4. /\ Tail(g) \in Seq(S) /\ g[1] \in S /\ Len(g) \in Nat \ {0}
      /\ Len(Tail(g)) = Len(g) - 1 /\ \A i \in 1..Len(Tail(g)) : Tail(g)[i] = g[i + 1]
  BY <1>3, RestIs
<1>5. Tail(g) \notin P
  <2>1. ~(Len(g) <= Len(Tail(g)))
    BY <1>4
  <2> QED
    BY <1>2, <2>1
<1>6. PICK n \in Nat : \A i \in 1..Len(Tail(g)) : h[Tail(g)[i]] < n
  BY <1>4, <1>5 DEF P
<1> DEFINE m == IF h[g[1]] < n THEN n ELSE h[g[1]] + 1
<1>7. m \in Nat /\ h[g[1]] < m /\ n <= m /\ h[g[1]] \in Nat
  BY <1>4
<1> HIDE DEF m
<1>8. ASSUME NEW i \in 1..Len(g) PROVE h[g[i]] < m
  <2>1. CASE i = 1
    BY <1>7, <2>1
  <2>2. CASE i # 1
    <3>1. i - 1 \in 1..Len(Tail(g)) /\ (i - 1) + 1 = i
      BY <1>4, <2>2
    <3>2. h[g[i]] < n
      BY <1>4, <1>6, <3>1
    <3>3. g[i] \in S
      BY <1>3
    <3> QED
      BY <1>7, <3>2, <3>3
  <2> QED
    BY <2>1, <2>2
<1> QED
  BY <1>2, <1>3, <1>7, <1>8 DEF P

(* Taking parts of a sequence comes to an end when contents are less high   *)
(* than what holds them.                                                    *)
LEMMA SequencesFounded ==
  ASSUME NEW S, NEW kids \in [S -> Seq(S)], NEW h \in [S -> Nat],
         \A x \in S : \A i \in 1..Len(kids[x]) : h[kids[x][i]] < h[x]
  PROVE  Founded(Seq(S), {<< >>}, Inner(S, kids), Rest(S))
<1>1. << >> \in Seq(S)
  OBVIOUS
<1>2. Inner(S, kids) \in [Seq(S) -> Seq(S)] /\ Rest(S) \in [Seq(S) -> Seq(S)]
  BY <1>1, RestIs DEF Inner, Rest
<1>3. ASSUME NEW P \in SUBSET Seq(S), P # {}
      PROVE  \E f \in P : f \in {<< >>} \/ (Inner(S, kids)[f] \notin P /\ Rest(S)[f] \notin P)
  <2> DEFINE Low(n) == {f \in P : \A i \in 1..Len(f) : h[f[i]] < n}
             N == {n \in Nat : Low(n) # {}}
  <2>1. N \in SUBSET Nat /\ N # {}
    BY <1>3, SequencesBounded
  <2>2. PICK n \in N : \A m \in N : n <= m
    BY <2>1, LeastNumber
  <2>3. Low(n) \in SUBSET Seq(S) /\ Low(n) # {} /\ n \in Nat
    BY <2>2
  <2>4. PICK f \in Low(n) : \A g \in Low(n) : Len(f) <= Len(g)
    BY <2>3, Shortest
  <2>5. f \in P /\ f \in Seq(S) /\ \A i \in 1..Len(f) : h[f[i]] < n
    BY <2>4
  <2>6. CASE f = << >>
    BY <2>5, <2>6
  <2>7. CASE f # << >>
    <3>1. /\ Tail(f) \in Seq(S) /\ f[1] \in S /\ Len(f) \in Nat \ {0}
          /\ Len(Tail(f)) = Len(f) - 1 /\ \A i \in 1..Len(Tail(f)) : Tail(f)[i] = f[i + 1]
      BY <2>5, <2>7, RestIs
    <3>2. Inner(S, kids)[f] = kids[f[1]] /\ Rest(S)[f] = Tail(f)
      BY <2>5, <2>7 DEF Inner, Rest
    <3>3. Tail(f) \notin P
      <4>1. \A i \in 1..Len(Tail(f)) : i + 1 \in 1..Len(f)
        BY <3>1
      <4>2. \A i \in 1..Len(Tail(f)) : h[Tail(f)[i]] < n
        BY <2>5, <3>1, <4>1
      <4>3. ~(Len(f) <= Len(Tail(f)))
        BY <3>1
      <4> QED
        BY <2>4, <4>2, <4>3
    <3>4. kids[f[1]] \notin P
      <4>1. h[f[1]] \in Nat /\ h[f[1]] < n
        BY <2>5, <3>1
      <4>2. h[f[1]] \notin N
        <5>1. ~(n <= h[f[1]])
          BY <2>3, <4>1
        <5> QED
          BY <2>2, <5>1, Zenon
      <4>3. Low(h[f[1]]) = {}
        BY <4>1, <4>2
      <4> QED
        BY <3>1, <4>3
    <3> QED
      BY <2>5, <3>2, <3>3, <3>4
  <2> QED
    BY <2>6, <2>7
<1> QED
  BY <1>2, <1>3 DEF Founded

LEMMA SomeChars ==
  /\ \A c \in Marks : c \in Char /\ <<c>> \in Seq(Char)
  /\ "bs" \in Char /\ << >> \in Seq(Char)
  /\ <<"sp">> \in Seq(Char) /\ <<"lp">> \in Seq(Char) /\ <<"rp">> \in Seq(Char)
  /\ <<"dq">> \in Seq(Char) /\ <<"sq">> \in Seq(Char) /\ <<"hash">> \in Seq(Char)
  /\ <<"hash", "b", "hash">> \in Seq(Char)
  BY CharAssumption DEF Marks

(* A least counterexample among texts. *)
LEMMA LeastText ==
  ASSUME NEW P \in SUBSET Seq(Char), P # {}
  PROVE  \E v \in P : v # << >> => Tail(v) \notin P
<1>1. PICK v \in P : \A w \in P : Len(v) <= Len(w)
  BY Shortest
<1>2. ASSUME v # << >> PROVE Tail(v) \notin P
  <2>1. Len(v) \in Nat /\ Len(Tail(v)) = Len(v) - 1
    BY <1>2, RestIs
  <2>2. ~(Len(v) <= Len(Tail(v)))
    BY <2>1
  <2> QED
    BY <1>1, <2>2
<1> QED
  BY <1>2

Escape(c) == IF c \in {"dq", "bs"} THEN <<"bs", c>> ELSE <<c>>
QuotedSolved(r) ==
  r = [v \in Seq(Char) |-> IF v = << >> THEN << >>
                           ELSE (IF v[1] \in {"dq", "bs"} THEN <<"bs", v[1]>> ELSE <<v[1]>>)
                                \o r[Tail(v)]]

LEMMA EscapeText == \A c \in Char : Escape(c) \in Seq(Char)
  BY SomeChars DEF Escape

LEMMA QuotedIs ==
  /\ Quoted[<< >>] = << >>
  /\ \A v \in Seq(Char) : /\ Quoted[v] \in Seq(Char)
                          /\ v # << >> => Quoted[v] = Escape(v[1]) \o Quoted[Tail(v)]
<1> DEFINE T == Seq(Char)
           kids == [c \in Char |-> << >>]
           h == [c \in Char |-> 0]
           z == [v \in T |-> << >>]
           e == [v \in T |-> [x \in T |-> [y \in T |->
                   IF v = << >> THEN << >> ELSE Escape(v[1]) \o y]]]
           Z == {<< >>}
           k == Inner(Char, kids)
           t == Rest(Char)
<1>1. /\ kids \in [Char -> Seq(Char)] /\ h \in [Char -> Nat]
      /\ \A x \in Char : \A i \in 1..Len(kids[x]) : h[kids[x][i]] < h[x]
  OBVIOUS
<1>2. Founded(T, Z, k, t)
  BY <1>1, SequencesFounded
<1>3. \A v \in T : v # << >> => Tail(v) \in T /\ v[1] \in Char
  BY RestIs
<1>4. Recipe(T, T, z, e)
  <2>1. \A v, y \in T : (IF v = << >> THEN << >> ELSE Escape(v[1]) \o y) \in T
    BY <1>3, EscapeText, ConcatProperties
  <2>2. << >> \in T
    OBVIOUS
  <2> HIDE DEF T
  <2> QED
    BY <2>1, <2>2 DEF Recipe
<1>5. PICK g : Solution(T, Z, k, t, T, z, e, g)
  <2> HIDE DEF T, z, e, Z, k, t
  <2> QED
    BY <1>2, <1>4, RecursionSolved, Zenon
<1>6. QuotedSolved(g)
  <2>1. ASSUME NEW v \in T
        PROVE  g[v] = IF v = << >> THEN << >> ELSE Escape(v[1]) \o g[Tail(v)]
    <3>1. CASE v = << >>
      BY <1>5, <3>1 DEF Solution
    <3>2. CASE v # << >>
      <4>0. g \in [T -> T]
        BY <1>5 DEF Solution
      <4>1. Rest(Char)[v] = Tail(v) /\ Tail(v) \in T /\ g[Tail(v)] \in T
        BY <1>3, <3>2, <4>0 DEF Rest
      <4>2. Inner(Char, kids)[v] = << >> /\ g[<< >>] \in T
        <5>1. v[1] \in Char /\ kids[v[1]] = << >> /\ << >> \in T
          BY <1>3, <3>2
        <5>2. Inner(Char, kids)[v] = kids[v[1]]
          BY <3>2 DEF Inner
        <5> QED
          BY <4>0, <5>1, <5>2
      <4>3. g[v] = e[v][g[<< >>]][g[Tail(v)]]
        BY <1>5, <3>2, <4>1, <4>2 DEF Solution
      <4> QED
        BY <3>2, <4>1, <4>2, <4>3
    <3> QED
      BY <3>1, <3>2
  <2>2. g = [v \in T |-> g[v]]
    BY <1>5 DEF Solution
  <2> QED
    BY <2>1, <2>2 DEF QuotedSolved, Escape
<1>7. QuotedSolved(CHOOSE r : QuotedSolved(r))
  BY <1>6
<1>8. Quoted = CHOOSE r : QuotedSolved(r)
  BY DEF Quoted, QuotedSolved
<1>9. QuotedSolved(Quoted)
  BY <1>7, <1>8
<1>11. \A v \in T : Quoted[v] = IF v = << >> THEN << >> ELSE Escape(v[1]) \o Quoted[Tail(v)]
  BY <1>9 DEF QuotedSolved, Escape
<1>10. \A v \in T : Quoted[v] \in T
  <2> DEFINE P == {v \in T : Quoted[v] \notin T}
  <2> SUFFICES ASSUME P # {} PROVE FALSE
    OBVIOUS
  <2>1. P \in SUBSET Seq(Char)
    OBVIOUS
  <2> HIDE DEF P
  <2>2. PICK v \in P : v # << >> => Tail(v) \notin P
    BY <2>1, LeastText
  <2>3. v \in T /\ Quoted[v] \notin T
    BY <2>2 DEF P
  <2>4. v # << >>
    BY <1>11, <2>3
  <2>5. Quoted[Tail(v)] \in T /\ Escape(v[1]) \in T
    BY <1>3, <2>2, <2>3, <2>4, EscapeText DEF P
  <2> QED
    BY <1>11, <2>3, <2>4, <2>5, ConcatProperties
<1>12. << >> \in T
  OBVIOUS
<1> QED
  BY <1>11, <1>10, <1>12, Zenon
-----------------------------------------------------------------------------
(* Sequences of expressions. *)
TreeKids == [x \in Tree |-> x.kids]
ForestSolution(T, z, e, g) ==
  /\ g \in [Seq(Tree) -> T]
  /\ \A f \in Seq(Tree) : g[f] = IF f = << >> THEN z[f] ELSE e[f][g[f[1].kids]][g[Tail(f)]]

LEMMA ForestParts ==
  ASSUME NEW f \in Seq(Tree), f # << >>
  PROVE  /\ f[1] \in Tree /\ Tail(f) \in Seq(Tree) /\ f[1].kids \in Seq(Tree)
         /\ f[1].val \in Seq(Char) /\ f[1].ty \in {"LIST", "VALUE"}
         /\ Inner(Tree, TreeKids)[f] = f[1].kids /\ Rest(Tree)[f] = Tail(f)
<1>1. f[1] \in Tree /\ Tail(f) \in Seq(Tree)
  BY RestIs
<1>2. Inner(Tree, TreeKids)[f] = TreeKids[f[1]] /\ Rest(Tree)[f] = Tail(f)
  BY DEF Inner, Rest
<1> QED
  BY <1>1, <1>2, TreeAssumption DEF TreeKids

LEMMA ForestsFounded == Founded(Seq(Tree), {<< >>}, Inner(Tree, TreeKids), Rest(Tree))
<1> DEFINE h == [x \in Tree |-> Height(x)]
<1>1. TreeKids \in [Tree -> Seq(Tree)] /\ h \in [Tree -> Nat]
  BY TreeAssumption, HeightAssumption DEF TreeKids
<1>2. ASSUME NEW x \in Tree, NEW i \in 1..Len(TreeKids[x]) PROVE h[TreeKids[x][i]] < h[x]
  <2>1. TreeKids[x] = x.kids /\ x.kids \in Seq(Tree)
    BY TreeAssumption DEF TreeKids
  <2>2. i \in 1..Len(x.kids) /\ x.kids[i] \in Tree
    BY <2>1
  <2> QED
    BY <2>1, <2>2, HeightAssumption
<1> HIDE DEF h
<1> QED
  BY <1>1, <1>2, SequencesFounded

(* A least counterexample among sequences of expressions. *)
LEMMA LeastForest ==
  ASSUME NEW P \in SUBSET Seq(Tree), P # {}
  PROVE  \E f \in P : f # << >> => f[1].kids \notin P /\ Tail(f) \notin P
<1>1. PICK f \in P : \/ f \in {<< >>}
                     \/ Inner(Tree, TreeKids)[f] \notin P /\ Rest(Tree)[f] \notin P
  BY ForestsFounded DEF Founded
<1> QED
  BY <1>1, ForestParts

LEMMA ForestSolved ==
  ASSUME NEW T, NEW z, NEW e, Recipe(Seq(Tree), T, z, e) PROVE \E g : ForestSolution(T, z, e, g)
<1> DEFINE D == Seq(Tree)
           Z == {<< >>}
           k == Inner(Tree, TreeKids)
           t == Rest(Tree)
<1>1. PICK g : Solution(D, Z, k, t, T, z, e, g)
  <2>1. Founded(D, Z, k, t)
    BY ForestsFounded
  <2> HIDE DEF D, Z, k, t
  <2>2. Recipe(D, T, z, e)
    BY DEF D
  <2> QED
    BY <2>1, <2>2, RecursionSolved, Zenon
<1>2. g \in [D -> T] /\ \A f \in D : g[f] = IF f \in Z THEN z[f] ELSE e[f][g[k[f]]][g[t[f]]]
  BY <1>1 DEF Solution
<1>3. ASSUME NEW f \in D
      PROVE  g[f] = IF f = << >> THEN z[f] ELSE e[f][g[f[1].kids]][g[Tail(f)]]
  <2>1. CASE f = << >>
    BY <1>2, <2>1
  <2>2. CASE f # << >>
    <3>1. k[f] = f[1].kids /\ t[f] = Tail(f)
      BY <2>2, ForestParts
    <3> QED
      BY <1>2, <2>2, <3>1
  <2> QED
    BY <2>1, <2>2
<1> QED
  BY <1>2, <1>3 DEF ForestSolution
-----------------------------------------------------------------------------
(* The text of an expression. *)
LEMMA ThreeJoin ==
  ASSUME NEW u \in Seq(Char), NEW v \in Seq(Char), NEW w \in Seq(Char)
  PROVE  u \o v \o w \in Seq(Char) /\ Len(u \o v \o w) = Len(u) + Len(v) + Len(w)
<1>1. u \o v \in Seq(Char) /\ Len(u \o v) = Len(u) + Len(v)
  BY ConcatProperties
<1> DEFINE x == u \o v
<1> HIDE DEF x
<1>2. x \o w \in Seq(Char) /\ Len(x \o w) = Len(x) + Len(w)
  BY <1>1, ConcatProperties DEF x
<1> QED
  BY <1>1, <1>2 DEF x

LEMMA AtomTextIs ==
  ASSUME NEW x \in Tree PROVE AtomText(x) \in Seq(Char)
<1>1. x.val \in Seq(Char)
  BY TreeAssumption
<1>2. CASE x.aty = "DQUOTE"
  <2>1. Quoted[x.val] \in Seq(Char)
    BY <1>1, QuotedIs
  <2> QED
    BY <1>2, <2>1, SomeChars, ThreeJoin DEF AtomText
<1>3. CASE x.aty = "SQUOTE"
  BY <1>1, <1>3, SomeChars, ConcatProperties DEF AtomText
<1>4. CASE x.aty = "BINARY"
  <2> DEFINE n == Decimal(Len(x.val))
             p == <<"hash", "b", "hash">>
  <2>1. n \in Seq(Char)
    BY <1>4, CharAssumption
  <2>2. p \o n \o <<"hash">> \in Seq(Char)
    BY <2>1, SomeChars, ThreeJoin
  <2> DEFINE q == p \o n \o <<"hash">>
  <2> HIDE DEF q
  <2>3. q \o x.val \o <<"sp">> \in Seq(Char)
    BY <1>1, <2>2, SomeChars, ThreeJoin DEF q
  <2>4. AtomText(x) = q \o x.val \o <<"sp">>
    BY <1>4 DEF AtomText, q
  <2> QED
    BY <2>3, <2>4
<1>5. CASE x.aty \notin {"DQUOTE", "SQUOTE", "BINARY"}
  BY <1>1, <1>5 DEF AtomText
<1> QED
  BY <1>2, <1>3, <1>4, <1>5

HeadText(x, u) == IF x.ty = "LIST" THEN <<"lp">> \o u \o <<"rp">> ELSE AtomText(x)
JoinedSolved(r) ==
  r = [f \in Seq(Tree) |->
         IF f = << >> THEN << >>
         ELSE (IF f[1].ty = "LIST" THEN <<"lp">> \o r[f[1].kids] \o <<"rp">>
               ELSE AtomText(f[1]))
              \o (IF Tail(f) = << >> THEN << >> ELSE <<"sp">> \o r[Tail(f)])]

LEMMA HeadTextIs ==
  ASSUME NEW x \in Tree, NEW u \in Seq(Char) PROVE HeadText(x, u) \in Seq(Char)
<1>1. <<"lp">> \o u \o <<"rp">> \in Seq(Char)
  BY SomeChars, ThreeJoin
<1> QED
  BY <1>1, AtomTextIs DEF HeadText

LEMMA JoinedIs ==
  /\ Joined[<< >>] = << >>
  /\ \A f \in Seq(Tree) :
       /\ Joined[f] \in Seq(Char)
       /\ f # << >> => Joined[f] = Printed(f[1]) \o (Blank(Tail(f)) \o Joined[Tail(f)])
<1> DEFINE T == Seq(Char)
           After(f, v) == IF Tail(f) = << >> THEN << >> ELSE <<"sp">> \o v
           z == [f \in Seq(Tree) |-> << >>]
           e == [f \in Seq(Tree) |-> [u \in T |-> [v \in T |->
                   IF f = << >> THEN << >> ELSE HeadText(f[1], u) \o After(f, v)]]]
<1>1. \A f \in Seq(Tree), v \in T : After(f, v) \in T
  BY SomeChars, ConcatProperties
<1> HIDE DEF After
<1>2. Recipe(Seq(Tree), T, z, e)
  <2>1. \A f \in Seq(Tree), u, v \in T :
          (IF f = << >> THEN << >> ELSE HeadText(f[1], u) \o After(f, v)) \in T
    BY <1>1, ForestParts, HeadTextIs, ConcatProperties
  <2>2. << >> \in T
    OBVIOUS
  <2> HIDE DEF T
  <2> QED
    BY <2>1, <2>2 DEF Recipe
<1>3. PICK g : ForestSolution(T, z, e, g)
  <2> HIDE DEF T, z, e
  <2> QED
    BY <1>2, ForestSolved, Zenon
<1>4. JoinedSolved(g)
  <2>0. g \in [Seq(Tree) -> T]
    BY <1>3 DEF ForestSolution
  <2>1. ASSUME NEW f \in Seq(Tree)
        PROVE  g[f] = IF f = << >> THEN << >>
                      ELSE HeadText(f[1], g[f[1].kids]) \o After(f, g[Tail(f)])
    <3>1. CASE f = << >>
      BY <1>3, <3>1 DEF ForestSolution
    <3>2. CASE f # << >>
      <4>1. g[f[1].kids] \in T /\ g[Tail(f)] \in T
        BY <2>0, <3>2, ForestParts
      <4>2. g[f] = e[f][g[f[1].kids]][g[Tail(f)]]
        BY <1>3, <3>2 DEF ForestSolution
      <4> QED
        BY <3>2, <4>1, <4>2
    <3> QED
      BY <3>1, <3>2
  <2>2. g = [f \in Seq(Tree) |-> g[f]]
    BY <2>0
  <2> QED
    BY <2>1, <2>2 DEF JoinedSolved, HeadText, After
<1>5. JoinedSolved(CHOOSE r : JoinedSolved(r))
  BY <1>4
<1>6. Joined = CHOOSE r : JoinedSolved(r)
  BY DEF Joined, JoinedSolved
<1>7. JoinedSolved(Joined)
  BY <1>5, <1>6
<1>8. \A f \in Seq(Tree) :
        Joined[f] = IF f = << >> THEN << >>
                    ELSE HeadText(f[1], Joined[f[1].kids]) \o After(f, Joined[Tail(f)])
  BY <1>7 DEF JoinedSolved, HeadText, After
<1>9. \A f \in Seq(Tree) : Joined[f] \in T
  <2> DEFINE P == {f \in Seq(Tree) : Joined[f] \notin T}
  <2> SUFFICES ASSUME P # {} PROVE FALSE
    OBVIOUS
  <2>1. P \in SUBSET Seq(Tree)
    OBVIOUS
  <2> HIDE DEF P
  <2>2. PICK f \in P : f # << >> => f[1].kids \notin P /\ Tail(f) \notin P
    BY <2>1, LeastForest
  <2>3. f \in Seq(Tree) /\ Joined[f] \notin T
    BY <2>2 DEF P
  <2>4. f # << >>
    BY <1>8, <2>3
  <2>5. f[1] \in Tree /\ f[1].kids \in Seq(Tree) /\ Tail(f) \in Seq(Tree)
    BY <2>3, <2>4, ForestParts
  <2>6. Joined[f[1].kids] \in T /\ Joined[Tail(f)] \in T
    BY <2>2, <2>4, <2>5 DEF P
  <2>7. HeadText(f[1], Joined[f[1].kids]) \in T /\ After(f, Joined[Tail(f)]) \in T
    BY <1>1, <2>3, <2>5, <2>6, HeadTextIs
  <2> QED
    BY <1>8, <2>3, <2>4, <2>7, ConcatProperties
<1>10. Joined[<< >>] = << >>
  <2>1. << >> \in Seq(Tree)
    OBVIOUS
  <2> QED
    BY <1>8, <2>1, Zenon
<1>11. ASSUME NEW f \in Seq(Tree), f # << >>
       PROVE  Joined[f] = Printed(f[1]) \o (Blank(Tail(f)) \o Joined[Tail(f)])
  <2>1. Joined[f] = HeadText(f[1], Joined[f[1].kids]) \o After(f, Joined[Tail(f)])
    BY <1>8, <1>11
  <2>2. Printed(f[1]) = HeadText(f[1], Joined[f[1].kids])
    BY DEF Printed, HeadText
  <2>3. After(f, Joined[Tail(f)]) = Blank(Tail(f)) \o Joined[Tail(f)]
    <3>1. CASE Tail(f) = << >>
      <4>1. Joined[Tail(f)] = << >>
        BY <1>10, <3>1
      <4> QED
        BY <3>1, <4>1 DEF After, Blank
    <3>2. CASE Tail(f) # << >>
      BY <3>2 DEF After, Blank
    <3> QED
      BY <3>1, <3>2
  <2> QED
    BY <2>1, <2>2, <2>3
<1> QED
  BY <1>9, <1>11, <1>10

LEMMA PrintedIs ==
  ASSUME NEW x \in Tree PROVE Printed(x) \in Seq(Char)
<1>1. Joined[x.kids] \in Seq(Char)
  BY JoinedIs, TreeAssumption
<1> QED
  BY <1>1, HeadTextIs DEF Printed, HeadText
-----------------------------------------------------------------------------
(* What is still to be written: for the atom of which k - 1 characters are   *)
(* written, for the level at hand, for the levels below it.                 *)
AtomRest(x, k) ==
  LET v == SubSeq(x.val, k, Len(x.val))
  IN  IF x.aty = "DQUOTE" THEN Quoted[v] \o <<"dq">> ELSE v
RestText(f) == Blank(Tail(f)) \o Joined[Tail(f)]
Now(f, k) == IF k = 0 THEN Joined[f] ELSE AtomRest(f[1], k) \o RestText(f)
Within(f, k) ==
  \/ k = 0
  \/ /\ f # << >> /\ f[1].ty = "VALUE" /\ f[1].aty # "BINARY"
     /\ k \in 1..(Len(f[1].val) + 1)
Due(f, u) == (<<"rp">> \o RestText(f)) \o u
Owed(s, R) ==
  /\ R \in Seq(Seq(Char)) /\ Len(R) = Len(s) /\ R[1] = << >>
  /\ \A i \in 1..(Len(s) - 1) : R[i + 1] = Due(s[i], R[i])
Remains(s, k, r) ==
  \/ s = << >> /\ r = << >>
  \/ /\ s # << >> /\ Within(s[Len(s)], k)
     /\ \E R : Owed(s, R) /\ r = Now(s[Len(s)], k) \o R[Len(s)]

LEMMA Assoc == \A u, v, w \in Seq(Char) : (u \o v) \o w = u \o (v \o w)
  BY ConcatAssociative

LEMMA Joins == \A u, v \in Seq(Char) : u \o v \in Seq(Char) /\ Len(u \o v) = Len(u) + Len(v)
  BY ConcatProperties

LEMMA Empties == \A u \in Seq(Char) : u \o << >> = u /\ << >> \o u = u
  BY ConcatEmptySeq

LEMMA RestTextIs ==
  ASSUME NEW f \in Seq(Tree), f # << >>
  PROVE  /\ RestText(f) \in Seq(Char) /\ Joined[f] = Printed(f[1]) \o RestText(f)
         /\ Printed(f[1]) \in Seq(Char)
         /\ Blank(Tail(f)) \in Seq(Char) /\ Joined[Tail(f)] \in Seq(Char)
<1>1. f[1] \in Tree /\ Tail(f) \in Seq(Tree)
  BY ForestParts
<1>2. Joined[Tail(f)] \in Seq(Char) /\ Joined[f] = Printed(f[1]) \o RestText(f)
  BY <1>1, JoinedIs DEF RestText
<1> QED
  BY <1>1, <1>2, BlankText, PrintedIs, Joins DEF RestText

LEMMA LastChars ==
  ASSUME NEW v \in Seq(Char), NEW k \in 1..Len(v)
  PROVE  /\ SubSeq(v, k, Len(v)) \in Seq(Char) /\ SubSeq(v, k, Len(v)) # << >>
         /\ SubSeq(v, k, Len(v))[1] = v[k] /\ v[k] \in Char
         /\ Tail(SubSeq(v, k, Len(v))) = SubSeq(v, k + 1, Len(v))
         /\ SubSeq(v, k + 1, Len(v)) \in Seq(Char)
         /\ SubSeq(v, k, Len(v)) = <<v[k]>> \o SubSeq(v, k + 1, Len(v))
<1> DEFINE s == SubSeq(v, k, Len(v))
           t == SubSeq(v, k + 1, Len(v))
<1>1. Len(v) \in Nat /\ k \in Int /\ k + 1 \in Int /\ Len(v) \in k..Len(v)
  OBVIOUS
<1>2. (\A i \in k..Len(v) : v[i] \in Char) /\ (\A i \in (k + 1)..Len(v) : v[i] \in Char)
  BY <1>1
<1>3. s \in Seq(Char) /\ Len(s) = Len(v) - k + 1 /\ \A i \in 1..(Len(v) - k + 1) : s[i] = v[k + i - 1]
  BY <1>1, <1>2, SubSeqProperties
<1>4. t \in Seq(Char) /\ Len(t) = Len(v) - k
  <2>1. Len(t) = IF k + 1 <= Len(v) THEN Len(v) - (k + 1) + 1 ELSE 0
    BY <1>1, <1>2, SubSeqProperties
  <2>2. t \in Seq(Char)
    BY <1>1, <1>2, SubSeqProperties
  <2> QED
    BY <1>1, <2>1, <2>2
<1>5. Len(s) >= 1 /\ 1 \in 1..(Len(v) - k + 1) /\ k + 1 - 1 = k
  BY <1>1, <1>3
<1>6. s # << >> /\ s[1] = v[k]
  <2> HIDE DEF s
  <2> QED
    BY <1>1, <1>3, <1>5
<1>7. Tail(s) = t
  BY <1>1, HeadTailOfSubSeq
<1>8. v[k] \in Char
  OBVIOUS
<1>9. s = <<v[k]>> \o t
  BY <1>1, SubSeqRecursiveFirst
<1> QED
  BY <1>3, <1>4, <1>6, <1>7, <1>8, <1>9

LEMMA AllChars ==
  ASSUME NEW v \in Seq(Char)
  PROVE  SubSeq(v, 1, Len(v)) = v /\ SubSeq(v, Len(v) + 1, Len(v)) = << >>
<1>1. Len(v) \in Int /\ Len(v) + 1 \in Int /\ Len(v) < Len(v) + 1
  OBVIOUS
<1> QED
  BY <1>1, SubSeqFull, SubSeqEmpty

LEMMA AtomRestIs ==
  ASSUME NEW x \in Tree, NEW k \in 1..(Len(x.val) + 1)
  PROVE  AtomRest(x, k) \in Seq(Char)
<1> DEFINE v == SubSeq(x.val, k, Len(x.val))
<1>1. x.val \in Seq(Char)
  BY TreeAssumption
<1>2. k \in 1..Len(x.val) \/ k = Len(x.val) + 1
  BY <1>1
<1>3. v \in Seq(Char)
  BY <1>1, <1>2, LastChars, AllChars
<1>4. Quoted[v] \in Seq(Char)
  BY <1>3, QuotedIs
<1>5. Quoted[v] \o <<"dq">> \in Seq(Char)
  BY <1>4, Joins, SomeChars
<1> QED
  BY <1>3, <1>5 DEF AtomRest

(* A text atom, in the three kinds of steps that write it. *)
LEMMA AtomOpened ==
  ASSUME NEW x \in Tree, x.aty # "BINARY",
         NEW o, o = CASE x.aty = "DQUOTE" -> <<"dq">> [] x.aty = "SQUOTE" -> <<"sq">> [] OTHER -> << >>
  PROVE  o \in Seq(Char) /\ AtomText(x) = o \o AtomRest(x, 1)
<1>1. x.val \in Seq(Char) /\ SubSeq(x.val, 1, Len(x.val)) = x.val
  BY TreeAssumption, AllChars
<1>2. CASE x.aty = "DQUOTE"
  <2>1. Quoted[x.val] \in Seq(Char)
    BY <1>1, QuotedIs
  <2> DEFINE d == <<"dq">>
  <2>2. d \in Seq(Char)
    BY SomeChars
  <2> HIDE DEF d
  <2>3. (d \o Quoted[x.val]) \o d = d \o (Quoted[x.val] \o d)
    BY <2>1, <2>2, Assoc
  <2>4. AtomText(x) = (d \o Quoted[x.val]) \o d /\ AtomRest(x, 1) = Quoted[x.val] \o d /\ o = d
    BY <1>1, <1>2 DEF AtomText, AtomRest, d
  <2> QED
    BY <2>2, <2>3, <2>4
<1>3. CASE x.aty = "SQUOTE"
  BY <1>1, <1>3, SomeChars DEF AtomText, AtomRest
<1>4. CASE x.aty \notin {"DQUOTE", "SQUOTE"}
  <2>1. o = << >> /\ AtomText(x) = x.val /\ AtomRest(x, 1) = x.val
    BY <1>1, <1>4 DEF AtomText, AtomRest
  <2> QED
    BY <1>1, <2>1, Empties, SomeChars
<1> QED
  BY <1>2, <1>3, <1>4

LEMMA AtomGoesOn ==
  ASSUME NEW x \in Tree, NEW k \in 1..Len(x.val),
         NEW c, c = IF x.aty = "DQUOTE" /\ x.val[k] \in {"dq", "bs"}
                    THEN <<"bs", x.val[k]>> ELSE <<x.val[k]>>
  PROVE  c \in Seq(Char) /\ AtomRest(x, k) = c \o AtomRest(x, k + 1)
<1> DEFINE v == SubSeq(x.val, k, Len(x.val))
           w == SubSeq(x.val, k + 1, Len(x.val))
<1>1. x.val \in Seq(Char)
  BY TreeAssumption
<1>2. /\ v \in Seq(Char) /\ v # << >> /\ v[1] = x.val[k] /\ x.val[k] \in Char
      /\ Tail(v) = w /\ w \in Seq(Char) /\ v = <<x.val[k]>> \o w
  BY <1>1, LastChars
<1>3. AtomRest(x, k) = IF x.aty = "DQUOTE" THEN Quoted[v] \o <<"dq">> ELSE v
  BY DEF AtomRest
<1>4. AtomRest(x, k + 1) = IF x.aty = "DQUOTE" THEN Quoted[w] \o <<"dq">> ELSE w
  BY DEF AtomRest
<1> HIDE DEF v, w
<1>5. CASE x.aty = "DQUOTE"
  <2>1. c = Escape(v[1])
    BY <1>2, <1>5 DEF Escape
  <2>2. Quoted[v] = c \o Quoted[w] /\ Quoted[w] \in Seq(Char) /\ c \in Seq(Char)
    BY <1>2, <2>1, QuotedIs, EscapeText
  <2> DEFINE d == <<"dq">>
  <2>3. d \in Seq(Char)
    BY SomeChars
  <2>4. AtomRest(x, k) = Quoted[v] \o d /\ AtomRest(x, k + 1) = Quoted[w] \o d
    BY <1>3, <1>4, <1>5
  <2> HIDE DEF d
  <2>5. (c \o Quoted[w]) \o d = c \o (Quoted[w] \o d)
    BY <2>2, <2>3, Assoc
  <2> QED
    BY <2>2, <2>4, <2>5
<1>6. CASE x.aty # "DQUOTE"
  BY <1>2, <1>3, <1>4, <1>6
<1> QED
  BY <1>5, <1>6

LEMMA AtomEnded ==
  ASSUME NEW x \in Tree
  PROVE  AtomRest(x, Len(x.val) + 1) = IF x.aty = "DQUOTE" THEN <<"dq">> ELSE << >>
<1>1. SubSeq(x.val, Len(x.val) + 1, Len(x.val)) = << >>
  BY TreeAssumption, AllChars
<1>2. AtomRest(x, Len(x.val) + 1) = IF x.aty = "DQUOTE" THEN Quoted[<< >>] \o <<"dq">> ELSE << >>
  BY <1>1 DEF AtomRest
<1> QED
  BY <1>2, QuotedIs, Empties, SomeChars

(* The levels, and what they owe. *)
LEMMA OwedAdvance ==
  ASSUME NEW s \in Seq(Seq(Tree)), s # << >>, NEW R, Owed(s, R)
  PROVE  Owed(Advance(s), R) /\ Len(Advance(s)) = Len(s) /\ Advance(s) # << >>
         /\ Advance(s)[Len(s)] = Tail(s[Len(s)])
<1> DEFINE n == Len(s)
           a == Advance(s)
<1>1. n \in Nat /\ n \in 1..n /\ s = [i \in 1..n |-> s[i]]
  BY EmptySeq
<1>2. a = [s EXCEPT ![n] = Tail(s[n])]
  BY DEF Advance
<1>3. a = [i \in 1..n |-> IF i = n THEN Tail(s[n]) ELSE s[i]]
  BY <1>1, <1>2
<1>4. Len(a) = n /\ a # << >>
  <2> DEFINE S == Seq(Tree) \cup {Tail(s[n])}
  <2>1. s \in Seq(S) /\ n \in 1..Len(s) /\ Tail(s[n]) \in S
    BY <1>1
  <2> HIDE DEF S
  <2>2. Len(a) = n /\ a \in Seq(S)
    BY <1>2, <2>1, ExceptSeq
  <2> HIDE DEF a, n
  <2> QED
    BY <1>1, <2>2
<1>5. a[n] = Tail(s[n]) /\ \A i \in 1..(n - 1) : a[i] = s[i]
  BY <1>1, <1>3
<1> HIDE DEF a
<1> QED
  BY <1>1, <1>4, <1>5 DEF Owed, a

LEMMA BelowOwes ==
  ASSUME stack \in Seq(Seq(Tree)), NEW R, Owed(stack, R), Len(stack) >= 2
  PROVE  /\ Below \in Seq(Seq(Tree)) /\ Below # << >> /\ Len(Below) = Len(stack) - 1
         /\ Below[Len(stack) - 1] = stack[Len(stack) - 1]
         /\ \E Q : Owed(Below, Q) /\ \A i \in 1..(Len(stack) - 1) : Q[i] = R[i]
         /\ Len(stack) - 1 \in 1..(Len(stack) - 1)
         /\ R[Len(stack)] = Due(stack[Len(stack) - 1], R[Len(stack) - 1])
<1> DEFINE n == Len(stack)
           p == Below
<1>0. n = Len(stack) /\ n >= 2 /\ p = SubSeq(stack, 1, n - 1)
  BY DEF Below
<1> HIDE DEF n, p
<1> DEFINE Q == SubSeq(R, 1, n - 1)
<1>1. n \in Nat /\ n >= 2 /\ R \in Seq(Seq(Char)) /\ Len(R) = n /\ R[1] = << >>
      /\ \A i \in 1..(n - 1) : R[i + 1] = Due(stack[i], R[i])
  BY <1>0 DEF Owed
<1>2. n - 1 \in 1..(n - 1) /\ (n - 1) + 1 = n /\ 1 \in 1..(n - 1) /\ n - 1 \in Nat
  BY <1>1
<1>3. p \in Seq(Seq(Tree)) /\ Len(p) = n - 1 /\ \A i \in 1..(n - 1) : p[i] = stack[i]
  BY <1>0, <1>1, <1>2, SubSeqProperties
<1>4. Q \in Seq(Seq(Char)) /\ Len(Q) = n - 1 /\ \A i \in 1..(n - 1) : Q[i] = R[i]
  BY <1>0, <1>1, <1>2, SubSeqProperties
<1> HIDE DEF Q
<1>5. p # << >>
  <2>1. Len(p) # 0
    <3>1. \A m \in Nat : m >= 2 => m - 1 # 0
      OBVIOUS
    <3>2. n - 1 # 0
      BY <1>1, <3>1, Zenon
    <3> QED
      BY <1>3, <3>2, Zenon
  <2>2. p = << >> => Len(p) = 0
    BY Zenon, EmptySeq
  <2> QED
    BY <2>1, <2>2, Zenon
<1>6. Owed(p, Q)
  <2>1. Q[1] = << >>
    BY <1>1, <1>2, <1>4
  <2>2. ASSUME NEW i \in 1..(Len(p) - 1)
        PROVE  Q[i + 1] = Due(p[i], Q[i])
    <3>1. i \in 1..(n - 1) /\ i + 1 \in 1..(n - 1)
      BY <1>1, <1>3
    <3> QED
      BY <1>1, <1>3, <1>4, <3>1
  <2> QED
    BY <1>3, <1>4, <2>1, <2>2 DEF Owed
<1>7. R[n] = Due(stack[n - 1], R[n - 1])
  BY <1>1, <1>2
<1> QED
  BY <1>2, <1>3, <1>4, <1>5, <1>6, <1>7, Zenon DEF n, p

LEMMA OneMore ==
  ASSUME NEW S, NEW R \in Seq(S), NEW u \in S
  PROVE  /\ R \o <<u>> \in Seq(S) /\ Len(R \o <<u>>) = Len(R) + 1
         /\ (R \o <<u>>)[Len(R) + 1] = u
         /\ \A i \in 1..Len(R) : (R \o <<u>>)[i] = R[i]
<1>1. R \o <<u>> = Append(R, u)
  BY AppendIsConcat
<1> QED
  BY <1>1, AppendProperties

LEMMA OpenedOwes ==
  ASSUME stack \in Seq(Seq(Tree)), stack # << >>, Top = stack[Len(stack)], Top # << >>,
         Top[1].kids \in Seq(Tree), NEW R, Owed(stack, R)
  PROVE  /\ Opened # << >> /\ Len(Opened) = Len(stack) + 1
         /\ Opened[Len(stack) + 1] = Top[1].kids
         /\ \E Q : /\ Owed(Opened, Q) /\ Q[Len(stack) + 1] = Due(Top, R[Len(stack)])
                   /\ \A i \in 1..Len(stack) : Q[i] = R[i]
         /\ \A i \in 1..Len(stack) : Opened[i] = stack[i]
<1> DEFINE n == Len(stack)
           q == Opened
           kids == Top[1].kids
<1>0. /\ n = Len(stack) /\ kids \in Seq(Tree) /\ Top = stack[n] /\ stack[n] # << >>
      /\ q = stack \o <<kids>>
  BY DEF Opened
<1> HIDE DEF n, q, kids
<1> DEFINE u == Due(stack[n], R[n])
           Q == R \o <<u>>
<1>1. /\ n \in Nat /\ n \in 1..n /\ R \in Seq(Seq(Char)) /\ Len(R) = n /\ R[1] = << >>
      /\ \A i \in 1..(n - 1) : R[i + 1] = Due(stack[i], R[i])
  <2>1. n \in Nat /\ n # 0
    BY <1>0, EmptySeq
  <2>2. n \in 1..n
    BY <2>1
  <2> QED
    BY <1>0, <2>1, <2>2 DEF Owed
<1>2. u \in Seq(Char)
  <2>1. stack[n] \in Seq(Tree) /\ R[n] \in Seq(Char)
    BY <1>0, <1>1
  <2>2. RestText(stack[n]) \in Seq(Char)
    BY <1>0, <2>1, RestTextIs
  <2> QED
    BY <2>1, <2>2, SomeChars, ThreeJoin DEF Due
<1> HIDE DEF u
<1>3. <<u>> \in Seq(Seq(Char)) /\ <<kids>> \in Seq(Seq(Tree))
      /\ Len(<<u>>) = 1 /\ Len(<<kids>>) = 1
  BY <1>0, <1>2
<1>4. /\ Q \in Seq(Seq(Char)) /\ Len(Q) = n + 1
      /\ Q[n + 1] = u /\ \A i \in 1..n : Q[i] = R[i]
  <2> DEFINE S == Seq(Char)
  <2>1. R \in Seq(S) /\ u \in S
    BY <1>1, <1>2
  <2> HIDE DEF S
  <2>2. /\ Q \in Seq(S) /\ Len(Q) = Len(R) + 1 /\ Q[Len(R) + 1] = u
        /\ \A i \in 1..Len(R) : Q[i] = R[i]
    BY <2>1, OneMore
  <2> HIDE DEF Q
  <2> QED
    BY <1>1, <2>2 DEF S
<1>5. q \in Seq(Seq(Tree)) /\ Len(q) = n + 1 /\ q[n + 1] = kids /\ \A i \in 1..n : q[i] = stack[i]
  BY <1>0, <1>1, OneMore
<1> HIDE DEF Q
<1>6. q # << >>
  BY <1>1, <1>5
<1>7. Owed(q, Q)
  <2>1. Q[1] = << >>
    BY <1>1, <1>4
  <2>2. ASSUME NEW i \in 1..n
        PROVE  Q[i + 1] = Due(q[i], Q[i])
    <3>1. CASE i = n
      BY <1>1, <1>4, <1>5, <3>1 DEF u
    <3>2. CASE i # n
      <4>1. i \in 1..(n - 1) /\ i + 1 \in 1..n
        BY <1>1, <3>2
      <4> QED
        BY <1>1, <1>4, <1>5, <4>1
    <3> QED
      BY <3>1, <3>2
  <2>3. Len(q) - 1 = n
    BY <1>1, <1>5
  <2> QED
    BY <1>4, <1>5, <2>1, <2>2, <2>3 DEF Owed
<1> QED
  BY <1>0, <1>4, <1>5, <1>6, <1>7, Zenon DEF n, q, kids, u

(* One step of the walk writes cs and leaves q to be written. *)
Leads(r, cs, s, k) == cs \in Seq(Char) /\ \E q \in Seq(Char) : r = cs \o q /\ Remains(s, k, q)

LEMMA NowIs ==
  ASSUME NEW f \in Seq(Tree), NEW k, Within(f, k)
  PROVE  Now(f, k) \in Seq(Char)
<1>1. CASE k = 0
  BY <1>1, JoinedIs DEF Now
<1>2. CASE k # 0
  <2>1. f # << >> /\ k \in 1..(Len(f[1].val) + 1)
    BY <1>2 DEF Within
  <2>2. AtomRest(f[1], k) \in Seq(Char) /\ RestText(f) \in Seq(Char)
    BY <2>1, ForestParts, AtomRestIs, RestTextIs
  <2> QED
    BY <1>2, <2>2, Joins DEF Now
<1> QED
  BY <1>1, <1>2

LEMMA LevelStep ==
  ASSUME NEW s \in Seq(Seq(Tree)), s # << >>, NEW R, Owed(s, R),
         NEW f \in Seq(Tree), NEW g \in Seq(Tree), NEW k, NEW j, NEW cs \in Seq(Char),
         NEW a \in Seq(Seq(Tree)), a # << >>, Len(a) = Len(s), Owed(a, R), a[Len(a)] = g,
         Within(g, j), Now(f, k) = cs \o Now(g, j)
  PROVE  Leads(Now(f, k) \o R[Len(s)], cs, a, j)
<1> DEFINE u == R[Len(s)]
           q == Now(g, j) \o u
<1>1. Len(s) \in Nat /\ Len(s) # 0
  BY EmptySeq
<1>2. Len(s) \in 1..Len(s)
  BY <1>1
<1>3. u \in Seq(Char)
  BY <1>2 DEF Owed
<1>4. Now(g, j) \in Seq(Char)
  BY NowIs
<1>5. Now(f, k) \o u = cs \o q
  <2> HIDE DEF u
  <2>1. (cs \o Now(g, j)) \o u = cs \o (Now(g, j) \o u)
    BY <1>3, <1>4, Assoc, Zenon
  <2> QED
    BY <2>1, Zenon DEF q
<1>6. q \in Seq(Char)
  BY <1>3, <1>4, Joins
<1>7. Remains(a, j, q)
  BY DEF Remains
<1> QED
  BY <1>5, <1>6, <1>7 DEF Leads

LEMMA Facing ==
  ASSUME Shape(stack, depth), stack # << >>, NEW r, Remains(stack, tc, r)
  PROVE  /\ stack \in Seq(Seq(Tree)) /\ Top \in Seq(Tree) /\ Top = stack[Len(stack)]
         /\ Len(stack) = depth + 1 /\ depth \in Nat /\ Len(stack) \in 1..Len(stack)
         /\ Within(Top, tc)
         /\ \E R : Owed(stack, R) /\ r = Now(Top, tc) \o R[Len(stack)]
<1>1. stack \in Seq(Seq(Tree)) /\ depth \in Nat /\ Len(stack) = depth + 1
  BY DEF Shape
<1>2. Len(stack) \in 1..Len(stack)
  BY <1>1
<1>3. Within(Top, tc) /\ \E R : Owed(stack, R) /\ r = Now(Top, tc) \o R[Len(stack)]
  BY DEF Remains, Top
<1>4. Top \in Seq(Tree) /\ Top = stack[Len(stack)]
  BY <1>1, <1>2 DEF Top
<1> QED
  BY <1>1, <1>2, <1>3, <1>4, Zenon

(* A step that stays on the level. *)
LEMMA StaySteps ==
  ASSUME Shape(stack, depth), stack # << >>, NEW r, Remains(stack, tc, r),
         NEW cs \in Seq(Char), NEW k
  PROVE  /\ Within(Top, k) /\ Now(Top, tc) = cs \o Now(Top, k) => Leads(r, cs, stack, k)
         /\ Top # << >> /\ Now(Top, tc) = cs \o Joined[Tail(Top)] =>
              Leads(r, cs, Advance(stack), 0)
<1>1. /\ stack \in Seq(Seq(Tree)) /\ Top \in Seq(Tree) /\ Top = stack[Len(stack)]
      /\ Within(Top, tc)
  BY Facing
<1>2. PICK R : Owed(stack, R) /\ r = Now(Top, tc) \o R[Len(stack)]
  BY Facing
<1>3. ASSUME Within(Top, k), Now(Top, tc) = cs \o Now(Top, k)
      PROVE  Leads(r, cs, stack, k)
  BY <1>1, <1>2, <1>3, LevelStep
<1>4. ASSUME Top # << >>, Now(Top, tc) = cs \o Joined[Tail(Top)]
      PROVE  Leads(r, cs, Advance(stack), 0)
  <2> DEFINE a == Advance(stack)
             g == Tail(Top)
  <2>1. a \in Seq(Seq(Tree)) /\ g \in Seq(Tree)
    BY <1>1, <1>4, AdvanceShape, ForestParts DEF Shape
  <2>2. Owed(a, R) /\ Len(a) = Len(stack) /\ a # << >> /\ a[Len(stack)] = g
    BY <1>1, <1>2, OwedAdvance
  <2>3. Within(g, 0) /\ Now(g, 0) = Joined[g]
    BY DEF Within, Now
  <2> HIDE DEF a, g
  <2>4. Now(Top, tc) = cs \o Now(g, 0)
    BY <1>4, <2>3 DEF g
  <2>5. Leads(r, cs, a, 0)
    BY <1>1, <1>2, <2>1, <2>2, <2>3, <2>4, LevelStep
  <2> QED
    BY <2>5 DEF a
<1> QED
  BY <1>3, <1>4

LEMMA AtomSteps ==
  ASSUME Shape(stack, depth), Text, NEW r, Remains(stack, tc, r)
  PROVE  /\ tc = 0 => Leads(r, Opening, stack, 1)
         /\ tc \in 1..Len(Top[1].val) => Leads(r, Character, stack, tc + 1)
         /\ tc = Len(Top[1].val) + 1 => Leads(r, Ending, Advance(stack), 0)
<1> DEFINE x == Top[1]
<1>1. /\ stack # << >> /\ Top # << >> /\ x \in Tree /\ x.val \in Seq(Char)
      /\ x.ty = "VALUE" /\ x.aty # "BINARY"
  BY AtHand DEF Text, At
<1>2. Top \in Seq(Tree)
  BY <1>1, Facing
<1>3. /\ RestText(Top) \in Seq(Char) /\ Joined[Top] = AtomText(x) \o RestText(Top)
      /\ Blank(Tail(Top)) \in Seq(Char) /\ Joined[Tail(Top)] \in Seq(Char)
  BY <1>1, <1>2, RestTextIs DEF Printed
<1>4. Len(x.val) \in Nat /\ 1 \in 1..(Len(x.val) + 1)
  BY <1>1
<1>5. \A k \in 1..(Len(x.val) + 1) : /\ Within(Top, k) /\ AtomRest(x, k) \in Seq(Char)
                                     /\ Now(Top, k) = AtomRest(x, k) \o RestText(Top)
  BY <1>1, AtomRestIs DEF Within, Now
<1> HIDE DEF x
<1>6. ASSUME tc = 0 PROVE Leads(r, Opening, stack, 1)
  <2>1. Opening \in Seq(Char) /\ AtomText(x) = Opening \o AtomRest(x, 1)
    BY <1>1, AtomOpened DEF Opening, x
  <2>2. (Opening \o AtomRest(x, 1)) \o RestText(Top) = Opening \o (AtomRest(x, 1) \o RestText(Top))
    BY <1>3, <1>4, <1>5, <2>1, Assoc
  <2>3. Now(Top, tc) = Opening \o Now(Top, 1) /\ Within(Top, 1)
    BY <1>3, <1>4, <1>5, <1>6, <2>1, <2>2, Zenon DEF Now
  <2> QED
    BY <1>1, <2>1, <2>3, StaySteps
<1>7. ASSUME tc \in 1..Len(x.val) PROVE Leads(r, Character, stack, tc + 1)
  <2>1. Character \in Seq(Char) /\ AtomRest(x, tc) = Character \o AtomRest(x, tc + 1)
    BY <1>1, <1>7, AtomGoesOn DEF Character, x
  <2>2. tc \in 1..(Len(x.val) + 1) /\ tc + 1 \in 1..(Len(x.val) + 1)
    BY <1>4, <1>7
  <2>3. (Character \o AtomRest(x, tc + 1)) \o RestText(Top)
          = Character \o (AtomRest(x, tc + 1) \o RestText(Top))
    BY <1>3, <1>5, <2>1, <2>2, Assoc
  <2>4. Now(Top, tc) = Character \o Now(Top, tc + 1) /\ Within(Top, tc + 1)
    BY <1>5, <2>1, <2>2, <2>3, Zenon
  <2> QED
    BY <1>1, <2>1, <2>4, StaySteps
<1>8. ASSUME tc = Len(x.val) + 1 PROVE Leads(r, Ending, Advance(stack), 0)
  <2> DEFINE e == IF x.aty = "DQUOTE" THEN <<"dq">> ELSE << >>
  <2>1. e \in Seq(Char) /\ AtomRest(x, tc) = e
    BY <1>1, <1>8, AtomEnded, SomeChars
  <2>2. Ending = e \o Blank(Tail(Top))
    BY DEF Ending, x
  <2> HIDE DEF e
  <2>3. Ending \in Seq(Char) /\ e \o RestText(Top) = Ending \o Joined[Tail(Top)]
    <3> DEFINE t == Blank(Tail(Top))
               j == Joined[Tail(Top)]
    <3>1. RestText(Top) = t \o j /\ t \in Seq(Char) /\ j \in Seq(Char)
      BY <1>3 DEF RestText
    <3> HIDE DEF t, j
    <3>2. e \in Seq(Char) /\ Ending = e \o t
      BY <2>1, <2>2 DEF t
    <3>3. e \o t \in Seq(Char)
      BY <3>1, <3>2, Joins, Zenon
    <3>4. (e \o t) \o j = e \o (t \o j)
      BY <3>1, <3>2, Assoc, Zenon
    <3> QED
      BY <3>1, <3>2, <3>3, <3>4, Zenon DEF j
  <2>4. tc \in 1..(Len(x.val) + 1)
    BY <1>4, <1>8
  <2>5. Now(Top, tc) = Ending \o Joined[Tail(Top)]
    BY <1>5, <2>1, <2>3, <2>4, Zenon
  <2> QED
    BY <1>1, <2>3, <2>5, StaySteps
<1> QED
  BY <1>6, <1>7, <1>8 DEF x

LEMMA BinarySteps ==
  ASSUME Shape(stack, depth), Bytes, NEW r, Remains(stack, tc, r)
  PROVE  /\ Prefix \in Seq(Char) /\ Len(Prefix) = 3 /\ Size \in Seq(Char)
         /\ Top[1].val \in Seq(Char) /\ <<"sp">> \o Blank(Tail(Top)) \in Seq(Char)
         /\ Leads(r, Prefix \o Size \o Top[1].val \o <<"sp">> \o Blank(Tail(Top)),
                  Advance(stack), 0)
<1> DEFINE x == Top[1]
           h == <<"hash">>
           z == <<"sp">>
           n == Decimal(Len(x.val))
           t == Blank(Tail(Top))
           p == ((Prefix \o Size) \o x.val) \o z
           cs == p \o t
<1>1. /\ stack # << >> /\ Top # << >> /\ x \in Tree /\ x.val \in Seq(Char)
      /\ x.ty = "VALUE" /\ x.aty = "BINARY"
  BY AtHand DEF Bytes, At
<1>2. Top \in Seq(Tree) /\ Within(Top, tc)
  BY <1>1, Facing
<1>3. tc = 0
  BY <1>1, <1>2 DEF Within
<1>4. /\ RestText(Top) \in Seq(Char) /\ Joined[Top] = AtomText(x) \o RestText(Top)
      /\ t \in Seq(Char) /\ Joined[Tail(Top)] \in Seq(Char)
  BY <1>1, <1>2, RestTextIs DEF Printed
<1>5. n \in Seq(Char) /\ h \in Seq(Char) /\ z \in Seq(Char) /\ Size = n \o h
  BY <1>1, CharAssumption, SomeChars DEF Size
<1>6. Prefix \in Seq(Char) /\ Len(Prefix) = 3
  BY SomeChars DEF Prefix
<1>7. AtomText(x) = (((Prefix \o n) \o h) \o x.val) \o z
  BY <1>1 DEF AtomText, Prefix
<1> HIDE DEF x, h, z, n, t
<1>8. Size \in Seq(Char) /\ (Prefix \o n) \o h = Prefix \o Size
  BY <1>5, <1>6, Joins, Assoc
<1>9. AtomText(x) = p
  BY <1>7, <1>8
<1>10. p \in Seq(Char) /\ z \o t \in Seq(Char)
  BY <1>1, <1>4, <1>5, <1>6, <1>8, Joins
<1> HIDE DEF p
<1>11. cs \in Seq(Char) /\ p \o RestText(Top) = cs \o Joined[Tail(Top)]
  <2>1. RestText(Top) = t \o Joined[Tail(Top)]
    BY DEF RestText, t
  <2>2. p \o t \in Seq(Char)
    BY <1>4, <1>10, Joins, Zenon
  <2>3. p \o (t \o Joined[Tail(Top)]) = (p \o t) \o Joined[Tail(Top)]
    <3> DEFINE j == Joined[Tail(Top)]
    <3>1. p \in Seq(Char) /\ t \in Seq(Char) /\ j \in Seq(Char)
      BY <1>4, <1>10
    <3> HIDE DEF j
    <3>2. (p \o t) \o j = p \o (t \o j)
      BY <3>1, Assoc, Zenon
    <3> QED
      BY <3>2 DEF j
  <2> QED
    BY <2>1, <2>2, <2>3, Zenon
<1> HIDE DEF cs
<1>12. Now(Top, tc) = cs \o Joined[Tail(Top)]
  BY <1>3, <1>4, <1>9, <1>11 DEF Now
<1>13. Leads(r, cs, Advance(stack), 0)
  BY <1>1, <1>11, <1>12, StaySteps
<1> QED
  BY <1>1, <1>6, <1>8, <1>10, <1>13 DEF cs, p, z, x, t

(* Joining, for steps that only regroup. *)
Cat(u, v) == u \o v

LEMMA CatIs == \A u, v \in Seq(Char) : Cat(u, v) \in Seq(Char)
  BY ConcatProperties DEF Cat

LEMMA CatAssoc == \A u, v, w \in Seq(Char) : Cat(Cat(u, v), w) = Cat(u, Cat(v, w))
  BY ConcatAssociative DEF Cat

LEMMA ListStep ==
  ASSUME Shape(stack, depth), At("LIST"), NEW r, Remains(stack, tc, r)
  PROVE  Leads(r, <<"lp">>, Opened, 0)
<1> DEFINE x == Top[1]
           l == <<"lp">>
           e == <<"rp">>
           J == Joined[x.kids]
           n == Len(stack)
           q == Opened
<1>1. /\ stack # << >> /\ Top # << >> /\ x \in Tree /\ x.kids \in Seq(Tree)
      /\ x.ty = "LIST"
  BY AtHand DEF At
<1>2. /\ Top \in Seq(Tree) /\ Within(Top, tc) /\ stack \in Seq(Seq(Tree))
      /\ Top = stack[n] /\ n \in 1..n
  BY <1>1, Facing
<1>3. tc = 0
  BY <1>1, <1>2 DEF Within
<1>4. PICK R : Owed(stack, R) /\ r = Now(Top, tc) \o R[n]
  BY <1>1, Facing
<1>5. RestText(Top) \in Seq(Char) /\ Joined[Top] = ((l \o J) \o e) \o RestText(Top)
  BY <1>1, <1>2, RestTextIs DEF Printed
<1>6. l \in Seq(Char) /\ e \in Seq(Char) /\ J \in Seq(Char)
  BY <1>1, JoinedIs, SomeChars
<1>7. R[n] \in Seq(Char)
  BY <1>2, <1>4 DEF Owed
<1>8. PICK Q : Owed(q, Q) /\ Q[n + 1] = Due(Top, R[n])
  BY <1>1, <1>2, <1>4, OpenedOwes
<1>9. q # << >> /\ Len(q) = n + 1 /\ q[n + 1] = x.kids
  BY <1>1, <1>2, <1>4, OpenedOwes
<1>10. Due(Top, R[n]) = (e \o RestText(Top)) \o R[n]
  BY DEF Due
<1> HIDE DEF x, l, e, J, q
<1>11. r = l \o (J \o Due(Top, R[n])) /\ J \o Due(Top, R[n]) \in Seq(Char)
  <2> DEFINE u == R[n]
             t == RestText(Top)
  <2>1. u \in Seq(Char) /\ t \in Seq(Char)
    BY <1>5, <1>7
  <2>2. r = Cat(Cat(Cat(Cat(l, J), e), t), u)
    BY <1>3, <1>4, <1>5 DEF Now, Cat
  <2>3. Due(Top, R[n]) = Cat(Cat(e, t), u)
    BY <1>10 DEF Cat
  <2> HIDE DEF u, t
  <2>4. /\ Cat(Cat(Cat(Cat(l, J), e), t), u) = Cat(l, Cat(J, Cat(Cat(e, t), u)))
        /\ Cat(J, Cat(Cat(e, t), u)) \in Seq(Char)
    <3>1. Cat(l, J) \in Seq(Char) /\ Cat(e, t) \in Seq(Char)
      BY <1>6, <2>1, CatIs
    <3>2. Cat(J, Cat(e, t)) \in Seq(Char) /\ Cat(Cat(e, t), u) \in Seq(Char)
      BY <1>6, <2>1, <3>1, CatIs
    <3>3. Cat(Cat(Cat(l, J), e), t) = Cat(Cat(l, J), Cat(e, t))
      BY <1>6, <2>1, <3>1, CatAssoc
    <3>4. Cat(Cat(l, J), Cat(e, t)) = Cat(l, Cat(J, Cat(e, t)))
      BY <1>6, <3>1, CatAssoc
    <3>5. Cat(Cat(l, Cat(J, Cat(e, t))), u) = Cat(l, Cat(Cat(J, Cat(e, t)), u))
      BY <1>6, <2>1, <3>2, CatAssoc
    <3>6. Cat(Cat(J, Cat(e, t)), u) = Cat(J, Cat(Cat(e, t), u))
      BY <1>6, <2>1, <3>1, CatAssoc
    <3>7. Cat(J, Cat(Cat(e, t), u)) \in Seq(Char)
      BY <1>6, <3>2, CatIs
    <3> QED
      BY <3>3, <3>4, <3>5, <3>6, <3>7
  <2> QED
    BY <2>2, <2>3, <2>4 DEF Cat
<1>12. Now(x.kids, 0) = J /\ Within(x.kids, 0)
  BY DEF Now, Within, J
<1>13. Remains(q, 0, J \o Due(Top, R[n]))
  BY <1>8, <1>9, <1>12, Zenon DEF Remains
<1>14. Leads(r, l, q, 0)
  BY <1>6, <1>11, <1>13, Zenon DEF Leads
<1> QED
  BY <1>14 DEF l, q

LEMMA CloseStep ==
  ASSUME Shape(stack, depth), stack # << >>, Top = << >>, NEW r, Remains(stack, tc, r)
  PROVE  Leads(r, Closed.text, Closed.stack, 0)
<1> DEFINE n == Len(stack)
           p == Below
<1>1. /\ Top \in Seq(Tree) /\ Within(Top, tc) /\ stack \in Seq(Seq(Tree))
      /\ n = depth + 1 /\ depth \in Nat /\ n \in 1..n
  BY Facing
<1>2. PICK R : Owed(stack, R) /\ r = Now(Top, tc) \o R[n]
  BY Facing
<1>3. R[n] \in Seq(Char)
  BY <1>1, <1>2 DEF Owed
<1>4. Now(Top, tc) = << >>
  BY <1>1, JoinedIs DEF Within, Now
<1>5. r = R[n]
  BY <1>2, <1>3, <1>4, Empties
<1>6. CASE depth = 0
  <2>1. Below = << >>
    BY <1>1, <1>6, SubSeqEmpty DEF Below
  <2>2. Closed.text = << >> /\ Closed.stack = << >>
    BY <1>6, <2>1 DEF Closed, Closing
  <2>3. r = << >>
    BY <1>1, <1>2, <1>5, <1>6 DEF Owed
  <2>4. << >> \in Seq(Char) /\ << >> \o << >> = << >>
    BY SomeChars, Empties
  <2> QED
    BY <2>2, <2>3, <2>4, Zenon DEF Leads, Remains
<1>7. CASE depth # 0
  <2> DEFINE f == stack[n - 1]
             g == Tail(f)
             a == Advance(Below)
             e == <<"rp">>
             t == Blank(g)
             J == Joined[g]
             u == R[n - 1]
  <2>1. n >= 2 /\ n - 1 \in 1..n /\ n - 1 \in 1..depth /\ depth > 0
    BY <1>1, <1>7
  <2>2. /\ Below \in Seq(Seq(Tree)) /\ Below # << >> /\ Len(Below) = n - 1
        /\ Below[n - 1] = f /\ R[n] = Due(f, u)
    BY <1>1, <1>2, <2>1, BelowOwes
  <2>3. PICK Q : Owed(Below, Q) /\ Q[n - 1] = u
    <3>1. n - 1 \in 1..(n - 1) /\ \E Q : Owed(Below, Q) /\ \A i \in 1..(n - 1) : Q[i] = R[i]
      BY <1>1, <1>2, <2>1, BelowOwes
    <3> QED
      BY <3>1, Zenon
  <2>4. f # << >> /\ f \in Seq(Tree)
    BY <1>1, <2>1 DEF Shape
  <2>5. Owed(a, Q) /\ Len(a) = n - 1 /\ a # << >> /\ a[n - 1] = g
    BY <2>2, <2>3, OwedAdvance
  <2>6. Closed.text = e \o t /\ Closed.stack = a
    BY <2>1, <2>2 DEF Closed, Closing
  <2>7. /\ e \in Seq(Char) /\ t \in Seq(Char) /\ J \in Seq(Char) /\ u \in Seq(Char)
        /\ RestText(f) = t \o J
    <3>1. u \in Seq(Char)
      BY <1>1, <1>2, <2>1 DEF Owed
    <3>2. RestText(f) = t \o J
      BY DEF RestText
    <3> QED
      BY <2>4, <3>1, <3>2, RestTextIs, SomeChars
  <2>8. r = (e \o (t \o J)) \o u
    BY <1>5, <2>2, <2>7 DEF Due
  <2>9. Now(g, 0) = J /\ Within(g, 0)
    BY DEF Now, Within
  <2> HIDE DEF e, t, J, u, a, g, f
  <2>10. r = (e \o t) \o (J \o u) /\ e \o t \in Seq(Char) /\ J \o u \in Seq(Char)
    <3>1. r = Cat(Cat(e, Cat(t, J)), u)
      BY <2>8 DEF Cat
    <3>2. /\ Cat(Cat(e, Cat(t, J)), u) = Cat(Cat(e, t), Cat(J, u))
          /\ Cat(e, t) \in Seq(Char) /\ Cat(J, u) \in Seq(Char)
      BY <2>7, CatIs, CatAssoc
    <3> QED
      BY <3>1, <3>2 DEF Cat
  <2>11. Remains(a, 0, J \o u)
    BY <2>3, <2>5, <2>9, Zenon DEF Remains
  <2> QED
    BY <2>6, <2>10, <2>11, Zenon DEF Leads
<1> QED
  BY <1>6, <1>7
-----------------------------------------------------------------------------
(* What is written and what is not make the whole text, until the end.      *)
Old == IF job.old = NULL THEN << >> ELSE job.old
TextInv ==
  /\ pc = "call" => ret = 0 /\ str = job.old /\ sexp_errno = "OK"
  /\ pc = "print" =>
       /\ job.fn = "print_sexp"
       /\ \E r \in Seq(Char) : Remains(stack, tc, r) /\ b \o r = Joined[job.sx]
  /\ pc = "cstr" =>
       /\ job.fn = "print_sexp_cstr"
       /\ \/ b = NULL /\ sexp_errno = "MEMORY"
          \/ /\ b \in Seq(Char) /\ sexp_errno = "OK"
             /\ \E r \in Seq(Char) : Remains(stack, tc, r) /\ b \o r = Old \o Joined[job.sx]
  /\ PrintsText /\ AddsText

LEMMA FirstChars ==
  ASSUME NEW s \in Seq(Char), NEW n \in 0..Len(s)
  PROVE  /\ SubSeq(s, 1, n) \in Seq(Char) /\ Len(SubSeq(s, 1, n)) = n
         /\ \A i \in 1..n : SubSeq(s, 1, n)[i] = s[i]
<1>1. n \in Nat /\ Len(s) \in Nat /\ \A i \in 1..n : i \in 1..Len(s)
  OBVIOUS
<1>2. \A i \in 1..n : s[i] \in Char
  BY <1>1
<1>3. 1 \in Int /\ n \in Int /\ n - 1 + 1 = n /\ \A i \in 1..n : 1 + i - 1 = i
  BY <1>1
<1>4. /\ SubSeq(s, 1, n) \in Seq(Char)
      /\ Len(SubSeq(s, 1, n)) = IF 1 <= n THEN n - 1 + 1 ELSE 0
      /\ \A i \in 1..(n - 1 + 1) : SubSeq(s, 1, n)[i] = s[1 + i - 1]
  BY <1>2, <1>3, SubSeqProperties
<1>5. (IF 1 <= n THEN n - 1 + 1 ELSE 0) = n
  BY <1>1
<1> QED
  BY <1>3, <1>4, <1>5

LEMMA FrontIsPrefix ==
  ASSUME NEW w \in Seq(Char), w # << >>, NEW z \in Seq(Char), NEW p, p = SubSeq(w, 1, Len(w) - 1)
  PROVE  p \in Seq(Char) /\ Len(p) = Len(w) - 1 /\ IsPrefix(p, w \o z)
<1> DEFINE n == Len(w) - 1
           t == w \o z
<1>1. Len(w) \in Nat /\ Len(w) # 0 /\ Len(z) \in Nat
  BY EmptySeq
<1>2. n \in Nat /\ 1 \in Int /\ n \in Int /\ \A i \in 1..n : i \in 1..Len(w)
  BY <1>1
<1>3. t \in Seq(Char) /\ Len(t) = Len(w) + Len(z)
  BY ConcatProperties
<1>4. \A i \in 1..n : t[i] = w[i] /\ w[i] \in Char /\ t[i] \in Char
  <2>1. ASSUME NEW i \in 1..n PROVE t[i] = w[i] /\ w[i] \in Char
    <3>1. i \in 1..(Len(w) + Len(z)) /\ i <= Len(w) /\ i \in 1..Len(w)
      BY <1>1, <2>1
    <3> QED
      BY <3>1, ConcatProperties
  <2> QED
    BY <2>1
<1> HIDE DEF t
<1>5. p \in Seq(Char) /\ Len(p) = n /\ \A i \in 1..n : p[i] = w[i]
  <2>1. n \in 0..Len(w)
    BY <1>1
  <2> QED
    BY <2>1, FirstChars
<1>6. p = SubSeq(t, 1, n)
  <2> DEFINE v == SubSeq(t, 1, n)
  <2>1. v \in Seq(Char) /\ Len(v) = n /\ \A i \in 1..n : v[i] = t[i]
    <3>1. n \in 0..Len(t)
      BY <1>1, <1>3
    <3> QED
      BY <1>3, <3>1, FirstChars
  <2> HIDE DEF v
  <2>2. \A i \in 1..Len(p) : p[i] = v[i]
    BY <1>4, <1>5, <2>1
  <2>3. p = v
    BY <1>5, <2>1, <2>2, SeqEqual
  <2> QED
    BY <2>3 DEF v
<1>7. SubSeq(p, 1, Len(p)) = p
  BY <1>5, AllChars
<1>8. IsPrefix(p, t)
  <2>1. Len(p) <= Len(t)
    BY <1>1, <1>3, <1>5
  <2> QED
    BY <1>5, <1>6, <1>7, <2>1, Zenon DEF IsPrefix
<1> QED
  BY <1>5, <1>8 DEF t

LEMMA FullText ==
  ASSUME PrinterInv, pc = "print", job.fn = "print_sexp",
         NEW w \in Seq(Char), Len(w) <= job.size, NEW z \in Seq(Char),
         w \o z = Joined[job.sx], Len(w) + Len(z) >= job.size, OutOfSpace(w)
  PROVE  TextInv'
<1>1. job' = job /\ job.size \in Nat
  BY JobsAssumption DEF OutOfSpace, PrinterInv
<1>2. CASE w = << >>
  <2>1. pc' = "undefined"
    BY <1>2 DEF OutOfSpace
  <2> QED
    BY <2>1 DEF TextInv, PrintsText, AddsText
<1>3. CASE w # << >>
  <2>1. /\ b' = SubSeq(w, 1, Len(w) - 1) /\ pc' = "done" /\ ret' = -1
        /\ sexp_errno' = "BUFFER_FULL"
    BY <1>3 DEF OutOfSpace
  <2>2. b' \in Seq(Char) /\ Len(b') = Len(w) - 1 /\ IsPrefix(b', Joined[job.sx])
    BY <1>3, <2>1, FrontIsPrefix
  <2>3. Len(Joined[job.sx]) = Len(w) + Len(z) /\ Len(w) \in Nat /\ Len(z) \in Nat
    BY ConcatProperties
  <2>4. ~(Len(Joined[job.sx]) < job.size) /\ Len(b') < job.size
    BY <1>1, <2>2, <2>3
  <2>5. PrintsText'
    BY <1>1, <2>1, <2>2, <2>4 DEF PrintsText
  <2>6. AddsText'
    BY <1>1 DEF AddsText
  <2> QED
    BY <2>1, <2>5, <2>6 DEF TextInv
<1> QED
  BY <1>2, <1>3

(* What add_char_break_full and sadd do to the text, for a step that leads  *)
(* from r to what remains after cs.                                         *)
LEMMA AddText ==
  ASSUME PrinterInv, TextInv, pc = "print", NEW w, NEW n, Counted(w, n),
         NEW r \in Seq(Char), w \o r = Joined[job.sx],
         NEW cs, NEW s, NEW d, NEW k, Leads(r, cs, s, k), Add(w, n, cs, s, d, k)
  PROVE  TextInv'
<1>1. /\ w \in Seq(Char) /\ n \in Nat /\ n >= 1 /\ Len(w) + n = job.size /\ Len(w) \in Nat
      /\ cs \in Seq(Char) /\ Len(cs) \in Nat
  BY DEF Counted, Leads
<1>2. job.fn = "print_sexp"
  BY DEF TextInv
<1>3. PICK q \in Seq(Char) : r = cs \o q /\ Remains(s, k, q)
  BY DEF Leads
<1>4. Joined[job.sx] = Cat(w, Cat(cs, q))
  BY <1>3 DEF Cat
<1>5. CASE Len(cs) >= n
  <2> DEFINE c == SubSeq(cs, 1, n)
             e == SubSeq(cs, n + 1, Len(cs))
             v == w \o c
             z == e \o q
  <2>1. OutOfSpace(v)
    BY <1>5 DEF Add
  <2>2. c \in Seq(Char) /\ Len(c) = n /\ e \in Seq(Char)
    <3>1. n \in 0..Len(cs) /\ (n + 1 \in 1..Len(cs) \/ n = Len(cs))
      BY <1>1, <1>5
    <3>2. c \in Seq(Char) /\ Len(c) = n
      BY <1>1, <3>1, FirstChars
    <3>3. e \in Seq(Char)
      <4>1. CASE n + 1 \in 1..Len(cs)
        BY <1>1, <4>1, LastChars
      <4>2. CASE n = Len(cs)
        BY <1>1, <4>2, AllChars, SomeChars
      <4> QED
        BY <3>1, <4>1, <4>2
    <3> QED
      BY <3>2, <3>3
  <2>3. cs = Cat(c, e)
    <3>1. 1 \in 1..(Len(cs) + 1) /\ n \in (1 - 1)..Len(cs) /\ Len(cs) \in n..Len(cs)
      BY <1>1, <1>5
    <3>2. c \o e = SubSeq(cs, 1, Len(cs))
      BY <1>1, <3>1, ConcatAdjacentSubSeq
    <3> QED
      BY <1>1, <3>2, AllChars DEF Cat
  <2>4. v = Cat(w, c) /\ z = Cat(e, q)
    BY DEF Cat
  <2> HIDE DEF c, e
  <2>5. v \in Seq(Char) /\ Len(v) = job.size /\ z \in Seq(Char)
    <3>1. v \in Seq(Char) /\ Len(v) = Len(w) + Len(c)
      BY <1>1, <2>2, ConcatProperties
    <3>2. z \in Seq(Char)
      BY <2>2, ConcatProperties
    <3> QED
      BY <1>1, <2>2, <3>1, <3>2
  <2> HIDE DEF v, z
  <2>6. Cat(w, Cat(Cat(c, e), q)) = Cat(v, z)
    <3>1. Cat(e, q) \in Seq(Char)
      BY <2>2, CatIs
    <3>2. Cat(Cat(c, e), q) = Cat(c, Cat(e, q))
      BY <2>2, CatAssoc
    <3>3. Cat(Cat(w, c), Cat(e, q)) = Cat(w, Cat(c, Cat(e, q)))
      BY <1>1, <2>2, <3>1, CatAssoc
    <3> QED
      BY <2>4, <3>2, <3>3
  <2>7. v \o z = Joined[job.sx]
    BY <1>4, <2>3, <2>6 DEF Cat
  <2>8. Len(v) <= job.size /\ Len(v) + Len(z) >= job.size
    BY <1>1, <2>5
  <2> QED
    BY <1>2, <2>1, <2>5, <2>7, <2>8, FullText
<1>6. CASE ~(Len(cs) >= n)
  <2>1. b' = w \o cs /\ stack' = s /\ tc' = k /\ job' = job /\ pc' = pc
    BY <1>6 DEF Add
  <2>2. Cat(Cat(w, cs), q) = Cat(w, Cat(cs, q))
    BY <1>1, CatAssoc
  <2>3. b' \o q = Joined[job.sx]
    BY <1>4, <2>1, <2>2 DEF Cat
  <2>4. Remains(stack', tc', q)
    BY <1>3, <2>1
  <2>5. PrintsText' /\ AddsText'
    BY <2>1 DEF PrintsText, AddsText
  <2> QED
    BY <1>2, <2>1, <2>3, <2>4, <2>5 DEF TextInv
<1> QED
  BY <1>5, <1>6

LEMMA SaddText ==
  ASSUME TextInv, job \in Jobs, pc = "cstr", NEW cs, NEW s, NEW d, NEW k,
         \A r \in Seq(Char) : Remains(stack, tc, r) => Leads(r, cs, s, k), Sadd(cs, s, d, k)
  PROVE  TextInv'
<1>1. stack' = s /\ tc' = k /\ job' = job /\ pc' = pc
  BY DEF Sadd
<1>2. job.fn = "print_sexp_cstr" /\ PrintsText' /\ AddsText'
  BY <1>1 DEF TextInv, PrintsText, AddsText
<1>3. CASE b = NULL
  <2>1. sexp_errno = "MEMORY"
    BY <1>3, NullAssumption DEF TextInv
  <2>2. b' = NULL /\ sexp_errno' = "MEMORY"
    BY <1>3, <2>1 DEF Sadd
  <2> QED
    BY <1>1, <1>2, <2>2 DEF TextInv
<1>4. CASE b # NULL
  <2>1. PICK r \in Seq(Char) : Remains(stack, tc, r) /\ b \o r = Old \o Joined[job.sx]
    BY <1>4 DEF TextInv
  <2>2. b \in Seq(Char) /\ sexp_errno = "OK"
    BY <1>4 DEF TextInv
  <2>3. cs \in Seq(Char)
    BY <2>1 DEF Leads
  <2>4. PICK q \in Seq(Char) : r = cs \o q /\ Remains(s, k, q)
    BY <2>1 DEF Leads
  <2>5. CASE b' = NULL /\ sexp_errno' = "MEMORY"
    BY <1>1, <1>2, <2>5 DEF TextInv
  <2>6. CASE b' = b \o cs /\ UNCHANGED sexp_errno
    <3>1. b' \in Seq(Char) /\ sexp_errno' = "OK"
      BY <2>2, <2>3, <2>6, ConcatProperties
    <3>2. Cat(Cat(b, cs), q) = Cat(b, Cat(cs, q))
      BY <2>2, <2>3, CatAssoc
    <3>3. b' \o q = Old \o Joined[job.sx]
      BY <2>1, <2>4, <2>6, <3>2 DEF Cat
    <3>4. Old' = Old
      BY <1>1 DEF Old
    <3>5. b' \o q = Old' \o Joined[job'.sx] /\ Remains(stack', tc', q)
      BY <1>1, <2>4, <3>3, <3>4
    <3> QED
      BY <1>1, <1>2, <3>1, <3>5 DEF TextInv
  <2> QED
    BY <1>4, <2>5, <2>6 DEF Sadd
<1> QED
  BY <1>3, <1>4

(* A binary atom, written at once or not. *)
LEMMA PrintBinaryText ==
  ASSUME PrinterInv, TextInv, PrintBinary
  PROVE  TextInv'
<1> DEFINE P == Prefix
           S == Size
           v == Top[1].val
           e == <<"sp">>
           t == Blank(Tail(Top))
           room == left - 3 - Len(Size)
           x == b \o P
           y == x \o S
           w == y \o v
           cs == e \o t
<1>1. pc = "print" /\ Counted(b, left) /\ Shape(stack, depth) /\ Bytes
  BY DEF PrintBinary, PrinterInv, Walking
<1>2. job.fn = "print_sexp"
  BY <1>1 DEF TextInv
<1>3. PICK r \in Seq(Char) : Remains(stack, tc, r) /\ b \o r = Joined[job.sx]
  BY <1>1 DEF TextInv
<1>4. /\ P \in Seq(Char) /\ Len(P) = 3 /\ S \in Seq(Char) /\ v \in Seq(Char)
      /\ cs \in Seq(Char)
  BY <1>1, <1>3, BinarySteps
<1>5. Leads(r, P \o S \o v \o e \o t, Advance(stack), 0)
  BY <1>1, <1>3, BinarySteps
<1>6. PICK q \in Seq(Char) : r = (P \o S \o v \o e \o t) \o q /\ Remains(Advance(stack), 0, q)
  BY <1>5 DEF Leads
<1>7. b \in Seq(Char) /\ left \in Nat /\ left >= 1 /\ Len(b) + left = job.size
  BY <1>1 DEF Counted
<1>8. e \in Seq(Char) /\ t \in Seq(Char) /\ Len(e) = 1
  BY SomeChars, BlankText
<1>9. cs = Cat(e, t) /\ x = Cat(b, P) /\ y = Cat(x, S) /\ w = Cat(y, v)
  BY DEF Cat
<1>10. r = Cat(Cat(Cat(Cat(Cat(P, S), v), e), t), q)
  BY <1>6 DEF Cat
<1>11. \/ left <= 3 /\ OutOfSpace(b)
       \/ left > 3 /\ room <= 0 /\ OutOfSpace(x)
       \/ left > 3 /\ room > 0 /\ Len(v) > room /\ OutOfSpace(y)
       \/ Overrun
       \/ room > Len(v) /\ Add(w, room - Len(v), cs, Advance(stack), depth, 0)
  <2>1. left \in Int /\ Len(S) \in Nat /\ Len(v) \in Nat
    BY <1>4, <1>7
  <2> DEFINE m == Len(v)
             l == Len(S)
  <2>2. \/ left <= 3 /\ OutOfSpace(b)
        \/ ~(left <= 3) /\ room <= 0 /\ OutOfSpace(x)
        \/ ~(left <= 3) /\ ~(room <= 0) /\ ~(m <= room) /\ OutOfSpace(y)
        \/ Overrun
        \/ ~(room <= m) /\ Add(w, room - m, cs, Advance(stack), depth, 0)
    BY DEF PrintBinary, Fits
  <2>3. room \in Int
    BY <2>1
  <2>4. (~(left <= 3) => left > 3) /\ (~(room <= 0) => room > 0) /\ (~(m <= room) => m > room)
        /\ (~(room <= m) => room > m)
    BY <2>1, <2>3
  <2> QED
    BY <2>2, <2>4, Zenon
<1> HIDE DEF P, S, v, e, t, x, y, w, cs
<1>12. r = Cat(P, Cat(S, Cat(v, Cat(cs, q)))) /\ Cat(cs, q) \in Seq(Char)
       /\ Cat(v, Cat(cs, q)) \in Seq(Char) /\ Cat(S, Cat(v, Cat(cs, q))) \in Seq(Char)
  <2> DEFINE f == Cat(P, S)
             g == Cat(f, v)
             h == Cat(g, e)
             i == Cat(cs, q)
             j == Cat(v, i)
  <2>1. f \in Seq(Char)
    BY <1>4, CatIs
  <2>2. g \in Seq(Char)
    BY <1>4, <2>1, CatIs
  <2>3. i \in Seq(Char)
    BY <1>4, CatIs
  <2>4. j \in Seq(Char)
    BY <1>4, <2>3, CatIs
  <2>5. Cat(S, j) \in Seq(Char)
    BY <1>4, <2>4, CatIs
  <2>6. r = Cat(Cat(h, t), q)
    BY <1>10
  <2>7. Cat(h, t) = Cat(g, cs)
    <3> HIDE DEF g
    <3> QED
      BY <1>8, <1>9, <2>2, CatAssoc
  <2>8. Cat(Cat(g, cs), q) = Cat(g, i)
    <3> HIDE DEF g
    <3> QED
      BY <1>4, <2>2, CatAssoc
  <2>9. Cat(g, i) = Cat(f, j)
    <3> HIDE DEF f, i
    <3> QED
      BY <1>4, <2>1, <2>3, CatAssoc
  <2>10. Cat(f, j) = Cat(P, Cat(S, j))
    <3> HIDE DEF j
    <3> QED
      BY <1>4, <2>4, CatAssoc
  <2> QED
    BY <2>3, <2>4, <2>5, <2>6, <2>7, <2>8, <2>9, <2>10, Zenon
<1> DEFINE r1 == Cat(S, Cat(v, Cat(cs, q)))
           r2 == Cat(v, Cat(cs, q))
           r3 == Cat(cs, q)
<1>13. x \in Seq(Char) /\ Len(x) = Len(b) + 3 /\ x \o r1 = Joined[job.sx]
  <2>1. x \in Seq(Char) /\ Len(x) = Len(b) + 3
    <3>1. x \in Seq(Char) /\ Len(x) = Len(b) + Len(P)
      BY <1>4, <1>7, ConcatProperties DEF x
    <3> QED
      BY <1>4, <3>1, Zenon
  <2>2. Joined[job.sx] = Cat(b, Cat(P, r1))
    BY <1>3, <1>12 DEF Cat
  <2> HIDE DEF r1
  <2>3. Cat(Cat(b, P), r1) = Cat(b, Cat(P, r1))
    BY <1>4, <1>7, <1>12, CatAssoc DEF r1
  <2> QED
    BY <1>9, <2>1, <2>2, <2>3 DEF Cat
<1>14. y \in Seq(Char) /\ Len(y) = Len(x) + Len(S) /\ y \o r2 = Joined[job.sx]
  <2>1. y \in Seq(Char) /\ Len(y) = Len(x) + Len(S)
    BY <1>4, <1>13, ConcatProperties DEF y
  <2>2. Joined[job.sx] = Cat(x, Cat(S, r2))
    BY <1>13 DEF Cat
  <2> HIDE DEF r2
  <2>3. Cat(Cat(x, S), r2) = Cat(x, Cat(S, r2))
    BY <1>4, <1>13, <1>12, CatAssoc DEF r2
  <2> QED
    BY <1>9, <2>1, <2>2, <2>3 DEF Cat
<1>15. w \in Seq(Char) /\ Len(w) = Len(y) + Len(v) /\ w \o r3 = Joined[job.sx]
  <2>1. w \in Seq(Char) /\ Len(w) = Len(y) + Len(v)
    BY <1>4, <1>14, ConcatProperties DEF w
  <2>2. Joined[job.sx] = Cat(y, Cat(v, r3))
    BY <1>14 DEF Cat
  <2> HIDE DEF r3
  <2>3. Cat(Cat(y, v), r3) = Cat(y, Cat(v, r3))
    BY <1>4, <1>14, <1>12, CatAssoc DEF r3
  <2> QED
    BY <1>9, <2>1, <2>2, <2>3 DEF Cat
<1>16. /\ Len(r) = 3 + Len(r1) /\ Len(r1) = Len(S) + Len(r2) /\ Len(r2) = Len(v) + Len(r3)
       /\ Len(r3) = Len(cs) + Len(q) /\ Len(cs) >= 1 /\ Len(cs) \in Nat /\ Len(q) \in Nat
  <2>1. Len(r3) = Len(cs) + Len(q)
    BY <1>4, ConcatProperties DEF Cat
  <2>2. Len(cs) >= 1
    <3>1. Len(t) \in Nat /\ Len(e) = 1
      BY <1>8
    <3>2. Len(cs) = Len(e) + Len(t)
      BY <1>8, Joins, Zenon DEF cs
    <3> QED
      BY <3>1, <3>2
  <2> HIDE DEF r3
  <2>3. Len(r2) = Len(v) + Len(r3)
    BY <1>4, <1>12, ConcatProperties DEF Cat, r3
  <2> HIDE DEF r2
  <2>4. Len(r1) = Len(S) + Len(r2)
    BY <1>4, <1>12, ConcatProperties DEF Cat, r2
  <2> HIDE DEF r1
  <2>5. Len(r) = 3 + Len(r1)
    <3>1. Len(r) = Len(P) + Len(r1)
      BY <1>4, <1>12, ConcatProperties DEF Cat, r1
    <3> QED
      BY <1>4, <3>1, Zenon
  <2>6. Len(cs) \in Nat /\ Len(q) \in Nat
    BY <1>4
  <2> QED
    BY <2>1, <2>2, <2>3, <2>4, <2>5, <2>6, Zenon
<1>17. /\ Len(b) \in Nat /\ Len(S) \in Nat /\ Len(v) \in Nat /\ job.size \in Nat
       /\ room = left - 3 - Len(S)
       /\ r1 \in Seq(Char) /\ r2 \in Seq(Char) /\ r3 \in Seq(Char)
  BY <1>4, <1>7, <1>12 DEF S
<1> HIDE DEF r1, r2, r3, room
<1>18. /\ Len(x) = Len(b) + 3 /\ Len(y) = Len(x) + Len(S) /\ Len(w) = Len(y) + Len(v)
       /\ Len(b) \in Nat /\ Len(S) \in Nat /\ Len(v) \in Nat /\ job.size \in Nat
       /\ room = left - 3 - Len(S) /\ left \in Nat /\ left >= 1 /\ Len(b) + left = job.size
  BY <1>7, <1>13, <1>14, <1>15, <1>17, Zenon
<1>19. CASE left <= 3 /\ OutOfSpace(b)
  <2>1. Len(b) <= job.size /\ Len(b) + Len(r) >= job.size
    BY <1>16, <1>19, <1>18
  <2> QED
    BY <1>1, <1>2, <1>3, <1>7, <1>19, <2>1, FullText
<1>20. CASE left > 3 /\ room <= 0 /\ OutOfSpace(x)
  <2>1. Len(x) <= job.size /\ Len(x) + Len(r1) >= job.size
    BY <1>16, <1>20, <1>18
  <2> QED
    BY <1>1, <1>2, <1>13, <1>17, <1>20, <2>1, FullText
<1>21. CASE left > 3 /\ room > 0 /\ Len(v) > room /\ OutOfSpace(y)
  <2>1. Len(y) <= job.size /\ Len(y) + Len(r2) >= job.size
    BY <1>16, <1>21, <1>18
  <2> QED
    BY <1>1, <1>2, <1>14, <1>17, <1>21, <2>1, FullText
<1>22. CASE Overrun
  BY <1>22 DEF Overrun, TextInv, PrintsText, AddsText
<1>23. CASE room > Len(v) /\ Add(w, room - Len(v), cs, Advance(stack), depth, 0)
  <2>1. Counted(w, room - Len(v))
    <3>1. room - Len(v) \in Nat /\ room - Len(v) >= 1 /\ Len(w) + (room - Len(v)) = job.size
      BY <1>23, <1>18
    <3> QED
      BY <1>15, <3>1 DEF Counted
  <2>2. Leads(r3, cs, Advance(stack), 0)
    BY <1>4, <1>6 DEF Leads, r3, Cat
  <2> QED
    BY <1>1, <1>15, <1>17, <1>23, <2>1, <2>2, AddText
<1> QED
  BY <1>11, <1>19, <1>20, <1>21, <1>22, <1>23

(* A step of either loop, but for the binary atoms of print_sexp. *)
LEMMA WalkText ==
  ASSUME PrinterInv, TextInv, Walking, NEW cs, NEW s, NEW d, NEW k,
         \A r \in Seq(Char) : Remains(stack, tc, r) => Leads(r, cs, s, k)
  PROVE  /\ pc = "print" /\ Add(b, left, cs, s, d, k) => TextInv'
         /\ pc = "cstr" /\ Sadd(cs, s, d, k) => TextInv'
<1>1. ASSUME pc = "print", Add(b, left, cs, s, d, k)
      PROVE  TextInv'
  <2>1. PICK r \in Seq(Char) : Remains(stack, tc, r) /\ b \o r = Joined[job.sx]
    BY <1>1 DEF TextInv
  <2>2. Counted(b, left)
    BY <1>1 DEF PrinterInv
  <2> QED
    BY <1>1, <2>1, <2>2, AddText
<1>2. ASSUME pc = "cstr", Sadd(cs, s, d, k)
      PROVE  TextInv'
  BY <1>2, SaddText DEF PrinterInv
<1> QED
  BY <1>1, <1>2

(* The calls.  What remains at the start is the whole text. *)
LEMMA StartRemains ==
  ASSUME job \in Jobs, job.sx # << >>
  PROVE  /\ Joined[job.sx] \in Seq(Char) /\ Remains(<<job.sx>>, 0, Joined[job.sx])
<1> DEFINE s == <<job.sx>>
           R == <<<< >>>>
           J == Joined[job.sx]
<1>1. job.sx \in Seq(Tree)
  BY JobsAssumption
<1>2. J \in Seq(Char)
  BY <1>1, JoinedIs
<1>3. Len(s) = 1 /\ s[1] = job.sx /\ s # << >>
  OBVIOUS
<1>4. R \in Seq(Seq(Char)) /\ Len(R) = 1 /\ R[1] = << >>
  OBVIOUS
<1> HIDE DEF s, R, J
<1>5. Owed(s, R)
  <2>1. \A i \in 1..(Len(s) - 1) : FALSE
    BY <1>3
  <2> QED
    BY <1>3, <1>4, <2>1 DEF Owed
<1>6. Within(job.sx, 0) /\ Now(job.sx, 0) = J
  BY DEF Within, Now, J
<1>7. J = Now(s[Len(s)], 0) \o R[Len(s)] /\ Within(s[Len(s)], 0)
  BY <1>2, <1>3, <1>4, <1>6, Empties
<1>8. Remains(s, 0, J)
  BY <1>3, <1>5, <1>7, Zenon DEF Remains
<1> QED
  BY <1>2, <1>8 DEF s, J

LEMMA PrintCallText ==
  ASSUME PrinterInv, TextInv, print_sexp
  PROVE  TextInv'
<1>1. /\ job \in Jobs /\ job' = job /\ b' = b /\ tc' = tc /\ b = << >> /\ tc = 0
      /\ job.fn = "print_sexp" /\ ret = 0 /\ sexp_errno = "OK" /\ job.size \in Nat
  BY JobsAssumption DEF print_sexp, PrinterInv, TextInv
<1>2. AddsText'
  BY <1>1 DEF AddsText
<1>3. CASE pc' = "done"
  <2>1. \/ job.sx = << >> /\ ret' = 0
        \/ ~(job.size > 0)
        \/ sexp_errno' = "MEMORY"
    BY <1>1, <1>3 DEF print_sexp, CannotStart
  <2>2. job.sx = << >> => Joined[job.sx] = << >> /\ Len(Joined[job.sx]) = 0
    BY JoinedIs
  <2>3. ASSUME job.sx = << >>, ret' = 0, job.size > 0
        PROVE  PrintsText'
    <3>1. /\ Joined[job'.sx] = b' /\ Len(Joined[job'.sx]) = 0 /\ Len(b') = 0 /\ ret' = 0
          /\ 0 < job'.size
      BY <1>1, <2>2, <2>3
    <3> QED
      BY <3>1, Zenon DEF PrintsText
  <2>4. PrintsText'
    BY <1>1, <2>1, <2>3, Zenon DEF PrintsText
  <2> QED
    BY <1>2, <1>3, <2>4 DEF TextInv
<1>4. CASE pc' = "print" /\ stack' = <<job.sx>> /\ job.sx # << >>
  <2> DEFINE J == Joined[job.sx]
  <2>1. J \in Seq(Char) /\ Remains(<<job.sx>>, 0, J)
    BY <1>1, <1>4, StartRemains
  <2>2. b' \o J = J
    BY <1>1, <2>1, Empties
  <2>3. Remains(stack', tc', J)
    BY <1>1, <1>4, <2>1
  <2>4. PrintsText'
    BY <1>4 DEF PrintsText
  <2> QED
    BY <1>1, <1>2, <1>4, <2>1, <2>2, <2>3, <2>4 DEF TextInv
<1>5. CASE pc' = "undefined"
  BY <1>2, <1>5 DEF TextInv, PrintsText
<1> QED
  BY <1>3, <1>4, <1>5 DEF print_sexp, CannotStart

LEMMA CstrCallText ==
  ASSUME PrinterInv, TextInv, print_sexp_cstr
  PROVE  TextInv'
<1>1. /\ job \in Jobs /\ job' = job /\ str' = str /\ tc' = tc /\ tc = 0
      /\ job.fn = "print_sexp_cstr" /\ str = job.old /\ sexp_errno = "OK"
      /\ job.old \in Seq(Char) \cup {NULL}
  BY JobsAssumption DEF print_sexp_cstr, PrinterInv, TextInv
<1>2. PrintsText'
  BY <1>1 DEF PrintsText
<1>3. CASE pc' = "done"
  <2>1. \/ job.sx = << >>
        \/ sexp_errno' = "MEMORY" /\ ret' = -1
    BY <1>3 DEF print_sexp_cstr, CannotStart
  <2>2. AddsText'
    BY <1>1, <2>1 DEF AddsText
  <2> QED
    BY <1>2, <1>3, <2>2 DEF TextInv
<1>4. CASE /\ pc' = "cstr" /\ stack' = <<job.sx>> /\ job.sx # << >>
           /\ \/ b' = (IF str = NULL THEN << >> ELSE str) /\ UNCHANGED sexp_errno
              \/ b' = NULL /\ sexp_errno' = "MEMORY"
  <2> DEFINE J == Joined[job.sx]
  <2>1. J \in Seq(Char) /\ Remains(<<job.sx>>, 0, J)
    BY <1>1, <1>4, StartRemains
  <2>2. Remains(stack', tc', J)
    BY <1>1, <1>4, <2>1
  <2>3. AddsText'
    BY <1>4 DEF AddsText
  <2>4. CASE b' = NULL /\ sexp_errno' = "MEMORY"
    BY <1>1, <1>2, <1>4, <2>3, <2>4 DEF TextInv
  <2>5. CASE b' = (IF str = NULL THEN << >> ELSE str) /\ UNCHANGED sexp_errno
    <3>1. b' = Old' /\ b' \in Seq(Char)
      BY <1>1, <2>5, SomeChars DEF Old
    <3> QED
      BY <1>1, <1>2, <1>4, <2>1, <2>2, <2>3, <2>5, <3>1 DEF TextInv
  <2> QED
    BY <1>4, <2>4, <2>5
<1> QED
  BY <1>3, <1>4 DEF print_sexp_cstr, CannotStart

LEMMA EndText ==
  ASSUME PrinterInv, TextInv, PrintEnd \/ CstrEnd
  PROVE  TextInv'
<1>1. \A r : Remains(stack, tc, r) => r = << >>
  BY DEF Remains, PrintEnd, CstrEnd
<1>2. job' = job /\ b' = b /\ pc' = "done" /\ sexp_errno' = sexp_errno
  BY DEF PrintEnd, CstrEnd
<1>3. CASE PrintEnd
  <2>1. Counted(b, left) /\ job.fn = "print_sexp"
    BY <1>3 DEF PrintEnd, PrinterInv, TextInv
  <2>2. /\ b \in Seq(Char) /\ left \in Nat /\ left >= 1 /\ Len(b) + left = job.size
        /\ Len(b) \in Nat
    BY <2>1 DEF Counted
  <2>3. b = Joined[job.sx]
    BY <1>1, <1>3, <2>2, Empties DEF PrintEnd, TextInv
  <2>4. ret' = Len(b) /\ Len(b) < job.size
    BY <1>3, <2>2 DEF PrintEnd
  <2>5. PrintsText'
    BY <1>2, <2>3, <2>4 DEF PrintsText
  <2>6. AddsText'
    BY <1>2, <2>1 DEF AddsText
  <2> QED
    BY <1>2, <2>5, <2>6 DEF TextInv
<1>4. CASE CstrEnd
  <2>1. job.fn = "print_sexp_cstr" /\ str' = b /\ ret' = IF b = NULL THEN 0 ELSE Len(b)
    BY <1>4 DEF CstrEnd, TextInv
  <2>2. PrintsText'
    BY <1>2, <2>1 DEF PrintsText
  <2>3. CASE b = NULL /\ sexp_errno = "MEMORY"
    <3>1. AddsText'
      BY <1>2, <2>1, <2>3 DEF AddsText
    <3> QED
      BY <1>2, <2>2, <3>1 DEF TextInv
  <2>4. CASE /\ b \in Seq(Char) /\ sexp_errno = "OK"
             /\ \E r \in Seq(Char) : Remains(stack, tc, r) /\ b \o r = Old \o Joined[job.sx]
    <3>1. b = Old \o Joined[job.sx] /\ b # NULL
      BY <1>1, <2>4, Empties, NullAssumption
    <3>2. AddsText'
      BY <1>2, <2>1, <2>4, <3>1 DEF AddsText, Old
    <3> QED
      BY <1>2, <2>2, <3>2 DEF TextInv
  <2> QED
    BY <1>4, <2>3, <2>4 DEF CstrEnd, TextInv
<1> QED
  BY <1>3, <1>4

LEMMA TextNext == PrinterInv /\ TextInv /\ [Next]_vars => TextInv'
<1>1. ASSUME TextInv, UNCHANGED vars
      PROVE  TextInv'
  BY <1>1 DEF vars, TextInv, PrintsText, AddsText, Old
<1>2. ASSUME PrinterInv, TextInv, Next
      PROVE  TextInv'
  <2>1. Walking => Shape(stack, depth)
    BY <1>2 DEF PrinterInv
  <2>2. CASE print_sexp
    BY <1>2, <2>2, PrintCallText
  <2>3. CASE print_sexp_cstr
    BY <1>2, <2>3, CstrCallText
  <2>4. CASE PrintBinary
    BY <1>2, <2>4, PrintBinaryText
  <2>5. CASE PrintEnd \/ CstrEnd
    BY <1>2, <2>5, EndText
  <2>6. CASE PrintClose \/ CstrClose
    <3>1. Walking /\ stack # << >> /\ Top = << >>
      BY <2>6 DEF PrintClose, CstrClose, Walking
    <3>2. \A r \in Seq(Char) : Remains(stack, tc, r) => Leads(r, Closed.text, Closed.stack, 0)
      BY <2>1, <3>1, CloseStep
    <3> QED
      BY <1>2, <2>6, <3>1, <3>2, WalkText DEF PrintClose, CstrClose
  <2>7. CASE PrintAtom \/ CstrAtom
    <3>1. Walking /\ Text
      BY <2>7 DEF PrintAtom, CstrAtom, Walking
    <3>2. \A r \in Seq(Char) : Remains(stack, tc, r) =>
            /\ tc = 0 => Leads(r, Opening, stack, 1)
            /\ tc \in 1..Len(Top[1].val) => Leads(r, Character, stack, tc + 1)
            /\ tc = Len(Top[1].val) + 1 => Leads(r, Ending, Advance(stack), 0)
      BY <2>1, <3>1, AtomSteps
    <3>3. CASE /\ tc = 0
               /\ \/ pc = "print" /\ Add(b, left, Opening, stack, depth, 1)
                  \/ pc = "cstr" /\ Sadd(Opening, stack, depth, 1)
      <4>1. \A r \in Seq(Char) : Remains(stack, tc, r) => Leads(r, Opening, stack, 1)
        BY <3>2, <3>3
      <4> QED
        BY <1>2, <3>1, <3>3, <4>1, WalkText
    <3>4. CASE /\ tc \in 1..Len(Top[1].val)
               /\ \/ pc = "print" /\ Add(b, left, Character, stack, depth, tc + 1)
                  \/ pc = "cstr" /\ Sadd(Character, stack, depth, tc + 1)
      <4>1. \A r \in Seq(Char) : Remains(stack, tc, r) => Leads(r, Character, stack, tc + 1)
        BY <3>2, <3>4
      <4> QED
        BY <1>2, <3>1, <3>4, <4>1, WalkText
    <3>5. CASE /\ tc = Len(Top[1].val) + 1
               /\ \/ pc = "print" /\ Add(b, left, Ending, Advance(stack), depth, 0)
                  \/ pc = "cstr" /\ Sadd(Ending, Advance(stack), depth, 0)
      <4>1. \A r \in Seq(Char) : Remains(stack, tc, r) => Leads(r, Ending, Advance(stack), 0)
        BY <3>2, <3>5
      <4> QED
        BY <1>2, <3>1, <3>5, <4>1, WalkText
    <3> QED
      BY <2>7, <3>3, <3>4, <3>5 DEF PrintAtom, CstrAtom
  <2>8. CASE CstrBinary
    <3> DEFINE cs == Prefix \o Size \o Top[1].val \o <<"sp">> \o Blank(Tail(Top))
    <3>1. /\ Walking /\ Bytes /\ pc = "cstr"
          /\ Sadd(cs, Advance(stack), depth, 0)
      BY <2>8 DEF CstrBinary, Walking
    <3>2. \A r \in Seq(Char) : Remains(stack, tc, r) => Leads(r, cs, Advance(stack), 0)
      BY <2>1, <3>1, BinarySteps
    <3> HIDE DEF cs
    <3> QED
      BY <1>2, <3>1, <3>2, WalkText
  <2>9. CASE PrintList \/ CstrList
    <3> DEFINE cs == <<"lp">>
    <3>1. /\ Walking /\ At("LIST")
          /\ \/ pc = "print" /\ Add(b, left, cs, Opened, depth + 1, 0)
             \/ pc = "cstr" /\ Sadd(cs, Opened, depth + 1, 0)
      BY <2>9 DEF PrintList, CstrList, Walking
    <3>2. \A r \in Seq(Char) : Remains(stack, tc, r) => Leads(r, cs, Opened, 0)
      BY <2>1, <3>1, ListStep
    <3> HIDE DEF cs
    <3> QED
      BY <1>2, <3>1, <3>2, WalkText
  <2> QED
    BY <1>2, <2>2, <2>3, <2>4, <2>5, <2>6, <2>7, <2>8, <2>9 DEF Next
<1> QED
  BY <1>1, <1>2

LEMMA TextInit == Init => TextInv
  BY DEF Init, TextInv, PrintsText, AddsText

(* print_sexp writes the text of the expression, whatever the expression:   *)
(* all of it, or its beginning and the report that the buffer is full, and  *)
(* that exactly when it is too small.                                       *)
THEOREM PrinterPrintsText == Spec => []PrintsText
<1>1. TextInv => PrintsText
  BY DEF TextInv
<1> QED
  BY <1>1, PrinterInit, PrinterNext, TextInit, TextNext, PTL DEF Spec

(* print_sexp_cstr adds the text of the expression to the string, or        *)
(* reports that there was no memory for it.                                 *)
THEOREM PrinterAddsText == Spec => []AddsText
<1>1. TextInv => AddsText
  BY DEF TextInv
<1> QED
  BY <1>1, PrinterInit, PrinterNext, TextInit, TextNext, PTL DEF Spec
-----------------------------------------------------------------------------
(* The sizes at which print_sexp goes wrong. *)
Own(x, at) ==
  IF x.aty = "BINARY"
  THEN {(at + Len(Printed(x))) - 1} \cup (IF at = 0 THEN 1..3 ELSE {}) ELSE {}
Cell(f, u, v, at) ==
  IF f = << >> THEN {}
  ELSE Own(f[1], at) \cup u[at + 1] \cup v[(at + Len(Printed(f[1]))) + 1]
EdgesSolved(r) ==
  r = [f \in Seq(Tree) |->
         [at \in Nat |->
            IF f = << >> THEN {}
            ELSE LET x == f[1]
                     end == at + Len(Printed(x))
                 IN  (IF x.aty = "BINARY" THEN {end - 1} \cup (IF at = 0 THEN 1..3 ELSE {})
                      ELSE {})
                     \cup r[x.kids][at + 1] \cup r[Tail(f)][end + 1]]]

LEMMA PrintedLength == \A f \in Seq(Tree) : f # << >> => Len(Printed(f[1])) \in Nat
  BY ForestParts, PrintedIs

LEMMA EdgesIs ==
  \A f \in Seq(Tree) :
    /\ Edges[f] \in [Nat -> SUBSET Int]
    /\ \A at \in Nat : Edges[f][at] = Cell(f, Edges[f[1].kids], Edges[Tail(f)], at)
<1> DEFINE T == [Nat -> SUBSET Int]
           z == [f \in Seq(Tree) |-> [at \in Nat |-> {}]]
           e == [f \in Seq(Tree) |-> [u \in T |-> [v \in T |->
                   [at \in Nat |-> Cell(f, u, v, at)]]]]
<1>1. ASSUME NEW f \in Seq(Tree), NEW u \in T, NEW v \in T, NEW at \in Nat
      PROVE  Cell(f, u, v, at) \in SUBSET Int
  <2>1. CASE f = << >>
    BY <2>1 DEF Cell
  <2>2. CASE f # << >>
    <3> DEFINE end == at + Len(Printed(f[1]))
    <3>1. Len(Printed(f[1])) \in Nat
      BY <2>2, PrintedLength
    <3>2. end \in Nat /\ end + 1 \in Nat /\ end - 1 \in Int /\ at + 1 \in Nat
      BY <3>1
    <3> HIDE DEF end
    <3>3. u[at + 1] \in SUBSET Int /\ v[end + 1] \in SUBSET Int
      BY <3>2
    <3>4. Own(f[1], at) \in SUBSET Int
      <4>1. 1..3 \in SUBSET Int /\ {end - 1} \in SUBSET Int
        BY <3>2
      <4> QED
        BY <4>1 DEF Own, end
    <3>5. Cell(f, u, v, at) = Own(f[1], at) \cup u[at + 1] \cup v[end + 1]
      BY <2>2 DEF Cell, end
    <3> QED
      BY <3>3, <3>4, <3>5
  <2> QED
    BY <2>1, <2>2
<1>2. Recipe(Seq(Tree), T, z, e)
  <2>1. ASSUME NEW f \in Seq(Tree), NEW u \in T, NEW v \in T
        PROVE  [at \in Nat |-> Cell(f, u, v, at)] \in T
    BY <1>1
  <2>2. [at \in Nat |-> {}] \in T
    OBVIOUS
  <2> HIDE DEF T
  <2> QED
    BY <2>1, <2>2 DEF Recipe
<1>3. PICK g : ForestSolution(T, z, e, g)
  <2> HIDE DEF T, z, e
  <2> QED
    BY <1>2, ForestSolved, Zenon
<1>4. EdgesSolved(g)
  <2>0. g \in [Seq(Tree) -> T]
    BY <1>3 DEF ForestSolution
  <2>1. ASSUME NEW f \in Seq(Tree)
        PROVE  g[f] = [at \in Nat |-> Cell(f, g[f[1].kids], g[Tail(f)], at)]
    <3>1. CASE f = << >>
      <4>1. g[f] = [at \in Nat |-> {}]
        BY <1>3, <3>1 DEF ForestSolution
      <4> QED
        BY <3>1, <4>1 DEF Cell
    <3>2. CASE f # << >>
      <4>1. g[f[1].kids] \in T /\ g[Tail(f)] \in T
        BY <2>0, <3>2, ForestParts
      <4>2. g[f] = e[f][g[f[1].kids]][g[Tail(f)]]
        BY <1>3, <3>2 DEF ForestSolution
      <4> HIDE DEF T
      <4> QED
        BY <4>1, <4>2
    <3> QED
      BY <3>1, <3>2
  <2>2. g = [f \in Seq(Tree) |-> g[f]]
    BY <2>0
  <2>3. g = [f \in Seq(Tree) |-> [at \in Nat |-> Cell(f, g[f[1].kids], g[Tail(f)], at)]]
    BY <2>1, <2>2
  <2> QED
    BY <2>3, Zenon DEF EdgesSolved, Cell, Own
<1>5. EdgesSolved(CHOOSE r : EdgesSolved(r))
  BY <1>4
<1>6. Edges = CHOOSE r : EdgesSolved(r)
  BY DEF Edges, EdgesSolved
<1>7. EdgesSolved(Edges)
  BY <1>5, <1>6
<1>8. Edges = [f \in Seq(Tree) |-> [at \in Nat |-> Cell(f, Edges[f[1].kids], Edges[Tail(f)], at)]]
  BY <1>7, Zenon DEF EdgesSolved, Cell, Own
<1>9. \A f \in Seq(Tree) : Edges[f] = [at \in Nat |-> Cell(f, Edges[f[1].kids], Edges[Tail(f)], at)]
  BY <1>8
<1>10. \A f \in Seq(Tree) : Edges[f] \in T
  <2> DEFINE P == {f \in Seq(Tree) : Edges[f] \notin T}
  <2> SUFFICES ASSUME P # {} PROVE FALSE
    OBVIOUS
  <2>1. P \in SUBSET Seq(Tree)
    OBVIOUS
  <2> HIDE DEF P
  <2>2. PICK f \in P : f # << >> => f[1].kids \notin P /\ Tail(f) \notin P
    BY <2>1, LeastForest
  <2>3. f \in Seq(Tree) /\ Edges[f] \notin T
    BY <2>2 DEF P
  <2>4. CASE f = << >>
    <3>1. Edges[f] = [at \in Nat |-> {}]
      BY <1>9, <2>3, <2>4 DEF Cell
    <3> QED
      BY <2>3, <3>1
  <2>5. CASE f # << >>
    <3>1. Edges[f[1].kids] \in T /\ Edges[Tail(f)] \in T
      BY <2>2, <2>3, <2>5, ForestParts DEF P
    <3>2. \A at \in Nat : Cell(f, Edges[f[1].kids], Edges[Tail(f)], at) \in SUBSET Int
      BY <1>1, <2>3, <3>1
    <3> QED
      BY <1>9, <2>3, <3>2
  <2> QED
    BY <2>4, <2>5
<1> QED
  BY <1>9, <1>10

(* Where the text of f starts if u follows it, and that its sizes are among *)
(* those of the expression.                                                 *)
Start(f, u) == Len(Joined[job.sx]) - Len(Joined[f]) - Len(u)
Safe(f, u) == Start(f, u) \in Nat /\ Edges[f][Start(f, u)] \subseteq Edges[job.sx][0]
Levels(s, k, R) ==
  /\ \A i \in 1..(Len(s) - 1) : Safe(Tail(s[i]), R[i])
  /\ Safe(IF k = 0 THEN s[Len(s)] ELSE Tail(s[Len(s)]), R[Len(s)])

LEMMA CatThree ==
  \A u, v, w \in Seq(Char) : Len(Cat(Cat(u, v), w)) = Len(u) + Len(v) + Len(w)
  BY ThreeJoin DEF Cat

LEMMA SafeParts ==
  ASSUME job \in Jobs, NEW f \in Seq(Tree), f # << >>, NEW u \in Seq(Char), Safe(f, u)
  PROVE  /\ Own(f[1], Start(f, u)) \subseteq Edges[job.sx][0]
         /\ Safe(Tail(f), u)
         /\ f[1].ty = "LIST" => Safe(f[1].kids, Due(f, u))
<1> DEFINE N == Len(Joined[job.sx])
           G == Edges[job.sx][0]
           x == f[1]
           at == Start(f, u)
           p == Len(Printed(x))
           q == Len(Blank(Tail(f)))
           j == Len(Joined[Tail(f)])
           l == Len(u)
<1>1. /\ x \in Tree /\ Tail(f) \in Seq(Tree) /\ x.kids \in Seq(Tree) /\ job.sx \in Seq(Tree)
  BY ForestParts, JobsAssumption
<1>2. /\ RestText(f) \in Seq(Char) /\ Joined[f] = Printed(x) \o RestText(f)
      /\ Printed(x) \in Seq(Char) /\ Blank(Tail(f)) \in Seq(Char) /\ Joined[Tail(f)] \in Seq(Char)
      /\ RestText(f) = Blank(Tail(f)) \o Joined[Tail(f)]
  BY RestTextIs DEF RestText
<1>3. Len(RestText(f)) = q + j
  BY <1>2, Joins, Zenon
<1>4. Len(Joined[f]) = p + Len(RestText(f))
  BY <1>2, Joins, Zenon
<1>5. N \in Nat /\ p \in Nat /\ q \in Nat /\ j \in Nat /\ l \in Nat
  BY <1>1, <1>2, JoinedIs
<1>6. at \in Nat /\ Edges[f][at] \subseteq G
  BY DEF Safe
<1>7. at = N - (p + (q + j)) - l
  BY <1>3, <1>4 DEF Start
<1>8. Edges[f][at] = Own(x, at) \cup Edges[x.kids][at + 1] \cup Edges[Tail(f)][(at + p) + 1]
  BY <1>6, EdgesIs DEF Cell
<1>9. Start(Tail(f), u) = N - j - l
  BY DEF Start
<1>10. (Tail(f) = << >> => q = 0) /\ (Tail(f) # << >> => q = 1)
  BY DEF Blank
<1> HIDE DEF N, G, at, p, q, j, l, x
<1>11. Safe(Tail(f), u)
  <2>1. CASE Tail(f) = << >>
    <3>1. Start(Tail(f), u) \in Nat
      BY <1>5, <1>6, <1>7, <1>9, <1>10, <2>1
    <3>2. Edges[Tail(f)][Start(Tail(f), u)] = {}
      BY <1>1, <2>1, <3>1, EdgesIs DEF Cell
    <3> QED
      BY <3>1, <3>2 DEF Safe
  <2>2. CASE Tail(f) # << >>
    <3>1. Start(Tail(f), u) = (at + p) + 1 /\ Start(Tail(f), u) \in Nat
      BY <1>5, <1>6, <1>7, <1>9, <1>10, <2>2
    <3>2. Edges[Tail(f)][Start(Tail(f), u)] \subseteq G
      BY <1>6, <1>8, <3>1, Zenon
    <3> QED
      BY <3>1, <3>2 DEF Safe, G
  <2> QED
    BY <2>1, <2>2
<1>12. ASSUME x.ty = "LIST" PROVE Safe(x.kids, Due(f, u))
  <2> DEFINE c == <<"lp">>
             e == <<"rp">>
             J == Joined[x.kids]
  <2>1. c \in Seq(Char) /\ e \in Seq(Char) /\ J \in Seq(Char) /\ Len(c) = 1 /\ Len(e) = 1
    BY <1>1, SomeChars, JoinedIs
  <2>2. Printed(x) = Cat(Cat(c, J), e) /\ Due(f, u) = Cat(Cat(e, RestText(f)), u)
    BY <1>12 DEF Printed, Cat, Due
  <2> HIDE DEF c, e, J
  <2>3. Len(Printed(x)) = Len(c) + Len(J) + Len(e)
    <3>1. Len(Cat(Cat(c, J), e)) = Len(c) + Len(J) + Len(e)
      BY <2>1, CatThree
    <3> QED
      BY <2>2, <3>1
  <2>4. Len(Due(f, u)) = Len(e) + Len(RestText(f)) + Len(u)
    <3>1. Len(Cat(Cat(e, RestText(f)), u)) = Len(e) + Len(RestText(f)) + Len(u)
      <4>1. e \in Seq(Char) /\ RestText(f) \in Seq(Char) /\ u \in Seq(Char)
        BY <1>2, <2>1
      <4> QED
        BY <4>1, CatThree, Zenon
    <3> QED
      BY <2>2, <3>1
  <2>5. p = 1 + Len(J) + 1 /\ Len(Due(f, u)) = 1 + (q + j) + l /\ Len(J) \in Nat
    BY <1>3, <2>1, <2>3, <2>4 DEF p, l
  <2>6. Start(x.kids, Due(f, u)) = N - Len(J) - Len(Due(f, u))
    BY DEF Start, N, J
  <2>7. Start(x.kids, Due(f, u)) = at + 1 /\ Start(x.kids, Due(f, u)) \in Nat
    BY <1>5, <1>6, <1>7, <2>5, <2>6
  <2>8. Edges[x.kids][Start(x.kids, Due(f, u))] \subseteq G
    BY <1>6, <1>8, <2>7, Zenon
  <2> QED
    BY <2>7, <2>8 DEF Safe, G
<1>13. Own(x, at) \subseteq G
  BY <1>6, <1>8, Zenon
<1> QED
  BY <1>11, <1>12, <1>13 DEF x, at, G

(* The stack determines what it owes. *)
LEMMA OwedOnce ==
  ASSUME NEW s \in Seq(Seq(Tree)), NEW R, NEW Q, Owed(s, R), Owed(s, Q)
  PROVE  \A i \in 1..Len(s) : R[i] = Q[i]
<1> DEFINE P == {i \in 1..Len(s) : R[i] # Q[i]}
<1> SUFFICES ASSUME P # {} PROVE FALSE
  OBVIOUS
<1>1. P \in SUBSET Nat
  OBVIOUS
<1>2. PICK i \in P : \A j \in P : i <= j
  BY <1>1, LeastNumber
<1>3. i \in 1..Len(s) /\ R[i] # Q[i] /\ Len(s) \in Nat
  BY <1>2
<1>4. i # 1
  BY <1>3 DEF Owed
<1>5. i - 1 \in 1..(Len(s) - 1) /\ i - 1 \in 1..Len(s) /\ (i - 1) + 1 = i /\ ~(i <= i - 1)
  BY <1>3, <1>4
<1>6. R[i - 1] = Q[i - 1]
  BY <1>2, <1>5
<1>7. R[i] = Due(s[i - 1], R[i - 1]) /\ Q[i] = Due(s[i - 1], Q[i - 1])
  BY <1>5 DEF Owed
<1> QED
  BY <1>3, <1>6, <1>7

LEMMA StayLevels ==
  ASSUME PrinterInv, Walking, stack # << >>, Top # << >>, NEW R, Owed(stack, R),
         Levels(stack, tc, R)
  PROVE  /\ \A k : k # 0 => Levels(stack, k, R)
         /\ Owed(Advance(stack), R) /\ Levels(Advance(stack), 0, R)
<1> DEFINE n == Len(stack)
           a == Advance(stack)
<1>1. stack \in Seq(Seq(Tree)) /\ job \in Jobs
  BY DEF PrinterInv, Shape
<1>2. n \in Nat /\ n \in 1..n
  <2>1. n \in Nat /\ n # 0
    BY <1>1, EmptySeq
  <2> QED
    BY <2>1
<1>3. Top = stack[n] /\ Top \in Seq(Tree) /\ R[n] \in Seq(Char)
  BY <1>1, <1>2 DEF Top, Owed
<1>4. Safe(Tail(Top), R[n])
  <2>1. CASE tc = 0
    <3>1. Safe(Top, R[n])
      BY <1>3, <2>1 DEF Levels
    <3> QED
      BY <1>1, <1>3, <3>1, SafeParts
  <2>2. CASE tc # 0
    BY <1>3, <2>2 DEF Levels
  <2> QED
    BY <2>1, <2>2
<1>5. \A i \in 1..(n - 1) : Safe(Tail(stack[i]), R[i])
  BY DEF Levels
<1>6. ASSUME NEW k, k # 0 PROVE Levels(stack, k, R)
  BY <1>3, <1>4, <1>5, <1>6 DEF Levels
<1>7. Owed(a, R) /\ Len(a) = n /\ a[n] = Tail(Top)
  BY <1>1, <1>3, OwedAdvance
<1>8. \A i \in 1..(n - 1) : a[i] = stack[i]
  <2>1. stack = [i \in 1..n |-> stack[i]]
    BY <1>1
  <2>2. a = [stack EXCEPT ![n] = Tail(stack[n])]
    BY DEF Advance
  <2>3. a = [i \in 1..n |-> IF i = n THEN Tail(stack[n]) ELSE stack[i]]
    BY <2>1, <2>2
  <2> HIDE DEF a
  <2> QED
    BY <1>2, <2>3
<1> HIDE DEF a
<1>9. Levels(a, 0, R)
  BY <1>4, <1>5, <1>7, <1>8 DEF Levels
<1> QED
  BY <1>6, <1>7, <1>9 DEF a

LEMMA OpenLevels ==
  ASSUME PrinterInv, Walking, At("LIST"), tc = 0, NEW R, Owed(stack, R), Levels(stack, tc, R)
  PROVE  \E Q : Owed(Opened, Q) /\ Levels(Opened, 0, Q)
<1> DEFINE n == Len(stack)
           q == Opened
           kids == Top[1].kids
<1>1. stack \in Seq(Seq(Tree)) /\ job \in Jobs /\ Shape(stack, depth)
  BY DEF PrinterInv, Shape
<1>2. stack # << >> /\ Top # << >> /\ Top = stack[n] /\ kids \in Seq(Tree) /\ Top[1].ty = "LIST"
  BY <1>1, AtHand DEF At
<1>3. n \in Nat /\ n \in 1..n
  <2>1. n \in Nat /\ n # 0
    BY <1>1, <1>2, EmptySeq
  <2> QED
    BY <2>1
<1>4. Top \in Seq(Tree) /\ R[n] \in Seq(Char)
  BY <1>1, <1>2, <1>3 DEF Owed
<1>5. Safe(Top, R[n]) /\ \A i \in 1..(n - 1) : Safe(Tail(stack[i]), R[i])
  BY <1>2 DEF Levels
<1>6. Safe(Tail(Top), R[n]) /\ Safe(kids, Due(Top, R[n]))
  BY <1>1, <1>2, <1>4, <1>5, SafeParts
<1>7. PICK Q : /\ Owed(q, Q) /\ Q[n + 1] = Due(Top, R[n])
               /\ \A i \in 1..n : Q[i] = R[i]
  BY <1>1, <1>2, OpenedOwes
<1>8. Len(q) = n + 1 /\ q[n + 1] = kids /\ \A i \in 1..n : q[i] = stack[i]
  BY <1>1, <1>2, OpenedOwes
<1> HIDE DEF q, kids
<1>9. \A i \in 1..n : Safe(Tail(q[i]), Q[i])
  <2>1. \A i \in 1..n : i \in 1..(n - 1) \/ i = n
    BY <1>3
  <2> QED
    BY <1>2, <1>5, <1>6, <1>7, <1>8, <2>1
<1>10. Len(q) - 1 = n
  BY <1>3, <1>8
<1>11. Levels(q, 0, Q)
  BY <1>6, <1>7, <1>8, <1>9, <1>10 DEF Levels
<1> QED
  BY <1>7, <1>11 DEF q

LEMMA CloseLevels ==
  ASSUME PrinterInv, Walking, stack # << >>, NEW R, Owed(stack, R), Levels(stack, tc, R)
  PROVE  \/ Closed.stack = << >>
         \/ \E Q : Owed(Closed.stack, Q) /\ Levels(Closed.stack, 0, Q)
<1> DEFINE n == Len(stack)
           p == Below
           a == Advance(Below)
<1>1. stack \in Seq(Seq(Tree)) /\ depth \in Nat /\ n = depth + 1
  BY DEF PrinterInv, Shape
<1>2. CASE Below = << >>
  BY <1>2 DEF Closed
<1>3. CASE Below # << >>
  <2>1. Closed.stack = a
    BY <1>3 DEF Closed
  <2>2. depth # 0
    <3>1. ASSUME depth = 0 PROVE Below = << >>
      BY <1>1, <3>1, SubSeqEmpty DEF Below
    <3> QED
      BY <1>3, <3>1
  <2>3. n \in Nat /\ n >= 2
    BY <1>1, <2>2
  <2>4. /\ p \in Seq(Seq(Tree)) /\ Len(p) = n - 1 /\ p # << >>
        /\ p[n - 1] = stack[n - 1] /\ n - 1 \in 1..(n - 1)
    BY <1>1, <2>3, BelowOwes
  <2>5. PICK Q : Owed(p, Q) /\ \A i \in 1..(n - 1) : Q[i] = R[i]
    BY <1>1, <2>3, BelowOwes
  <2>6. \A i \in 1..(n - 1) : p[i] = stack[i]
    <3>1. \A i \in 1..(n - 1) : i \in 1..Len(stack) /\ stack[i] \in Seq(Tree)
      BY <1>1, <2>3
    <3>2. 1 \in Int /\ n - 1 \in Int /\ \A i \in 1..(n - 1) : i \in 1..((n - 1) - 1 + 1) /\ 1 + i - 1 = i
      BY <2>3
    <3>3. p = SubSeq(stack, 1, n - 1)
      BY DEF Below
    <3>4. \A i \in 1..((n - 1) - 1 + 1) : SubSeq(stack, 1, n - 1)[i] = stack[1 + i - 1]
      BY <3>1, <3>2, SubSeqProperties
    <3> QED
      BY <3>2, <3>3, <3>4
  <2>7. Owed(a, Q) /\ Len(a) = n - 1 /\ a[n - 1] = Tail(p[n - 1])
    BY <2>4, <2>5, OwedAdvance
  <2>8. \A i \in 1..((n - 1) - 1) : a[i] = p[i]
    <3>1. p = [i \in 1..(n - 1) |-> p[i]]
      BY <2>4
    <3>2. a = [p EXCEPT ![n - 1] = Tail(p[n - 1])]
      BY <2>4 DEF Advance
    <3> HIDE DEF p
    <3>3. a = [i \in 1..(n - 1) |-> IF i = n - 1 THEN Tail(p[n - 1]) ELSE p[i]]
      BY <3>1, <3>2
    <3> HIDE DEF a
    <3> QED
      BY <2>3, <3>3
  <2> HIDE DEF a, p
  <2>9. \A i \in 1..(n - 1) : Safe(Tail(stack[i]), R[i])
    BY DEF Levels
  <2>10. \A i \in 1..((n - 1) - 1) : i \in 1..(n - 1)
    BY <2>3
  <2>11. \A i \in 1..((n - 1) - 1) : Safe(Tail(a[i]), Q[i])
    BY <2>5, <2>6, <2>8, <2>9, <2>10
  <2>12. Safe(a[n - 1], Q[n - 1])
    BY <2>4, <2>5, <2>7, <2>9
  <2>13. Levels(a, 0, Q)
    BY <2>7, <2>11, <2>12 DEF Levels
  <2> QED
    BY <2>1, <2>7, <2>13
<1> QED
  BY <1>2, <1>3
-----------------------------------------------------------------------------
EdgeInv ==
  /\ pc = "print" => stack = << >> \/ \E R : Owed(stack, R) /\ Levels(stack, tc, R)
  /\ OutsideOnlyAtEdges

LEMMA AddEdges ==
  ASSUME PrinterInv, pc = "print", NEW w, NEW n, Counted(w, n), NEW cs \in Seq(Char),
         NEW s, NEW d, Shape(s, d), NEW k, Add(w, n, cs, s, d, k),
         s = << >> \/ \E R : Owed(s, R) /\ Levels(s, k, R)
  PROVE  EdgeInv'
<1>1. pc' # "undefined"
  BY AddKeeps
<1>2. OutsideOnlyAtEdges'
  BY <1>1 DEF OutsideOnlyAtEdges
<1>3. \/ pc' = "done"
      \/ job' = job /\ stack' = s /\ tc' = k
  BY <1>1 DEF Add, OutOfSpace
<1>4. CASE pc' = "done"
  BY <1>2, <1>4 DEF EdgeInv
<1>5. CASE job' = job /\ stack' = s /\ tc' = k
  <2>1. CASE s = << >>
    BY <1>2, <1>5, <2>1 DEF EdgeInv
  <2>2. ASSUME NEW R, Owed(s, R), Levels(s, k, R)
        PROVE  EdgeInv'
    <3>1. job' = job
      BY <1>5
    <3>2. \A i, f : Safe(f, i)' <=> Safe(f, i)
      BY <3>1 DEF Safe, Start
    <3>3. Owed(stack', R) /\ Levels(stack, tc, R)'
      BY <1>5, <2>2, <3>2 DEF Levels
    <3> QED
      BY <1>2, <3>3 DEF EdgeInv
  <2> QED
    BY <2>1, <2>2
<1> QED
  BY <1>3, <1>4, <1>5

(* A binary atom: the two places where print_sexp leaves the buffer. *)
LEMMA BinaryEdges ==
  ASSUME PrinterInv, TextInv, EdgeInv, PrintBinary
  PROVE  EdgeInv'
<1> DEFINE n == Len(stack)
           x == Top[1]
           v == Top[1].val
           room == left - 3 - Len(Size)
           head == b \o Prefix \o Size \o v
           cs == <<"sp">> \o Blank(Tail(Top))
<1>1. pc = "print" /\ Counted(b, left) /\ Shape(stack, depth) /\ Bytes /\ Walking /\ job \in Jobs
  BY DEF PrintBinary, PrinterInv, Walking
<1>2. PICK r \in Seq(Char) : Remains(stack, tc, r) /\ b \o r = Joined[job.sx]
  BY <1>1 DEF TextInv
<1>3. /\ stack # << >> /\ Top # << >> /\ x \in Tree /\ x.aty = "BINARY" /\ x.ty = "VALUE"
  BY <1>1, AtHand DEF Bytes, At
<1>4. /\ stack \in Seq(Seq(Tree)) /\ Top \in Seq(Tree) /\ Top = stack[n] /\ n \in 1..n
      /\ Within(Top, tc)
  BY <1>1, <1>2, <1>3, Facing
<1>5. tc = 0
  BY <1>3, <1>4 DEF Within
<1>6. PICK R : Owed(stack, R) /\ Levels(stack, tc, R)
  BY <1>1, <1>3 DEF EdgeInv
<1>7. PICK Q : Owed(stack, Q) /\ r = Now(Top, tc) \o Q[n]
  BY <1>1, <1>2, <1>3, Facing
<1>8. Q[n] = R[n] /\ R[n] \in Seq(Char)
  <2>1. R[n] \in Seq(Char)
    BY <1>4, <1>6 DEF Owed
  <2>2. \A i \in 1..n : Q[i] = R[i]
    BY <1>4, <1>6, <1>7, OwedOnce, Zenon
  <2> QED
    BY <1>4, <2>1, <2>2
<1>9. Safe(Top, R[n])
  BY <1>4, <1>5, <1>6 DEF Levels
<1>10. /\ Prefix \in Seq(Char) /\ Len(Prefix) = 3 /\ Size \in Seq(Char) /\ v \in Seq(Char)
       /\ cs \in Seq(Char)
  BY <1>1, <1>2, BinarySteps
<1>11. b \in Seq(Char) /\ left \in Nat /\ left >= 1 /\ Len(b) + left = job.size
  BY <1>1 DEF Counted
<1>12. Start(Top, R[n]) = Len(b) /\ Len(b) \in Nat
  <2> DEFINE J == Joined[Top]
             u == R[n]
  <2>1. J \in Seq(Char) /\ Now(Top, tc) = J
    BY <1>4, <1>5, JoinedIs DEF Now
  <2>2. r = J \o u
    BY <1>7, <1>8, <2>1
  <2>3. Len(Joined[job.sx]) = Len(b) + Len(r)
    BY <1>2, <1>11, Joins
  <2> HIDE DEF J, u
  <2>4. Len(r) = Len(J) + Len(u)
    BY <1>8, <2>1, <2>2, Joins DEF u
  <2>5. Len(J) \in Nat /\ Len(u) \in Nat /\ Len(b) \in Nat
    BY <1>8, <1>11, <2>1 DEF u
  <2>6. Start(Top, R[n]) = Len(Joined[job.sx]) - Len(J) - Len(u)
    BY DEF Start, J, u
  <2> QED
    BY <2>3, <2>4, <2>5, <2>6
<1>13. Own(x, Len(b)) \subseteq Edges[job.sx][0]
  BY <1>1, <1>3, <1>4, <1>8, <1>9, <1>12, SafeParts
<1>14. Len(Printed(x)) = (3 + Len(Size)) + Len(v) + 1 /\ Len(Size) \in Nat /\ Len(v) \in Nat
  <2> DEFINE d == Decimal(Len(v))
             h == <<"hash">>
             e == <<"sp">>
             P == Prefix
             S == Size
             y == v
  <2>1. d \in Seq(Char) /\ h \in Seq(Char) /\ e \in Seq(Char) /\ Len(e) = 1 /\ S = Cat(d, h)
    BY <1>3, CharAssumption, SomeChars DEF Size, Cat
  <2>2. Printed(x) = Cat(Cat(Cat(Cat(P, d), h), y), e)
    BY <1>3 DEF Printed, AtomText, Prefix, Cat
  <2>3. P \in Seq(Char) /\ Len(P) = 3 /\ S \in Seq(Char) /\ y \in Seq(Char)
    BY <1>10
  <2> HIDE DEF d, h, e, P, S, y
  <2>4. Cat(Cat(P, d), h) = Cat(P, S)
    BY <2>1, <2>3, CatAssoc
  <2>5. Cat(P, S) \in Seq(Char) /\ Len(Cat(P, S)) = Len(P) + Len(S)
    BY <2>3, Joins DEF Cat
  <2>6. Len(Cat(Cat(Cat(P, S), y), e)) = Len(Cat(P, S)) + Len(y) + Len(e)
    <3>1. Cat(P, S) \in Seq(Char) /\ y \in Seq(Char) /\ e \in Seq(Char)
      BY <2>1, <2>3, <2>5
    <3> QED
      BY <3>1, CatThree, Zenon
  <2>7. Len(S) \in Nat /\ Len(y) \in Nat
    BY <2>3
  <2>8. Len(Printed(x)) = (3 + Len(S)) + Len(y) + 1
    BY <2>1, <2>2, <2>3, <2>4, <2>5, <2>6, <2>7, Zenon
  <2> QED
    BY <2>7, <2>8 DEF S, y
<1>15. \/ left <= 3 /\ OutOfSpace(b)
       \/ OutOfSpace(b \o Prefix)
       \/ OutOfSpace(b \o Prefix \o Size)
       \/ ~(room <= 0) /\ Len(v) <= room /\ room <= Len(v) /\ Overrun
       \/ ~(room <= Len(v)) /\ Add(head, room - Len(v), cs, Advance(stack), depth, 0)
  BY DEF PrintBinary, Fits
<1>16. Len(b \o Prefix) = Len(b) + 3 /\ b \o Prefix \in Seq(Char)
  <2>1. Len(b \o Prefix) = Len(b) + Len(Prefix) /\ b \o Prefix \in Seq(Char)
    BY <1>10, <1>11, Joins
  <2> QED
    BY <1>10, <2>1
<1>17. ASSUME NEW w \in Seq(Char), Len(w) >= 1, OutOfSpace(w) PROVE EdgeInv'
  <2>1. w # << >>
    BY <1>17
  <2>2. pc' = "done"
    BY <1>17, <2>1 DEF OutOfSpace
  <2> QED
    BY <2>2 DEF EdgeInv, OutsideOnlyAtEdges
<1>18. CASE OutOfSpace(b \o Prefix)
  <2>1. Len(b \o Prefix) >= 1
    BY <1>12, <1>16
  <2> QED
    BY <1>16, <1>17, <1>18, <2>1
<1>19. CASE OutOfSpace(b \o Prefix \o Size)
  <2> DEFINE w == b \o Prefix
  <2>1. Len(w \o Size) = Len(w) + Len(Size) /\ w \o Size \in Seq(Char)
    <3> HIDE DEF w
    <3>1. w \in Seq(Char)
      BY <1>16 DEF w
    <3> QED
      BY <1>10, <3>1, Joins
  <2>2. Len(w) = Len(b) + 3
    BY <1>16
  <2>3. Len(w \o Size) >= 1
    <3> HIDE DEF w
    <3> QED
      BY <1>12, <1>14, <2>1, <2>2
  <2> QED
    BY <1>17, <1>19, <2>1, <2>3
<1>20. CASE left <= 3 /\ OutOfSpace(b)
  <2>1. CASE b = << >>
    <3>1. Len(b) = 0 /\ left \in 1..3 /\ job.size = left
      BY <1>11, <1>20, <2>1
    <3>2. job.size \in Own(x, Len(b))
      BY <1>3, <3>1 DEF Own
    <3>3. job' = job /\ pc' = "undefined"
      BY <1>20, <2>1 DEF OutOfSpace
    <3> QED
      BY <1>13, <3>2, <3>3 DEF EdgeInv, OutsideOnlyAtEdges
  <2>2. CASE b # << >>
    <3>1. pc' = "done"
      BY <1>20, <2>2 DEF OutOfSpace
    <3> QED
      BY <3>1 DEF EdgeInv, OutsideOnlyAtEdges
  <2> QED
    BY <2>1, <2>2
<1>21. CASE ~(room <= 0) /\ Len(v) <= room /\ room <= Len(v) /\ Overrun
  <2>1. job.size = (Len(b) + Len(Printed(x))) - 1
    <3> DEFINE l == Len(b)
               z == Len(Size)
               m == Len(v)
               p == Len(Printed(x))
    <3>1. /\ m <= left - 3 - z /\ left - 3 - z <= m /\ p = (3 + z) + m + 1
          /\ l \in Nat /\ z \in Nat /\ m \in Nat /\ left \in Nat /\ l + left = job.size
      BY <1>11, <1>12, <1>14, <1>21, Zenon
    <3> HIDE DEF l, z, m, p
    <3>2. job.size = (l + p) - 1
      BY <3>1
    <3> QED
      BY <3>2 DEF l, p
  <2>2. job.size \in Own(x, Len(b))
    BY <1>3, <2>1 DEF Own
  <2>3. job' = job /\ pc' = "undefined"
    BY <1>21 DEF Overrun
  <2> QED
    BY <1>13, <2>2, <2>3 DEF EdgeInv, OutsideOnlyAtEdges
<1>22. CASE ~(room <= Len(v)) /\ Add(head, room - Len(v), cs, Advance(stack), depth, 0)
  <2>1. Counted(head, room - Len(v))
    <3> DEFINE p == b \o Prefix
               q == p \o Size
               y == v
    <3>1. p \in Seq(Char) /\ Len(p) = Len(b) + 3
      BY <1>16
    <3>2. head = q \o y /\ y \in Seq(Char)
      BY <1>10
    <3> HIDE DEF p, y, head
    <3>3. q \in Seq(Char) /\ Len(q) = Len(p) + Len(Size)
      BY <1>10, <3>1, Joins
    <3> HIDE DEF q
    <3>4. head \in Seq(Char) /\ Len(head) = Len(q) + Len(y)
      BY <3>2, <3>3, Joins
    <3>5. Len(y) = Len(v)
      BY DEF y
    <3>6. /\ room - Len(v) \in Nat /\ room - Len(v) >= 1
          /\ Len(head) + (room - Len(v)) = job.size
      <4> DEFINE l == Len(b)
                 z == Len(Size)
                 m == Len(v)
                 h == Len(head)
                 k == room
      <4>1. /\ ~(k <= m) /\ k = left - 3 - z /\ h = Len(q) + m /\ Len(q) = Len(p) + z
            /\ Len(p) = l + 3
            /\ l \in Nat /\ z \in Nat /\ m \in Nat /\ left \in Nat /\ l + left = job.size
        BY <1>11, <1>12, <1>14, <1>22, <3>1, <3>3, <3>4, <3>5, Zenon
      <4> HIDE DEF l, z, m, h, k
      <4>2. k - m \in Nat /\ k - m >= 1 /\ h + (k - m) = job.size
        BY <4>1
      <4> QED
        BY <4>2 DEF m, h, k
    <3> QED
      BY <3>4, <3>6 DEF Counted
  <2>2. Owed(Advance(stack), R) /\ Levels(Advance(stack), 0, R)
    BY <1>1, <1>3, <1>6, StayLevels
  <2>3. Shape(Advance(stack), depth)
    BY <1>1, <1>3, <1>4, AdvanceShape
  <2> HIDE DEF head, room, cs, v
  <2> QED
    BY <1>1, <1>10, <1>22, <2>1, <2>2, <2>3, AddEdges
<1> QED
  BY <1>15, <1>18, <1>19, <1>20, <1>21, <1>22

LEMMA EdgeNext == PrinterInv /\ TextInv /\ EdgeInv /\ [Next]_vars => EdgeInv'
<1>1. ASSUME EdgeInv, UNCHANGED vars
      PROVE  EdgeInv'
  BY <1>1 DEF vars, EdgeInv, OutsideOnlyAtEdges, Levels, Safe, Start
<1>2. ASSUME PrinterInv, TextInv, EdgeInv, Next
      PROVE  EdgeInv'
  <2>1. job \in Jobs /\ (Walking => Shape(stack, depth))
    BY <1>2 DEF PrinterInv
  <2>2. CASE PrintBinary
    BY <1>2, <2>2, BinaryEdges
  <2>3. CASE ~PrintBinary /\ pc' # "print"
    <3>1. pc' = "undefined" => job' = job /\ job.sx = << >> /\ job.size = 0
      BY <1>2, <2>3, StepKeeps
    <3> QED
      BY <2>3, <3>1 DEF EdgeInv, OutsideOnlyAtEdges
  <2>4. CASE print_sexp /\ pc' = "print"
    <3>1. /\ job' = job /\ tc' = 0 /\ stack' = <<job.sx>>
      BY <1>2, <2>4 DEF print_sexp, CannotStart, PrinterInv
    <3> DEFINE s == <<job.sx>>
               R == <<<< >>>>
    <3>2. Len(s) = 1 /\ s[1] = job.sx /\ R \in Seq(Seq(Char)) /\ Len(R) = 1 /\ R[1] = << >>
      OBVIOUS
    <3>3. stack' = s
      BY <3>1
    <3> HIDE DEF s, R
    <3>4. \A i \in 1..(Len(s) - 1) : FALSE
      BY <3>2
    <3>5. Owed(s, R)
      BY <3>2, <3>4 DEF Owed
    <3>6. Start(job.sx, << >>) = 0
      <4> DEFINE n == Len(Joined[job.sx])
                 m == Len(<< >>)
      <4>1. n \in Nat /\ m = 0 /\ Start(job.sx, << >>) = n - n - m
        BY <2>1, JobsAssumption, JoinedIs DEF Start
      <4> HIDE DEF n, m
      <4> QED
        BY <4>1
    <3>7. Safe(job.sx, << >>)
      BY <3>6 DEF Safe
    <3>8. Safe(job.sx, << >>)'
      BY <3>1, <3>7 DEF Safe, Start
    <3>9. Levels(stack, tc, R)'
      BY <3>1, <3>2, <3>3, <3>4, <3>8 DEF Levels
    <3> QED
      BY <2>4, <3>3, <3>5, <3>9 DEF EdgeInv, OutsideOnlyAtEdges
  <2>5. ASSUME pc = "print", stack # << >>
        PROVE  /\ Walking /\ Counted(b, left)
               /\ \E R : Owed(stack, R) /\ Levels(stack, tc, R)
               /\ Within(Top, tc)
    <3>1. Walking /\ Counted(b, left)
      BY <1>2, <2>5 DEF PrinterInv, Walking
    <3>2. \E r : Remains(stack, tc, r)
      BY <1>2, <2>5 DEF TextInv
    <3> QED
      BY <1>2, <2>1, <2>5, <3>1, <3>2, Facing DEF EdgeInv
  <2>6. CASE PrintClose
    <3>1. pc = "print" /\ stack # << >> /\ Add(b, left, Closed.text, Closed.stack, Up, 0)
      BY <2>6 DEF PrintClose
    <3>2. Closed.text \in Seq(Char) /\ Shape(Closed.stack, Up)
      BY <2>1, <2>5, <3>1, ClosedShape
    <3>3. Closed.stack = << >> \/ \E Q : Owed(Closed.stack, Q) /\ Levels(Closed.stack, 0, Q)
      BY <1>2, <2>5, <3>1, CloseLevels
    <3> QED
      BY <1>2, <2>5, <3>1, <3>2, <3>3, AddEdges
  <2>7. CASE PrintList
    <3>1. pc = "print" /\ At("LIST") /\ Add(b, left, <<"lp">>, Opened, depth + 1, 0)
      BY <2>7 DEF PrintList
    <3>2. stack # << >> /\ Top # << >> /\ Top[1].ty = "LIST"
      BY <3>1 DEF At
    <3>3. tc = 0
      BY <2>5, <3>1, <3>2 DEF Within
    <3>4. Shape(Opened, depth + 1)
      BY <2>1, <2>5, <3>1, <3>2, AtHand, OpenShape DEF Opened
    <3>5. \E Q : Owed(Opened, Q) /\ Levels(Opened, 0, Q)
      BY <1>2, <2>5, <3>1, <3>2, <3>3, OpenLevels
    <3> DEFINE cs == <<"lp">>
    <3>6. cs \in Seq(Char)
      BY SomeChars
    <3> HIDE DEF cs
    <3>7. Add(b, left, cs, Opened, depth + 1, 0)
      BY <3>1 DEF cs
    <3> QED
      BY <1>2, <2>5, <3>1, <3>2, <3>4, <3>5, <3>6, <3>7, AddEdges
  <2>8. CASE PrintAtom
    <3>1. pc = "print" /\ Text /\ stack # << >> /\ Top # << >>
      BY <2>8 DEF PrintAtom, Text, At
    <3>2. /\ Opening \in Seq(Char) /\ Ending \in Seq(Char)
          /\ tc \in 1..Len(Top[1].val) => Character \in Seq(Char)
      BY <2>1, <2>5, <3>1, TextWritten
    <3>3. /\ Shape(stack, depth) /\ Shape(Advance(stack), depth)
      BY <2>1, <2>5, <3>1, AtHand, AdvanceShape DEF Text
    <3>4. PICK R : Owed(stack, R) /\ Levels(stack, tc, R)
      BY <2>5, <3>1
    <3>5. /\ \A k : k # 0 => Levels(stack, k, R)
          /\ Owed(Advance(stack), R) /\ Levels(Advance(stack), 0, R)
      BY <1>2, <2>5, <3>1, <3>4, StayLevels
    <3>6. CASE Add(b, left, Opening, stack, depth, 1)
      <4>1. Levels(stack, 1, R)
        BY <3>5
      <4> QED
        BY <1>2, <2>5, <3>1, <3>2, <3>3, <3>4, <3>6, <4>1, AddEdges
    <3>7. CASE tc \in 1..Len(Top[1].val) /\ Add(b, left, Character, stack, depth, tc + 1)
      <4>1. tc + 1 # 0
        BY <3>7
      <4>2. Levels(stack, tc + 1, R)
        BY <3>5, <4>1
      <4> QED
        BY <1>2, <2>5, <3>1, <3>2, <3>3, <3>4, <3>7, <4>2, AddEdges
    <3>8. CASE Add(b, left, Ending, Advance(stack), depth, 0)
      BY <1>2, <2>5, <3>1, <3>2, <3>3, <3>5, <3>8, AddEdges
    <3> QED
      BY <2>8, <3>6, <3>7, <3>8 DEF PrintAtom
  <2>9. pc' = "print" => \/ print_sexp \/ PrintClose \/ PrintAtom \/ PrintBinary \/ PrintList
    BY <1>2 DEF Next, PrintEnd, print_sexp_cstr, CstrClose, CstrAtom, CstrBinary, CstrList,
                CstrEnd, Sadd, CannotStart
  <2> QED
    BY <2>2, <2>3, <2>4, <2>6, <2>7, <2>8, <2>9
<1> QED
  BY <1>1, <1>2

LEMMA EdgeInit == Init => EdgeInv
  BY DEF Init, EdgeInv, OutsideOnlyAtEdges

(* print_sexp writes outside the buffer only at the sizes that the binary   *)
(* atoms of the expression make, where the data of one ends exactly with    *)
(* the buffer, and 1 to 3 when one comes first; and at 0 for NULL.          *)
THEOREM PrinterOutsideOnlyAtEdges == Spec => []OutsideOnlyAtEdges
<1>1. EdgeInv => OutsideOnlyAtEdges
  BY DEF EdgeInv
<1> QED
  BY <1>1, PrinterInit, PrinterNext, TextInit, TextNext, EdgeInit, EdgeNext, PTL DEF Spec
-----------------------------------------------------------------------------
(* A function by recursion over sequences of expressions, and its values. *)
LEMMA ForestGiven ==
  ASSUME NEW T, NEW w \in T, NEW e \in [Seq(Tree) -> [T -> [T -> T]]]
  PROVE  \E g \in [Seq(Tree) -> T] :
           /\ g[<< >>] = w
           /\ \A f \in Seq(Tree) : f # << >> => g[f] = e[f][g[f[1].kids]][g[Tail(f)]]
<1> DEFINE z == [f \in Seq(Tree) |-> w]
<1>1. Recipe(Seq(Tree), T, z, e)
  BY DEF Recipe
<1>2. \A f \in Seq(Tree) : z[f] = w
  OBVIOUS
<1> HIDE DEF z
<1>3. PICK g : ForestSolution(T, z, e, g)
  BY <1>1, ForestSolved, Zenon
<1>4. << >> \in Seq(Tree)
  OBVIOUS
<1>5. g \in [Seq(Tree) -> T]
  BY <1>3 DEF ForestSolution
<1>6. g[<< >>] = w
  BY <1>2, <1>3, <1>4 DEF ForestSolution
<1>7. \A f \in Seq(Tree) : f # << >> => g[f] = e[f][g[f[1].kids]][g[Tail(f)]]
  BY <1>3 DEF ForestSolution
<1> QED
  BY <1>5, <1>6, <1>7

LEMMA ForestTyped ==
  ASSUME NEW T, NEW r,
         \A f \in Seq(Tree) : f = << >> \/ (r[f[1].kids] \in T /\ r[Tail(f)] \in T) => r[f] \in T
  PROVE  \A f \in Seq(Tree) : r[f] \in T
<1> DEFINE P == {f \in Seq(Tree) : r[f] \notin T}
<1> SUFFICES ASSUME P # {} PROVE FALSE
  OBVIOUS
<1>1. P \in SUBSET Seq(Tree)
  OBVIOUS
<1> HIDE DEF P
<1>2. PICK f \in P : f # << >> => f[1].kids \notin P /\ Tail(f) \notin P
  BY <1>1, LeastForest
<1>3. f \in Seq(Tree) /\ r[f] \notin T
  BY <1>2 DEF P
<1>4. ASSUME f # << >> PROVE r[f[1].kids] \in T /\ r[Tail(f)] \in T
  <2>1. f[1].kids \in Seq(Tree) /\ Tail(f) \in Seq(Tree)
    BY <1>3, <1>4, ForestParts
  <2> QED
    BY <1>2, <1>4, <2>1 DEF P
<1> QED
  BY <1>3, <1>4
-----------------------------------------------------------------------------
(* Paths. *)
LEMMA PathSteps ==
  ASSUME NEW p \in Seq(Nat)
  PROVE  /\ Down(p) \in Seq(Nat) /\ Along(p) \in Seq(Nat)
         /\ Down(p) = << >> <=> p = << >>
         /\ Along(p) = << >> <=> p = << >>
         /\ p # << >> => /\ Len(Down(p)) = Len(p) + 1 /\ Down(p)[1] = 1
                         /\ \A i \in 1..Len(p) : Down(p)[i + 1] = p[i]
                         /\ Len(Along(p)) = Len(p) /\ Along(p)[1] = p[1] + 1
                         /\ \A i \in 2..Len(p) : Along(p)[i] = p[i]
<1>1. CASE p = << >>
  BY <1>1 DEF Down, Along, Nowhere
<1>2. CASE p # << >>
  <2> DEFINE d == <<1>> \o p
             a == [p EXCEPT ![1] = @ + 1]
  <2>1. Down(p) = d /\ Along(p) = a
    BY <1>2 DEF Down, Along, Nowhere
  <2>2. Len(p) >= 1 /\ p[1] \in Nat /\ 1 \in 1..Len(p) /\ Len(p) \in Nat
    BY <1>2, EmptySeq
  <2>3. d \in Seq(Nat) /\ Len(d) = Len(p) + 1 /\ d[1] = 1 /\ \A i \in 1..Len(p) : d[i + 1] = p[i]
    <3>1. <<1>> \in Seq(Nat) /\ Len(<<1>>) = 1
      OBVIOUS
    <3> QED
      BY <3>1, ConcatProperties
  <2>4. a \in Seq(Nat) /\ Len(a) = Len(p) /\ a[1] = p[1] + 1 /\ \A i \in 2..Len(p) : a[i] = p[i]
    <3>1. p[1] + 1 \in Nat
      BY <2>2
    <3> QED
      BY <2>2, <3>1, ExceptSeq
  <2> HIDE DEF d, a
  <2>5. d # << >> /\ a # << >>
    BY <2>2, <2>3, <2>4
  <2> QED
    BY <1>2, <2>1, <2>3, <2>4, <2>5
<1> QED
  BY <1>1, <1>2

LEMMA PathOne == <<1>> \in Seq(Nat) /\ Len(<<1>>) = 1 /\ <<1>>[1] = 1 /\ <<1>> # << >>
  OBVIOUS
-----------------------------------------------------------------------------
(* What the functions of sexp_ops.c return, by their recursion. *)
FindStep(f, u, v) ==
  [name \in Seq(Char) |->
     IF f = << >> THEN Nowhere
     ELSE LET temp == Down(u[name])
          IN  IF f[1].ty = "LIST" /\ temp # Nowhere THEN temp
              ELSE IF Matches(f[1], name) THEN <<1>>
              ELSE Along(v[name])]
FindSolved(r) == r = [f \in Seq(Tree) |-> FindStep(f, r[f[1].kids], r[Tail(f)])]

LEMMA FindIs ==
  \A f \in Seq(Tree) : /\ find_sexp[f] \in [Seq(Char) -> Seq(Nat)]
                       /\ find_sexp[f] = FindStep(f, find_sexp[f[1].kids], find_sexp[Tail(f)])
<1> DEFINE T == [Seq(Char) -> Seq(Nat)]
           w == [name \in Seq(Char) |-> Nowhere]
           e == [f \in Seq(Tree) |-> [u \in T |-> [v \in T |-> FindStep(f, u, v)]]]
<1>1. w \in T /\ \A u, v : FindStep(<< >>, u, v) = w
  BY DEF FindStep, Nowhere
<1>2. \A f \in Seq(Tree), u, v \in T : FindStep(f, u, v) \in T
  <2> SUFFICES ASSUME NEW f \in Seq(Tree), NEW u \in T, NEW v \in T, NEW name \in Seq(Char)
               PROVE  FindStep(f, u, v)[name] \in Seq(Nat)
    BY DEF FindStep
  <2>1. Down(u[name]) \in Seq(Nat) /\ Along(v[name]) \in Seq(Nat)
    BY PathSteps
  <2> QED
    BY <2>1 DEF FindStep, Nowhere
<1> HIDE DEF T, w
<1>3. e \in [Seq(Tree) -> [T -> [T -> T]]]
  BY <1>2
<1>4. PICK g \in [Seq(Tree) -> T] :
        /\ g[<< >>] = w
        /\ \A f \in Seq(Tree) : f # << >> => g[f] = e[f][g[f[1].kids]][g[Tail(f)]]
  <2> HIDE DEF e
  <2> QED
    BY <1>1, <1>3, ForestGiven
<1>5. ASSUME NEW f \in Seq(Tree) PROVE g[f] = FindStep(f, g[f[1].kids], g[Tail(f)])
  <2>1. CASE f = << >>
    BY <1>1, <1>4, <2>1
  <2>2. CASE f # << >>
    <3>1. g[f[1].kids] \in T /\ g[Tail(f)] \in T
      BY <1>4, <2>2, ForestParts
    <3> QED
      BY <1>4, <2>2, <3>1
  <2> QED
    BY <2>1, <2>2
<1>6. FindSolved(g)
  <2>1. g = [f \in Seq(Tree) |-> g[f]]
    BY <1>4
  <2> QED
    BY <1>5, <2>1 DEF FindSolved
<1>7. find_sexp = CHOOSE r : FindSolved(r)
  BY DEF find_sexp, FindSolved, FindStep
<1>8. FindSolved(find_sexp)
  BY <1>6, <1>7
<1>9. \A f \in Seq(Tree) : find_sexp[f] = FindStep(f, find_sexp[f[1].kids], find_sexp[Tail(f)])
  BY <1>8, Zenon DEF FindSolved
<1>10. ASSUME NEW f \in Seq(Tree),
              f = << >> \/ (find_sexp[f[1].kids] \in T /\ find_sexp[Tail(f)] \in T)
       PROVE  find_sexp[f] \in T
  BY <1>1, <1>2, <1>9, <1>10
<1>11. \A f \in Seq(Tree) : find_sexp[f] \in T
  BY <1>10, ForestTyped
<1> QED
  BY <1>9, <1>11 DEF T

ValuesStep(f, u, v) ==
  [name \in Seq(Char) |->
     IF f = << >> THEN Nowhere
     ELSE IF Matches(f[1], name) THEN <<1>> ELSE Along(v[name])]
ValuesSolved(r) == r = [f \in Seq(Tree) |-> ValuesStep(f, r[f[1].kids], r[Tail(f)])]

LEMMA ValuesIs ==
  \A f \in Seq(Tree) : /\ InValues[f] \in [Seq(Char) -> Seq(Nat)]
                       /\ InValues[f] = ValuesStep(f, InValues[f[1].kids], InValues[Tail(f)])
<1> DEFINE T == [Seq(Char) -> Seq(Nat)]
           w == [name \in Seq(Char) |-> Nowhere]
           e == [f \in Seq(Tree) |-> [u \in T |-> [v \in T |-> ValuesStep(f, u, v)]]]
<1>1. w \in T /\ \A u, v : ValuesStep(<< >>, u, v) = w
  BY DEF ValuesStep, Nowhere
<1>2. \A f \in Seq(Tree), u, v \in T : ValuesStep(f, u, v) \in T
  <2> SUFFICES ASSUME NEW f \in Seq(Tree), NEW u \in T, NEW v \in T, NEW name \in Seq(Char)
               PROVE  ValuesStep(f, u, v)[name] \in Seq(Nat)
    BY DEF ValuesStep
  <2>1. Along(v[name]) \in Seq(Nat)
    BY PathSteps
  <2> QED
    BY <2>1 DEF ValuesStep, Nowhere
<1> HIDE DEF T, w
<1>3. e \in [Seq(Tree) -> [T -> [T -> T]]]
  BY <1>2
<1>4. PICK g \in [Seq(Tree) -> T] :
        /\ g[<< >>] = w
        /\ \A f \in Seq(Tree) : f # << >> => g[f] = e[f][g[f[1].kids]][g[Tail(f)]]
  <2> HIDE DEF e
  <2> QED
    BY <1>1, <1>3, ForestGiven
<1>5. ASSUME NEW f \in Seq(Tree) PROVE g[f] = ValuesStep(f, g[f[1].kids], g[Tail(f)])
  <2>1. CASE f = << >>
    BY <1>1, <1>4, <2>1
  <2>2. CASE f # << >>
    <3>1. g[f[1].kids] \in T /\ g[Tail(f)] \in T
      BY <1>4, <2>2, ForestParts
    <3> QED
      BY <1>4, <2>2, <3>1
  <2> QED
    BY <2>1, <2>2
<1>6. ValuesSolved(g)
  <2>1. g = [f \in Seq(Tree) |-> g[f]]
    BY <1>4
  <2> QED
    BY <1>5, <2>1 DEF ValuesSolved
<1>7. InValues = CHOOSE r : ValuesSolved(r)
  BY DEF InValues, ValuesSolved, ValuesStep
<1>8. ValuesSolved(InValues)
  BY <1>6, <1>7
<1>9. \A f \in Seq(Tree) : InValues[f] = ValuesStep(f, InValues[f[1].kids], InValues[Tail(f)])
  BY <1>8, Zenon DEF ValuesSolved
<1>10. ASSUME NEW f \in Seq(Tree),
              f = << >> \/ (InValues[f[1].kids] \in T /\ InValues[Tail(f)] \in T)
       PROVE  InValues[f] \in T
  BY <1>1, <1>2, <1>9, <1>10
<1>11. \A f \in Seq(Tree) : InValues[f] \in T
  BY <1>10, ForestTyped
<1> QED
  BY <1>9, <1>11 DEF T

ListsStep(f, u, v) ==
  [name \in Seq(Char) |->
     IF f = << >> THEN Nowhere
     ELSE LET rt == Down(OrElse(InValues[f[1].kids][name], u[name]))
          IN  IF f[1].ty = "LIST" /\ rt # Nowhere THEN rt ELSE Along(v[name])]
ListsSolved(r) == r = [f \in Seq(Tree) |-> ListsStep(f, r[f[1].kids], r[Tail(f)])]

LEMMA ListsIs ==
  \A f \in Seq(Tree) : /\ InLists[f] \in [Seq(Char) -> Seq(Nat)]
                       /\ InLists[f] = ListsStep(f, InLists[f[1].kids], InLists[Tail(f)])
<1> DEFINE T == [Seq(Char) -> Seq(Nat)]
           w == [name \in Seq(Char) |-> Nowhere]
           e == [f \in Seq(Tree) |-> [u \in T |-> [v \in T |-> ListsStep(f, u, v)]]]
<1>1. w \in T /\ \A u, v : ListsStep(<< >>, u, v) = w
  BY DEF ListsStep, Nowhere
<1>2. \A f \in Seq(Tree), u, v \in T : ListsStep(f, u, v) \in T
  <2> SUFFICES ASSUME NEW f \in Seq(Tree), NEW u \in T, NEW v \in T, NEW name \in Seq(Char)
               PROVE  ListsStep(f, u, v)[name] \in Seq(Nat)
    BY DEF ListsStep
  <2>1. CASE f = << >>
    BY <2>1 DEF ListsStep, Nowhere
  <2>2. CASE f # << >>
    <3>1. InValues[f[1].kids][name] \in Seq(Nat)
      BY <2>2, ForestParts, ValuesIs
    <3>2. OrElse(InValues[f[1].kids][name], u[name]) \in Seq(Nat)
      BY <3>1 DEF OrElse
    <3>3. /\ Down(OrElse(InValues[f[1].kids][name], u[name])) \in Seq(Nat)
          /\ Along(v[name]) \in Seq(Nat)
      BY <3>2, PathSteps
    <3> QED
      BY <2>2, <3>3 DEF ListsStep
  <2> QED
    BY <2>1, <2>2
<1> HIDE DEF T, w
<1>3. e \in [Seq(Tree) -> [T -> [T -> T]]]
  BY <1>2
<1>4. PICK g \in [Seq(Tree) -> T] :
        /\ g[<< >>] = w
        /\ \A f \in Seq(Tree) : f # << >> => g[f] = e[f][g[f[1].kids]][g[Tail(f)]]
  <2> HIDE DEF e
  <2> QED
    BY <1>1, <1>3, ForestGiven
<1>5. ASSUME NEW f \in Seq(Tree) PROVE g[f] = ListsStep(f, g[f[1].kids], g[Tail(f)])
  <2>1. CASE f = << >>
    BY <1>1, <1>4, <2>1
  <2>2. CASE f # << >>
    <3>1. g[f[1].kids] \in T /\ g[Tail(f)] \in T
      BY <1>4, <2>2, ForestParts
    <3> QED
      BY <1>4, <2>2, <3>1
  <2> QED
    BY <2>1, <2>2
<1>6. ListsSolved(g)
  <2>1. g = [f \in Seq(Tree) |-> g[f]]
    BY <1>4
  <2> QED
    BY <1>5, <2>1 DEF ListsSolved
<1>7. InLists = CHOOSE r : ListsSolved(r)
  BY DEF InLists, ListsSolved, ListsStep
<1>8. ListsSolved(InLists)
  BY <1>6, <1>7
<1>9. \A f \in Seq(Tree) : InLists[f] = ListsStep(f, InLists[f[1].kids], InLists[Tail(f)])
  BY <1>8, Zenon DEF ListsSolved
<1>10. ASSUME NEW f \in Seq(Tree),
              f = << >> \/ (InLists[f[1].kids] \in T /\ InLists[Tail(f)] \in T)
       PROVE  InLists[f] \in T
  BY <1>1, <1>2, <1>9, <1>10
<1>11. \A f \in Seq(Tree) : InLists[f] \in T
  BY <1>10, ForestTyped
<1> QED
  BY <1>9, <1>11 DEF T
-----------------------------------------------------------------------------
(* The elements of expressions. *)
Elem ==
  {e \in [at : Seq(Nat), is : {Data(x) : x \in Tree}] : e.at # << >> /\ e.at[1] >= 1}

LEMMA ElemSteps ==
  ASSUME NEW e \in Elem
  PROVE  /\ e.at \in Seq(Nat) /\ e.at # << >> /\ e.at[1] \in Nat /\ e.at[1] >= 1
         /\ e.is \in {Data(x) : x \in Tree} /\ e = [at |-> e.at, is |-> e.is]
         /\ [at |-> Down(e.at), is |-> e.is] \in Elem
         /\ [at |-> Along(e.at), is |-> e.is] \in Elem
<1>1. /\ e.at \in Seq(Nat) /\ e.at # << >> /\ e.at[1] >= 1
      /\ e.is \in {Data(x) : x \in Tree} /\ e = [at |-> e.at, is |-> e.is]
  BY DEF Elem
<1>2. e.at[1] \in Nat
  BY <1>1, EmptySeq
<1>3. /\ Down(e.at) \in Seq(Nat) /\ Down(e.at) # << >> /\ Down(e.at)[1] >= 1
      /\ Along(e.at) \in Seq(Nat) /\ Along(e.at) # << >> /\ Along(e.at)[1] >= 1
  <2> DEFINE p == e.at
  <2>1. p \in Seq(Nat) /\ p # << >> /\ p[1] \in Nat
    BY <1>1, <1>2
  <2> HIDE DEF p
  <2>2. /\ Down(p) \in Seq(Nat) /\ Down(p) # << >> /\ Down(p)[1] >= 1
        /\ Along(p) \in Seq(Nat) /\ Along(p) # << >> /\ Along(p)[1] >= 1
    <3>1. /\ Down(p) \in Seq(Nat) /\ Down(p) # << >> /\ Down(p)[1] = 1
          /\ Along(p) \in Seq(Nat) /\ Along(p) # << >> /\ Along(p)[1] = p[1] + 1
      BY <2>1, PathSteps
    <3> QED
      BY <2>1, <3>1
  <2> QED
    BY <2>2 DEF p
<1> QED
  BY <1>1, <1>2, <1>3 DEF Elem

LEMMA PartsIs ==
  ASSUME NEW x \in Tree, NEW A \in SUBSET Elem, NEW B \in SUBSET Elem
  PROVE  WithParts(x, A, B) \in SUBSET Elem
<1>1. [at |-> <<1>>, is |-> Data(x)] \in Elem
  BY PathOne DEF Elem
<1>2. OfList(A) \in SUBSET Elem /\ OfNext(B) \in SUBSET Elem
  BY ElemSteps DEF OfList, OfNext
<1> QED
  BY <1>1, <1>2 DEF WithParts

ElementsStep(f, u, v) == IF f = << >> THEN {} ELSE WithParts(f[1], u, v)
ElementsSolved(r) == r = [f \in Seq(Tree) |-> ElementsStep(f, r[f[1].kids], r[Tail(f)])]

LEMMA ElementsIs ==
  \A f \in Seq(Tree) : /\ Elements[f] \in SUBSET Elem
                       /\ Elements[f] = ElementsStep(f, Elements[f[1].kids], Elements[Tail(f)])
<1> DEFINE T == SUBSET Elem
           w == {}
           e == [f \in Seq(Tree) |-> [u \in T |-> [v \in T |-> ElementsStep(f, u, v)]]]
<1>1. w \in T /\ \A u, v : ElementsStep(<< >>, u, v) = w
  BY DEF ElementsStep
<1>2. \A f \in Seq(Tree), u, v \in T : ElementsStep(f, u, v) \in T
  BY ForestParts, PartsIs DEF ElementsStep
<1> HIDE DEF T, w
<1>3. e \in [Seq(Tree) -> [T -> [T -> T]]]
  BY <1>2
<1>4. PICK g \in [Seq(Tree) -> T] :
        /\ g[<< >>] = w
        /\ \A f \in Seq(Tree) : f # << >> => g[f] = e[f][g[f[1].kids]][g[Tail(f)]]
  <2> HIDE DEF e
  <2> QED
    BY <1>1, <1>3, ForestGiven
<1>5. ASSUME NEW f \in Seq(Tree) PROVE g[f] = ElementsStep(f, g[f[1].kids], g[Tail(f)])
  <2>1. CASE f = << >>
    BY <1>1, <1>4, <2>1
  <2>2. CASE f # << >>
    <3>1. g[f[1].kids] \in T /\ g[Tail(f)] \in T
      BY <1>4, <2>2, ForestParts
    <3> QED
      BY <1>4, <2>2, <3>1
  <2> QED
    BY <2>1, <2>2
<1>6. ElementsSolved(g)
  <2>1. g = [f \in Seq(Tree) |-> g[f]]
    BY <1>4
  <2> QED
    BY <1>5, <2>1 DEF ElementsSolved
<1>7. Elements = CHOOSE r : ElementsSolved(r)
  BY DEF Elements, ElementsSolved, ElementsStep
<1>8. ElementsSolved(Elements)
  BY <1>6, <1>7
<1>9. \A f \in Seq(Tree) : Elements[f] = ElementsStep(f, Elements[f[1].kids], Elements[Tail(f)])
  BY <1>8, Zenon DEF ElementsSolved
<1>10. ASSUME NEW f \in Seq(Tree),
              f = << >> \/ (Elements[f[1].kids] \in T /\ Elements[Tail(f)] \in T)
       PROVE  Elements[f] \in T
  BY <1>1, <1>2, <1>9, <1>10
<1>11. \A f \in Seq(Tree) : Elements[f] \in T
  BY <1>10, ForestTyped
<1> QED
  BY <1>9, <1>11 DEF T

Copies == [copy : SUBSET Elem, n : Nat, err : BOOLEAN]
Copied(f, u, v, fail, n) ==
  IF f = << >> THEN [copy |-> {}, n |-> n, err |-> FALSE]
  ELSE LET x == f[1]
           value == x.ty = "VALUE"
           empty == value /\ x.aty = "BINARY" /\ x.val = << >>
           list == u[fail][n + 1]
           next == v[fail][IF value THEN n + 2 ELSE list.n]
       IN  IF n + 1 = fail \/ empty THEN Stopped(n + 1)
           ELSE IF value /\ n + 2 = fail THEN Stopped(n + 2)
           ELSE [copy |-> WithParts(x, list.copy, next.copy),
                 n |-> next.n, err |-> list.err \/ next.err]
CopyStep(f, u, v) == [fail \in Nat |-> [n \in Nat |-> Copied(f, u, v, fail, n)]]
CopySolved(r) == r = [f \in Seq(Tree) |-> CopyStep(f, r[f[1].kids], r[Tail(f)])]

LEMMA CopyIs ==
  \A f \in Seq(Tree) : /\ copy_sexp[f] \in [Nat -> [Nat -> Copies]]
                       /\ copy_sexp[f] = CopyStep(f, copy_sexp[f[1].kids], copy_sexp[Tail(f)])
<1> DEFINE T == [Nat -> [Nat -> Copies]]
           w == [fail \in Nat |-> [n \in Nat |-> [copy |-> {}, n |-> n, err |-> FALSE]]]
           e == [f \in Seq(Tree) |-> [u \in T |-> [v \in T |-> CopyStep(f, u, v)]]]
<1>1. w \in T /\ \A u, v : CopyStep(<< >>, u, v) = w
  BY DEF CopyStep, Copied, Copies
<1>2. \A f \in Seq(Tree), u, v \in T : CopyStep(f, u, v) \in T
  <2> SUFFICES ASSUME NEW f \in Seq(Tree), NEW u \in T, NEW v \in T,
                      NEW fail \in Nat, NEW n \in Nat
               PROVE  Copied(f, u, v, fail, n) \in Copies
    BY DEF CopyStep
  <2>1. CASE f = << >>
    BY <2>1 DEF Copied, Copies
  <2>2. CASE f # << >>
    <3> DEFINE x == f[1]
               list == u[fail][n + 1]
               m == IF x.ty = "VALUE" THEN n + 2 ELSE list.n
               next == v[fail][m]
               res == [copy |-> WithParts(x, list.copy, next.copy),
                       n |-> next.n, err |-> list.err \/ next.err]
    <3>1. x \in Tree /\ n + 1 \in Nat /\ n + 2 \in Nat
      BY <2>2, ForestParts
    <3>2. list \in Copies
      BY <3>1
    <3>3. m \in Nat
      BY <3>1, <3>2 DEF Copies
    <3>4. next \in Copies
      BY <3>3
    <3> HIDE DEF list, next, m
    <3>5. WithParts(x, list.copy, next.copy) \in SUBSET Elem
      BY <3>1, <3>2, <3>4, PartsIs DEF Copies
    <3>6. res \in Copies
      BY <3>2, <3>4, <3>5 DEF Copies
    <3>7. Stopped(n + 1) \in Copies /\ Stopped(n + 2) \in Copies
      BY <3>1 DEF Stopped, Copies
    <3>8. Copied(f, u, v, fail, n) \in {Stopped(n + 1), Stopped(n + 2), res}
      BY <2>2 DEF Copied, list, next, m
    <3> QED
      BY <3>6, <3>7, <3>8
  <2> QED
    BY <2>1, <2>2
<1> HIDE DEF T, w
<1>3. e \in [Seq(Tree) -> [T -> [T -> T]]]
  BY <1>2
<1>4. PICK g \in [Seq(Tree) -> T] :
        /\ g[<< >>] = w
        /\ \A f \in Seq(Tree) : f # << >> => g[f] = e[f][g[f[1].kids]][g[Tail(f)]]
  <2> HIDE DEF e
  <2> QED
    BY <1>1, <1>3, ForestGiven
<1>5. ASSUME NEW f \in Seq(Tree) PROVE g[f] = CopyStep(f, g[f[1].kids], g[Tail(f)])
  <2>1. CASE f = << >>
    BY <1>1, <1>4, <2>1
  <2>2. CASE f # << >>
    <3>1. g[f[1].kids] \in T /\ g[Tail(f)] \in T
      BY <1>4, <2>2, ForestParts
    <3> QED
      BY <1>4, <2>2, <3>1
  <2> QED
    BY <2>1, <2>2
<1>6. CopySolved(g)
  <2>1. g = [f \in Seq(Tree) |-> g[f]]
    BY <1>4
  <2> QED
    BY <1>5, <2>1 DEF CopySolved
<1>7. copy_sexp = CHOOSE r : CopySolved(r)
  BY DEF copy_sexp, CopySolved, CopyStep, Copied
<1>8. CopySolved(copy_sexp)
  BY <1>6, <1>7
<1>9. \A f \in Seq(Tree) : copy_sexp[f] = CopyStep(f, copy_sexp[f[1].kids], copy_sexp[Tail(f)])
  BY <1>8, Zenon DEF CopySolved
<1>10. ASSUME NEW f \in Seq(Tree),
              f = << >> \/ (copy_sexp[f[1].kids] \in T /\ copy_sexp[Tail(f)] \in T)
       PROVE  copy_sexp[f] \in T
  BY <1>1, <1>2, <1>9, <1>10
<1>11. \A f \in Seq(Tree) : copy_sexp[f] \in T
  BY <1>10, ForestTyped
<1> QED
  BY <1>9, <1>11 DEF T
-----------------------------------------------------------------------------
(* Where the atoms with a name are. *)
LEMMA FoundPaths ==
  ASSUME NEW f \in Seq(Tree), NEW name, NEW p \in Found(f, name)
  PROVE  p \in Seq(Nat) /\ p # << >> /\ p[1] \in Nat /\ p[1] >= 1 /\ Len(p) \in Nat /\ Len(p) >= 1
<1>1. PICK e \in Elements[f] : p = e.at
  BY DEF Found
<1>2. e \in Elem
  BY <1>1, ElementsIs
<1>3. p \in Seq(Nat) /\ p # << >> /\ p[1] \in Nat /\ p[1] >= 1
  BY <1>1, <1>2, ElemSteps
<1> QED
  BY <1>3, EmptySeq

LEMMA FoundNone == \A name : Found(<< >>, name) = {}
<1>1. \A f \in Seq(Tree) : f = << >> => Elements[f] = {}
  BY ElementsIs DEF ElementsStep
<1>2. << >> \in Seq(Tree)
  OBVIOUS
<1>3. Elements[<< >>] = {}
  BY <1>1, <1>2
<1> QED
  BY <1>3 DEF Found

FoundHere(x, name) == IF Matches(x, name) THEN {<<1>>} ELSE {}
FoundDown(g, name) == {Down(p) : p \in Found(g, name)}
FoundAlong(g, name) == {Along(p) : p \in Found(g, name)}

LEMMA FoundParts ==
  ASSUME NEW f \in Seq(Tree), f # << >>, NEW name
  PROVE  Found(f, name)
           = FoundHere(f[1], name) \cup FoundDown(f[1].kids, name) \cup FoundAlong(Tail(f), name)
<1> DEFINE x == f[1]
           A == Elements[x.kids]
           B == Elements[Tail(f)]
           Those(E) == {e.at : e \in {d \in E : Named(d.is, name)}}
<1>1. Elements[f] = {[at |-> <<1>>, is |-> Data(x)]} \cup OfList(A) \cup OfNext(B)
  BY ElementsIs DEF ElementsStep, WithParts
<1>2. Named(Data(x), name) <=> Matches(x, name)
  BY DEF Named, Matches, Data
<1>3. Found(f, name) = Those(Elements[f])
  BY DEF Found
<1>4. Found(x.kids, name) = Those(A) /\ Found(Tail(f), name) = Those(B)
  BY DEF Found
<1> HIDE DEF A, B
<1>5. Those(OfList(A)) = FoundDown(x.kids, name)
  <2>1. ASSUME NEW p \in Those(OfList(A)) PROVE p \in FoundDown(x.kids, name)
    <3>1. PICK d \in OfList(A) : p = d.at /\ Named(d.is, name)
      BY <2>1
    <3>2. PICK e \in A : d = [at |-> Down(e.at), is |-> e.is]
      BY <3>1 DEF OfList
    <3>3. e.at \in Those(A) /\ p = Down(e.at)
      BY <3>1, <3>2
    <3> QED
      BY <1>4, <3>3 DEF FoundDown
  <2>2. ASSUME NEW p \in FoundDown(x.kids, name) PROVE p \in Those(OfList(A))
    <3>1. PICK e \in A : Named(e.is, name) /\ p = Down(e.at)
      BY <1>4, <2>2 DEF FoundDown
    <3> DEFINE d == [at |-> Down(e.at), is |-> e.is]
    <3>2. d \in OfList(A) /\ d.at = p /\ d.is = e.is
      BY <3>1 DEF OfList
    <3> HIDE DEF d
    <3> QED
      BY <3>1, <3>2
  <2> QED
    BY <2>1, <2>2
<1>6. Those(OfNext(B)) = FoundAlong(Tail(f), name)
  <2>1. ASSUME NEW p \in Those(OfNext(B)) PROVE p \in FoundAlong(Tail(f), name)
    <3>1. PICK d \in OfNext(B) : p = d.at /\ Named(d.is, name)
      BY <2>1
    <3>2. PICK e \in B : d = [at |-> Along(e.at), is |-> e.is]
      BY <3>1 DEF OfNext
    <3>3. e.at \in Those(B) /\ p = Along(e.at)
      BY <3>1, <3>2
    <3> QED
      BY <1>4, <3>3 DEF FoundAlong
  <2>2. ASSUME NEW p \in FoundAlong(Tail(f), name) PROVE p \in Those(OfNext(B))
    <3>1. PICK e \in B : Named(e.is, name) /\ p = Along(e.at)
      BY <1>4, <2>2 DEF FoundAlong
    <3> DEFINE d == [at |-> Along(e.at), is |-> e.is]
    <3>2. d \in OfNext(B) /\ d.at = p /\ d.is = e.is
      BY <3>1 DEF OfNext
    <3> HIDE DEF d
    <3> QED
      BY <3>1, <3>2
  <2> QED
    BY <2>1, <2>2
<1>7. Those({[at |-> <<1>>, is |-> Data(x)]}) = FoundHere(x, name)
  <2> DEFINE e == [at |-> <<1>>, is |-> Data(x)]
  <2>1. e.at = <<1>> /\ e.is = Data(x)
    OBVIOUS
  <2> HIDE DEF e
  <2>2. Those({e}) = FoundHere(x, name)
    BY <1>2, <2>1 DEF FoundHere
  <2> QED
    BY <2>2 DEF e
<1>8. \A S1, S2, S3 : Those(S1 \cup S2 \cup S3) = Those(S1) \cup Those(S2) \cup Those(S3)
  OBVIOUS
<1> HIDE DEF Those
<1> QED
  BY <1>1, <1>3, <1>5, <1>6, <1>7, <1>8

LEMMA NoneBelowAtoms ==
  ASSUME NEW x \in Tree, x.ty = "VALUE", NEW name PROVE Found(x.kids, name) = {}
  BY AtomAssumption, FoundNone
-----------------------------------------------------------------------------
(* The order of the text. *)
LEMMA BeforeSteps ==
  ASSUME NEW p \in Seq(Nat), p # << >>, NEW q \in Seq(Nat), q # << >>
  PROVE  /\ Before(p, q) => Before(Down(p), Down(q)) /\ Before(Along(p), Along(q))
         /\ q[1] >= 1 => Before(Down(p), Along(q)) /\ Before(<<1>>, Along(q))
<1> DEFINE dp == Down(p)
           dq == Down(q)
           ap == Along(p)
           aq == Along(q)
           m == Len(p)
           n == Len(q)
<1>1. m \in Nat /\ m >= 1 /\ n \in Nat /\ n >= 1
  BY EmptySeq
<1>2. /\ \A i \in 1..m : p[i] \in Nat
      /\ \A i \in 1..n : q[i] \in Nat
  OBVIOUS
<1>3. /\ Len(dp) = m + 1 /\ dp[1] = 1 /\ \A i \in 1..m : dp[i + 1] = p[i]
      /\ Len(dq) = n + 1 /\ dq[1] = 1 /\ \A i \in 1..n : dq[i + 1] = q[i]
  BY PathSteps
<1>4. /\ Len(ap) = m /\ ap[1] = p[1] + 1 /\ \A i \in 2..m : ap[i] = p[i]
      /\ Len(aq) = n /\ aq[1] = q[1] + 1 /\ \A i \in 2..n : aq[i] = q[i]
  BY PathSteps
<1>5. Len(<<1>>) = 1 /\ <<1>>[1] = 1
  BY PathOne
<1> HIDE DEF dp, dq, ap, aq
<1>6. ASSUME Before(p, q) PROVE Before(dp, dq) /\ Before(ap, aq)
  <2>1. PICK i \in 1..m : i <= n /\ p[i] < q[i] /\ \A j \in 1..(i - 1) : p[j] = q[j]
    BY <1>6 DEF Before
  <2> HIDE DEF m, n
  <2>2. Before(dp, dq)
    <3>1. i + 1 \in 1..Len(dp) /\ i + 1 <= Len(dq) /\ dp[i + 1] < dq[i + 1]
      BY <1>1, <1>3, <2>1
    <3>2. ASSUME NEW j \in 1..((i + 1) - 1) PROVE dp[j] = dq[j]
      <4>1. CASE j = 1
        BY <1>3, <4>1
      <4>2. CASE j # 1
        <5>1. j - 1 \in 1..(i - 1) /\ j - 1 \in 1..m /\ j - 1 \in 1..n /\ (j - 1) + 1 = j
          BY <1>1, <2>1, <4>2
        <5>2. dp[(j - 1) + 1] = p[j - 1] /\ dq[(j - 1) + 1] = q[j - 1] /\ p[j - 1] = q[j - 1]
          BY <1>3, <2>1, <5>1
        <5> QED
          BY <5>1, <5>2
      <4> QED
        BY <4>1, <4>2
    <3> QED
      BY <3>1, <3>2 DEF Before
  <2>3. Before(ap, aq)
    <3>1. i \in 1..Len(ap) /\ i <= Len(aq)
      BY <1>4, <2>1
    <3>2. ap[i] < aq[i]
      <4>1. CASE i = 1
        BY <1>1, <1>2, <1>4, <2>1, <4>1 DEF m, n
      <4>2. CASE i # 1
        BY <1>1, <1>4, <2>1, <4>2
      <4> QED
        BY <4>1, <4>2
    <3>3. ASSUME NEW j \in 1..(i - 1) PROVE ap[j] = aq[j]
      <4>1. CASE j = 1
        BY <1>4, <2>1, <3>3, <4>1
      <4>2. CASE j # 1
        BY <1>1, <1>4, <2>1, <4>2
      <4> QED
        BY <4>1, <4>2
    <3> QED
      BY <3>1, <3>2, <3>3 DEF Before
  <2> QED
    BY <2>2, <2>3
<1>7. ASSUME q[1] >= 1 PROVE Before(dp, aq) /\ Before(<<1>>, aq)
  <2>1. q[1] \in Nat /\ 1 < aq[1]
    BY <1>1, <1>2, <1>4, <1>7
  <2>2. 1 \in 1..Len(dp) /\ 1 <= Len(aq) /\ 1..(1 - 1) = {}
    BY <1>1, <1>3, <1>4
  <2>3. Before(dp, aq)
    BY <1>3, <2>1, <2>2 DEF Before
  <2> DEFINE o == <<1>>
  <2>4. o[1] = 1 /\ 1 \in 1..Len(o)
    BY <1>5
  <2> HIDE DEF o
  <2>5. Before(o, aq)
    BY <2>1, <2>2, <2>4 DEF Before
  <2> QED
    BY <2>3, <2>5 DEF o
<1> QED
  BY <1>6, <1>7 DEF dp, dq, ap, aq

FindsIn(f, name) ==
  IF Found(f, name) = {} THEN find_sexp[f][name] = Nowhere
  ELSE /\ find_sexp[f][name] \in Found(f, name)
       /\ \A p \in Found(f, name) : p = find_sexp[f][name] \/ Before(find_sexp[f][name], p)

LEMMA FindStepFinds ==
  ASSUME NEW f \in Seq(Tree), f # << >>, NEW name \in Seq(Char),
         FindsIn(f[1].kids, name), FindsIn(Tail(f), name)
  PROVE  FindsIn(f, name)
<1> DEFINE x == f[1]
           k == find_sexp[x.kids][name]
           t == find_sexp[Tail(f)][name]
           r == find_sexp[f][name]
           K == Found(x.kids, name)
           R == Found(Tail(f), name)
<1>1. x \in Tree /\ x.kids \in Seq(Tree) /\ Tail(f) \in Seq(Tree) /\ x.ty \in {"LIST", "VALUE"}
  BY ForestParts
<1>2. k \in Seq(Nat) /\ t \in Seq(Nat)
  BY <1>1, FindIs
<1>3. r = IF x.ty = "LIST" /\ Down(k) # Nowhere THEN Down(k)
          ELSE IF Matches(x, name) THEN <<1>> ELSE Along(t)
  BY FindIs DEF FindStep
<1>4. Found(f, name) = FoundHere(x, name) \cup FoundDown(x.kids, name) \cup FoundAlong(Tail(f), name)
  BY FoundParts
<1>5. FoundDown(x.kids, name) = {Down(p) : p \in K} /\ FoundAlong(Tail(f), name) = {Along(p) : p \in R}
  BY DEF FoundDown, FoundAlong
<1>6. \A p \in K \cup R : p \in Seq(Nat) /\ p # << >> /\ p[1] >= 1
  BY <1>1, FoundPaths
<1>7. (Down(k) = Nowhere <=> k = << >>) /\ (Along(t) = Nowhere <=> t = << >>)
  BY <1>2, PathSteps DEF Nowhere
<1>8. /\ (K = {} => k = << >>)
      /\ (K # {} => k \in K /\ \A p \in K : p = k \/ Before(k, p))
      /\ (R = {} => t = << >>)
      /\ (R # {} => t \in R /\ \A p \in R : p = t \/ Before(t, p))
  BY DEF FindsIn, Nowhere
<1>9. /\ Matches(x, name) => x.ty = "VALUE"
      /\ x.ty = "VALUE" => K = {}
  BY <1>1, NoneBelowAtoms DEF Matches
<1>10. \A p, q \in K \cup R : /\ Before(p, q) => Before(Down(p), Down(q)) /\ Before(Along(p), Along(q))
                              /\ Before(Down(p), Along(q)) /\ Before(<<1>>, Along(q))
  BY <1>6, BeforeSteps
<1>11. \A q \in R : Before(<<1>>, Along(q))
  BY <1>10
<1> HIDE DEF k, t, r, K, R, x
<1>12. CASE K # {}
  <2>1. x.ty = "LIST" /\ ~Matches(x, name) /\ r = Down(k)
    BY <1>1, <1>3, <1>6, <1>7, <1>8, <1>9, <1>12
  <2>2. Found(f, name) = {Down(p) : p \in K} \cup {Along(p) : p \in R}
    BY <1>4, <1>5, <2>1 DEF FoundHere
  <2>3. r \in Found(f, name)
    BY <1>8, <1>12, <2>1, <2>2
  <2>4. ASSUME NEW p \in Found(f, name) PROVE p = r \/ Before(r, p)
    <3>1. CASE p \in {Down(q) : q \in K}
      <4>1. PICK q \in K : p = Down(q)
        BY <3>1
      <4> QED
        BY <1>8, <1>10, <1>12, <2>1, <4>1
    <3>2. CASE p \in {Along(q) : q \in R}
      <4>1. PICK q \in R : p = Along(q)
        BY <3>2
      <4> QED
        BY <1>8, <1>10, <1>12, <2>1, <4>1
    <3> QED
      BY <2>2, <3>1, <3>2
  <2> QED
    BY <2>3, <2>4 DEF FindsIn, r
<1>13. CASE K = {} /\ Matches(x, name)
  <2>1. r = <<1>>
    BY <1>3, <1>9, <1>13
  <2>2. Found(f, name) = {<<1>>} \cup {Along(p) : p \in R}
    BY <1>4, <1>5, <1>13 DEF FoundHere
  <2>3. ASSUME NEW p \in Found(f, name) PROVE p = r \/ Before(r, p)
    BY <1>11, <2>1, <2>2
  <2> QED
    BY <2>1, <2>2, <2>3 DEF FindsIn, r
<1>14. CASE K = {} /\ ~Matches(x, name)
  <2>1. r = Along(t)
    BY <1>3, <1>7, <1>8, <1>14
  <2>2. Found(f, name) = {Along(p) : p \in R}
    BY <1>4, <1>5, <1>14 DEF FoundHere
  <2>3. CASE R = {}
    BY <1>7, <1>8, <2>1, <2>2, <2>3 DEF FindsIn, r
  <2>4. CASE R # {}
    <3>1. r \in Found(f, name)
      BY <1>8, <2>1, <2>2, <2>4
    <3>2. ASSUME NEW p \in Found(f, name) PROVE p = r \/ Before(r, p)
      BY <1>8, <1>10, <2>1, <2>2, <2>4
    <3> QED
      BY <3>1, <3>2 DEF FindsIn, r
  <2> QED
    BY <2>3, <2>4
<1> QED
  BY <1>12, <1>13, <1>14

LEMMA FindFinds ==
  ASSUME NEW name \in Seq(Char) PROVE \A f \in Seq(Tree) : FindsIn(f, name)
<1> DEFINE P == {f \in Seq(Tree) : ~FindsIn(f, name)}
<1> SUFFICES ASSUME P # {} PROVE FALSE
  OBVIOUS
<1>1. P \in SUBSET Seq(Tree)
  OBVIOUS
<1> HIDE DEF P
<1>2. PICK f \in P : f # << >> => f[1].kids \notin P /\ Tail(f) \notin P
  BY <1>1, LeastForest
<1>3. f \in Seq(Tree) /\ ~FindsIn(f, name)
  BY <1>2 DEF P
<1>4. f # << >>
  <2>1. Found(<< >>, name) = {} /\ << >> \in Seq(Tree)
    BY FoundNone
  <2>2. find_sexp[<< >>] = FindStep(<< >>, find_sexp[<< >>[1].kids], find_sexp[Tail(<< >>)])
    BY <2>1, FindIs
  <2>3. find_sexp[<< >>][name] = Nowhere
    BY <2>2 DEF FindStep
  <2> QED
    BY <1>3, <2>1, <2>3 DEF FindsIn
<1>5. f[1].kids \in Seq(Tree) /\ Tail(f) \in Seq(Tree)
  BY <1>3, <1>4, ForestParts
<1>6. FindsIn(f[1].kids, name) /\ FindsIn(Tail(f), name)
  BY <1>2, <1>4, <1>5 DEF P
<1> QED
  BY <1>3, <1>4, <1>6, FindStepFinds
-----------------------------------------------------------------------------
(* The lists around an element. *)
LEMMA EnclosesDown ==
  ASSUME NEW p \in Seq(Nat), p # << >>, NEW q \in Seq(Nat), q # << >>
  PROVE  /\ Encloses(Down(p), Down(q)) <=> Encloses(p, q)
         /\ Down(p)[Len(Down(p))] = p[Len(p)]
         /\ \A n \in Nat : n >= 1 /\ n <= Len(p) => Down(p)[n + 1] = p[n]
<1> DEFINE dp == Down(p)
           dq == Down(q)
           m == Len(p)
           n == Len(q)
<1>1. m \in Nat /\ m >= 1 /\ n \in Nat /\ n >= 1
  BY EmptySeq
<1>2. /\ Len(dp) = m + 1 /\ dp[1] = 1 /\ \A i \in 1..m : dp[i + 1] = p[i]
      /\ Len(dq) = n + 1 /\ dq[1] = 1 /\ \A i \in 1..n : dq[i + 1] = q[i]
  BY PathSteps
<1> HIDE DEF dp, dq
<1>3. dp[Len(dp)] = p[m] /\ \A j \in Nat : j >= 1 /\ j <= m => dp[j + 1] = p[j]
  BY <1>1, <1>2
<1>4. Encloses(p, q) <=> m <= n /\ \A i \in 1..(m - 1) : p[i] = q[i]
  BY DEF Encloses
<1>5. Encloses(dp, dq) <=> m + 1 <= n + 1 /\ \A i \in 1..((m + 1) - 1) : dp[i] = dq[i]
  BY <1>2 DEF Encloses
<1> HIDE DEF m, n
<1>6. ASSUME Encloses(dp, dq) PROVE Encloses(p, q)
  <2>1. m <= n /\ \A i \in 1..((m + 1) - 1) : dp[i] = dq[i]
    BY <1>1, <1>5, <1>6
  <2>2. ASSUME NEW i \in 1..(m - 1) PROVE p[i] = q[i]
    <3>1. i \in 1..m /\ i \in 1..n /\ i + 1 \in 1..((m + 1) - 1)
      BY <1>1, <2>1
    <3>2. dp[i + 1] = p[i] /\ dq[i + 1] = q[i] /\ dp[i + 1] = dq[i + 1]
      BY <1>2, <2>1, <3>1
    <3> QED
      BY <3>2
  <2> QED
    BY <1>4, <2>1, <2>2
<1>7. ASSUME Encloses(p, q) PROVE Encloses(dp, dq)
  <2>1. m <= n /\ \A i \in 1..(m - 1) : p[i] = q[i]
    BY <1>4, <1>7
  <2>2. ASSUME NEW i \in 1..((m + 1) - 1) PROVE dp[i] = dq[i]
    <3>1. CASE i = 1
      BY <1>2, <3>1
    <3>2. CASE i # 1
      <4>1. i - 1 \in 1..m /\ i - 1 \in 1..n /\ i - 1 \in 1..(m - 1) /\ (i - 1) + 1 = i
        BY <1>1, <2>1, <3>2
      <4>2. dp[(i - 1) + 1] = p[i - 1] /\ dq[(i - 1) + 1] = q[i - 1] /\ p[i - 1] = q[i - 1]
        BY <1>2, <2>1, <4>1
      <4> QED
        BY <4>1, <4>2
    <3> QED
      BY <3>1, <3>2
  <2>3. m + 1 <= n + 1
    BY <1>1, <2>1
  <2> QED
    BY <1>5, <2>2, <2>3
<1> QED
  BY <1>3, <1>6, <1>7 DEF dp, dq, m

LEMMA EnclosesAlong ==
  ASSUME NEW p \in Seq(Nat), p # << >>, NEW q \in Seq(Nat), q # << >>
  PROVE  /\ Encloses(Along(p), Along(q)) <=> Encloses(p, q)
         /\ Encloses(Along(p), Along(q)) =>
              (Along(p)[Len(p)] <= Along(q)[Len(p)] <=> p[Len(p)] <= q[Len(p)])
         /\ Len(p) = Len(q) =>
              (Along(q)[Len(p)] <= Along(p)[Len(p)] <=> q[Len(p)] <= p[Len(p)])
<1> DEFINE ap == Along(p)
           aq == Along(q)
           m == Len(p)
           n == Len(q)
<1>1. m \in Nat /\ m >= 1 /\ n \in Nat /\ n >= 1
  BY EmptySeq
<1>2. /\ Len(ap) = m /\ ap[1] = p[1] + 1 /\ \A i \in 2..m : ap[i] = p[i]
      /\ Len(aq) = n /\ aq[1] = q[1] + 1 /\ \A i \in 2..n : aq[i] = q[i]
  BY PathSteps
<1>3. /\ \A i \in 1..m : p[i] \in Nat
      /\ \A i \in 1..n : q[i] \in Nat
  OBVIOUS
<1>4. p[1] \in Nat /\ q[1] \in Nat
  BY <1>1, <1>3
<1> HIDE DEF ap, aq
<1>5. Encloses(p, q) <=> m <= n /\ \A i \in 1..(m - 1) : p[i] = q[i]
  BY DEF Encloses
<1>6. Encloses(ap, aq) <=> m <= n /\ \A i \in 1..(m - 1) : ap[i] = aq[i]
  BY <1>2 DEF Encloses
<1> HIDE DEF m, n
<1>7. ASSUME m <= n, NEW i \in 1..m
      PROVE  /\ ap[i] = aq[i] <=> p[i] = q[i]
             /\ ap[i] <= aq[i] <=> p[i] <= q[i]
             /\ aq[i] <= ap[i] <=> q[i] <= p[i]
  <2>1. CASE i = 1
    <3>1. ap[i] = p[1] + 1 /\ aq[i] = q[1] + 1 /\ p[i] = p[1] /\ q[i] = q[1]
      BY <1>2, <2>1
    <3> QED
      BY <1>4, <3>1
  <2>2. CASE i # 1
    <3>1. i \in 2..m /\ i \in 2..n
      BY <1>1, <1>7, <2>2
    <3> QED
      BY <1>2, <3>1
  <2> QED
    BY <2>1, <2>2
<1>8. \A i \in 1..(m - 1) : i \in 1..m
  BY <1>1
<1>9. m \in 1..m
  BY <1>1
<1>10. Encloses(ap, aq) <=> Encloses(p, q)
  BY <1>5, <1>6, <1>7, <1>8
<1>11. m = n => m <= n
  BY <1>1
<1> QED
  BY <1>6, <1>7, <1>9, <1>10, <1>11 DEF ap, aq, m, n

(* The first element, its contents and what follows it lie apart. *)
LEMMA EnclosesApart ==
  ASSUME NEW p \in Seq(Nat), p # << >>, p[1] >= 1, NEW q \in Seq(Nat), q # << >>, q[1] >= 1
  PROVE  /\ Len(p) >= 2 => ~Encloses(Along(p), Down(q))
         /\ ~(Encloses(Along(p), Down(q)) /\ Along(p)[Len(Along(p))] <= Down(q)[Len(Along(p))])
         /\ ~Encloses(Down(p), Along(q)) /\ ~Encloses(Down(p), <<1>>)
         /\ ~(Encloses(Along(p), <<1>>) /\ Along(p)[Len(Along(p))] <= <<1>>[Len(Along(p))])
<1> DEFINE dp == Down(p)
           dq == Down(q)
           ap == Along(p)
           aq == Along(q)
           m == Len(p)
           n == Len(q)
           o == <<1>>
<1>1. m \in Nat /\ m >= 1 /\ n \in Nat /\ n >= 1
  BY EmptySeq
<1>2. p[1] \in Nat /\ q[1] \in Nat
  BY <1>1
<1>3. Len(dp) = m + 1 /\ dp[1] = 1 /\ Len(dq) = n + 1 /\ dq[1] = 1
  BY PathSteps
<1>4. Len(ap) = m /\ ap[1] = p[1] + 1 /\ Len(aq) = n /\ aq[1] = q[1] + 1
  BY PathSteps
<1>5. Len(o) = 1 /\ o[1] = 1
  BY PathOne
<1> HIDE DEF dp, dq, ap, aq, m, n, o
<1>6. ap[1] > 1 /\ aq[1] > 1
  BY <1>2, <1>4
<1>7. m >= 2 => ~Encloses(ap, dq)
  <2>1. m >= 2 => 1 \in 1..(m - 1)
    BY <1>1
  <2>2. ap[1] # dq[1]
    BY <1>2, <1>3, <1>4
  <2> QED
    BY <1>4, <2>1, <2>2 DEF Encloses
<1>8. ~(Encloses(ap, dq) /\ ap[m] <= dq[m])
  <2>1. CASE m >= 2
    BY <1>7, <2>1
  <2>2. CASE ~(m >= 2)
    <3>1. m = 1
      BY <1>1, <2>2
    <3> QED
      BY <1>2, <1>3, <1>4, <3>1
  <2> QED
    BY <2>1, <2>2
<1>9. ~Encloses(dp, aq)
  <2>1. 1 \in 1..((m + 1) - 1)
    BY <1>1
  <2> QED
    BY <1>3, <1>6, <2>1 DEF Encloses
<1>10. ~Encloses(dp, o)
  <2>1. ~(m + 1 <= 1)
    BY <1>1
  <2> QED
    BY <1>3, <1>5, <2>1 DEF Encloses
<1>11. ~(Encloses(ap, o) /\ ap[m] <= o[m])
  <2>1. CASE m = 1
    BY <1>2, <1>4, <1>5, <2>1
  <2>2. CASE m # 1
    <3>1. ~(m <= 1)
      BY <1>1, <2>2
    <3> QED
      BY <1>4, <1>5, <3>1 DEF Encloses
  <2> QED
    BY <2>1, <2>2
<1> QED
  BY <1>4, <1>7, <1>8, <1>9, <1>10, <1>11 DEF dp, dq, ap, aq, m, o
-----------------------------------------------------------------------------
(* The order in which bfs_find_sexp looks. *)
LEMMA SoonerSteps ==
  ASSUME NEW p \in Seq(Nat), p # << >>, NEW q \in Seq(Nat), q # << >>
  PROVE  /\ Sooner(p, q) => Sooner(Down(p), Down(q)) /\ Sooner(Along(p), Along(q))
         /\ q[1] >= 1 /\ Len(q) >= 2 => Sooner(Down(p), Along(q))
         /\ q[1] >= 1 => Sooner(<<1>>, Along(q))
         /\ Len(p) = 1 /\ Len(q) >= 2 => Sooner(p, q)
<1> DEFINE dp == Down(p)
           dq == Down(q)
           ap == Along(p)
           aq == Along(q)
           m == Len(p)
           n == Len(q)
<1>1. m \in Nat /\ m >= 1 /\ n \in Nat /\ n >= 1
  BY EmptySeq
<1>2. /\ \A i \in 1..m : p[i] \in Nat
      /\ \A i \in 1..n : q[i] \in Nat
  OBVIOUS
<1>3. /\ Len(dp) = m + 1 /\ dp[1] = 1 /\ \A i \in 1..m : dp[i + 1] = p[i]
      /\ Len(dq) = n + 1 /\ dq[1] = 1 /\ \A i \in 1..n : dq[i + 1] = q[i]
  BY PathSteps
<1>4. /\ Len(ap) = m /\ ap[1] = p[1] + 1 /\ \A i \in 2..m : ap[i] = p[i]
      /\ Len(aq) = n /\ aq[1] = q[1] + 1 /\ \A i \in 2..n : aq[i] = q[i]
  BY PathSteps
<1>5. Len(<<1>>) = 1 /\ <<1>>[1] = 1
  BY PathOne
<1> HIDE DEF dp, dq, ap, aq
<1>6. ASSUME Sooner(p, q) PROVE Sooner(dp, dq) /\ Sooner(ap, aq)
  <2>1. PICK i \in 1..m : /\ i <= n /\ \A j \in 1..(i - 1) : p[j] = q[j]
                          /\ \/ i = m /\ i < n
                             \/ (i = m <=> i = n) /\ p[i] < q[i]
    BY <1>6 DEF Sooner
  <2> HIDE DEF m, n
  <2>2. Sooner(dp, dq)
    <3>1. i + 1 \in 1..Len(dp) /\ i + 1 <= Len(dq)
      BY <1>1, <1>3, <2>1
    <3>2. ASSUME NEW j \in 1..((i + 1) - 1) PROVE dp[j] = dq[j]
      <4>1. CASE j = 1
        BY <1>3, <4>1
      <4>2. CASE j # 1
        <5>1. j - 1 \in 1..(i - 1) /\ j - 1 \in 1..m /\ j - 1 \in 1..n /\ (j - 1) + 1 = j
          BY <1>1, <2>1, <4>2
        <5>2. dp[(j - 1) + 1] = p[j - 1] /\ dq[(j - 1) + 1] = q[j - 1] /\ p[j - 1] = q[j - 1]
          BY <1>3, <2>1, <5>1
        <5> QED
          BY <5>1, <5>2
      <4> QED
        BY <4>1, <4>2
    <3>3. CASE i = m /\ i < n
      <4>1. i + 1 = Len(dp) /\ i + 1 < Len(dq)
        BY <1>1, <1>3, <2>1, <3>3
      <4> QED
        BY <3>1, <3>2, <4>1 DEF Sooner
    <3>4. CASE (i = m <=> i = n) /\ p[i] < q[i]
      <4>1. dp[i + 1] < dq[i + 1]
        BY <1>1, <1>3, <2>1, <3>4
      <4>2. (i + 1 = Len(dp)) <=> (i + 1 = Len(dq))
        BY <1>1, <1>3, <2>1, <3>4
      <4> QED
        BY <3>1, <3>2, <4>1, <4>2 DEF Sooner
    <3> QED
      BY <2>1, <3>3, <3>4
  <2>3. Sooner(ap, aq)
    <3>1. i \in 1..Len(ap) /\ i <= Len(aq)
      BY <1>4, <2>1
    <3>2. ASSUME NEW j \in 1..(i - 1) PROVE ap[j] = aq[j]
      <4>1. CASE j = 1
        BY <1>4, <2>1, <3>2, <4>1
      <4>2. CASE j # 1
        BY <1>1, <1>4, <2>1, <4>2
      <4> QED
        BY <4>1, <4>2
    <3>3. CASE i = m /\ i < n
      BY <1>4, <3>1, <3>2, <3>3 DEF Sooner
    <3>4. CASE (i = m <=> i = n) /\ p[i] < q[i]
      <4>1. ap[i] < aq[i]
        <5>1. CASE i = 1
          BY <1>1, <1>2, <1>4, <3>4, <5>1 DEF m, n
        <5>2. CASE i # 1
          BY <1>1, <1>4, <2>1, <3>4, <5>2
        <5> QED
          BY <5>1, <5>2
      <4>2. i = Len(ap) <=> i = Len(aq)
        BY <1>4, <3>4
      <4> QED
        BY <3>1, <3>2, <4>1, <4>2 DEF Sooner
    <3> QED
      BY <2>1, <3>3, <3>4
  <2> QED
    BY <2>2, <2>3
<1>7. 1..(1 - 1) = {}
  OBVIOUS
<1>8. ASSUME q[1] >= 1, n >= 2 PROVE Sooner(dp, aq)
  <2>1. q[1] \in Nat /\ dp[1] < aq[1]
    BY <1>1, <1>2, <1>3, <1>4, <1>8
  <2>2. 1 \in 1..Len(dp) /\ 1 <= Len(aq) /\ 1 # Len(dp) /\ 1 # Len(aq)
    <3>1. Len(dp) = m + 1 /\ Len(aq) = n /\ n >= 2
      BY <1>3, <1>4, <1>8
    <3> HIDE DEF m, n
    <3> QED
      BY <1>1, <3>1
  <2> QED
    BY <1>7, <2>1, <2>2 DEF Sooner
<1>9. ASSUME q[1] >= 1 PROVE Sooner(<<1>>, aq)
  <2> DEFINE o == <<1>>
  <2>1. Len(o) = 1 /\ o[1] = 1 /\ 1 \in 1..Len(o)
    BY <1>5
  <2> HIDE DEF o
  <2>2. q[1] \in Nat /\ o[1] < aq[1] /\ 1 <= Len(aq)
    BY <1>1, <1>2, <1>4, <1>9, <2>1
  <2>3. 1 = Len(aq) \/ 1 < Len(aq)
    BY <1>1, <1>4
  <2>4. Sooner(o, aq)
    BY <1>7, <2>1, <2>2, <2>3 DEF Sooner
  <2> QED
    BY <2>4 DEF o
<1>10. ASSUME m = 1, n >= 2 PROVE Sooner(p, q)
  <2>1. 1 \in 1..Len(p) /\ 1 <= Len(q) /\ 1 = Len(p) /\ 1 < Len(q)
    BY <1>1, <1>10
  <2> QED
    BY <1>7, <2>1 DEF Sooner
<1> QED
  BY <1>6, <1>8, <1>9, <1>10 DEF dp, dq, ap, aq, m, n

(* What the two loops of bfs_find_sexp find. *)
Best(at, all) ==
  IF all = {} THEN at = Nowhere
  ELSE at \in all /\ \A p \in all : p = at \/ Sooner(at, p)
Shallow(all) == {p \in all : Len(p) = 1}
Deep(all) == {p \in all : Len(p) >= 2}
SearchedIn(f, name) ==
  /\ Best(InValues[f][name], Shallow(Found(f, name)))
  /\ Best(InLists[f][name], Deep(Found(f, name)))

LEMMA Counting ==
  ASSUME NEW n \in Nat, n >= 1
  PROVE  /\ n # 1 => n >= 2
         /\ n <= 1 => n = 1
         /\ n + 1 # 1 /\ n + 1 >= 2
         /\ n = 1 => ~(n >= 2)
  OBVIOUS

LEMMA BestOfBoth ==
  ASSUME NEW f \in Seq(Tree), NEW name \in Seq(Char), SearchedIn(f, name)
  PROVE  Best(bfs_find_sexp(name, f), Found(f, name))
<1> DEFINE all == Found(f, name)
           v == InValues[f][name]
           l == InLists[f][name]
           r == bfs_find_sexp(name, f)
<1>1. \A p \in all : p \in Seq(Nat) /\ p # << >> /\ Len(p) \in Nat /\ Len(p) >= 1
  BY FoundPaths
<1>2. Best(v, Shallow(all)) /\ Best(l, Deep(all))
  BY DEF SearchedIn
<1>3. r = IF v = Nowhere THEN l ELSE v
  BY DEF bfs_find_sexp, OrElse
<1> HIDE DEF all, v, l, r
<1>4. CASE Shallow(all) = {}
  <2>1. v = Nowhere /\ r = l
    BY <1>2, <1>3, <1>4 DEF Best
  <2>2. \A p \in all : Len(p) # 1
    BY <1>4 DEF Shallow
  <2>3. \A p \in all : Len(p) >= 2
    BY <1>1, <2>2, Counting, Zenon
  <2>4. all = Deep(all)
    BY <2>3 DEF Deep
  <2> QED
    BY <1>2, <2>1, <2>4 DEF all, r
<1>5. CASE Shallow(all) # {}
  <2>1. v \in all /\ Len(v) = 1 /\ \A p \in Shallow(all) : p = v \/ Sooner(v, p)
    BY <1>2, <1>5 DEF Best, Shallow
  <2>2. v # Nowhere /\ r = v
    BY <1>1, <1>3, <2>1 DEF Nowhere
  <2>3. ASSUME NEW p \in all PROVE p = v \/ Sooner(v, p)
    <3>1. CASE Len(p) = 1
      BY <2>1, <3>1 DEF Shallow
    <3>2. CASE Len(p) # 1
      <4>1. Len(p) >= 2
        BY <1>1, <3>2, Counting, Zenon
      <4> QED
        BY <1>1, <2>1, <4>1, SoonerSteps
    <3> QED
      BY <3>1, <3>2
  <2>4. Best(v, all)
    BY <2>1, <2>3 DEF Best
  <2> QED
    BY <2>2, <2>4 DEF all, r
<1> QED
  BY <1>4, <1>5

(* The best of what follows the first element stays the best further on. *)
LEMMA BestAlong ==
  ASSUME NEW S, \A p \in S : p \in Seq(Nat) /\ p # << >>, NEW t \in Seq(Nat), Best(t, S)
  PROVE  Best(Along(t), {Along(p) : p \in S})
<1> DEFINE A == {Along(p) : p \in S}
           a == Along(t)
<1>1. CASE S = {}
  <2>1. A = {} /\ t = << >>
    BY <1>1 DEF Best, Nowhere
  <2>2. a = Nowhere
    BY <2>1, PathSteps DEF Nowhere
  <2> QED
    BY <2>1, <2>2 DEF Best
<1>2. CASE S # {}
  <2>1. t \in S /\ t # << >> /\ \A p \in S : p = t \/ Sooner(t, p)
    BY <1>2 DEF Best
  <2>2. a \in A
    BY <2>1
  <2>3. ASSUME NEW q \in A PROVE q = a \/ Sooner(a, q)
    <3>1. PICK p \in S : q = Along(p)
      BY <2>3
    <3>2. Sooner(t, p) => Sooner(Along(t), Along(p))
      BY <2>1, <3>1, SoonerSteps
    <3> QED
      BY <2>1, <3>1, <3>2
  <2>4. A # {}
    BY <2>2
  <2> HIDE DEF A, a
  <2>5. Best(a, A)
    BY <2>2, <2>3, <2>4 DEF Best
  <2> QED
    BY <2>5 DEF A, a
<1> QED
  BY <1>1, <1>2

LEMMA BestDown ==
  ASSUME NEW S, \A p \in S : p \in Seq(Nat) /\ p # << >>, S # {}, NEW t \in Seq(Nat), Best(t, S),
         NEW B, \A q \in B : \E p \in Seq(Nat) : p # << >> /\ p[1] >= 1 /\ Len(p) >= 2 /\ q = Along(p),
         t[1] >= 1
  PROVE  Best(Down(t), {Down(p) : p \in S} \cup B)
<1> DEFINE D == {Down(p) : p \in S}
           d == Down(t)
<1>1. t \in S /\ t # << >> /\ \A p \in S : p = t \/ Sooner(t, p)
  BY DEF Best
<1>2. d \in D
  BY <1>1
<1>3. ASSUME NEW q \in D PROVE q = d \/ Sooner(d, q)
  <2>1. PICK p \in S : q = Down(p)
    BY <1>3
  <2>2. Sooner(t, p) => Sooner(Down(t), Down(p))
    BY <1>1, <2>1, SoonerSteps
  <2> QED
    BY <1>1, <2>1, <2>2
<1>4. ASSUME NEW q \in B PROVE Sooner(d, q)
  <2>1. PICK p \in Seq(Nat) : p # << >> /\ p[1] >= 1 /\ Len(p) >= 2 /\ q = Along(p)
    OBVIOUS
  <2> QED
    BY <1>1, <2>1, SoonerSteps
<1> HIDE DEF D, d
<1>5. Best(d, D \cup B)
  BY <1>2, <1>3, <1>4 DEF Best
<1> QED
  BY <1>5 DEF D, d

LEMMA SearchStep ==
  ASSUME NEW f \in Seq(Tree), f # << >>, NEW name \in Seq(Char),
         SearchedIn(f[1].kids, name), SearchedIn(Tail(f), name)
  PROVE  SearchedIn(f, name)
<1> DEFINE x == f[1]
           k == bfs_find_sexp(name, x.kids)
           v == InValues[Tail(f)][name]
           l == InLists[Tail(f)][name]
           K == Found(x.kids, name)
           R == Found(Tail(f), name)
           H == FoundHere(x, name)
           V == Shallow(Found(f, name))
           L == Deep(Found(f, name))
<1>1. x \in Tree /\ x.kids \in Seq(Tree) /\ Tail(f) \in Seq(Tree) /\ x.ty \in {"LIST", "VALUE"}
  BY ForestParts
<1>2. k \in Seq(Nat) /\ v \in Seq(Nat) /\ l \in Seq(Nat)
  BY <1>1, ValuesIs, ListsIs DEF bfs_find_sexp, OrElse
<1>3. InValues[f][name] = IF Matches(x, name) THEN <<1>> ELSE Along(v)
  BY ValuesIs DEF ValuesStep
<1>4. InLists[f][name] = IF x.ty = "LIST" /\ Down(k) # Nowhere THEN Down(k) ELSE Along(l)
  BY ListsIs DEF ListsStep, bfs_find_sexp
<1>5. Found(f, name) = H \cup {Down(p) : p \in K} \cup {Along(p) : p \in R}
  BY FoundParts DEF FoundDown, FoundAlong
<1>6. \A p \in K \cup R : p \in Seq(Nat) /\ p # << >> /\ p[1] >= 1 /\ Len(p) \in Nat /\ Len(p) >= 1
  BY <1>1, FoundPaths
<1>7. Best(k, K) /\ Best(v, Shallow(R)) /\ Best(l, Deep(R))
  BY <1>1, BestOfBoth DEF SearchedIn
<1>8. /\ Matches(x, name) => x.ty = "VALUE"
      /\ x.ty = "VALUE" => K = {}
  BY <1>1, NoneBelowAtoms DEF Matches
<1>9. (Down(k) = Nowhere <=> k = << >>) /\ (Along(v) = Nowhere <=> v = << >>)
  BY <1>2, PathSteps DEF Nowhere
<1>10. \A p \in K \cup R : Len(Down(p)) = Len(p) + 1 /\ Len(Along(p)) = Len(p)
  BY <1>6, PathSteps
<1>11. \A p \in H : Len(p) = 1
  BY PathOne DEF FoundHere
<1> HIDE DEF k, v, l, K, R, H
<1>12. V = H \cup {Along(p) : p \in Shallow(R)}
  <2>1. \A p \in K : Len(Down(p)) # 1
    <3>1. \A p \in K : Len(p) \in Nat /\ Len(p) >= 1 /\ Len(Down(p)) = Len(p) + 1
      BY <1>6, <1>10
    <3> QED
      BY <3>1, Counting, Zenon
  <2>2. \A p \in R : Len(Along(p)) = 1 <=> p \in Shallow(R)
    BY <1>10 DEF Shallow
  <2> QED
    BY <1>5, <1>11, <2>1, <2>2 DEF Shallow
<1>13. L = {Down(p) : p \in K} \cup {Along(p) : p \in Deep(R)}
  <2>1. \A p \in K : Len(Down(p)) >= 2
    BY <1>6, <1>10
  <2>2. \A p \in R : Len(Along(p)) >= 2 <=> p \in Deep(R)
    BY <1>10 DEF Deep
  <2>3. \A p \in H : ~(Len(p) >= 2)
    <3>1. 1 \in Nat /\ 1 >= 1
      OBVIOUS
    <3> QED
      BY <1>11, <3>1, Counting, Zenon
  <2> QED
    BY <1>5, <2>1, <2>2, <2>3 DEF Deep
<1>14. /\ \A p \in Shallow(R) : p \in Seq(Nat) /\ p # << >> /\ p[1] >= 1 /\ Len(p) = 1
       /\ \A p \in Deep(R) : p \in Seq(Nat) /\ p # << >> /\ p[1] >= 1 /\ Len(p) >= 2
  BY <1>6 DEF Shallow, Deep
<1> HIDE DEF V, L, x
<1>15. Best(InValues[f][name], V)
  <2>1. CASE Matches(x, name)
    <3> DEFINE o == <<1>>
    <3>1. InValues[f][name] = o /\ H = {o}
      BY <1>3, <2>1 DEF FoundHere, H
    <3>2. \A p \in Shallow(R) : Sooner(o, Along(p))
      BY <1>14, SoonerSteps
    <3> HIDE DEF o
    <3>3. ASSUME NEW q \in V PROVE q = o \/ Sooner(o, q)
      BY <1>12, <3>1, <3>2
    <3>4. o \in V
      BY <1>12, <3>1
    <3> QED
      BY <3>1, <3>3, <3>4 DEF Best
  <2>2. CASE ~Matches(x, name)
    <3>1. V = {Along(p) : p \in Shallow(R)}
      BY <1>12, <2>2 DEF FoundHere, H
    <3> QED
      BY <1>2, <1>3, <1>7, <1>14, <2>2, <3>1, BestAlong
  <2> QED
    BY <2>1, <2>2
<1>16. Best(InLists[f][name], L)
  <2>1. CASE K = {}
    <3>1. k = << >> /\ InLists[f][name] = Along(l)
      BY <1>4, <1>7, <1>9, <2>1 DEF Best, Nowhere
    <3>2. L = {Along(p) : p \in Deep(R)}
      BY <1>13, <2>1
    <3> QED
      BY <1>2, <1>7, <1>14, <3>1, <3>2, BestAlong
  <2>2. CASE K # {}
    <3>1. k \in K
      BY <1>7, <2>2 DEF Best
    <3>2. x.ty = "LIST" /\ k # << >> /\ k[1] >= 1
      BY <1>1, <1>6, <1>8, <2>2, <3>1
    <3>3. InLists[f][name] = Down(k)
      BY <1>4, <1>9, <3>2
    <3> DEFINE B == {Along(p) : p \in Deep(R)}
    <3>4. \A q \in B : \E p \in Seq(Nat) : p # << >> /\ p[1] >= 1 /\ Len(p) >= 2 /\ q = Along(p)
      BY <1>14
    <3>5. \A p \in K : p \in Seq(Nat) /\ p # << >>
      BY <1>6
    <3>6. L = {Down(p) : p \in K} \cup B
      BY <1>13
    <3> HIDE DEF B
    <3>7. Best(Down(k), {Down(p) : p \in K} \cup B)
      BY <1>2, <1>7, <2>2, <3>2, <3>4, <3>5, BestDown
    <3> QED
      BY <3>3, <3>6, <3>7
  <2> QED
    BY <2>1, <2>2
<1> QED
  BY <1>15, <1>16 DEF SearchedIn, V, L

LEMMA BfsFinds ==
  ASSUME NEW name \in Seq(Char)
  PROVE  \A f \in Seq(Tree) : Best(bfs_find_sexp(name, f), Found(f, name))
<1> DEFINE P == {f \in Seq(Tree) : ~SearchedIn(f, name)}
<1> SUFFICES ASSUME P # {} PROVE FALSE
  BY BestOfBoth
<1>1. P \in SUBSET Seq(Tree)
  OBVIOUS
<1> HIDE DEF P
<1>2. PICK f \in P : f # << >> => f[1].kids \notin P /\ Tail(f) \notin P
  BY <1>1, LeastForest
<1>3. f \in Seq(Tree) /\ ~SearchedIn(f, name)
  BY <1>2 DEF P
<1>4. f # << >>
  <2>1. f = << >> => InValues[f][name] = Nowhere /\ InLists[f][name] = Nowhere
    <3>1. f = << >> => InValues[f][name] = Nowhere
      BY <1>3, ValuesIs DEF ValuesStep
    <3>2. f = << >> => InLists[f][name] = Nowhere
      BY <1>3, ListsIs DEF ListsStep
    <3> QED
      BY <3>1, <3>2
  <2>2. f = << >> => Found(f, name) = {}
    BY FoundNone
  <2>3. f = << >> => Shallow(Found(f, name)) = {} /\ Deep(Found(f, name)) = {}
    BY <2>2 DEF Shallow, Deep
  <2> QED
    BY <1>3, <2>1, <2>3 DEF SearchedIn, Best
<1>5. f[1].kids \in Seq(Tree) /\ Tail(f) \in Seq(Tree)
  BY <1>3, <1>4, ForestParts
<1>6. SearchedIn(f[1].kids, name) /\ SearchedIn(Tail(f), name)
  BY <1>2, <1>4, <1>5 DEF P
<1> QED
  BY <1>3, <1>4, <1>6, SearchStep
-----------------------------------------------------------------------------
(* Parts of the elements of an expression. *)
Precedes(p, q) == Encloses(p, q) /\ p[Len(p)] <= q[Len(p)]
Headed(C, E) == C \in SUBSET E /\ \A e \in C, d \in E : Precedes(d.at, e.at) => d \in C
HasEmpty(E) == \E e \in E : e.is.aty = "BINARY" /\ e.is.val = << >>

LEMMA PathsDiffer ==
  ASSUME NEW p \in Seq(Nat), p # << >>, p[1] >= 1, NEW q \in Seq(Nat), q # << >>, q[1] >= 1
  PROVE  /\ Down(p) = Down(q) => p = q
         /\ Along(p) = Along(q) => p = q
         /\ Down(p) # Along(q) /\ Down(p) # <<1>> /\ Along(p) # <<1>>
<1> DEFINE dp == Down(p)
           dq == Down(q)
           ap == Along(p)
           aq == Along(q)
           m == Len(p)
           n == Len(q)
<1>1. m \in Nat /\ m >= 1 /\ n \in Nat /\ n >= 1
  BY EmptySeq
<1>2. /\ Len(dp) = m + 1 /\ dp[1] = 1 /\ \A i \in 1..m : dp[i + 1] = p[i]
      /\ Len(dq) = n + 1 /\ \A i \in 1..n : dq[i + 1] = q[i]
  BY PathSteps
<1>3. /\ Len(ap) = m /\ ap[1] = p[1] + 1 /\ \A i \in 2..m : ap[i] = p[i]
      /\ Len(aq) = n /\ aq[1] = q[1] + 1 /\ \A i \in 2..n : aq[i] = q[i]
  BY PathSteps
<1>4. p[1] \in Nat /\ q[1] \in Nat
  BY <1>1
<1>5. m = n /\ (\A i \in 1..m : p[i] = q[i]) => p = q
  BY SeqEqual
<1>6. Len(<<1>>) = 1 /\ <<1>>[1] = 1
  BY PathOne
<1> HIDE DEF dp, dq, ap, aq, m, n
<1>7. ASSUME dp = dq PROVE p = q
  <2>1. m = n
    BY <1>1, <1>2, <1>7
  <2> QED
    BY <1>2, <1>5, <1>7, <2>1
<1>8. ASSUME ap = aq PROVE p = q
  <2>1. m = n /\ p[1] = q[1]
    BY <1>3, <1>4, <1>8
  <2>2. ASSUME NEW i \in 1..m PROVE p[i] = q[i]
    <3>1. CASE i = 1
      BY <2>1, <3>1
    <3>2. CASE i # 1
      <4>1. i \in 2..m
        BY <1>1, <3>2
      <4> QED
        BY <1>3, <1>8, <2>1, <4>1
    <3> QED
      BY <3>1, <3>2
  <2> QED
    BY <1>5, <2>1, <2>2
<1>9. dp # aq
  BY <1>2, <1>3, <1>4
<1>10. dp # <<1>>
  <2>1. m + 1 # 1
    BY <1>1
  <2> QED
    BY <1>2, <1>6, <2>1
<1>11. ap # <<1>>
  <2>1. p[1] + 1 # 1
    BY <1>4
  <2> QED
    BY <1>3, <1>6, <2>1
<1> QED
  BY <1>7, <1>8, <1>9, <1>10, <1>11 DEF dp, dq, ap, aq

Here(x) == [at |-> <<1>>, is |-> Data(x)]
InList(e) == [at |-> Down(e.at), is |-> e.is]
InNext(e) == [at |-> Along(e.at), is |-> e.is]

LEMMA PartOf ==
  ASSUME NEW x, NEW A, NEW B
  PROVE  /\ Here(x) \in WithParts(x, A, B)
         /\ \A e \in A : InList(e) \in WithParts(x, A, B)
         /\ \A e \in B : InNext(e) \in WithParts(x, A, B)
         /\ \A d \in WithParts(x, A, B) : \/ d = Here(x)
                                          \/ \E e \in A : d = InList(e)
                                          \/ \E e \in B : d = InNext(e)
  BY DEF WithParts, OfList, OfNext, Here, InList, InNext

LEMMA ElemsDiffer ==
  ASSUME NEW x, NEW d \in Elem, NEW e \in Elem
  PROVE  /\ InList(d) = InList(e) => d = e
         /\ InNext(d) = InNext(e) => d = e
         /\ InList(d) # InNext(e) /\ InList(d) # Here(x) /\ InNext(d) # Here(x)
<1> DEFINE p == d.at
           q == e.at
<1>1. /\ p \in Seq(Nat) /\ p # << >> /\ p[1] >= 1 /\ d = [at |-> p, is |-> d.is]
      /\ q \in Seq(Nat) /\ q # << >> /\ q[1] >= 1 /\ e = [at |-> q, is |-> e.is]
  BY ElemSteps
<1>2. /\ InList(d) = [at |-> Down(p), is |-> d.is] /\ InList(e) = [at |-> Down(q), is |-> e.is]
      /\ InNext(d) = [at |-> Along(p), is |-> d.is] /\ InNext(e) = [at |-> Along(q), is |-> e.is]
      /\ Here(x) = [at |-> <<1>>, is |-> Data(x)]
  BY DEF InList, InNext, Here
<1>3. /\ InList(d).at = Down(p) /\ InList(d).is = d.is /\ InList(e).at = Down(q) /\ InList(e).is = e.is
      /\ InNext(d).at = Along(p) /\ InNext(d).is = d.is /\ InNext(e).at = Along(q) /\ InNext(e).is = e.is
      /\ Here(x).at = <<1>>
  BY <1>2
<1> HIDE DEF p, q
<1>4. /\ Down(p) = Down(q) => p = q
      /\ Along(p) = Along(q) => p = q
      /\ Down(p) # Along(q) /\ Down(p) # <<1>> /\ Along(p) # <<1>>
  BY <1>1, PathsDiffer
<1>5. InList(d) = InList(e) => d = e
  BY <1>1, <1>3, <1>4
<1>6. InNext(d) = InNext(e) => d = e
  BY <1>1, <1>3, <1>4
<1>7. InList(d) # InNext(e) /\ InList(d) # Here(x) /\ InNext(d) # Here(x)
  BY <1>3, <1>4
<1> QED
  BY <1>5, <1>6, <1>7

LEMMA PartsEqual ==
  ASSUME NEW x, NEW A \in SUBSET Elem, NEW B \in SUBSET Elem, NEW C \in SUBSET A, NEW D \in SUBSET B
  PROVE  WithParts(x, C, D) = WithParts(x, A, B) <=> C = A /\ D = B
<1> SUFFICES ASSUME WithParts(x, C, D) = WithParts(x, A, B) PROVE C = A /\ D = B
  OBVIOUS
<1>1. ASSUME NEW a \in A PROVE a \in C
  <2>1. InList(a) \in WithParts(x, C, D)
    BY PartOf
  <2>2. \/ InList(a) = Here(x)
        \/ \E e \in C : InList(a) = InList(e)
        \/ \E e \in D : InList(a) = InNext(e)
    BY <2>1, PartOf
  <2> QED
    BY <2>2, ElemsDiffer
<1>2. ASSUME NEW a \in B PROVE a \in D
  <2>1. InNext(a) \in WithParts(x, C, D)
    BY PartOf
  <2>2. \/ InNext(a) = Here(x)
        \/ \E e \in C : InNext(a) = InList(e)
        \/ \E e \in D : InNext(a) = InNext(e)
    BY <2>1, PartOf
  <2> QED
    BY <2>2, ElemsDiffer
<1> QED
  BY <1>1, <1>2

LEMMA ElemOrder ==
  ASSUME NEW x, NEW d \in Elem, NEW e \in Elem
  PROVE  /\ Precedes(InList(d).at, InList(e).at) => Precedes(d.at, e.at)
         /\ Precedes(InNext(d).at, InNext(e).at) => Precedes(d.at, e.at)
         /\ ~Precedes(InNext(d).at, InList(e).at) /\ ~Precedes(InList(d).at, InNext(e).at)
         /\ ~Precedes(InList(d).at, Here(x).at) /\ ~Precedes(InNext(d).at, Here(x).at)
<1> DEFINE p == d.at
           q == e.at
<1>1. /\ p \in Seq(Nat) /\ p # << >> /\ p[1] >= 1 /\ q \in Seq(Nat) /\ q # << >> /\ q[1] >= 1
  BY ElemSteps
<1>2. /\ InList(d).at = Down(p) /\ InList(e).at = Down(q)
      /\ InNext(d).at = Along(p) /\ InNext(e).at = Along(q) /\ Here(x).at = <<1>>
  BY DEF InList, InNext, Here
<1> HIDE DEF p, q
<1>3. Len(p) \in Nat /\ Len(p) >= 1 /\ Len(q) \in Nat
  BY <1>1, EmptySeq
<1>4. Precedes(Down(p), Down(q)) => Precedes(p, q)
  <2>1. Encloses(Down(p), Down(q)) => Encloses(p, q) /\ Len(p) <= Len(q)
    BY <1>1, EnclosesDown DEF Encloses
  <2>2. Len(Down(p)) = Len(p) + 1 /\ Down(p)[Len(p) + 1] = p[Len(p)]
    BY <1>1, <1>3, PathSteps, EnclosesDown
  <2>3. Len(p) <= Len(q) => Down(q)[Len(p) + 1] = q[Len(p)]
    BY <1>1, <1>3, EnclosesDown
  <2> QED
    BY <2>1, <2>2, <2>3 DEF Precedes
<1>5. Precedes(Along(p), Along(q)) => Precedes(p, q)
  <2>1. Len(Along(p)) = Len(p)
    BY <1>1, PathSteps
  <2> QED
    BY <1>1, <2>1, EnclosesAlong DEF Precedes
<1>6. ~Precedes(Along(p), Down(q)) /\ ~Precedes(Down(p), Along(q))
  BY <1>1, EnclosesApart DEF Precedes
<1>7. ~Precedes(Down(p), <<1>>) /\ ~Precedes(Along(p), <<1>>)
  BY <1>1, EnclosesApart DEF Precedes
<1> QED
  BY <1>2, <1>4, <1>5, <1>6, <1>7 DEF p, q

LEMMA HeadedParts ==
  ASSUME NEW x, NEW A \in SUBSET Elem, NEW B \in SUBSET Elem, NEW C, Headed(C, A), NEW D, Headed(D, B)
  PROVE  Headed(WithParts(x, C, D), WithParts(x, A, B))
<1> DEFINE W == WithParts(x, C, D)
           E == WithParts(x, A, B)
<1>1. C \in SUBSET A /\ D \in SUBSET B
  BY DEF Headed
<1>2. W \in SUBSET E
  BY <1>1 DEF WithParts, OfList, OfNext
<1>3. ASSUME NEW e \in W, NEW d \in E, Precedes(d.at, e.at) PROVE d \in W
  <2>1. \/ d = Here(x)
        \/ \E a \in A : d = InList(a)
        \/ \E a \in B : d = InNext(a)
    BY PartOf
  <2>2. \/ e = Here(x)
        \/ \E c \in C : e = InList(c)
        \/ \E c \in D : e = InNext(c)
    BY PartOf
  <2>3. CASE d = Here(x)
    BY <2>3, PartOf
  <2>4. ASSUME NEW a \in A, d = InList(a) PROVE d \in W
    <3>1. PICK c \in C : e = InList(c)
      BY <1>1, <1>3, <2>2, <2>4, ElemOrder
    <3>2. Precedes(a.at, c.at)
      BY <1>1, <1>3, <2>4, <3>1, ElemOrder
    <3>3. a \in C
      BY <2>4, <3>2 DEF Headed
    <3> QED
      BY <2>4, <3>3, PartOf
  <2>5. ASSUME NEW a \in B, d = InNext(a) PROVE d \in W
    <3>1. PICK c \in D : e = InNext(c)
      BY <1>1, <1>3, <2>2, <2>5, ElemOrder
    <3>2. Precedes(a.at, c.at)
      BY <1>1, <1>3, <2>5, <3>1, ElemOrder
    <3>3. a \in D
      BY <2>5, <3>2 DEF Headed
    <3> QED
      BY <2>5, <3>3, PartOf
  <2> QED
    BY <2>1, <2>3, <2>4, <2>5
<1> HIDE DEF W, E
<1>4. Headed(W, E)
  BY <1>2, <1>3 DEF Headed
<1> QED
  BY <1>4 DEF W, E

LEMMA EmptyParts ==
  ASSUME NEW x, NEW A, NEW B
  PROVE  /\ HasEmpty(A) \/ HasEmpty(B) => HasEmpty(WithParts(x, A, B))
         /\ x.aty = "BINARY" /\ x.val = << >> => HasEmpty(WithParts(x, A, B))
<1>1. Here(x).is.aty = x.aty /\ Here(x).is.val = x.val
  BY DEF Here, Data
<1>2. \A e : InList(e).is = e.is /\ InNext(e).is = e.is
  BY DEF InList, InNext
<1>3. HasEmpty(A) => HasEmpty(WithParts(x, A, B))
  BY <1>2, PartOf DEF HasEmpty
<1>4. HasEmpty(B) => HasEmpty(WithParts(x, A, B))
  BY <1>2, PartOf DEF HasEmpty
<1>5. x.aty = "BINARY" /\ x.val = << >> => HasEmpty(WithParts(x, A, B))
  BY <1>1, PartOf DEF HasEmpty
<1> QED
  BY <1>3, <1>4, <1>5
-----------------------------------------------------------------------------
CopiedWell(r, all, fail, n) ==
  /\ r.n >= n /\ Headed(r.copy, all)
  /\ r.err <=> r.copy # all
  /\ r.err => fail \in (n + 1)..r.n \/ HasEmpty(all)
CopiesAll(f) == \A fail, n \in Nat : CopiedWell(copy_sexp[f][fail][n], Elements[f], fail, n)

LEMMA CopyNone ==
  ASSUME NEW f \in Seq(Tree), f = << >>, NEW fail \in Nat, NEW n \in Nat
  PROVE  copy_sexp[f][fail][n] = [copy |-> {}, n |-> n, err |-> FALSE]
<1>1. copy_sexp[f] = CopyStep(f, copy_sexp[f[1].kids], copy_sexp[Tail(f)])
  BY CopyIs
<1>2. ASSUME NEW u, NEW v
      PROVE  CopyStep(f, u, v)[fail][n] = [copy |-> {}, n |-> n, err |-> FALSE]
  <2>1. CopyStep(f, u, v)[fail][n] = Copied(f, u, v, fail, n)
    BY DEF CopyStep
  <2>2. Copied(f, u, v, fail, n) = [copy |-> {}, n |-> n, err |-> FALSE]
    BY DEF Copied
  <2> QED
    BY <2>1, <2>2
<1> DEFINE s == CopyStep(f, copy_sexp[f[1].kids], copy_sexp[Tail(f)])
<1>3. s[fail][n] = [copy |-> {}, n |-> n, err |-> FALSE]
  BY <1>2
<1>4. copy_sexp[f] = s
  BY <1>1
<1> HIDE DEF s
<1> QED
  BY <1>3, <1>4

LEMMA CopyStepCopies ==
  ASSUME NEW f \in Seq(Tree), f # << >>, CopiesAll(f[1].kids), CopiesAll(Tail(f))
  PROVE  CopiesAll(f)
<1> SUFFICES ASSUME NEW fail \in Nat, NEW n \in Nat
             PROVE  CopiedWell(copy_sexp[f][fail][n], Elements[f], fail, n)
  BY DEF CopiesAll
<1> DEFINE x == f[1]
           value == x.ty = "VALUE"
           empty == value /\ x.aty = "BINARY" /\ x.val = << >>
           list == copy_sexp[x.kids][fail][n + 1]
           m == IF value THEN n + 2 ELSE list.n
           next == copy_sexp[Tail(f)][fail][m]
           A == Elements[x.kids]
           B == Elements[Tail(f)]
           all == Elements[f]
           r == copy_sexp[f][fail][n]
<1>1. x \in Tree /\ x.kids \in Seq(Tree) /\ Tail(f) \in Seq(Tree)
  BY ForestParts
<1>2. A \in SUBSET Elem /\ B \in SUBSET Elem
  BY <1>1, ElementsIs
<1>3. all = WithParts(x, A, B)
  BY ElementsIs DEF ElementsStep
<1>4. list \in Copies
  <2>1. n + 1 \in Nat
    OBVIOUS
  <2> QED
    BY <1>1, <2>1, CopyIs
<1>5. m \in Nat
  <2> HIDE DEF list
  <2>1. list.n \in Nat
    BY <1>4 DEF Copies
  <2>2. n + 2 \in Nat
    OBVIOUS
  <2> QED
    BY <2>1, <2>2
<1>6. next \in Copies
  <2> HIDE DEF m
  <2>1. copy_sexp[Tail(f)] \in [Nat -> [Nat -> Copies]]
    BY <1>1, CopyIs
  <2> QED
    BY <1>5, <2>1
<1>7. r = IF n + 1 = fail \/ empty THEN Stopped(n + 1)
          ELSE IF value /\ n + 2 = fail THEN Stopped(n + 2)
          ELSE [copy |-> WithParts(x, list.copy, next.copy),
                n |-> next.n, err |-> list.err \/ next.err]
  <2>1. copy_sexp[f] = CopyStep(f, copy_sexp[x.kids], copy_sexp[Tail(f)])
    BY CopyIs
  <2>2. r = Copied(f, copy_sexp[x.kids], copy_sexp[Tail(f)], fail, n)
    BY <2>1 DEF CopyStep
  <2> QED
    BY <2>2 DEF Copied
<1>8. CopiedWell(list, A, fail, n + 1)
  <2>1. n + 1 \in Nat
    OBVIOUS
  <2> QED
    BY <2>1 DEF CopiesAll
<1>9. CopiedWell(next, B, fail, m)
  <2> HIDE DEF m
  <2> QED
    BY <1>5 DEF CopiesAll
<1>10. m >= n + 1
  <2> HIDE DEF list
  <2>1. list.n >= n + 1 /\ list.n \in Nat
    BY <1>4, <1>8 DEF CopiedWell, Copies
  <2> QED
    BY <2>1
<1>11. Here(x) \in all
  BY <1>3, PartOf
<1> HIDE DEF list, next, m, A, B, all, r
<1>12. ASSUME NEW k \in {1, 2}, r = Stopped(n + k), n + k = fail \/ empty
       PROVE  CopiedWell(r, all, fail, n)
  <2>1. r.copy = {} /\ r.n = n + k /\ r.err = TRUE
    BY <1>12 DEF Stopped
  <2>2. r.n >= n /\ Headed(r.copy, all) /\ r.copy # all
    BY <1>11, <2>1 DEF Headed
  <2>3. n + k = fail => fail \in (n + 1)..r.n
    BY <2>1
  <2>4. empty => HasEmpty(all)
    BY <1>3, EmptyParts
  <2> QED
    BY <1>12, <2>1, <2>2, <2>3, <2>4 DEF CopiedWell
<1>13. ASSUME r = [copy |-> WithParts(x, list.copy, next.copy),
                   n |-> next.n, err |-> list.err \/ next.err]
       PROVE  CopiedWell(r, all, fail, n)
  <2>1. r.copy = WithParts(x, list.copy, next.copy) /\ r.n = next.n /\ r.err = (list.err \/ next.err)
    BY <1>13
  <2>2. Headed(list.copy, A) /\ Headed(next.copy, B)
    BY <1>8, <1>9 DEF CopiedWell
  <2>3. Headed(r.copy, all)
    BY <1>2, <1>3, <2>1, <2>2, HeadedParts
  <2>4. list.copy \in SUBSET A /\ next.copy \in SUBSET B
    BY <2>2 DEF Headed
  <2>5. r.copy = all <=> list.copy = A /\ next.copy = B
    BY <1>2, <1>3, <2>1, <2>4, PartsEqual
  <2>6. r.err <=> r.copy # all
    BY <1>8, <1>9, <2>1, <2>5 DEF CopiedWell
  <2>7. next.n >= m /\ next.n \in Nat /\ list.n \in Nat
    BY <1>6, <1>9, <1>4 DEF CopiedWell, Copies
  <2>8. r.n >= n
    BY <1>5, <1>10, <2>1, <2>7
  <2>9. ASSUME list.err PROVE fail \in (n + 1)..r.n \/ HasEmpty(all)
    <3>1. fail \in ((n + 1) + 1)..list.n \/ HasEmpty(A)
      BY <1>8, <2>9 DEF CopiedWell
    <3>2. HasEmpty(A) => HasEmpty(all)
      BY <1>3, EmptyParts
    <3>3. value => ~list.err
      <4>1. value => x.kids = << >>
        BY <1>1, AtomAssumption
      <4>2. value => list.err = FALSE
        <5>1. n + 1 \in Nat
          OBVIOUS
        <5>2. value => list = [copy |-> {}, n |-> n + 1, err |-> FALSE]
          BY <1>1, <4>1, <5>1, CopyNone DEF list
        <5> QED
          BY <5>2
      <4> QED
        BY <4>2
    <3>4. m = list.n
      BY <2>9, <3>3 DEF m
    <3> QED
      BY <2>1, <2>7, <3>1, <3>2, <3>4
  <2>10. ASSUME next.err PROVE fail \in (n + 1)..r.n \/ HasEmpty(all)
    <3>1. fail \in (m + 1)..next.n \/ HasEmpty(B)
      BY <1>9, <2>10 DEF CopiedWell
    <3>2. HasEmpty(B) => HasEmpty(all)
      BY <1>3, EmptyParts
    <3> QED
      BY <1>5, <1>10, <2>1, <2>7, <3>1, <3>2
  <2> QED
    BY <2>1, <2>3, <2>6, <2>8, <2>9, <2>10 DEF CopiedWell
<1>14. CopiedWell(r, all, fail, n)
  BY <1>7, <1>12, <1>13
<1> QED
  BY <1>14 DEF r, all

LEMMA CopyCopies == \A f \in Seq(Tree) : CopiesAll(f)
<1> DEFINE P == {f \in Seq(Tree) : ~CopiesAll(f)}
<1> SUFFICES ASSUME P # {} PROVE FALSE
  OBVIOUS
<1>1. P \in SUBSET Seq(Tree)
  OBVIOUS
<1> HIDE DEF P
<1>2. PICK f \in P : f # << >> => f[1].kids \notin P /\ Tail(f) \notin P
  BY <1>1, LeastForest
<1>3. f \in Seq(Tree) /\ ~CopiesAll(f)
  BY <1>2 DEF P
<1>4. f # << >>
  <2> SUFFICES ASSUME f = << >> PROVE CopiesAll(f)
    BY <1>3
  <2>1. Elements[f] = {}
    BY <1>3, ElementsIs DEF ElementsStep
  <2>2. ASSUME NEW fail \in Nat, NEW n \in Nat
        PROVE  copy_sexp[f][fail][n] = [copy |-> {}, n |-> n, err |-> FALSE]
    BY <1>3, CopyNone
  <2>3. ASSUME NEW fail \in Nat, NEW n \in Nat
        PROVE  CopiedWell([copy |-> {}, n |-> n, err |-> FALSE], {}, fail, n)
    BY DEF CopiedWell, Headed
  <2> QED
    BY <2>1, <2>2, <2>3 DEF CopiesAll
<1>5. f[1].kids \in Seq(Tree) /\ Tail(f) \in Seq(Tree)
  BY <1>3, <1>4, ForestParts
<1>6. CopiesAll(f[1].kids) /\ CopiesAll(Tail(f))
  BY <1>2, <1>4, <1>5 DEF P
<1> QED
  BY <1>3, <1>4, <1>6, CopyStepCopies
-----------------------------------------------------------------------------
(* An answer stays what was returned for the expression that was asked about. *)
Answered ==
  \/ answer = [op |-> "none"]
  \/ \E name \in Names :
       \/ answer = [op |-> "find", name |-> name, at |-> find_sexp[job.sx][name]]
       \/ answer = [op |-> "bfs", name |-> name, at |-> bfs_find_sexp(name, job.sx)]
  \/ \E fail \in Refusals :
       answer = [op |-> "copy", fail |-> fail, result |-> copy_sexp[job.sx][fail][0]]
OpsInv == job \in Jobs /\ Answered

LEMMA AddKeepsJob ==
  ASSUME NEW w, NEW n, NEW cs, NEW s, NEW d, NEW k, Add(w, n, cs, s, d, k) \/ Sadd(cs, s, d, k)
  PROVE  job' = job
  BY DEF Add, Sadd, OutOfSpace

LEMMA NextKeepsJob ==
  ASSUME Next PROVE job' = job
<1>1. print_sexp \/ PrintEnd \/ print_sexp_cstr \/ CstrEnd => job' = job
  BY DEF print_sexp, PrintEnd, print_sexp_cstr, CstrEnd
<1>2. PrintClose \/ PrintAtom \/ PrintList => job' = job
  BY AddKeepsJob DEF PrintClose, PrintAtom, PrintList
<1>3. PrintBinary => job' = job
  BY AddKeepsJob DEF PrintBinary, OutOfSpace, Overrun
<1>4. CstrClose \/ CstrAtom \/ CstrBinary \/ CstrList => job' = job
  BY AddKeepsJob DEF CstrClose, CstrAtom, CstrBinary, CstrList
<1> QED
  BY <1>1, <1>2, <1>3, <1>4 DEF Next

LEMMA OpsInitInv == OpsInit => OpsInv
  BY DEF OpsInit, Init, OpsInv, Answered

LEMMA OpsNextInv == OpsInv /\ [OpsNext]_<<vars, answer>> => OpsInv'
<1> SUFFICES ASSUME OpsInv, [OpsNext]_<<vars, answer>> PROVE OpsInv'
  OBVIOUS
<1>1. job \in Jobs /\ Answered
  BY DEF OpsInv
<1>2. CASE (Next /\ UNCHANGED answer) \/ UNCHANGED <<vars, answer>>
  <2>1. job' = job /\ answer' = answer
    BY <1>2, NextKeepsJob DEF vars
  <2> QED
    BY <1>1, <2>1 DEF OpsInv, Answered
<1>3. CASE Ask
  <2>1. job' = job
    BY <1>3 DEF Ask, Find, BfsFind, Copy, Asked
  <2>2. CASE \E name \in Names : Find(name)
    <3>1. PICK name \in Names : Find(name)
      BY <2>2
    <3>2. answer' = [op |-> "find", name |-> name, at |-> find_sexp[job.sx][name]]
      BY <3>1 DEF Find
    <3> QED
      BY <1>1, <2>1, <3>2 DEF OpsInv, Answered
  <2>3. CASE \E name \in Names : BfsFind(name)
    <3>1. PICK name \in Names : BfsFind(name)
      BY <2>3
    <3>2. answer' = [op |-> "bfs", name |-> name, at |-> bfs_find_sexp(name, job.sx)]
      BY <3>1 DEF BfsFind
    <3> QED
      BY <1>1, <2>1, <3>2 DEF OpsInv, Answered
  <2>4. CASE \E fail \in Refusals : Copy(fail)
    <3>1. PICK fail \in Refusals : Copy(fail)
      BY <2>4
    <3>2. answer' = [op |-> "copy", fail |-> fail, result |-> copy_sexp[job.sx][fail][0]]
      BY <3>1 DEF Copy
    <3> QED
      BY <1>1, <2>1, <3>2 DEF OpsInv, Answered
  <2> QED
    BY <1>3, <2>2, <2>3, <2>4 DEF Ask
<1> QED
  BY <1>2, <1>3 DEF OpsNext

LEMMA OpsAsked ==
  ASSUME OpsInv
  PROVE  /\ job.sx \in Seq(Tree)
         /\ answer.op = "find" => /\ answer.name \in Seq(Char)
                                  /\ answer.at = find_sexp[job.sx][answer.name]
         /\ answer.op = "bfs" => /\ answer.name \in Seq(Char)
                                 /\ answer.at = bfs_find_sexp(answer.name, job.sx)
         /\ answer.op = "copy" => /\ answer.fail \in Nat
                                  /\ answer.result = copy_sexp[job.sx][answer.fail][0]
<1>1. job.sx \in Seq(Tree)
  BY JobsAssumption DEF OpsInv
<1>2. \/ answer.op = "none"
      \/ \E name \in Names :
           \/ answer.op = "find" /\ answer.name = name /\ answer.at = find_sexp[job.sx][name]
           \/ answer.op = "bfs" /\ answer.name = name /\ answer.at = bfs_find_sexp(name, job.sx)
      \/ \E fail \in Refusals :
           answer.op = "copy" /\ answer.fail = fail /\ answer.result = copy_sexp[job.sx][fail][0]
  <2>1. CASE answer = [op |-> "none"]
    BY <2>1
  <2>2. ASSUME NEW name \in Names,
               answer = [op |-> "find", name |-> name, at |-> find_sexp[job.sx][name]]
        PROVE  answer.op = "find" /\ answer.name = name /\ answer.at = find_sexp[job.sx][name]
    BY <2>2
  <2>3. ASSUME NEW name \in Names,
               answer = [op |-> "bfs", name |-> name, at |-> bfs_find_sexp(name, job.sx)]
        PROVE  answer.op = "bfs" /\ answer.name = name /\ answer.at = bfs_find_sexp(name, job.sx)
    BY <2>3
  <2>4. ASSUME NEW fail \in Refusals,
               answer = [op |-> "copy", fail |-> fail, result |-> copy_sexp[job.sx][fail][0]]
        PROVE  answer.op = "copy" /\ answer.fail = fail /\ answer.result = copy_sexp[job.sx][fail][0]
    BY <2>4
  <2>5. Answered
    BY DEF OpsInv
  <2> QED
    BY <2>1, <2>2, <2>3, <2>4, <2>5 DEF Answered
<1>3. Names \subseteq Seq(Char) /\ Refusals \subseteq Nat
  BY NamesAssumption, RefusalsAssumption
<1>4. CASE answer.op = "none"
  BY <1>1, <1>4
<1>5. CASE answer.op # "none"
  BY <1>1, <1>2, <1>3, <1>5
<1> QED
  BY <1>4, <1>5

(* find_sexp returns the earliest atom of the text with that value, and     *)
(* NULL only if there is none, whatever the expression and the name.        *)
THEOREM FindSexpFindsFirst == OpsSpec => []FindsFirst
<1>1. ASSUME OpsInv PROVE FindsFirst
  <2>1. ASSUME answer.op = "find"
        PROVE  FindsIn(job.sx, answer.name) /\ answer.at = find_sexp[job.sx][answer.name]
    BY <1>1, <2>1, OpsAsked, FindFinds
  <2> QED
    BY <2>1 DEF FindsFirst, FindsIn
<1> QED
  BY <1>1, OpsInitInv, OpsNextInv, PTL DEF OpsSpec

(* bfs_find_sexp finds an atom if there is one, the first in the order of   *)
(* its search, whatever the expression and the name.                        *)
THEOREM BfsFindSexpFindsInOrder == OpsSpec => []BfsFindsInOrder
<1>1. ASSUME OpsInv PROVE BfsFindsInOrder
  <2>1. ASSUME answer.op = "bfs" PROVE Best(answer.at, Found(job.sx, answer.name))
    <3>1. /\ job.sx \in Seq(Tree) /\ answer.name \in Seq(Char)
          /\ answer.at = bfs_find_sexp(answer.name, job.sx)
      BY <1>1, <2>1, OpsAsked
    <3> QED
      BY <3>1, BfsFinds
  <2> QED
    BY <2>1 DEF BfsFindsInOrder, Best
<1> QED
  BY <1>1, OpsInitInv, OpsNextInv, PTL DEF OpsSpec

(* copy_sexp copies the whole expression or reports, whatever the           *)
(* expression and whichever allocation is refused; a report has a cause,    *)
(* and a copy that is not whole only lacks ends of lists.                   *)
THEOREM CopySexpCopiesOrReports == OpsSpec => []CopiesOrReports
<1>1. ASSUME OpsInv PROVE CopiesOrReports
  <2>1. ASSUME answer.op = "copy"
        PROVE  CopiedWell(answer.result, Elements[job.sx], answer.fail, 0)
    <3>1. /\ job.sx \in Seq(Tree) /\ answer.fail \in Nat
          /\ answer.result = copy_sexp[job.sx][answer.fail][0] /\ 0 \in Nat
      BY <1>1, <2>1, OpsAsked
    <3>2. CopiedWell(copy_sexp[job.sx][answer.fail][0], Elements[job.sx], answer.fail, 0)
      BY <3>1, CopyCopies DEF CopiesAll
    <3> QED
      BY <3>1, <3>2
  <2>2. (0 + 1) = 1
    OBVIOUS
  <2> QED
    BY <2>1, <2>2 DEF CopiesOrReports, CopiedWell, Headed, Precedes, HasEmpty
<1> QED
  BY <1>1, OpsInitInv, OpsNextInv, PTL DEF OpsSpec
=============================================================================
