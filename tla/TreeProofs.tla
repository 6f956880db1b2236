----------------------------- MODULE TreeProofs -----------------------------
(***************************************************************************)
(* Proofs about the tree the parser builds: the stack of open lists, the   *)
(* elements and who owns them, and the memory blocks.                      *)
(***************************************************************************)
EXTENDS ParserProofs, FiniteSetTheorems, WellFoundedInduction

(* The stack of open lists.  To StackShape the inductive invariant adds    *)
(* that the levels end in different elements, so that linking an element   *)
(* of one leaves the others alone, and that the stack is empty whenever an *)
(* expression waits to be taken.                                           *)
Shape(d, s, h, l) ==
  /\ Len(s) = (IF d = 0 THEN 0 ELSE d + 1)
  /\ \A i \in 1..Len(s) : (s[i].fst = NULL) <=> (s[i].lst = NULL)
  /\ \A i \in 1..Len(s) : s[i].lst # NULL => s[i].lst \in l
  /\ \A i \in 1..(Len(s) - 1) :
       s[i].lst # NULL /\ h[s[i].lst].ty = "LIST" /\ h[s[i].lst].list = NULL
  /\ \A i, j \in 1..Len(s) : i < j /\ s[i].lst # NULL => s[i].lst # s[j].lst
Stacked == Sound => Shape(Here.depth, stack, heap, live)
Handover ==
  /\ pc = "none" => stack = << >> /\ cc.last_sexp = NULL
  /\ cc.last_sexp # NULL => stack = << >> /\ cc.regs.depth = 0 /\ pc = "idle"
StackInv == ~May("push") /\ BufferInv /\ Stacked /\ Handover /\ cc.error # "BAD_STACK"

LEMMA StackedShape == ASSUME Stacked PROVE StackShape
  BY DEF Stacked, Shape, StackShape

LEMMA EmptyShape == ASSUME NEW h, NEW l PROVE Shape(0, << >>, h, l)
  BY DEF Shape

(* A new element is not one of those in use, and what linking it changes.  *)
LEMMA NewElemFresh == ASSUME live \subseteq Elem, Room PROVE NewElem \in Elem \ live
  BY DEF Room, NewElem

LEMMA StackWithIs ==
  ASSUME TreeOK, stack # << >>, NEW e
  PROVE  /\ Len(StackWith(e)) = Len(stack) /\ Len(stack) \in Nat \ {0}
         /\ \A i \in 1..(Len(stack) - 1) : StackWith(e)[i] = stack[i]
         /\ StackWith(e)[Len(stack)].lst = e
         /\ StackWith(e)[Len(stack)].fst = IF Top.fst = NULL THEN e ELSE Top.fst
<1>1. stack \in Seq(Levels) /\ Len(stack) \in Nat \ {0} /\ DOMAIN stack = 1..Len(stack)
  BY DEF TreeOK
<1> DEFINE v == [fst |-> IF Top.fst = NULL THEN e ELSE Top.fst, lst |-> e]
<1>2. StackWith(e) = [stack EXCEPT ![Len(stack)] = v]
  BY DEF StackWith, Top
<1>3. v.lst = e /\ v.fst = IF Top.fst = NULL THEN e ELSE Top.fst
  OBVIOUS
<1> HIDE DEF v
<1>4. /\ \A i \in 1..(Len(stack) - 1) : StackWith(e)[i] = stack[i]
      /\ StackWith(e)[Len(stack)] = v
  <2>1. Len(stack) \in DOMAIN stack
    BY <1>1
  <2>2. \A i \in 1..(Len(stack) - 1) : i \in DOMAIN stack /\ i # Len(stack)
    <3>1. \A n \in Nat \ {0} : \A i \in 1..(n - 1) : i \in 1..n /\ i # n
      OBVIOUS
    <3> QED
      BY <1>1, <3>1, Zenon
  <2> QED
    BY <1>2, <2>1, <2>2, Zenon
<1>5. Len(StackWith(e)) = Len(stack)
  BY <1>1, <1>2
<1> QED
  BY <1>1, <1>3, <1>4, <1>5

LEMMA HeapWithIs ==
  ASSUME TreeOK, NEW e \in Elem \ live, NEW node \in Nodes,
         stack # << >> /\ Top.fst # NULL => Top.lst \in live
  PROVE  /\ HeapWith(e, node)[e] = node
         /\ \A x \in live :
              /\ HeapWith(e, node)[x].ty = heap[x].ty
              /\ HeapWith(e, node)[x].aty = heap[x].aty
              /\ HeapWith(e, node)[x].val = heap[x].val
              /\ HeapWith(e, node)[x].list = heap[x].list
              /\ HeapWith(e, node)[x].next =
                   IF stack # << >> /\ Top.fst # NULL /\ x = Top.lst THEN e ELSE heap[x].next
<1> DEFINE h == [heap EXCEPT ![e] = node]
<1>1. /\ heap \in [Elem -> Nodes] /\ live \subseteq Elem
      /\ h \in [Elem -> Nodes] /\ h[e] = node /\ \A x \in live : h[x] = heap[x]
  BY DEF TreeOK
<1>2. HeapWith(e, node) = IF stack = << >> THEN h
                          ELSE IF Top.fst = NULL THEN h ELSE [h EXCEPT ![Top.lst].next = e]
  BY DEF HeapWith
<1> HIDE DEF h
<1>3. CASE stack = << >> \/ Top.fst = NULL
  BY <1>1, <1>2, <1>3
<1>4. CASE stack # << >> /\ Top.fst # NULL
  <2> DEFINE y == Top.lst
             n == [h[y] EXCEPT !.next = e]
  <2>1. y \in live /\ y \in Elem /\ y # e
    BY <1>1, <1>4
  <2>2. HeapWith(e, node) = [h EXCEPT ![y] = n]
    BY <1>1, <1>2, <1>4, <2>1
  <2>3. h[y] \in Nodes
    BY <1>1, <2>1
  <2>4. /\ n.ty = h[y].ty /\ n.aty = h[y].aty /\ n.val = h[y].val /\ n.list = h[y].list
        /\ n.next = e
    BY <2>3 DEF Nodes
  <2> HIDE DEF n, y
  <2>5. /\ HeapWith(e, node)[y] = n
        /\ \A x \in Elem : x # y => HeapWith(e, node)[x] = h[x]
    BY <1>1, <2>1, <2>2
  <2>6. ASSUME NEW x \in live
        PROVE  /\ HeapWith(e, node)[x].ty = heap[x].ty
               /\ HeapWith(e, node)[x].aty = heap[x].aty
               /\ HeapWith(e, node)[x].val = heap[x].val
               /\ HeapWith(e, node)[x].list = heap[x].list
               /\ HeapWith(e, node)[x].next = IF x = y THEN e ELSE heap[x].next
    <3>1. h[x] = heap[x] /\ x \in Elem
      BY <1>1
    <3>2. CASE x = y
      BY <2>4, <2>5, <3>1, <3>2
    <3>3. CASE x # y
      BY <2>5, <3>1, <3>3
    <3> QED
      BY <3>2, <3>3
  <2> QED
    BY <1>1, <1>4, <2>1, <2>5, <2>6 DEF y
<1> QED
  BY <1>3, <1>4

(* The top of the stack, in a state with the shape. *)
LEMMA ShapeTop ==
  ASSUME TreeOK, NEW d \in Nat, Shape(d, stack, heap, live)
  PROVE  /\ (stack = << >>) <=> (d = 0)
         /\ stack # << >> /\ Top.fst # NULL => Top.lst \in live
<1>1. Len(stack) \in Nat /\ stack \in Seq(Levels)
  BY DEF TreeOK
<1> QED
  BY <1>1 DEF Shape, Top

LEMMA ShapeAtom ==
  ASSUME TreeOK, NEW d \in Nat, Shape(d, stack, heap, live), NEW e \in Elem \ live,
         NEW node \in Nodes
  PROVE  Shape(d, StackWith(e), HeapWith(e, node), live \cup {e})
<1>0. live \subseteq Elem /\ NULL \notin Elem
  BY ElemAssumption DEF TreeOK
<1>1. CASE stack = << >>
  <2>1. d = 0 /\ StackWith(e) = << >>
    BY <1>1, ShapeTop DEF StackWith
  <2> QED
    BY <2>1, EmptyShape
<1>2. CASE stack # << >>
  <2> DEFINE s == StackWith(e)
             h == HeapWith(e, node)
             n == Len(stack)
  <2>1. /\ Len(s) = n /\ n \in Nat \ {0}
        /\ \A i \in 1..(n - 1) : s[i] = stack[i]
        /\ s[n].lst = e /\ s[n].fst = IF Top.fst = NULL THEN e ELSE Top.fst
    BY <1>2, StackWithIs
  <2>2. \A x \in live : h[x].ty = heap[x].ty /\ h[x].list = heap[x].list
    BY HeapWithIs, ShapeTop
  <2>3. /\ n = (IF d = 0 THEN 0 ELSE d + 1)
        /\ \A i \in 1..n : (stack[i].fst = NULL) <=> (stack[i].lst = NULL)
        /\ \A i \in 1..n : stack[i].lst # NULL => stack[i].lst \in live
        /\ \A i \in 1..(n - 1) :
             stack[i].lst # NULL /\ heap[stack[i].lst].ty = "LIST" /\ heap[stack[i].lst].list = NULL
        /\ \A i, j \in 1..n : i < j /\ stack[i].lst # NULL => stack[i].lst # stack[j].lst
    BY DEF Shape
  <2> HIDE DEF s, h, n
  <2>4. \A i \in 1..n : i = n \/ i \in 1..(n - 1)
    BY <2>1
  <2>5. \A i \in 1..n : (s[i].fst = NULL) <=> (s[i].lst = NULL)
    BY <1>0, <2>1, <2>3, <2>4
  <2>6. \A i \in 1..n : s[i].lst # NULL => s[i].lst \in live \cup {e}
    BY <2>1, <2>3, <2>4
  <2>7. \A i \in 1..(n - 1) : i \in 1..n /\ stack[i].lst \in live /\ s[i] = stack[i]
    BY <2>1, <2>3
  <2>8. \A i \in 1..(n - 1) : s[i].lst # NULL /\ h[s[i].lst].ty = "LIST" /\ h[s[i].lst].list = NULL
    BY <2>2, <2>3, <2>7
  <2>9. ASSUME NEW i \in 1..n, NEW j \in 1..n, i < j, s[i].lst # NULL
        PROVE  s[i].lst # s[j].lst
    <3>1. i \in 1..(n - 1)
      BY <2>1, <2>9
    <3>2. CASE j = n
      BY <1>0, <2>1, <2>7, <3>1, <3>2
    <3>3. CASE j \in 1..(n - 1)
      BY <2>3, <2>7, <2>9, <3>1, <3>3
    <3> QED
      BY <2>4, <3>2, <3>3
  <2>10. Shape(d, s, h, live \cup {e})
    BY <2>1, <2>3, <2>5, <2>6, <2>8, <2>9 DEF Shape
  <2> QED
    BY <2>10 DEF s, h
<1> QED
  BY <1>1, <1>2

(* Opening a list inside another, and at the bottom. *)
LEMMA AppendIs ==
  ASSUME NEW S, NEW s \in Seq(S), NEW v \in S
  PROVE  /\ Len(Append(s, v)) = Len(s) + 1 /\ Len(s) \in Nat
         /\ \A i \in 1..Len(s) : Append(s, v)[i] = s[i]
         /\ Append(s, v)[Len(s) + 1] = v
  OBVIOUS

EmptyLevel == [fst |-> NULL, lst |-> NULL]

LEMMA EmptyLevelIs == EmptyLevel \in Levels /\ EmptyLevel.fst = NULL /\ EmptyLevel.lst = NULL
  BY DEF EmptyLevel, Levels, Ptr

LEMMA ShapePush ==
  ASSUME NEW d \in Nat \ {0}, NEW s \in Seq(Levels), NEW h, NEW l, Shape(d, s, h, l),
         NEW e, e # NULL, s[Len(s)].lst = e, h[e].ty = "LIST", h[e].list = NULL
  PROVE  Shape(d + 1, Append(s, EmptyLevel), h, l)
<1> DEFINE q == Append(s, EmptyLevel)
           n == Len(s)
<1>1. /\ Len(q) = n + 1 /\ n \in Nat /\ \A i \in 1..n : q[i] = s[i]
      /\ q[n + 1] = EmptyLevel
  BY AppendIs, EmptyLevelIs
<1>2. /\ n = d + 1
      /\ \A i \in 1..n : (s[i].fst = NULL) <=> (s[i].lst = NULL)
      /\ \A i \in 1..n : s[i].lst # NULL => s[i].lst \in l
      /\ \A i \in 1..(n - 1) : s[i].lst # NULL /\ h[s[i].lst].ty = "LIST" /\ h[s[i].lst].list = NULL
      /\ \A i, j \in 1..n : i < j /\ s[i].lst # NULL => s[i].lst # s[j].lst
  BY DEF Shape
<1>3. s[n].lst = e
  OBVIOUS
<1> HIDE DEF q, n
<1>4. \A i \in 1..(n + 1) : i = n + 1 \/ i \in 1..n
  BY <1>1
<1>5. \A i \in 1..n : i = n \/ i \in 1..(n - 1)
  BY <1>1
<1>6. /\ \A i \in 1..(n + 1) : (q[i].fst = NULL) <=> (q[i].lst = NULL)
      /\ \A i \in 1..(n + 1) : q[i].lst # NULL => q[i].lst \in l
  BY <1>1, <1>2, <1>4, EmptyLevelIs
<1>7. \A i \in 1..n : q[i].lst # NULL /\ h[q[i].lst].ty = "LIST" /\ h[q[i].lst].list = NULL
  BY <1>1, <1>2, <1>3, <1>5
<1>8. ASSUME NEW i \in 1..(n + 1), NEW j \in 1..(n + 1), i < j, q[i].lst # NULL
      PROVE  q[i].lst # q[j].lst
  <2>1. i \in 1..n /\ q[i] = s[i]
    BY <1>1, <1>8
  <2>2. CASE j = n + 1
    BY <1>1, <1>8, <2>2, EmptyLevelIs
  <2>3. CASE j \in 1..n
    BY <1>1, <1>2, <1>8, <2>1, <2>3
  <2> QED
    BY <1>4, <2>2, <2>3
<1>9. Len(q) = d + 1 + 1 /\ Len(q) - 1 = n /\ Len(q) = n + 1 /\ d + 1 # 0
  BY <1>1, <1>2
<1>10. Shape(d + 1, q, h, l)
  BY <1>6, <1>7, <1>8, <1>9 DEF Shape
<1> QED
  BY <1>10 DEF q

LEMMA ShapeBottom ==
  ASSUME NEW e \in Elem, NEW h, h[e].ty = "LIST", h[e].list = NULL, NEW l, e \in l
  PROVE  Shape(1, Append(<< [fst |-> e, lst |-> e] >>, EmptyLevel), h, l)
<1> DEFINE b == [fst |-> e, lst |-> e]
           q == Append(<< b >>, EmptyLevel)
<1>1. b \in Levels /\ b.fst = e /\ b.lst = e /\ e # NULL
  BY ElemAssumption DEF Levels, Ptr
<1> HIDE DEF b
<1>2. << b >> \in Seq(Levels) /\ Len(<< b >>) = 1 /\ << b >>[1] = b
  BY <1>1
<1>3. Len(q) = 2 /\ q[1] = b /\ q[2] = EmptyLevel
  BY <1>2, AppendIs, EmptyLevelIs
<1> HIDE DEF q
<1>4. \A i \in 1..2 : i = 1 \/ i = 2
  OBVIOUS
<1>5. \A i \in 1..(2 - 1) : i = 1
  OBVIOUS
<1>6. Shape(1, q, h, l)
  BY <1>1, <1>3, <1>4, <1>5, EmptyLevelIs DEF Shape
<1> QED
  BY <1>6 DEF q, b

(* Closing a list that is inside another. *)
LEMMA BelowIs ==
  ASSUME TreeOK, stack # << >>
  PROVE  LET below == SubSeq(stack, 1, Len(stack) - 1)
         IN  /\ below \in Seq(Levels) /\ Len(below) = Len(stack) - 1
             /\ Len(stack) \in Nat \ {0}
             /\ \A i \in 1..(Len(stack) - 1) : below[i] = stack[i]
<1>1. stack \in Seq(Levels) /\ Len(stack) \in Nat /\ Len(stack) > 0
  BY DEF TreeOK
<1>2. PICK n \in Nat : n = Len(stack) - 1
  BY <1>1
<1>3. /\ SubSeq(stack, 1, n) \in Seq(Levels) /\ Len(SubSeq(stack, 1, n)) = n
      /\ \A i \in 1..n : SubSeq(stack, 1, n)[i] = stack[i]
  BY <1>1, <1>2
<1> QED
  BY <1>1, <1>2, <1>3

LEMMA LinkedIs ==
  ASSUME TreeOK, NEW x \in live, NEW f
  PROVE  LET h == [heap EXCEPT ![x].list = f]
         IN  \A y \in live :
               /\ h[y].ty = heap[y].ty /\ h[y].aty = heap[y].aty /\ h[y].val = heap[y].val
               /\ h[y].next = heap[y].next
               /\ h[y].list = IF y = x THEN f ELSE heap[y].list
<1> DEFINE n == [heap[x] EXCEPT !.list = f]
           h == [heap EXCEPT ![x] = n]
<1>1. heap \in [Elem -> Nodes] /\ live \subseteq Elem /\ x \in Elem
  BY DEF TreeOK
<1>2. heap[x] \in Nodes
  BY <1>1
<1>3. /\ n.ty = heap[x].ty /\ n.aty = heap[x].aty /\ n.val = heap[x].val
      /\ n.next = heap[x].next /\ n.list = f
  BY <1>2 DEF Nodes
<1>4. [heap EXCEPT ![x].list = f] = h
  BY <1>1
<1> HIDE DEF n
<1>5. h[x] = n /\ \A y \in live : y # x => h[y] = heap[y]
  BY <1>1
<1> HIDE DEF h
<1>6. ASSUME NEW y \in live
      PROVE  /\ h[y].ty = heap[y].ty /\ h[y].aty = heap[y].aty /\ h[y].val = heap[y].val
             /\ h[y].next = heap[y].next
             /\ h[y].list = IF y = x THEN f ELSE heap[y].list
  BY <1>3, <1>5
<1> QED
  BY <1>4, <1>6

LEMMA ShapeClose ==
  ASSUME TreeOK, NEW d \in Nat \ {0}, Shape(d, stack, heap, live)
  PROVE  LET below == SubSeq(stack, 1, Len(stack) - 1)
             x == below[Len(below)].lst
         IN  /\ below # << >> /\ x = stack[Len(stack) - 1].lst /\ x \in live
             /\ heap[x].list = NULL
             /\ d > 1 => Shape(d - 1, below, [heap EXCEPT ![x].list = Top.fst], live)
<1> DEFINE below == SubSeq(stack, 1, Len(stack) - 1)
           x == below[Len(below)].lst
           h == [heap EXCEPT ![x].list = Top.fst]
           n == Len(stack)
<1>1. /\ n = d + 1
      /\ \A i \in 1..n : (stack[i].fst = NULL) <=> (stack[i].lst = NULL)
      /\ \A i \in 1..n : stack[i].lst # NULL => stack[i].lst \in live
      /\ \A i \in 1..(n - 1) :
           stack[i].lst # NULL /\ heap[stack[i].lst].ty = "LIST" /\ heap[stack[i].lst].list = NULL
      /\ \A i, j \in 1..n : i < j /\ stack[i].lst # NULL => stack[i].lst # stack[j].lst
  BY DEF Shape
<1>2. stack # << >>
  BY <1>1
<1>3. below \in Seq(Levels) /\ Len(below) = n - 1 /\ \A i \in 1..(n - 1) : below[i] = stack[i]
  BY <1>2, BelowIs
<1>4. n - 1 = d /\ n - 1 \in 1..(n - 1) /\ n - 1 \in 1..n /\ n \in Nat
  BY <1>1
<1>5. below # << >>
  BY <1>3, <1>4
<1>6. x = stack[n - 1].lst
  BY <1>3, <1>4
<1>7. x \in live /\ heap[x].list = NULL
  BY <1>1, <1>4, <1>6
<1> HIDE DEF x
<1>8. \A y \in live : h[y].ty = heap[y].ty /\ (y # x => h[y].list = heap[y].list)
  BY <1>7, LinkedIs
<1> HIDE DEF below, h, n
<1>9. ASSUME d > 1 PROVE Shape(d - 1, below, h, live)
  <2>1. Len(below) = d /\ d - 1 # 0 /\ d - 1 + 1 = d /\ \A i \in 1..d : i \in 1..n
    BY <1>3, <1>4, <1>9
  <2>2. \A i \in 1..d : below[i] = stack[i]
    BY <1>3, <1>4
  <2>3. /\ \A i \in 1..d : (below[i].fst = NULL) <=> (below[i].lst = NULL)
        /\ \A i \in 1..d : below[i].lst # NULL => below[i].lst \in live
    BY <1>1, <2>1, <2>2
  <2>4. \A i, j \in 1..d : i < j /\ below[i].lst # NULL => below[i].lst # below[j].lst
    BY <1>1, <2>1, <2>2
  <2>5. ASSUME NEW i \in 1..(d - 1)
        PROVE  below[i].lst # NULL /\ h[below[i].lst].ty = "LIST" /\ h[below[i].lst].list = NULL
    <3>1. i \in 1..(n - 1) /\ i \in 1..n /\ i < n - 1 /\ i \in 1..d
      BY <1>4
    <3>2. stack[i].lst # NULL /\ stack[i].lst \in live /\ stack[i].lst # x
      BY <1>1, <1>4, <1>6, <3>1
    <3>3. heap[stack[i].lst].ty = "LIST" /\ heap[stack[i].lst].list = NULL
      BY <1>1, <3>1
    <3> QED
      BY <1>8, <2>2, <3>1, <3>2, <3>3
  <2> QED
    BY <2>1, <2>3, <2>4, <2>5 DEF Shape
<1> QED
  BY <1>5, <1>6, <1>7, <1>9 DEF below, x, h, n
-----------------------------------------------------------------------------
(* Each step keeps the shape. *)
StackPart == Stacked /\ Handover /\ cc.error # "BAD_STACK"

LEMMA LoopShape ==
  ASSUME StackInv, pc = "loop"
  PROVE  /\ Shape(rg.depth, stack, heap, live) /\ cc.last_sexp = NULL
         /\ rg.depth \in Nat /\ TreeOK /\ BufferInv /\ live \subseteq Elem
  BY LoopFacts DEF StackInv, Stacked, Handover, Sound, Here, BufferInv, TreeOK, Regs

LEMMA StepRest ==
  ASSUME StackInv, pc = "loop", NEW r, NEW p, Step(r, p), Shape(r.depth, stack', heap', live')
  PROVE  StackPart'
<1>1. pc' = "loop" /\ cc' = cc /\ rg' = r
  BY DEF Step
<1>2. Here' = r
  BY <1>1 DEF Here
<1>3. Stacked'
  BY <1>2 DEF Stacked
<1> QED
  BY <1>1, <1>3, LoopShape DEF StackPart, Handover, StackInv

LEMMA ReturnRest ==
  ASSUME NEW err, NEW r, NEW p, NEW ls, Return(err, r, p, ls), err # "BAD_STACK",
         err = "MEMORY" \/ Shape(r.depth, stack', heap', live'),
         ls # NULL => stack' = << >> /\ r.depth = 0
  PROVE  StackPart'
<1>1. pc' = "idle" /\ cc'.regs = r /\ cc'.last_sexp = ls /\ cc'.error = err
  BY DEF Return
<1>2. Here' = r /\ (Sound' => err # "MEMORY")
  BY <1>1 DEF Here, Sound
<1>3. Stacked'
  BY <1>2 DEF Stacked
<1>4. Handover'
  BY <1>1 DEF Handover
<1> QED
  BY <1>1, <1>3, <1>4 DEF StackPart

LEMMA UndefinedRest == ASSUME StackInv, pc = "loop", Undefined PROVE StackPart'
<1>1. pc' = "undefined" /\ cc' = cc
  BY DEF Undefined
<1> QED
  BY <1>1, LoopShape DEF StackPart, Stacked, Sound, Handover, StackInv

LEMMA KindRest == ASSUME StackInv, pc = "loop", Kind PROVE StackPart'
<1>0. /\ Shape(rg.depth, stack, heap, live) /\ rg.depth \in Nat /\ TreeOK
      /\ live \subseteq Elem
  BY LoopShape
<1>1. CASE GoesOn
  <2>1. PICK r, p : Kept(r) /\ Step(r, p) /\ SameTree
    BY <1>1 DEF GoesOn
  <2>2. Shape(r.depth, stack', heap', live')
    BY <1>0, <2>1 DEF Kept, SameTree
  <2> QED
    BY <2>1, <2>2, StepRest
<1>2. CASE Stops
  <2>1. PICK err, r, p :
          /\ Return(err, r, p, NULL) /\ SameTree
          /\ (err \in {"BADFORM", "INCOMPLETE"} /\ Kept(r)) \/ err = "MEMORY"
    BY <1>2 DEF Stops
  <2>2. err = "MEMORY" \/ Shape(r.depth, stack', heap', live')
    BY <1>0, <2>1 DEF Kept, SameTree
  <2>3. err # "BAD_STACK"
    BY <2>1
  <2> QED
    BY <2>1, <2>2, <2>3, ReturnRest
<1>3. CASE MakesAtom
  <2>1. PICK r, p, node :
          /\ Kept(r) /\ node \in Nodes /\ Room /\ live' = live \cup {NewElem}
          /\ heap' = HeapWith(NewElem, node) /\ stack' = StackWith(NewElem)
          /\ Step(r, p) \/ (stack = << >> /\ Return("OK", r, p, NewElem))
    BY <1>3 DEF MakesAtom
  <2>2. NewElem \in Elem \ live
    BY <1>0, <2>1, NewElemFresh
  <2>3. r.depth = rg.depth
    BY <2>1 DEF Kept
  <2>4. Shape(rg.depth, StackWith(NewElem), HeapWith(NewElem, node), live \cup {NewElem})
    BY <1>0, <2>1, <2>2, ShapeAtom
  <2>5. Shape(r.depth, stack', heap', live')
    BY <2>1, <2>3, <2>4
  <2>6. CASE Step(r, p)
    BY <2>5, <2>6, StepRest
  <2>7. CASE stack = << >> /\ Return("OK", r, p, NewElem)
    <3>1. stack' = << >> /\ r.depth = 0
      BY <1>0, <2>1, <2>3, <2>7, ShapeTop DEF StackWith
    <3> QED
      BY <2>5, <2>7, <3>1, ReturnRest
  <2> QED
    BY <2>1, <2>6, <2>7
<1>4. CASE Undefined
  BY <1>4, UndefinedRest
<1> QED
  BY <1>1, <1>2, <1>3, <1>4 DEF Kind

(* What case 2 does when no push fails. *)
OpensList ==
  LET r == [rg EXCEPT !.depth = @ + 1]
      e == NewElem
      s1 == IF stack = << >> THEN << [fst |-> e, lst |-> e] >> ELSE StackWith(e)
      n1 == IF stack = << >> THEN 1 ELSE 0
  IN  /\ Room /\ live' = live \cup {e} /\ heap' = HeapWith(e, FreeNode)
      /\ \/ Return("MEMORY", r, t, NULL) /\ stack' = s1 /\ blocks' = blocks + n1
         \/ /\ Step([r EXCEPT !.state = 1], t) /\ stack' = Append(s1, EmptyLevel)
            /\ blocks' = blocks + n1 + 1 /\ elts' = elts + 1 /\ sx' = e

LEMMA Case2Opens ==
  ASSUME ~May("push"), Case2
  PROVE  \/ Return("MEMORY", [rg EXCEPT !.depth = @ + 1], t, NULL) /\ UNCHANGED tree
         \/ OpensList
<1>1. PushFailures = {{}}
  BY DEF PushFailures
<1>2. ASSUME NEW failed \in PushFailures PROVE 1 \notin failed /\ 2 \notin failed
  BY <1>1
<1>3. \A v : Append(<< >>, v) = << v >>
  OBVIOUS
<1> QED
  BY <1>2, <1>3 DEF Case2, OpensList, Pushed, EmptyLevel

LEMMA DepthUp ==
  ASSUME NEW r \in Regs
  PROVE  LET k == [r EXCEPT !.depth = @ + 1]
         IN  /\ k.depth = r.depth + 1 /\ [k EXCEPT !.state = 1].depth = r.depth + 1
             /\ k \in Regs /\ k.hasval = r.hasval /\ k.hasbin = r.hasbin
<1> DEFINE d == r.depth + 1
           k == [r EXCEPT !.depth = d]
<1>1. d \in Nat
  BY DEF Regs
<1> HIDE DEF d
<1>2. /\ k.depth = d /\ [k EXCEPT !.state = 1].depth = d
      /\ k \in Regs /\ k.hasval = r.hasval /\ k.hasbin = r.hasbin
  BY <1>1 DEF Regs
<1> QED
  BY <1>2 DEF d

LEMMA FreeNodeIs ==
  /\ FreeNode \in Nodes /\ FreeNode.ty = "LIST" /\ FreeNode.list = NULL /\ FreeNode.next = NULL
  BY DEF FreeNode, Node, Nodes, Ptr

LEMMA Case2Rest == ASSUME StackInv, Case2 PROVE StackPart'
<1>0. /\ pc = "loop" /\ Shape(rg.depth, stack, heap, live) /\ rg.depth \in Nat /\ TreeOK
      /\ live \subseteq Elem /\ rg \in Regs /\ ~May("push")
  BY LoopShape, LoopFacts DEF Case2, Case, StackInv
<1> DEFINE r == [rg EXCEPT !.depth = @ + 1]
           e == NewElem
           s1 == IF stack = << >> THEN << [fst |-> e, lst |-> e] >> ELSE StackWith(e)
<1>1. \/ Return("MEMORY", r, t, NULL)
      \/ /\ Room /\ live' = live \cup {e} /\ heap' = HeapWith(e, FreeNode)
         /\ Step([r EXCEPT !.state = 1], t) /\ stack' = Append(s1, EmptyLevel)
  BY <1>0, Case2Opens DEF OpensList
<1>2. r.depth = rg.depth + 1 /\ [r EXCEPT !.state = 1].depth = rg.depth + 1
  BY <1>0, DepthUp
<1>3. CASE Return("MEMORY", r, t, NULL)
  BY <1>3, ReturnRest
<1>4. CASE /\ Room /\ live' = live \cup {e} /\ heap' = HeapWith(e, FreeNode)
           /\ Step([r EXCEPT !.state = 1], t) /\ stack' = Append(s1, EmptyLevel)
  <2>1. e \in Elem \ live /\ e # NULL
    BY <1>0, <1>4, NewElemFresh, ElemAssumption
  <2>2. heap'[e] = FreeNode
    BY <1>0, <1>4, <2>1, HeapWithIs, FreeNodeIs, ShapeTop
  <2>3. e \in live' /\ heap'[e].ty = "LIST" /\ heap'[e].list = NULL
    BY <1>4, <2>2, FreeNodeIs
  <2>4. Shape(rg.depth + 1, stack', heap', live')
    <3>1. CASE stack = << >>
      <4>1. rg.depth = 0
        BY <1>0, <3>1, ShapeTop
      <4>2. stack' = Append(<< [fst |-> e, lst |-> e] >>, EmptyLevel)
        BY <1>4, <3>1
      <4>3. Shape(1, Append(<< [fst |-> e, lst |-> e] >>, EmptyLevel), heap', live')
        BY <2>1, <2>3, ShapeBottom
      <4> QED
        BY <4>1, <4>2, <4>3
    <3>2. CASE stack # << >>
      <4>1. rg.depth \in Nat \ {0}
        BY <1>0, <3>2, ShapeTop
      <4>2. s1 = StackWith(e) /\ s1 \in Seq(Levels)
        BY <1>0, <2>1, <3>2, StackWithOK
      <4>3. Shape(rg.depth, s1, heap', live')
        BY <1>0, <1>4, <2>1, <4>2, ShapeAtom, FreeNodeIs
      <4>4. s1[Len(s1)].lst = e
        BY <1>0, <3>2, <4>2, StackWithIs
      <4>5. stack' = Append(s1, EmptyLevel)
        BY <1>4
      <4> HIDE DEF s1
      <4>6. Shape(rg.depth + 1, Append(s1, EmptyLevel), heap', live')
        BY <2>1, <2>3, <4>1, <4>2, <4>3, <4>4, ShapePush
      <4> QED
        BY <4>5, <4>6
    <3> QED
      BY <3>1, <3>2
  <2> QED
    BY <1>0, <1>2, <1>4, <2>4, StepRest
<1> QED
  BY <1>1, <1>3, <1>4

(* What case 3 does when the stack has the shape. *)
ClosesList ==
  LET below == SubSeq(stack, 1, Len(stack) - 1)
      r == [rg EXCEPT !.depth = @ - 1]
      x == stack[Len(stack) - 1].lst
  IN  /\ rg.depth # 0 /\ x \in live /\ heap[x].list = NULL
      /\ live' = live /\ heap' = [heap EXCEPT ![x].list = Top.fst]
      /\ \/ /\ rg.depth = 1
            /\ Return("OK", [r EXCEPT !.esc = 0, !.state = 1], t + 1, stack[1].fst)
            /\ stack' = << >> /\ blocks' = blocks - Len(stack)
         \/ /\ rg.depth > 1
            /\ Step([r EXCEPT !.state = 1], t + 1)
            /\ stack' = below /\ blocks' = blocks - 1
            /\ elts' = elts

LEMMA Case3Closes ==
  ASSUME StackInv, Case3
  PROVE  \/ /\ rg.depth = 0
            /\ Return("BADFORM", [rg EXCEPT !.esc = 0, !.state = 1], t, NULL)
            /\ UNCHANGED tree
         \/ ClosesList
<1>0. /\ pc = "loop" /\ Shape(rg.depth, stack, heap, live) /\ rg.depth \in Nat /\ TreeOK
      /\ rg \in Regs
  BY LoopShape, LoopFacts DEF Case3, Case
<1>1. CASE rg.depth = 0
  BY <1>1 DEF Case3
<1>2. CASE rg.depth # 0
  <2> DEFINE below == SubSeq(stack, 1, Len(stack) - 1)
             x == stack[Len(stack) - 1].lst
             r == [rg EXCEPT !.depth = @ - 1]
  <2>1. /\ stack # << >> /\ below # << >> /\ below[Len(below)].lst = x
        /\ x \in live /\ heap[x].list = NULL
    BY <1>0, <1>2, ShapeTop, ShapeClose
  <2>2. r.depth = rg.depth - 1
    BY <1>0 DEF Regs
  <2>3. r.depth = 0 <=> rg.depth = 1
    BY <1>0, <2>2
  <2>4. r.depth # 0 => rg.depth > 1
    BY <1>0, <1>2, <2>2
  <2>5. /\ live' = live
        /\ heap' = [heap EXCEPT ![below[Len(below)].lst].list = Top.fst]
        /\ \/ /\ r.depth = 0
              /\ Return("OK", [r EXCEPT !.esc = 0, !.state = 1], t + 1, stack[1].fst)
              /\ stack' = << >> /\ blocks' = blocks - Len(stack)
           \/ /\ r.depth # 0
              /\ Step([r EXCEPT !.state = 1], t + 1)
              /\ stack' = below /\ blocks' = blocks - 1 /\ elts' = elts
    BY <1>2, <2>1 DEF Case3
  <2> QED
    BY <1>2, <2>1, <2>3, <2>4, <2>5 DEF ClosesList
<1> QED
  BY <1>1, <1>2

LEMMA DepthDown ==
  ASSUME NEW r \in Regs, r.depth > 0
  PROVE  LET k == [r EXCEPT !.depth = @ - 1]
         IN  /\ [k EXCEPT !.state = 1].depth = r.depth - 1
             /\ [k EXCEPT !.esc = 0, !.state = 1].depth = r.depth - 1
             /\ [r EXCEPT !.esc = 0, !.state = 1].depth = r.depth
  BY DEF Regs

LEMMA Case3Rest == ASSUME StackInv, Case3 PROVE StackPart'
<1>0. /\ pc = "loop" /\ Shape(rg.depth, stack, heap, live) /\ rg.depth \in Nat /\ TreeOK
      /\ rg \in Regs
  BY LoopShape, LoopFacts DEF Case3, Case
<1>1. CASE /\ rg.depth = 0 /\ Return("BADFORM", [rg EXCEPT !.esc = 0, !.state = 1], t, NULL)
           /\ UNCHANGED tree
  <2> DEFINE k == [rg EXCEPT !.esc = 0, !.state = 1]
  <2>1. k.depth = rg.depth
    BY <1>0 DEF Regs
  <2>2. Return("BADFORM", k, t, NULL)
    BY <1>1
  <2> HIDE DEF k
  <2>3. Shape(k.depth, stack', heap', live')
    BY <1>0, <1>1, <2>1 DEF tree
  <2> QED
    BY <2>2, <2>3, ReturnRest
<1>2. CASE ClosesList
  <2> DEFINE below == SubSeq(stack, 1, Len(stack) - 1)
             r == [rg EXCEPT !.depth = @ - 1]
             x == stack[Len(stack) - 1].lst
             k == [r EXCEPT !.esc = 0, !.state = 1]
             q == [r EXCEPT !.state = 1]
  <2>1. /\ rg.depth # 0 /\ live' = live /\ heap' = [heap EXCEPT ![x].list = Top.fst]
        /\ \/ /\ rg.depth = 1 /\ Return("OK", k, t + 1, stack[1].fst) /\ stack' = << >>
           \/ /\ rg.depth > 1 /\ Step(q, t + 1) /\ stack' = below
    BY <1>2 DEF ClosesList
  <2>2. k.depth = rg.depth - 1 /\ q.depth = rg.depth - 1
    BY <1>0, <2>1, DepthDown
  <2> HIDE DEF k, q
  <2>3. CASE rg.depth = 1 /\ Return("OK", k, t + 1, stack[1].fst) /\ stack' = << >>
    <3>1. k.depth = 0
      BY <2>2, <2>3
    <3>2. Shape(k.depth, stack', heap', live')
      BY <2>3, <3>1, EmptyShape
    <3> QED
      BY <2>3, <3>1, <3>2, ReturnRest
  <2>4. CASE rg.depth > 1 /\ Step(q, t + 1) /\ stack' = below
    <3>1. rg.depth \in Nat \ {0}
      BY <1>0, <2>1
    <3>2. Shape(rg.depth - 1, below, [heap EXCEPT ![x].list = Top.fst], live)
      BY <1>0, <2>4, <3>1, ShapeClose
    <3>3. Shape(q.depth, stack', heap', live')
      BY <2>1, <2>2, <2>4, <3>2
    <3> QED
      BY <1>0, <2>4, <3>3, StepRest
  <2> QED
    BY <2>1, <2>3, <2>4
<1> QED
  BY <1>1, <1>2, Case3Closes

LEMMA LoopExitRest == ASSUME StackInv, LoopExit PROVE StackPart'
<1>0. /\ pc = "loop" /\ Shape(rg.depth, stack, heap, live) /\ rg.depth \in Nat /\ TreeOK
      /\ rg \in Regs /\ UNCHANGED <<heap, live>>
  BY LoopShape, LoopFacts DEF LoopExit
<1>1. CASE Finished
  <2> DEFINE k == [rg EXCEPT !.esc = 0, !.state = 1]
             ls == IF stack = << >> THEN sx ELSE stack[1].fst
  <2>1. Return("OK", k, t, ls) /\ stack' = << >>
    BY <1>1 DEF LoopExit
  <2>2. k.depth = 0
    BY <1>0, <1>1 DEF Finished, Regs
  <2> HIDE DEF k, ls
  <2>3. Shape(k.depth, stack', heap', live')
    BY <2>1, <2>2, EmptyShape
  <2> QED
    BY <2>1, <2>2, <2>3, ReturnRest
<1>2. CASE ~Finished
  <2>1. \E p : Return("INCOMPLETE", rg, p, NULL) /\ UNCHANGED stack
    BY <1>2 DEF LoopExit
  <2>2. PICK p : Return("INCOMPLETE", rg, p, NULL) /\ UNCHANGED stack
    BY <2>1
  <2>3. Shape(rg.depth, stack', heap', live')
    BY <1>0, <2>2
  <2> QED
    BY <2>2, <2>3, ReturnRest
<1> QED
  BY <1>1, <1>2

LEMMA StepStack == ASSUME StackInv, ParserStep PROVE StackPart'
<1>1. pc = "loop" /\ (Kind \/ Case2 \/ Case3 \/ LoopExit)
  BY StepKind DEF StackInv
<1> QED
  BY <1>1, KindRest, Case2Rest, Case3Rest, LoopExitRest

(* The caller's steps. *)
LEMMA NewContinuationStack == ASSUME StackInv, NewContinuation PROVE StackPart'
<1>1. stack = << >> /\ cc.last_sexp = NULL /\ cc.regs.depth = 0 /\ pc = "none"
  BY DEF StackInv, Handover, NewContinuation, BufferInv, ControlInv, Fresh, InitRegs
<1>2. pc' # "loop" /\ pc' # "none" /\ UNCHANGED <<cc, stack, heap, live>>
  BY DEF NewContinuation
<1>3. Here' = cc.regs
  BY <1>2 DEF Here
<1>4. Stacked'
  BY <1>1, <1>2, <1>3, EmptyShape DEF Stacked
<1> QED
  BY <1>1, <1>2, <1>4 DEF StackPart, Handover, StackInv

LEMMA CallStack == ASSUME StackInv, Call PROVE StackPart'
<1>1. pc = "idle" /\ Resumable /\ pc' = "loop" /\ rg' = cc.regs
      /\ UNCHANGED <<cc, stack, heap, live>>
  BY DEF Call, tree
<1>2. Sound /\ Here = cc.regs /\ Here' = cc.regs
  BY <1>1 DEF Sound, Here, Resumable
<1>3. Stacked'
  BY <1>1, <1>2 DEF Stacked, StackInv
<1> QED
  BY <1>1, <1>3 DEF StackPart, Handover, Resumable, StackInv

LEMMA CallNullStack == ASSUME StackInv, CallNull PROVE StackPart'
<1>1. /\ pc = "idle" /\ pc' = "idle" /\ Resumable /\ UNCHANGED <<stack, heap, live>>
      /\ cc' = [cc EXCEPT !.error = "NULLSTRING", !.last_sexp = NULL]
  BY DEF CallNull, tree
<1>2. cc \in [regs : Regs, lastPos : Nat, last_sexp : Ptr, error : ErrCode]
  BY DEF StackInv, BufferInv, ControlInv, ControlOK
<1>3. cc'.regs = cc.regs /\ cc'.last_sexp = NULL /\ cc'.error = "NULLSTRING"
  BY <1>1, <1>2
<1>4. Sound /\ Here = cc.regs /\ Here' = cc.regs
  BY <1>1, <1>3 DEF Sound, Here, Resumable
<1>5. Stacked'
  BY <1>1, <1>4 DEF Stacked, StackInv
<1> QED
  BY <1>1, <1>3, <1>5 DEF StackPart, Handover

LEMMA TakeStack == ASSUME StackInv, Take PROVE StackPart'
<1>1. /\ pc = "idle" /\ pc' = "idle" /\ stack' = stack /\ cc.last_sexp # NULL
      /\ cc' = [cc EXCEPT !.last_sexp = NULL]
  BY DEF Take
<1>2. cc \in [regs : Regs, lastPos : Nat, last_sexp : Ptr, error : ErrCode]
  BY DEF StackInv, BufferInv, ControlInv, ControlOK
<1>3. cc'.regs = cc.regs /\ cc'.last_sexp = NULL /\ cc'.error = cc.error
  BY <1>1, <1>2
<1>4. stack' = << >> /\ cc'.regs.depth = 0
  BY <1>1, <1>3 DEF StackInv, Handover
<1>5. Stacked'
  <2>1. Here' = cc'.regs
    BY <1>1 DEF Here
  <2> QED
    BY <1>4, <2>1, EmptyShape DEF Stacked
<1> QED
  BY <1>1, <1>3, <1>5 DEF StackPart, Handover, StackInv

LEMMA DestroyContinuationStack == ASSUME StackInv, DestroyContinuation PROVE StackPart'
<1>1. pc' = "done" /\ cc' = cc /\ cc.last_sexp = NULL
  BY DEF DestroyContinuation
<1> QED
  BY <1>1 DEF StackPart, Stacked, Sound, Handover, StackInv

LEMMA InitStack == ASSUME Init, ~May("push") PROVE StackInv
<1>1. pc = "none" /\ stack = << >> /\ cc.last_sexp = NULL /\ cc.error = "OK"
  BY DEF Init
<1> QED
  BY <1>1, InitBuffer DEF StackInv, Stacked, Sound, Handover

LEMMA NextStack == StackInv /\ [Next]_vars => StackInv'
<1> SUFFICES ASSUME StackInv, [Next]_vars PROVE StackInv'
  OBVIOUS
<1>1. BufferInv' /\ (~May("push"))'
  BY NextBuffer DEF StackInv, May
<1>2. CASE UNCHANGED vars
  <2>1. UNCHANGED <<pc, rg, cc, stack, heap, live>>
    BY <1>2 DEF vars, tree
  <2>2. StackPart'
    BY <2>1 DEF StackInv, StackPart, Stacked, Handover, Sound, Here
  <2> QED
    BY <1>1, <2>2 DEF StackInv, StackPart
<1>3. CASE Next /\ ~UNCHANGED vars
  <2>1. StackPart'
    BY <1>3, StepStack, NewContinuationStack, CallStack, CallNullStack, TakeStack,
       DestroyContinuationStack
    DEF Next, Halted
  <2> QED
    BY <1>1, <2>1 DEF StackInv, StackPart
<1> QED
  BY <1>2, <1>3

(* The inductive invariant of the stack of open lists holds in every        *)
(* behaviour in which push itself does not run out of memory.               *)
THEOREM ParserStackInv == ASSUME ~May("push") PROVE Spec => []StackInv
  BY InitStack, NextStack, PTL DEF Spec

(* pcont_t.depth always agrees with the stack, and below every level lies   *)
(* the open list it belongs to: for every text, chunking and memory, and    *)
(* whichever other allocation fails, case 3 of cparse_sexp never pops an    *)
(* empty stack and never links through a NULL or a finished element.        *)
THEOREM ParserStackShape == ASSUME ~May("push") PROVE Spec => []StackShape
<1>1. StackInv => StackShape
  BY StackedShape DEF StackInv
<1> QED
  BY <1>1, ParserStackInv, PTL

(* An expression handed to the caller is complete: cparse_sexp sets         *)
(* last_sexp only when every parenthesis has been closed.                   *)
THEOREM ParserFullExpression == ASSUME ~May("push") PROVE Spec => []FullExpression
<1>1. StackInv => FullExpression
  BY DEF StackInv, Handover, FullExpression
<1> QED
  BY <1>1, ParserStackInv, PTL

(* SEXP_ERR_BAD_STACK, which case 3 reserves for a stack that holds less    *)
(* than depth says, is never the answer of cparse_sexp.                     *)
NeverBadStack == cc.error # "BAD_STACK"
THEOREM ParserNeverBadStack == ASSUME ~May("push") PROVE Spec => []NeverBadStack
<1>1. StackInv => NeverBadStack
  BY DEF StackInv, NeverBadStack
<1> QED
  BY <1>1, ParserStackInv, PTL
-----------------------------------------------------------------------------
(* What Reach computes.  The recursion has a solution whatever the heap     *)
(* holds: the least set with the element in it that next and list do not    *)
(* leave.                                                                   *)
Follow(S) ==
  \A z \in S : /\ heap[z].list # NULL => heap[z].list \in S
               /\ heap[z].next # NULL => heap[z].next \in S
Under(x) == {y \in Elem : \A S \in SUBSET Elem : x \in S /\ Follow(S) => y \in S}
UnderOr(x) == IF x = NULL THEN {} ELSE Under(x)

LEMMA UnderSelf == ASSUME NEW x \in Elem PROVE x \in Under(x)
  BY DEF Under

LEMMA UnderFollow == ASSUME TreeOK, NEW x \in Elem PROVE Follow(Under(x))
<1> SUFFICES ASSUME NEW z \in Under(x), NEW v \in {heap[z].list, heap[z].next}, v # NULL
             PROVE  v \in Under(x)
  BY DEF Follow
<1>1. z \in Elem /\ heap[z] \in Nodes
  BY DEF Under, TreeOK
<1>2. v \in Elem
  BY <1>1 DEF Nodes, Ptr
<1>3. ASSUME NEW S \in SUBSET Elem, x \in S, Follow(S) PROVE v \in S
  <2>1. z \in S
    BY <1>3 DEF Under
  <2> QED
    BY <1>3, <2>1 DEF Follow
<1> QED
  BY <1>2, <1>3 DEF Under

LEMMA UnderLeast ==
  ASSUME NEW x \in Elem, NEW S \in SUBSET Elem, x \in S, Follow(S) PROVE Under(x) \subseteq S
  BY DEF Under

LEMMA UnderUnfold ==
  ASSUME TreeOK, NEW x \in Elem
  PROVE  Under(x) = {x} \cup UnderOr(heap[x].list) \cup UnderOr(heap[x].next)
<1>1. heap[x].list \in Ptr /\ heap[x].next \in Ptr
  BY DEF TreeOK, Nodes
<1>2. ASSUME NEW v \in {heap[x].list, heap[x].next} PROVE UnderOr(v) \subseteq Under(x)
  <2>1. CASE v = NULL
    BY <2>1 DEF UnderOr
  <2>2. CASE v # NULL
    <3>1. v \in Elem
      BY <1>1, <2>2 DEF Ptr
    <3>2. v \in Under(x)
      BY <2>2, UnderSelf, UnderFollow DEF Follow
    <3>3. Under(x) \in SUBSET Elem
      BY DEF Under
    <3> QED
      BY <2>2, <3>1, <3>2, <3>3, UnderFollow, UnderLeast DEF UnderOr
  <2> QED
    BY <2>1, <2>2
<1> DEFINE S == {x} \cup UnderOr(heap[x].list) \cup UnderOr(heap[x].next)
<1>3. S \in SUBSET Elem /\ x \in S
  BY DEF UnderOr, Under
<1>4. Follow(S)
  <2>1. ASSUME NEW v \in Ptr PROVE Follow(UnderOr(v))
    <3>1. CASE v = NULL
      BY <3>1 DEF UnderOr, Follow
    <3>2. CASE v # NULL
      BY <3>2, UnderFollow DEF UnderOr, Ptr
    <3> QED
      BY <3>1, <3>2
  <2>2. \A v \in Ptr : v # NULL => v \in UnderOr(v)
    BY UnderSelf DEF UnderOr, Ptr
  <2>3. Follow(UnderOr(heap[x].list)) /\ Follow(UnderOr(heap[x].next))
    BY <1>1, <2>1
  <2> QED
    BY <1>1, <2>2, <2>3 DEF Follow
<1> HIDE DEF S
<1>5. Under(x) \subseteq S
  BY <1>3, <1>4, UnderLeast
<1>6. S \subseteq Under(x)
  BY <1>2, UnderSelf DEF S
<1> QED
  BY <1>5, <1>6 DEF S

Solves(r) ==
  r = [x \in Elem \cup {NULL} |->
         IF x = NULL THEN {} ELSE {x} \cup r[heap[x].list] \cup r[heap[x].next]]

LEMMA ReachSolves ==
  ASSUME TreeOK PROVE \E r : Solves(r) /\ \A x \in Ptr : Reach(x) = r[x]
<1> DEFINE g == [x \in Elem \cup {NULL} |-> UnderOr(x)]
<1>1. Solves(g)
  <2>1. ASSUME NEW x \in Elem
        PROVE  g[x] = {x} \cup g[heap[x].list] \cup g[heap[x].next]
    <3>1. heap[x].list \in Elem \cup {NULL} /\ heap[x].next \in Elem \cup {NULL}
      BY DEF TreeOK, Nodes, Ptr
    <3>2. UnderOr(x) = Under(x)
      BY ElemAssumption DEF UnderOr
    <3> QED
      BY <3>1, <3>2, UnderUnfold
  <2>2. g[NULL] = {}
    BY DEF UnderOr
  <2>3. g = [x \in Elem \cup {NULL} |-> g[x]]
    OBVIOUS
  <2> HIDE DEF g
  <2>4. \A x \in Elem \cup {NULL} :
          g[x] = IF x = NULL THEN {} ELSE {x} \cup g[heap[x].list] \cup g[heap[x].next]
    BY <2>1, <2>2
  <2> QED
    BY <2>3, <2>4 DEF Solves
<1> HIDE DEF g
<1>2. Solves(CHOOSE r : Solves(r))
  BY <1>1
<1>3. \A x \in Ptr : Reach(x) = (CHOOSE r : Solves(r))[x]
  BY DEF Reach, Solves
<1> QED
  BY <1>2, <1>3

(* In every set of naturals with an element there is a least one. *)
LEMMA LeastNat ==
  ASSUME NEW T \in SUBSET Nat, T # {} PROVE \E m \in T : \A k \in T : m <= k
<1>1. IsWellFoundedOn(OpToRel(<, Nat), Nat)
  BY NatLessThanWellFounded
<1>2. PICK m \in T : \A k \in T : ~(<<k, m>> \in OpToRel(<, Nat))
  BY <1>1, WFMin
<1>3. \A k \in T : ~(k < m)
  BY <1>2 DEF OpToRel
<1> QED
  BY <1>3
-----------------------------------------------------------------------------
(* Who owns an element.  The places that can hold a pointer to one are the  *)
(* next and the list of an element, the first of a level and last_sexp;     *)
(* every element in use is held by exactly one of them.                     *)
Holds(h, l, s, z, k, x, v) ==
  \/ k = "next" /\ x \in l /\ h[x].next = v
  \/ k = "list" /\ x \in l /\ h[x].list = v
  \/ k = "fst" /\ x \in 1..Len(s) /\ s[x].fst = v
  \/ k = "last" /\ x = 0 /\ z = v
Owned(h, l, s, z) ==
  /\ \A k, x, v : Holds(h, l, s, z, k, x, v) /\ v # NULL => v \in l
  /\ \A j, x, k, y, v :
       Holds(h, l, s, z, j, x, v) /\ Holds(h, l, s, z, k, y, v) /\ v # NULL => j = k /\ x = y
  /\ \A e \in l : \E k, x : Holds(h, l, s, z, k, x, e)

(* Pointers lead to elements that were allocated later: rk is the order of  *)
(* allocation.  A level begins later than the list it is the contents of.   *)
Later(h, l, s, rk) ==
  /\ \A x \in l : /\ h[x].next # NULL => rk[x] < rk[h[x].next]
                  /\ h[x].list # NULL => rk[x] < rk[h[x].list]
  /\ \A i \in 1..Len(s) : \A j \in 1..Len(s) :
       j = i + 1 /\ s[i].lst # NULL /\ s[j].fst # NULL => rk[s[i].lst] < rk[s[j].fst]
Ordered(h, l, s) ==
  \E rk \in [Elem -> Nat], n \in Nat : Later(h, l, s, rk) /\ \A x \in l : rk[x] < n

(* A new element held by one place, and a pointer moved to another place.   *)
Grown(h, l, s, z, h2, s2, z2, e, j, y) ==
  \A k, x, v : v # NULL =>
    (Holds(h2, l \cup {e}, s2, z2, k, x, v) <=>
       Holds(h, l, s, z, k, x, v) \/ (k = j /\ x = y /\ v = e))
MovedTo(h, l, s, z, h2, s2, z2, i, w, j, y) ==
  \A k, x, v : v # NULL =>
    (Holds(h2, l, s2, z2, k, x, v) <=>
       \/ Holds(h, l, s, z, k, x, v) /\ ~(k = i /\ x = w)
       \/ k = j /\ x = y /\ Holds(h, l, s, z, i, w, v))

LEMMA OwnedGrows ==
  ASSUME NEW h, NEW l, NEW s, NEW z, NEW h2, NEW s2, NEW z2, NEW e, e \notin l, e # NULL,
         NULL \notin l, NEW j, NEW y, Owned(h, l, s, z), Grown(h, l, s, z, h2, s2, z2, e, j, y)
  PROVE  Owned(h2, l \cup {e}, s2, z2)
<1> DEFINE Old(k, x, v) == Holds(h, l, s, z, k, x, v)
           New(k, x, v) == Holds(h2, l \cup {e}, s2, z2, k, x, v)
<1>1. /\ \A k, x, v : Old(k, x, v) /\ v # NULL => v \in l
      /\ \A a, x, k, w, v : Old(a, x, v) /\ Old(k, w, v) /\ v # NULL => a = k /\ x = w
      /\ \A v \in l : \E k, x : Old(k, x, v)
  BY DEF Owned
<1>2. \A k, x, v : v # NULL => (New(k, x, v) <=> Old(k, x, v) \/ (k = j /\ x = y /\ v = e))
  BY DEF Grown
<1>3. (\A k, x, v : New(k, x, v) /\ v # NULL => v \in l \cup {e})
      /\ (\A a, x, k, w, v : New(a, x, v) /\ New(k, w, v) /\ v # NULL => a = k /\ x = w)
      /\ (\A v \in l \cup {e} : \E k, x : New(k, x, v))
      => Owned(h2, l \cup {e}, s2, z2)
  BY DEF Owned
<1> HIDE DEF Old, New
<1>4. \A k, x, v : New(k, x, v) /\ v # NULL => v \in l \cup {e}
  BY <1>1, <1>2
<1>5. \A a, x, k, w, v : New(a, x, v) /\ New(k, w, v) /\ v # NULL => a = k /\ x = w
  BY <1>1, <1>2
<1>6. \A v \in l \cup {e} : \E k, x : New(k, x, v)
  BY <1>1, <1>2
<1> QED
  BY <1>3, <1>4, <1>5, <1>6

LEMMA OwnedMoves ==
  ASSUME NEW h, NEW l, NEW s, NEW z, NEW h2, NEW s2, NEW z2, NULL \notin l,
         NEW i, NEW w, NEW j, NEW y, Owned(h, l, s, z),
         MovedTo(h, l, s, z, h2, s2, z2, i, w, j, y)
  PROVE  Owned(h2, l, s2, z2)
<1> DEFINE Old(k, x, v) == Holds(h, l, s, z, k, x, v)
           New(k, x, v) == Holds(h2, l, s2, z2, k, x, v)
<1>1. /\ \A k, x, v : Old(k, x, v) /\ v # NULL => v \in l
      /\ \A a, x, k, b, v : Old(a, x, v) /\ Old(k, b, v) /\ v # NULL => a = k /\ x = b
      /\ \A v \in l : \E k, x : Old(k, x, v)
  BY DEF Owned
<1>2. \A k, x, v : v # NULL =>
        (New(k, x, v) <=>
           (Old(k, x, v) /\ ~(k = i /\ x = w)) \/ (k = j /\ x = y /\ Old(i, w, v)))
  BY DEF MovedTo
<1>3. (\A k, x, v : New(k, x, v) /\ v # NULL => v \in l)
      /\ (\A a, x, k, b, v : New(a, x, v) /\ New(k, b, v) /\ v # NULL => a = k /\ x = b)
      /\ (\A v \in l : \E k, x : New(k, x, v))
      => Owned(h2, l, s2, z2)
  BY DEF Owned
<1> HIDE DEF Old, New
<1>4. \A k, x, v : New(k, x, v) /\ v # NULL => v \in l
  BY <1>1, <1>2
<1>5. \A a, x, k, b, v : New(a, x, v) /\ New(k, b, v) /\ v # NULL => a = k /\ x = b
  BY <1>1, <1>2
<1>6. ASSUME NEW v \in l PROVE \E k, x : New(k, x, v)
  <2>1. PICK k, x : Old(k, x, v)
    BY <1>1
  <2>2. v # NULL
    OBVIOUS
  <2>3. CASE k = i /\ x = w
    <3>1. New(j, y, v)
      BY <1>2, <2>1, <2>2, <2>3
    <3> QED
      BY <3>1
  <2>4. CASE ~(k = i /\ x = w)
    <3>1. New(k, x, v)
      BY <1>2, <2>1, <2>2, <2>4
    <3> QED
      BY <3>1
  <2> QED
    BY <2>3, <2>4
<1> QED
  BY <1>3, <1>4, <1>5, <1>6

(* With an order, the recursion of Reach has no other solution. *)
LEMMA OwnedFollow ==
  ASSUME NEW s, NEW z, Owned(heap, live, s, z) PROVE Follow(live)
  BY DEF Owned, Holds, Follow

LEMMA ReachIs ==
  ASSUME TreeOK, NEW s, NEW z, Owned(heap, live, s, z), Ordered(heap, live, s)
  PROVE  Reach(NULL) = {} /\ \A x \in live : Reach(x) = Under(x) /\ Under(x) \subseteq live
<1>0. live \subseteq Elem /\ NULL \notin Elem
  BY ElemAssumption DEF TreeOK
<1>1. PICK r : Solves(r) /\ \A x \in Ptr : Reach(x) = r[x]
  BY ReachSolves
<1>2. PICK rk \in [Elem -> Nat], n \in Nat : Later(heap, live, s, rk) /\ \A x \in live : rk[x] < n
  BY DEF Ordered
<1>3. /\ r[NULL] = {}
      /\ \A x \in Elem : r[x] = {x} \cup r[heap[x].list] \cup r[heap[x].next]
  BY <1>0, <1>1 DEF Solves
<1>4. \A x \in live : \A c \in {heap[x].list, heap[x].next} :
        c # NULL => c \in live /\ rk[x] < rk[c]
  BY <1>2, OwnedFollow DEF Follow, Later
<1>5. ASSUME NEW x \in live, r[x] # Under(x) PROVE FALSE
  <2> DEFINE Bad == {y \in live : r[y] # Under(y)}
             T == {n - rk[y] : y \in Bad}
  <2>1. \A y \in live : rk[y] \in Nat /\ n - rk[y] \in Nat
    BY <1>0, <1>2
  <2>2. T \in SUBSET Nat /\ T # {}
    BY <1>5, <2>1
  <2>3. PICK m \in T : \A k \in T : m <= k
    BY <2>2, LeastNat
  <2>4. PICK y \in live : r[y] # Under(y) /\ m = n - rk[y]
    BY <2>3
  <2>5. ASSUME NEW c \in live, rk[y] < rk[c] PROVE r[c] = Under(c)
    <3>1. n - rk[c] < m /\ m \in Nat /\ n - rk[c] \in Nat
      BY <2>1, <2>4, <2>5
    <3>2. n - rk[c] \in T => m <= n - rk[c]
      BY <2>3
    <3>3. n - rk[c] \notin T
      BY <3>1, <3>2
    <3> QED
      BY <3>3
  <2>6. ASSUME NEW c \in {heap[y].list, heap[y].next} PROVE r[c] = UnderOr(c)
    <3>1. CASE c = NULL
      BY <1>3, <3>1 DEF UnderOr
    <3>2. CASE c # NULL
      <4>1. c \in live /\ rk[y] < rk[c]
        BY <1>4, <2>4, <2>6, <3>2
      <4> QED
        BY <2>5, <3>2, <4>1 DEF UnderOr
    <3> QED
      BY <3>1, <3>2
  <2>7. Under(y) = {y} \cup UnderOr(heap[y].list) \cup UnderOr(heap[y].next)
    BY <1>0, <2>4, UnderUnfold
  <2>8. r[y] = Under(y)
    BY <1>0, <1>3, <2>4, <2>6, <2>7
  <2> QED
    BY <2>4, <2>8
<1>6. ASSUME NEW x \in live PROVE Under(x) \subseteq live
  BY <1>0, OwnedFollow, UnderLeast
<1> QED
  BY <1>0, <1>1, <1>3, <1>5, <1>6 DEF Ptr

(* Whatever is in use can be reached from the places that are not in an     *)
(* element: the levels and last_sexp.                                       *)
LEMMA AllReached ==
  ASSUME TreeOK, NEW s, NEW z, Owned(heap, live, s, z), Ordered(heap, live, s),
         NEW R \in SUBSET live, z \in R \cup {NULL},
         \A i \in 1..Len(s) : s[i].fst \in R \cup {NULL}
  PROVE  live = UNION {Reach(x) : x \in R}
<1>0. live \subseteq Elem /\ NULL \notin Elem
  BY ElemAssumption DEF TreeOK
<1>1. \A x \in live : Reach(x) = Under(x) /\ Under(x) \subseteq live
  BY ReachIs
<1>2. PICK rk \in [Elem -> Nat], n \in Nat : Later(heap, live, s, rk) /\ \A x \in live : rk[x] < n
  BY DEF Ordered
<1> DEFINE All == UNION {Reach(x) : x \in R}
<1>3. All \subseteq live
  BY <1>1
<1>4. ASSUME NEW e \in live, e \notin All PROVE FALSE
  <2> DEFINE Bad == {y \in live : y \notin All}
             T == {rk[y] : y \in Bad}
  <2>1. T \in SUBSET Nat /\ T # {}
    BY <1>0, <1>2, <1>4
  <2>2. PICK m \in T : \A k \in T : m <= k
    BY <2>1, LeastNat
  <2>3. PICK y \in Bad : m = rk[y]
    BY <2>2
  <2>4. y \in live /\ y # NULL /\ y \in Elem /\ y \notin All
    BY <1>0, <2>3
  <2>5. PICK k, x : Holds(heap, live, s, z, k, x, y)
    BY <2>4 DEF Owned
  <2>6. CASE y \in R
    BY <1>1, <2>4, <2>6, UnderSelf
  <2>7. CASE x \in live /\ y \in {heap[x].next, heap[x].list}
    <3>1. rk[x] < rk[y] /\ rk[x] \in Nat /\ rk[y] \in Nat
      BY <1>0, <1>2, <2>4, <2>7 DEF Later
    <3>2. rk[x] \in T => m <= rk[x]
      BY <2>2
    <3>3. x \in All
      BY <2>3, <2>7, <3>1, <3>2
    <3>4. PICK g \in R : x \in Reach(g)
      BY <3>3
    <3>5. g \in Elem /\ x \in Under(g) /\ Reach(g) = Under(g)
      BY <1>0, <1>1, <3>4
    <3>6. y \in Under(g)
      BY <2>4, <2>7, <3>5, UnderFollow DEF Follow
    <3> QED
      BY <2>4, <3>5, <3>6
  <2> QED
    BY <2>4, <2>5, <2>6, <2>7 DEF Holds
<1> QED
  BY <1>3, <1>4
-----------------------------------------------------------------------------
(* The steps of the parser keep every element owned once.  A level ends in  *)
(* an element nothing follows yet.                                          *)
Ends(h, s) == \A i \in 1..Len(s) : s[i].lst # NULL => h[s[i].lst].next = NULL
Kinship(h, l, s, z) == Owned(h, l, s, z) /\ Ordered(h, l, s)

(* An element is linked at the end of the innermost open list. *)
LEMMA LinkOwned ==
  ASSUME TreeOK, NEW d \in Nat, Shape(d, stack, heap, live), stack # << >>,
         NEW z, Owned(heap, live, stack, z), Ends(heap, stack),
         NEW e \in Elem \ live, NEW node \in Nodes, node.list = NULL, node.next = NULL
  PROVE  Owned(HeapWith(e, node), live \cup {e}, StackWith(e), z)
<1> DEFINE h == HeapWith(e, node)
           s == StackWith(e)
           n == Len(stack)
           j == IF Top.fst = NULL THEN "fst" ELSE "next"
           y == IF Top.fst = NULL THEN n ELSE Top.lst
<1>0. live \subseteq Elem /\ NULL \notin live /\ e # NULL /\ e \notin live
  BY ElemAssumption DEF TreeOK
<1>1. /\ Len(s) = n /\ n \in Nat \ {0} /\ \A i \in 1..(n - 1) : s[i] = stack[i]
      /\ s[n].fst = IF Top.fst = NULL THEN e ELSE Top.fst
  BY StackWithIs
<1>2. Top.fst # NULL => Top.lst \in live
  BY ShapeTop
<1>3. /\ h[e] = node
      /\ \A x \in live : /\ h[x].list = heap[x].list
                         /\ h[x].next = IF Top.fst # NULL /\ x = Top.lst THEN e ELSE heap[x].next
  BY <1>2, HeapWithIs
<1>4. Top.fst # NULL => heap[Top.lst].next = NULL
  <2>1. n \in 1..Len(stack)
    BY <1>1
  <2>2. Top.fst # NULL => Top.lst # NULL
    BY <1>0, <1>2
  <2> QED
    BY <2>1, <2>2 DEF Ends, Top
<1>5. Top = stack[n] /\ \A i \in 1..n : i = n \/ i \in 1..(n - 1)
  BY <1>1 DEF Top
<1> HIDE DEF h, s, n
<1>6. \A x, v : v # NULL =>
        ((x \in live \cup {e} /\ h[x].next = v) <=>
           (x \in live /\ heap[x].next = v) \/ ("next" = j /\ x = y /\ v = e))
  BY <1>0, <1>2, <1>3, <1>4
<1>7. \A x, v : v # NULL =>
        ((x \in live \cup {e} /\ h[x].list = v) <=> (x \in live /\ heap[x].list = v))
  BY <1>0, <1>3
<1>8. \A x, v : v # NULL =>
        ((x \in 1..Len(s) /\ s[x].fst = v) <=>
           (x \in 1..Len(stack) /\ stack[x].fst = v) \/ ("fst" = j /\ x = y /\ v = e))
  BY <1>0, <1>1, <1>5 DEF n
<1>9. j \in {"fst", "next"}
  OBVIOUS
<1> HIDE DEF j, y
<1>10. Grown(heap, live, stack, z, h, s, z, e, j, y)
  <2> SUFFICES ASSUME NEW k, NEW x, NEW v, v # NULL
               PROVE  Holds(h, live \cup {e}, s, z, k, x, v) <=>
                        Holds(heap, live, stack, z, k, x, v) \/ (k = j /\ x = y /\ v = e)
    BY DEF Grown
  <2>1. CASE k = "next"
    BY <1>6, <2>1 DEF Holds
  <2>2. CASE k = "list"
    BY <1>7, <1>9, <2>2 DEF Holds
  <2>3. CASE k = "fst"
    BY <1>8, <2>3 DEF Holds
  <2>4. CASE k \notin {"next", "list", "fst"}
    BY <1>9, <2>4 DEF Holds
  <2> QED
    BY <2>1, <2>2, <2>3, <2>4
<1>11. Owned(h, live \cup {e}, s, z)
  BY <1>0, <1>10, OwnedGrows
<1> QED
  BY <1>11 DEF h, s

LEMMA LinkOrdered ==
  ASSUME TreeOK, NEW d \in Nat, Shape(d, stack, heap, live), stack # << >>,
         NEW z, Kinship(heap, live, stack, z), Ends(heap, stack),
         NEW e \in Elem \ live, NEW node \in Nodes, node.list = NULL, node.next = NULL
  PROVE  Ordered(HeapWith(e, node), live \cup {e}, StackWith(e)) /\ Ends(HeapWith(e, node), StackWith(e))
<1> DEFINE h == HeapWith(e, node)
           s == StackWith(e)
           n == Len(stack)
<1>0. live \subseteq Elem /\ NULL \notin live /\ e # NULL /\ e \notin live /\ e \in Elem
  BY ElemAssumption DEF TreeOK
<1>1. /\ Len(s) = n /\ n \in Nat \ {0} /\ \A i \in 1..(n - 1) : s[i] = stack[i]
      /\ s[n].fst = (IF Top.fst = NULL THEN e ELSE Top.fst) /\ s[n].lst = e
  BY StackWithIs
<1>2. Top.fst # NULL => Top.lst \in live
  BY ShapeTop
<1>3. /\ h[e] = node
      /\ \A x \in live : /\ h[x].list = heap[x].list
                         /\ h[x].next = IF Top.fst # NULL /\ x = Top.lst THEN e ELSE heap[x].next
  BY <1>2, HeapWithIs
<1>4. Top = stack[n] /\ \A i \in 1..n : i = n \/ i \in 1..(n - 1)
  BY <1>1 DEF Top
<1>5. \A i \in 1..n : stack[i].lst # NULL => stack[i].lst \in live
  BY DEF Shape
<1>6. \A x \in live : /\ heap[x].next # NULL => heap[x].next \in live
                      /\ heap[x].list # NULL => heap[x].list \in live
  BY OwnedFollow DEF Follow, Kinship
<1>7. \A i \in 1..n : stack[i].fst # NULL => stack[i].fst \in live
  BY DEF Kinship, Owned, Holds
<1>8. PICK rk \in [Elem -> Nat], b \in Nat : Later(heap, live, stack, rk) /\ \A x \in live : rk[x] < b
  BY DEF Ordered, Kinship
<1>9. /\ \A x \in live : /\ heap[x].next # NULL => rk[x] < rk[heap[x].next]
                         /\ heap[x].list # NULL => rk[x] < rk[heap[x].list]
      /\ \A i \in 1..n : \A j \in 1..n :
           j = i + 1 /\ stack[i].lst # NULL /\ stack[j].fst # NULL
             => rk[stack[i].lst] < rk[stack[j].fst]
  BY <1>8 DEF Later
<1> DEFINE rk2 == [x \in Elem |-> IF x = e THEN b ELSE rk[x]]
<1>10. /\ rk2 \in [Elem -> Nat] /\ b + 1 \in Nat
       /\ rk2[e] = b /\ \A x \in live : rk2[x] = rk[x] /\ rk[x] < b /\ rk[x] \in Nat
  BY <1>0, <1>8
<1> HIDE DEF h, s, n, rk2
<1>11. \A x \in live \cup {e} : rk2[x] < b + 1
  BY <1>10
<1>12. ASSUME NEW x \in live \cup {e}
       PROVE  /\ h[x].next # NULL => rk2[x] < rk2[h[x].next]
              /\ h[x].list # NULL => rk2[x] < rk2[h[x].list]
  <2>1. CASE x = e
    BY <1>3, <2>1
  <2>2. CASE x \in live
    <3>1. h[x].list # NULL => rk2[x] < rk2[h[x].list]
      BY <1>3, <1>6, <1>9, <1>10, <2>2
    <3>2. CASE h[x].next = e
      BY <1>10, <2>2, <3>1, <3>2
    <3>3. CASE h[x].next = heap[x].next
      BY <1>6, <1>9, <1>10, <2>2, <3>1, <3>3
    <3> QED
      BY <1>3, <2>2, <3>2, <3>3
  <2> QED
    BY <2>1, <2>2
<1>13. ASSUME NEW i \in 1..n, NEW j \in 1..n, j = i + 1, s[i].lst # NULL, s[j].fst # NULL
       PROVE  rk2[s[i].lst] < rk2[s[j].fst]
  <2>1. i \in 1..(n - 1) /\ s[i] = stack[i] /\ s[i].lst \in live
    BY <1>1, <1>5, <1>13
  <2>2. CASE s[j].fst = e
    BY <1>10, <2>1, <2>2
  <2>3. CASE s[j].fst = stack[j].fst
    <3>1. s[j].fst \in live
      BY <1>7, <1>13, <2>3
    <3> QED
      BY <1>9, <1>10, <1>13, <2>1, <2>3, <3>1
  <2> QED
    BY <1>1, <1>4, <2>2, <2>3
<1>14. Later(h, live \cup {e}, s, rk2)
  BY <1>1, <1>12, <1>13 DEF Later
<1>15. Ordered(h, live \cup {e}, s)
  BY <1>10, <1>11, <1>14 DEF Ordered
<1>16. Ends(h, s)
  <2> SUFFICES ASSUME NEW i \in 1..n, s[i].lst # NULL PROVE h[s[i].lst].next = NULL
    BY <1>1 DEF Ends
  <2>1. CASE i = n
    BY <1>1, <1>3, <2>1
  <2>2. CASE i \in 1..(n - 1)
    <3>1. s[i] = stack[i] /\ stack[i].lst \in live /\ heap[stack[i].lst].next = NULL
      BY <1>1, <1>5, <2>2 DEF Ends, n
    <3>2. Top.fst # NULL => stack[i].lst # Top.lst
      BY <1>0, <1>1, <1>2, <1>4, <2>2, <3>1 DEF Shape, n
    <3> QED
      BY <1>3, <3>1, <3>2
  <2> QED
    BY <1>4, <2>1, <2>2
<1> QED
  BY <1>15, <1>16 DEF h, s

LEMMA LinkKinship ==
  ASSUME TreeOK, NEW d \in Nat, Shape(d, stack, heap, live), stack # << >>,
         NEW z, Kinship(heap, live, stack, z), Ends(heap, stack),
         NEW e \in Elem \ live, NEW node \in Nodes, node.list = NULL, node.next = NULL
  PROVE  /\ Kinship(HeapWith(e, node), live \cup {e}, StackWith(e), z)
         /\ Ends(HeapWith(e, node), StackWith(e))
  BY LinkOwned, LinkOrdered DEF Kinship

(* The first element of an expression: an atom, held by last_sexp, or a     *)
(* list, held by the bottom level.                                          *)
LEMMA BaseHeap ==
  ASSUME TreeOK, stack = << >>, Kinship(heap, live, stack, NULL),
         NEW e \in Elem \ live, NEW node \in Nodes, node.list = NULL, node.next = NULL
  PROVE  LET h == HeapWith(e, node)
         IN  /\ h[e] = node
             /\ \A x, v : v # NULL =>
                  /\ (x \in live \cup {e} /\ h[x].next = v) <=> (x \in live /\ heap[x].next = v)
                  /\ (x \in live \cup {e} /\ h[x].list = v) <=> (x \in live /\ heap[x].list = v)
             /\ \A s : Len(s) <= 1 /\ Len(s) \in Nat => Ordered(h, live \cup {e}, s)
<1> DEFINE h == HeapWith(e, node)
<1>0. live \subseteq Elem /\ NULL \notin live /\ e # NULL /\ e \notin live /\ e \in Elem
  BY ElemAssumption DEF TreeOK
<1>1. h[e] = node /\ \A x \in live : h[x].list = heap[x].list /\ h[x].next = heap[x].next
  BY HeapWithIs
<1>2. PICK rk \in [Elem -> Nat], b \in Nat : Later(heap, live, stack, rk) /\ \A x \in live : rk[x] < b
  BY DEF Ordered, Kinship
<1> DEFINE rk2 == [x \in Elem |-> IF x = e THEN b ELSE rk[x]]
<1>3. /\ rk2 \in [Elem -> Nat] /\ b + 1 \in Nat
      /\ rk2[e] = b /\ \A x \in live : rk2[x] = rk[x] /\ rk[x] < b /\ rk[x] \in Nat
  BY <1>0, <1>2
<1>4. \A x \in live : /\ heap[x].next # NULL => heap[x].next \in live
                      /\ heap[x].list # NULL => heap[x].list \in live
  BY OwnedFollow DEF Follow, Kinship
<1> HIDE DEF h, rk2
<1>5. \A x \in live \cup {e} : rk2[x] < b + 1
  BY <1>3
<1>6. ASSUME NEW s, Len(s) <= 1, Len(s) \in Nat PROVE Later(h, live \cup {e}, s, rk2)
  <2>1. \A x \in live \cup {e} : /\ h[x].next # NULL => rk2[x] < rk2[h[x].next]
                                 /\ h[x].list # NULL => rk2[x] < rk2[h[x].list]
    BY <1>1, <1>2, <1>3, <1>4 DEF Later
  <2>2. \A i \in 1..Len(s) : \A j \in 1..Len(s) : j # i + 1
    BY <1>6
  <2> QED
    BY <2>1, <2>2 DEF Later
<1>7. \A s : Len(s) <= 1 /\ Len(s) \in Nat => Ordered(h, live \cup {e}, s)
  BY <1>3, <1>5, <1>6 DEF Ordered
<1>8. \A x, v : v # NULL =>
        /\ (x \in live \cup {e} /\ h[x].next = v) <=> (x \in live /\ heap[x].next = v)
        /\ (x \in live \cup {e} /\ h[x].list = v) <=> (x \in live /\ heap[x].list = v)
  BY <1>0, <1>1
<1> QED
  BY <1>1, <1>7, <1>8 DEF h

LEMMA AtomKinship ==
  ASSUME TreeOK, stack = << >>, Kinship(heap, live, stack, NULL),
         NEW e \in Elem \ live, NEW node \in Nodes, node.list = NULL, node.next = NULL
  PROVE  Kinship(HeapWith(e, node), live \cup {e}, << >>, e)
<1> DEFINE h == HeapWith(e, node)
<1>0. NULL \notin live /\ e # NULL /\ e \notin live
  BY ElemAssumption DEF TreeOK
<1>1. /\ h[e] = node
      /\ \A x, v : v # NULL =>
           /\ (x \in live \cup {e} /\ h[x].next = v) <=> (x \in live /\ heap[x].next = v)
           /\ (x \in live \cup {e} /\ h[x].list = v) <=> (x \in live /\ heap[x].list = v)
      /\ \A s : Len(s) <= 1 /\ Len(s) \in Nat => Ordered(h, live \cup {e}, s)
  BY BaseHeap
<1>2. Ordered(h, live \cup {e}, << >>)
  <2>1. Len(<< >>) <= 1 /\ Len(<< >>) \in Nat
    OBVIOUS
  <2> QED
    BY <1>1, <2>1
<1> HIDE DEF h
<1>3. Grown(heap, live, << >>, NULL, h, << >>, e, e, "last", 0)
  <2> SUFFICES ASSUME NEW k, NEW x, NEW v, v # NULL
               PROVE  Holds(h, live \cup {e}, << >>, e, k, x, v) <=>
                        Holds(heap, live, << >>, NULL, k, x, v) \/ (k = "last" /\ x = 0 /\ v = e)
    BY DEF Grown
  <2>1. CASE k = "next" \/ k = "list"
    BY <1>1, <2>1 DEF Holds
  <2>2. CASE ~(k = "next" \/ k = "list")
    BY <2>2 DEF Holds
  <2> QED
    BY <2>1, <2>2
<1>4. Owned(h, live \cup {e}, << >>, e)
  BY <1>0, <1>3, OwnedGrows DEF Kinship
<1> QED
  BY <1>2, <1>4 DEF Kinship, h

LEMMA BottomKinship ==
  ASSUME TreeOK, stack = << >>, Kinship(heap, live, stack, NULL),
         NEW e \in Elem \ live, NEW node \in Nodes, node.list = NULL, node.next = NULL
  PROVE  /\ Kinship(HeapWith(e, node), live \cup {e}, << [fst |-> e, lst |-> e] >>, NULL)
         /\ Ends(HeapWith(e, node), << [fst |-> e, lst |-> e] >>)
<1> DEFINE h == HeapWith(e, node)
           s == << [fst |-> e, lst |-> e] >>
<1>0. NULL \notin live /\ e # NULL /\ e \notin live
  BY ElemAssumption DEF TreeOK
<1>1. /\ h[e] = node
      /\ \A x, v : v # NULL =>
           /\ (x \in live \cup {e} /\ h[x].next = v) <=> (x \in live /\ heap[x].next = v)
           /\ (x \in live \cup {e} /\ h[x].list = v) <=> (x \in live /\ heap[x].list = v)
      /\ \A q : Len(q) <= 1 /\ Len(q) \in Nat => Ordered(h, live \cup {e}, q)
  BY BaseHeap
<1>2. /\ Len(s) = 1 /\ s[1].fst = e /\ s[1].lst = e /\ Len(s) <= 1 /\ Len(s) \in Nat
      /\ \A i : i \in 1..Len(s) <=> i = 1
  OBVIOUS
<1> HIDE DEF h, s
<1>3. Ordered(h, live \cup {e}, s)
  BY <1>1, <1>2
<1>4. Ends(h, s)
  BY <1>1, <1>2 DEF Ends
<1>5. Grown(heap, live, << >>, NULL, h, s, NULL, e, "fst", 1)
  <2> SUFFICES ASSUME NEW k, NEW x, NEW v, v # NULL
               PROVE  Holds(h, live \cup {e}, s, NULL, k, x, v) <=>
                        Holds(heap, live, << >>, NULL, k, x, v) \/ (k = "fst" /\ x = 1 /\ v = e)
    BY DEF Grown
  <2>1. CASE k = "next" \/ k = "list"
    BY <1>1, <2>1 DEF Holds
  <2>2. CASE ~(k = "next" \/ k = "list")
    BY <1>2, <2>2 DEF Holds
  <2> QED
    BY <2>1, <2>2
<1>6. Owned(h, live \cup {e}, s, NULL)
  BY <1>0, <1>5, OwnedGrows DEF Kinship
<1> QED
  BY <1>3, <1>4, <1>6 DEF Kinship, h, s

(* An empty level holds nothing. *)
LEMMA PushKinship ==
  ASSUME NEW h, NEW l, NEW s \in Seq(Levels), NEW z, Kinship(h, l, s, z), Ends(h, s),
         NULL \notin l
  PROVE  Kinship(h, l, Append(s, EmptyLevel), z) /\ Ends(h, Append(s, EmptyLevel))
<1> DEFINE q == Append(s, EmptyLevel)
           n == Len(s)
<1>1. /\ Len(q) = n + 1 /\ n \in Nat /\ \A i \in 1..n : q[i] = s[i]
      /\ q[n + 1].fst = NULL /\ q[n + 1].lst = NULL
  BY AppendIs, EmptyLevelIs
<1> HIDE DEF q, n
<1>2. \A i \in 1..(n + 1) : i = n + 1 \/ i \in 1..n
  BY <1>1
<1>3. \A i \in 1..n : i \in 1..(n + 1)
  BY <1>1
<1>4. Ends(h, q)
  BY <1>1, <1>2 DEF Ends, n
<1>5. PICK rk \in [Elem -> Nat], b \in Nat : Later(h, l, s, rk) /\ \A x \in l : rk[x] < b
  BY DEF Ordered, Kinship
<1>6. Later(h, l, q, rk)
  <2> SUFFICES ASSUME NEW i \in 1..(n + 1), NEW j \in 1..(n + 1), j = i + 1,
                      q[i].lst # NULL, q[j].fst # NULL
               PROVE  rk[q[i].lst] < rk[q[j].fst]
    BY <1>1, <1>5 DEF Later
  <2>1. i \in 1..n /\ j \in 1..n
    BY <1>1, <1>2
  <2> QED
    BY <1>1, <1>5, <2>1 DEF Later, n
<1>7. Ordered(h, l, q)
  BY <1>5, <1>6 DEF Ordered
<1>8. MovedTo(h, l, s, z, h, q, z, "last", 0, "last", 0)
  <2>1. \A x, v : v # NULL =>
          ((x \in 1..Len(q) /\ q[x].fst = v) <=> (x \in 1..Len(s) /\ s[x].fst = v))
    BY <1>1, <1>2, <1>3 DEF n
  <2> SUFFICES ASSUME NEW k, NEW x, NEW v, v # NULL
               PROVE  Holds(h, l, q, z, k, x, v) <=>
                        \/ Holds(h, l, s, z, k, x, v) /\ ~(k = "last" /\ x = 0)
                        \/ k = "last" /\ x = 0 /\ Holds(h, l, s, z, "last", 0, v)
    BY DEF MovedTo
  <2>2. CASE k = "fst"
    BY <2>1, <2>2 DEF Holds
  <2>3. CASE k # "fst"
    BY <2>3 DEF Holds
  <2> QED
    BY <2>2, <2>3
<1>9. Owned(h, l, q, z)
  BY <1>8, OwnedMoves DEF Kinship
<1> QED
  BY <1>4, <1>7, <1>9 DEF Kinship, q

(* A list is closed: its contents move from the level to the element that   *)
(* opened it.                                                               *)
LEMMA CloseKinship ==
  ASSUME TreeOK, NEW d \in Nat \ {0}, Shape(d, stack, heap, live),
         NEW z, Kinship(heap, live, stack, z), Ends(heap, stack)
  PROVE  LET below == SubSeq(stack, 1, Len(stack) - 1)
             h == [heap EXCEPT ![stack[Len(stack) - 1].lst].list = Top.fst]
         IN  Kinship(h, live, below, z) /\ Ends(h, below) /\ Len(below) = d
<1> DEFINE below == SubSeq(stack, 1, Len(stack) - 1)
           n == Len(stack)
           y == stack[n - 1].lst
           h == [heap EXCEPT ![y].list = Top.fst]
<1>0. NULL \notin live
  BY ElemAssumption DEF TreeOK
<1>1. /\ n = d + 1 /\ stack # << >>
      /\ \A i \in 1..n : stack[i].lst # NULL => stack[i].lst \in live
  BY DEF Shape
<1>2. below \in Seq(Levels) /\ Len(below) = n - 1 /\ \A i \in 1..(n - 1) : below[i] = stack[i]
  BY <1>1, BelowIs
<1>3. y \in live /\ heap[y].list = NULL
  BY ShapeClose
<1>4. Top = stack[n]
  BY DEF Top
<1> HIDE DEF y
<1>5. \A x \in live : /\ h[x].next = heap[x].next
                      /\ h[x].list = IF x = y THEN Top.fst ELSE heap[x].list
  BY <1>3, LinkedIs
<1> HIDE DEF below, n, h
<1>6. n - 1 = d /\ d \in 1..n /\ n \in 1..n /\ (\A i \in 1..(n - 1) : i \in 1..n /\ i # n)
      /\ (\A i \in 1..n : i = n \/ i \in 1..(n - 1))
  BY <1>1
<1>7. Ends(h, below)
  BY <1>1, <1>2, <1>5, <1>6 DEF Ends, n
<1>8. PICK rk \in [Elem -> Nat], b \in Nat : Later(heap, live, stack, rk) /\ \A x \in live : rk[x] < b
  BY DEF Ordered, Kinship
<1>9. Top.fst # NULL => rk[y] < rk[Top.fst]
  <2>1. /\ stack[n - 1].lst # NULL /\ n - 1 \in 1..Len(stack) /\ n \in 1..Len(stack)
        /\ n = (n - 1) + 1
    BY <1>0, <1>3, <1>6 DEF y, n
  <2> QED
    BY <1>4, <1>8, <2>1 DEF Later, y
<1>10. Later(h, live, below, rk)
  <2>1. \A x \in live : /\ h[x].next # NULL => rk[x] < rk[h[x].next]
                        /\ h[x].list # NULL => rk[x] < rk[h[x].list]
    BY <1>5, <1>8, <1>9 DEF Later
  <2>2. ASSUME NEW i \in 1..(n - 1), NEW j \in 1..(n - 1), j = i + 1,
               below[i].lst # NULL, below[j].fst # NULL
        PROVE  rk[below[i].lst] < rk[below[j].fst]
    BY <1>2, <1>6, <1>8, <2>2 DEF Later, n
  <2> QED
    BY <1>2, <2>1, <2>2 DEF Later
<1>11. Ordered(h, live, below)
  BY <1>8, <1>10 DEF Ordered
<1>12. MovedTo(heap, live, stack, z, h, below, z, "fst", n, "list", y)
  <2>1. \A x, v : v # NULL =>
          ((x \in live /\ h[x].list = v) <=>
             (x \in live /\ heap[x].list = v) \/ (x = y /\ stack[n].fst = v))
    BY <1>3, <1>4, <1>5
  <2>2. \A x, v : (x \in live /\ h[x].next = v) <=> (x \in live /\ heap[x].next = v)
    BY <1>5
  <2>3. \A x, v : (x \in 1..Len(below) /\ below[x].fst = v) <=>
                    (x \in 1..Len(stack) /\ stack[x].fst = v /\ x # n)
    BY <1>2, <1>6 DEF n
  <2>4. n \in 1..Len(stack)
    BY <1>6 DEF n
  <2> SUFFICES ASSUME NEW k, NEW x, NEW v, v # NULL
               PROVE  Holds(h, live, below, z, k, x, v) <=>
                        \/ Holds(heap, live, stack, z, k, x, v) /\ ~(k = "fst" /\ x = n)
                        \/ k = "list" /\ x = y /\ Holds(heap, live, stack, z, "fst", n, v)
    BY DEF MovedTo
  <2>5. Holds(heap, live, stack, z, "fst", n, v) <=> stack[n].fst = v
    BY <2>4 DEF Holds
  <2>6. CASE k = "list"
    BY <2>1, <2>5, <2>6 DEF Holds
  <2>7. CASE k = "next"
    BY <2>2, <2>7 DEF Holds
  <2>8. CASE k = "fst"
    BY <2>3, <2>8 DEF Holds
  <2>9. CASE k \notin {"list", "next", "fst"}
    BY <2>9 DEF Holds
  <2> QED
    BY <2>6, <2>7, <2>8, <2>9
<1>13. Owned(h, live, below, z)
  BY <1>0, <1>12, OwnedMoves DEF Kinship
<1>14. Kinship(h, live, below, z) /\ Ends(h, below) /\ Len(below) = d
  BY <1>2, <1>6, <1>7, <1>11, <1>13 DEF Kinship
<1> QED
  BY <1>14 DEF below, h, n, y

(* The outermost list is closed: last_sexp takes it from the bottom level.  *)
LEMMA FinalKinship ==
  ASSUME NEW h, NEW l, NEW s, Len(s) = 1, Kinship(h, l, s, NULL), NULL \notin l
  PROVE  Kinship(h, l, << >>, s[1].fst)
<1>1. MovedTo(h, l, s, NULL, h, << >>, s[1].fst, "fst", 1, "last", 0)
  <2>1. \A x : x \in 1..Len(s) <=> x = 1
    OBVIOUS
  <2>2. Len(<< >>) = 0 /\ \A x : x \notin 1..0
    OBVIOUS
  <2> DEFINE f == s[1].fst
  <2> HIDE DEF f
  <2> SUFFICES ASSUME NEW k, NEW x, NEW v, v # NULL
               PROVE  Holds(h, l, << >>, f, k, x, v) <=>
                        \/ Holds(h, l, s, NULL, k, x, v) /\ ~(k = "fst" /\ x = 1)
                        \/ k = "last" /\ x = 0 /\ Holds(h, l, s, NULL, "fst", 1, v)
    BY DEF MovedTo, f
  <2>3. Holds(h, l, s, NULL, "fst", 1, v) <=> f = v
    BY <2>1 DEF Holds, f
  <2>4. CASE k = "last"
    BY <2>3, <2>4 DEF Holds
  <2>5. CASE k = "fst"
    BY <2>1, <2>2, <2>5 DEF Holds
  <2>6. CASE k \notin {"last", "fst"}
    BY <2>6 DEF Holds
  <2> QED
    BY <2>4, <2>5, <2>6
<1>2. Owned(h, l, << >>, s[1].fst)
  BY <1>1, OwnedMoves DEF Kinship
<1>3. PICK rk \in [Elem -> Nat], b \in Nat : Later(h, l, s, rk) /\ \A x \in l : rk[x] < b
  BY DEF Ordered, Kinship
<1>4. Later(h, l, << >>, rk)
  BY <1>3 DEF Later
<1> QED
  BY <1>2, <1>3, <1>4 DEF Kinship, Ordered
-----------------------------------------------------------------------------
(* The invariant of ownership, in NORMAL mode.  An expression is never left *)
(* without a level while the loop has counted an element, so the exit of    *)
(* the loop hands nothing over.                                             *)
OwnPart ==
  /\ Kinship(heap, live, stack, cc.last_sexp)
  /\ Sound => Ends(heap, stack) /\ Plain(Here)
  /\ pc = "loop" /\ elts > 0 => stack # << >>
  /\ pc \in {"none", "done"} => live = {}
OwnInv == StackInv /\ Mode = "NORMAL" /\ OwnPart

LEMMA EmptyKinship == ASSUME NEW h PROVE Kinship(h, {}, << >>, NULL) /\ Ends(h, << >>)
<1>1. Owned(h, {}, << >>, NULL) /\ Ends(h, << >>)
  BY DEF Owned, Holds, Ends
<1> DEFINE rk == [x \in Elem |-> 0]
<1>2. rk \in [Elem -> Nat] /\ Later(h, {}, << >>, rk) /\ \A x \in {} : rk[x] < 0
  BY DEF Later
<1> HIDE DEF rk
<1>3. Ordered(h, {}, << >>)
  BY <1>2 DEF Ordered
<1> QED
  BY <1>1, <1>3 DEF Kinship

LEMMA LoopOwn ==
  ASSUME OwnInv, pc = "loop"
  PROVE  /\ Shape(rg.depth, stack, heap, live) /\ cc.last_sexp = NULL
         /\ rg.depth \in Nat /\ TreeOK /\ BufferInv /\ live \subseteq Elem /\ NULL \notin live
         /\ Kinship(heap, live, stack, NULL) /\ Ends(heap, stack) /\ Plain(rg) /\ Ordinary
         /\ rg \in Regs /\ rg.hasval /\ ~rg.hasbin
<1>1. /\ Shape(rg.depth, stack, heap, live) /\ cc.last_sexp = NULL
      /\ rg.depth \in Nat /\ TreeOK /\ BufferInv /\ live \subseteq Elem
  BY LoopShape DEF OwnInv
<1>2. NULL \notin live /\ Kinship(heap, live, stack, NULL) /\ Ends(heap, stack) /\ Plain(rg)
  BY <1>1, ElemAssumption DEF OwnInv, OwnPart, Sound, Here
<1> QED
  BY <1>1, <1>2, LoopFacts DEF Ordinary, OwnInv, Plain, Clean

LEMMA StepOwn ==
  ASSUME OwnInv, pc = "loop", NEW r, NEW p, Step(r, p), Plain(r),
         Kinship(heap', live', stack', NULL), Ends(heap', stack'),
         elts' > 0 => stack' # << >>
  PROVE  OwnPart'
<1>1. pc' = "loop" /\ cc' = cc /\ rg' = r
  BY DEF Step
<1>2. Here' = r
  BY <1>1 DEF Here
<1>3. Kinship(heap', live', stack', cc'.last_sexp)
  BY <1>1, LoopOwn
<1> QED
  BY <1>1, <1>2, <1>3 DEF OwnPart

LEMMA ReturnOwn ==
  ASSUME NEW err, NEW r, NEW p, NEW ls, Return(err, r, p, ls),
         Kinship(heap', live', stack', ls),
         err = "MEMORY" \/ (Ends(heap', stack') /\ Plain(r))
  PROVE  OwnPart'
<1>1. pc' = "idle" /\ cc'.regs = r /\ cc'.last_sexp = ls /\ cc'.error = err
  BY DEF Return
<1>2. Here' = r /\ (Sound' => err # "MEMORY")
  BY <1>1 DEF Here, Sound
<1>3. Kinship(heap', live', stack', cc'.last_sexp)
  BY <1>1
<1> QED
  BY <1>1, <1>2, <1>3 DEF OwnPart

LEMMA KindOwn == ASSUME OwnInv, pc = "loop", Kind PROVE OwnPart'
<1>0. /\ Shape(rg.depth, stack, heap, live) /\ rg.depth \in Nat /\ TreeOK
      /\ live \subseteq Elem /\ Ordinary /\ Kinship(heap, live, stack, NULL) /\ Ends(heap, stack)
      /\ Plain(rg)
  BY LoopOwn
<1>1. CASE GoesOn
  <2>1. PICK r, p : Kept(r) /\ Step(r, p) /\ SameTree /\ elts' = elts
    BY <1>1 DEF GoesOn
  <2>2. Plain(r)
    BY <1>0, <2>1 DEF Kept
  <2>3. Kinship(heap', live', stack', NULL) /\ Ends(heap', stack')
    BY <1>0, <2>1 DEF SameTree
  <2>4. elts' > 0 => stack' # << >>
    BY <2>1 DEF OwnInv, OwnPart, SameTree
  <2> QED
    BY <2>1, <2>2, <2>3, <2>4, StepOwn
<1>2. CASE Stops
  <2>1. PICK err, r, p :
          /\ Return(err, r, p, NULL) /\ SameTree
          /\ (err \in {"BADFORM", "INCOMPLETE"} /\ Kept(r)) \/ err = "MEMORY"
    BY <1>2 DEF Stops
  <2>2. Kinship(heap', live', stack', NULL) /\ Ends(heap', stack')
    BY <1>0, <2>1 DEF SameTree
  <2>3. err = "MEMORY" \/ Plain(r)
    BY <1>0, <2>1 DEF Kept
  <2> QED
    BY <2>1, <2>2, <2>3, ReturnOwn
<1>3. CASE MakesAtom
  <2>1. PICK r, p, node :
          /\ Kept(r) /\ node \in Nodes /\ node.list = NULL /\ node.next = NULL
          /\ Room /\ live' = live \cup {NewElem}
          /\ heap' = HeapWith(NewElem, node) /\ stack' = StackWith(NewElem)
          /\ \/ stack # << >> /\ Step(r, p)
             \/ stack = << >> /\ Return("OK", r, p, NewElem)
             \/ ~Ordinary
    BY <1>3 DEF MakesAtom
  <2>2. NewElem \in Elem \ live /\ Plain(r)
    BY <1>0, <2>1, NewElemFresh DEF Kept
  <2>3. CASE stack # << >> /\ Step(r, p)
    <3>1. /\ Kinship(HeapWith(NewElem, node), live \cup {NewElem}, StackWith(NewElem), NULL)
          /\ Ends(HeapWith(NewElem, node), StackWith(NewElem))
      BY <1>0, <2>1, <2>2, <2>3, LinkKinship
    <3>2. Kinship(heap', live', stack', NULL) /\ Ends(heap', stack')
      BY <2>1, <3>1
    <3>3. stack' # << >>
      BY <1>0, <2>1, <2>3, StackWithIs
    <3> QED
      BY <2>2, <2>3, <3>2, <3>3, StepOwn
  <2>4. CASE stack = << >> /\ Return("OK", r, p, NewElem)
    <3>1. Kinship(HeapWith(NewElem, node), live \cup {NewElem}, << >>, NewElem)
      BY <1>0, <2>1, <2>2, <2>4, AtomKinship
    <3>2. stack' = << >>
      BY <2>1, <2>4 DEF StackWith
    <3>3. Kinship(heap', live', stack', NewElem) /\ Ends(heap', stack')
      BY <2>1, <3>1, <3>2, EmptyKinship
    <3> QED
      BY <2>2, <2>4, <3>3, ReturnOwn
  <2> QED
    BY <1>0, <2>1, <2>3, <2>4
<1>4. CASE Undefined
  <2>1. pc' = "undefined" /\ UNCHANGED <<cc, heap, live, stack>>
    BY <1>4 DEF Undefined, tree
  <2> QED
    BY <2>1 DEF OwnInv, OwnPart, Sound
<1> QED
  BY <1>1, <1>2, <1>3, <1>4 DEF Kind

LEMMA Case2Own == ASSUME OwnInv, Case2 PROVE OwnPart'
<1>0. /\ pc = "loop" /\ Shape(rg.depth, stack, heap, live) /\ rg.depth \in Nat /\ TreeOK
      /\ live \subseteq Elem /\ NULL \notin live
      /\ Kinship(heap, live, stack, NULL) /\ Ends(heap, stack) /\ Plain(rg) /\ rg \in Regs
  BY LoopOwn DEF Case2, Case
<1> DEFINE r == [rg EXCEPT !.depth = @ + 1]
           q == [r EXCEPT !.state = 1]
           e == NewElem
           s1 == IF stack = << >> THEN << [fst |-> e, lst |-> e] >> ELSE StackWith(e)
<1>1. \/ Return("MEMORY", r, t, NULL) /\ UNCHANGED tree
      \/ /\ Room /\ live' = live \cup {e} /\ heap' = HeapWith(e, FreeNode)
         /\ \/ Return("MEMORY", r, t, NULL) /\ stack' = s1
            \/ Step(q, t) /\ stack' = Append(s1, EmptyLevel)
  BY Case2Opens DEF OpensList, OwnInv, StackInv
<1>2. Plain(q)
  <2>1. rg.state = 2
    BY DEF Case2, Case
  <2>2. /\ q.state = 1 /\ q.hasbin = rg.hasbin /\ q.val_used = rg.val_used
        /\ q.val_allocated = rg.val_allocated
    BY <1>0 DEF Regs
  <2> QED
    BY <1>0, <2>1, <2>2 DEF Plain, Clean, BetweenAtoms
<1> HIDE DEF r, q
<1>3. CASE Return("MEMORY", r, t, NULL) /\ UNCHANGED tree
  <2>1. Kinship(heap', live', stack', NULL)
    BY <1>0, <1>3 DEF tree
  <2> QED
    BY <1>3, <2>1, ReturnOwn
<1>4. CASE Room /\ live' = live \cup {e} /\ heap' = HeapWith(e, FreeNode)
  <2>1. e \in Elem \ live
    BY <1>0, <1>4, NewElemFresh
  <2>2. /\ Kinship(HeapWith(e, FreeNode), live \cup {e}, s1, NULL)
        /\ Ends(HeapWith(e, FreeNode), s1) /\ s1 \in Seq(Levels) /\ Len(s1) \in Nat
    <3>1. CASE stack = << >>
      <4>1. [fst |-> e, lst |-> e] \in Levels
        BY <2>1 DEF Levels, Ptr
      <4> QED
        <5>1. s1 = << [fst |-> e, lst |-> e] >>
          BY <3>1
        <5>2. s1 \in Seq(Levels) /\ Len(s1) \in Nat
          <6>1. \A x \in Levels : << x >> \in Seq(Levels) /\ Len(<< x >>) \in Nat
            OBVIOUS
          <6> QED
            BY <4>1, <5>1, <6>1, Zenon
        <5>3. /\ Kinship(HeapWith(e, FreeNode), live \cup {e}, << [fst |-> e, lst |-> e] >>, NULL)
              /\ Ends(HeapWith(e, FreeNode), << [fst |-> e, lst |-> e] >>)
          BY <1>0, <2>1, <3>1, BottomKinship, FreeNodeIs, Zenon
        <5> QED
          BY <5>1, <5>2, <5>3
    <3>2. CASE stack # << >>
      BY <1>0, <2>1, <3>2, LinkKinship, FreeNodeIs, StackWithOK
    <3> QED
      BY <3>1, <3>2
  <2>3. NULL \notin live \cup {e}
    BY <1>0, <2>1, ElemAssumption
  <2> HIDE DEF s1, e
  <2>4. CASE Return("MEMORY", r, t, NULL) /\ stack' = s1
    <3>1. Kinship(heap', live', stack', NULL)
      BY <1>4, <2>2, <2>4
    <3> QED
      BY <2>4, <3>1, ReturnOwn
  <2>5. CASE Step(q, t) /\ stack' = Append(s1, EmptyLevel)
    <3>1. /\ Kinship(HeapWith(e, FreeNode), live \cup {e}, Append(s1, EmptyLevel), NULL)
          /\ Ends(HeapWith(e, FreeNode), Append(s1, EmptyLevel))
      BY <2>2, <2>3, PushKinship
    <3>2. Kinship(heap', live', stack', NULL) /\ Ends(heap', stack')
      BY <1>4, <2>5, <3>1
    <3>3. stack' # << >>
      BY <2>2, <2>5, AppendIs, EmptyLevelIs
    <3> QED
      BY <1>0, <1>2, <2>5, <3>2, <3>3, StepOwn
  <2> QED
    BY <1>1, <1>3, <2>4, <2>5
<1> QED
  BY <1>1, <1>3, <1>4

LEMMA Case3Own == ASSUME OwnInv, Case3 PROVE OwnPart'
<1>0. /\ pc = "loop" /\ Shape(rg.depth, stack, heap, live) /\ rg.depth \in Nat /\ TreeOK
      /\ live \subseteq Elem /\ NULL \notin live
      /\ Kinship(heap, live, stack, NULL) /\ Ends(heap, stack) /\ Plain(rg) /\ rg \in Regs
      /\ rg.state = 3
  BY LoopOwn DEF Case3, Case
<1> DEFINE below == SubSeq(stack, 1, Len(stack) - 1)
           h == [heap EXCEPT ![stack[Len(stack) - 1].lst].list = Top.fst]
           r == [rg EXCEPT !.depth = @ - 1]
           k == [r EXCEPT !.esc = 0, !.state = 1]
           q == [r EXCEPT !.state = 1]
           u == [rg EXCEPT !.esc = 0, !.state = 1]
<1>1. \/ Return("BADFORM", u, t, NULL) /\ UNCHANGED tree
      \/ /\ rg.depth # 0 /\ live' = live /\ heap' = h
         /\ \/ rg.depth = 1 /\ Return("OK", k, t + 1, stack[1].fst) /\ stack' = << >>
            \/ rg.depth > 1 /\ Step(q, t + 1) /\ stack' = below
  BY Case3Closes DEF ClosesList, OwnInv
<1>2. Plain(k) /\ Plain(q) /\ Plain(u)
  BY <1>0 DEF Plain, Clean, BetweenAtoms, Regs
<1> HIDE DEF k, q, u
<1>3. CASE Return("BADFORM", u, t, NULL) /\ UNCHANGED tree
  <2>1. Kinship(heap', live', stack', NULL) /\ Ends(heap', stack')
    BY <1>0, <1>3 DEF tree
  <2> QED
    BY <1>2, <1>3, <2>1, ReturnOwn
<1>4. CASE rg.depth # 0 /\ live' = live /\ heap' = h
  <2>1. Kinship(h, live, below, NULL) /\ Ends(h, below) /\ Len(below) = rg.depth
    <3>1. rg.depth \in Nat \ {0}
      BY <1>0, <1>4
    <3> QED
      BY <1>0, <3>1, CloseKinship
  <2>2. CASE rg.depth = 1 /\ Return("OK", k, t + 1, stack[1].fst) /\ stack' = << >>
    <3>1. below[1] = stack[1]
      <4>1. stack # << >>
        BY <1>0, <2>2, ShapeTop
      <4>2. /\ Len(stack) \in Nat \ {0} /\ Len(below) = Len(stack) - 1
            /\ \A i \in 1..(Len(stack) - 1) : below[i] = stack[i]
        BY <1>0, <4>1, BelowIs
      <4>3. 1 \in 1..(Len(stack) - 1)
        BY <2>1, <2>2, <4>2
      <4> QED
        BY <4>2, <4>3
    <3> HIDE DEF below, h
    <3>2. Kinship(h, live, << >>, stack[1].fst)
      BY <1>0, <2>1, <2>2, <3>1, FinalKinship
    <3>3. Kinship(heap', live', stack', stack[1].fst) /\ Ends(heap', stack')
      BY <1>4, <2>2, <3>2, EmptyKinship
    <3> QED
      BY <1>2, <2>2, <3>3, ReturnOwn
  <2>3. CASE rg.depth > 1 /\ Step(q, t + 1) /\ stack' = below
    <3> HIDE DEF below, h
    <3>1. Kinship(heap', live', stack', NULL) /\ Ends(heap', stack')
      BY <1>4, <2>1, <2>3
    <3>2. stack' # << >>
      BY <2>1, <2>3
    <3> QED
      BY <1>0, <1>2, <2>3, <3>1, <3>2, StepOwn
  <2> QED
    BY <1>1, <1>3, <1>4, <2>2, <2>3
<1> QED
  BY <1>1, <1>3, <1>4

LEMMA LoopExitOwn ==
  ASSUME OwnInv, LoopExit
  PROVE  /\ OwnPart'
         /\ \E p : Return("INCOMPLETE", rg, p, NULL) /\ UNCHANGED tree
<1>0. /\ pc = "loop" /\ Shape(rg.depth, stack, heap, live) /\ rg.depth \in Nat /\ TreeOK
      /\ Kinship(heap, live, stack, NULL) /\ Ends(heap, stack) /\ Plain(rg)
  BY LoopOwn DEF LoopExit
<1>1. ~Finished
  BY <1>0, ShapeTop DEF Finished, OwnInv, OwnPart
<1>2. PICK p : Return("INCOMPLETE", rg, p, NULL) /\ UNCHANGED tree
  BY <1>1 DEF LoopExit, tree
<1>3. Kinship(heap', live', stack', NULL) /\ Ends(heap', stack')
  BY <1>0, <1>2 DEF tree
<1>4. OwnPart'
  BY <1>0, <1>2, <1>3, ReturnOwn
<1> QED
  BY <1>2, <1>4

LEMMA StepOwned == ASSUME OwnInv, ParserStep PROVE OwnPart'
<1>1. pc = "loop" /\ (Kind \/ Case2 \/ Case3 \/ LoopExit)
  BY StepKind DEF OwnInv, StackInv
<1> QED
  BY <1>1, KindOwn, Case2Own, Case3Own, LoopExitOwn

(* destroy_sexp and destroy_continuation free exactly what is in use. *)
LEMMA TakesAll == ASSUME OwnInv, Take PROVE Reach(cc.last_sexp) = live
<1>1. /\ cc.last_sexp # NULL /\ stack = << >> /\ TreeOK
      /\ Kinship(heap, live, << >>, cc.last_sexp)
  BY DEF Take, OwnInv, StackInv, BufferInv, Handover, OwnPart
<1>2. cc.last_sexp \in live
  <2>1. Holds(heap, live, << >>, cc.last_sexp, "last", 0, cc.last_sexp)
    BY DEF Holds
  <2> QED
    BY <1>1, <2>1 DEF Kinship, Owned
<1> DEFINE z == cc.last_sexp
           R == {z}
<1> HIDE DEF z
<1>3. live = UNION {Reach(x) : x \in R}
  <2>1. R \in SUBSET live /\ z \in R \cup {NULL} /\ \A i \in 1..Len(<< >>) : FALSE
    BY <1>2 DEF z
  <2>2. Owned(heap, live, << >>, z) /\ Ordered(heap, live, << >>)
    BY <1>1 DEF Kinship, z
  <2> HIDE DEF R
  <2> QED
    BY <1>1, <2>1, <2>2, AllReached
<1> QED
  BY <1>3 DEF z

LEMMA OpenIsAll == ASSUME OwnInv, cc.last_sexp = NULL PROVE OpenElems = live
<1>1. TreeOK /\ Owned(heap, live, stack, NULL) /\ Ordered(heap, live, stack)
  BY DEF OwnInv, StackInv, BufferInv, OwnPart, Kinship
<1> DEFINE R == {stack[i].fst : i \in 1..Len(stack)} \ {NULL}
<1>2. R \in SUBSET live
  BY <1>1 DEF Owned, Holds
<1>3. \A i \in 1..Len(stack) : stack[i].fst \in R \cup {NULL}
  OBVIOUS
<1>4. live = UNION {Reach(x) : x \in R}
  <2> HIDE DEF R
  <2> QED
    BY <1>1, <1>2, <1>3, AllReached
<1>5. Reach(NULL) = {}
  BY <1>1, ReachIs
<1>6. OpenElems \subseteq live
  <2> SUFFICES ASSUME NEW i \in 1..Len(stack), NEW y \in Reach(stack[i].fst) PROVE y \in live
    BY DEF OpenElems
  <2>1. stack[i].fst \in R
    BY <1>5
  <2> QED
    BY <1>4, <2>1
<1>7. live \subseteq OpenElems
  <2> SUFFICES ASSUME NEW y \in live PROVE y \in OpenElems
    OBVIOUS
  <2>1. PICK x \in R : y \in Reach(x)
    BY <1>4
  <2>2. PICK i \in 1..Len(stack) : x = stack[i].fst
    BY <2>1
  <2> QED
    BY <2>1, <2>2 DEF OpenElems
<1> QED
  BY <1>6, <1>7

(* The caller's steps. *)
LEMMA NewContinuationOwn == ASSUME OwnInv, NewContinuation PROVE OwnPart'
<1>1. /\ pc = "none" /\ stack = << >> /\ cc.last_sexp = NULL /\ live = {}
      /\ cc.regs = InitRegs
  BY DEF OwnInv, OwnPart, StackInv, Handover, NewContinuation, BufferInv, ControlInv, Fresh
<1>2. pc' # "loop" /\ UNCHANGED <<cc, stack, heap, live>>
  BY DEF NewContinuation
<1>3. Here' = InitRegs
  BY <1>1, <1>2 DEF Here
<1>4. Plain(InitRegs)
  BY DEF Plain, Clean, InitRegs
<1>5. Kinship(heap', live', stack', cc'.last_sexp) /\ Ends(heap', stack')
  BY <1>1, <1>2, EmptyKinship
<1> QED
  BY <1>1, <1>2, <1>3, <1>4, <1>5 DEF OwnPart

LEMMA CallOwn == ASSUME OwnInv, Call PROVE OwnPart'
<1>1. pc = "idle" /\ Resumable /\ pc' = "loop" /\ rg' = cc.regs /\ elts' = 0
      /\ UNCHANGED <<cc, stack, heap, live>>
  BY DEF Call, tree
<1>2. Sound /\ Here = cc.regs /\ Here' = cc.regs
  BY <1>1 DEF Sound, Here, Resumable
<1> QED
  BY <1>1, <1>2 DEF OwnPart, OwnInv

LEMMA CallNullOwn == ASSUME OwnInv, CallNull PROVE OwnPart'
<1>1. /\ pc = "idle" /\ pc' = "idle" /\ Resumable /\ UNCHANGED <<stack, heap, live>>
      /\ cc' = [cc EXCEPT !.error = "NULLSTRING", !.last_sexp = NULL]
  BY DEF CallNull, tree
<1>2. cc \in [regs : Regs, lastPos : Nat, last_sexp : Ptr, error : ErrCode]
  BY DEF OwnInv, StackInv, BufferInv, ControlInv, ControlOK
<1>3. cc'.regs = cc.regs /\ cc'.last_sexp = NULL /\ cc.last_sexp = NULL
  BY <1>1, <1>2 DEF Resumable
<1>4. Sound /\ Here = cc.regs /\ Here' = cc.regs
  BY <1>1, <1>3 DEF Sound, Here, Resumable
<1> QED
  BY <1>1, <1>3, <1>4 DEF OwnPart, OwnInv

LEMMA TakeOwn == ASSUME OwnInv, Take PROVE OwnPart' /\ live' = {}
<1>1. /\ pc = "idle" /\ pc' = "idle" /\ stack' = stack /\ cc.last_sexp # NULL
      /\ cc' = [cc EXCEPT !.last_sexp = NULL] /\ live' = live \ Reach(cc.last_sexp)
  BY DEF Take, Destroyed
<1>2. cc \in [regs : Regs, lastPos : Nat, last_sexp : Ptr, error : ErrCode]
  BY DEF OwnInv, StackInv, BufferInv, ControlInv, ControlOK
<1>3. cc'.regs = cc.regs /\ cc'.last_sexp = NULL /\ cc'.error = cc.error
  BY <1>1, <1>2
<1>4. stack' = << >> /\ live' = {}
  BY <1>1, TakesAll DEF OwnInv, StackInv, Handover
<1>5. Kinship(heap', live', stack', cc'.last_sexp) /\ Ends(heap', stack')
  BY <1>3, <1>4, EmptyKinship
<1>6. Here = cc.regs /\ Here' = cc.regs /\ (Sound' => Sound)
  BY <1>1, <1>3 DEF Here, Sound
<1> QED
  BY <1>1, <1>4, <1>5, <1>6 DEF OwnPart, OwnInv

LEMMA DestroyContinuationOwn == ASSUME OwnInv, DestroyContinuation PROVE OwnPart'
<1>1. /\ pc' = "done" /\ cc' = cc /\ cc.last_sexp = NULL /\ stack' = << >>
      /\ live' = live \ OpenElems
  BY DEF DestroyContinuation, Destroyed
<1>2. live' = {}
  BY <1>1, OpenIsAll
<1>3. Kinship(heap', live', stack', cc'.last_sexp)
  BY <1>1, <1>2, EmptyKinship
<1> QED
  BY <1>1, <1>2, <1>3 DEF OwnPart, Sound

LEMMA InitOwn == ASSUME Init, ~May("push"), Mode = "NORMAL" PROVE OwnInv
<1>1. pc = "none" /\ stack = << >> /\ cc.last_sexp = NULL /\ live = {}
  BY DEF Init
<1>2. Kinship(heap, live, stack, cc.last_sexp)
  BY <1>1, EmptyKinship
<1> QED
  BY <1>1, <1>2, InitStack DEF OwnInv, OwnPart, Sound

LEMMA NextOwn == OwnInv /\ [Next]_vars => OwnInv'
<1> SUFFICES ASSUME OwnInv, [Next]_vars PROVE OwnInv'
  OBVIOUS
<1>1. StackInv'
  BY NextStack DEF OwnInv
<1>2. CASE UNCHANGED vars
  <2>1. UNCHANGED <<pc, rg, cc, elts, stack, heap, live>>
    BY <1>2 DEF vars, tree
  <2>2. OwnPart'
    BY <2>1 DEF OwnInv, OwnPart, Sound, Here
  <2> QED
    BY <1>1, <2>2 DEF OwnInv
<1>3. CASE Next /\ ~UNCHANGED vars
  <2>1. OwnPart'
    BY <1>3, StepOwned, NewContinuationOwn, CallOwn, CallNullOwn, TakeOwn,
       DestroyContinuationOwn
    DEF Next, Halted
  <2> QED
    BY <1>1, <2>1 DEF OwnInv
<1> QED
  BY <1>2, <1>3

(* The inductive invariant of ownership. *)
THEOREM ParserOwnInv ==
  ASSUME ~May("push"), Mode = "NORMAL" PROVE Spec => []OwnInv
  BY InitOwn, NextOwn, PTL DEF Spec

(* One place holds an element: the four counts of Referrers add up to 1. *)
LEMMA HeldOnce ==
  ASSUME NEW e, e # NULL, e \in live, Owned(heap, live, stack, cc.last_sexp)
  PROVE  Referrers(e) = 1
<1> DEFINE N == {x \in live : heap[x].next = e}
           L == {x \in live : heap[x].list = e}
           F == {i \in 1..Len(stack) : stack[i].fst = e}
           P(k, x) == Holds(heap, live, stack, cc.last_sexp, k, x, e)
<1>1. PICK k, x : P(k, x)
  BY DEF Owned
<1>2. \A j, y : P(j, y) => j = k /\ y = x
  BY <1>1 DEF Owned
<1>3. /\ \A y : y \in N <=> P("next", y)
      /\ \A y : y \in L <=> P("list", y)
      /\ \A y : y \in F <=> P("fst", y)
      /\ cc.last_sexp = e <=> P("last", 0)
      /\ k \in {"next", "list", "fst", "last"}
  BY <1>1 DEF Holds
<1>4. Cardinality({}) = 0 /\ Cardinality({x}) = 1
  BY FS_EmptySet, FS_Singleton
<1>5. Referrers(e) = Cardinality(N) + Cardinality(L) + Cardinality(F)
                       + (IF cc.last_sexp = e THEN 1 ELSE 0)
  BY DEF Referrers
<1> HIDE DEF N, L, F, P
<1>6. CASE k = "next"
  <2>1. N = {x} /\ L = {} /\ F = {} /\ cc.last_sexp # e
    BY <1>1, <1>2, <1>3, <1>6
  <2> QED
    BY <1>4, <1>5, <2>1
<1>7. CASE k = "list"
  <2>1. N = {} /\ L = {x} /\ F = {} /\ cc.last_sexp # e
    BY <1>1, <1>2, <1>3, <1>7
  <2> QED
    BY <1>4, <1>5, <2>1
<1>8. CASE k = "fst"
  <2>1. N = {} /\ L = {} /\ F = {x} /\ cc.last_sexp # e
    BY <1>1, <1>2, <1>3, <1>8
  <2> QED
    BY <1>4, <1>5, <2>1
<1>9. CASE k = "last"
  <2>1. N = {} /\ L = {} /\ F = {} /\ x = 0 /\ cc.last_sexp = e
    BY <1>1, <1>2, <1>3, <1>9 DEF P, Holds
  <2> QED
    BY <1>4, <1>5, <2>1
<1> QED
  BY <1>3, <1>6, <1>7, <1>8, <1>9

(* Every element the parser allocated is referred to from exactly one place *)
(* until the caller destroys it, and destroy_continuation leaves none: for  *)
(* every text, chunking, buffer size and memory, and whichever allocation   *)
(* but push's fails at whatever point.  In INLINE_BINARY mode this is not   *)
(* so: a binary atom outside any list is dropped when another follows it.   *)
THEOREM ParserOwnedOnce ==
  ASSUME ~May("push"), Mode = "NORMAL" PROVE Spec => []OwnedOnce
<1>1. OwnInv => OwnedOnce
  <2> SUFFICES ASSUME OwnInv PROVE OwnedOnce
    OBVIOUS
  <2>1. \A e \in live : e # NULL
    BY ElemAssumption DEF OwnInv, StackInv, BufferInv, TreeOK
  <2>2. Owned(heap, live, stack, cc.last_sexp)
    BY DEF OwnInv, OwnPart, Kinship
  <2> QED
    BY <2>1, <2>2, HeldOnce DEF OwnedOnce, OwnInv, OwnPart
<1> QED
  BY <1>1, ParserOwnInv, PTL
-----------------------------------------------------------------------------
(* Atom buffers and parse_data_t records: each block that is allocated is   *)
(* held by the registers, by a level or by an atom.                         *)
LEMMA BuffersNat ==
  ASSUME IsFiniteSet(live)
  PROVE  /\ IsFiniteSet({x \in live : OwnsBuffer(x)})
         /\ Buffers(live) = Cardinality({x \in live : OwnsBuffer(x)}) /\ Buffers(live) \in Nat
<1>1. {x \in live : OwnsBuffer(x)} \subseteq live
  OBVIOUS
<1>2. IsFiniteSet({x \in live : OwnsBuffer(x)})
  BY <1>1, FS_Subset
<1> QED
  BY <1>2, FS_CardinalityType DEF Buffers

(* What a step adds to the buffers of the atoms. *)
LEMMA BuffersSame ==
  ASSUME IsFiniteSet(live), live' = live,
         \A x \in live : heap'[x].ty = heap[x].ty /\ heap'[x].aty = heap[x].aty
                         /\ heap'[x].val = heap[x].val
  PROVE  IsFiniteSet(live') /\ Buffers(live)' = Buffers(live) /\ Buffers(live) \in Nat
<1>1. \A x \in live : OwnsBuffer(x)' <=> OwnsBuffer(x)
  BY DEF OwnsBuffer
<1>2. {x \in live' : OwnsBuffer(x)'} = {x \in live : OwnsBuffer(x)}
  BY <1>1
<1>3. Buffers(live)' = Buffers(live)
  BY <1>2 DEF Buffers
<1> QED
  BY <1>3, BuffersNat

LEMMA BuffersMore ==
  ASSUME IsFiniteSet(live), NEW e, e \notin live, live' = live \cup {e},
         \A x \in live : heap'[x].ty = heap[x].ty /\ heap'[x].aty = heap[x].aty
                         /\ heap'[x].val = heap[x].val
  PROVE  /\ IsFiniteSet(live') /\ Buffers(live) \in Nat
         /\ heap'[e].ty = "LIST" => Buffers(live)' = Buffers(live)
         /\ heap'[e].ty = "VALUE" /\ heap'[e].aty # "BINARY" => Buffers(live)' = Buffers(live) + 1
<1> DEFINE B == {x \in live : OwnsBuffer(x)}
<1>1. \A x \in live : OwnsBuffer(x)' <=> OwnsBuffer(x)
  BY DEF OwnsBuffer
<1>2. IsFiniteSet(live') /\ IsFiniteSet(B) /\ Buffers(live) = Cardinality(B)
      /\ Buffers(live) \in Nat
  BY FS_AddElement, BuffersNat
<1>3. Buffers(live)' = Cardinality({x \in live' : OwnsBuffer(x)'})
  BY DEF Buffers
<1>4. ASSUME heap'[e].ty = "LIST" PROVE Buffers(live)' = Buffers(live)
  <2>1. ~OwnsBuffer(e)'
    BY <1>4 DEF OwnsBuffer
  <2>2. {x \in live' : OwnsBuffer(x)'} = B
    BY <1>1, <2>1
  <2> QED
    BY <1>2, <1>3, <2>2
<1>5. ASSUME heap'[e].ty = "VALUE", heap'[e].aty # "BINARY"
      PROVE  Buffers(live)' = Buffers(live) + 1
  <2>1. OwnsBuffer(e)'
    BY <1>5 DEF OwnsBuffer
  <2>2. {x \in live' : OwnsBuffer(x)'} = B \cup {e}
    BY <1>1, <2>1
  <2>3. Cardinality(B \cup {e}) = Cardinality(B) + 1
    BY <1>2, FS_AddElement
  <2> QED
    BY <1>2, <1>3, <2>2, <2>3
<1> QED
  BY <1>2, <1>4, <1>5

LEMMA NoBuffers == ASSUME live' = {} PROVE IsFiniteSet(live') /\ Buffers(live)' = 0
<1>1. {x \in live' : OwnsBuffer(x)'} = {}
  OBVIOUS
<1> QED
  BY <1>1, FS_EmptySet DEF Buffers

BlockPart == IsFiniteSet(live) /\ BlocksAccounted
BlockInv == OwnInv /\ FirstFits /\ BlockPart

LEMMA LoopBlocks ==
  ASSUME BlockInv, pc = "loop"
  PROVE  /\ IsFiniteSet(live) /\ Len(stack) \in Nat /\ Buffers(live) \in Nat
         /\ blocks = Buffers(live) + Len(stack) + 1
         /\ Ordinary /\ FirstFits /\ TreeOK /\ live \subseteq Elem
         /\ stack # << >> /\ Top.fst # NULL => Top.lst \in live
<1>1. /\ rg.hasval /\ ~rg.hasbin /\ TreeOK /\ Ordinary /\ live \subseteq Elem
      /\ stack # << >> /\ Top.fst # NULL => Top.lst \in live
  BY LoopOwn, ShapeTop DEF BlockInv
<1>2. Len(stack) \in Nat /\ Here = rg
  BY <1>1 DEF TreeOK, Here
<1>3. IsFiniteSet(live) /\ Buffers(live) \in Nat
  BY BuffersNat DEF BlockInv, BlockPart
<1> QED
  BY <1>1, <1>2, <1>3 DEF BlockInv, BlockPart, BlocksAccounted

LEMMA StepBlocks ==
  ASSUME pc = "loop", NEW r, NEW p, Step(r, p), r.hasval, ~r.hasbin,
         IsFiniteSet(live'), Buffers(live)' \in Nat, Len(stack') \in Nat,
         blocks' = Buffers(live)' + Len(stack') + 1
  PROVE  BlockPart'
<1>1. pc' = "loop" /\ rg' = r
  BY DEF Step
<1>2. Here' = r
  BY <1>1 DEF Here
<1> QED
  BY <1>1, <1>2 DEF BlockPart, BlocksAccounted

LEMMA ReturnBlocks ==
  ASSUME NEW err, NEW r, NEW p, NEW ls, Return(err, r, p, ls), ~r.hasbin,
         IsFiniteSet(live'), Buffers(live)' \in Nat, Len(stack') \in Nat,
         blocks' = Buffers(live)' + Len(stack') + (IF r.hasval THEN 1 ELSE 0)
  PROVE  BlockPart'
<1>1. pc' = "idle" /\ cc'.regs = r
  BY DEF Return
<1>2. Here' = r
  BY <1>1 DEF Here
<1> QED
  BY <1>1, <1>2 DEF BlockPart, BlocksAccounted

LEMMA KindBlocks == ASSUME BlockInv, pc = "loop", Kind PROVE BlockPart'
<1>0. /\ IsFiniteSet(live) /\ Len(stack) \in Nat /\ Buffers(live) \in Nat
      /\ blocks = Buffers(live) + Len(stack) + 1
      /\ Ordinary /\ FirstFits /\ TreeOK /\ live \subseteq Elem
      /\ stack # << >> /\ Top.fst # NULL => Top.lst \in live
  BY LoopBlocks
<1>1. ASSUME SameTree PROVE IsFiniteSet(live') /\ Buffers(live)' = Buffers(live) /\ stack' = stack
  BY <1>0, <1>1, BuffersSame DEF SameTree
<1>2. CASE GoesOn
  <2>1. PICK r, p : Kept(r) /\ Step(r, p) /\ SameTree /\ blocks' = blocks
    BY <1>0, <1>2 DEF GoesOn
  <2>2. r.hasval /\ ~r.hasbin
    BY <1>0, <2>1 DEF Kept, Good, Bounded, Plain, Clean
  <2> QED
    BY <1>0, <1>1, <2>1, <2>2, StepBlocks
<1>3. CASE Stops
  <2>1. PICK err, r, p :
          /\ r \in Regs /\ Return(err, r, p, NULL) /\ SameTree
          /\ ~r.hasbin /\ blocks' = (IF r.hasval THEN blocks ELSE blocks - 1)
    BY <1>0, <1>3 DEF Stops
  <2>2. blocks' = Buffers(live)' + Len(stack') + (IF r.hasval THEN 1 ELSE 0)
    BY <1>0, <1>1, <2>1
  <2> QED
    BY <1>0, <1>1, <2>1, <2>2, ReturnBlocks
<1>4. CASE MakesAtom
  <2>1. PICK r, p, node :
          /\ Kept(r) /\ node \in Nodes /\ node.ty = "VALUE" /\ node.aty # "BINARY"
          /\ Room /\ live' = live \cup {NewElem} /\ blocks' = blocks + 1
          /\ heap' = HeapWith(NewElem, node) /\ stack' = StackWith(NewElem)
          /\ \/ stack # << >> /\ Step(r, p)
             \/ stack = << >> /\ Return("OK", r, p, NewElem)
    BY <1>0, <1>4 DEF MakesAtom
  <2>2. NewElem \in Elem \ live /\ r.hasval /\ ~r.hasbin
    BY <1>0, <2>1, NewElemFresh DEF Kept, Good, Bounded, Plain, Clean
  <2>3. /\ heap'[NewElem] = node
        /\ \A x \in live : heap'[x].ty = heap[x].ty /\ heap'[x].aty = heap[x].aty
                           /\ heap'[x].val = heap[x].val
    BY <1>0, <2>1, <2>2, HeapWithIs
  <2>4. IsFiniteSet(live') /\ Buffers(live)' = Buffers(live) + 1
    BY <1>0, <2>1, <2>2, <2>3, BuffersMore
  <2>5. Len(stack') = Len(stack)
    BY <1>0, <2>1, StackWithIs DEF StackWith
  <2>6. blocks' = Buffers(live)' + Len(stack') + 1 /\ Buffers(live)' \in Nat
    BY <1>0, <2>1, <2>4, <2>5
  <2>7. CASE Step(r, p)
    BY <1>0, <2>2, <2>4, <2>5, <2>6, <2>7, StepBlocks
  <2>8. CASE Return("OK", r, p, NewElem)
    BY <1>0, <2>2, <2>4, <2>5, <2>6, <2>8, ReturnBlocks
  <2> QED
    BY <2>1, <2>7, <2>8
<1>5. CASE Undefined
  <2>1. pc' = "undefined" /\ live' = live
    BY <1>5 DEF Undefined, tree
  <2> QED
    BY <1>0, <2>1 DEF BlockPart, BlocksAccounted
<1> QED
  BY <1>2, <1>3, <1>4, <1>5 DEF Kind

LEMMA Case2Blocks == ASSUME BlockInv, Case2 PROVE BlockPart'
<1>0. /\ pc = "loop" /\ IsFiniteSet(live) /\ Len(stack) \in Nat /\ Buffers(live) \in Nat
      /\ blocks = Buffers(live) + Len(stack) + 1
      /\ TreeOK /\ live \subseteq Elem
      /\ stack # << >> /\ Top.fst # NULL => Top.lst \in live
  BY LoopBlocks DEF Case2, Case
<1> DEFINE r == [rg EXCEPT !.depth = @ + 1]
           q == [r EXCEPT !.state = 1]
           e == NewElem
           s1 == IF stack = << >> THEN << [fst |-> e, lst |-> e] >> ELSE StackWith(e)
           n1 == IF stack = << >> THEN 1 ELSE 0
<1>1. \/ Return("MEMORY", r, t, NULL) /\ UNCHANGED tree
      \/ /\ Room /\ live' = live \cup {e} /\ heap' = HeapWith(e, FreeNode)
         /\ \/ Return("MEMORY", r, t, NULL) /\ stack' = s1 /\ blocks' = blocks + n1
            \/ /\ Step(q, t) /\ stack' = Append(s1, EmptyLevel)
               /\ blocks' = blocks + n1 + 1
  BY Case2Opens DEF OpensList, BlockInv, OwnInv, StackInv
<1>2. r.hasval /\ ~r.hasbin /\ q.hasval /\ ~q.hasbin
  <2>1. rg \in Regs /\ rg.hasval /\ ~rg.hasbin
    BY <1>0, LoopOwn DEF BlockInv
  <2> QED
    BY <2>1 DEF Regs
<1> HIDE DEF r, q
<1>3. CASE Return("MEMORY", r, t, NULL) /\ UNCHANGED tree
  <2>1. /\ IsFiniteSet(live') /\ Buffers(live)' = Buffers(live) /\ stack' = stack
        /\ blocks' = blocks
    BY <1>0, <1>3, BuffersSame DEF tree
  <2> QED
    BY <1>0, <1>2, <1>3, <2>1, ReturnBlocks
<1>4. CASE Room /\ live' = live \cup {e} /\ heap' = HeapWith(e, FreeNode)
  <2>1. e \in Elem \ live
    BY <1>0, <1>4, NewElemFresh
  <2>2. /\ heap'[e] = FreeNode
        /\ \A x \in live : heap'[x].ty = heap[x].ty /\ heap'[x].aty = heap[x].aty
                           /\ heap'[x].val = heap[x].val
    BY <1>0, <1>4, <2>1, HeapWithIs, FreeNodeIs
  <2>3. IsFiniteSet(live') /\ Buffers(live)' = Buffers(live)
    BY <1>0, <1>4, <2>1, <2>2, BuffersMore, FreeNodeIs
  <2>4. s1 \in Seq(Levels) /\ Len(s1) = Len(stack) + n1 /\ n1 \in Nat
    <3>1. CASE stack = << >>
      <4>1. [fst |-> e, lst |-> e] \in Levels
        BY <2>1 DEF Levels, Ptr
      <4> QED
        BY <3>1, <4>1
    <3>2. CASE stack # << >>
      BY <1>0, <2>1, <3>2, StackWithOK, StackWithIs
    <3> QED
      BY <3>1, <3>2
  <2> HIDE DEF s1, e, n1
  <2>5. CASE Return("MEMORY", r, t, NULL) /\ stack' = s1 /\ blocks' = blocks + n1
    <3>1. Len(stack') \in Nat /\ blocks' = Buffers(live)' + Len(stack') + 1
      BY <1>0, <2>3, <2>4, <2>5
    <3> QED
      BY <1>0, <1>2, <2>3, <2>5, <3>1, ReturnBlocks
  <2>6. CASE Step(q, t) /\ stack' = Append(s1, EmptyLevel) /\ blocks' = blocks + n1 + 1
    <3>1. Len(stack') = Len(s1) + 1
      BY <2>4, <2>6, AppendIs, EmptyLevelIs
    <3>2. Len(stack') \in Nat /\ blocks' = Buffers(live)' + Len(stack') + 1
      BY <1>0, <2>3, <2>4, <2>6, <3>1
    <3> QED
      BY <1>0, <1>2, <2>3, <2>6, <3>2, StepBlocks
  <2> QED
    BY <1>1, <1>3, <2>5, <2>6
<1> QED
  BY <1>1, <1>3, <1>4

LEMMA Case3Blocks == ASSUME BlockInv, Case3 PROVE BlockPart'
<1>0. /\ pc = "loop" /\ IsFiniteSet(live) /\ Len(stack) \in Nat /\ Buffers(live) \in Nat
      /\ blocks = Buffers(live) + Len(stack) + 1 /\ TreeOK
  BY LoopBlocks DEF Case3, Case
<1> DEFINE below == SubSeq(stack, 1, Len(stack) - 1)
           x == stack[Len(stack) - 1].lst
           r == [rg EXCEPT !.depth = @ - 1]
           k == [r EXCEPT !.esc = 0, !.state = 1]
           q == [r EXCEPT !.state = 1]
           u == [rg EXCEPT !.esc = 0, !.state = 1]
<1>1. \/ Return("BADFORM", u, t, NULL) /\ UNCHANGED tree
      \/ /\ rg.depth # 0 /\ x \in live /\ live' = live
         /\ heap' = [heap EXCEPT ![x].list = Top.fst]
         /\ \/ /\ Return("OK", k, t + 1, stack[1].fst) /\ stack' = << >>
               /\ blocks' = blocks - Len(stack)
            \/ Step(q, t + 1) /\ stack' = below /\ blocks' = blocks - 1
  BY Case3Closes DEF ClosesList, BlockInv, OwnInv
<1>2. k.hasval /\ ~k.hasbin /\ q.hasval /\ ~q.hasbin /\ u.hasval /\ ~u.hasbin
  <2>1. rg \in Regs /\ rg.hasval /\ ~rg.hasbin
    BY <1>0, LoopOwn DEF BlockInv
  <2> QED
    BY <2>1 DEF Regs
<1> HIDE DEF k, q, u
<1>3. CASE Return("BADFORM", u, t, NULL) /\ UNCHANGED tree
  <2>1. /\ IsFiniteSet(live') /\ Buffers(live)' = Buffers(live) /\ stack' = stack
        /\ blocks' = blocks
    BY <1>0, <1>3, BuffersSame DEF tree
  <2> QED
    BY <1>0, <1>2, <1>3, <2>1, ReturnBlocks
<1>4. CASE /\ rg.depth # 0 /\ x \in live /\ live' = live
           /\ heap' = [heap EXCEPT ![x].list = Top.fst]
  <2>1. \A y \in live : heap'[y].ty = heap[y].ty /\ heap'[y].aty = heap[y].aty
                        /\ heap'[y].val = heap[y].val
    <3> HIDE DEF x
    <3> QED
      BY <1>0, <1>4, LinkedIs
  <2>2. IsFiniteSet(live') /\ Buffers(live)' = Buffers(live)
    BY <1>0, <1>4, <2>1, BuffersSame
  <2>3. CASE /\ Return("OK", k, t + 1, stack[1].fst) /\ stack' = << >>
             /\ blocks' = blocks - Len(stack)
    <3>1. Len(stack') = 0 /\ blocks' = Buffers(live)' + 0 + 1
      BY <1>0, <2>2, <2>3
    <3> QED
      BY <1>0, <1>2, <2>2, <2>3, <3>1, ReturnBlocks
  <2>4. CASE Step(q, t + 1) /\ stack' = below /\ blocks' = blocks - 1
    <3>1. stack # << >>
      BY <1>0, <1>4, LoopOwn, ShapeTop DEF BlockInv
    <3>2. Len(stack') = Len(stack) - 1 /\ Len(stack) \in Nat \ {0}
      BY <1>0, <2>4, <3>1, BelowIs
    <3>3. Len(stack') \in Nat /\ blocks' = Buffers(live)' + Len(stack') + 1
      BY <1>0, <2>2, <2>4, <3>2
    <3> QED
      BY <1>0, <1>2, <2>2, <2>4, <3>3, StepBlocks
  <2> QED
    BY <1>1, <1>3, <1>4, <2>3, <2>4
<1> QED
  BY <1>1, <1>3, <1>4

LEMMA LoopExitBlocks == ASSUME BlockInv, LoopExit PROVE BlockPart'
<1>0. /\ pc = "loop" /\ IsFiniteSet(live) /\ Len(stack) \in Nat /\ Buffers(live) \in Nat
      /\ blocks = Buffers(live) + Len(stack) + 1 /\ rg.hasval /\ ~rg.hasbin
  BY LoopBlocks, LoopOwn DEF LoopExit, BlockInv
<1>1. PICK p : Return("INCOMPLETE", rg, p, NULL) /\ UNCHANGED tree
  BY LoopExitOwn DEF BlockInv
<1>2. /\ IsFiniteSet(live') /\ Buffers(live)' = Buffers(live) /\ stack' = stack
      /\ blocks' = blocks
  BY <1>0, <1>1, BuffersSame DEF tree
<1> QED
  BY <1>0, <1>1, <1>2, ReturnBlocks

LEMMA ParserStepBlocks == ASSUME BlockInv, ParserStep PROVE BlockPart'
<1>1. pc = "loop" /\ (Kind \/ Case2 \/ Case3 \/ LoopExit)
  BY StepKind DEF BlockInv, OwnInv, StackInv
<1> QED
  BY <1>1, KindBlocks, Case2Blocks, Case3Blocks, LoopExitBlocks

LEMMA NewContinuationBlocks == ASSUME BlockInv, NewContinuation PROVE BlockPart'
<1>1. /\ pc = "none" /\ stack = << >> /\ live = {} /\ cc.regs = InitRegs /\ blocks = 0
  BY DEF BlockInv, BlockPart, BlocksAccounted, OwnInv, OwnPart, StackInv, Handover,
         NewContinuation, BufferInv, ControlInv, Fresh
<1>2. /\ UNCHANGED <<cc, stack, heap, live>>
      /\ (pc' = "idle" /\ blocks' = 1) \/ (pc' = "done" /\ blocks' = 0)
  BY <1>1 DEF NewContinuation
<1>3. Here' = InitRegs
  BY <1>1, <1>2 DEF Here
<1>4. IsFiniteSet(live') /\ Buffers(live)' = 0
  BY <1>1, <1>2, NoBuffers
<1>5. InitRegs.hasval /\ ~InitRegs.hasbin
  BY DEF InitRegs
<1> QED
  BY <1>1, <1>2, <1>3, <1>4, <1>5 DEF BlockPart, BlocksAccounted

LEMMA CallBlocks == ASSUME BlockInv, Call \/ CallNull PROVE BlockPart'
<1>1. /\ pc = "idle" /\ pc' \in {"idle", "loop"} /\ UNCHANGED <<stack, heap, live, blocks>>
      /\ pc' = "loop" => rg' = cc.regs
      /\ pc' = "idle" => cc'.regs = cc.regs
  <2>1. CASE Call
    BY <2>1 DEF Call, tree
  <2>2. CASE CallNull
    <3>1. cc \in [regs : Regs, lastPos : Nat, last_sexp : Ptr, error : ErrCode]
      BY DEF BlockInv, OwnInv, StackInv, BufferInv, ControlInv, ControlOK
    <3> QED
      BY <2>2, <3>1 DEF CallNull, tree
  <2> QED
    BY <2>1, <2>2
<1>2. Here = cc.regs /\ Here' = cc.regs
  BY <1>1 DEF Here
<1>3. IsFiniteSet(live') /\ Buffers(live)' = Buffers(live)
  BY <1>1, BuffersSame DEF BlockInv, BlockPart
<1> QED
  BY <1>1, <1>2, <1>3 DEF BlockInv, BlockPart, BlocksAccounted

LEMMA TakeBlocks == ASSUME BlockInv, Take PROVE BlockPart'
<1>1. /\ pc = "idle" /\ pc' = "idle" /\ stack' = stack
      /\ cc' = [cc EXCEPT !.last_sexp = NULL]
      /\ blocks' = blocks - Buffers(Reach(cc.last_sexp))
  BY DEF Take
<1>2. cc \in [regs : Regs, lastPos : Nat, last_sexp : Ptr, error : ErrCode]
      /\ stack \in Seq(Levels)
  BY DEF BlockInv, OwnInv, StackInv, BufferInv, ControlInv, ControlOK, TreeOK
<1>3. Here = cc.regs /\ Here' = cc.regs
  BY <1>1, <1>2 DEF Here
<1>4. blocks' = blocks - Buffers(live)
  BY <1>1, TakesAll DEF BlockInv
<1>5. IsFiniteSet(live') /\ Buffers(live)' = 0 /\ Buffers(live) \in Nat
  BY TakeOwn, NoBuffers, BuffersNat DEF BlockInv, BlockPart
<1>6. Len(stack) \in Nat /\ pc = "idle" /\ pc' = "idle" /\ stack' = stack
  BY <1>1, <1>2
<1> DEFINE n == (IF Here.hasval THEN 1 ELSE 0)
           b == (IF Here.hasbin THEN 1 ELSE 0)
<1>7. blocks = Buffers(live) + Len(stack) + n + b /\ n \in Nat /\ b \in Nat
  BY <1>6 DEF BlockInv, BlockPart, BlocksAccounted
<1>8. n' = n /\ b' = b
  BY <1>3
<1> HIDE DEF n, b
<1>9. blocks' = Buffers(live)' + Len(stack') + n' + b'
  BY <1>4, <1>5, <1>6, <1>7, <1>8
<1> QED
  BY <1>5, <1>6, <1>9 DEF BlockPart, BlocksAccounted, n, b

LEMMA DestroyContinuationBlocks == ASSUME BlockInv, DestroyContinuation PROVE BlockPart'
<1>1. /\ pc = "idle" /\ pc' = "done" /\ stack' = << >> /\ cc.last_sexp = NULL
      /\ live' = live \ OpenElems
      /\ blocks' = blocks - Buffers(OpenElems) - Len(stack)
                          - (IF cc.regs.hasval THEN 1 ELSE 0)
                          - (IF cc.regs.hasbin THEN 1 ELSE 0)
  BY DEF DestroyContinuation, Destroyed
<1>2. OpenElems = live
  BY <1>1, OpenIsAll DEF BlockInv
<1>3. Len(stack) \in Nat /\ Here = cc.regs
  BY <1>1 DEF BlockInv, OwnInv, StackInv, BufferInv, TreeOK, Here
<1>4. IsFiniteSet(live') /\ Buffers(live) \in Nat
  BY <1>1, <1>2, NoBuffers, BuffersNat DEF BlockInv, BlockPart
<1>5. blocks' = 0
  BY <1>1, <1>2, <1>3, <1>4 DEF BlockInv, BlockPart, BlocksAccounted
<1> QED
  BY <1>1, <1>4, <1>5 DEF BlockPart, BlocksAccounted

LEMMA NextBlocks == BlockInv /\ [Next]_vars => BlockInv'
<1> SUFFICES ASSUME BlockInv, [Next]_vars PROVE BlockInv'
  OBVIOUS
<1>1. OwnInv' /\ FirstFits'
  BY NextOwn DEF BlockInv, FirstFits, May
<1>2. CASE UNCHANGED vars
  <2>1. UNCHANGED <<pc, rg, cc, stack, heap, live, blocks>>
    BY <1>2 DEF vars, tree
  <2>2. IsFiniteSet(live') /\ Buffers(live)' = Buffers(live)
    BY <2>1, BuffersSame DEF BlockInv, BlockPart
  <2>3. BlockPart'
    BY <2>1, <2>2 DEF BlockInv, BlockPart, BlocksAccounted, Here
  <2> QED
    BY <1>1, <2>3 DEF BlockInv
<1>3. CASE Next /\ ~UNCHANGED vars
  <2>1. BlockPart'
    BY <1>3, ParserStepBlocks, NewContinuationBlocks, CallBlocks, TakeBlocks,
       DestroyContinuationBlocks
    DEF Next, Halted
  <2> QED
    BY <1>1, <2>1 DEF BlockInv
<1> QED
  BY <1>2, <1>3

LEMMA InitBlocks == ASSUME Init, ~May("push"), Mode = "NORMAL", FirstFits PROVE BlockInv
<1>1. pc = "none" /\ live = {} /\ blocks = 0
  BY DEF Init
<1>2. IsFiniteSet(live)
  BY <1>1, FS_EmptySet
<1> QED
  BY <1>1, <1>2, InitOwn DEF BlockInv, BlockPart, BlocksAccounted

(* There are as many atom buffers and parse_data_t records as the elements, *)
(* the levels and the registers own, and destroy_continuation leaves none   *)
(* of them, so none is leaked and none freed twice: for every text,         *)
(* chunking and memory, and whichever allocation but push's fails, as long  *)
(* as the first character of an atom does not make the buffer grow (case 1  *)
(* of cparse_sexp overwrites val with realloc's NULL).                      *)
THEOREM ParserBlocksAccounted ==
  ASSUME ~May("push"), Mode = "NORMAL", FirstFits PROVE Spec => []BlocksAccounted
<1>1. BlockInv => BlocksAccounted
  BY DEF BlockInv, BlockPart
<1>2. Init => BlockInv
  BY InitBlocks
<1> QED
  BY <1>1, <1>2, NextBlocks, PTL DEF Spec
-----------------------------------------------------------------------------
(* Where the parser reads. *)

(* The inductive invariant.  At position p with registers r: outside an     *)
(* atom no escape is pending and none precedes p; in an atom or a string    *)
(* esc says whether the character before p is an escape, and then it has    *)
(* been stored.  State 3 is entered at a closing parenthesis.               *)
Outside == {1, 2, 3, 6, 7}
Placed(r, p) ==
  /\ p \in 1..bufEnd
  /\ r.state \in Outside => r.esc = 0 /\ p - 1 \notin Escapes(text)
  /\ r.state \in {4, 5} => /\ (r.esc = 1) <=> (p - 1 \in Escapes(text))
                           /\ r.esc = 1 => r.val # << >>
  /\ r.state = 11 => r.esc = 0
  /\ r.state = 3 => CharAt(p) = "rp"
Ready == pc \in {"none", "loop"} \/ (pc = "idle" /\ cc.error \notin {"MEMORY", "BADFORM"})
Place == IF pc = "loop" THEN t ELSE IF cc.lastPos = 0 THEN bufEnd ELSE cc.lastPos
PlacePart ==
  /\ pc # "undefined" /\ bufEnd \in Cuts(text) \cup {1}
  /\ Ready => Placed(Here, Place)
PlaceInv == OwnInv /\ (\A s \in Texts : WellEscaped(s, Cuts(s))) /\ PlacePart

LEMMA EscapesAre ==
  ASSUME NEW s, Len(s) \in Nat, NEW i \in Nat
  PROVE  /\ 0 \notin Escapes(s)
         /\ i + 1 \in Escapes(s)
              <=> i + 1 <= Len(s) /\ s[i + 1] = "bs" /\ i \notin Escapes(s)
<1>1. 0 \notin Escapes(s)
  BY DEF Escapes
<1>2. ASSUME i + 1 \in Escapes(s)
      PROVE  i + 1 <= Len(s) /\ s[i + 1] = "bs" /\ i \notin Escapes(s)
  <2>1. i + 1 \in 1..Len(s)
    BY <1>2 DEF Escapes
  <2>2. PICK j \in 1..(i + 1) :
          /\ \A k \in j..(i + 1) : s[k] = "bs"
          /\ j = 1 \/ s[j - 1] # "bs"
          /\ ((i + 1) - j) % 2 = 0
    BY <1>2 DEF Escapes
  <2>3. s[i + 1] = "bs"
    BY <2>2
  <2>4. ASSUME i \in Escapes(s) PROVE FALSE
    <3>1. PICK l \in 1..i :
            /\ \A k \in l..i : s[k] = "bs"
            /\ l = 1 \/ s[l - 1] # "bs"
            /\ (i - l) % 2 = 0
      BY <2>4 DEF Escapes
    <3>2. ~(j < l)
      <4>1. ASSUME j < l PROVE FALSE
        <5>1. l - 1 \in j..(i + 1) /\ l # 1
          BY <4>1, <2>2, <3>1
        <5> QED
          BY <2>2, <3>1, <5>1
      <4> QED
        BY <4>1
    <3>3. ~(l < j)
      <4>1. ASSUME l < j PROVE FALSE
        <5>1. j - 1 \in l..i /\ j # 1
          BY <4>1, <2>2, <3>1
        <5> QED
          BY <2>2, <3>1, <5>1
      <4> QED
        BY <4>1
    <3>4. j = l
      BY <2>2, <3>1, <3>2, <3>3
    <3>5. (i - j) % 2 = 0 /\ ((i + 1) - j) % 2 = 0 /\ i - j \in Int
      BY <2>2, <3>1, <3>4
    <3> QED
      BY <3>5
  <2> QED
    BY <2>1, <2>3, <2>4
<1>3. ASSUME i + 1 <= Len(s), s[i + 1] = "bs", i \notin Escapes(s)
      PROVE  i + 1 \in Escapes(s)
  <2> DEFINE T == {m \in 0..i : m = i \/ s[i - m] # "bs"}
  <2>1. T \in SUBSET Nat /\ T # {}
    <3>1. i \in T
      OBVIOUS
    <3> QED
      BY <3>1
  <2>2. PICK m \in T : \A k \in T : m <= k
    BY <2>1, LeastNat
  <2> DEFINE j == i + 1 - m
  <2>3. j \in 1..(i + 1) /\ (j = 1 \/ s[j - 1] # "bs") /\ m \in 0..i
    BY <2>2
  <2>4. \A k \in j..(i + 1) : s[k] = "bs"
    <3>1. SUFFICES ASSUME NEW k \in j..(i + 1), k # i + 1 PROVE s[k] = "bs"
      BY <1>3
    <3>2. i - k \in 0..i /\ ~(m <= i - k) /\ i - (i - k) = k
      BY <2>3, <3>1
    <3>3. i - k \notin T
      BY <2>2, <3>2
    <3> QED
      BY <3>2, <3>3
  <2> HIDE DEF T
  <2>5. CASE (i + 1 - j) % 2 = 0
    <3>1. i + 1 \in 1..Len(s)
      BY <1>3
    <3> HIDE DEF j
    <3> QED
      BY <2>3, <2>4, <2>5, <3>1 DEF Escapes
  <2>6. CASE (i + 1 - j) % 2 # 0
    <3>1. j # i + 1
      BY <2>3, <2>6
    <3>2. (i - j) % 2 = 0
      BY <2>3, <2>6
    <3>3. j \in 1..i /\ i \in 1..Len(s) /\ \A k \in j..i : s[k] = "bs"
      BY <1>3, <2>3, <2>4, <3>1
    <3>4. i \in Escapes(s)
      BY <2>3, <3>2, <3>3 DEF Escapes
    <3> QED
      BY <1>3, <3>4
  <2> QED
    BY <2>5, <2>6
<1> QED
  BY <1>1, <1>2, <1>3

(* Going round the loop and returning. *)
LEMMA LoopPlace ==
  ASSUME PlaceInv, pc = "loop"
  PROVE  /\ Placed(rg, t) /\ t \in 1..bufEnd /\ bufEnd \in 1..(Len(text) + 1)
         /\ Len(text) \in Nat /\ t \in Nat /\ rg \in Regs /\ Good(rg) /\ Ch \in Char
         /\ WellEscaped(text, Cuts(text)) /\ bufEnd \in Cuts(text) \cup {1}
         /\ BufferInv /\ Plain(rg)
<1>1. BufferInv /\ Plain(rg)
  BY LoopOwn DEF PlaceInv
<1>2. rg \in Regs /\ Good(rg) /\ t \in Nat /\ Ch \in Char
  BY <1>1, LoopFacts
<1>3. text \in Texts /\ bufEnd \in 1..(Len(text) + 1)
  BY <1>1 DEF BufferInv, ControlInv, ControlOK
<1>4. Len(text) \in Nat
  BY <1>3, TextsAssumption
<1>5. Placed(rg, t) /\ bufEnd \in Cuts(text) \cup {1}
  BY DEF PlaceInv, PlacePart, Ready, Here, Place
<1> QED
  BY <1>1, <1>2, <1>3, <1>4, <1>5 DEF PlaceInv, Placed

LEMMA StepPlace ==
  ASSUME PlaceInv, pc = "loop", NEW r, NEW p, Step(r, p), Placed(r, p)
  PROVE  PlacePart'
<1>1. pc' = "loop" /\ rg' = r /\ t' = p /\ text' = text /\ bufEnd' = bufEnd
  BY DEF Step
<1>2. Here' = r /\ Place' = p
  BY <1>1 DEF Here, Place
<1>3. Placed(Here, Place)'
  BY <1>1, <1>2 DEF Placed, CharAt
<1> QED
  BY <1>1, <1>3, LoopPlace DEF PlacePart

LEMMA ReturnPlace ==
  ASSUME PlaceInv, pc = "loop", NEW err, NEW r, NEW p, NEW ls, Return(err, r, p, ls),
         \/ err \in {"MEMORY", "BADFORM"}
         \/ p # 0 /\ Placed(r, p)
         \/ p = 0 /\ Placed(r, bufEnd)
  PROVE  PlacePart'
<1>1. /\ pc' = "idle" /\ cc'.regs = r /\ cc'.error = err /\ cc'.lastPos = p
      /\ text' = text /\ bufEnd' = bufEnd
  BY DEF Return
<1>2. Here' = r /\ Place' = IF p = 0 THEN bufEnd ELSE p
  BY <1>1 DEF Here, Place
<1>3. Ready' => Placed(Here, Place)'
  BY <1>1, <1>2 DEF Placed, Ready, CharAt
<1> QED
  BY <1>1, <1>3, LoopPlace DEF PlacePart

LEMMA GrowFailsPlace ==
  ASSUME PlaceInv, pc = "loop", NEW r, NEW p, GrowFails(r, p) PROVE PlacePart'
  BY ReturnPlace DEF GrowFails

(* A character that is stored is in the buffer. *)
LEMMA PutStored ==
  ASSUME NEW r \in Regs, NEW c \in Char
  PROVE  Put(r, c).val # << >> /\ Put(r, c).state = r.state /\ Put(r, c).esc = r.esc
<1>1. /\ r \in Regs /\ r.val \in Seq(Char) /\ r.val_used \in Nat
  BY DEF Regs
<1>2. Put(r, c).state = r.state /\ Put(r, c).esc = r.esc
  BY <1>1 DEF Put, Regs
<1>3. CASE Full(r)
  <2> DEFINE v == [i \in 1..(r.val_used + 1) |->
                     IF i <= Len(r.val) THEN r.val[i]
                     ELSE IF i = Len(r.val) + 1 THEN c ELSE "ctl"]
  <2>1. Put(r, c).val = v
    BY <1>1, <1>3 DEF Put, Regs
  <2>2. DOMAIN v = 1..(r.val_used + 1) /\ 1 \in 1..(r.val_used + 1)
    BY <1>1
  <2>3. DOMAIN << >> = {}
    OBVIOUS
  <2> HIDE DEF v
  <2>4. v # << >>
    BY <2>2, <2>3
  <2> QED
    BY <1>2, <2>1, <2>4
<1>4. CASE ~Full(r)
  <2>1. Put(r, c).val = Append(r.val, c)
    BY <1>1, <1>4 DEF Put, Regs
  <2>2. Append(r.val, c) # << >>
    BY <1>1
  <2> QED
    BY <1>2, <2>1, <2>2
<1> QED
  BY <1>3, <1>4

LEMMA StoreCharAtPlace ==
  ASSUME PlaceInv, pc = "loop", NEW r, NEW c, NEW p, NEW tFail,
         StoreCharAt(r, c, p, tFail), Placed(Put(r, c), p)
  PROVE  PlacePart'
  BY StepPlace, GrowFailsPlace DEF StoreCharAt

(* Outside an atom. *)
LEMMA AtRest ==
  ASSUME NEW r, r.state \in Outside, r.esc = 0, NEW p \in 1..bufEnd, p - 1 \notin Escapes(text),
         r.state = 3 => CharAt(p) = "rp"
  PROVE  Placed(r, p)
  BY DEF Placed, Outside

LEMMA FinishAtomPlace ==
  ASSUME PlaceInv, pc = "loop", NEW aty, NEW r \in Regs, NEW pos, NEW q \in Regs,
         NEW tIn \in 1..bufEnd, NEW tTop \in 1..bufEnd, FinishAtom(aty, r, pos, q, tIn, tTop),
         q.state \in Outside, q.esc = 0, q.state = 3 => CharAt(tIn) = "rp",
         tIn - 1 \notin Escapes(text), tTop - 1 \notin Escapes(text)
  PROVE  PlacePart'
<1> DEFINE k == [NewVal(r) EXCEPT !.squoted = 0, !.esc = 0, !.state = 1]
<1>1. k.state = 1 /\ k.esc = 0 /\ NewVal(q).state = q.state /\ NewVal(q).esc = q.esc
  BY DEF NewVal, Regs
<1> HIDE DEF k
<1>2. Placed(k, tTop)
  <2>1. k.state \in Outside
    BY <1>1 DEF Outside
  <2> QED
    BY <1>1, <2>1, AtRest
<1>3. Placed(NewVal(q), tIn)
  BY <1>1, AtRest
<1>4. tTop # 0
  BY LoopPlace
<1>5. CASE \E x : Return("MEMORY", x, pos, NULL)
  BY <1>5, ReturnPlace
<1>6. CASE Step(NewVal(q), tIn)
  BY <1>3, <1>6, StepPlace
<1>7. CASE Return("OK", k, tTop, NewElem)
  BY <1>2, <1>4, <1>7, ReturnPlace
<1> QED
  BY <1>5, <1>6, <1>7 DEF FinishAtom, k

(* What an iteration of the loop knows of the character it examines. *)
LEMMA CharPlace ==
  ASSUME PlaceInv, NEW n, Case(n)
  PROVE  /\ pc = "loop" /\ rg.state = n /\ Ch = text[t] /\ t \in 1..Len(text)
         /\ t \in 1..bufEnd /\ t + 1 \in 1..bufEnd /\ t < bufEnd /\ t \in Nat \ {0}
         /\ (t + 1) - 1 = t /\ rg \in Regs /\ Good(rg) /\ Placed(rg, t)
         /\ Ch # "nul" /\ Ch \in Char
         /\ t \in Escapes(text) <=> Ch = "bs" /\ t - 1 \notin Escapes(text)
         /\ t - 1 \in Escapes(text) =>
              Ch \notin White \cup {"ctl"} /\ (Ch \in Escapable => t + 1 \notin Cuts(text))
<1>1. pc = "loop" /\ rg.state = n /\ t # bufEnd
  BY DEF Case, Running
<1>2. /\ t \in 1..bufEnd /\ bufEnd \in 1..(Len(text) + 1) /\ Len(text) \in Nat
      /\ WellEscaped(text, Cuts(text)) /\ Ch \in Char /\ rg \in Regs /\ Good(rg) /\ Placed(rg, t)
  BY <1>1, LoopPlace
<1>3. /\ t \in 1..Len(text) /\ t + 1 \in 1..bufEnd /\ t < bufEnd /\ t \in Nat \ {0}
      /\ t - 1 \in Nat /\ (t - 1) + 1 = t /\ (t + 1) - 1 = t
  BY <1>1, <1>2
<1>4. Ch = text[t] /\ Ch # "nul"
  BY <1>2, <1>3 DEF Ch, CharAt, WellEscaped
<1>5. t \in Escapes(text) <=> Ch = "bs" /\ t - 1 \notin Escapes(text)
  <2> DEFINE i == t - 1
  <2>1. i \in Nat /\ i + 1 = t
    BY <1>3
  <2>2. i + 1 \in Escapes(text)
          <=> i + 1 <= Len(text) /\ text[i + 1] = "bs" /\ i \notin Escapes(text)
    BY <1>2, <2>1, EscapesAre
  <2> HIDE DEF i
  <2>3. t \in Escapes(text) <=> t <= Len(text) /\ text[t] = "bs" /\ i \notin Escapes(text)
    BY <2>1, <2>2
  <2> QED
    BY <1>3, <1>4, <2>3 DEF i
<1>6. ASSUME t - 1 \in Escapes(text)
      PROVE  Ch \notin White \cup {"ctl"} /\ (Ch \in Escapable => t + 1 \notin Cuts(text))
  <2>1. t - 1 < Len(text) /\ (t - 1) + 1 = t /\ (t - 1) + 2 = t + 1
    BY <1>2, <1>3
  <2> QED
    BY <1>2, <1>4, <1>6, <2>1 DEF WellEscaped
<1> QED
  BY <1>1, <1>2, <1>3, <1>4, <1>5, <1>6

LEMMA Case1Place == ASSUME PlaceInv, Case1 PROVE PlacePart'
<1>0. /\ pc = "loop" /\ rg.state = 1 /\ rg \in Regs /\ t \in 1..bufEnd /\ t + 1 \in 1..bufEnd
      /\ (t + 1) - 1 = t /\ Placed(rg, t) /\ Ch \in Char
      /\ t \in Escapes(text) <=> Ch = "bs" /\ t - 1 \notin Escapes(text)
  BY CharPlace DEF Case1
<1>1. rg.esc = 0 /\ t - 1 \notin Escapes(text)
  BY <1>0 DEF Placed, Outside
<1>2. CASE Ch \in White /\ Step(rg, t + 1)
  <2>1. rg.state \in Outside /\ (t + 1) - 1 \notin Escapes(text)
    BY <1>0, <1>2 DEF Outside, White
  <2> QED
    BY <1>0, <1>1, <1>2, <2>1, AtRest, StepPlace
<1>3. CASE Ch = "semi" /\ Step([rg EXCEPT !.state = 11], t + 1)
  <2> DEFINE r == [rg EXCEPT !.state = 11]
  <2>1. r.state = 11 /\ r.esc = 0
    BY <1>0, <1>1 DEF Regs
  <2>2. Step(r, t + 1)
    BY <1>3
  <2> HIDE DEF r
  <2>3. Placed(r, t + 1)
    BY <1>0, <2>1 DEF Placed, Outside
  <2> QED
    BY <1>0, <2>2, <2>3, StepPlace
<1>4. ASSUME NEW n \in {2, 7}, Ch # "bs", Step([rg EXCEPT !.state = n], t + 1)
      PROVE  PlacePart'
  <2> DEFINE r == [rg EXCEPT !.state = n]
  <2>1. r.state = n /\ r.esc = 0
    BY <1>0, <1>1 DEF Regs
  <2>2. Step(r, t + 1)
    BY <1>4
  <2> HIDE DEF r
  <2>3. r.state \in Outside /\ (t + 1) - 1 \notin Escapes(text)
    BY <1>0, <1>4, <2>1 DEF Outside
  <2> QED
    BY <1>0, <2>1, <2>2, <2>3, AtRest, StepPlace
<1>5. CASE Ch = "rp" /\ Step([rg EXCEPT !.state = 3], t)
  <2> DEFINE r == [rg EXCEPT !.state = 3]
  <2>1. r.state = 3 /\ r.esc = 0
    BY <1>0, <1>1 DEF Regs
  <2>2. Step(r, t)
    BY <1>5
  <2> HIDE DEF r
  <2>3. r.state \in Outside /\ CharAt(t) = "rp"
    BY <1>5, <2>1 DEF Outside, Ch
  <2> QED
    BY <1>0, <1>1, <2>1, <2>2, <2>3, AtRest, StepPlace
<1>6. CASE Ch = "dq" /\ Step([rg EXCEPT !.state = 5, !.val = << >>], t + 1)
  <2> DEFINE r == [rg EXCEPT !.state = 5, !.val = << >>]
  <2>1. r.state = 5 /\ r.esc = 0
    BY <1>0, <1>1 DEF Regs
  <2>2. Step(r, t + 1) /\ (t + 1) - 1 \notin Escapes(text)
    BY <1>0, <1>6
  <2> HIDE DEF r
  <2>3. Placed(r, t + 1)
    BY <1>0, <2>1, <2>2 DEF Placed, Outside
  <2> QED
    BY <1>0, <2>2, <2>3, StepPlace
<1>7. ASSUME NEW r, r = [rg EXCEPT !.val = << >>, !.esc = EscFlag(Ch)],
             NEW n, n = IF Ch = "hash" /\ Mode = "INLINE_BINARY" THEN 12 ELSE 4,
             \/ Step([Put(r, Ch) EXCEPT !.state = n], t + 1)
             \/ Return("MEMORY", [r EXCEPT !.val_used = @ + 1, !.hasval = FALSE], t, NULL)
      PROVE  PlacePart'
  <2>1. n = 4
    BY <1>7 DEF PlaceInv, OwnInv
  <2>2. Good(rg) /\ Good([[rg EXCEPT !.val = << >>] EXCEPT !.esc = EscFlag(Ch)])
    BY <1>0, LoopPlace, Restart, SetEsc, EscFlagOK
  <2>3. r \in Regs /\ r.esc = EscFlag(Ch) /\ Good(r)
    BY <1>0, <1>7, <2>2 DEF Good, Regs
  <2>4. Put(r, Ch) \in Regs /\ Put(r, Ch).val # << >> /\ Put(r, Ch).esc = EscFlag(Ch)
    BY <1>0, <2>3, PutStored, PutGood DEF Good
  <2> DEFINE k == [Put(r, Ch) EXCEPT !.state = n]
  <2>5. k.state = 4 /\ k.esc = EscFlag(Ch) /\ k.val # << >>
    BY <2>1, <2>4 DEF Regs
  <2>6. Placed(k, t + 1)
    <3> HIDE DEF k
    <3> QED
      BY <1>0, <1>1, <2>5 DEF Placed, Outside, EscFlag
  <2> HIDE DEF k
  <2>7. Step(k, t + 1) \/ (\E x : Return("MEMORY", x, t, NULL))
    BY <1>7 DEF k
  <2> QED
    BY <1>0, <2>6, <2>7, StepPlace, ReturnPlace
<1>8. (Ch = "lp" => Ch # "bs") /\ (Ch = "sq" => Ch # "bs") /\ 2 \in {2, 7} /\ 7 \in {2, 7}
  OBVIOUS
<1> QED
  BY <1>2, <1>3, <1>4, <1>5, <1>6, <1>7, <1>8 DEF Case1

LEMMA Case2Place == ASSUME PlaceInv, Case2 PROVE PlacePart'
<1>0. /\ pc = "loop" /\ rg.state = 2 /\ rg \in Regs /\ t \in 1..bufEnd /\ Placed(rg, t)
  BY CharPlace DEF Case2
<1>1. rg.esc = 0 /\ t - 1 \notin Escapes(text)
  BY <1>0 DEF Placed, Outside
<1> DEFINE k == [[rg EXCEPT !.depth = @ + 1] EXCEPT !.state = 1]
<1>2. k.state = 1 /\ k.esc = 0
  BY <1>0, <1>1 DEF Regs
<1>3. Step(k, t) \/ \E x : Return("MEMORY", x, t, NULL)
  <2>1. ~May("push")
    BY DEF PlaceInv, OwnInv, StackInv
  <2> QED
    BY <2>1, Case2Opens DEF OpensList
<1> HIDE DEF k
<1>4. k.state \in Outside
  BY <1>2 DEF Outside
<1>5. Placed(k, t)
  BY <1>0, <1>1, <1>2, <1>4, AtRest
<1> QED
  BY <1>0, <1>3, <1>5, StepPlace, ReturnPlace

LEMMA Case3Place == ASSUME PlaceInv, Case3 PROVE PlacePart'
<1>0. /\ pc = "loop" /\ rg.state = 3 /\ rg \in Regs /\ t + 1 \in 1..bufEnd /\ t + 1 # 0
      /\ (t + 1) - 1 = t /\ Placed(rg, t)
      /\ t \in Escapes(text) <=> Ch = "bs" /\ t - 1 \notin Escapes(text)
  BY CharPlace DEF Case3
<1>1. rg.esc = 0 /\ t \notin Escapes(text)
  BY <1>0 DEF Placed, Outside, Ch
<1> DEFINE r == [rg EXCEPT !.depth = @ - 1]
           k == [r EXCEPT !.esc = 0, !.state = 1]
           q == [r EXCEPT !.state = 1]
<1>2. k.state = 1 /\ k.esc = 0 /\ q.state = 1 /\ q.esc = 0
  BY <1>0, <1>1 DEF Regs
<1>3. \/ \E x : Return("BADFORM", x, t, NULL)
      \/ Return("OK", k, t + 1, stack[1].fst)
      \/ Step(q, t + 1)
  <2>1. StackInv
    BY DEF PlaceInv, OwnInv
  <2> QED
    BY <2>1, Case3Closes DEF ClosesList
<1> HIDE DEF k, q
<1>4. k.state \in Outside /\ q.state \in Outside
  BY <1>2 DEF Outside
<1>5. Placed(k, t + 1) /\ Placed(q, t + 1)
  BY <1>0, <1>1, <1>2, <1>4, AtRest
<1>6. CASE \E x : Return("BADFORM", x, t, NULL)
  BY <1>0, <1>6, ReturnPlace
<1>7. CASE Return("OK", k, t + 1, stack[1].fst)
  BY <1>0, <1>5, <1>7, ReturnPlace
<1>8. CASE Step(q, t + 1)
  BY <1>0, <1>5, <1>8, StepPlace
<1> QED
  BY <1>3, <1>6, <1>7, <1>8

LEMMA Case4Place == ASSUME PlaceInv, Case4 PROVE PlacePart'
<1>0. /\ pc = "loop" /\ rg.state = 4 /\ rg \in Regs /\ t \in 1..bufEnd /\ t + 1 \in 1..bufEnd
      /\ (t + 1) - 1 = t /\ Placed(rg, t) /\ Ch \in Char /\ Ch # "nul"
      /\ t \in Escapes(text) <=> Ch = "bs" /\ t - 1 \notin Escapes(text)
      /\ t - 1 \in Escapes(text) => Ch \notin White \cup {"ctl"}
  BY CharPlace DEF Case4
<1>1. /\ (rg.esc = 1) <=> (t - 1 \in Escapes(text))
      /\ rg.esc = 1 => rg.val # << >>
      /\ rg.esc \in {0, 1}
  BY <1>0 DEF Placed, Regs
<1>2. CASE rg.esc = 1 /\ Ch \in Escapable /\ (IF rg.val = << >> THEN Undefined
                                            ELSE Step(Unescape(rg, Ch), t + 1) /\ Quiet)
  <2> DEFINE r == Unescape(rg, Ch)
  <2>1. r.state = 4 /\ r.esc = 0
    BY <1>0 DEF Unescape, Regs
  <2>2. Step(r, t + 1) /\ t \notin Escapes(text)
    BY <1>0, <1>1, <1>2
  <2> HIDE DEF r
  <2>3. Placed(r, t + 1)
    BY <1>0, <2>1, <2>2 DEF Placed, Outside
  <2> QED
    BY <1>0, <2>2, <2>3, StepPlace
<1>3. CASE /\ ~(rg.esc = 1 /\ Ch \in Escapable) /\ Ch \in AtomChar
           /\ StoreChar([rg EXCEPT !.esc = EscFlag(Ch)], Ch, t + 1)
  <2> DEFINE r == [rg EXCEPT !.esc = EscFlag(Ch)]
  <2>1. r.state = 4 /\ r.esc = EscFlag(Ch)
    BY <1>0 DEF Regs
  <2>2. r \in Regs
    BY <1>0, EscFlagOK DEF Regs
  <2>3. StoreCharAt(r, Ch, t + 1, t)
    BY <1>3 DEF StoreChar
  <2> HIDE DEF r
  <2>4. Put(r, Ch).val # << >> /\ Put(r, Ch).state = 4 /\ Put(r, Ch).esc = EscFlag(Ch)
    BY <1>0, <2>1, <2>2, PutStored
  <2>5. (EscFlag(Ch) = 1) <=> (t \in Escapes(text))
    BY <1>0, <1>1, <1>3 DEF EscFlag, Escapable
  <2>6. Placed(Put(r, Ch), t + 1)
    BY <1>0, <2>4, <2>5 DEF Placed, Outside
  <2> QED
    BY <1>0, <2>3, <2>6, StoreCharAtPlace
<1>4. CASE /\ ~(rg.esc = 1 /\ Ch \in Escapable) /\ Ch \notin AtomChar
           /\ FinishAtom(IF rg.squoted # 0 THEN "SQUOTE" ELSE "BASIC",
                         [rg EXCEPT !.val_used = @ + 1], t,
                         [rg EXCEPT !.state = IF Ch = "rp" THEN 3 ELSE 1, !.squoted = 0],
                         IF Ch \in White THEN t + 1 ELSE t, t)
  <2> DEFINE n == IF Ch = "rp" THEN 3 ELSE 1
             r == [rg EXCEPT !.val_used = @ + 1]
             q == [rg EXCEPT !.state = n, !.squoted = 0]
             tIn == IF Ch \in White THEN t + 1 ELSE t
  <2>1. rg.esc = 0 /\ t - 1 \notin Escapes(text)
    BY <1>0, <1>1, <1>4 DEF Char
  <2>2. n \in Outside /\ (n = 3 => CharAt(tIn) = "rp") /\ n \in 1..15
    BY DEF Outside, White, Ch
  <2>3. tIn \in 1..bufEnd /\ tIn - 1 \notin Escapes(text)
    <3>1. CASE Ch \in White
      BY <1>0, <3>1 DEF White
    <3>2. CASE Ch \notin White
      BY <1>0, <2>1, <3>2
    <3> QED
      BY <3>1, <3>2
  <2>4. FinishAtom(IF rg.squoted # 0 THEN "SQUOTE" ELSE "BASIC", r, t, q, tIn, t)
    BY <1>4
  <2>5. r \in Regs
    BY <1>0, CountUp
  <2> HIDE DEF n, tIn, r
  <2>6. q \in Regs /\ q.state = n /\ q.esc = 0
    BY <1>0, <2>1, <2>2 DEF Regs
  <2> HIDE DEF q
  <2> QED
    BY <1>0, <2>1, <2>2, <2>3, <2>4, <2>5, <2>6, FinishAtomPlace
<1> QED
  BY <1>2, <1>3, <1>4 DEF Case4

LEMMA Case5Place == ASSUME PlaceInv, Case5 PROVE PlacePart'
<1>0. /\ pc = "loop" /\ rg.state = 5 /\ rg \in Regs /\ t \in 1..bufEnd /\ t + 1 \in 1..bufEnd
      /\ (t + 1) - 1 = t /\ Placed(rg, t) /\ Ch \in Char /\ t \in Nat \ {0} /\ Good(rg)
      /\ t \in Escapes(text) <=> Ch = "bs" /\ t - 1 \notin Escapes(text)
      /\ t - 1 \in Escapes(text) => (Ch \in Escapable => t + 1 \notin Cuts(text))
  BY CharPlace DEF Case5
<1>1. /\ (rg.esc = 1) <=> (t - 1 \in Escapes(text))
      /\ rg.esc = 1 => rg.val # << >>
      /\ rg.esc \in {0, 1}
  BY <1>0 DEF Placed, Regs
<1>2. PICK escaped, pos, r, c, quoted :
        /\ escaped = (rg.esc = 1 /\ Ch \in Escapable)
        /\ pos = IF escaped THEN t + 1 ELSE t
        /\ r = IF escaped THEN Unescape(rg, Ch) ELSE rg
        /\ c = CharAt(pos)
        /\ quoted = [r EXCEPT !.state = 6]
        /\ IF escaped /\ rg.val = << >> THEN Undefined
           ELSE \/ StoreCharAt([r EXCEPT !.esc = EscFlag(c)], c, pos + 1, pos)
                \/ c = "dq" /\ FinishAtom("DQUOTE", [quoted EXCEPT !.val_used = @ + 1], pos,
                                          quoted, pos + 1, pos + 1)
                \/ c = "dq" /\ FinishAtom("SQUOTE", [Put(quoted, "dq") EXCEPT !.val_used = @ + 1],
                                          pos, [quoted EXCEPT !.squoted = 0], pos + 1, pos + 1)
                \/ GrowFails(quoted, pos)
  BY DEF Case5
<1>3. /\ pos + 1 \in 1..bufEnd /\ (pos + 1) - 1 = pos /\ c \in Char
      /\ (pos \in Escapes(text)) <=> (c = "bs")
  <2>1. CASE escaped
    <3>1. pos = t + 1 /\ t \notin Escapes(text) /\ t + 1 \notin Cuts(text)
      BY <1>0, <1>1, <1>2, <2>1
    <3>2. bufEnd \in Cuts(text) \cup {1} /\ bufEnd \in 1..(Len(text) + 1) /\ Len(text) \in Nat
          /\ BufferInv
      BY <1>0, LoopPlace
    <3>3. t + 1 # bufEnd
      BY <1>0, <3>1, <3>2
    <3>4. pos + 1 \in 1..bufEnd /\ (pos + 1) - 1 = pos /\ pos \in Nat /\ pos \in 1..Len(text)
      BY <1>0, <3>1, <3>2, <3>3
    <3>5. c = text[pos] /\ c \in Char
      <4>1. CharAt(pos) \in Char
        BY <3>2, <3>4, CharOK DEF BufferInv, ControlInv
      <4> QED
        BY <1>2, <3>4, <4>1 DEF CharAt
    <3>6. t + 1 \in Escapes(text)
            <=> t + 1 <= Len(text) /\ text[t + 1] = "bs" /\ t \notin Escapes(text)
      BY <1>0, <3>2, EscapesAre
    <3>7. (pos \in Escapes(text)) <=> (c = "bs")
      BY <3>1, <3>4, <3>5, <3>6
    <3> QED
      BY <3>4, <3>5, <3>7
  <2>2. CASE ~escaped
    <3>1. pos = t /\ c = Ch
      BY <1>2, <2>2 DEF Ch
    <3>2. (t \in Escapes(text)) <=> (Ch = "bs")
      BY <1>0, <1>1, <1>2, <2>2 DEF Escapable
    <3> QED
      BY <1>0, <3>1, <3>2
  <2> QED
    BY <2>1, <2>2
<1>4. ~(escaped /\ rg.val = << >>)
  BY <1>1, <1>2
<1>5. Good(r) /\ r \in Regs /\ r.state = 5
  <2>1. CASE escaped
    BY <1>0, <1>2, <1>4, <2>1, UnescapeGood, UnescapeKeeps DEF Good
  <2>2. CASE ~escaped
    BY <1>0, <1>2, <2>2
  <2> QED
    BY <2>1, <2>2
<1>6. c = "dq" => r.esc = 0
  <2>1. CASE escaped
    BY <1>0, <1>2, <2>1 DEF Unescape, Regs
  <2>2. CASE ~escaped
    BY <1>1, <1>2, <2>2 DEF Escapable, Ch
  <2> QED
    BY <2>1, <2>2
<1>7. CASE StoreCharAt([r EXCEPT !.esc = EscFlag(c)], c, pos + 1, pos)
  <2> DEFINE k == [r EXCEPT !.esc = EscFlag(c)]
  <2>1. k \in Regs /\ k.state = 5 /\ k.esc = EscFlag(c)
    BY <1>5, EscFlagOK DEF Regs
  <2>2. StoreCharAt(k, c, pos + 1, pos)
    BY <1>7
  <2> HIDE DEF k
  <2>3. Put(k, c).val # << >> /\ Put(k, c).state = 5 /\ Put(k, c).esc = EscFlag(c)
    BY <1>3, <2>1, PutStored
  <2>4. Placed(Put(k, c), pos + 1)
    BY <1>3, <2>3 DEF Placed, Outside, EscFlag
  <2> QED
    BY <1>0, <2>2, <2>4, StoreCharAtPlace
<1>8. Good(quoted) /\ quoted \in Regs /\ quoted.state = 6 /\ quoted.esc = r.esc
  <2>1. Good([r EXCEPT !.state = 6])
    BY <1>5, SetState, States
  <2> QED
    BY <1>2, <1>5, <2>1 DEF Good, Regs
<1>9. ASSUME c = "dq", NEW aty, NEW k \in Regs, NEW q \in Regs, q.state = 6, q.esc = 0,
             FinishAtom(aty, k, pos, q, pos + 1, pos + 1)
      PROVE  PlacePart'
  <2>1. q.state \in Outside /\ q.state # 3 /\ (pos + 1) - 1 \notin Escapes(text)
    BY <1>3, <1>9 DEF Outside
  <2> QED
    BY <1>0, <1>3, <1>9, <2>1, FinishAtomPlace
<1>10. CASE c = "dq" /\ FinishAtom("DQUOTE", [quoted EXCEPT !.val_used = @ + 1], pos,
                                   quoted, pos + 1, pos + 1)
  BY <1>6, <1>8, <1>9, <1>10, CountUp
<1>11. CASE c = "dq" /\ FinishAtom("SQUOTE", [Put(quoted, "dq") EXCEPT !.val_used = @ + 1],
                                   pos, [quoted EXCEPT !.squoted = 0], pos + 1, pos + 1)
  <2> DEFINE k == [Put(quoted, "dq") EXCEPT !.val_used = @ + 1]
             q == [quoted EXCEPT !.squoted = 0]
  <2>1. q \in Regs /\ q.state = 6 /\ q.esc = 0
    BY <1>6, <1>8, <1>11 DEF Regs
  <2>2. "dq" \in Char
    BY DEF Char, Escapable
  <2>3. k \in Regs
    BY <1>8, <2>2, PutGood, CountUp DEF Good
  <2>4. FinishAtom("SQUOTE", k, pos, q, pos + 1, pos + 1)
    BY <1>11
  <2> HIDE DEF k, q
  <2> QED
    BY <1>9, <1>11, <2>1, <2>3, <2>4
<1>12. CASE GrowFails(quoted, pos)
  BY <1>0, <1>12, GrowFailsPlace
<1> QED
  BY <1>2, <1>4, <1>7, <1>10, <1>11, <1>12

LEMMA Case6Place == ASSUME PlaceInv, Case6 PROVE PlacePart'
<1>0. /\ pc = "loop" /\ rg.state = 6 /\ rg \in Regs /\ t \in 1..bufEnd /\ Placed(rg, t)
  BY CharPlace DEF Case6
<1>1. rg.esc = 0 /\ t - 1 \notin Escapes(text)
  BY <1>0 DEF Placed, Outside
<1> DEFINE k == [rg EXCEPT !.val = << >>, !.state = 1]
<1>2. k.state = 1 /\ k.esc = 0 /\ Step(k, t)
  BY <1>0, <1>1 DEF Regs, Case6
<1> HIDE DEF k
<1>3. k.state \in Outside
  BY <1>2 DEF Outside
<1>4. Placed(k, t)
  BY <1>0, <1>1, <1>2, <1>3, AtRest
<1> QED
  BY <1>0, <1>2, <1>4, StepPlace

LEMMA Case7Place == ASSUME PlaceInv, Case7 PROVE PlacePart'
<1>0. /\ pc = "loop" /\ rg.state = 7 /\ rg \in Regs /\ t \in 1..bufEnd /\ t + 1 \in 1..bufEnd
      /\ (t + 1) - 1 = t /\ Placed(rg, t) /\ Good(rg)
      /\ t \in Escapes(text) <=> Ch = "bs" /\ t - 1 \notin Escapes(text)
  BY CharPlace DEF Case7
<1>1. rg.esc = 0 /\ t - 1 \notin Escapes(text)
  BY <1>0 DEF Placed, Outside
<1>2. CASE /\ Ch = "dq"
           /\ StoreCharAt([rg EXCEPT !.state = 5, !.val = << >>, !.squoted = 1], "dq",
                          t + 1, t + 1)
  <2> DEFINE k == [rg EXCEPT !.state = 5, !.val = << >>, !.squoted = 1]
  <2>1. Good([[rg EXCEPT !.state = 5, !.val = << >>] EXCEPT !.squoted = 1])
    BY <1>0, RestartState, SetSquoted, States
  <2>2. k \in Regs /\ k.state = 5 /\ k.esc = 0
    BY <1>0, <1>1, <2>1 DEF Good, Regs
  <2>3. StoreCharAt(k, "dq", t + 1, t + 1) /\ "dq" \in Char /\ t \notin Escapes(text)
    BY <1>0, <1>2 DEF Char, Escapable
  <2> HIDE DEF k
  <2>4. Put(k, "dq").state = 5 /\ Put(k, "dq").esc = 0
    BY <2>2, <2>3, PutStored
  <2>5. Placed(Put(k, "dq"), t + 1)
    BY <1>0, <2>3, <2>4 DEF Placed, Outside
  <2> QED
    BY <1>0, <2>3, <2>5, StoreCharAtPlace
<1>3. CASE Step([rg EXCEPT !.state = 8, !.val = << >>], t)
  <2> DEFINE k == [rg EXCEPT !.state = 8, !.val = << >>]
  <2>1. k.state = 8 /\ Step(k, t)
    BY <1>0, <1>3 DEF Regs
  <2> HIDE DEF k
  <2>2. Placed(k, t)
    BY <1>0, <2>1 DEF Placed, Outside
  <2> QED
    BY <1>0, <2>1, <2>2, StepPlace
<1>4. CASE Step([rg EXCEPT !.state = 4, !.val = << >>, !.squoted = 1], t)
  <2> DEFINE k == [rg EXCEPT !.state = 4, !.val = << >>, !.squoted = 1]
  <2>1. k.state = 4 /\ k.esc = 0 /\ Step(k, t)
    BY <1>0, <1>1, <1>4 DEF Regs
  <2> HIDE DEF k
  <2>2. Placed(k, t)
    BY <1>0, <1>1, <2>1 DEF Placed, Outside
  <2> QED
    BY <1>0, <2>1, <2>2, StepPlace
<1> QED
  BY <1>2, <1>3, <1>4 DEF Case7

LEMMA Case8Place == ASSUME PlaceInv, Case8 PROVE PlacePart'
<1>0. /\ pc = "loop" /\ rg \in Regs /\ t + 1 \in 1..bufEnd /\ Good(rg) /\ Ch \in Char
      /\ (t + 1) - 1 = t
      /\ t \in Escapes(text) <=> Ch = "bs" /\ t - 1 \notin Escapes(text)
  BY CharPlace DEF Case8
<1> DEFINE plain == rg.esc = 0
           closes == plain /\ Ch = "rp"
           qd == IF plain /\ Ch = "lp" THEN (rg.qdepth + 1) % UIntRange
                 ELSE IF closes THEN (rg.qdepth - 1) % UIntRange ELSE rg.qdepth
           st == IF plain /\ Ch = "dq" THEN 10 ELSE 8
           r == [rg EXCEPT !.esc = EscFlag(Ch), !.qdepth = qd, !.state = st]
<1>1. /\ qd \in 0..(UIntRange - 1) /\ st \in 1..15 /\ st \in {8, 10}
  <2>1. rg.qdepth \in 0..(UIntRange - 1)
    BY <1>0 DEF Regs
  <2>2. rg.qdepth + 1 \in Int /\ rg.qdepth - 1 \in Int
    BY <2>1, SizesAssumption
  <2>3. /\ (rg.qdepth + 1) % UIntRange \in 0..(UIntRange - 1)
        /\ (rg.qdepth - 1) % UIntRange \in 0..(UIntRange - 1)
    BY <2>2, SizesAssumption, Wraps
  <2> QED
    BY <2>1, <2>3
<1>2. \/ StoreChar(r, Ch, t + 1)
      \/ /\ Ch = "rp"
         /\ FinishAtom("SQUOTE", [Put(r, Ch) EXCEPT !.state = 1], t + 1,
                       [r EXCEPT !.state = 1], t + 1, t + 1)
      \/ GrowFails(r, t)
  BY DEF Case8
<1> HIDE DEF qd, st
<1>3. Good(r)
  <2>1. Good([rg EXCEPT !.esc = EscFlag(Ch)])
    BY <1>0, SetEsc, EscFlagOK
  <2>2. Good([[rg EXCEPT !.esc = EscFlag(Ch)] EXCEPT !.qdepth = qd])
    BY <1>1, <2>1, SetQdepth
  <2>3. Good([[[rg EXCEPT !.esc = EscFlag(Ch)] EXCEPT !.qdepth = qd] EXCEPT !.state = st])
    BY <1>1, <2>2, SetState
  <2> QED
    BY <2>3
<1>4. r.state = st /\ r.esc = EscFlag(Ch) /\ r \in Regs
  BY <1>0, <1>3 DEF Regs, Good
<1> HIDE DEF r
<1>5. CASE StoreChar(r, Ch, t + 1)
  <2>1. Put(r, Ch).state \in {8, 10}
    BY <1>0, <1>1, <1>4, PutStored
  <2>2. Placed(Put(r, Ch), t + 1)
    BY <1>0, <2>1 DEF Placed, Outside
  <2> QED
    BY <1>0, <1>5, <2>2, StoreCharAtPlace DEF StoreChar
<1>6. CASE /\ Ch = "rp"
           /\ FinishAtom("SQUOTE", [Put(r, Ch) EXCEPT !.state = 1], t + 1,
                         [r EXCEPT !.state = 1], t + 1, t + 1)
  <2> DEFINE k == [Put(r, Ch) EXCEPT !.state = 1]
             q == [r EXCEPT !.state = 1]
  <2>1. k \in Regs /\ q \in Regs
    BY <1>0, <1>3, PutGood, SetState, States DEF Good
  <2>2. q.state = 1 /\ q.esc = 0
    BY <1>4, <1>6 DEF Regs, EscFlag
  <2>3. FinishAtom("SQUOTE", k, t + 1, q, t + 1, t + 1)
    BY <1>6
  <2> HIDE DEF k, q
  <2>4. q.state \in Outside /\ q.state # 3 /\ (t + 1) - 1 \notin Escapes(text)
    BY <1>0, <1>6, <2>2 DEF Outside
  <2> QED
    BY <1>0, <2>1, <2>2, <2>3, <2>4, FinishAtomPlace
<1>7. CASE GrowFails(r, t)
  BY <1>0, <1>7, GrowFailsPlace
<1> QED
  BY <1>2, <1>5, <1>6, <1>7

LEMMA Case10Place == ASSUME PlaceInv, Case10 PROVE PlacePart'
<1>0. pc = "loop" /\ rg \in Regs /\ t + 1 \in 1..bufEnd /\ Ch \in Char
  BY CharPlace DEF Case10
<1> DEFINE n == IF Ch = "dq" /\ rg.esc = 0 THEN 8 ELSE 10
           k == [rg EXCEPT !.esc = EscFlag(Ch), !.state = n]
<1>1. n \in {8, 10} /\ n \in 1..15
  OBVIOUS
<1>2. StoreCharAt(k, Ch, t + 1, t)
  BY DEF Case10, StoreChar
<1> HIDE DEF n
<1>3. k \in Regs /\ k.state \in {8, 10}
  BY <1>0, <1>1, EscFlagOK DEF Regs
<1> HIDE DEF k
<1>4. Put(k, Ch).state \in {8, 10}
  BY <1>0, <1>3, PutStored
<1>5. Placed(Put(k, Ch), t + 1)
  BY <1>0, <1>4 DEF Placed, Outside
<1> QED
  BY <1>0, <1>2, <1>5, StoreCharAtPlace

LEMMA Case11Place == ASSUME PlaceInv, Case11 PROVE PlacePart'
<1>0. /\ pc = "loop" /\ rg.state = 11 /\ rg \in Regs /\ t + 1 \in 1..bufEnd
      /\ (t + 1) - 1 = t /\ Placed(rg, t)
      /\ t \in Escapes(text) <=> Ch = "bs" /\ t - 1 \notin Escapes(text)
  BY CharPlace DEF Case11
<1> DEFINE n == IF Ch = "nl" THEN 1 ELSE 11
           k == [rg EXCEPT !.state = n]
<1>1. k.state = n /\ k.esc = 0 /\ Step(k, t + 1)
  BY <1>0 DEF Regs, Case11, Placed
<1> HIDE DEF k
<1>2. Placed(k, t + 1)
  BY <1>0, <1>1 DEF Placed, Outside
<1> QED
  BY <1>0, <1>1, <1>2, StepPlace

(* The loop ends only at the end of the chunk: no NUL is inside it. *)
LEMMA LoopExitPlace == ASSUME PlaceInv, LoopExit PROVE PlacePart'
<1>0. /\ pc = "loop" /\ Placed(rg, t) /\ t \in 1..bufEnd /\ bufEnd \in 1..(Len(text) + 1)
      /\ Len(text) \in Nat /\ WellEscaped(text, Cuts(text)) /\ Plain(rg)
  BY LoopPlace DEF LoopExit
<1>1. t = bufEnd
  <2>1. ASSUME t # bufEnd PROVE FALSE
    <3>1. t \in 1..Len(text)
      BY <1>0, <2>1
    <3>2. Ch # "nul"
      BY <1>0, <3>1 DEF Ch, CharAt, WellEscaped
    <3> QED
      BY <2>1, <3>2 DEF LoopExit, Running
  <2> QED
    BY <2>1
<1>2. ~Finished
  BY LoopOwn, ShapeTop DEF LoopExit, Finished, PlaceInv, OwnInv, OwnPart
<1>3. Return("INCOMPLETE", rg, 0, NULL)
  BY <1>1, <1>2 DEF LoopExit
<1>4. Placed(rg, bufEnd)
  BY <1>0, <1>1
<1> QED
  BY <1>0, <1>3, <1>4, ReturnPlace

LEMMA ParserStepPlace == ASSUME PlaceInv, ParserStep PROVE PlacePart'
<1>1. ~WalkOff
  BY LoopPlace DEF WalkOff
<1>2. ~Case12 /\ ~Case13 /\ ~Case14 /\ ~Case15
  BY LoopPlace DEF Case12, Case13, Case14, Case15, Case, Plain, Clean
<1> QED
  BY <1>1, <1>2, Case1Place, Case2Place, Case3Place, Case4Place, Case5Place, Case6Place,
     Case7Place, Case8Place, Case10Place, Case11Place, LoopExitPlace
  DEF ParserStep

(* The caller's steps. *)
LEMMA SamePlace ==
  ASSUME PlaceInv, pc # "loop", pc' \in {"idle", "done"}, UNCHANGED <<text, bufEnd>>,
         cc'.regs = cc.regs, cc'.lastPos = cc.lastPos, Ready' => Ready
  PROVE  PlacePart'
<1>1. Here' = Here /\ Place' = Place
  BY DEF Here, Place
<1>2. Ready' => Placed(Here, Place)'
  BY <1>1 DEF PlaceInv, PlacePart, Placed, CharAt
<1> QED
  BY <1>2 DEF PlaceInv, PlacePart

LEMMA NewContinuationPlace == ASSUME PlaceInv, NewContinuation PROVE PlacePart'
<1>1. pc = "none" /\ pc' \in {"idle", "done"} /\ UNCHANGED <<text, bufEnd, cc>>
  BY DEF NewContinuation
<1>2. Ready
  BY <1>1 DEF Ready
<1> QED
  BY <1>1, <1>2, SamePlace

LEMMA CallPlace == ASSUME PlaceInv, Call PROVE PlacePart'
<1>1. /\ pc = "idle" /\ pc' = "loop" /\ rg' = cc.regs /\ text' = text
      /\ cc.error \in {"OK", "INCOMPLETE", "NULLSTRING"}
  BY DEF Call, Resumable
<1>2. Placed(cc.regs, Place)
  BY <1>1 DEF PlaceInv, PlacePart, Ready, Here
<1>3. Here' = cc.regs /\ Place' = t'
  BY <1>1 DEF Here, Place
<1>4. bufEnd \in Nat /\ bufEnd \in Cuts(text) \cup {1} /\ text \in Texts
  BY DEF PlaceInv, OwnInv, StackInv, BufferInv, ControlInv, ControlOK, PlacePart
<1>5. CASE cc.lastPos # 0 /\ t' = cc.lastPos /\ bufEnd' = bufEnd
  <2>1. Place = t'
    BY <1>1, <1>5 DEF Place
  <2>2. Placed(Here, Place)'
    BY <1>1, <1>2, <1>3, <1>5, <2>1 DEF Placed, CharAt
  <2> QED
    BY <1>1, <1>4, <1>5, <2>2 DEF PlacePart
<1>6. CASE /\ cc.lastPos = 0 /\ t' = bufEnd
           /\ bufEnd' \in {k \in Cuts(text) : k > bufEnd}
  <2>1. Place = t' /\ bufEnd' > bufEnd /\ bufEnd' \in Cuts(text) /\ bufEnd' \in Nat
    <3>1. Cuts(text) \subseteq 2..(Len(text) + 1) /\ Len(text) \in Nat
      BY <1>4, CutsAssumption, TextsAssumption
    <3> QED
      BY <1>1, <1>6, <3>1 DEF Place
  <2>2. Placed(Here, Place)'
    BY <1>1, <1>2, <1>3, <1>4, <2>1 DEF Placed, CharAt
  <2> QED
    BY <1>1, <2>1, <2>2 DEF PlacePart
<1> QED
  BY <1>5, <1>6 DEF Call

LEMMA CallNullPlace == ASSUME PlaceInv, CallNull PROVE PlacePart'
<1>1. /\ pc = "idle" /\ pc' = "idle" /\ UNCHANGED <<text, bufEnd>> /\ Resumable
      /\ cc' = [cc EXCEPT !.error = "NULLSTRING", !.last_sexp = NULL]
  BY DEF CallNull
<1>2. cc \in [regs : Regs, lastPos : Nat, last_sexp : Ptr, error : ErrCode]
  BY DEF PlaceInv, OwnInv, StackInv, BufferInv, ControlInv, ControlOK
<1>3. cc'.regs = cc.regs /\ cc'.lastPos = cc.lastPos
  BY <1>1, <1>2
<1>4. Ready
  BY <1>1 DEF Ready, Resumable
<1> QED
  BY <1>1, <1>3, <1>4, SamePlace

LEMMA TakePlace == ASSUME PlaceInv, Take PROVE PlacePart'
<1>1. /\ pc = "idle" /\ pc' = "idle" /\ UNCHANGED <<text, bufEnd>>
      /\ cc' = [cc EXCEPT !.last_sexp = NULL]
  BY DEF Take
<1>2. cc \in [regs : Regs, lastPos : Nat, last_sexp : Ptr, error : ErrCode]
  BY DEF PlaceInv, OwnInv, StackInv, BufferInv, ControlInv, ControlOK
<1>3. cc'.regs = cc.regs /\ cc'.lastPos = cc.lastPos /\ cc'.error = cc.error
  BY <1>1, <1>2
<1>4. Ready' => Ready
  BY <1>1, <1>3 DEF Ready
<1> QED
  BY <1>1, <1>3, <1>4, SamePlace

LEMMA DestroyContinuationPlace == ASSUME PlaceInv, DestroyContinuation PROVE PlacePart'
<1>1. pc = "idle" /\ pc' = "done" /\ UNCHANGED <<text, bufEnd, cc>>
  BY DEF DestroyContinuation
<1>2. ~Ready'
  BY <1>1 DEF Ready
<1> QED
  BY <1>1, <1>2, SamePlace

LEMMA NextPlace == PlaceInv /\ [Next]_vars => PlaceInv'
<1> SUFFICES ASSUME PlaceInv, [Next]_vars PROVE PlaceInv'
  OBVIOUS
<1>1. OwnInv' /\ (\A s \in Texts : WellEscaped(s, Cuts(s)))'
  BY NextOwn DEF PlaceInv
<1>2. CASE UNCHANGED vars
  <2>1. UNCHANGED <<text, bufEnd, pc, t, rg, cc>>
    BY <1>2 DEF vars
  <2>2. PlacePart'
    BY <2>1 DEF PlaceInv, PlacePart, Ready, Here, Place, Placed, CharAt
  <2> QED
    BY <1>1, <2>2 DEF PlaceInv
<1>3. CASE Next /\ ~UNCHANGED vars
  <2>1. PlacePart'
    BY <1>3, ParserStepPlace, NewContinuationPlace, CallPlace, CallNullPlace, TakePlace,
       DestroyContinuationPlace
    DEF Next, Halted
  <2> QED
    BY <1>1, <2>1 DEF PlaceInv
<1> QED
  BY <1>2, <1>3

LEMMA InitPlace ==
  ASSUME Init, ~May("push"), Mode = "NORMAL", \A s \in Texts : WellEscaped(s, Cuts(s))
  PROVE  PlaceInv
<1>1. pc = "none" /\ bufEnd = 1 /\ cc.regs = InitRegs /\ cc.lastPos = 0 /\ text \in Texts
  BY DEF Init
<1>2. InitRegs.state \in Outside /\ InitRegs.state # 3 /\ InitRegs.esc = 0
  BY DEF InitRegs, Outside
<1>3. 1 - 1 \notin Escapes(text) /\ 1 \in 1..bufEnd
  BY <1>1 DEF Escapes
<1>4. Placed(InitRegs, 1)
  BY <1>2, <1>3, AtRest
<1>5. Placed(Here, Place)
  BY <1>1, <1>4 DEF Here, Place
<1> QED
  BY <1>1, <1>5, InitOwn DEF PlaceInv, PlacePart

(* cparse_sexp never steps over the end of its chunk: no case of the switch *)
(* takes a character that is not of the chunk, and the tests of the loop    *)
(* read the byte at bufEnd (parser.c:744, 1664, 1682) and none behind it.   *)
(* It pops no empty stack and takes back no character of an empty atom.     *)
(* For every NORMAL-mode text and every memory, whichever allocation but    *)
(* push's fails and however the text is cut, as long as no chunk ends right *)
(* after an escaped character and no escape stands before white space or a  *)
(* control character: both are cases the parser gets wrong.                 *)
THEOREM ParserInsideChunk ==
  ASSUME ~May("push"), Mode = "NORMAL", \A s \in Texts : WellEscaped(s, Cuts(s))
  PROVE  Spec => []InsideChunk
<1>1. Init => PlaceInv
  BY InitPlace
<1>2. PlaceInv => InsideChunk
  BY LoopPlace DEF PlaceInv, PlacePart, InsideChunk
<1> QED
  BY <1>1, <1>2, NextPlace, PTL DEF Spec
=============================================================================
