--------------------------- MODULE WrappersProofs ---------------------------
(***************************************************************************)
(* Proofs about parse_sexp and read_one_sexp, for every input, every       *)
(* division of it into reads and every buffer size.  read_one_sexp calls   *)
(* cparse_sexp again whatever the last call answered, and may give it the  *)
(* same bytes twice, so nothing is assumed here of the registers it finds: *)
(* the invariants of ParserProofs are about another caller.                *)
(***************************************************************************)
EXTENDS Wrappers, TLAPS

(* The bottom level has a first element, and an element counted by the loop *)
(* outside any level is in sx: these are the two places an expression is    *)
(* returned from.                                                           *)
Rooted ==
  /\ stack \in Seq(Levels) /\ live \subseteq Elem
  /\ stack # << >> => stack[1].fst # NULL
  /\ pc = "loop" /\ elts > 0 /\ stack = << >> => sx # NULL
Answered == pc = "idle" /\ at = "parse" /\ cc.error = "OK" => cc.last_sexp # NULL
ReadInv == ~May("push") /\ Rooted /\ Answered

(* What a step of the loop does that matters here: it leaves the levels     *)
(* alone, returns something else than SEXP_ERR_OK, links an element or      *)
(* returns an expression.                                                   *)
Levelled(s, l) == s \in Seq(Levels) /\ l \subseteq Elem /\ (s # << >> => s[1].fst # NULL)
Moves == pc' = "loop" /\ UNCHANGED <<elts, sx, stack, live>>
Fails == pc' = "idle" /\ cc'.error # "OK" /\ Levelled(stack', live')
Links == pc' = "loop" /\ Levelled(stack', live') /\ (sx' # NULL \/ stack' # << >>)
Answers == pc' = "idle" /\ cc'.last_sexp # NULL /\ Levelled(stack', live')
Derails == pc' = "undefined" /\ UNCHANGED <<stack, live>>
Sort == Moves \/ Fails \/ Links \/ Answers \/ Derails

LEMMA SortInv ==
  ASSUME ReadInv, pc = "loop", Sort PROVE Rooted' /\ Answered'
  BY DEF Sort, Moves, Fails, Links, Answers, Derails, Levelled, Rooted, Answered, ReadInv

LEMMA RootedLevelled == ASSUME ReadInv PROVE Levelled(stack, live)
  BY DEF ReadInv, Rooted, Levelled

(* The ways to leave an iteration. *)
LEMMA QuietSort == ASSUME pc = "loop", NEW r, NEW p, Step(r, p), Quiet PROVE Sort
  BY DEF Step, Quiet, tree, Sort, Moves

LEMMA StepSort ==
  ASSUME pc = "loop", NEW r, NEW p, Step(r, p), UNCHANGED <<elts, sx, stack, live>> PROVE Sort
  BY DEF Step, Sort, Moves

LEMMA ReturnSort ==
  ASSUME ReadInv, NEW err, err # "OK", NEW r, NEW p, NEW ls, Return(err, r, p, ls), UNCHANGED tree
  PROVE  Sort
<1>1. pc' = "idle" /\ cc'.error = err /\ UNCHANGED <<stack, live>>
  BY DEF Return, tree
<1> QED
  BY <1>1, RootedLevelled DEF Sort, Fails

LEMMA UndefinedSort == ASSUME Undefined PROVE Sort
  BY DEF Undefined, tree, Sort, Derails

LEMMA GrowFailsSort == ASSUME ReadInv, NEW r, NEW p, GrowFails(r, p) PROVE Sort
<1>1. PICK q : Return("MEMORY", q, p, NULL) /\ UNCHANGED tree
  BY DEF GrowFails
<1> QED
  BY <1>1, ReturnSort

LEMMA StoreCharAtSort ==
  ASSUME ReadInv, pc = "loop", NEW r, NEW c, NEW p, NEW q, StoreCharAt(r, c, p, q) PROVE Sort
<1>1. CASE Step(Put(r, c), p) /\ Quiet
  BY <1>1, QuietSort
<1> QED
  BY <1>1, GrowFailsSort DEF StoreCharAt, Quiet

LEMMA StoreCharSort ==
  ASSUME ReadInv, pc = "loop", NEW r, NEW c, NEW p, StoreChar(r, c, p) PROVE Sort
  BY StoreCharAtSort DEF StoreChar

(* A new element in the innermost level. *)
LEMMA Placed ==
  ASSUME ReadInv, Room
  PROVE  /\ NewElem \in Elem /\ NewElem # NULL /\ live \cup {NewElem} \subseteq Elem
         /\ Levelled(StackWith(NewElem), live \cup {NewElem})
         /\ (StackWith(NewElem) = << >>) <=> (stack = << >>)
<1>1. stack \in Seq(Levels) /\ live \subseteq Elem /\ (stack # << >> => stack[1].fst # NULL)
  BY DEF ReadInv, Rooted
<1>2. NewElem \in Elem /\ NewElem # NULL
  BY <1>1, ElemAssumption DEF Room, NewElem
<1> DEFINE e == NewElem
<1> HIDE DEF e
<1>3. CASE stack = << >>
  BY <1>1, <1>2, <1>3 DEF StackWith, Levelled
<1>4. CASE stack # << >>
  <2> DEFINE n == Len(stack)
             v == [fst |-> IF stack[n].fst = NULL THEN e ELSE stack[n].fst, lst |-> e]
             s == [stack EXCEPT ![n] = v]
  <2>1. n \in Nat \ {0} /\ n \in 1..n /\ 1 \in 1..n /\ DOMAIN stack = 1..n
    BY <1>1, <1>4
  <2>2. stack[n] \in Levels /\ stack[1] \in Levels
    BY <1>1, <2>1
  <2>3. v \in Levels /\ v.fst # NULL
    BY <1>2, <2>2 DEF Levels, Ptr, e
  <2>4. StackWith(e) = s
    BY <1>4 DEF StackWith
  <2> HIDE DEF v
  <2>5. s \in Seq(Levels) /\ Len(s) = n
    BY <1>1, <2>1, <2>3
  <2>6. s[1].fst # NULL
    BY <1>1, <1>4, <2>1, <2>3
  <2>7. s # << >>
    BY <2>1, <2>5
  <2> QED
    BY <1>1, <1>2, <1>4, <2>4, <2>5, <2>6, <2>7 DEF Levelled, e
<1> QED
  BY <1>3, <1>4

LEMMA FinishAtomSort ==
  ASSUME ReadInv, pc = "loop", NEW aty, NEW r, NEW p, NEW q, NEW tIn, NEW tTop,
         FinishAtom(aty, r, p, q, tIn, tTop)
  PROVE  Sort
<1>1. CASE Return("MEMORY", r, p, NULL) /\ UNCHANGED <<tree, events>>
  BY <1>1, ReturnSort
<1>2. ASSUME NEW k, Return("MEMORY", k, p, NULL), UNCHANGED <<stack, live>> PROVE Sort
  <2>1. pc' = "idle" /\ cc'.error = "MEMORY"
    BY <1>2 DEF Return
  <2> QED
    BY <1>2, <2>1, RootedLevelled DEF Sort, Fails
<1>3. CASE /\ Room /\ live' = live \cup {NewElem} /\ stack' = StackWith(NewElem)
           /\ \/ stack # << >> /\ Step(NewVal(q), tIn) /\ elts' = elts + 1 /\ sx' = NewElem
              \/ \E k : Return("OK", k, tTop, NewElem)
  <2>1. NewElem # NULL /\ Levelled(stack', live')
    BY <1>3, Placed
  <2>2. (pc' = "loop" /\ sx' = NewElem) \/ (pc' = "idle" /\ cc'.last_sexp = NewElem)
    BY <1>3 DEF Step, Return
  <2> QED
    BY <2>1, <2>2 DEF Sort, Links, Answers
<1> QED
  BY <1>1, <1>2, <1>3 DEF FinishAtom
-----------------------------------------------------------------------------
(* The cases of the switch. *)
LEMMA Case1Sort == ASSUME ReadInv, Case1 PROVE Sort
<1>0. pc = "loop"
  BY DEF Case1, Case
<1>1. \/ \E r, p : Step(r, p) /\ UNCHANGED <<elts, sx, stack, live>>
      \/ \E r, p : Return("MEMORY", r, p, NULL) /\ UNCHANGED tree
  BY DEF Case1, Quiet, tree
<1> QED
  BY <1>0, <1>1, StepSort, ReturnSort

LEMMA Case4Sort == ASSUME ReadInv, Case4 PROVE Sort
<1>0. pc = "loop"
  BY DEF Case4, Case
<1>1. \/ Undefined
      \/ \E r, p : Step(r, p) /\ Quiet
      \/ \E r, c, p : StoreChar(r, c, p)
      \/ \E a, r, p, q, i, j : FinishAtom(a, r, p, q, i, j)
  BY DEF Case4
<1> QED
  BY <1>0, <1>1, UndefinedSort, QuietSort, StoreCharSort, FinishAtomSort

LEMMA Case5Sort == ASSUME ReadInv, Case5 PROVE Sort
<1>0. pc = "loop"
  BY DEF Case5, Case
<1>1. \/ Undefined
      \/ \E r, c, p, q : StoreCharAt(r, c, p, q)
      \/ \E a, r, p, q, i, j : FinishAtom(a, r, p, q, i, j)
      \/ \E r, p : GrowFails(r, p)
  BY DEF Case5
<1> QED
  BY <1>0, <1>1, UndefinedSort, StoreCharAtSort, FinishAtomSort, GrowFailsSort

LEMMA Case7Sort == ASSUME ReadInv, Case7 PROVE Sort
<1>0. pc = "loop"
  BY DEF Case7, Case
<1>1. \/ \E r, p : Step(r, p) /\ Quiet
      \/ \E r, c, p, q : StoreCharAt(r, c, p, q)
  BY DEF Case7
<1> QED
  BY <1>0, <1>1, QuietSort, StoreCharAtSort

LEMMA Case8Sort == ASSUME ReadInv, Case8 PROVE Sort
<1>0. pc = "loop"
  BY DEF Case8, Case
<1>1. \/ \E r, c, p : StoreChar(r, c, p)
      \/ \E a, r, p, q, i, j : FinishAtom(a, r, p, q, i, j)
      \/ \E r, p : GrowFails(r, p)
  BY DEF Case8
<1> QED
  BY <1>0, <1>1, StoreCharSort, FinishAtomSort, GrowFailsSort

(* Cases 6 and 10 to 14. *)
LEMMA TextSort ==
  ASSUME ReadInv, Case6 \/ Case10 \/ Case11 \/ Case12 \/ Case13 PROVE Sort
<1>0. pc = "loop"
  BY DEF Case6, Case10, Case11, Case12, Case13, Case
<1>1. \/ \E r, p : Step(r, p) /\ Quiet
      \/ \E r, c, p : StoreChar(r, c, p)
      \/ \E r, p : GrowFails(r, p)
  BY DEF Case6, Case10, Case11, Case12, Case13
<1> QED
  BY <1>0, <1>1, QuietSort, StoreCharSort, GrowFailsSort

LEMMA Case14Sort == ASSUME ReadInv, Case14 PROVE Sort
<1>0. pc = "loop"
  BY DEF Case14, Case
<1>1. \/ \E r, p : Step(r, p) /\ UNCHANGED <<elts, sx, stack, live>>
      \/ \E r, c, p : StoreChar(r, c, p)
      \/ \E r, p : Return("MEMORY", r, p, NULL) /\ UNCHANGED tree
  BY DEF Case14, Quiet, tree
<1> QED
  BY <1>0, <1>1, StepSort, StoreCharSort, ReturnSort

LEMMA Case15Sort == ASSUME ReadInv, Case15 PROVE Sort
<1>0. pc = "loop"
  BY DEF Case15, Case
<1>1. \/ \E r, p : Step(r, p) /\ Quiet
      \/ \E r, p : Return("MEMORY", r, p, NULL) /\ UNCHANGED tree
      \/ /\ Room /\ live' = live \cup {NewElem} /\ stack' = StackWith(NewElem)
         /\ sx' = NewElem /\ \E r, p : Step(r, p)
  BY DEF Case15
<1>2. CASE /\ Room /\ live' = live \cup {NewElem} /\ stack' = StackWith(NewElem)
           /\ sx' = NewElem /\ \E r, p : Step(r, p)
  <2>1. pc' = "loop"
    BY <1>0, <1>2 DEF Step
  <2> QED
    BY <1>2, <2>1, Placed DEF Sort, Links
<1> QED
  BY <1>0, <1>1, <1>2, QuietSort, ReturnSort

(* Case 2 puts the list into the innermost level or makes the bottom level  *)
(* of it, and pushes an empty level on top.                                 *)
LEMMA Bottom ==
  ASSUME NEW e \in Elem
  PROVE  LET s == << [fst |-> e, lst |-> e] >>
         IN  s \in Seq(Levels) /\ Len(s) = 1 /\ s # << >> /\ s[1].fst # NULL
<1>1. [fst |-> e, lst |-> e] \in Levels /\ e # NULL
  BY ElemAssumption DEF Levels, Ptr
<1> QED
  BY <1>1

LEMMA PushLevelled ==
  ASSUME NEW s, NEW l, Levelled(s, l), s # << >>, NEW v \in Levels
  PROVE  Levelled(Append(s, v), l) /\ Append(s, v) # << >>
<1>1. s \in Seq(Levels) /\ Len(s) \in Nat /\ Len(s) > 0
  BY DEF Levelled
<1>2. Append(s, v) \in Seq(Levels) /\ Append(s, v)[1] = s[1] /\ Append(s, v) # << >>
  BY <1>1
<1> QED
  BY <1>2 DEF Levelled

LEMMA Case2Sort == ASSUME ReadInv, Case2 PROVE Sort
<1>0. pc = "loop" /\ PushFailures = {{}}
  BY DEF Case2, Case, PushFailures, ReadInv
<1> DEFINE e == NewElem
           s1 == IF stack = << >> THEN Append(stack, [fst |-> e, lst |-> e]) ELSE StackWith(e)
           v == [fst |-> NULL, lst |-> NULL]
<1>1. \/ \E r, p : Return("MEMORY", r, p, NULL) /\ UNCHANGED tree
      \/ /\ Room /\ live' = live \cup {e}
         /\ \/ stack' = s1 /\ \E r, p : Return("MEMORY", r, p, NULL)
            \/ stack' = Append(s1, v) /\ sx' = e /\ \E r, p : Step(r, p)
  BY <1>0 DEF Case2, Pushed
<1>2. CASE Room /\ live' = live \cup {e}
  <2>1. e \in Elem /\ e # NULL /\ Levelled(s1, live \cup {e}) /\ s1 # << >>
    <3>1. e \in Elem /\ e # NULL /\ live \cup {e} \subseteq Elem
      BY <1>2, Placed
    <3>2. CASE stack = << >>
      <4>1. s1 = << [fst |-> e, lst |-> e] >>
        BY <3>2
      <4> QED
        BY <3>1, <4>1, Bottom DEF Levelled
    <3>3. CASE stack # << >>
      BY <1>2, <3>1, <3>3, Placed
    <3> QED
      BY <3>1, <3>2, <3>3
  <2>2. v \in Levels
    BY DEF Levels, Ptr
  <2> HIDE DEF s1, v, e
  <2>3. CASE stack' = s1 /\ \E r, p : Return("MEMORY", r, p, NULL)
    <3>1. pc' = "idle" /\ cc'.error = "MEMORY"
      BY <2>3 DEF Return
    <3> QED
      BY <1>2, <2>1, <2>3, <3>1 DEF Sort, Fails
  <2>4. CASE stack' = Append(s1, v) /\ sx' = e /\ \E r, p : Step(r, p)
    <3>1. pc' = "loop"
      BY <1>0, <2>4 DEF Step
    <3> QED
      BY <1>2, <2>1, <2>2, <2>4, <3>1, PushLevelled DEF Sort, Links
  <2> QED
    BY <1>1, <2>3, <2>4, ReturnSort
<1> QED
  BY <1>1, <1>2, ReturnSort

LEMMA Case3Sort == ASSUME ReadInv, Case3 PROVE Sort
<1>0. pc = "loop" /\ Levelled(stack, live)
  BY RootedLevelled DEF Case3, Case
<1> DEFINE below == SubSeq(stack, 1, Len(stack) - 1)
<1>1. \/ \E r, p : Return("BADFORM", r, p, NULL) /\ UNCHANGED tree
      \/ Undefined
      \/ /\ stack # << >> /\ live' = live
         /\ \/ stack' = below /\ \E r, p : Return("BAD_STACK", r, p, NULL)
            \/ stack' = << >> /\ \E r, p : Return("OK", r, p, stack[1].fst)
            \/ stack' = below /\ below # << >> /\ \E r, p : Step(r, p)
  BY DEF Case3
<1>2. CASE stack # << >> /\ live' = live
  <2>1. Levelled(below, live)
    <3>1. stack \in Seq(Levels) /\ Len(stack) \in Nat \ {0}
      BY <1>0, <1>2 DEF Levelled
    <3>2. PICK n \in Nat : n = Len(stack) - 1
      BY <3>1
    <3>3. below \in Seq(Levels) /\ Len(below) = n /\ \A i \in 1..n : below[i] = stack[i]
      BY <3>1, <3>2
    <3>4. below # << >> => 1 \in 1..n
      BY <3>3
    <3> QED
      BY <1>0, <1>2, <3>3, <3>4 DEF Levelled
  <2> HIDE DEF below
  <2>2. CASE stack' = below /\ \E r, p : Return("BAD_STACK", r, p, NULL)
    <3>1. pc' = "idle" /\ cc'.error = "BAD_STACK"
      BY <2>2 DEF Return
    <3> QED
      BY <1>2, <2>1, <2>2, <3>1 DEF Sort, Fails
  <2>3. CASE stack' = << >> /\ \E r, p : Return("OK", r, p, stack[1].fst)
    <3>1. pc' = "idle" /\ cc'.last_sexp = stack[1].fst
      BY <2>3 DEF Return
    <3> QED
      BY <1>0, <1>2, <2>3, <3>1 DEF Sort, Answers, Levelled
  <2>4. CASE stack' = below /\ below # << >> /\ \E r, p : Step(r, p)
    <3>1. pc' = "loop"
      BY <1>0, <2>4 DEF Step
    <3> QED
      BY <1>2, <2>1, <2>4, <3>1 DEF Sort, Links
  <2> QED
    BY <1>1, <2>2, <2>3, <2>4, UndefinedSort, ReturnSort
<1> QED
  BY <1>1, <1>2, UndefinedSort, ReturnSort

LEMMA LoopExitSort == ASSUME ReadInv, LoopExit PROVE Sort
<1>0. pc = "loop" /\ Levelled(stack, live) /\ UNCHANGED live
  BY RootedLevelled DEF LoopExit
<1>1. CASE Finished
  <2> DEFINE ls == IF stack = << >> THEN sx ELSE stack[1].fst
  <2>1. ls # NULL
    BY <1>0, <1>1 DEF Finished, ReadInv, Rooted
  <2>2. stack' = << >> /\ \E r, p : Return("OK", r, p, ls)
    BY <1>1 DEF LoopExit
  <2> HIDE DEF ls
  <2>3. pc' = "idle" /\ cc'.last_sexp = ls
    BY <2>2 DEF Return
  <2> QED
    BY <1>0, <2>1, <2>2, <2>3 DEF Sort, Answers, Levelled
<1>2. CASE ~Finished
  <2>1. UNCHANGED tree /\ \E r, p : Return("INCOMPLETE", r, p, NULL)
    BY <1>2 DEF LoopExit, tree
  <2> QED
    BY <2>1, ReturnSort
<1> QED
  BY <1>1, <1>2

LEMMA ParserStepSort == ASSUME ReadInv, ParserStep PROVE pc = "loop" /\ Sort
<1>1. pc = "loop"
  BY DEF ParserStep, Case1, Case2, Case3, Case4, Case5, Case6, Case7, Case8, Case10, Case11,
         Case12, Case13, Case14, Case15, LoopExit, WalkOff, Case
<1>2. WalkOff => Sort
  BY UndefinedSort DEF WalkOff
<1> QED
  BY <1>1, <1>2, Case1Sort, Case2Sort, Case3Sort, Case4Sort, Case5Sort, Case7Sort, Case8Sort,
     TextSort, Case14Sort, Case15Sort, LoopExitSort
  DEF ParserStep
-----------------------------------------------------------------------------
(* The steps of the wrappers: they begin a call, stop, or give an           *)
(* expression away when they are not waiting for one.                       *)
LEMMA ParseInv == ASSUME ReadInv, NEW s, NEW n, Parse(s, n) PROVE Rooted' /\ Answered'
  BY DEF Parse, ReadInv, Rooted, Answered

LEMMA StopInv ==
  ASSUME ReadInv, pc' \in {"done", "undefined"}, UNCHANGED <<stack, live>>
  PROVE  Rooted' /\ Answered'
  BY DEF ReadInv, Rooted, Answered

LEMMA MadeOrNotInv == ASSUME ReadInv, NEW s, NEW n, MadeOrNot(s, n) PROVE Rooted' /\ Answered'
  BY ParseInv, StopInv DEF MadeOrNot, Undefined, tree

LEMMA GiveInv ==
  ASSUME ReadInv, NEW e, Waiting, HandOver(e), at' # "parse", UNCHANGED <<pc, stack>>
  PROVE  Rooted' /\ Answered'
  BY DEF ReadInv, Rooted, Answered, HandOver, Destroyed, Waiting

LEMMA IdleInv ==
  ASSUME ReadInv, at' # "parse", UNCHANGED <<pc, elts, sx, stack, live>>
  PROVE  Rooted' /\ Answered'
  BY DEF ReadInv, Rooted, Answered

LEMMA EmptiedInv ==
  ASSUME ReadInv, NEW S, Destroyed(S), stack' = << >>, pc' = "done" PROVE Rooted' /\ Answered'
  BY DEF ReadInv, Rooted, Answered, Destroyed

LEMMA StringInv == ASSUME ReadInv, parse_sexp \/ Blank \/ Finish PROVE Rooted' /\ Answered'
<1>1. CASE parse_sexp
  BY <1>1, ParseInv, StopInv DEF parse_sexp, tree
<1>2. CASE Blank
  BY <1>2, ParseInv DEF Blank
<1>3. CASE Finish
  BY <1>3, EmptiedInv DEF Finish
<1> QED
  BY <1>1, <1>2, <1>3

LEMMA FileInv ==
  ASSUME ReadInv, read_one_sexp \/ Rest \/ Again \/ Read \/ ReadNothing \/ ReadError \/ Judge
  PROVE  Rooted' /\ Answered'
<1>1. CASE read_one_sexp
  <2>1. (\E s, n : Parse(s, n)) \/ (at' = "fill" /\ UNCHANGED vars)
    BY <1>1 DEF read_one_sexp
  <2> QED
    BY <2>1, ParseInv, IdleInv DEF vars, tree
<1>2. CASE Rest
  <2>1. \/ Waiting /\ HandOver(cc.last_sexp) /\ at' = "out" /\ UNCHANGED <<pc, stack>>
        \/ at' = "fill" /\ UNCHANGED vars
    BY <1>2 DEF Rest
  <2> QED
    BY <2>1, GiveInv, IdleInv DEF vars, tree
<1>3. CASE Again \/ Read
  <2>1. \E s, n : MadeOrNot(s, n)
    BY <1>3 DEF Again, Read
  <2> QED
    BY <2>1, MadeOrNotInv
<1>4. CASE ReadNothing
  BY <1>4, IdleInv DEF ReadNothing, tree
<1>5. CASE ReadError
  <2>1. Undefined \/ \E s, n : MadeOrNot(s, n)
    BY <1>5 DEF ReadError
  <2> QED
    BY <2>1, MadeOrNotInv, StopInv DEF Undefined, tree
<1>6. CASE Judge
  <2>1. \/ Waiting /\ HandOver(cc.last_sexp) /\ at' = "out" /\ UNCHANGED <<pc, stack>>
        \/ at' = "out" /\ UNCHANGED <<pc, elts, sx, stack, live>>
        \/ at' = "fill" /\ UNCHANGED vars
    BY <1>6 DEF Judge, tree
  <2> QED
    BY <2>1, GiveInv, IdleInv DEF vars, tree
<1> QED
  BY <1>1, <1>2, <1>3, <1>4, <1>5, <1>6

LEMMA DestroyInv == ASSUME ReadInv, destroy_iowrap PROVE Rooted' /\ Answered'
  BY EmptiedInv, StopInv DEF destroy_iowrap, DestroyContinuation, tree

LEMMA NextRead == ReadInv /\ [WNext]_allVars => ReadInv'
<1> SUFFICES ASSUME ReadInv, [WNext]_allVars PROVE Rooted' /\ Answered'
  BY DEF ReadInv, May
<1>1. CASE UNCHANGED <<vars, own>>
  BY <1>1 DEF vars, tree, own, ReadInv, Rooted, Answered
<1>2. CASE ParserStep /\ UNCHANGED own
  BY <1>2, ParserStepSort, SortInv
<1>3. CASE WrapperStep
  BY <1>3, StringInv, FileInv, DestroyInv DEF WrapperStep
<1> QED
  BY <1>1, <1>2, <1>3 DEF WNext, Halted, allVars

LEMMA InitRead == ASSUME WInit, ~May("push") PROVE ReadInv
  BY DEF WInit, Init, ReadInv, Rooted, Answered

(* cparse_sexp never tells read_one_sexp SEXP_ERR_OK without an expression, *)
(* for every file and every division of it into reads, and although the     *)
(* calls go on after every error: an expression is returned either from a   *)
(* level whose first element exists or from the element just made.  So the  *)
(* loop of read_one_sexp never fills its buffer twice in one call.  (By     *)
(* WrapperFaults no allocation inside cparse_sexp fails.)                   *)
THEOREM WrappersReadOnce == WSpec => []ReadsOnce
<1>1. ReadInv => ReadsOnce
  BY DEF ReadInv, Answered, ReadsOnce
<1>2. WInit => ReadInv
  BY WrapperFaults, InitRead DEF May
<1> QED
  BY <1>1, <1>2, NextRead, PTL DEF WSpec
=============================================================================
