---------------------------- MODULE ParserProofs ----------------------------
(***************************************************************************)
(* Proofs about the parser, for all texts, all ways to cut them into       *)
(* chunks, all buffer sizes and any memory.                                *)
(***************************************************************************)
EXTENDS Parser, RegistersProofs, TLAPS

(* The inductive invariant of the first part: types and the atom buffer. *)
Fresh == pc = "none" => cc.regs = InitRegs
ControlInv == ControlOK /\ AtomBufferInBounds /\ Fresh
BufferInv == ControlInv /\ TreeOK

Hard == {"MEMORY", "BAD_STACK"}
-----------------------------------------------------------------------------
(* Characters and registers. *)
LEMMA CharOK == ASSUME ControlOK, NEW i \in Nat PROVE CharAt(i) \in Char
<1>1. text \in Seq(Char)
  BY TextsAssumption DEF ControlOK
<1> QED
  BY <1>1 DEF CharAt, Char

LEMMA NewValGood == ASSUME NEW r \in Regs, r.hasval PROVE Good(NewVal(r))
<1>1. /\ << >> \in Seq(Char) /\ Len(<< >>) <= 0 /\ 0 < StartSize
      /\ 0 \in Nat /\ StartSize \in Nat
  BY SizesAssumption
<1>2. NewVal(r) = [r EXCEPT !.val = << >>, !.val_used = 0, !.val_allocated = StartSize]
  BY DEF NewVal
<1> QED
  BY <1>1, <1>2, SetAtom
-----------------------------------------------------------------------------
(* Going round the loop and returning. *)
LEMMA StepControl ==
  ASSUME ControlInv, pc = "loop", NEW r, Good(r), NEW pos \in Nat, Step(r, pos)
  PROVE  ControlInv'
  BY DEF ControlInv, ControlOK, Step, Good, Fresh, AtomBufferInBounds, Sound, Here

LEMMA ReturnControl ==
  ASSUME ControlInv, NEW r \in Regs, NEW pos \in Nat, NEW ls \in Ptr, NEW err \in ErrCode,
         err \in Hard \/ Bounded(r), Return(err, r, pos, ls)
  PROVE  ControlInv' /\ elts' \in Nat /\ sx' \in Ptr
  BY InitRegsGood
  DEF ControlInv, ControlOK, Return, Good, Fresh, AtomBufferInBounds, Sound, Here, Hard, Ptr

LEMMA UndefinedControl ==
  ASSUME BufferInv, Undefined PROVE BufferInv'
  BY DEF BufferInv, ControlInv, ControlOK, TreeOK, Undefined, Fresh, AtomBufferInBounds,
         Sound, Here, tree

LEMMA QuietTree == ASSUME TreeOK, UNCHANGED <<elts, sx, tree>> PROVE TreeOK'
  BY DEF TreeOK, tree

LEMMA StepQuiet ==
  ASSUME BufferInv, pc = "loop", NEW r, Good(r), NEW pos \in Nat, Step(r, pos), Quiet
  PROVE  BufferInv'
  BY StepControl, QuietTree DEF BufferInv, Quiet

LEMMA ReturnQuiet ==
  ASSUME BufferInv, NEW r \in Regs, NEW pos \in Nat, NEW err \in ErrCode,
         err \in Hard \/ Bounded(r), Return(err, r, pos, NULL), UNCHANGED tree
  PROVE  BufferInv'
<1>1. NULL \in Ptr
  BY DEF Ptr
<1>2. ControlInv' /\ elts' \in Nat /\ sx' \in Ptr
  BY <1>1, ReturnControl DEF BufferInv
<1> QED
  BY <1>2 DEF BufferInv, TreeOK, tree, Ptr

LEMMA HardErr == Hard \subseteq ErrCode
  BY DEF Hard, ErrCode

LEMMA GrowFailsInv ==
  ASSUME BufferInv, NEW r \in Regs, NEW pos \in Nat, GrowFails(r, pos) PROVE BufferInv'
<1>1. [r EXCEPT !.val_used = @ + 1] \in Regs
  BY CountUp
<1> QED
  BY <1>1, ReturnQuiet, HardErr DEF GrowFails, Hard

LEMMA StoreCharAtInv ==
  ASSUME BufferInv, pc = "loop", NEW r, Good(r), NEW c \in Char, NEW pos \in Nat,
         NEW tFail \in Nat, StoreCharAt(r, c, pos, tFail)
  PROVE  BufferInv'
<1>1. CASE Step(Put(r, c), pos) /\ Quiet
  BY <1>1, PutGood, StepQuiet
<1>2. CASE GrowFails(r, tFail)
  BY <1>2, GrowFailsInv DEF Good
<1> QED
  BY <1>1, <1>2 DEF StoreCharAt, Quiet

LEMMA StoreCharInv ==
  ASSUME BufferInv, pc = "loop", NEW r, Good(r), NEW c \in Char, NEW pos \in Nat,
         StoreChar(r, c, pos)
  PROVE  BufferInv'
<1>1. t \in Nat
  BY DEF BufferInv, ControlInv, ControlOK
<1> QED
  BY <1>1, StoreCharAtInv DEF StoreChar
-----------------------------------------------------------------------------
(* The tree. *)
LEMMA NewElemOK == ASSUME live \subseteq Elem, Room PROVE NewElem \in Elem
  BY DEF Room, NewElem

LEMMA HeapWithOK ==
  ASSUME TreeOK, NEW e \in Elem, NEW node \in Nodes PROVE HeapWith(e, node) \in [Elem -> Nodes]
<1> DEFINE h == [heap EXCEPT ![e] = node]
<1>1. h \in [Elem -> Nodes]
  BY DEF TreeOK
<1> HIDE DEF h
<1>2. \A x : [h EXCEPT ![x].next = e] \in [Elem -> Nodes]
  <2> SUFFICES ASSUME NEW x PROVE [h EXCEPT ![x].next = e] \in [Elem -> Nodes]
    OBVIOUS
  <2>1. ASSUME x \in Elem PROVE [h[x] EXCEPT !.next = e] \in Nodes
    BY <1>1, <2>1 DEF Nodes, Ptr
  <2> QED
    BY <1>1, <2>1
<1> QED
  BY <1>1, <1>2 DEF HeapWith, h

LEMMA StackWithOK ==
  ASSUME TreeOK, NEW e \in Elem PROVE StackWith(e) \in Seq(Levels)
<1>1. CASE stack = << >>
  BY <1>1 DEF StackWith, TreeOK
<1>2. CASE stack # << >>
  <2>1. stack \in Seq(Levels) /\ Len(stack) \in 1..Len(stack) /\ stack[Len(stack)] \in Levels
    BY <1>2 DEF TreeOK
  <2>2. [fst |-> IF stack[Len(stack)].fst = NULL THEN e ELSE stack[Len(stack)].fst,
         lst |-> e] \in Levels
    BY <2>1 DEF Levels, Ptr
  <2> QED
    BY <1>2, <2>1, <2>2 DEF StackWith
<1> QED
  BY <1>1, <1>2

LEMMA FinishAtomInv ==
  ASSUME BufferInv, pc = "loop", NEW aty \in {"BASIC", "SQUOTE", "DQUOTE"},
         NEW r \in Regs, r.hasval, NEW q \in Regs, q.hasval,
         NEW pos \in Nat, NEW tIn \in Nat, NEW tTop \in Nat,
         FinishAtom(aty, r, pos, q, tIn, tTop)
  PROVE  BufferInv'
<1>1. CASE Return("MEMORY", r, pos, NULL) /\ UNCHANGED <<tree, events>>
  BY <1>1, ReturnQuiet, HardErr DEF Hard
<1>2. CASE Return("MEMORY", [r EXCEPT !.hasval = FALSE], pos, NULL) /\ UNCHANGED <<stack, heap, live>>
  <2>1. [r EXCEPT !.hasval = FALSE] \in Regs
    BY DEF Regs
  <2>2. ControlInv' /\ elts' \in Nat /\ sx' \in Ptr
    BY <1>2, <2>1, ReturnControl, HardErr DEF Hard, Ptr, BufferInv
  <2> QED
    BY <1>2, <2>2 DEF BufferInv, TreeOK
<1>3. CASE /\ Room /\ live' = live \cup {NewElem}
           /\ heap' = HeapWith(NewElem, Node("VALUE", aty, r.val, r.val_used, r.val_allocated))
           /\ stack' = StackWith(NewElem)
           /\ IF stack # << >>
              THEN Step(NewVal(q), tIn) /\ elts' = elts + 1 /\ sx' = NewElem
              ELSE Return("OK", [NewVal(r) EXCEPT !.squoted = 0, !.esc = 0,
                                                  !.state = 1], tTop, NewElem)
  <2>1. NewElem \in Elem
    BY <1>3, NewElemOK DEF BufferInv, TreeOK
  <2>2. Node("VALUE", aty, r.val, r.val_used, r.val_allocated) \in Nodes
    BY DEF Node, Nodes, Regs, Ptr
  <2>3. live' \subseteq Elem /\ heap' \in [Elem -> Nodes] /\ stack' \in Seq(Levels)
    BY <1>3, <2>1, <2>2, HeapWithOK, StackWithOK DEF BufferInv, TreeOK
  <2>4. CASE stack # << >>
    <3>1. ControlInv'
      BY <1>3, <2>4, NewValGood, StepControl DEF BufferInv
    <3> QED
      BY <1>3, <2>1, <2>3, <2>4, <3>1 DEF BufferInv, TreeOK, Ptr
  <2>5. CASE stack = << >>
    <3> DEFINE k == [NewVal(r) EXCEPT !.squoted = 0, !.esc = 0, !.state = 1]
    <3>1. Good(NewVal(r))
      BY NewValGood
    <3>2. k \in Regs /\ Bounded(k)
      <4>1. k = [[[NewVal(r) EXCEPT !.squoted = 0] EXCEPT !.esc = 0] EXCEPT !.state = 1]
        OBVIOUS
      <4>2. Good([NewVal(r) EXCEPT !.squoted = 0])
        BY <3>1, SetSquoted
      <4>3. Good([[NewVal(r) EXCEPT !.squoted = 0] EXCEPT !.esc = 0])
        BY <4>2, SetEsc
      <4>4. 1 \in 1..15
        OBVIOUS
      <4>5. Good([[[NewVal(r) EXCEPT !.squoted = 0] EXCEPT !.esc = 0] EXCEPT !.state = 1])
        BY <4>3, <4>4, SetState
      <4> QED
        BY <4>1, <4>5 DEF Good
    <3> HIDE DEF k
    <3>3. "OK" \in ErrCode /\ NewElem \in Ptr /\ Return("OK", k, tTop, NewElem)
      BY <1>3, <2>1, <2>5 DEF ErrCode, Ptr, k
    <3>4. ControlInv' /\ elts' \in Nat /\ sx' \in Ptr
      BY <3>2, <3>3, ReturnControl DEF BufferInv
    <3> QED
      BY <2>3, <3>4 DEF BufferInv, TreeOK
  <2> QED
    BY <2>4, <2>5
<1> QED
  BY <1>1, <1>2, <1>3 DEF FinishAtom
-----------------------------------------------------------------------------
(* One lemma for each case of the switch. *)
LEMMA LoopFacts ==
  ASSUME BufferInv, pc = "loop"
  PROVE  Good(rg) /\ rg \in Regs /\ rg.hasval /\ t \in Nat /\ t + 1 \in Nat /\ Ch \in Char
<1>1. Good(rg) /\ rg \in Regs /\ rg.hasval /\ t \in Nat
  BY DEF BufferInv, ControlInv, ControlOK, AtomBufferInBounds, Sound, Here, Good, Bounded
<1>2. Ch \in Char
  BY <1>1, CharOK DEF BufferInv, ControlInv, Ch
<1> QED
  BY <1>1, <1>2

LEMMA Case1Inv == ASSUME BufferInv, Case1 PROVE BufferInv'
<1>0. /\ pc = "loop"
      /\ Good(rg) /\ rg \in Regs /\ rg.hasval /\ t \in Nat /\ t + 1 \in Nat /\ Ch \in Char
  BY LoopFacts DEF Case1, Case
<1>1. CASE Step(rg, t + 1) /\ Quiet
  BY <1>0, <1>1, StepQuiet
<1>2. CASE Step([rg EXCEPT !.state = 11], t + 1) /\ Quiet
  BY <1>0, <1>2, SetState, States, StepQuiet
<1>3. CASE Step([rg EXCEPT !.state = 2], t + 1) /\ UNCHANGED <<elts, sx, tree>>
  <2>1. Good([rg EXCEPT !.state = 2])
    BY <1>0, SetState, States
  <2> QED
    BY <1>0, <1>3, <2>1, StepControl, QuietTree DEF BufferInv
<1>4. CASE Step([rg EXCEPT !.state = 3], t) /\ Quiet
  BY <1>0, <1>4, SetState, States, StepQuiet
<1>5. CASE Step([rg EXCEPT !.state = 5, !.val = << >>], t + 1) /\ Quiet
  BY <1>0, <1>5, RestartState, States, StepQuiet
<1>6. CASE Step([rg EXCEPT !.state = 7], t + 1) /\ Quiet
  BY <1>0, <1>6, SetState, States, StepQuiet
<1>7. ASSUME NEW r, r = [rg EXCEPT !.val = << >>, !.esc = EscFlag(Ch)],
             NEW n, n = IF Ch = "hash" /\ Mode = "INLINE_BINARY" THEN 12 ELSE 4,
             \/ Step([Put(r, Ch) EXCEPT !.state = n], t + 1) /\ Quiet
             \/ /\ Return("MEMORY", [r EXCEPT !.val_used = @ + 1, !.hasval = FALSE], t, NULL)
                /\ UNCHANGED <<tree, events>>
      PROVE  BufferInv'
  <2>1. Good(r)
    <3>1. Good([[rg EXCEPT !.val = << >>] EXCEPT !.esc = EscFlag(Ch)])
      BY <1>0, Restart, SetEsc, EscFlagOK
    <3> QED
      BY <1>7, <3>1
  <2>2. CASE Step([Put(r, Ch) EXCEPT !.state = n], t + 1) /\ Quiet
    <3>1. n \in 1..15
      BY <1>7
    <3>2. Good([Put(r, Ch) EXCEPT !.state = n])
      BY <1>0, <2>1, <3>1, PutGood, SetState
    <3> QED
      BY <1>0, <2>2, <3>2, StepQuiet
  <2>3. CASE /\ Return("MEMORY", [r EXCEPT !.val_used = @ + 1, !.hasval = FALSE], t, NULL)
             /\ UNCHANGED <<tree, events>>
    <3>1. [[r EXCEPT !.val_used = @ + 1] EXCEPT !.hasval = FALSE] \in Regs
      <4>1. [r EXCEPT !.val_used = @ + 1] \in Regs
        BY <2>1, CountUp DEF Good
      <4> DEFINE p == [r EXCEPT !.val_used = @ + 1]
      <4> HIDE DEF p
      <4>2. [p EXCEPT !.hasval = FALSE] \in Regs
        <5>1. p \in Regs
          BY <4>1 DEF p
        <5> QED
          BY <5>1 DEF Regs
      <4> QED
        BY <4>2 DEF p
    <3>2. [r EXCEPT !.val_used = @ + 1, !.hasval = FALSE] \in Regs
      BY <3>1
    <3> QED
      BY <1>0, <2>3, <3>2, ReturnQuiet, HardErr DEF Hard
  <2> QED
    BY <1>7, <2>2, <2>3
<1> QED
  BY <1>1, <1>2, <1>3, <1>4, <1>5, <1>6, <1>7 DEF Case1

LEMMA Case4Inv == ASSUME BufferInv, Case4 PROVE BufferInv'
<1>0. /\ pc = "loop"
      /\ Good(rg) /\ rg \in Regs /\ rg.hasval /\ t \in Nat /\ t + 1 \in Nat /\ Ch \in Char
  BY LoopFacts DEF Case4, Case
<1>1. CASE Undefined
  BY <1>1, UndefinedControl
<1>2. CASE rg.val # << >> /\ Step(Unescape(rg, Ch), t + 1) /\ Quiet
  BY <1>0, <1>2, UnescapeGood, StepQuiet
<1>3. CASE StoreChar([rg EXCEPT !.esc = EscFlag(Ch)], Ch, t + 1)
  BY <1>0, <1>3, SetEsc, EscFlagOK, StoreCharInv
<1>4. CASE FinishAtom(IF rg.squoted # 0 THEN "SQUOTE" ELSE "BASIC",
                      [rg EXCEPT !.val_used = @ + 1], t,
                      [rg EXCEPT !.state = IF Ch = "rp" THEN 3 ELSE 1, !.squoted = 0],
                      IF Ch \in White THEN t + 1 ELSE t, t)
  <2> DEFINE aty == IF rg.squoted # 0 THEN "SQUOTE" ELSE "BASIC"
             n == IF Ch = "rp" THEN 3 ELSE 1
             q == [rg EXCEPT !.state = n, !.squoted = 0]
             r == [rg EXCEPT !.val_used = @ + 1]
             tIn == IF Ch \in White THEN t + 1 ELSE t
  <2>1. aty \in {"BASIC", "SQUOTE", "DQUOTE"} /\ tIn \in Nat /\ n \in 1..15
    BY <1>0
  <2>2. r \in Regs /\ r.hasval
    BY <1>0, CountUp
  <2> HIDE DEF n
  <2>3. Good([[rg EXCEPT !.state = n] EXCEPT !.squoted = 0])
    BY <1>0, <2>1, SetState, SetSquoted
  <2>4. q \in Regs /\ q.hasval
    BY <2>3 DEF Good, Bounded
  <2>5. FinishAtom(aty, r, t, q, tIn, t)
    BY <1>4 DEF n
  <2> HIDE DEF aty, r, q, tIn
  <2> QED
    BY <1>0, <2>1, <2>2, <2>4, <2>5, FinishAtomInv
<1> QED
  BY <1>1, <1>2, <1>3, <1>4 DEF Case4

LEMMA FinishQuoted ==
  ASSUME BufferInv, pc = "loop", NEW aty \in {"SQUOTE", "DQUOTE"}, NEW r, Good(r), NEW q, Good(q),
         NEW pos \in Nat, NEW tIn \in Nat,
         FinishAtom(aty, [r EXCEPT !.val_used = @ + 1], pos, q, tIn, tIn)
  PROVE  BufferInv'
<1> DEFINE k == [r EXCEPT !.val_used = @ + 1]
<1>1. k \in Regs /\ k.hasval /\ q \in Regs /\ q.hasval
  BY CountUp DEF Good, Bounded
<1>2. aty \in {"BASIC", "SQUOTE", "DQUOTE"} /\ FinishAtom(aty, k, pos, q, tIn, tIn)
  OBVIOUS
<1> HIDE DEF k
<1> QED
  BY <1>1, <1>2, FinishAtomInv

LEMMA Case5Inv == ASSUME BufferInv, Case5 PROVE BufferInv'
<1>0. /\ pc = "loop"
      /\ Good(rg) /\ rg \in Regs /\ rg.hasval /\ t \in Nat /\ t + 1 \in Nat /\ Ch \in Char
  BY LoopFacts DEF Case5, Case
<1>1. PICK escaped, pos, r, c, quoted :
        /\ escaped = (rg.esc = 1 /\ Ch \in Escapable)
        /\ pos = IF escaped THEN t + 1 ELSE t
        /\ r = IF escaped THEN Unescape(rg, Ch) ELSE rg
        /\ c = CharAt(pos)
        /\ quoted = [r EXCEPT !.state = 6]
        /\ IF escaped /\ rg.val = << >> THEN Undefined
           ELSE \/ StoreCharAt([r EXCEPT !.esc = EscFlag(c)], c, pos + 1, pos)
                \/ FinishAtom("DQUOTE", [quoted EXCEPT !.val_used = @ + 1], pos,
                              quoted, pos + 1, pos + 1)
                \/ FinishAtom("SQUOTE", [Put(quoted, "dq") EXCEPT !.val_used = @ + 1],
                              pos, [quoted EXCEPT !.squoted = 0], pos + 1, pos + 1)
                \/ GrowFails(quoted, pos)
  BY DEF Case5
<1>2. CASE escaped /\ rg.val = << >>
  BY <1>1, <1>2, UndefinedControl
<1>3. CASE ~(escaped /\ rg.val = << >>)
  <2>1. pos \in Nat /\ pos + 1 \in Nat
    BY <1>0, <1>1
  <2>2. c \in Char /\ "dq" \in Char
    BY <1>1, <2>1, CharOK DEF BufferInv, ControlInv, Char, Escapable
  <2>3. Good(r)
    BY <1>0, <1>1, <1>3, UnescapeGood
  <2>4. Good(quoted)
    BY <1>1, <2>3, SetState, States
  <2>5. CASE StoreCharAt([r EXCEPT !.esc = EscFlag(c)], c, pos + 1, pos)
    BY <1>0, <2>1, <2>2, <2>3, <2>5, SetEsc, EscFlagOK, StoreCharAtInv
  <2>6. CASE FinishAtom("DQUOTE", [quoted EXCEPT !.val_used = @ + 1], pos,
                        quoted, pos + 1, pos + 1)
    BY <1>0, <2>1, <2>4, <2>6, FinishQuoted
  <2>7. CASE FinishAtom("SQUOTE", [Put(quoted, "dq") EXCEPT !.val_used = @ + 1],
                        pos, [quoted EXCEPT !.squoted = 0], pos + 1, pos + 1)
    <3>1. Good(Put(quoted, "dq")) /\ Good([quoted EXCEPT !.squoted = 0])
      BY <2>2, <2>4, PutGood, SetSquoted
    <3> QED
      BY <1>0, <2>1, <2>7, <3>1, FinishQuoted
  <2>8. CASE GrowFails(quoted, pos)
    BY <2>1, <2>4, <2>8, GrowFailsInv DEF Good
  <2> QED
    BY <1>1, <1>3, <2>5, <2>6, <2>7, <2>8
<1> QED
  BY <1>2, <1>3

LEMMA Case6Inv == ASSUME BufferInv, Case6 PROVE BufferInv'
<1>0. /\ pc = "loop"
      /\ Good(rg) /\ rg \in Regs /\ rg.hasval /\ t \in Nat /\ t + 1 \in Nat /\ Ch \in Char
  BY LoopFacts DEF Case6, Case
<1>1. Good([[rg EXCEPT !.val = << >>] EXCEPT !.state = 1])
  BY <1>0, Restart, SetState, States
<1> QED
  BY <1>0, <1>1, StepQuiet DEF Case6

LEMMA Case7Inv == ASSUME BufferInv, Case7 PROVE BufferInv'
<1>0. /\ pc = "loop"
      /\ Good(rg) /\ rg \in Regs /\ rg.hasval /\ t \in Nat /\ t + 1 \in Nat /\ Ch \in Char
  BY LoopFacts DEF Case7, Case
<1>1. "dq" \in Char
  BY DEF Char, Escapable
<1>2. CASE StoreCharAt([rg EXCEPT !.state = 5, !.val = << >>, !.squoted = 1], "dq",
                       t + 1, t + 1)
  <2>1. Good([[rg EXCEPT !.state = 5, !.val = << >>] EXCEPT !.squoted = 1])
    BY <1>0, RestartState, SetSquoted, States
  <2>2. Good([rg EXCEPT !.state = 5, !.val = << >>, !.squoted = 1])
    BY <2>1
  <2> QED
    BY <1>0, <1>1, <1>2, <2>2, StoreCharAtInv
<1>3. CASE Step([rg EXCEPT !.state = 8, !.val = << >>], t) /\ Quiet
  BY <1>0, <1>3, RestartState, States, StepQuiet
<1>4. CASE Step([rg EXCEPT !.state = 4, !.val = << >>, !.squoted = 1], t) /\ Quiet
  <2>1. Good([[rg EXCEPT !.state = 4, !.val = << >>] EXCEPT !.squoted = 1])
    BY <1>0, RestartState, SetSquoted, States
  <2>2. Good([rg EXCEPT !.state = 4, !.val = << >>, !.squoted = 1])
    BY <2>1
  <2> QED
    BY <1>0, <1>4, <2>2, StepQuiet
<1> QED
  BY <1>2, <1>3, <1>4 DEF Case7

LEMMA Case8Inv == ASSUME BufferInv, Case8 PROVE BufferInv'
<1>0. /\ pc = "loop"
      /\ Good(rg) /\ rg \in Regs /\ rg.hasval /\ t \in Nat /\ t + 1 \in Nat /\ Ch \in Char
  BY LoopFacts DEF Case8, Case
<1> DEFINE plain == rg.esc = 0
           closes == plain /\ Ch = "rp"
           qd == IF plain /\ Ch = "lp" THEN (rg.qdepth + 1) % UIntRange
                 ELSE IF closes THEN (rg.qdepth - 1) % UIntRange ELSE rg.qdepth
           st == IF plain /\ Ch = "dq" THEN 10 ELSE 8
           r == [rg EXCEPT !.esc = EscFlag(Ch), !.qdepth = qd, !.state = st]
<1>1. qd \in 0..(UIntRange - 1) /\ st \in 1..15
  <2>1. rg.qdepth \in 0..(UIntRange - 1)
    BY <1>0 DEF Regs
  <2>2. rg.qdepth + 1 \in Int /\ rg.qdepth - 1 \in Int
    BY <2>1, SizesAssumption
  <2>3. /\ (rg.qdepth + 1) % UIntRange \in 0..(UIntRange - 1)
        /\ (rg.qdepth - 1) % UIntRange \in 0..(UIntRange - 1)
    BY <2>2, SizesAssumption, Wraps
  <2> QED
    BY <2>1, <2>3
<1>2. \/ StoreChar(r, Ch, t + 1)
      \/ FinishAtom("SQUOTE", [Put(r, Ch) EXCEPT !.state = 1], t + 1, [r EXCEPT !.state = 1], t + 1, t + 1)
      \/ GrowFails(r, t)
  BY DEF Case8
<1> HIDE DEF qd, st
<1>3. Good(r)
  <2>1. Good([rg EXCEPT !.esc = EscFlag(Ch)])
    BY <1>0, SetEsc, EscFlagOK
  <2>2. Good([[rg EXCEPT !.esc = EscFlag(Ch)] EXCEPT !.qdepth = qd])
    BY <1>1, <2>1, SetQdepth
  <2>3. Good([[[rg EXCEPT !.esc = EscFlag(Ch)] EXCEPT !.qdepth = qd] EXCEPT !.state = st])
    BY <1>1, <2>2, SetState
  <2> QED
    BY <2>3
<1> HIDE DEF r
<1>4. CASE FinishAtom("SQUOTE", [Put(r, Ch) EXCEPT !.state = 1], t + 1, [r EXCEPT !.state = 1], t + 1, t + 1)
  <2>1. Good([Put(r, Ch) EXCEPT !.state = 1]) /\ Good([r EXCEPT !.state = 1])
    BY <1>0, <1>3, PutGood, SetState, States
  <2>2. /\ [Put(r, Ch) EXCEPT !.state = 1] \in Regs /\ [Put(r, Ch) EXCEPT !.state = 1].hasval
        /\ [r EXCEPT !.state = 1] \in Regs /\ [r EXCEPT !.state = 1].hasval
    BY <2>1 DEF Good, Bounded
  <2> QED
    BY <1>0, <1>4, <2>2, FinishAtomInv
<1> QED
  BY <1>0, <1>2, <1>3, <1>4, StoreCharInv, GrowFailsInv DEF Good

LEMMA Case10Inv == ASSUME BufferInv, Case10 PROVE BufferInv'
<1>0. /\ pc = "loop"
      /\ Good(rg) /\ rg \in Regs /\ rg.hasval /\ t \in Nat /\ t + 1 \in Nat /\ Ch \in Char
  BY LoopFacts DEF Case10, Case
<1> DEFINE st == IF Ch = "dq" /\ rg.esc = 0 THEN 8 ELSE 10
<1>1. st \in 1..15 /\ StoreChar([rg EXCEPT !.esc = EscFlag(Ch), !.state = st], Ch, t + 1)
  BY DEF Case10
<1> HIDE DEF st
<1>2. Good([[rg EXCEPT !.esc = EscFlag(Ch)] EXCEPT !.state = st])
  BY <1>0, <1>1, SetEsc, EscFlagOK, SetState
<1>3. Good([rg EXCEPT !.esc = EscFlag(Ch), !.state = st])
  BY <1>2
<1> QED
  BY <1>0, <1>1, <1>3, StoreCharInv

LEMMA Case11Inv == ASSUME BufferInv, Case11 PROVE BufferInv'
<1>0. /\ pc = "loop"
      /\ Good(rg) /\ rg \in Regs /\ rg.hasval /\ t \in Nat /\ t + 1 \in Nat /\ Ch \in Char
  BY LoopFacts DEF Case11, Case
<1> DEFINE st == IF Ch = "nl" THEN 1 ELSE 11
<1>1. st \in 1..15 /\ Step([rg EXCEPT !.state = st], t + 1) /\ Quiet
  BY DEF Case11
<1> HIDE DEF st
<1> QED
  BY <1>0, <1>1, SetState, StepQuiet

LEMMA Case12Inv == ASSUME BufferInv, Case12 PROVE BufferInv'
<1>0. /\ pc = "loop"
      /\ Good(rg) /\ rg \in Regs /\ rg.hasval /\ t \in Nat /\ t + 1 \in Nat /\ Ch \in Char
  BY LoopFacts DEF Case12, Case
<1>1. CASE StoreChar([rg EXCEPT !.esc = 0, !.state = 13], Ch, t + 1)
  <2>1. Good([[rg EXCEPT !.esc = 0] EXCEPT !.state = 13])
    BY <1>0, SetEsc, SetState, States
  <2>2. Good([rg EXCEPT !.esc = 0, !.state = 13])
    BY <2>1
  <2> QED
    BY <1>0, <1>1, <2>2, StoreCharInv
<1>2. CASE Step([rg EXCEPT !.state = 4], t) /\ Quiet
  BY <1>0, <1>2, SetState, States, StepQuiet
<1> QED
  BY <1>1, <1>2 DEF Case12

LEMMA Case13Inv == ASSUME BufferInv, Case13 PROVE BufferInv'
<1>0. /\ pc = "loop"
      /\ Good(rg) /\ rg \in Regs /\ rg.hasval /\ t \in Nat /\ t + 1 \in Nat /\ Ch \in Char
  BY LoopFacts DEF Case13, Case
<1> DEFINE r == [rg EXCEPT !.esc = 0]
<1>1. Good(r)
  BY <1>0, SetEsc
<1>2. \/ Step([Put(r, Ch) EXCEPT !.state = 14, !.val = << >>, !.val_used = 0], t + 1) /\ Quiet
      \/ GrowFails(r, t)
      \/ Step([rg EXCEPT !.state = 4], t) /\ Quiet
  BY DEF Case13
<1> HIDE DEF r
<1>3. CASE Step([Put(r, Ch) EXCEPT !.state = 14, !.val = << >>, !.val_used = 0], t + 1) /\ Quiet
  <2>1. Good([[Put(r, Ch) EXCEPT !.state = 14] EXCEPT !.val = << >>, !.val_used = 0])
    BY <1>0, <1>1, PutGood, SetState, States, Emptied
  <2>2. Good([Put(r, Ch) EXCEPT !.state = 14, !.val = << >>, !.val_used = 0])
    BY <2>1
  <2> QED
    BY <1>0, <1>3, <2>2, StepQuiet
<1>4. CASE GrowFails(r, t)
  BY <1>0, <1>1, <1>4, GrowFailsInv DEF Good
<1>5. CASE Step([rg EXCEPT !.state = 4], t) /\ Quiet
  BY <1>0, <1>5, SetState, States, StepQuiet
<1> QED
  BY <1>2, <1>3, <1>4, <1>5

LEMMA SetBinary ==
  ASSUME NEW r, Good(r), NEW n \in 1..15, NEW x \in Nat, NEW d \in Seq(Char), NEW h \in BOOLEAN
  PROVE  Good([r EXCEPT !.state = n, !.binexpected = x, !.bindata = d, !.hasbin = h])
  BY DEF Good, Regs, Bounded

LEMMA Case14Inv == ASSUME BufferInv, Case14 PROVE BufferInv'
<1>0. /\ pc = "loop"
      /\ Good(rg) /\ rg \in Regs /\ rg.hasval /\ t \in Nat /\ t + 1 \in Nat /\ Ch \in Char
  BY LoopFacts DEF Case14, Case
<1>1. CASE StoreChar([rg EXCEPT !.esc = EscFlag(Ch)], Ch, t + 1)
  BY <1>0, <1>1, SetEsc, EscFlagOK, StoreCharInv
<1>2. ASSUME NEW n \in Int, NEW r,
             r = [rg EXCEPT !.state = 15, !.binexpected = n % SizeRange, !.bindata = << >>],
             \/ Step(r, t + 1) /\ Quiet
             \/ /\ Step([r EXCEPT !.hasbin = TRUE], t + 1)
                /\ UNCHANGED <<elts, sx, stack, heap, live, events>>
             \/ Return("MEMORY", r, t + 1, NULL) /\ UNCHANGED <<tree, events>>
      PROVE  BufferInv'
  <2>1. n % SizeRange \in Nat
    <3>1. n % SizeRange \in 0..(SizeRange - 1)
      BY SizeAssumption, Wraps
    <3> QED
      BY <3>1, SizeAssumption
  <2> DEFINE x == n % SizeRange
             k(h) == [rg EXCEPT !.state = 15, !.binexpected = x, !.bindata = << >>, !.hasbin = h]
  <2>2. \A h \in BOOLEAN : Good(k(h))
    <3>1. x \in Nat /\ << >> \in Seq(Char) /\ 15 \in 1..15
      BY <2>1
    <3> HIDE DEF x
    <3> QED
      BY <1>0, <3>1, SetBinary
  <2>3. rg.hasbin \in BOOLEAN /\ r = k(rg.hasbin) /\ [r EXCEPT !.hasbin = TRUE] = k(TRUE)
    BY <1>0, <1>2 DEF Regs
  <2>4. Good(r) /\ Good([r EXCEPT !.hasbin = TRUE])
    BY <2>2, <2>3
  <2>5. CASE Step(r, t + 1) /\ Quiet
    BY <1>0, <2>4, <2>5, StepQuiet
  <2>6. CASE /\ Step([r EXCEPT !.hasbin = TRUE], t + 1)
             /\ UNCHANGED <<elts, sx, stack, heap, live, events>>
    <3>1. ControlInv'
      BY <1>0, <2>4, <2>6, StepControl DEF BufferInv
    <3> QED
      BY <2>6, <3>1 DEF BufferInv, TreeOK
  <2>7. CASE Return("MEMORY", r, t + 1, NULL) /\ UNCHANGED <<tree, events>>
    BY <1>0, <2>4, <2>7, ReturnQuiet, HardErr DEF Hard, Good
  <2> QED
    BY <1>2, <2>5, <2>6, <2>7
<1> QED
  BY <1>1, <1>2 DEF Case14

LEMMA Case15Inv == ASSUME BufferInv, Case15 PROVE BufferInv'
<1>0. /\ pc = "loop"
      /\ Good(rg) /\ rg \in Regs /\ rg.hasval /\ t \in Nat /\ t + 1 \in Nat /\ Ch \in Char
  BY LoopFacts DEF Case15, Case
<1> DEFINE more == Len(rg.bindata) < rg.binexpected
           r == IF more THEN [rg EXCEPT !.bindata = Append(@, Ch)] ELSE rg
           pos == IF more THEN t + 1 ELSE t
           k == [r EXCEPT !.bindata = << >>, !.binexpected = 0, !.hasbin = FALSE, !.state = 1,
                          !.val = << >>, !.val_used = 0]
<1>1. \/ Step(r, pos) /\ Quiet
      \/ Return("MEMORY", r, pos, NULL) /\ UNCHANGED <<tree, events>>
      \/ /\ Room
         /\ live' = live \cup {NewElem}
         /\ heap' = HeapWith(NewElem, Node("VALUE", "BINARY", r.bindata, 0, 0))
         /\ stack' = StackWith(NewElem)
         /\ Step(k, pos)
         /\ elts' = elts + 1 /\ sx' = NewElem
  BY DEF Case15
<1>2. pos \in Nat
  BY <1>0
<1>3. Good(r)
  <2> DEFINE d == Append(rg.bindata, Ch)
  <2>1. d \in Seq(Char)
    BY <1>0 DEF Regs
  <2> HIDE DEF d
  <2>2. Good([rg EXCEPT !.bindata = d])
    BY <1>0, <2>1 DEF Good, Regs, Bounded
  <2> QED
    BY <1>0, <2>2 DEF d
<1> HIDE DEF r, pos
<1>4. Good(k)
  <2> DEFINE e == << >>
             b == [r EXCEPT !.state = 1, !.binexpected = 0, !.bindata = e, !.hasbin = FALSE]
  <2>1. Good(b)
    <3>1. e \in Seq(Char) /\ 1 \in 1..15 /\ 0 \in Nat
      OBVIOUS
    <3> HIDE DEF e
    <3> QED
      BY <1>3, <3>1, SetBinary
  <2>2. k = [b EXCEPT !.val = << >>, !.val_used = 0]
    BY <1>3 DEF Good, Regs
  <2> HIDE DEF b, k
  <2> QED
    BY <2>1, <2>2, Emptied
<1> HIDE DEF k
<1>5. CASE Step(r, pos) /\ Quiet
  BY <1>0, <1>2, <1>3, <1>5, StepQuiet
<1>6. CASE Return("MEMORY", r, pos, NULL) /\ UNCHANGED <<tree, events>>
  BY <1>2, <1>3, <1>6, ReturnQuiet, HardErr DEF Hard, Good
<1>7. CASE /\ Room
           /\ live' = live \cup {NewElem}
           /\ heap' = HeapWith(NewElem, Node("VALUE", "BINARY", r.bindata, 0, 0))
           /\ stack' = StackWith(NewElem)
           /\ Step(k, pos)
           /\ elts' = elts + 1 /\ sx' = NewElem
  <2>1. NewElem \in Elem
    BY <1>7, NewElemOK DEF BufferInv, TreeOK
  <2>2. Node("VALUE", "BINARY", r.bindata, 0, 0) \in Nodes
    BY <1>3 DEF Good, Node, Nodes, Regs, Ptr
  <2>3. live' \subseteq Elem /\ heap' \in [Elem -> Nodes] /\ stack' \in Seq(Levels)
    BY <1>7, <2>1, <2>2, HeapWithOK, StackWithOK DEF BufferInv, TreeOK
  <2>4. ControlInv'
    BY <1>0, <1>2, <1>4, <1>7, StepControl DEF BufferInv
  <2> QED
    BY <1>7, <2>1, <2>3, <2>4 DEF BufferInv, TreeOK, Ptr
<1> QED
  BY <1>1, <1>5, <1>6, <1>7

LEMMA PushedOK ==
  ASSUME NEW s \in Seq(Levels), NEW a \in Ptr, NEW f
  PROVE  Pushed(s, [fst |-> a, lst |-> a], f) \in Seq(Levels)
<1> DEFINE l == [fst |-> a, lst |-> a]
<1>1. l \in Levels
  BY DEF Levels
<1> HIDE DEF l
<1>2. Append(s, l) \in Seq(Levels)
  BY <1>1
<1>3. Pushed(s, l, f) \in Seq(Levels)
  BY <1>2 DEF Pushed
<1> QED
  BY <1>3 DEF l

LEMMA Case2Inv == ASSUME BufferInv, Case2 PROVE BufferInv'
<1>0. /\ pc = "loop"
      /\ Good(rg) /\ rg \in Regs /\ rg.hasval /\ t \in Nat /\ t + 1 \in Nat /\ Ch \in Char
  BY LoopFacts DEF Case2, Case
<1> DEFINE d == rg.depth + 1
           r == [rg EXCEPT !.depth = d]
<1>1. Good(r)
  <2>1. d \in Nat
    BY <1>0 DEF Regs
  <2> HIDE DEF d
  <2> QED
    BY <1>0, <2>1, SetDepth
<1>2. CASE Return("MEMORY", r, t, NULL) /\ UNCHANGED tree
  BY <1>0, <1>1, <1>2, ReturnQuiet, HardErr DEF Hard, Good
<1>3. ASSUME Room, NEW failed, NEW s1,
             s1 = IF stack = << >>
                  THEN Pushed(stack, [fst |-> NewElem, lst |-> NewElem], 1 \in failed)
                  ELSE StackWith(NewElem),
             live' = live \cup {NewElem}, heap' = HeapWith(NewElem, FreeNode),
             \/ Return("MEMORY", r, t, NULL) /\ stack' = s1
             \/ /\ stack' = Pushed(s1, [fst |-> NULL, lst |-> NULL], 2 \in failed)
                /\ Step([r EXCEPT !.state = 1], t)
                /\ elts' = elts + 1 /\ sx' = NewElem
      PROVE  BufferInv'
  <2>1. NewElem \in Elem /\ NewElem \in Ptr /\ NULL \in Ptr
    BY <1>3, NewElemOK DEF BufferInv, TreeOK, Ptr
  <2>2. FreeNode \in Nodes
    BY DEF FreeNode, Node, Nodes, Ptr
  <2>3. live' \subseteq Elem /\ heap' \in [Elem -> Nodes]
    BY <1>3, <2>1, <2>2, HeapWithOK DEF BufferInv, TreeOK
  <2>4. stack \in Seq(Levels)
    BY DEF BufferInv, TreeOK
  <2>5. s1 \in Seq(Levels)
    BY <1>3, <2>1, <2>4, PushedOK, StackWithOK DEF BufferInv
  <2>6. CASE Return("MEMORY", r, t, NULL) /\ stack' = s1
    <3>1. ControlInv' /\ elts' \in Nat /\ sx' \in Ptr
      BY <1>0, <1>1, <2>1, <2>6, ReturnControl, HardErr DEF Hard, Good, BufferInv
    <3> QED
      BY <2>3, <2>5, <2>6, <3>1 DEF BufferInv, TreeOK
  <2>7. CASE /\ stack' = Pushed(s1, [fst |-> NULL, lst |-> NULL], 2 \in failed)
             /\ Step([r EXCEPT !.state = 1], t)
             /\ elts' = elts + 1 /\ sx' = NewElem
    <3>1. stack' \in Seq(Levels)
      BY <2>1, <2>5, <2>7, PushedOK
    <3> HIDE DEF r
    <3>2. Good([r EXCEPT !.state = 1])
      BY <1>1, SetState, States
    <3>3. ControlInv'
      BY <1>0, <2>7, <3>2, StepControl DEF BufferInv
    <3> QED
      BY <2>1, <2>3, <2>7, <3>1, <3>3 DEF BufferInv, TreeOK
  <2> QED
    BY <1>3, <2>6, <2>7
<1> QED
  BY <1>2, <1>3 DEF Case2

LEMMA Case3Inv == ASSUME BufferInv, Case3 PROVE BufferInv'
<1>0. /\ pc = "loop"
      /\ Good(rg) /\ rg \in Regs /\ rg.hasval /\ t \in Nat /\ t + 1 \in Nat /\ Ch \in Char
  BY LoopFacts DEF Case3, Case
<1>1. CASE rg.depth = 0
  <2>1. /\ Return("BADFORM", [rg EXCEPT !.esc = 0, !.state = 1], t, NULL)
        /\ UNCHANGED <<tree, events>>
    BY <1>1 DEF Case3
  <2>2. Good([rg EXCEPT !.esc = 0, !.state = 1]) /\ "BADFORM" \in ErrCode
    BY <1>0, ResetGood DEF ErrCode
  <2> QED
    BY <1>0, <2>1, <2>2, ReturnQuiet DEF Good
<1>2. CASE rg.depth # 0 /\ stack = << >>
  BY <1>2, UndefinedControl DEF Case3
<1>3. CASE rg.depth # 0 /\ stack # << >>
  <2> DEFINE below == SubSeq(stack, 1, Len(stack) - 1)
             d == rg.depth - 1
             r == [rg EXCEPT !.depth = d]
             x == below[Len(below)].lst
  <2>1. /\ live' = live
        /\ \/ /\ Return("BAD_STACK", r, t + 1, NULL)
              /\ stack' = below /\ UNCHANGED heap
           \/ /\ heap' = [heap EXCEPT ![x].list = Top.fst]
              /\ \/ /\ Return("OK", [r EXCEPT !.esc = 0, !.state = 1], t + 1, stack[1].fst)
                    /\ stack' = << >>
                 \/ /\ Step([r EXCEPT !.state = 1], t + 1)
                    /\ stack' = below /\ sx' = Top.fst /\ elts' = elts
    BY <1>3 DEF Case3, tree
  <2>2. Good(r)
    <3>1. d \in Nat
      BY <1>0, <1>3 DEF Regs
    <3> HIDE DEF d
    <3> QED
      BY <1>0, <3>1, SetDepth
  <2> HIDE DEF r
  <2>3. /\ stack \in Seq(Levels) /\ Len(stack) \in Nat /\ Len(stack) > 0
        /\ stack[1] \in Levels /\ Top \in Levels
    BY <1>3 DEF BufferInv, TreeOK, Top
  <2>4. stack[1].fst \in Ptr /\ Top.fst \in Ptr
    BY <2>3 DEF Levels
  <2>5. below \in Seq(Levels)
    <3>1. PICK n \in Nat : n = Len(stack) - 1
      BY <2>3
    <3>2. SubSeq(stack, 1, n) \in Seq(Levels)
      BY <2>3, <3>1
    <3> QED
      BY <3>1, <3>2
  <2> HIDE DEF below, x
  <2>6. CASE Return("BAD_STACK", r, t + 1, NULL) /\ stack' = below /\ UNCHANGED heap
    <3>1. "BAD_STACK" \in Hard /\ "BAD_STACK" \in ErrCode /\ NULL \in Ptr /\ r \in Regs
      BY <2>2, HardErr DEF Hard, Ptr, Good
    <3>2. ControlInv' /\ elts' \in Nat /\ sx' \in Ptr
      BY <1>0, <2>6, <3>1, ReturnControl DEF BufferInv
    <3> QED
      BY <2>1, <2>5, <2>6, <3>2 DEF BufferInv, TreeOK
  <2>7. ASSUME heap' = [heap EXCEPT ![x].list = Top.fst] PROVE heap' \in [Elem -> Nodes]
    <3>1. heap \in [Elem -> Nodes]
      BY DEF BufferInv, TreeOK
    <3>2. ASSUME x \in Elem PROVE [heap[x] EXCEPT !.list = Top.fst] \in Nodes
      BY <2>4, <3>1, <3>2 DEF Nodes
    <3> QED
      BY <2>7, <3>1, <3>2
  <2>8. CASE /\ heap' = [heap EXCEPT ![x].list = Top.fst]
             /\ Return("OK", [r EXCEPT !.esc = 0, !.state = 1], t + 1, stack[1].fst)
             /\ stack' = << >>
    <3>1. Good([r EXCEPT !.esc = 0, !.state = 1]) /\ "OK" \in ErrCode
      BY <2>2, ResetGood DEF ErrCode
    <3>2. ControlInv' /\ elts' \in Nat /\ sx' \in Ptr
      BY <1>0, <2>4, <2>8, <3>1, ReturnControl DEF BufferInv, Good
    <3>3. stack' \in Seq(Levels)
      BY <2>8
    <3> QED
      BY <2>1, <2>7, <2>8, <3>2, <3>3 DEF BufferInv, TreeOK
  <2>9. CASE /\ heap' = [heap EXCEPT ![x].list = Top.fst]
             /\ Step([r EXCEPT !.state = 1], t + 1)
             /\ stack' = below /\ sx' = Top.fst /\ elts' = elts
    <3>1. ControlInv'
      BY <1>0, <2>2, <2>9, SetState, States, StepControl DEF BufferInv
    <3> QED
      BY <2>1, <2>4, <2>5, <2>7, <2>9, <3>1 DEF BufferInv, TreeOK
  <2> QED
    BY <2>1, <2>6, <2>8, <2>9
<1> QED
  BY <1>1, <1>2, <1>3

LEMMA LoopExitInv == ASSUME BufferInv, LoopExit PROVE BufferInv'
<1>0. pc = "loop" /\ Good(rg) /\ t \in Nat /\ UNCHANGED <<heap, live>>
  BY LoopFacts DEF LoopExit
<1>1. CASE Finished
  <2> DEFINE r == [rg EXCEPT !.esc = 0, !.state = 1]
             ls == IF stack = << >> THEN sx ELSE stack[1].fst
  <2>1. Return("OK", r, t, ls) /\ stack' = << >>
    BY <1>1 DEF LoopExit
  <2>2. ls \in Ptr /\ "OK" \in ErrCode
    <3>1. stack \in Seq(Levels) /\ sx \in Ptr
      BY DEF BufferInv, TreeOK
    <3>2. ASSUME stack # << >> PROVE stack[1].fst \in Ptr
      <4>1. stack[1] \in Levels
        BY <3>1, <3>2
      <4> QED
        BY <4>1 DEF Levels
    <3> QED
      BY <3>1, <3>2 DEF ErrCode
  <2>3. Good(r)
    BY <1>0, ResetGood
  <2> HIDE DEF r, ls
  <2>4. ControlInv' /\ elts' \in Nat /\ sx' \in Ptr
    BY <1>0, <2>1, <2>2, <2>3, ReturnControl DEF BufferInv, Good
  <2>5. stack' \in Seq(Levels)
    BY <2>1
  <2> QED
    BY <1>0, <2>4, <2>5 DEF BufferInv, TreeOK
<1>2. CASE ~Finished
  <2> DEFINE p == IF Ch = "nul" \/ t = bufEnd THEN 0 ELSE t
  <2>1. Return("INCOMPLETE", rg, p, NULL) /\ UNCHANGED <<stack, blocks>>
    BY <1>2 DEF LoopExit
  <2>2. p \in Nat /\ "INCOMPLETE" \in ErrCode
    BY <1>0 DEF ErrCode
  <2> HIDE DEF p
  <2> QED
    BY <1>0, <2>1, <2>2, ReturnQuiet DEF Good, tree
<1> QED
  BY <1>1, <1>2

LEMMA StepInv == ASSUME BufferInv, ParserStep PROVE BufferInv'
<1>1. CASE WalkOff
  BY <1>1, UndefinedControl DEF WalkOff
<1> QED
  BY <1>1, Case1Inv, Case2Inv, Case3Inv, Case4Inv, Case5Inv, Case6Inv, Case7Inv, Case8Inv,
     Case10Inv, Case11Inv, Case12Inv, Case13Inv, Case14Inv, Case15Inv, LoopExitInv
  DEF ParserStep
-----------------------------------------------------------------------------
(* The caller. *)
LEMMA NewContinuationInv == ASSUME BufferInv, NewContinuation PROVE BufferInv'
<1>1. TreeOK'
  BY DEF BufferInv, TreeOK, NewContinuation
<1>2. ControlOK' /\ Fresh'
  BY DEF BufferInv, ControlInv, ControlOK, NewContinuation, Fresh, ErrCode
<1>3. AtomBufferInBounds'
  BY InitRegsGood
  DEF BufferInv, ControlInv, NewContinuation, Fresh, AtomBufferInBounds, Sound, Here, Good
<1> QED
  BY <1>1, <1>2, <1>3 DEF BufferInv, ControlInv

LEMMA CallInv == ASSUME BufferInv, Call PROVE BufferInv'
<1>1. TreeOK'
  BY DEF BufferInv, TreeOK, Call, tree, Ptr
<1>2. /\ cc.regs \in Regs /\ cc.lastPos \in Nat /\ text \in Texts
      /\ bufEnd \in 1..(Len(text) + 1) /\ Len(text) \in Nat
  BY TextsAssumption DEF BufferInv, ControlInv, ControlOK
<1>3. bufEnd' \in 1..(Len(text) + 1) /\ t' \in Nat
  BY <1>2, CutsAssumption DEF Call
<1>4. ControlOK' /\ Fresh'
  BY <1>2, <1>3 DEF BufferInv, ControlInv, ControlOK, Call, Fresh
<1>5. AtomBufferInBounds'
  BY DEF BufferInv, ControlInv, Call, Resumable, AtomBufferInBounds, Sound, Here
<1> QED
  BY <1>1, <1>4, <1>5 DEF BufferInv, ControlInv

LEMMA CallNullInv == ASSUME BufferInv, CallNull PROVE BufferInv'
<1>1. TreeOK'
  BY DEF BufferInv, TreeOK, CallNull, tree
<1>2. ControlOK' /\ Fresh'
  BY DEF BufferInv, ControlInv, ControlOK, CallNull, Fresh, ErrCode, Ptr
<1>3. AtomBufferInBounds'
  BY DEF BufferInv, ControlInv, ControlOK, CallNull, Resumable, AtomBufferInBounds, Sound, Here
<1> QED
  BY <1>1, <1>2, <1>3 DEF BufferInv, ControlInv

LEMMA DestroyedOK ==
  ASSUME TreeOK, NEW S, Destroyed(S) PROVE live' \subseteq Elem /\ heap' \in [Elem -> Nodes]
<1>1. FreeNode \in Nodes
  BY DEF FreeNode, Node, Nodes, Ptr
<1> QED
  BY <1>1 DEF Destroyed, TreeOK

LEMMA TakeInv == ASSUME BufferInv, Take PROVE BufferInv'
<1>1. live' \subseteq Elem /\ heap' \in [Elem -> Nodes]
  BY DestroyedOK DEF Take, BufferInv
<1>2. TreeOK'
  BY <1>1 DEF BufferInv, TreeOK, Take
<1>3. ControlOK' /\ Fresh'
  BY DEF BufferInv, ControlInv, ControlOK, Take, Fresh, Ptr
<1>4. AtomBufferInBounds'
  BY DEF BufferInv, ControlInv, ControlOK, Take, AtomBufferInBounds, Sound, Here
<1> QED
  BY <1>2, <1>3, <1>4 DEF BufferInv, ControlInv

LEMMA DestroyContinuationInv == ASSUME BufferInv, DestroyContinuation PROVE BufferInv'
<1>1. live' \subseteq Elem /\ heap' \in [Elem -> Nodes]
  BY DestroyedOK DEF DestroyContinuation, BufferInv
<1>2. TreeOK'
  BY <1>1 DEF BufferInv, TreeOK, DestroyContinuation
<1>3. ControlOK' /\ Fresh' /\ AtomBufferInBounds'
  BY DEF BufferInv, ControlInv, ControlOK, DestroyContinuation, Fresh, AtomBufferInBounds, Sound
<1> QED
  BY <1>2, <1>3 DEF BufferInv, ControlInv

LEMMA InitBuffer == ASSUME Init PROVE BufferInv
<1>1. InitRegs \in Regs /\ FreeNode \in Nodes
  BY InitRegsGood DEF Good, FreeNode, Node, Nodes, Ptr
<1>2. Len(text) \in Nat
  BY TextsAssumption DEF Init
<1>3. ControlOK
  BY <1>1, <1>2 DEF Init, ControlOK, Ptr, ErrCode
<1>4. TreeOK
  BY <1>1 DEF Init, TreeOK, Ptr
<1> QED
  BY <1>3, <1>4 DEF BufferInv, ControlInv, Fresh, AtomBufferInBounds, Sound, Init

LEMMA StutterBuffer == ASSUME BufferInv, UNCHANGED vars PROVE BufferInv'
  BY DEF BufferInv, ControlInv, ControlOK, TreeOK, Fresh, AtomBufferInBounds, Sound, Here, vars, tree

LEMMA NextBuffer == BufferInv /\ [Next]_vars => BufferInv'
  BY StepInv, NewContinuationInv, CallInv, CallNullInv, TakeInv, DestroyContinuationInv,
     StutterBuffer
  DEF Next, Halted

(* The inductive invariant holds in every behaviour of the parser and its   *)
(* caller (cparse_sexp, init_continuation, iparse_sexp,                     *)
(* destroy_continuation).                                                   *)
THEOREM ParserBufferInv == Spec => []BufferInv
  BY InitBuffer, NextBuffer, PTL DEF Spec

(* Every field of the continuation and every local of cparse_sexp keeps its *)
(* type, so the switch of cparse_sexp never meets a state it has no case    *)
(* for, whatever the text, its chunks and the allocations that fail.        *)
THEOREM ParserTypeOK == Spec => []TypeOK
<1>1. BufferInv => TypeOK
  BY DEF BufferInv, ControlInv, TypeOK
<1> QED
  BY <1>1, ParserBufferInv, PTL

(* cparse_sexp never writes past the atom buffer: for every start and grow  *)
(* size set with set_parser_buffer_params that is not zero, every text and  *)
(* every way to cut it, the place of the next character lies inside val.    *)
THEOREM ParserAtomBufferInBounds == Spec => []AtomBufferInBounds
<1>1. BufferInv => AtomBufferInBounds
  BY DEF BufferInv, ControlInv
<1> QED
  BY <1>1, ParserBufferInv, PTL
-----------------------------------------------------------------------------
(* The steps of the loop, sorted into the few things they do to the tree:   *)
(* invariants about the tree are proved of these.                           *)

(* Registers in NORMAL mode: no binary data, and between atoms the buffer   *)
(* is the one init_continuation or the last atom left.                      *)
BetweenAtoms == {1, 2, 3, 6, 7, 11}
Clean(r) == r.state \notin 12..15 /\ ~r.hasbin
Plain(r) ==
  /\ Clean(r)
  /\ r.state \in BetweenAtoms => r.val_used = 0 /\ r.val_allocated = StartSize
Ordinary == Mode = "NORMAL" /\ Plain(rg)

(* The first character of an atom does not make the buffer grow, or the     *)
(* growth cannot fail: case 1 loses the buffer when it does.                *)
FirstFits == ~May("grow") \/ StartSize > 1

Alike(r) == r \in Regs /\ r.hasval /\ r.depth = rg.depth /\ (Ordinary => Clean(r))
Kept(r) == Good(r) /\ r.depth = rg.depth /\ (Ordinary => Plain(r))

(* The loop goes on with the tree as it was; a call returns without an      *)
(* expression; an atom is made; something is undefined.                     *)
SameTree == UNCHANGED <<stack, heap, live>>
GoesOn ==
  \E r, p :
    /\ Kept(r) /\ p \in Nat /\ Step(r, p)
    /\ SameTree /\ UNCHANGED <<elts, sx>> /\ (Ordinary => blocks' = blocks)
Stops ==
  \E err, r, p :
    /\ r \in Regs /\ p \in Nat /\ Return(err, r, p, NULL) /\ SameTree
    /\ \/ err \in {"BADFORM", "INCOMPLETE"} /\ Kept(r)
       \/ err = "MEMORY"
    /\ Ordinary /\ FirstFits =>
         ~r.hasbin /\ blocks' = (IF r.hasval THEN blocks ELSE blocks - 1)
MakesAtom ==
  \E r, p, node :
    /\ Kept(r) /\ p \in Nat
    /\ node \in Nodes /\ node.ty = "VALUE" /\ node.list = NULL /\ node.next = NULL
    /\ Room /\ live' = live \cup {NewElem}
    /\ heap' = HeapWith(NewElem, node) /\ stack' = StackWith(NewElem)
    /\ Ordinary => node.aty # "BINARY" /\ blocks' = blocks + 1
    /\ \/ stack # << >> /\ Step(r, p) /\ elts' = elts + 1 /\ sx' = NewElem
       \/ stack = << >> /\ Return("OK", r, p, NewElem)
       \/ stack = << >> /\ ~Ordinary /\ Step(r, p) /\ elts' = elts + 1 /\ sx' = NewElem
Kind == GoesOn \/ Stops \/ MakesAtom \/ Undefined
-----------------------------------------------------------------------------
(* What the operations on the registers leave alone. *)
LEMMA PutKeeps ==
  ASSUME NEW r \in Regs, NEW c
  PROVE  /\ Put(r, c).state = r.state /\ Put(r, c).depth = r.depth
         /\ Put(r, c).hasbin = r.hasbin /\ Put(r, c).hasval = r.hasval
  BY DEF Put, Regs

LEMMA UnescapeKeeps ==
  ASSUME NEW r \in Regs, NEW c
  PROVE  /\ Unescape(r, c).state = r.state /\ Unescape(r, c).depth = r.depth
         /\ Unescape(r, c).hasbin = r.hasbin /\ Unescape(r, c).hasval = r.hasval
         /\ Unescape(r, c).val_used = r.val_used
         /\ Unescape(r, c).val_allocated = r.val_allocated
  BY DEF Unescape, Regs

LEMMA NewValKeeps ==
  ASSUME NEW r \in Regs
  PROVE  /\ NewVal(r).state = r.state /\ NewVal(r).depth = r.depth
         /\ NewVal(r).hasbin = r.hasbin /\ NewVal(r).hasval = r.hasval
         /\ NewVal(r).val_used = 0 /\ NewVal(r).val_allocated = StartSize
  BY DEF NewVal, Regs

LEMMA KeptAlike == ASSUME NEW r, Kept(r) PROVE Alike(r)
  BY DEF Kept, Alike, Good, Bounded, Plain

LEMMA LoopKept == ASSUME BufferInv, pc = "loop" PROVE Kept(rg) /\ Alike(rg)
<1>1. Kept(rg)
  BY LoopFacts DEF Kept, Ordinary
<1> QED
  BY <1>1, KeptAlike
-----------------------------------------------------------------------------
(* The kinds of step, one operation at a time. *)
LEMMA QuietKind ==
  ASSUME NEW r, Kept(r), NEW pos \in Nat, Step(r, pos), Quiet PROVE Kind
  BY DEF Kind, GoesOn, SameTree, Quiet, tree

LEMMA MemoryKind ==
  ASSUME NEW r \in Regs, NEW pos \in Nat, Return("MEMORY", r, pos, NULL), UNCHANGED tree,
         Ordinary /\ FirstFits => r.hasval /\ ~r.hasbin
  PROVE  Kind
  BY DEF Kind, Stops, SameTree, tree

LEMMA GrowFailsKind ==
  ASSUME NEW r, Alike(r), NEW pos \in Nat, GrowFails(r, pos) PROVE Kind
<1> DEFINE k == [r EXCEPT !.val_used = @ + 1]
<1>1. k \in Regs /\ (Ordinary => k.hasval /\ ~k.hasbin)
  BY CountUp DEF Alike, Clean, Regs
<1>2. Return("MEMORY", k, pos, NULL) /\ UNCHANGED tree
  BY DEF GrowFails
<1> HIDE DEF k
<1> QED
  BY <1>1, <1>2, MemoryKind

LEMMA StoreCharAtKind ==
  ASSUME NEW r, Good(r), Alike(r), r.state \notin BetweenAtoms, NEW c \in Char,
         NEW pos \in Nat, NEW tFail \in Nat, StoreCharAt(r, c, pos, tFail)
  PROVE  Kind
<1>1. CASE Step(Put(r, c), pos) /\ Quiet
  <2>1. Kept(Put(r, c))
    BY PutGood, PutKeeps DEF Kept, Alike, Plain, Clean
  <2> QED
    BY <1>1, <2>1, QuietKind
<1>2. CASE GrowFails(r, tFail)
  BY <1>2, GrowFailsKind
<1> QED
  BY <1>1, <1>2 DEF StoreCharAt, Quiet

LEMMA FinishAtomKind ==
  ASSUME BufferInv, pc = "loop", NEW aty \in {"BASIC", "SQUOTE", "DQUOTE"},
         NEW r, Alike(r), NEW q, Alike(q),
         NEW pos \in Nat, NEW tIn \in Nat, NEW tTop \in Nat,
         FinishAtom(aty, r, pos, q, tIn, tTop)
  PROVE  Kind
<1>0. r \in Regs /\ r.hasval /\ q \in Regs /\ q.hasval
  BY DEF Alike
<1>1. CASE Return("MEMORY", r, pos, NULL) /\ UNCHANGED <<tree, events>>
  BY <1>0, <1>1, MemoryKind DEF Alike, Clean
<1>2. CASE /\ Return("MEMORY", [r EXCEPT !.hasval = FALSE], pos, NULL)
           /\ blocks' = blocks - 1 /\ UNCHANGED <<stack, heap, live>>
  <2> DEFINE k == [r EXCEPT !.hasval = FALSE]
  <2>1. k \in Regs /\ ~k.hasval /\ (Ordinary => ~k.hasbin)
    BY DEF Regs, Alike, Clean
  <2>2. Return("MEMORY", k, pos, NULL)
    BY <1>2
  <2> HIDE DEF k
  <2> QED
    BY <1>2, <2>1, <2>2 DEF Kind, Stops, SameTree
<1>3. CASE /\ Room /\ live' = live \cup {NewElem} /\ blocks' = blocks + 1
           /\ heap' = HeapWith(NewElem, Node("VALUE", aty, r.val, r.val_used, r.val_allocated))
           /\ stack' = StackWith(NewElem)
           /\ IF stack # << >>
              THEN Step(NewVal(q), tIn) /\ elts' = elts + 1 /\ sx' = NewElem
              ELSE Return("OK", [NewVal(r) EXCEPT !.squoted = 0, !.esc = 0,
                                                  !.state = 1], tTop, NewElem)
  <2> DEFINE node == Node("VALUE", aty, r.val, r.val_used, r.val_allocated)
             k == [NewVal(r) EXCEPT !.squoted = 0, !.esc = 0, !.state = 1]
  <2>1. /\ node \in Nodes /\ node.ty = "VALUE" /\ node.list = NULL /\ node.next = NULL
        /\ node.aty # "BINARY"
    BY <1>0 DEF Node, Nodes, Regs, Ptr
  <2>2. Kept(NewVal(q))
    BY <1>0, NewValGood, NewValKeeps DEF Kept, Alike, Plain, Clean
  <2>3. Kept(k)
    <3>1. Good(NewVal(r)) /\ NewVal(r) \in Regs
      BY <1>0, NewValGood DEF Good
    <3>2. Good([NewVal(r) EXCEPT !.squoted = 0])
      BY <3>1, SetSquoted
    <3>3. Good([[NewVal(r) EXCEPT !.squoted = 0] EXCEPT !.esc = 0])
      BY <3>2, SetEsc
    <3>4. Good([[[NewVal(r) EXCEPT !.squoted = 0] EXCEPT !.esc = 0] EXCEPT !.state = 1])
      BY <3>3, SetState, States
    <3>5. Good(k)
      BY <3>4
    <3>6. /\ k.state = 1 /\ k.depth = NewVal(r).depth /\ k.hasbin = NewVal(r).hasbin
          /\ k.val_used = NewVal(r).val_used /\ k.val_allocated = NewVal(r).val_allocated
      BY <3>1 DEF Regs
    <3> HIDE DEF k
    <3> QED
      BY <1>0, <3>5, <3>6, NewValKeeps DEF Kept, Alike, Plain, Clean
  <2>4. heap' = HeapWith(NewElem, node)
    BY <1>3
  <2>5. \/ stack # << >> /\ Step(NewVal(q), tIn) /\ elts' = elts + 1 /\ sx' = NewElem
        \/ stack = << >> /\ Return("OK", k, tTop, NewElem)
    BY <1>3
  <2> HIDE DEF node, k
  <2> QED
    BY <1>3, <2>1, <2>2, <2>3, <2>4, <2>5 DEF Kind, MakesAtom
<1> QED
  BY <1>1, <1>2, <1>3 DEF FinishAtom
-----------------------------------------------------------------------------
(* The kinds of step, one case of the switch at a time. *)
LEMMA Moved ==
  ASSUME NEW r, Good(r), r.depth = rg.depth, r.hasbin = rg.hasbin, r.state \notin 12..15,
         r.state \in BetweenAtoms =>
           /\ rg.state \in BetweenAtoms
           /\ r.val_used = rg.val_used /\ r.val_allocated = rg.val_allocated
  PROVE  Kept(r) /\ Alike(r)
<1>1. Kept(r)
  BY DEF Kept, Ordinary, Plain, Clean
<1> QED
  BY <1>1, KeptAlike

LEMMA Binary ==
  ASSUME NEW r, Good(r), r.depth = rg.depth, rg.state \in 12..15
  PROVE  Kept(r) /\ Alike(r) /\ ~Ordinary
<1>1. Kept(r) /\ ~Ordinary
  BY DEF Kept, Ordinary, Plain, Clean
<1> QED
  BY <1>1, KeptAlike

LEMMA MovedState ==
  ASSUME BufferInv, pc = "loop", rg.state \in BetweenAtoms, NEW n \in (1..15) \ (12..15)
  PROVE  Kept([rg EXCEPT !.state = n])
<1> DEFINE r == [rg EXCEPT !.state = n]
<1>1. Good(r) /\ rg \in Regs
  BY LoopFacts, SetState
<1>2. /\ r.depth = rg.depth /\ r.hasbin = rg.hasbin /\ r.state = n
      /\ r.val_used = rg.val_used /\ r.val_allocated = rg.val_allocated
  BY <1>1 DEF Regs
<1> HIDE DEF r
<1>3. Kept(r)
  BY <1>1, <1>2, Moved
<1> QED
  BY <1>3 DEF r

LEMMA Case1Kind == ASSUME BufferInv, Case1 PROVE Kind
<1>0. /\ pc = "loop" /\ rg.state = 1
      /\ Good(rg) /\ rg \in Regs /\ rg.hasval /\ t \in Nat /\ t + 1 \in Nat /\ Ch \in Char
  BY LoopFacts DEF Case1, Case
<1>1. /\ Kept(rg) /\ Kept([rg EXCEPT !.state = 11]) /\ Kept([rg EXCEPT !.state = 2])
      /\ Kept([rg EXCEPT !.state = 3]) /\ Kept([rg EXCEPT !.state = 7])
  BY <1>0, MovedState, LoopKept DEF BetweenAtoms
<1>2. CASE Step(rg, t + 1) /\ Quiet
  BY <1>0, <1>1, <1>2, QuietKind
<1>3. CASE Step([rg EXCEPT !.state = 11], t + 1) /\ Quiet
  BY <1>0, <1>1, <1>3, QuietKind
<1>4. CASE Step([rg EXCEPT !.state = 2], t + 1) /\ UNCHANGED <<elts, sx, tree>>
  BY <1>0, <1>1, <1>4 DEF Kind, GoesOn, SameTree, tree
<1>5. CASE Step([rg EXCEPT !.state = 3], t) /\ Quiet
  BY <1>0, <1>1, <1>5, QuietKind
<1>6. CASE Step([rg EXCEPT !.state = 7], t + 1) /\ Quiet
  BY <1>0, <1>1, <1>6, QuietKind
<1>7. CASE Step([rg EXCEPT !.state = 5, !.val = << >>], t + 1) /\ Quiet
  <2> DEFINE r == [rg EXCEPT !.state = 5, !.val = << >>]
  <2>1. Good(r)
    BY <1>0, RestartState, States
  <2>2. r.depth = rg.depth /\ r.hasbin = rg.hasbin /\ r.state = 5
    BY <1>0 DEF Regs
  <2>3. Step(r, t + 1)
    BY <1>7
  <2> HIDE DEF r
  <2> QED
    BY <1>0, <1>7, <2>1, <2>2, <2>3, Moved, QuietKind DEF BetweenAtoms
<1>8. ASSUME NEW r, r = [rg EXCEPT !.val = << >>, !.esc = EscFlag(Ch)],
             NEW n, n = IF Ch = "hash" /\ Mode = "INLINE_BINARY" THEN 12 ELSE 4,
             \/ Step([Put(r, Ch) EXCEPT !.state = n], t + 1) /\ Quiet
             \/ /\ May("grow") /\ Full(r)
                /\ Return("MEMORY", [r EXCEPT !.val_used = @ + 1, !.hasval = FALSE], t, NULL)
                /\ UNCHANGED <<tree, events>>
      PROVE  Kind
  <2>1. Good(r) /\ r \in Regs
    <3>1. Good([[rg EXCEPT !.val = << >>] EXCEPT !.esc = EscFlag(Ch)])
      BY <1>0, Restart, SetEsc, EscFlagOK
    <3> QED
      BY <1>8, <3>1 DEF Good
  <2>2. /\ r.depth = rg.depth /\ r.hasbin = rg.hasbin /\ r.val_used = rg.val_used
        /\ r.val_allocated = rg.val_allocated
    BY <1>0, <1>8 DEF Regs
  <2>3. CASE Step([Put(r, Ch) EXCEPT !.state = n], t + 1) /\ Quiet
    <3> DEFINE k == [Put(r, Ch) EXCEPT !.state = n]
    <3>1. n \in {4, 12} /\ (n = 12 => ~Ordinary)
      BY <1>8 DEF Ordinary
    <3>2. Good(k) /\ Put(r, Ch) \in Regs
      BY <1>0, <2>1, <3>1, PutGood, SetState, States DEF Good
    <3>3. k.depth = rg.depth /\ k.hasbin = rg.hasbin /\ k.state = n
      BY <2>1, <2>2, <3>2, PutKeeps DEF Regs
    <3>4. Step(k, t + 1)
      BY <2>3
    <3> HIDE DEF k
    <3>5. Kept(k)
      BY <3>1, <3>2, <3>3 DEF Kept, Ordinary, Plain, Clean, BetweenAtoms
    <3> QED
      BY <1>0, <2>3, <3>4, <3>5, QuietKind
  <2>4. CASE /\ May("grow") /\ Full(r)
             /\ Return("MEMORY", [r EXCEPT !.val_used = @ + 1, !.hasval = FALSE], t, NULL)
             /\ UNCHANGED <<tree, events>>
    <3> DEFINE u == r.val_used + 1
               k == [r EXCEPT !.val_used = u, !.hasval = FALSE]
    <3>1. u \in Nat
      BY <2>1 DEF Regs
    <3>2. Return("MEMORY", k, t, NULL) /\ UNCHANGED tree
      BY <2>4
    <3>3. ~(Ordinary /\ FirstFits)
      BY <1>0, <2>2, <2>4, SizesAssumption
      DEF Ordinary, FirstFits, Plain, BetweenAtoms, Full
    <3> HIDE DEF u
    <3>4. k \in Regs
      BY <2>1, <3>1 DEF Regs
    <3> HIDE DEF k
    <3> QED
      BY <1>0, <3>2, <3>3, <3>4, MemoryKind
  <2> QED
    BY <1>8, <2>3, <2>4
<1> QED
  BY <1>2, <1>3, <1>4, <1>5, <1>6, <1>7, <1>8 DEF Case1

LEMMA StoreCharKind ==
  ASSUME BufferInv, pc = "loop", NEW r, Good(r), Alike(r), r.state \notin BetweenAtoms,
         NEW c \in Char, NEW pos \in Nat, StoreChar(r, c, pos)
  PROVE  Kind
<1>1. t \in Nat
  BY LoopFacts
<1> QED
  BY <1>1, StoreCharAtKind DEF StoreChar

(* The state of the registers that an atom in progress is stored with. *)
LEMMA InsideAtom ==
  ASSUME NEW q \in Regs, NEW r, Good(r), q.state \notin BetweenAtoms, q.state \notin 12..15,
         q.depth = rg.depth, q.hasbin = rg.hasbin,
         r.depth = q.depth, r.hasbin = q.hasbin, r.state = q.state
  PROVE  Kept(r) /\ Alike(r) /\ r.state \notin BetweenAtoms
  BY Moved

LEMMA Case4Kind == ASSUME BufferInv, Case4 PROVE Kind
<1>0. /\ pc = "loop" /\ rg.state = 4 /\ rg.state \notin BetweenAtoms /\ rg.state \notin 12..15
      /\ Good(rg) /\ rg \in Regs /\ rg.hasval /\ t \in Nat /\ t + 1 \in Nat /\ Ch \in Char
  BY LoopFacts DEF Case4, Case, BetweenAtoms
<1>1. CASE Undefined
  BY <1>1 DEF Kind
<1>2. CASE rg.val # << >> /\ Step(Unescape(rg, Ch), t + 1) /\ Quiet
  <2>1. Kept(Unescape(rg, Ch))
    BY <1>0, <1>2, UnescapeGood, UnescapeKeeps, InsideAtom
  <2> QED
    BY <1>0, <1>2, <2>1, QuietKind
<1>3. CASE StoreChar([rg EXCEPT !.esc = EscFlag(Ch)], Ch, t + 1)
  <2> DEFINE r == [rg EXCEPT !.esc = EscFlag(Ch)]
  <2>1. Good(r)
    BY <1>0, SetEsc, EscFlagOK
  <2>2. r.depth = rg.depth /\ r.hasbin = rg.hasbin /\ r.state = rg.state
    BY <1>0 DEF Regs
  <2>3. StoreChar(r, Ch, t + 1)
    BY <1>3
  <2> HIDE DEF r
  <2> QED
    BY <1>0, <2>1, <2>2, <2>3, InsideAtom, StoreCharKind
<1>4. CASE FinishAtom(IF rg.squoted # 0 THEN "SQUOTE" ELSE "BASIC",
                      [rg EXCEPT !.val_used = @ + 1], t,
                      [rg EXCEPT !.state = IF Ch = "rp" THEN 3 ELSE 1, !.squoted = 0],
                      IF Ch \in White THEN t + 1 ELSE t, t)
  <2> DEFINE aty == IF rg.squoted # 0 THEN "SQUOTE" ELSE "BASIC"
             n == IF Ch = "rp" THEN 3 ELSE 1
             q == [rg EXCEPT !.state = n, !.squoted = 0]
             r == [rg EXCEPT !.val_used = @ + 1]
             tIn == IF Ch \in White THEN t + 1 ELSE t
  <2>1. aty \in {"BASIC", "SQUOTE", "DQUOTE"} /\ tIn \in Nat /\ n \in 1..15 /\ n \notin 12..15
    BY <1>0
  <2>2. FinishAtom(aty, r, t, q, tIn, t)
    BY <1>4
  <2>3. Alike(r)
    BY <1>0, CountUp DEF Alike, Clean, Regs, Ordinary, Plain
  <2> HIDE DEF n
  <2>4. Alike(q)
    <3>1. Good([[rg EXCEPT !.state = n] EXCEPT !.squoted = 0])
      BY <1>0, <2>1, SetState, SetSquoted
    <3>2. q.depth = rg.depth /\ q.hasbin = rg.hasbin /\ q.state = n
      BY <1>0 DEF Regs
    <3> QED
      BY <2>1, <3>1, <3>2 DEF Alike, Clean, Good, Bounded, Ordinary, Plain
  <2> HIDE DEF aty, r, q, tIn
  <2> QED
    BY <1>0, <2>1, <2>2, <2>3, <2>4, FinishAtomKind
<1> QED
  BY <1>1, <1>2, <1>3, <1>4 DEF Case4

LEMMA FinishQuotedKind ==
  ASSUME BufferInv, pc = "loop", NEW aty \in {"SQUOTE", "DQUOTE"}, NEW r, Alike(r),
         NEW q, Alike(q), NEW pos \in Nat, NEW tIn \in Nat,
         FinishAtom(aty, [r EXCEPT !.val_used = @ + 1], pos, q, tIn, tIn)
  PROVE  Kind
<1> DEFINE k == [r EXCEPT !.val_used = @ + 1]
<1>1. Alike(k)
  BY CountUp DEF Alike, Clean, Regs
<1>2. aty \in {"BASIC", "SQUOTE", "DQUOTE"} /\ FinishAtom(aty, k, pos, q, tIn, tIn)
  OBVIOUS
<1> HIDE DEF k
<1> QED
  BY <1>1, <1>2, FinishAtomKind

LEMMA Case5Kind == ASSUME BufferInv, Case5 PROVE Kind
<1>0. /\ pc = "loop" /\ rg.state = 5 /\ rg.state \notin BetweenAtoms /\ rg.state \notin 12..15
      /\ Good(rg) /\ rg \in Regs /\ rg.hasval /\ t \in Nat /\ t + 1 \in Nat /\ Ch \in Char
  BY LoopFacts DEF Case5, Case, BetweenAtoms
<1>1. PICK escaped, pos, r, c, quoted :
        /\ escaped = (rg.esc = 1 /\ Ch \in Escapable)
        /\ pos = IF escaped THEN t + 1 ELSE t
        /\ r = IF escaped THEN Unescape(rg, Ch) ELSE rg
        /\ c = CharAt(pos)
        /\ quoted = [r EXCEPT !.state = 6]
        /\ IF escaped /\ rg.val = << >> THEN Undefined
           ELSE \/ StoreCharAt([r EXCEPT !.esc = EscFlag(c)], c, pos + 1, pos)
                \/ FinishAtom("DQUOTE", [quoted EXCEPT !.val_used = @ + 1], pos,
                              quoted, pos + 1, pos + 1)
                \/ FinishAtom("SQUOTE", [Put(quoted, "dq") EXCEPT !.val_used = @ + 1],
                              pos, [quoted EXCEPT !.squoted = 0], pos + 1, pos + 1)
                \/ GrowFails(quoted, pos)
  BY DEF Case5
<1>2. CASE escaped /\ rg.val = << >>
  BY <1>1, <1>2 DEF Kind
<1>3. CASE ~(escaped /\ rg.val = << >>)
  <2>1. pos \in Nat /\ pos + 1 \in Nat
    BY <1>0, <1>1
  <2>2. c \in Char /\ "dq" \in Char
    BY <1>1, <2>1, CharOK DEF BufferInv, ControlInv, Char, Escapable
  <2>3. Good(r) /\ r \in Regs /\ r.depth = rg.depth /\ r.hasbin = rg.hasbin /\ r.state = 5
    BY <1>0, <1>1, <1>3, UnescapeGood, UnescapeKeeps DEF Good
  <2>4. /\ Good(quoted) /\ quoted \in Regs /\ quoted.hasval
        /\ quoted.depth = rg.depth /\ quoted.hasbin = rg.hasbin /\ quoted.state = 6
    <3>1. Good(quoted)
      BY <1>1, <2>3, SetState, States
    <3> QED
      BY <1>1, <2>3, <3>1 DEF Good, Regs, Bounded
  <2>5. Alike(quoted)
    BY <2>4 DEF Alike, Clean, Ordinary, Plain
  <2>6. CASE StoreCharAt([r EXCEPT !.esc = EscFlag(c)], c, pos + 1, pos)
    <3> DEFINE k == [r EXCEPT !.esc = EscFlag(c)]
    <3>1. Good(k)
      BY <2>3, SetEsc, EscFlagOK
    <3>2. k.depth = r.depth /\ k.hasbin = r.hasbin /\ k.state = r.state
      BY <2>3 DEF Regs
    <3>3. StoreCharAt(k, c, pos + 1, pos)
      BY <2>6
    <3> HIDE DEF k
    <3> QED
      BY <1>0, <2>1, <2>2, <2>3, <3>1, <3>2, <3>3, InsideAtom, StoreCharAtKind
  <2>7. CASE FinishAtom("DQUOTE", [quoted EXCEPT !.val_used = @ + 1], pos,
                        quoted, pos + 1, pos + 1)
    BY <1>0, <2>1, <2>5, <2>7, FinishQuotedKind
  <2>8. CASE FinishAtom("SQUOTE", [Put(quoted, "dq") EXCEPT !.val_used = @ + 1],
                        pos, [quoted EXCEPT !.squoted = 0], pos + 1, pos + 1)
    <3>1. Alike(Put(quoted, "dq"))
      BY <2>2, <2>4, PutGood, PutKeeps DEF Alike, Clean, Ordinary, Plain, Good
    <3>2. Good([quoted EXCEPT !.squoted = 0])
      BY <2>4, SetSquoted
    <3> DEFINE k == [quoted EXCEPT !.squoted = 0]
    <3>3. k.depth = quoted.depth /\ k.hasbin = quoted.hasbin /\ k.state = 6
      BY <2>4 DEF Regs
    <3>4. Good(k)
      BY <3>2
    <3>5. FinishAtom("SQUOTE", [Put(quoted, "dq") EXCEPT !.val_used = @ + 1], pos, k,
                     pos + 1, pos + 1)
      BY <2>8
    <3> HIDE DEF k
    <3>6. Alike(k)
      BY <2>4, <3>3, <3>4 DEF Alike, Clean, Ordinary, Plain, Good, Bounded
    <3> QED
      BY <1>0, <2>1, <3>1, <3>5, <3>6, FinishQuotedKind
  <2>9. CASE GrowFails(quoted, pos)
    BY <2>1, <2>5, <2>9, GrowFailsKind
  <2> QED
    BY <1>1, <1>3, <2>6, <2>7, <2>8, <2>9
<1> QED
  BY <1>2, <1>3

LEMMA Case6Kind == ASSUME BufferInv, Case6 PROVE Kind
<1>0. pc = "loop" /\ rg.state = 6 /\ Good(rg) /\ rg \in Regs /\ t \in Nat
  BY LoopFacts DEF Case6, Case
<1> DEFINE r == [rg EXCEPT !.val = << >>, !.state = 1]
<1>1. Good([[rg EXCEPT !.val = << >>] EXCEPT !.state = 1])
  BY <1>0, Restart, SetState, States
<1>2. Good(r) /\ Step(r, t) /\ Quiet
  BY <1>1 DEF Case6
<1>3. /\ r.depth = rg.depth /\ r.hasbin = rg.hasbin /\ r.state = 1
      /\ r.val_used = rg.val_used /\ r.val_allocated = rg.val_allocated
  BY <1>0 DEF Regs
<1> HIDE DEF r
<1> QED
  BY <1>0, <1>2, <1>3, Moved, QuietKind DEF BetweenAtoms

LEMMA Case7Kind == ASSUME BufferInv, Case7 PROVE Kind
<1>0. pc = "loop" /\ Good(rg) /\ rg \in Regs /\ t \in Nat /\ t + 1 \in Nat /\ "dq" \in Char
  BY LoopFacts DEF Case7, Case, Char, Escapable
<1> DEFINE q(n) == [rg EXCEPT !.state = n, !.val = << >>]
           r(n) == [rg EXCEPT !.state = n, !.val = << >>, !.squoted = 1]
<1>1. \/ StoreCharAt(r(5), "dq", t + 1, t + 1)
      \/ Step(q(8), t) /\ Quiet
      \/ Step(r(4), t) /\ Quiet
  BY DEF Case7
<1>2. ASSUME NEW n \in {4, 5, 8} PROVE Good(q(n)) /\ Good(r(n))
  <2>1. Good(q(n))
    BY <1>0, RestartState, States
  <2>2. Good([q(n) EXCEPT !.squoted = 1])
    BY <2>1, SetSquoted
  <2> QED
    BY <2>1, <2>2
<1>3. ASSUME NEW n \in {4, 5, 8}
      PROVE  /\ q(n).depth = rg.depth /\ q(n).hasbin = rg.hasbin /\ q(n).state = n
             /\ r(n).depth = rg.depth /\ r(n).hasbin = rg.hasbin /\ r(n).state = n
  BY <1>0 DEF Regs
<1> HIDE DEF q, r
<1>4. ASSUME NEW n \in {4, 5, 8}
      PROVE  Kept(q(n)) /\ Kept(r(n)) /\ Alike(r(n)) /\ r(n).state \notin BetweenAtoms
  BY <1>2, <1>3, Moved DEF BetweenAtoms
<1>5. CASE StoreCharAt(r(5), "dq", t + 1, t + 1)
  BY <1>0, <1>2, <1>4, <1>5, StoreCharAtKind
<1>6. CASE Step(q(8), t) /\ Quiet
  BY <1>0, <1>4, <1>6, QuietKind
<1>7. CASE Step(r(4), t) /\ Quiet
  BY <1>0, <1>4, <1>7, QuietKind
<1> QED
  BY <1>1, <1>5, <1>6, <1>7

LEMMA Case8Kind == ASSUME BufferInv, Case8 PROVE Kind
<1>0. /\ pc = "loop" /\ rg.state = 8
      /\ Good(rg) /\ rg \in Regs /\ t \in Nat /\ t + 1 \in Nat /\ Ch \in Char
  BY LoopFacts DEF Case8, Case
<1> DEFINE plain == rg.esc = 0
           closes == plain /\ Ch = "rp"
           qd == IF plain /\ Ch = "lp" THEN (rg.qdepth + 1) % UIntRange
                 ELSE IF closes THEN (rg.qdepth - 1) % UIntRange ELSE rg.qdepth
           st == IF plain /\ Ch = "dq" THEN 10 ELSE 8
           r == [rg EXCEPT !.esc = EscFlag(Ch), !.qdepth = qd, !.state = st]
<1>1. qd \in 0..(UIntRange - 1) /\ st \in {8, 10}
  <2>1. rg.qdepth \in 0..(UIntRange - 1)
    BY <1>0 DEF Regs
  <2>2. rg.qdepth + 1 \in Int /\ rg.qdepth - 1 \in Int
    BY <2>1, SizesAssumption
  <2>3. /\ (rg.qdepth + 1) % UIntRange \in 0..(UIntRange - 1)
        /\ (rg.qdepth - 1) % UIntRange \in 0..(UIntRange - 1)
    BY <2>2, SizesAssumption, Wraps
  <2> QED
    BY <2>1, <2>3
<1>2. \/ StoreChar(r, Ch, t + 1)
      \/ FinishAtom("SQUOTE", [Put(r, Ch) EXCEPT !.state = 1], t + 1, [r EXCEPT !.state = 1], t + 1, t + 1)
      \/ GrowFails(r, t)
  BY DEF Case8
<1> HIDE DEF qd, st
<1>3. Good(r) /\ r \in Regs
  <2>1. Good([rg EXCEPT !.esc = EscFlag(Ch)])
    BY <1>0, SetEsc, EscFlagOK
  <2>2. Good([[rg EXCEPT !.esc = EscFlag(Ch)] EXCEPT !.qdepth = qd])
    BY <1>1, <2>1, SetQdepth
  <2>3. Good([[[rg EXCEPT !.esc = EscFlag(Ch)] EXCEPT !.qdepth = qd] EXCEPT !.state = st])
    BY <1>1, <2>2, SetState, States
  <2> QED
    BY <2>3 DEF Good
<1>4. r.depth = rg.depth /\ r.hasbin = rg.hasbin /\ r.state = st
  BY <1>0 DEF Regs
<1> HIDE DEF r
<1>5. Alike(r) /\ r.state \notin BetweenAtoms
  BY <1>1, <1>3, <1>4, Moved DEF BetweenAtoms
<1>6. CASE FinishAtom("SQUOTE", [Put(r, Ch) EXCEPT !.state = 1], t + 1, [r EXCEPT !.state = 1], t + 1, t + 1)
  <2> DEFINE k == [Put(r, Ch) EXCEPT !.state = 1]
             q == [r EXCEPT !.state = 1]
  <2>1. Good(k) /\ Good(q) /\ Put(r, Ch) \in Regs
    BY <1>0, <1>3, PutGood, SetState, States DEF Good
  <2>2. /\ k.depth = rg.depth /\ k.hasbin = rg.hasbin /\ k.state = 1
        /\ q.depth = rg.depth /\ q.hasbin = rg.hasbin /\ q.state = 1
    BY <1>3, <1>4, <2>1, PutKeeps DEF Regs
  <2>3. FinishAtom("SQUOTE", k, t + 1, q, t + 1, t + 1)
    BY <1>6
  <2> HIDE DEF k, q
  <2>4. Alike(k) /\ Alike(q)
    BY <2>1, <2>2 DEF Alike, Clean, Ordinary, Plain, Good, Bounded
  <2> QED
    BY <1>0, <2>3, <2>4, FinishAtomKind
<1> QED
  BY <1>0, <1>2, <1>3, <1>5, <1>6, StoreCharKind, GrowFailsKind

LEMMA Case10Kind == ASSUME BufferInv, Case10 PROVE Kind
<1>0. pc = "loop" /\ Good(rg) /\ rg \in Regs /\ t \in Nat /\ t + 1 \in Nat /\ Ch \in Char
  BY LoopFacts DEF Case10, Case
<1> DEFINE st == IF Ch = "dq" /\ rg.esc = 0 THEN 8 ELSE 10
           r == [rg EXCEPT !.esc = EscFlag(Ch), !.state = st]
<1>1. st \in {8, 10} /\ StoreChar(r, Ch, t + 1)
  BY DEF Case10
<1> HIDE DEF st
<1>2. Good([[rg EXCEPT !.esc = EscFlag(Ch)] EXCEPT !.state = st])
  BY <1>0, <1>1, SetEsc, EscFlagOK, SetState, States
<1>3. Good(r)
  BY <1>2
<1>4. r.depth = rg.depth /\ r.hasbin = rg.hasbin /\ r.state = st
  BY <1>0 DEF Regs
<1> HIDE DEF r
<1>5. Alike(r) /\ r.state \notin BetweenAtoms
  BY <1>1, <1>3, <1>4, Moved DEF BetweenAtoms
<1> QED
  BY <1>0, <1>1, <1>3, <1>5, StoreCharKind

LEMMA Case11Kind == ASSUME BufferInv, Case11 PROVE Kind
<1>0. pc = "loop" /\ rg.state = 11 /\ t + 1 \in Nat
  BY LoopFacts DEF Case11, Case
<1> DEFINE st == IF Ch = "nl" THEN 1 ELSE 11
<1>1. st \in (1..15) \ (12..15) /\ Step([rg EXCEPT !.state = st], t + 1) /\ Quiet
  BY DEF Case11
<1> HIDE DEF st
<1>2. Kept([rg EXCEPT !.state = st])
  BY <1>0, <1>1, MovedState DEF BetweenAtoms
<1> QED
  BY <1>0, <1>1, <1>2, QuietKind

(* In binary data the mode is not NORMAL. *)
LEMMA BinaryStore ==
  ASSUME BufferInv, pc = "loop", rg.state \in 12..15, NEW r, Good(r), r.depth = rg.depth,
         r.state \notin BetweenAtoms, NEW c \in Char, NEW pos \in Nat, StoreChar(r, c, pos)
  PROVE  Kind
  BY Binary, StoreCharKind

LEMMA Case12Kind == ASSUME BufferInv, Case12 PROVE Kind
<1>0. /\ pc = "loop" /\ rg.state \in 12..15
      /\ Good(rg) /\ rg \in Regs /\ t \in Nat /\ t + 1 \in Nat /\ Ch \in Char
  BY LoopFacts DEF Case12, Case
<1> DEFINE k == [rg EXCEPT !.esc = 0, !.state = 13]
           q == [rg EXCEPT !.state = 4]
<1>1. StoreChar(k, Ch, t + 1) \/ (Step(q, t) /\ Quiet)
  BY DEF Case12
<1>2. Good([[rg EXCEPT !.esc = 0] EXCEPT !.state = 13]) /\ Good(q)
  BY <1>0, SetEsc, SetState, States
<1>3. Good(k) /\ k.depth = rg.depth /\ k.state = 13 /\ q.depth = rg.depth
  BY <1>0, <1>2 DEF Regs
<1> HIDE DEF k, q
<1> QED
  BY <1>0, <1>1, <1>2, <1>3, Binary, BinaryStore, QuietKind DEF BetweenAtoms

LEMMA Case13Kind == ASSUME BufferInv, Case13 PROVE Kind
<1>0. /\ pc = "loop" /\ rg.state \in 12..15
      /\ Good(rg) /\ rg \in Regs /\ t \in Nat /\ t + 1 \in Nat /\ Ch \in Char
  BY LoopFacts DEF Case13, Case
<1> DEFINE r == [rg EXCEPT !.esc = 0]
           k == [Put(r, Ch) EXCEPT !.state = 14, !.val = << >>, !.val_used = 0]
           q == [rg EXCEPT !.state = 4]
<1>1. Good(r) /\ Good(q) /\ r \in Regs
  BY <1>0, SetEsc, SetState, States DEF Good
<1>2. r.depth = rg.depth /\ q.depth = rg.depth
  BY <1>0 DEF Regs
<1>3. (Step(k, t + 1) /\ Quiet) \/ GrowFails(r, t) \/ (Step(q, t) /\ Quiet)
  BY DEF Case13
<1> HIDE DEF r, q
<1>4. Good([[Put(r, Ch) EXCEPT !.state = 14] EXCEPT !.val = << >>, !.val_used = 0])
  BY <1>0, <1>1, PutGood, SetState, States, Emptied
<1>5. Good(k) /\ Put(r, Ch) \in Regs
  BY <1>0, <1>1, <1>4, PutGood DEF Good
<1>6. k.depth = rg.depth
  BY <1>1, <1>2, <1>5, PutKeeps DEF Regs
<1> HIDE DEF k
<1> QED
  BY <1>0, <1>1, <1>2, <1>3, <1>5, <1>6, Binary, GrowFailsKind, QuietKind

LEMMA Case14Kind == ASSUME BufferInv, Case14 PROVE Kind
<1>0. /\ pc = "loop" /\ rg.state = 14 /\ rg.state \in 12..15
      /\ Good(rg) /\ rg \in Regs /\ t \in Nat /\ t + 1 \in Nat /\ Ch \in Char
  BY LoopFacts DEF Case14, Case
<1>1. CASE StoreChar([rg EXCEPT !.esc = EscFlag(Ch)], Ch, t + 1)
  <2> DEFINE k == [rg EXCEPT !.esc = EscFlag(Ch)]
  <2>1. Good(k)
    BY <1>0, SetEsc, EscFlagOK
  <2>2. k.depth = rg.depth /\ k.state = 14
    BY <1>0 DEF Regs
  <2>3. StoreChar(k, Ch, t + 1)
    BY <1>1
  <2> HIDE DEF k
  <2> QED
    BY <1>0, <2>1, <2>2, <2>3, BinaryStore DEF BetweenAtoms
<1>2. ASSUME NEW n \in Int, NEW r,
             r = [rg EXCEPT !.state = 15, !.binexpected = n % SizeRange, !.bindata = << >>],
             \/ Step(r, t + 1) /\ Quiet
             \/ /\ Step([r EXCEPT !.hasbin = TRUE], t + 1)
                /\ UNCHANGED <<elts, sx, stack, heap, live, events>>
             \/ Return("MEMORY", r, t + 1, NULL) /\ UNCHANGED <<tree, events>>
      PROVE  Kind
  <2>1. n % SizeRange \in Nat
    <3>1. n % SizeRange \in 0..(SizeRange - 1)
      BY SizeAssumption, Wraps
    <3> QED
      BY <3>1, SizeAssumption
  <2> DEFINE x == n % SizeRange
             k(h) == [rg EXCEPT !.state = 15, !.binexpected = x, !.bindata = << >>, !.hasbin = h]
             q == [r EXCEPT !.hasbin = TRUE]
  <2>2. \A h \in BOOLEAN : Good(k(h)) /\ k(h).depth = rg.depth
    <3>1. x \in Nat /\ << >> \in Seq(Char) /\ 15 \in 1..15
      BY <2>1
    <3> HIDE DEF x
    <3>2. \A h \in BOOLEAN : Good(k(h))
      BY <1>0, <3>1, SetBinary
    <3>3. \A h \in BOOLEAN : k(h).depth = rg.depth
      BY <1>0 DEF Regs
    <3> QED
      BY <3>2, <3>3
  <2>3. rg.hasbin \in BOOLEAN /\ r = k(rg.hasbin) /\ q = k(TRUE)
    BY <1>0, <1>2 DEF Regs
  <2>4. Good(r) /\ r.depth = rg.depth /\ Good(q) /\ q.depth = rg.depth
    BY <2>2, <2>3
  <2>5. \/ Step(r, t + 1) /\ Quiet
        \/ Step(q, t + 1) /\ UNCHANGED <<elts, sx, stack, heap, live, events>>
        \/ Return("MEMORY", r, t + 1, NULL) /\ UNCHANGED tree
    BY <1>2
  <2> HIDE DEF q
  <2>6. CASE Step(q, t + 1) /\ UNCHANGED <<elts, sx, stack, heap, live, events>>
    BY <1>0, <2>4, <2>6, Binary DEF Kind, GoesOn, SameTree
  <2>7. CASE Return("MEMORY", r, t + 1, NULL) /\ UNCHANGED tree
    BY <1>0, <2>4, <2>7, Binary, MemoryKind DEF Good
  <2> QED
    BY <1>0, <2>4, <2>5, <2>6, <2>7, Binary, QuietKind
<1> QED
  BY <1>1, <1>2 DEF Case14

LEMMA Case15Kind == ASSUME BufferInv, Case15 PROVE Kind
<1>0. /\ pc = "loop" /\ rg.state \in 12..15
      /\ Good(rg) /\ rg \in Regs /\ t \in Nat /\ t + 1 \in Nat /\ Ch \in Char
  BY LoopFacts DEF Case15, Case
<1> DEFINE more == Len(rg.bindata) < rg.binexpected
           r == IF more THEN [rg EXCEPT !.bindata = Append(@, Ch)] ELSE rg
           pos == IF more THEN t + 1 ELSE t
           k == [r EXCEPT !.bindata = << >>, !.binexpected = 0, !.hasbin = FALSE, !.state = 1,
                          !.val = << >>, !.val_used = 0]
           node == Node("VALUE", "BINARY", r.bindata, 0, 0)
<1>1. \/ Step(r, pos) /\ Quiet
      \/ Return("MEMORY", r, pos, NULL) /\ UNCHANGED <<tree, events>>
      \/ /\ Room
         /\ live' = live \cup {NewElem}
         /\ heap' = HeapWith(NewElem, node)
         /\ stack' = StackWith(NewElem)
         /\ Step(k, pos)
         /\ elts' = elts + 1 /\ sx' = NewElem
  BY DEF Case15
<1>2. pos \in Nat
  BY <1>0
<1>3. Good(r) /\ r \in Regs /\ r.depth = rg.depth
  <2> DEFINE d == Append(rg.bindata, Ch)
  <2>1. d \in Seq(Char)
    BY <1>0 DEF Regs
  <2> HIDE DEF d
  <2>2. Good([rg EXCEPT !.bindata = d]) /\ [rg EXCEPT !.bindata = d].depth = rg.depth
    BY <1>0, <2>1 DEF Good, Regs, Bounded
  <2> QED
    BY <1>0, <2>2 DEF d, Good
<1> HIDE DEF r, pos
<1>4. Good(k) /\ k.depth = rg.depth
  <2> DEFINE e == << >>
             b == [r EXCEPT !.state = 1, !.binexpected = 0, !.bindata = e, !.hasbin = FALSE]
  <2>1. Good(b)
    <3>1. e \in Seq(Char) /\ 1 \in 1..15 /\ 0 \in Nat
      OBVIOUS
    <3> HIDE DEF e
    <3> QED
      BY <1>3, <3>1, SetBinary
  <2>2. k = [b EXCEPT !.val = << >>, !.val_used = 0] /\ k.depth = rg.depth
    BY <1>3 DEF Good, Regs
  <2> HIDE DEF b, k
  <2> QED
    BY <2>1, <2>2, Emptied
<1>5. node \in Nodes /\ node.ty = "VALUE" /\ node.list = NULL /\ node.next = NULL
  BY <1>3 DEF Node, Nodes, Regs, Ptr
<1> HIDE DEF k, node
<1>6. CASE Step(r, pos) /\ Quiet
  BY <1>0, <1>2, <1>3, <1>6, Binary, QuietKind
<1>7. CASE Return("MEMORY", r, pos, NULL) /\ UNCHANGED <<tree, events>>
  BY <1>0, <1>2, <1>3, <1>7, Binary, MemoryKind
<1>8. CASE /\ Room
           /\ live' = live \cup {NewElem}
           /\ heap' = HeapWith(NewElem, node)
           /\ stack' = StackWith(NewElem)
           /\ Step(k, pos)
           /\ elts' = elts + 1 /\ sx' = NewElem
  <2>1. Kept(k) /\ ~Ordinary
    BY <1>0, <1>4, Binary
  <2> QED
    BY <1>2, <1>5, <1>8, <2>1 DEF Kind, MakesAtom
<1> QED
  BY <1>1, <1>6, <1>7, <1>8

(* Every step of the loop that is neither a parenthesis nor the end of the *)
(* input is of one of the four kinds.                                      *)
LEMMA StepKind ==
  ASSUME BufferInv, ParserStep
  PROVE  pc = "loop" /\ (Kind \/ Case2 \/ Case3 \/ LoopExit)
<1>1. CASE WalkOff
  BY <1>1 DEF WalkOff, Kind
<1>2. pc = "loop"
  BY DEF ParserStep, Case, Case1, Case2, Case3, Case4, Case5, Case6, Case7, Case8, Case10,
         Case11, Case12, Case13, Case14, Case15, LoopExit, WalkOff
<1> QED
  BY <1>1, <1>2, Case1Kind, Case4Kind, Case5Kind, Case6Kind, Case7Kind, Case8Kind,
     Case10Kind, Case11Kind, Case12Kind, Case13Kind, Case14Kind, Case15Kind
  DEF ParserStep
=============================================================================
