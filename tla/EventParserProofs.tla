------------------------- MODULE EventParserProofs -------------------------
(***************************************************************************)
(* Proofs about the events-only parser, for all texts, all ways to cut     *)
(* them and all buffer sizes.                                              *)
(***************************************************************************)
EXTENDS EventParser, RegistersProofs, TLAPS

(* The inductive invariant: the three invariants need each other, for the  *)
(* height decides whether an atom is returned and the depth whether a      *)
(* parenthesis closes something.                                           *)
EventInv == TypeOK /\ HeightAgrees /\ AtomBufferInBounds

(* Registers that fit the loop at depth d. *)
Fit(r, d) == Good(r) /\ r.state \in EventStates /\ r.depth = d
-----------------------------------------------------------------------------
(* What the operations on registers leave alone. *)
LEMMA CharOK == ASSUME TypeOK, NEW i \in Nat PROVE CharAt(i) \in Char
<1>1. text \in Seq(Char)
  BY TextsAssumption DEF TypeOK
<1> QED
  BY <1>1 DEF CharAt, Char

LEMMA EventStatesOK == EventStates \subseteq 1..15
  BY DEF EventStates

LEMMA EventStateIs == \A n \in {1, 2, 3, 4, 5, 6, 7, 8, 10, 11} : n \in EventStates
  BY DEF EventStates

LEMMA FitPut ==
  ASSUME NEW r, NEW d, Fit(r, d), NEW c \in Char PROVE Fit(Put(r, c), d)
<1>1. Good(Put(r, c))
  BY PutGood DEF Fit
<1>2. Put(r, c).state = r.state /\ Put(r, c).depth = r.depth
  BY DEF Put, Fit, Good, Regs
<1> QED
  BY <1>1, <1>2 DEF Fit

LEMMA FitState ==
  ASSUME NEW r, NEW d, Fit(r, d), NEW n \in EventStates PROVE Fit([r EXCEPT !.state = n], d)
<1>1. Good([r EXCEPT !.state = n])
  BY SetState, EventStatesOK DEF Fit
<1> QED
  BY <1>1 DEF Fit, Good, Regs

LEMMA FitEsc ==
  ASSUME NEW r, NEW d, Fit(r, d), NEW x \in {0, 1} PROVE Fit([r EXCEPT !.esc = x], d)
<1>1. Good([r EXCEPT !.esc = x])
  BY SetEsc DEF Fit
<1> QED
  BY <1>1 DEF Fit, Good, Regs

LEMMA FitSquoted ==
  ASSUME NEW r, NEW d, Fit(r, d), NEW x \in {0, 1} PROVE Fit([r EXCEPT !.squoted = x], d)
<1>1. Good([r EXCEPT !.squoted = x])
  BY SetSquoted DEF Fit
<1> QED
  BY <1>1 DEF Fit, Good, Regs

LEMMA FitQdepth ==
  ASSUME NEW r, NEW d, Fit(r, d), NEW n \in 0..(UIntRange - 1)
  PROVE  Fit([r EXCEPT !.qdepth = n], d)
<1>1. Good([r EXCEPT !.qdepth = n])
  BY SetQdepth DEF Fit
<1> QED
  BY <1>1 DEF Fit, Good, Regs

LEMMA FitDepth ==
  ASSUME NEW r, NEW d, Fit(r, d), NEW n \in Nat PROVE Fit([r EXCEPT !.depth = n], n)
<1>1. Good([r EXCEPT !.depth = n])
  BY SetDepth DEF Fit
<1> QED
  BY <1>1 DEF Fit, Good, Regs

LEMMA FitRestart ==
  ASSUME NEW r, NEW d, Fit(r, d) PROVE Fit([r EXCEPT !.val = << >>], d)
<1>1. Good([r EXCEPT !.val = << >>])
  BY Restart DEF Fit
<1> QED
  BY <1>1 DEF Fit, Good, Regs

LEMMA FitEmptied ==
  ASSUME NEW r, NEW d, Fit(r, d) PROVE Fit([r EXCEPT !.val = << >>, !.val_used = 0], d)
<1>1. Good([r EXCEPT !.val = << >>, !.val_used = 0])
  BY Emptied DEF Fit
<1> QED
  BY <1>1 DEF Fit, Good, Regs

LEMMA FitUnescape ==
  ASSUME NEW r, NEW d, Fit(r, d), NEW c \in Char, r.val # << >> PROVE Fit(Unescape(r, c), d)
<1>1. Good(Unescape(r, c))
  BY UnescapeGood DEF Fit
<1>2. Unescape(r, c).state = r.state /\ Unescape(r, c).depth = r.depth
  BY DEF Unescape, Fit, Good, Regs
<1> QED
  BY <1>1, <1>2 DEF Fit

LEMMA FitInit == Fit(InitRegs, 0)
  BY InitRegsGood DEF Fit, InitRegs, EventStates
-----------------------------------------------------------------------------
(* The ways an iteration ends. *)
LEMMA LoopFacts ==
  ASSUME EventInv, pc = "loop"
  PROVE  /\ Fit(rg, rg.depth) /\ rg \in Regs /\ rg.depth \in Nat /\ height = HeightOf(rg.depth)
         /\ t \in Nat /\ t + 1 \in Nat /\ Ch \in Char /\ elts \in Nat
<1>1. /\ Fit(rg, rg.depth) /\ rg \in Regs /\ height = HeightOf(rg.depth)
      /\ t \in Nat /\ elts \in Nat /\ TypeOK
  BY DEF EventInv, TypeOK, HeightAgrees, AtomBufferInBounds, Here, Fit, Good, EventRegs
<1>2. rg.depth \in Nat
  BY <1>1 DEF Regs
<1> QED
  BY <1>1, <1>2, CharOK DEF Ch

LEMMA StepInv ==
  ASSUME EventInv, pc = "loop", NEW d \in Nat, NEW r, Fit(r, d), NEW pos \in Nat,
         Step(r, pos), elts' \in Nat, height' = HeightOf(d)
  PROVE  EventInv'
<1>1. height' \in Nat
  BY DEF HeightOf
<1>2. r \in EventRegs /\ Bounded(r) /\ r.depth = d
  BY DEF Fit, Good, EventRegs
<1> QED
  BY <1>1, <1>2 DEF EventInv, TypeOK, HeightAgrees, AtomBufferInBounds, Here, Step

LEMMA ReturnInv ==
  ASSUME EventInv, NEW d \in Nat, NEW r, Fit(r, d), NEW pos \in Nat,
         NEW err \in {"OK", "BADFORM"}, Return(err, r, pos), height' = HeightOf(d)
  PROVE  EventInv'
<1>1. height' \in Nat
  BY DEF HeightOf
<1>2. r \in EventRegs /\ Bounded(r) /\ r.depth = d
  BY DEF Fit, Good, EventRegs
<1>3. InitRegs \in EventRegs
  BY FitInit DEF Fit, Good, EventRegs
<1> QED
  BY <1>1, <1>2, <1>3 DEF EventInv, TypeOK, HeightAgrees, AtomBufferInBounds, Here, Return

LEMMA HaltInv ==
  ASSUME EventInv, NEW how \in {"aborted", "undefined", "done"}, Halt(how) PROVE EventInv'
  BY DEF EventInv, TypeOK, HeightAgrees, AtomBufferInBounds, Here, Halt

LEMMA StepQuiet ==
  ASSUME EventInv, pc = "loop", NEW r, Fit(r, rg.depth), NEW pos \in Nat, Step(r, pos), Quiet
  PROVE  EventInv'
<1>1. rg.depth \in Nat /\ elts' \in Nat /\ height' = HeightOf(rg.depth)
  BY LoopFacts DEF Quiet
<1> QED
  BY <1>1, StepInv

LEMMA GrowAbortsInv == ASSUME EventInv, NEW r, GrowAborts(r) PROVE EventInv'
  BY HaltInv DEF GrowAborts

LEMMA StoreCharInv ==
  ASSUME EventInv, pc = "loop", NEW r, Fit(r, rg.depth), NEW c \in Char, NEW pos \in Nat,
         StoreChar(r, c, pos)
  PROVE  EventInv'
<1>1. CASE Step(Put(r, c), pos) /\ Quiet
  BY <1>1, FitPut, StepQuiet
<1>2. CASE GrowAborts(r)
  BY <1>2, GrowAbortsInv
<1> QED
  BY <1>1, <1>2 DEF StoreChar

LEMMA FinishAtomInv ==
  ASSUME EventInv, pc = "loop", NEW aty, NEW q, Fit(q, rg.depth), NEW tIn \in Nat,
         NEW tTop \in Nat, FinishAtom(aty, q, tIn, tTop)
  PROVE  EventInv'
<1> DEFINE r == [q EXCEPT !.val = << >>, !.val_used = 0]
           k == [r EXCEPT !.squoted = 0, !.esc = 0, !.state = 1]
<1>1. rg.depth \in Nat /\ elts \in Nat /\ height = HeightOf(rg.depth)
  BY LoopFacts
<1>2. Fit(r, rg.depth)
  BY FitEmptied
<1>3. \/ Return("OK", k, tTop) /\ height' = height
      \/ Step(r, tIn) /\ elts' = elts + 1 /\ height' = height
  BY DEF FinishAtom
<1> HIDE DEF r
<1>4. Fit(k, rg.depth)
  <2>1. Fit([[[r EXCEPT !.squoted = 0] EXCEPT !.esc = 0] EXCEPT !.state = 1], rg.depth)
    BY <1>2, FitSquoted, FitEsc, FitState, EventStateIs
  <2> QED
    BY <2>1
<1> HIDE DEF k
<1>5. CASE Return("OK", k, tTop) /\ height' = height
  BY <1>1, <1>4, <1>5, ReturnInv
<1>6. CASE Step(r, tIn) /\ elts' = elts + 1 /\ height' = height
  <2>1. elts' \in Nat
    BY <1>1, <1>6
  <2> QED
    BY <1>1, <1>2, <1>6, <2>1, StepInv
<1> QED
  BY <1>3, <1>5, <1>6
-----------------------------------------------------------------------------
(* One lemma for each case of the switch. *)
LEMMA FitRestartState ==
  ASSUME NEW r, NEW d, Fit(r, d), NEW n \in EventStates
  PROVE  Fit([r EXCEPT !.state = n, !.val = << >>], d)
<1>1. Fit([[r EXCEPT !.state = n] EXCEPT !.val = << >>], d)
  BY FitState, FitRestart
<1> QED
  BY <1>1

LEMMA Case1Inv == ASSUME EventInv, Case1 PROVE EventInv'
<1>0. /\ pc = "loop" /\ Fit(rg, rg.depth) /\ rg.depth \in Nat /\ height = HeightOf(rg.depth)
      /\ t \in Nat /\ t + 1 \in Nat /\ Ch \in Char /\ elts \in Nat
  BY LoopFacts DEF Case1, Case
<1>1. CASE Step(rg, t + 1) /\ Quiet
  BY <1>0, <1>1, StepQuiet
<1>2. CASE Step([rg EXCEPT !.state = 11], t + 1) /\ Quiet
  BY <1>0, <1>2, FitState, EventStateIs, StepQuiet
<1>3. CASE Step([rg EXCEPT !.state = 2], t + 1) /\ UNCHANGED <<elts, height>>
  <2>1. Fit([rg EXCEPT !.state = 2], rg.depth)
    BY <1>0, FitState, EventStateIs
  <2> QED
    BY <1>0, <1>3, <2>1, StepInv
<1>4. CASE Step([rg EXCEPT !.state = 3], t) /\ Quiet
  BY <1>0, <1>4, FitState, EventStateIs, StepQuiet
<1>5. CASE Step([rg EXCEPT !.state = 5, !.val = << >>], t + 1) /\ Quiet
  BY <1>0, <1>5, FitRestartState, EventStateIs, StepQuiet
<1>6. CASE Step([rg EXCEPT !.state = 7], t + 1) /\ Quiet
  BY <1>0, <1>6, FitState, EventStateIs, StepQuiet
<1>7. CASE StoreChar([rg EXCEPT !.val = << >>, !.esc = EscFlag(Ch), !.state = 4], Ch, t + 1)
  <2>1. Fit([[[rg EXCEPT !.val = << >>] EXCEPT !.esc = EscFlag(Ch)] EXCEPT !.state = 4], rg.depth)
    BY <1>0, FitRestart, FitEsc, EscFlagOK, FitState, EventStateIs
  <2>2. Fit([rg EXCEPT !.val = << >>, !.esc = EscFlag(Ch), !.state = 4], rg.depth)
    BY <2>1
  <2> QED
    BY <1>0, <1>7, <2>2, StoreCharInv
<1> QED
  BY <1>1, <1>2, <1>3, <1>4, <1>5, <1>6, <1>7 DEF Case1

LEMMA HeightSteps ==
  ASSUME NEW d \in Nat
  PROVE  /\ HeightOf(d + 1) = (IF HeightOf(d) < 1 THEN HeightOf(d) + 1 ELSE HeightOf(d)) + 1
         /\ d # 0 /\ d - 1 # 0 => HeightOf(d - 1) = HeightOf(d) - 1
         /\ HeightOf(0) = 0
  BY DEF HeightOf

LEMMA Case2Inv == ASSUME EventInv, Case2 PROVE EventInv'
<1>0. /\ pc = "loop" /\ Fit(rg, rg.depth) /\ rg.depth \in Nat /\ height = HeightOf(rg.depth)
      /\ t \in Nat /\ elts \in Nat
  BY LoopFacts DEF Case2, Case
<1>1. rg.depth + 1 \in Nat /\ height' = HeightOf(rg.depth + 1) /\ elts' \in Nat
  BY <1>0, HeightSteps DEF Case2
<1> DEFINE d == rg.depth + 1
           r == [rg EXCEPT !.depth = d, !.state = 1]
<1>2. Step(r, t)
  BY DEF Case2
<1>3. d \in Nat /\ height' = HeightOf(d)
  BY <1>1
<1> HIDE DEF d
<1>4. Fit([[rg EXCEPT !.depth = d] EXCEPT !.state = 1], d)
  BY <1>0, <1>3, FitDepth, FitState, EventStateIs
<1>5. Fit(r, d)
  BY <1>4
<1> HIDE DEF r
<1> QED
  BY <1>0, <1>1, <1>2, <1>3, <1>5, StepInv

LEMMA FitKeepsSquoted ==
  ASSUME TypeOK, NEW r, NEW d, Fit(r, d) PROVE Fit(KeepsSquoted(r), d)
<1>1. cc.regs.squoted \in {0, 1}
  BY DEF TypeOK, EventRegs, Regs
<1> DEFINE x == cc.regs.squoted
<1> HIDE DEF x
<1>2. x \in {0, 1}
  BY <1>1 DEF x
<1>3. Fit([[[r EXCEPT !.squoted = x] EXCEPT !.esc = 0] EXCEPT !.state = 1], d)
  BY <1>2, FitSquoted, FitEsc, FitState, EventStateIs
<1> QED
  BY <1>3 DEF KeepsSquoted, x

LEMMA Case3Inv == ASSUME EventInv, Case3 PROVE EventInv'
<1>0. /\ pc = "loop" /\ Fit(rg, rg.depth) /\ rg.depth \in Nat /\ height = HeightOf(rg.depth)
      /\ t \in Nat /\ t + 1 \in Nat /\ elts \in Nat /\ TypeOK
  BY LoopFacts DEF Case3, Case, EventInv
<1>1. CASE Return("BADFORM", KeepsSquoted(rg), t) /\ UNCHANGED <<height, events>>
  BY <1>0, <1>1, FitKeepsSquoted, ReturnInv
<1>2. CASE /\ rg.depth # 0
           /\ LET r == [rg EXCEPT !.depth = @ - 1, !.state = 1]
              IN  IF r.depth = 0
                  THEN height' = 0 /\ Return("OK", KeepsSquoted(r), t + 1)
                  ELSE height' = height - 1 /\ Step(r, t + 1) /\ elts' = elts
  <2> DEFINE d == rg.depth - 1
             r == [rg EXCEPT !.depth = d, !.state = 1]
  <2>1. d \in Nat
    BY <1>0, <1>2
  <2>2. IF r.depth = 0
        THEN height' = 0 /\ Return("OK", KeepsSquoted(r), t + 1)
        ELSE height' = height - 1 /\ Step(r, t + 1) /\ elts' = elts
    BY <1>2
  <2>3. d # 0 => HeightOf(d) = height - 1
    BY <1>0, <1>2, HeightSteps
  <2> HIDE DEF d
  <2>4. Fit([[rg EXCEPT !.depth = d] EXCEPT !.state = 1], d)
    BY <1>0, <2>1, FitDepth, FitState, EventStateIs
  <2>5. Fit(r, d)
    BY <2>4
  <2> HIDE DEF r
  <2>6. r.depth = d
    BY <2>5 DEF Fit
  <2>7. CASE d = 0
    <3>1. height' = HeightOf(d)
      BY <2>2, <2>6, <2>7 DEF HeightOf
    <3>2. Fit(KeepsSquoted(r), d)
      BY <1>0, <2>5, FitKeepsSquoted
    <3> QED
      BY <1>0, <2>1, <2>2, <2>6, <2>7, <3>1, <3>2, ReturnInv
  <2>8. CASE d # 0
    BY <1>0, <2>1, <2>2, <2>3, <2>5, <2>6, <2>8, StepInv
  <2> QED
    BY <2>7, <2>8
<1> QED
  BY <1>1, <1>2 DEF Case3

LEMMA Case4Inv == ASSUME EventInv, Case4 PROVE EventInv'
<1>0. /\ pc = "loop" /\ Fit(rg, rg.depth) /\ t \in Nat /\ t + 1 \in Nat /\ Ch \in Char
  BY LoopFacts DEF Case4, Case
<1>1. CASE Halt("undefined")
  BY <1>1, HaltInv
<1>2. CASE rg.val # << >> /\ Step(Unescape(rg, Ch), t + 1) /\ Quiet
  BY <1>0, <1>2, FitUnescape, StepQuiet
<1>3. CASE StoreChar([rg EXCEPT !.esc = EscFlag(Ch)], Ch, t + 1)
  BY <1>0, <1>3, FitEsc, EscFlagOK, StoreCharInv
<1>4. CASE FinishAtom(IF rg.squoted # 0 THEN "SQUOTE" ELSE "BASIC",
                      [rg EXCEPT !.state = IF Ch = "rp" THEN 3 ELSE 1, !.squoted = 0],
                      IF Ch \in White THEN t + 1 ELSE t, t)
  <2> DEFINE aty == IF rg.squoted # 0 THEN "SQUOTE" ELSE "BASIC"
             n == IF Ch = "rp" THEN 3 ELSE 1
             q == [rg EXCEPT !.state = n, !.squoted = 0]
             tIn == IF Ch \in White THEN t + 1 ELSE t
  <2>1. tIn \in Nat /\ n \in EventStates
    BY <1>0, EventStateIs
  <2>2. FinishAtom(aty, q, tIn, t)
    BY <1>4
  <2> HIDE DEF n, aty, tIn
  <2>3. Fit([[rg EXCEPT !.state = n] EXCEPT !.squoted = 0], rg.depth)
    BY <1>0, <2>1, FitState, FitSquoted
  <2>4. Fit(q, rg.depth)
    BY <2>3
  <2> HIDE DEF q
  <2> QED
    BY <1>0, <2>1, <2>2, <2>4, FinishAtomInv
<1> QED
  BY <1>1, <1>2, <1>3, <1>4 DEF Case4

LEMMA Case5Inv == ASSUME EventInv, Case5 PROVE EventInv'
<1>0. /\ pc = "loop" /\ Fit(rg, rg.depth) /\ t \in Nat /\ t + 1 \in Nat /\ Ch \in Char
      /\ TypeOK
  BY LoopFacts DEF Case5, Case, EventInv
<1>1. PICK escaped, pos, r, c, quoted :
        /\ escaped = (rg.esc = 1 /\ Ch \in Escapable)
        /\ pos = IF escaped THEN t + 1 ELSE t
        /\ r = IF escaped THEN Unescape(rg, Ch) ELSE rg
        /\ c = CharAt(pos)
        /\ quoted = [r EXCEPT !.state = 6]
        /\ IF escaped /\ rg.val = << >> THEN Halt("undefined")
           ELSE \/ StoreChar([r EXCEPT !.esc = EscFlag(c)], c, pos + 1)
                \/ FinishAtom("DQUOTE", quoted, pos + 1, pos + 1)
                \/ FinishAtom("SQUOTE", Put(quoted, "dq"), pos + 1, pos + 1)
                \/ GrowAborts(quoted)
  BY DEF Case5
<1>2. CASE escaped /\ rg.val = << >>
  BY <1>1, <1>2, HaltInv
<1>3. CASE ~(escaped /\ rg.val = << >>)
  <2>1. pos \in Nat /\ pos + 1 \in Nat
    BY <1>0, <1>1
  <2>2. c \in Char /\ "dq" \in Char
    BY <1>0, <1>1, <2>1, CharOK DEF Char, Escapable
  <2>3. Fit(r, rg.depth)
    BY <1>0, <1>1, <1>3, FitUnescape
  <2>4. Fit(quoted, rg.depth)
    BY <1>1, <2>3, FitState, EventStateIs
  <2>5. CASE StoreChar([r EXCEPT !.esc = EscFlag(c)], c, pos + 1)
    BY <1>0, <2>1, <2>2, <2>3, <2>5, FitEsc, EscFlagOK, StoreCharInv
  <2>6. CASE FinishAtom("DQUOTE", quoted, pos + 1, pos + 1)
    BY <1>0, <2>1, <2>4, <2>6, FinishAtomInv
  <2>7. CASE FinishAtom("SQUOTE", Put(quoted, "dq"), pos + 1, pos + 1)
    BY <1>0, <2>1, <2>2, <2>4, <2>7, FitPut, FinishAtomInv
  <2>8. CASE GrowAborts(quoted)
    BY <2>8, GrowAbortsInv
  <2> QED
    BY <1>1, <1>3, <2>5, <2>6, <2>7, <2>8
<1> QED
  BY <1>2, <1>3

LEMMA Case6Inv == ASSUME EventInv, Case6 PROVE EventInv'
<1>0. pc = "loop" /\ Fit(rg, rg.depth) /\ t \in Nat
  BY LoopFacts DEF Case6, Case
<1>1. Fit([[rg EXCEPT !.val = << >>] EXCEPT !.state = 1], rg.depth)
  BY <1>0, FitRestart, FitState, EventStateIs
<1> QED
  BY <1>0, <1>1, StepQuiet DEF Case6

LEMMA Case7Inv == ASSUME EventInv, Case7 PROVE EventInv'
<1>0. pc = "loop" /\ Fit(rg, rg.depth) /\ t \in Nat /\ t + 1 \in Nat
  BY LoopFacts DEF Case7, Case
<1>1. "dq" \in Char
  BY DEF Char, Escapable
<1>2. \A n \in EventStates :
        Fit([rg EXCEPT !.state = n, !.val = << >>, !.squoted = 1], rg.depth)
  <2> SUFFICES ASSUME NEW n \in EventStates
               PROVE  Fit([rg EXCEPT !.state = n, !.val = << >>, !.squoted = 1], rg.depth)
    OBVIOUS
  <2>1. Fit([[rg EXCEPT !.state = n, !.val = << >>] EXCEPT !.squoted = 1], rg.depth)
    BY <1>0, FitRestartState, FitSquoted
  <2> QED
    BY <2>1
<1>3. CASE StoreChar([rg EXCEPT !.state = 5, !.val = << >>, !.squoted = 1], "dq", t + 1)
  BY <1>0, <1>1, <1>2, <1>3, EventStateIs, StoreCharInv
<1>4. CASE Step([rg EXCEPT !.state = 8, !.val = << >>], t) /\ Quiet
  BY <1>0, <1>4, FitRestartState, EventStateIs, StepQuiet
<1>5. CASE Step([rg EXCEPT !.state = 4, !.val = << >>, !.squoted = 1], t) /\ Quiet
  BY <1>0, <1>2, <1>5, EventStateIs, StepQuiet
<1> QED
  BY <1>3, <1>4, <1>5 DEF Case7

LEMMA Case8Inv == ASSUME EventInv, Case8 PROVE EventInv'
<1>0. /\ pc = "loop" /\ Fit(rg, rg.depth) /\ rg \in Regs
      /\ t \in Nat /\ t + 1 \in Nat /\ Ch \in Char
  BY LoopFacts DEF Case8, Case
<1> DEFINE plain == rg.esc = 0
           closes == plain /\ Ch = "rp"
           qd == IF plain /\ Ch = "lp" THEN (rg.qdepth + 1) % UIntRange
                 ELSE IF closes THEN (rg.qdepth - 1) % UIntRange ELSE rg.qdepth
           st == IF plain /\ Ch = "dq" THEN 10 ELSE 8
           r == [rg EXCEPT !.esc = EscFlag(Ch), !.qdepth = qd, !.state = st]
<1>1. qd \in 0..(UIntRange - 1) /\ st \in EventStates
  <2>1. rg.qdepth \in 0..(UIntRange - 1)
    BY <1>0 DEF Regs
  <2>2. rg.qdepth + 1 \in Int /\ rg.qdepth - 1 \in Int
    BY <2>1, SizesAssumption
  <2>3. /\ (rg.qdepth + 1) % UIntRange \in 0..(UIntRange - 1)
        /\ (rg.qdepth - 1) % UIntRange \in 0..(UIntRange - 1)
    BY <2>2, SizesAssumption, Wraps
  <2> QED
    BY <2>1, <2>3, EventStateIs
<1>2. \/ StoreChar(r, Ch, t + 1)
      \/ FinishAtom("SQUOTE", [Put(r, Ch) EXCEPT !.state = 1], t + 1, t + 1)
      \/ GrowAborts(r)
  BY DEF Case8
<1> HIDE DEF qd, st
<1>3. Fit(r, rg.depth)
  <2>1. Fit([rg EXCEPT !.esc = EscFlag(Ch)], rg.depth)
    BY <1>0, FitEsc, EscFlagOK
  <2>2. Fit([[rg EXCEPT !.esc = EscFlag(Ch)] EXCEPT !.qdepth = qd], rg.depth)
    BY <1>1, <2>1, FitQdepth
  <2>3. Fit([[[rg EXCEPT !.esc = EscFlag(Ch)] EXCEPT !.qdepth = qd] EXCEPT !.state = st], rg.depth)
    BY <1>1, <2>2, FitState
  <2> QED
    BY <2>3
<1> HIDE DEF r
<1>4. Fit([Put(r, Ch) EXCEPT !.state = 1], rg.depth)
  BY <1>0, <1>3, FitPut, FitState, EventStateIs
<1> QED
  BY <1>0, <1>2, <1>3, <1>4, StoreCharInv, FinishAtomInv, GrowAbortsInv

LEMMA Case10Inv == ASSUME EventInv, Case10 PROVE EventInv'
<1>0. pc = "loop" /\ Fit(rg, rg.depth) /\ t + 1 \in Nat /\ Ch \in Char
  BY LoopFacts DEF Case10, Case
<1> DEFINE st == IF Ch = "dq" /\ rg.esc = 0 THEN 8 ELSE 10
<1>1. st \in EventStates /\ StoreChar([rg EXCEPT !.esc = EscFlag(Ch), !.state = st], Ch, t + 1)
  BY EventStateIs DEF Case10
<1> HIDE DEF st
<1>2. Fit([[rg EXCEPT !.esc = EscFlag(Ch)] EXCEPT !.state = st], rg.depth)
  BY <1>0, <1>1, FitEsc, EscFlagOK, FitState
<1>3. Fit([rg EXCEPT !.esc = EscFlag(Ch), !.state = st], rg.depth)
  BY <1>2
<1> QED
  BY <1>0, <1>1, <1>3, StoreCharInv

LEMMA Case11Inv == ASSUME EventInv, Case11 PROVE EventInv'
<1>0. pc = "loop" /\ Fit(rg, rg.depth) /\ t + 1 \in Nat
  BY LoopFacts DEF Case11, Case
<1> DEFINE st == IF Ch = "nl" THEN 1 ELSE 11
<1>1. st \in EventStates /\ Step([rg EXCEPT !.state = st], t + 1) /\ Quiet
  BY EventStateIs DEF Case11
<1> HIDE DEF st
<1> QED
  BY <1>0, <1>1, FitState, StepQuiet

LEMMA LoopExitInv == ASSUME EventInv, LoopExit PROVE EventInv'
<1>0. /\ pc = "loop" /\ Fit(rg, rg.depth) /\ rg.depth \in Nat /\ height = HeightOf(rg.depth)
      /\ t \in Nat
  BY LoopFacts DEF LoopExit
<1>1. CASE /\ rg.depth = 0 /\ height' = 0
           /\ Return("OK", [rg EXCEPT !.esc = 0, !.state = 1], t)
  <2>1. Fit([[rg EXCEPT !.esc = 0] EXCEPT !.state = 1], rg.depth)
    BY <1>0, FitEsc, FitState, EventStateIs
  <2>2. Fit([rg EXCEPT !.esc = 0, !.state = 1], rg.depth)
    BY <2>1
  <2>3. height' = HeightOf(rg.depth)
    BY <1>1 DEF HeightOf
  <2> QED
    BY <1>0, <1>1, <2>2, <2>3, ReturnInv
<1>2. CASE /\ height' = height
           /\ Return("OK", rg, IF Ch = "nul" \/ t = bufEnd THEN 0 ELSE t)
  <2> DEFINE pos == IF Ch = "nul" \/ t = bufEnd THEN 0 ELSE t
  <2>1. pos \in Nat /\ Return("OK", rg, pos)
    BY <1>0, <1>2
  <2> HIDE DEF pos
  <2> QED
    BY <1>0, <1>2, <2>1, ReturnInv
<1> QED
  BY <1>1, <1>2 DEF LoopExit

LEMMA ParserStepInv == ASSUME EventInv, ParserStep PROVE EventInv'
<1>1. CASE WalkOff
  BY <1>1, HaltInv DEF WalkOff
<1> QED
  BY <1>1, Case1Inv, Case2Inv, Case3Inv, Case4Inv, Case5Inv, Case6Inv, Case7Inv, Case8Inv,
     Case10Inv, Case11Inv, LoopExitInv DEF ParserStep
-----------------------------------------------------------------------------
(* The caller. *)
LEMMA CallInv == ASSUME EventInv, Call PROVE EventInv'
<1>1. /\ TypeOK /\ pc = "idle" /\ cc.regs \in EventRegs /\ cc.lastPos \in Nat
      /\ bufEnd \in 1..(Len(text) + 1) /\ text \in Texts
  BY DEF EventInv, TypeOK, Call
<1>2. Len(text) \in Nat /\ Cuts(text) \subseteq 2..(Len(text) + 1)
  BY <1>1, TextsAssumption, CutsAssumption
<1>3. t' \in Nat /\ bufEnd' \in 1..(Len(text) + 1)
  BY <1>1, <1>2 DEF Call
<1> QED
  BY <1>1, <1>3 DEF EventInv, TypeOK, HeightAgrees, AtomBufferInBounds, Here, Call

LEMMA CallNullInv == ASSUME EventInv, CallNull PROVE EventInv'
<1>1. cc' \in [regs : EventRegs, lastPos : Nat, error : {"OK", "BADFORM", "NULLSTRING"}]
      /\ cc'.regs = cc.regs
  BY DEF EventInv, TypeOK, CallNull
<1> QED
  BY <1>1 DEF EventInv, TypeOK, HeightAgrees, AtomBufferInBounds, Here, CallNull

LEMMA InitInv == ASSUME Init PROVE EventInv
<1>1. Fit(InitRegs, 0)
  BY FitInit
<1>2. Len(text) \in Nat
  BY TextsAssumption DEF Init
<1>3. InitRegs \in EventRegs /\ Bounded(InitRegs) /\ InitRegs.depth = 0 /\ HeightOf(0) = 0
  BY <1>1 DEF Fit, Good, EventRegs, HeightOf
<1> QED
  BY <1>2, <1>3 DEF Init, EventInv, TypeOK, HeightAgrees, AtomBufferInBounds, Here

LEMMA NextInv == EventInv /\ [Next]_vars => EventInv'
<1> SUFFICES ASSUME EventInv, [Next]_vars PROVE EventInv'
  OBVIOUS
<1>1. CASE DestroyContinuation
  BY <1>1, HaltInv DEF DestroyContinuation
<1>2. CASE UNCHANGED vars
  BY <1>2 DEF EventInv, TypeOK, HeightAgrees, AtomBufferInBounds, Here, vars
<1> QED
  BY <1>1, <1>2, ParserStepInv, CallInv, CallNullInv DEF Next, Halted

(* The inductive invariant of eparse_sexp, for every text, every way to cut *)
(* it and every buffer size.                                                *)
THEOREM EventParserInvariant == Spec => []EventInv
<1>1. Init => EventInv
  BY InitInv
<1> QED
  BY <1>1, NextInv, PTL DEF Spec

(* eparse_sexp always has a case for its state, and no counter goes below   *)
(* zero.                                                                    *)
THEOREM EventParserTypeOK == Spec => []TypeOK
<1>1. EventInv => TypeOK
  BY DEF EventInv
<1> QED
  BY <1>1, EventParserInvariant, PTL

(* The height eparse_sexp counts is that of the stack cparse_sexp would     *)
(* have, whatever the nesting and wherever calls return.                    *)
THEOREM EventParserHeight == Spec => []HeightAgrees
<1>1. EventInv => HeightAgrees
  BY DEF EventInv
<1> QED
  BY <1>1, EventParserInvariant, PTL

(* eparse_sexp writes every character and terminator inside the one buffer  *)
(* it keeps.                                                                *)
THEOREM EventParserBuffer == Spec => []AtomBufferInBounds
<1>1. EventInv => AtomBufferInBounds
  BY DEF EventInv
<1> QED
  BY <1>1, EventParserInvariant, PTL
=============================================================================
