-------------------------- MODULE RegistersProofs --------------------------
(* Lemmas about the registers, for the proofs of both parsers. *)
EXTENDS Registers, TLAPS

Good(r) == r \in Regs /\ Bounded(r)

(* A new continuation has a buffer with room for a terminator. *)
LEMMA InitRegsGood == Good(InitRegs)
  BY SizesAssumption DEF Good, InitRegs, Regs, Bounded

(* Any contents shorter than the buffer will do. *)
LEMMA SetAtom ==
  ASSUME NEW r \in Regs, NEW v \in Seq(Char), NEW u \in Nat, NEW a \in Nat, NEW p,
         p = [r EXCEPT !.val = v, !.val_used = u, !.val_allocated = a],
         r.hasval, Len(v) <= u, u < a
  PROVE  Good(p)
<1>1. p \in Regs
  BY DEF Regs
<1>2. p.val = v /\ p.val_used = u /\ p.val_allocated = a /\ p.hasval = r.hasval
  BY DEF Regs
<1> QED
  BY <1>1, <1>2 DEF Good, Bounded

(* Storing a character keeps room for one more: the growth test. *)
LEMMA PutGood ==
  ASSUME NEW r, Good(r), NEW c \in Char
  PROVE  Good(Put(r, c))
<1>1. /\ r \in Regs /\ r.val \in Seq(Char) /\ r.val_used \in Nat /\ r.val_allocated \in Nat
      /\ r.hasval /\ Len(r.val) <= r.val_used /\ r.val_used < r.val_allocated
  BY DEF Good, Regs, Bounded
<1>2. CASE Full(r)
  <2> DEFINE v == [i \in 1..(r.val_used + 1) |->
                     IF i <= Len(r.val) THEN r.val[i]
                     ELSE IF i = Len(r.val) + 1 THEN c ELSE "ctl"]
             u == r.val_used + 1
             a == r.val_allocated + GrowSize
  <2>1. v \in Seq(Char) /\ Len(v) = u
    <3>1. \A i \in 1..(r.val_used + 1) :
            (IF i <= Len(r.val) THEN r.val[i]
             ELSE IF i = Len(r.val) + 1 THEN c ELSE "ctl") \in Char
      BY <1>1 DEF Char
    <3>2. u \in Nat /\ v \in [1..u -> Char]
      BY <1>1, <3>1
    <3> HIDE DEF v, u
    <3> QED
      BY <3>2
  <2>2. Put(r, c) = [r EXCEPT !.val = v, !.val_used = u, !.val_allocated = a]
    BY <1>1, <1>2 DEF Put, Regs
  <2>3. u \in Nat /\ a \in Nat /\ u < a
    BY <1>1, <1>2, SizesAssumption DEF Full
  <2>4. Len(v) <= u
    BY <2>1, <2>3
  <2> HIDE DEF v, u, a
  <2> QED
    BY <1>1, <2>1, <2>2, <2>3, <2>4, SetAtom
<1>3. CASE ~Full(r)
  <2> DEFINE v == Append(r.val, c)
             u == r.val_used + 1
             a == r.val_allocated
  <2>1. v \in Seq(Char) /\ Len(v) = Len(r.val) + 1
    BY <1>1
  <2>2. Put(r, c) = [r EXCEPT !.val = v, !.val_used = u, !.val_allocated = a]
    BY <1>1, <1>3 DEF Put, Regs
  <2>3. u \in Nat /\ a \in Nat /\ u < a /\ Len(v) <= u
    BY <1>1, <1>3, <2>1 DEF Full
  <2> HIDE DEF v, u, a
  <2> QED
    BY <1>1, <2>1, <2>2, <2>3, SetAtom
<1> QED
  BY <1>2, <1>3

(* Starting again at the front of the buffer. *)
LEMMA Emptied ==
  ASSUME NEW r, Good(r) PROVE Good([r EXCEPT !.val = << >>, !.val_used = 0])
<1>1. /\ r \in Regs /\ r.hasval /\ r.val_allocated \in Nat /\ 0 < r.val_allocated
  BY DEF Good, Regs, Bounded
<1>2. << >> \in Seq(Char) /\ Len(<< >>) <= 0 /\ 0 \in Nat
  OBVIOUS
<1> DEFINE a == r.val_allocated
<1>3. [r EXCEPT !.val = << >>, !.val_used = 0]
        = [r EXCEPT !.val = << >>, !.val_used = 0, !.val_allocated = a]
  BY <1>1 DEF Regs
<1> QED
  BY <1>1, <1>2, <1>3, SetAtom

(* The count that includes the terminator. *)
LEMMA CountUp ==
  ASSUME NEW r \in Regs
  PROVE  /\ [r EXCEPT !.val_used = @ + 1] \in Regs
         /\ [r EXCEPT !.val_used = @ + 1].hasval = r.hasval
<1>1. r.val_used + 1 \in Nat
  BY DEF Regs
<1> DEFINE u == r.val_used + 1
<1> HIDE DEF u
<1>2. [r EXCEPT !.val_used = u] \in Regs /\ [r EXCEPT !.val_used = u].hasval = r.hasval
  <2>1. u \in Nat
    BY <1>1 DEF u
  <2> QED
    BY <2>1 DEF Regs
<1> QED
  BY <1>2 DEF u

(* The registers other than the atom buffer. *)
LEMMA SetState ==
  ASSUME NEW r, Good(r), NEW n \in 1..15 PROVE Good([r EXCEPT !.state = n])
  BY DEF Good, Regs, Bounded

LEMMA SetEsc ==
  ASSUME NEW r, Good(r), NEW x \in {0, 1} PROVE Good([r EXCEPT !.esc = x])
  BY DEF Good, Regs, Bounded

LEMMA SetSquoted ==
  ASSUME NEW r, Good(r), NEW x \in {0, 1} PROVE Good([r EXCEPT !.squoted = x])
  BY DEF Good, Regs, Bounded

LEMMA SetDepth ==
  ASSUME NEW r, Good(r), NEW n \in Nat PROVE Good([r EXCEPT !.depth = n])
  BY DEF Good, Regs, Bounded

(* unsigned arithmetic. *)
LEMMA Wraps == ASSUME NEW x \in Int, NEW n \in Nat \ {0} PROVE x % n \in 0..(n - 1)
  OBVIOUS

LEMMA SetQdepth ==
  ASSUME NEW r, Good(r), NEW n \in 0..(UIntRange - 1) PROVE Good([r EXCEPT !.qdepth = n])
  BY DEF Good, Regs, Bounded

(* vcur = val. *)
LEMMA Restart == ASSUME NEW r, Good(r) PROVE Good([r EXCEPT !.val = << >>])
<1> DEFINE v == << >>
           p == [r EXCEPT !.val = v]
<1>1. v \in Seq(Char) /\ Len(v) = 0
  OBVIOUS
<1> HIDE DEF v
<1>2. r \in Regs /\ r.val_used \in Nat /\ Len(r.val) \in Nat
  BY DEF Good, Regs
<1>3. p \in Regs /\ p.val = v /\ p.val_used = r.val_used /\ p.val_allocated = r.val_allocated
      /\ p.hasval = r.hasval
  BY <1>1, <1>2 DEF Regs
<1> HIDE DEF p
<1>4. Good(p)
  BY <1>1, <1>2, <1>3 DEF Good, Bounded
<1> QED
  BY <1>4 DEF p, v

(* esc is a flag. *)
LEMMA EscFlagOK == \A c : EscFlag(c) \in {0, 1}
  BY DEF EscFlag

(* An escaped character takes no room. *)
LEMMA UnescapeGood ==
  ASSUME NEW r, Good(r), NEW c \in Char, r.val # << >>
  PROVE  Good(Unescape(r, c))
<1>1. r.val \in Seq(Char)
  BY DEF Good, Regs
<1> DEFINE v == [r.val EXCEPT ![Len(r.val)] = c]
<1>2. v \in Seq(Char) /\ Len(v) = Len(r.val)
  BY <1>1
<1>3. Unescape(r, c) = [r EXCEPT !.val = v, !.esc = 0]
  BY DEF Unescape
<1> HIDE DEF v
<1> QED
  BY <1>2, <1>3 DEF Good, Regs, Bounded

(* The cases of the switch. *)
LEMMA States == \A n \in {1, 2, 3, 4, 5, 6, 7, 8, 10, 11, 12, 13, 14, 15} : n \in 1..15
  OBVIOUS

LEMMA RestartState ==
  ASSUME NEW r, Good(r), NEW n \in 1..15 PROVE Good([r EXCEPT !.state = n, !.val = << >>])
<1>1. Good([[r EXCEPT !.state = n] EXCEPT !.val = << >>])
  BY SetState, Restart
<1> QED
  BY <1>1

(* The registers of a call that hands over an expression, or refuses one. *)
LEMMA ResetGood == ASSUME NEW r, Good(r) PROVE Good([r EXCEPT !.esc = 0, !.state = 1])
<1>1. Good([[r EXCEPT !.esc = 0] EXCEPT !.state = 1])
  BY SetEsc, SetState, States
<1> QED
  BY <1>1
=============================================================================
