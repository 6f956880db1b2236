------------------------------ MODULE Registers ------------------------------
(***************************************************************************)
(* What the two parsers of sfsexp, cparse_sexp (parser.c) and eparse_sexp  *)
(* (event_temp.c), have in common: the characters they tell apart and the  *)
(* registers of their loop that a continuation saves, with the atom buffer *)
(* among them.  `val' is the part of the atom buffer before vcur, bindata  *)
(* the part already read, so that vcur and binread are the lengths of the  *)
(* two; hasval and hasbin say whether the pointers are not NULL.           *)
(***************************************************************************)
EXTENDS Integers, Sequences

CONSTANTS
  StartSize,  \* sexp_val_start_size
  GrowSize,   \* sexp_val_grow_size
  UIntRange   \* number of values of an unsigned int, for qdepth

ASSUME SizesAssumption ==
  /\ StartSize \in Nat \ {0} /\ GrowSize \in Nat \ {0}
  /\ UIntRange \in Nat \ {0}

White == {"sp", "nl"}
Escapable == {"dq", "lp", "rp", "sq", "bs"}
AtomChar == {"semi", "bs", "hash", "b", "0", "1", "2", "-", "a"}
Char == White \cup Escapable \cup AtomChar \cup {"ctl", "nul"}

Regs ==
  [state : 1..15, depth : Nat, qdepth : 0..(UIntRange - 1), esc : {0, 1},
   squoted : {0, 1}, val : Seq(Char), val_used : Nat, val_allocated : Nat,
   hasval : BOOLEAN, binexpected : Nat, bindata : Seq(Char), hasbin : BOOLEAN]

(* The registers as init_continuation leaves them. *)
InitRegs ==
  [state |-> 1, depth |-> 0, qdepth |-> 0, esc |-> 0, squoted |-> 0,
   val |-> << >>, val_used |-> 0, val_allocated |-> StartSize, hasval |-> TRUE,
   binexpected |-> 0, bindata |-> << >>, hasbin |-> FALSE]

EscFlag(c) == IF c = "bs" THEN 1 ELSE 0

(* vcur[0] = c with its growth test.  When vcur and val_used disagree, the *)
(* growth moves vcur past bytes nobody wrote.                              *)
Full_OneLate(r) == r.val_used = r.val_allocated    \* mutant: tested before the count
Full(r) == r.val_used + 1 = r.val_allocated
Put(r, c) ==
  IF Full(r)
  THEN [r EXCEPT !.val = [i \in 1..(r.val_used + 1) |->
                            IF i <= Len(r.val) THEN r.val[i]
                            ELSE IF i = Len(r.val) + 1 THEN c ELSE "ctl"],
                 !.val_used = @ + 1, !.val_allocated = @ + GrowSize]
  ELSE [r EXCEPT !.val = Append(@, c), !.val_used = @ + 1]

(* An escaped character overwrites the backslash before vcur. *)
Unescape(r, c) == [r EXCEPT !.val = [@ EXCEPT ![Len(r.val)] = c], !.esc = 0]

(* The registers have room for the next character and for the terminator. *)
Bounded(r) == r.hasval /\ Len(r.val) <= r.val_used /\ r.val_used < r.val_allocated
=============================================================================
