---------------------------- MODULE Expressions ----------------------------
(***************************************************************************)
(* Finished expressions (sexp_t): records of type, kind of atom,           *)
(* characters (or bytes, for a binary atom) and contents.  `next' links    *)
(* the elements of a list into a sequence, `list' of a list is the         *)
(* sequence of its contents.                                               *)
(***************************************************************************)
EXTENDS Integers, Sequences

CONSTANTS
  Char,        \* the characters of atoms and the bytes of binary atoms
  Tree,        \* the expressions, with all their parts
  Height(_)    \* how deep an expression is nested

ASSUME TreeAssumption ==
  LET T == Tree
  IN  \A x \in T : /\ x.ty \in {"LIST", "VALUE"}
                   /\ x.val \in Seq(Char) /\ x.kids \in Seq(T)
ASSUME AtomAssumption ==
  LET T == Tree
  IN  \A x \in T : x.ty = "VALUE" => x.kids = << >>

(* Expressions are finite: what is in a list is less deep than the list. *)
ASSUME HeightAssumption ==
  LET T == Tree
  IN  \A x \in T : /\ Height(x) \in Nat
                   /\ \A i \in 1..Len(x.kids) : Height(x.kids[i]) < Height(x)
=============================================================================
