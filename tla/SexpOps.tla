------------------------------ MODULE SexpOps ------------------------------
(***************************************************************************)
(* The operations on finished expressions of sexp_ops.c.  A function that  *)
(* the code calls on an element takes the sequence f of that element and   *)
(* what follows it by `next'.  A pointer to an element is its path from    *)
(* there: the positions of the lists around it, then its own.              *)
(***************************************************************************)
EXTENDS Expressions, SequencesExt

Nowhere == << >>

(* A path from the list, or from the next, of the first element. *)
Down(p) == IF p = Nowhere THEN Nowhere ELSE <<1>> \o p
Along(p) == IF p = Nowhere THEN Nowhere ELSE [p EXCEPT ![1] = @ + 1]

(* strcmp of val, which a binary atom does not have, with a name. *)
Matches_Prefix(x, name) ==    \* mutant
  x.ty = "VALUE" /\ x.aty # "BINARY" /\ IsPrefix(name, x.val)
Matches(x, name) == x.ty = "VALUE" /\ x.aty # "BINARY" /\ x.val = name

find_sexp[f \in Seq(Tree)] ==
  [name \in Seq(Char) |->
     IF f = << >> THEN Nowhere
     ELSE LET temp == Down(find_sexp[f[1].kids][name])
          IN  IF f[1].ty = "LIST" /\ temp # Nowhere THEN temp
              ELSE IF Matches(f[1], name) THEN <<1>>
              ELSE Along(find_sexp[Tail(f)][name])]

(* bfs_find_sexp: a loop over the values of a list, then one over its lists *)
(* that searches each to its depths.                                        *)
InValues[f \in Seq(Tree)] ==
  [name \in Seq(Char) |->
     IF f = << >> THEN Nowhere
     ELSE IF Matches(f[1], name) THEN <<1>> ELSE Along(InValues[Tail(f)][name])]
OrElse(p, q) == IF p = Nowhere THEN q ELSE p
InLists[f \in Seq(Tree)] ==
  [name \in Seq(Char) |->
     IF f = << >> THEN Nowhere
     ELSE LET rt == Down(OrElse(InValues[f[1].kids][name], InLists[f[1].kids][name]))
          IN  IF f[1].ty = "LIST" /\ rt # Nowhere THEN rt
              ELSE Along(InLists[Tail(f)][name])]
bfs_find_sexp_Depth(name, f) == find_sexp[f][name]    \* mutant
bfs_find_sexp(name, f) == OrElse(InValues[f][name], InLists[f][name])

(* An expression as the set of its elements: what each holds, and where. *)
Data(x) == [ty |-> x.ty, aty |-> x.aty, val |-> x.val]
OfList(E) == {[at |-> Down(e.at), is |-> e.is] : e \in E}
OfNext(E) == {[at |-> Along(e.at), is |-> e.is] : e \in E}
WithParts(x, kids, rest) == {[at |-> <<1>>, is |-> Data(x)]} \cup OfList(kids) \cup OfNext(rest)

(* copy_sexp, n allocations having been made and the one numbered `fail'    *)
(* being refused.  An element whose copy fails ends the list it is in: the  *)
(* caller gets NULL as its next or list and goes on.  A binary atom of      *)
(* length 0 has no bindata, which looks like a refusal.  The answer         *)
(* SEXP_ERR_BADCONTENT for an atom with a size but no bindata or val, and   *)
(* the branch for a text atom without val, are left out: Tree has no such   *)
(* atoms.                                                                   *)
Stopped_Silent(n) == [copy |-> {}, n |-> n, err |-> FALSE]    \* mutant
Stopped(n) == [copy |-> {}, n |-> n, err |-> TRUE]

copy_sexp[f \in Seq(Tree)] ==
  [fail \in Nat |-> [n \in Nat |->
     IF f = << >> THEN [copy |-> {}, n |-> n, err |-> FALSE]
     ELSE LET x == f[1]
              value == x.ty = "VALUE"
              empty == value /\ x.aty = "BINARY" /\ x.val = << >>
              list == copy_sexp[x.kids][fail][n + 1]
              next == copy_sexp[Tail(f)][fail][IF value THEN n + 2 ELSE list.n]
          IN  IF n + 1 = fail \/ empty THEN Stopped(n + 1)
              ELSE IF value /\ n + 2 = fail THEN Stopped(n + 2)
              ELSE [copy |-> WithParts(x, list.copy, next.copy),
                    n |-> next.n, err |-> list.err \/ next.err]]]
=============================================================================
