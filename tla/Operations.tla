----------------------------- MODULE Operations -----------------------------
(***************************************************************************)
(* The calls of sexp_ops.c on the expressions that are printed: the name   *)
(* looked for, or the allocation that is refused, and the answer.          *)
(***************************************************************************)
EXTENDS PrintedText, SexpOps

CONSTANTS
  Names,       \* the names to look for
  Refusals     \* the numbers of the allocation that is refused, 0 for none
ASSUME NamesAssumption == Names \subseteq Seq(Char)
ASSUME RefusalsAssumption == Refusals \subseteq Nat

VARIABLE answer    \* what an operation of sexp_ops.c returned

Asked == pc' = "asked" /\ UNCHANGED <<job, str, stack, depth, tc, b, left, ret, sexp_errno>>
Find(name) ==
  /\ pc = "call" /\ Asked
  /\ answer' = [op |-> "find", name |-> name, at |-> find_sexp[job.sx][name]]
BfsFind(name) ==
  /\ pc = "call" /\ Asked
  /\ answer' = [op |-> "bfs", name |-> name, at |-> bfs_find_sexp(name, job.sx)]
Copy(fail) ==
  /\ pc = "call" /\ Asked
  /\ answer' = [op |-> "copy", fail |-> fail, result |-> copy_sexp[job.sx][fail][0]]

OpsInit == Init /\ answer = [op |-> "none"]
Ask ==
  \/ \E name \in Names : Find(name) \/ BfsFind(name)
  \/ \E fail \in Refusals : Copy(fail)
OpsNext == (Next /\ UNCHANGED answer) \/ Ask
OpsSpec == OpsInit /\ [][OpsNext]_<<vars, answer>>
-----------------------------------------------------------------------------
(* The elements of an expression, and where those with a name are. *)
Elements[f \in Seq(Tree)] ==
  IF f = << >> THEN {} ELSE WithParts(f[1], Elements[f[1].kids], Elements[Tail(f)])
Named(x, name) == x.ty = "VALUE" /\ x.aty # "BINARY" /\ x.val = name
Found(f, name) == {e.at : e \in {d \in Elements[f] : Named(d.is, name)}}

(* The list that p is in is around q; p comes before q in the text.         *)
Encloses(p, q) == Len(p) <= Len(q) /\ \A i \in 1..(Len(p) - 1) : p[i] = q[i]
Before(p, q) ==
  \E i \in 1..Len(p) : i <= Len(q) /\ p[i] < q[i] /\ \A j \in 1..(i - 1) : p[j] = q[j]

(* Where their paths part, p is in the list itself and q in a list of that  *)
(* list, or they are alike in this and p comes before q.                    *)
Sooner(p, q) ==
  \E i \in 1..Len(p) :
    /\ i <= Len(q) /\ \A j \in 1..(i - 1) : p[j] = q[j]
    /\ \/ i = Len(p) /\ i < Len(q)
       \/ (i = Len(p) <=> i = Len(q)) /\ p[i] < q[i]

(* find_sexp returns the earliest atom of the text with that value.         *)
FindsFirst ==
  answer.op = "find" =>
    LET all == Found(job.sx, answer.name)
    IN  IF all = {} THEN answer.at = Nowhere
        ELSE /\ answer.at \in all
             /\ \A p \in all : p = answer.at \/ Before(answer.at, p)

(* bfs_find_sexp returns the first atom with that value in the order of     *)
(* Sooner: the first of its list, with none directly in a list around it    *)
(* and none in an earlier list.  It need not be the instance with the       *)
(* lowest depth of sexp_ops.h:95-97, since the lists of a list are searched *)
(* to their depths one after the other.                                     *)
BfsFindsInOrder ==
  answer.op = "bfs" =>
    LET all == Found(job.sx, answer.name)
    IN  IF all = {} THEN answer.at = Nowhere
        ELSE /\ answer.at \in all
             /\ \A p \in all : p = answer.at \/ Sooner(answer.at, p)

(* copy_sexp returns the expression.  When it does not, sexp_errno says so, *)
(* memory was refused or an empty binary atom is there, and what it returns *)
(* is the expression with the ends of some lists missing.                   *)
CopiesOrReports ==
  answer.op = "copy" =>
    LET r == answer.result
        all == Elements[job.sx]
    IN  /\ r.copy \subseteq all
        /\ \A e \in r.copy, d \in all :
             Encloses(d.at, e.at) /\ d.at[Len(d.at)] <= e.at[Len(d.at)] => d \in r.copy
        /\ r.err <=> r.copy # all
        /\ r.err => \/ answer.fail \in 1..r.n
                    \/ \E e \in all : e.is.aty = "BINARY" /\ e.is.val = << >>
=============================================================================
