----------------------------- MODULE MCPrinter -----------------------------
(* Printing, and the operations on expressions, on every small expression. *)
EXTENDS Operations, SexpGrammar

Atoms ==
  {AtomTree("BASIC", <<"a">>), AtomTree("SQUOTE", <<"a">>), AtomTree("DQUOTE", << >>),
   AtomTree("DQUOTE", <<"a">>), AtomTree("DQUOTE", <<"a", "bs", "dq">>),
   AtomTree("SQUOTE", <<"lp", "a", "rp">>),
   AtomTree("BINARY", << >>), AtomTree("BINARY", <<"nul", "rp">>)}
UpTo(n, S) == UNION {[1..m -> S] : m \in 0..n}
Lists(S) == {ListTree(f) : f \in UpTo(2, S)}
Few == {AtomTree("BASIC", <<"a">>), AtomTree("DQUOTE", <<"dq">>), AtomTree("BINARY", <<"rp">>)}
SmallExpressions ==
  Atoms \cup Lists(Atoms) \cup Lists(Few \cup Lists(Few))
  \cup {ListTree(<<ListTree(f), AtomTree("BASIC", <<"b">>), x>>) :
          f \in UpTo(2, Few \cup {AtomTree("BASIC", <<"b">>)}),
          x \in Lists(Few \cup {AtomTree("BASIC", <<"b">>)})}
  \cup {ListTree(<<ListTree(<<ListTree(f)>>), ListTree(g)>>) :
          f, g \in UpTo(1, {AtomTree("BASIC", <<"a">>), AtomTree("BASIC", <<"b">>)})}

(* What an expression is made of, down to its third level. *)
Parts(T) == T \cup UNION {Range(x.kids) : x \in T}
AllTrees == Parts(Parts(SmallExpressions))

Characters == {"a", "nul", "0", "1", "2"} \cup Marks
DigitsOf(n) == <<<<"0">>, <<"1">>, <<"2">>>>[n + 1]

RECURSIVE Nesting(_)
Nesting(x) == IF x.kids = << >> THEN 0 ELSE 1 + Max({Nesting(y) : y \in Range(x.kids)})

BufferJob(sx, n) == [fn |-> "print_sexp", sx |-> sx, size |-> n, old |-> NULL]
AllJobs ==
  {BufferJob(<< >>, n) : n \in 0..1}
  \cup {BufferJob(<<x>>, n) : x \in SmallExpressions, n \in 0..20}
  \cup {[fn |-> "print_sexp_cstr", sx |-> f, size |-> 0, old |-> old] :
          f \in {<<x>> : x \in SmallExpressions} \cup {<< >>}, old \in {NULL, << >>, <<"a">>}}
EdgeJobs == {BufferJob(<<ListTree(<<AtomTree("BINARY", <<"rp">>)>>)>>, n) : n \in 1..12}
-----------------------------------------------------------------------------
SomeNames == {<<"a">>, <<"b">>, <<"dq">>}
UpToSix == 0..6
MCNext ==
  \/ Next /\ UNCHANGED answer
  \/ job.old = << >> /\ Ask    \* once for each expression
  \/ pc \in {"asked", "done", "undefined"} /\ UNCHANGED <<vars, answer>>
MCSpec == OpsInit /\ [][MCNext]_<<vars, answer>>
-----------------------------------------------------------------------------
(* Parsing what print_sexp wrote gives back the expression.  (Atoms that    *)
(* are not double-quoted are printed as they are: one that holds a quote, a *)
(* parenthesis or a backslash is not among the expressions of this run.)    *)
RoundTrip ==
  pc = "done" /\ job.fn = "print_sexp" /\ ret > 0 =>
    Grammar(b \o <<"sp">>, TRUE).trees = job.sx
=============================================================================
