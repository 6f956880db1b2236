---------------------------- MODULE PrintedText ----------------------------
(***************************************************************************)
(* What print_sexp and print_sexp_cstr are to write: the text of an        *)
(* expression by its structure, with no stack and no buffer, and the sizes *)
(* of buffers that print_sexp overruns.  A sequence of expressions is the  *)
(* contents of a list, or the expression passed in.                        *)
(***************************************************************************)
EXTENDS Printer, SequencesExt

Quoted[v \in Seq(Char)] ==
  IF v = << >> THEN << >>
  ELSE (IF v[1] \in {"dq", "bs"} THEN <<"bs", v[1]>> ELSE <<v[1]>>) \o Quoted[Tail(v)]

AtomText(x) ==
  CASE x.aty = "DQUOTE" -> <<"dq">> \o Quoted[x.val] \o <<"dq">>
    [] x.aty = "SQUOTE" -> <<"sq">> \o x.val
    [] x.aty = "BINARY" ->
         <<"hash", "b", "hash">> \o Decimal(Len(x.val)) \o <<"hash">> \o x.val \o <<"sp">>
    [] OTHER -> x.val

Joined[f \in Seq(Tree)] ==
  IF f = << >> THEN << >>
  ELSE (IF f[1].ty = "LIST" THEN <<"lp">> \o Joined[f[1].kids] \o <<"rp">>
        ELSE AtomText(f[1]))
       \o (IF Tail(f) = << >> THEN << >> ELSE <<"sp">> \o Joined[Tail(f)])
Printed(x) ==
  IF x.ty = "LIST" THEN <<"lp">> \o Joined[x.kids] \o <<"rp">> ELSE AtomText(x)

(* For the text of f that starts after `at' characters: the sizes at which  *)
(* the data of a binary atom ends exactly where the buffer does, and those  *)
(* too small for the prefix of one that comes first.                        *)
Edges[f \in Seq(Tree)] ==
  [at \in Nat |->
     IF f = << >> THEN {}
     ELSE LET x == f[1]
              end == at + Len(Printed(x))
          IN  (IF x.aty = "BINARY" THEN {end - 1} \cup (IF at = 0 THEN 1..3 ELSE {}) ELSE {})
              \cup Edges[x.kids][at + 1] \cup Edges[Tail(f)][end + 1]]
-----------------------------------------------------------------------------
(* print_sexp writes outside the buffer it was given only at those sizes,   *)
(* and for NULL only when there is no buffer: at every other size it stays  *)
(* inside, whatever the expression.                                         *)
OutsideOnlyAtEdges ==
  pc = "undefined" =>
    job.size \in Edges[job.sx][0] \/ (job.sx = << >> /\ job.size = 0)

(* print_sexp puts the whole text into the buffer and returns its length,   *)
(* or the beginning of the text and returns -1 with SEXP_ERR_BUFFER_FULL,   *)
(* and that exactly when the text and its terminator do not fit.  What it   *)
(* leaves is always shorter than the buffer.                                *)
PrintsText ==
  pc = "done" /\ job.fn = "print_sexp" /\ sexp_errno # "MEMORY" /\ job.size > 0 =>
    LET text == Joined[job.sx]
    IN  /\ Len(b) < job.size
        /\ IF Len(text) < job.size THEN ret = Len(text) /\ b = text
           ELSE ret = -1 /\ sexp_errno = "BUFFER_FULL" /\ IsPrefix(b, text)

(* print_sexp_cstr adds the text to the string it is given and returns its  *)
(* length.  Otherwise there was no memory: it returns -1 with the string as *)
(* it was, or 0 with no string.                                             *)
AddsText ==
  pc = "done" /\ job.fn = "print_sexp_cstr" /\ job.sx # << >> =>
    IF sexp_errno = "MEMORY"
    THEN (ret = -1 /\ str = job.old) \/ (ret = 0 /\ str = NULL)
    ELSE /\ str = (IF job.old = NULL THEN << >> ELSE job.old) \o Joined[job.sx]
         /\ ret = Len(str)
=============================================================================
