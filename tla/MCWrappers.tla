----------------------------- MODULE MCWrappers -----------------------------
(* Instances of Wrappers for TLC, and the properties that need the grammar. *)
EXTENDS Wrappers, MCTexts

Inputs == {<< >>} \cup Words(1, {"a", "rp"}) \cup Words(5, {"lp", "rp", "sp", "a", "dq"})
SplitInputs == {<<"dq", "a", "sp", "a", "dq", "sp">>}
-----------------------------------------------------------------------------
Expected == Grammar(input, FALSE)

(* read_one_sexp hands over the expressions of the file, one per call.      *)
DeliversFile == calls > 0 => IsPrefix(out, Expected.trees)

(* It does so however the reads divide the file, as long as no call had to  *)
(* report an error or a lack of data; and once a read finds nothing all the *)
(* expressions of the file have been handed over.                           *)
DeliversUntilError ==
  calls > 0 /\ clean =>
    /\ IsPrefix(out, Expected.trees)
    /\ at = "out" /\ sexp_errno = "IO_EMPTY" => out = Expected.trees

(* parse_sexp returns the first expression of the string, with or without   *)
(* white space after it, and NULL if there is none.                         *)
ParsesFirst ==
  pc = "done" /\ at \in {"string", "blank"} /\ sexp_errno # "MEMORY" =>
    LET g == Grammar(input \o <<"nl">>, FALSE).trees
    IN  out = IF g = << >> THEN << >> ELSE <<g[1]>>
=============================================================================
