------------------------------ MODULE MCMemory ------------------------------
(* An instance of Memory for TLC: blocks of one to three bytes under limits *)
(* of a few blocks, so that every call meets its refusals.                  *)
EXTENDS Memory

Letters == {<<"c">>, <<"c", "c">>}
BlockSizes == [k \in Kind |-> IF k = "sexp_t" THEN 2 ELSE 1]
=============================================================================
