------------------------------- MODULE Stack -------------------------------
(***************************************************************************)
(* What faststack.h promises its users, the parser and the two element     *)
(* caches: a stack of data pointers.  A push may fail for lack of memory   *)
(* and then changes nothing; a pop hands over what was pushed last.        *)
(***************************************************************************)
EXTENDS Sequences, Naturals

CONSTANTS Data, NULL

VARIABLES
  made,      \* whether there is a stack
  contents,  \* the data on it, bottom first
  got        \* the data handed over by the last operation, NULL if none

AbsInit == made = FALSE /\ contents = << >> /\ got = NULL

AbsMake ==
  /\ ~made /\ made' = TRUE
  /\ contents' = << >> /\ got' = NULL

AbsPush(d) ==
  /\ made /\ made' = TRUE
  /\ contents' = Append(contents, d) /\ got' = NULL

AbsPop ==
  /\ made /\ made' = TRUE
  /\ contents # << >>
  /\ contents' = SubSeq(contents, 1, Len(contents) - 1)
  /\ got' = contents[Len(contents)]

(* An operation that could not do anything. *)
AbsNothing == got' = NULL /\ UNCHANGED <<made, contents>>

AbsDestroy == made /\ made' = FALSE /\ contents' = << >> /\ got' = NULL

AbsNext ==
  AbsMake \/ (\E d \in Data : AbsPush(d)) \/ AbsPop \/ AbsNothing \/ AbsDestroy

AbsSpec == AbsInit /\ [][AbsNext]_<<made, contents, got>>
=============================================================================
