------------------------------ MODULE CString ------------------------------
(***************************************************************************)
(* The growing strings of cstring.c.  A CSTRING is the size of its buffer  *)
(* and the characters added since it was made or emptied; curlen is their  *)
(* number, and the terminator stands after them.  The caller of this model *)
(* owns one CSTRING at a time.                                             *)
(***************************************************************************)
EXTENDS MemoryLimit, Sequences

CONSTANTS
  CStringSize,  \* sizeof(CSTRING)
  StartSizes,   \* the sizes passed to snew
  GrowSizes,    \* the sizes passed to sgrowsize
  Pieces        \* the strings passed to sadd and, of length 1, to saddch

ASSUME StringSizesAssumption ==
  /\ CStringSize \in Nat \ {0}
  /\ StartSizes \subseteq Nat /\ GrowSizes \subseteq Nat
  /\ \A a \in Pieces : a \in Seq(STRING)
ASSUME NullAssumption == NULL \notin [len : Nat, base : Seq(STRING)]

VARIABLES
  str,        \* the caller's CSTRING
  growsize    \* cstring_growsize

Curlen(cs) == Len(cs.base)
NoMemory == sexp_errno' = "MEMORY"

sgrowsize(s) ==
  /\ growsize' = IF s < 1 THEN growsize ELSE s
  /\ UNCHANGED <<used, limit, sexp_errno, str>>

snew(s) ==
  /\ str = NULL
  /\ UNCHANGED <<limit, growsize>>
  /\ \E u \in sexp_malloc(used, CStringSize) :
       \/ /\ u = Refused
          /\ NoMemory /\ UNCHANGED <<used, str>>
       \/ /\ u # Refused
          /\ \E v \in sexp_calloc(u, 1, s) :
               \/ /\ v = Refused
                  /\ used' = sexp_free(u, CStringSize)
                  /\ NoMemory /\ UNCHANGED str
               \/ /\ v # Refused
                  /\ used' = v /\ str' = [len |-> s, base |-> << >>]
                  /\ UNCHANGED sexp_errno

(* sadd, and saddch for one character: the buffer must hold what is added   *)
(* and the terminator.  When it cannot grow the string stays as it was.     *)
MustGrow_OneLate(cs, n) == Curlen(cs) + n > cs.len    \* mutant
MustGrow(cs, n) == Curlen(cs) + n >= cs.len

sadd(a) ==
  /\ str # NULL
  /\ UNCHANGED <<limit, growsize>>
  /\ LET n == Len(a)
         newlen == str.len + growsize + n
     IN  IF ~MustGrow(str, n)
         THEN str' = [str EXCEPT !.base = @ \o a] /\ UNCHANGED <<used, sexp_errno>>
         ELSE \E u \in sexp_realloc(used, newlen, str.len) :
                \/ u = Refused /\ NoMemory /\ UNCHANGED <<used, str>>
                \/ /\ u # Refused
                   /\ used' = u /\ str' = [len |-> newlen, base |-> str.base \o a]
                   /\ UNCHANGED sexp_errno

strim ==
  /\ str # NULL
  /\ UNCHANGED <<limit, growsize>>
  /\ LET newlen == Curlen(str) + 1
     IN  IF str.len = newlen THEN UNCHANGED <<used, str, sexp_errno>>
         ELSE \E u \in sexp_realloc(used, newlen, str.len) :
                \/ u = Refused /\ NoMemory /\ UNCHANGED <<used, str>>
                \/ /\ u # Refused
                   /\ used' = u /\ str' = [str EXCEPT !.len = newlen]
                   /\ UNCHANGED sexp_errno

sempty ==
  /\ str # NULL
  /\ str' = [str EXCEPT !.base = << >>]
  /\ UNCHANGED <<used, limit, sexp_errno, growsize>>

sdestroy ==
  /\ str # NULL
  /\ used' = sexp_free(sexp_free(used, str.len), CStringSize)
  /\ str' = NULL
  /\ UNCHANGED <<limit, sexp_errno, growsize>>

StringStep ==
  \/ \E s \in GrowSizes : sgrowsize(s)
  \/ \E s \in StartSizes : snew(s)
  \/ \E a \in Pieces : sadd(a)
  \/ strim \/ sempty \/ sdestroy

(* Bytes a CSTRING holds. *)
StringBytes == IF str = NULL THEN 0 ELSE CStringSize + str.len

(* The terminator that sadd and saddch write after the last character lies  *)
(* inside the buffer, whatever the sizes given to snew and sgrowsize and    *)
(* wherever a string was trimmed or emptied (cstring.h: len >= curlen).     *)
TerminatorInside == str # NULL /\ str.base # << >> => Curlen(str) < str.len
=============================================================================
