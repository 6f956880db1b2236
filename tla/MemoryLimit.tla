---------------------------- MODULE MemoryLimit ----------------------------
(***************************************************************************)
(* The memory functions of sexp_memory.c, built with _SEXP_LIMIT_MEMORY_:  *)
(* they stand between the library and malloc, count the bytes in use and   *)
(* refuse a request that would exceed a limit.  Each is an operator from   *)
(* the bytes in use before the call to the possible values after it, so    *)
(* that a function of the library that allocates several blocks is one     *)
(* action that threads the count through its calls.                        *)
(***************************************************************************)
EXTENDS Integers

CONSTANTS
  NULL,       \* the null pointer
  SizeRange,  \* number of values of a size_t
  Limits      \* the values a caller passes to set_sexp_max_memory

ASSUME RangeAssumption == SizeRange \in Nat \ {0}
ASSUME LimitsAssumption == Limits \subseteq 0..(SizeRange - 1)

VARIABLES
  used,       \* sexp_used_memory
  limit,      \* sexp_max_memory
  sexp_errno

Refused == -1

Granted_NotAdded(u, size, oldsize) ==    \* mutant: the limit tested without the request
  LET after == (u + ((size - oldsize) % SizeRange)) % SizeRange
  IN  {Refused} \cup {v \in {after} : u <= limit /\ u + size - oldsize < SizeRange}

(* The count and the test are in size_t.  malloc gives nothing beyond the   *)
(* address space, and may refuse anything: MEM_LIMIT, which the limiter     *)
(* reports, and a plain refusal end as MEMORY in every caller.              *)
Granted(u, size, oldsize) ==
  LET after == (u + ((size - oldsize) % SizeRange)) % SizeRange
  IN  {Refused} \cup {v \in {after} : v <= limit /\ u + size - oldsize < SizeRange}

sexp_malloc(u, size) == Granted(u, size, 0)
sexp_calloc(u, count, size) == Granted(u, count * size, 0)
sexp_realloc(u, size, oldsize) == Granted(u, size, oldsize)

(* A count that would become negative is left alone, with a message. *)
sexp_free(u, size) == IF u < size THEN u ELSE u - size
sexp_free_all(u, n, size) == IF u < n * size THEN u % size ELSE u - n * size

set_sexp_max_memory(newsize) ==
  IF newsize > 0 /\ newsize >= used
  THEN limit' = newsize /\ sexp_errno' = sexp_errno
  ELSE limit' = limit /\ sexp_errno' = "BAD_PARAM"
=============================================================================
