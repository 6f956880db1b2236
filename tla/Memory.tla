------------------------------- MODULE Memory -------------------------------
(* The clients of the memory functions together, under one limit. *)
EXTENDS CString, ElementCache

vars == <<used, limit, sexp_errno, str, growsize, cache, held, val, bin, lost>>
stringVars == <<str, growsize>>
cacheVars == <<cache, held, val, bin, lost>>

Init ==
  /\ used = 0 /\ limit \in Limits \ {0} /\ sexp_errno = "OK"
  /\ str = NULL /\ growsize \in GrowSizes \ {0}
  /\ cache = [k \in Kind |-> NoCache]
  /\ held = [k \in Kind |-> {}] /\ val = [o \in Obj |-> 0]
  /\ bin = [o \in Obj |-> 0] /\ lost = 0

SetLimit(n) == set_sexp_max_memory(n) /\ UNCHANGED <<used, stringVars, cacheVars>>

Next ==
  \/ StringStep /\ UNCHANGED cacheVars
  \/ CacheStep /\ UNCHANGED stringVars
  \/ \E n \in Limits : SetLimit(n)

Spec == Init /\ [][Next]_vars
-----------------------------------------------------------------------------
(* The library never uses more than the limit, whichever calls were refused *)
(* or shrank a block and whenever the limit was set: a new limit is never   *)
(* below what is in use, and size_t arithmetic never makes it look smaller. *)
WithinLimit == 0 <= used /\ used <= limit

(* What the limiter says is in use is what the program holds: the CSTRING,  *)
(* the elements and atom buffers of clients and what lies in the two        *)
(* caches, except a cache that a failing push made unreachable and the data *)
(* of a binary atom given to sexp_t_deallocate.  So after every block is    *)
(* returned sexp_cleanup leaves nothing in use but that, and each block is  *)
(* freed with the size it was allocated with.                               *)
UsedIsHeld ==
  used = StringBytes + HeldBytes + CacheBytes(cache["sexp_t"], "sexp_t")
         + CacheBytes(cache["pd"], "pd") + lost
=============================================================================
