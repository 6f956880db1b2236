---------------------------- MODULE ElementCache ----------------------------
(***************************************************************************)
(* The two caches of parser.c, of sexp_t elements and of parse_data_t      *)
(* records, in the build with memory management: a faststack each, made on *)
(* first use, from which the allocation functions pop and to which the     *)
(* deallocation functions push.  Clients are the constructors of sexp.c,   *)
(* destroy_sexp for a single element, and the parser's pd_allocate and     *)
(* pd_deallocate.                                                          *)
(***************************************************************************)
EXTENDS MemoryLimit, Sequences, SequencesExt, FiniteSets

CONSTANTS
  Obj,        \* the elements, or records, that there may be
  ObjSize,    \* for "sexp_t" and "pd", its size
  StackSize,  \* sizeof(faststack_t)
  LevelSize,  \* sizeof(stack_lvl_t)
  AtomSizes   \* the lengths passed to new_sexp_atom and new_sexp_binary_atom

Kind == {"sexp_t", "pd"}

ASSUME CacheSizesAssumption ==
  /\ ObjSize \in [Kind -> Nat \ {0}] /\ NULL \notin Obj
  /\ StackSize \in Nat \ {0} /\ LevelSize \in Nat \ {0}
  /\ AtomSizes \subseteq Nat

VARIABLES
  cache,  \* sexp_t_cache and pd_cache: what is on the stack, and its levels
  held,   \* what clients hold
  val,    \* val_allocated of the elements clients hold, 0 when val is NULL
  bin,    \* binlength of those, 0 when bindata is NULL
  lost    \* ghost: bytes nothing refers to any more

NoCache == [made |-> FALSE, data |-> << >>, levels |-> 0]

Fresh(k, c) == CHOOSE o \in Obj : o \notin held[k] \cup Range(c.data)
CanMake(k, c) == held[k] \cup Range(c.data) # Obj

(* make_stack, if the cache does not exist: the bytes in use after it. *)
Stacked(u, c) == IF c.made THEN {u} ELSE sexp_malloc(u, StackSize)

(* The outcomes of sexp_t_allocate and pd_allocate. *)
allocate_KeepsTop(u, c, k) ==    \* mutant: the top of the cache read, not popped
  IF c.data # << >> THEN {[used |-> u, cache |-> c, obj |-> Last(c.data)]}
  ELSE {[used |-> u, cache |-> c, obj |-> NULL]}
         \cup UNION {{[used |-> IF v = Refused THEN s ELSE v,
                       cache |-> [c EXCEPT !.made = TRUE],
                       obj |-> IF v = Refused THEN NULL ELSE Fresh(k, c)] :
                         v \in sexp_malloc(s, ObjSize[k])} :
                       s \in Stacked(u, c) \ {Refused}}
allocate(u, c, k) ==
  IF c.data # << >>
  THEN {[used |-> u, cache |-> [c EXCEPT !.data = Front(@)], obj |-> Last(c.data)]}
  ELSE {[used |-> u, cache |-> c, obj |-> NULL]}
         \cup UNION {{[used |-> IF v = Refused THEN s ELSE v,
                       cache |-> [c EXCEPT !.made = TRUE],
                       obj |-> IF v = Refused THEN NULL ELSE Fresh(k, c)] :
                         v \in sexp_malloc(s, ObjSize[k])} :
                       s \in Stacked(u, c) \ {Refused}}

CacheBytes(c, k) ==
  IF c.made THEN StackSize + c.levels * LevelSize + Len(c.data) * ObjSize[k] ELSE 0

(* push onto a cache.  A level above the top is reused; when a new one is   *)
(* refused push returns NULL, which replaces the pointer to the cache.      *)
Pushed(u, c, k, o) ==
  IF Len(c.data) < c.levels
  THEN {[used |-> u, cache |-> [c EXCEPT !.data = Append(@, o)], lost |-> 0]}
  ELSE {[used |-> IF v = Refused THEN u ELSE v,
         cache |-> IF v = Refused THEN NoCache
                   ELSE [c EXCEPT !.data = Append(@, o), !.levels = @ + 1],
         lost |-> IF v = Refused THEN CacheBytes(c, k) + ObjSize[k] ELSE 0] : v \in sexp_malloc(u, LevelSize)}

(* The outcomes of sexp_t_deallocate, for an element with an atom buffer of *)
(* n bytes (0 for none), and of pd_deallocate.                              *)
deallocate_KeepsVal(u, c, k, o, n) ==    \* mutant: val not freed
  UNION {IF s = Refused
         THEN {[used |-> sexp_free(u, ObjSize[k]), cache |-> c, lost |-> 0]}
         ELSE Pushed(s, [c EXCEPT !.made = TRUE], k, o) : s \in Stacked(u, c)}
deallocate(u, c, k, o, n) ==
  UNION {IF s = Refused
         THEN {[used |-> sexp_free(sexp_free(u, n), ObjSize[k]), cache |-> c,
                lost |-> 0]}
         ELSE Pushed(sexp_free(s, n), [c EXCEPT !.made = TRUE], k, o) :
           s \in Stacked(u, c)}

-----------------------------------------------------------------------------
(* new_sexp_list, which allocates an element and nothing else, and          *)
(* pd_allocate.                                                             *)
New(k) ==
  /\ CanMake(k, cache[k]) \/ cache[k].data # << >>
  /\ \E r \in allocate(used, cache[k], k) :
       /\ used' = r.used /\ cache' = [cache EXCEPT ![k] = r.cache]
       /\ \/ /\ r.obj = NULL
             /\ sexp_errno' = "MEMORY" /\ UNCHANGED <<held, val>>
          \/ /\ r.obj # NULL
             /\ held' = [held EXCEPT ![k] = @ \cup {r.obj}]
             /\ val' = IF k = "pd" THEN val ELSE [val EXCEPT ![r.obj] = 0]
             /\ UNCHANGED sexp_errno
  /\ UNCHANGED <<limit, bin, lost>>

(* The caller has the data from sexp_malloc, as it is to be given back with *)
(* sexp_free, and keeps it, here to free it, when there is no element.      *)
new_sexp_binary_atom(n) ==
  /\ CanMake("sexp_t", cache["sexp_t"]) \/ cache["sexp_t"].data # << >>
  /\ \E v \in sexp_malloc(used, n) \ {Refused} :
       \E r \in allocate(v, cache["sexp_t"], "sexp_t") :
         /\ cache' = [cache EXCEPT !["sexp_t"] = r.cache]
         /\ \/ /\ r.obj = NULL
               /\ used' = sexp_free(r.used, n) /\ sexp_errno' = "MEMORY"
               /\ UNCHANGED <<held, bin>>
            \/ /\ r.obj # NULL
               /\ used' = r.used
               /\ held' = [held EXCEPT !["sexp_t"] = @ \cup {r.obj}]
               /\ bin' = [bin EXCEPT ![r.obj] = n]
               /\ UNCHANGED sexp_errno
  /\ UNCHANGED <<limit, val, lost>>

(* Without a buffer for the value the element goes straight to the cache.   *)
new_sexp_atom(bs) ==
  /\ CanMake("sexp_t", cache["sexp_t"]) \/ cache["sexp_t"].data # << >>
  /\ UNCHANGED <<limit, bin>>
  /\ \E r \in allocate(used, cache["sexp_t"], "sexp_t") :
       \/ /\ r.obj = NULL
          /\ used' = r.used /\ cache' = [cache EXCEPT !["sexp_t"] = r.cache]
          /\ sexp_errno' = "MEMORY" /\ UNCHANGED <<held, val, lost>>
       \/ /\ r.obj # NULL
          /\ \E v \in sexp_malloc(r.used, bs + 1) :
               \/ /\ v # Refused
                  /\ used' = v /\ cache' = [cache EXCEPT !["sexp_t"] = r.cache]
                  /\ held' = [held EXCEPT !["sexp_t"] = @ \cup {r.obj}]
                  /\ val' = [val EXCEPT ![r.obj] = bs + 1]
                  /\ UNCHANGED <<sexp_errno, lost>>
               \/ /\ v = Refused
                  /\ \E d \in deallocate(r.used, r.cache, "sexp_t", r.obj, 0) :
                       /\ used' = d.used
                       /\ cache' = [cache EXCEPT !["sexp_t"] = d.cache]
                       /\ lost' = lost + d.lost
                  /\ sexp_errno' = "MEMORY" /\ UNCHANGED <<held, val>>

(* new_sexp_atom called for a binary atom. *)
WrongConstructor ==
  /\ sexp_errno' = "BAD_CONSTRUCTOR"
  /\ UNCHANGED <<used, limit, cache, held, val, bin, lost>>

(* destroy_sexp on one element frees bindata or val, before                 *)
(* sexp_t_deallocate does, and leaves NULL there.                           *)
destroy_sexp(o) ==
  /\ o \in held["sexp_t"]
  /\ \E d \in deallocate(sexp_free(used, val[o] + bin[o]), cache["sexp_t"], "sexp_t", o, 0) :
       /\ used' = d.used /\ cache' = [cache EXCEPT !["sexp_t"] = d.cache]
       /\ lost' = lost + d.lost
       /\ sexp_errno' = IF d.cache.made THEN sexp_errno ELSE "MEMORY"
  /\ held' = [held EXCEPT !["sexp_t"] = @ \ {o}]
  /\ val' = [val EXCEPT ![o] = 0] /\ bin' = [bin EXCEPT ![o] = 0]
  /\ UNCHANGED limit

(* sexp_t_deallocate and pd_deallocate, called by a client, as print_sexp   *)
(* does for its copy of the head of an expression.  bindata is not freed.   *)
Release(k, o) ==
  /\ o \in held[k]
  /\ \E d \in deallocate(used, cache[k], k, o, IF k = "pd" THEN 0 ELSE val[o]) :
       /\ used' = d.used /\ cache' = [cache EXCEPT ![k] = d.cache]
       /\ lost' = lost + d.lost + (IF k = "pd" THEN 0 ELSE bin[o])
       /\ sexp_errno' = IF d.cache.made THEN sexp_errno ELSE "MEMORY"
  /\ held' = [held EXCEPT ![k] = @ \ {o}]
  /\ val' = IF k = "pd" THEN val ELSE [val EXCEPT ![o] = 0]
  /\ bin' = IF k = "pd" THEN bin ELSE [bin EXCEPT ![o] = 0]
  /\ UNCHANGED limit

(* What is on a cache and its levels are freed, then the stack itself. *)
Emptied(u, k) ==
  IF cache[k].made
  THEN sexp_free(sexp_free_all(sexp_free_all(u, Len(cache[k].data), ObjSize[k]),
                               cache[k].levels, LevelSize), StackSize)
  ELSE u
sexp_cleanup ==
  /\ used' = Emptied(Emptied(used, "pd"), "sexp_t")
  /\ cache' = [k \in Kind |-> NoCache]
  /\ UNCHANGED <<limit, sexp_errno, held, val, bin, lost>>

CacheStep ==
  \/ \E k \in Kind : New(k)
  \/ \E bs \in AtomSizes : new_sexp_atom(bs) \/ new_sexp_binary_atom(bs)
  \/ WrongConstructor
  \/ \E o \in Obj : destroy_sexp(o)
  \/ \E k \in Kind, o \in Obj : Release(k, o)
  \/ sexp_cleanup
-----------------------------------------------------------------------------
HeldBytes ==
  Cardinality(held["sexp_t"]) * ObjSize["sexp_t"] + Cardinality(held["pd"]) * ObjSize["pd"]
  + SumFunctionOnSet(val, held["sexp_t"]) + SumFunctionOnSet(bin, held["sexp_t"])

(* Nothing is handed out while it is in a cache, and nothing is in a cache  *)
(* twice: an element belongs to one client or to the cache.                 *)
OwnedOrCached ==
  \A k \in Kind : /\ IsInjective(cache[k].data)
                  /\ held[k] \cap Range(cache[k].data) = {}
                  /\ Len(cache[k].data) <= cache[k].levels
=============================================================================
