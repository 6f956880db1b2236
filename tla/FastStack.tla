------------------------------ MODULE FastStack ------------------------------
(***************************************************************************)
(* faststack.c: a doubly linked list of levels whose top moves up and down *)
(* and whose levels, once allocated, stay linked above the top for later   *)
(* pushes.  destroy_stack is a loop that goes up to the last level and     *)
(* frees its way down; its iterations are steps.                           *)
(***************************************************************************)
EXTENDS Naturals, Sequences, FiniteSets

CONSTANTS Lvl, Data, NULL

ASSUME NullAssumption == NULL \notin Lvl /\ NULL \notin Data

VARIABLES
  phase,                \* "none" (no stack), "ready", or in destroy_stack: "up", "down"
  top, bottom, height,  \* the faststack_t
  above, below, data,   \* the stack_lvl_t of each level
  alloc,                \* the levels that are allocated
  sl,                   \* the pointer that destroy_stack moves
  ret,                  \* the data of the level that the last pop returned
  sexp_errno,
  chain,                \* ghost: the allocated levels, from the bottom up
  peak                  \* ghost: the greatest height since make_stack

levels == <<above, below, data, alloc>>
ghosts == <<chain, peak>>
vars == <<phase, top, bottom, height, levels, sl, ret, sexp_errno, ghosts>>

Init ==
  /\ phase = "none"
  /\ top = NULL /\ bottom = NULL /\ height = 0
  /\ above = [l \in Lvl |-> NULL] /\ below = [l \in Lvl |-> NULL]
  /\ data = [l \in Lvl |-> NULL] /\ alloc = {}
  /\ sl = NULL /\ ret = NULL /\ sexp_errno = "OK"
  /\ chain = << >> /\ peak = 0

(* The allocation of the faststack_t may fail. *)
MakeStack ==
  /\ phase = "none" /\ ret' = NULL
  /\ \/ phase' = "ready" /\ UNCHANGED sexp_errno
     \/ sexp_errno' = "MEMORY" /\ UNCHANGED phase
  /\ UNCHANGED <<top, bottom, height, levels, sl, ghosts>>

(* The level a push uses if it is there: above the top, or the bottom one. *)
NextLevel_AboveOnly == IF top # NULL THEN above[top] ELSE NULL    \* mutant
NextLevel == IF top # NULL THEN above[top] ELSE bottom

Raised(n) == IF n > peak THEN n ELSE peak

(* push, with a level that an earlier push allocated ... *)
PushReused_NoCount(d) ==    \* mutant: height not incremented
  /\ phase = "ready" /\ NextLevel # NULL
  /\ top' = NextLevel /\ data' = [data EXCEPT ![NextLevel] = d] /\ ret' = NULL
  /\ UNCHANGED <<phase, bottom, height, above, below, alloc, sl, sexp_errno, ghosts>>

PushReused(d) ==
  /\ phase = "ready" /\ NextLevel # NULL
  /\ top' = NextLevel /\ data' = [data EXCEPT ![NextLevel] = d]
  /\ height' = height + 1 /\ ret' = NULL
  /\ peak' = Raised(height + 1)
  /\ UNCHANGED <<phase, bottom, above, below, alloc, sl, sexp_errno, chain>>

(* ... with a new one ... *)
PushNew(d) ==
  /\ phase = "ready" /\ NextLevel = NULL
  /\ \E l \in Lvl \ alloc :
       /\ alloc' = alloc \cup {l}
       /\ above' = [x \in Lvl |-> IF x = l THEN NULL ELSE IF x = top THEN l ELSE above[x]]
       /\ below' = [below EXCEPT ![l] = top]
       /\ data' = [data EXCEPT ![l] = d]
       /\ top' = l
       /\ bottom' = IF top # NULL THEN bottom ELSE l
       /\ chain' = Append(chain, l)
  /\ height' = height + 1 /\ ret' = NULL
  /\ peak' = Raised(height + 1)
  /\ UNCHANGED <<phase, sl, sexp_errno>>

(* ... and when that cannot be allocated.  The NULL that malloc returned    *)
(* is also stored, in the level above the top or in the top: it was NULL.   *)
PushFails ==
  /\ phase = "ready" /\ NextLevel = NULL
  /\ above' = [x \in Lvl |-> IF x = top THEN NULL ELSE above[x]]
  /\ sexp_errno' = "MEMORY" /\ ret' = NULL
  /\ UNCHANGED <<phase, top, bottom, height, below, data, alloc, sl, ghosts>>

Pop_NewTop ==    \* mutant: returns the level that is the top afterwards
  /\ phase = "ready" /\ top # NULL /\ height > 0
  /\ top' = below[top] /\ height' = height - 1
  /\ ret' = (IF below[top] = NULL THEN NULL ELSE data[below[top]])
  /\ UNCHANGED <<phase, bottom, levels, sl, sexp_errno, ghosts>>

Pop ==
  /\ phase = "ready"
  /\ IF top # NULL /\ height > 0
     THEN /\ top' = below[top] /\ height' = height - 1
          /\ ret' = data[top]
     ELSE /\ ret' = (IF height < 1 \/ top = NULL THEN NULL ELSE data[top])
          /\ UNCHANGED <<top, height>>
  /\ UNCHANGED <<phase, bottom, levels, sl, sexp_errno, ghosts>>

(* push and pop of a NULL stack. *)
BadStack ==
  /\ phase = "none"
  /\ sexp_errno' = "BAD_STACK" /\ ret' = NULL
  /\ UNCHANGED <<phase, top, bottom, height, levels, sl, ghosts>>

Gone ==
  /\ phase' = "none" /\ top' = NULL /\ bottom' = NULL /\ height' = 0
  /\ sl' = NULL /\ peak' = 0

DestroyStart ==
  /\ phase = "ready" /\ ret' = NULL
  /\ IF bottom = NULL
     THEN Gone
     ELSE phase' = "up" /\ sl' = bottom /\ UNCHANGED <<top, bottom, height, peak>>
  /\ UNCHANGED <<levels, sexp_errno, chain>>

DestroyUp ==
  /\ phase = "up"
  /\ IF above[sl] # NULL THEN sl' = above[sl] /\ UNCHANGED phase
     ELSE phase' = "down" /\ UNCHANGED sl
  /\ UNCHANGED <<top, bottom, height, levels, ret, sexp_errno, ghosts>>

DestroyDown_FreesBelow ==    \* mutant: the level that sl moves to is freed
  /\ phase = "down" /\ below[sl] # NULL
  /\ sl' = below[sl] /\ alloc' = alloc \ {below[sl]}
  /\ chain' = SubSeq(chain, 1, Len(chain) - 1)
  /\ UNCHANGED <<phase, top, bottom, height, peak, above, below, data, ret, sexp_errno>>
DestroyDown_Stays ==    \* mutant: sl does not move
  /\ phase = "down" /\ below[sl] # NULL
  /\ alloc' = alloc \ {sl}
  /\ chain' = SubSeq(chain, 1, Len(chain) - 1)
  /\ UNCHANGED <<phase, top, bottom, height, peak, above, below, data, ret, sexp_errno, sl>>

DestroyDown ==
  /\ phase = "down"
  /\ IF below[sl] # NULL
     THEN /\ sl' = below[sl] /\ alloc' = alloc \ {above[below[sl]]}
          /\ UNCHANGED <<phase, top, bottom, height, peak>>
     ELSE /\ alloc' = alloc \ {sl} /\ Gone
  /\ chain' = SubSeq(chain, 1, Len(chain) - 1)
  /\ UNCHANGED <<above, below, data, ret, sexp_errno>>

Next ==
  \/ MakeStack \/ (\E d \in Data : PushReused(d) \/ PushNew(d)) \/ PushFails
  \/ Pop \/ BadStack \/ DestroyStart \/ DestroyUp \/ DestroyDown

Spec == Init /\ [][Next]_vars
-----------------------------------------------------------------------------
Ptr == Lvl \cup {NULL}

(* Every pointer is a level or null, every count a natural number. *)
TypeOK ==
  /\ phase \in {"none", "ready", "up", "down"}
  /\ top \in Ptr /\ bottom \in Ptr /\ height \in Nat /\ sl \in Ptr
  /\ above \in [Lvl -> Ptr] /\ below \in [Lvl -> Ptr]
  /\ data \in [Lvl -> Data \cup {NULL}] /\ ret \in Data \cup {NULL}
  /\ alloc \subseteq Lvl /\ sexp_errno \in {"OK", "MEMORY", "BAD_STACK"}
  /\ chain \in Seq(Lvl) /\ peak \in Nat

(* The code has two tests for an empty stack, top = NULL (empty_stack, pop, *)
(* the parser's loops) and height < 1 (pop, case 2 of the parser).  They    *)
(* agree between operations, whatever pushes failed and however levels were *)
(* reused.                                                                  *)
EmptinessAgrees == phase = "ready" => (top = NULL <=> height = 0)

(* Levels are recycled: as many are allocated as the stack was ever high,   *)
(* and destroy_stack frees them all.                                        *)
LevelsRecycled ==
  /\ phase = "ready" => Cardinality(alloc) = peak
  /\ phase = "none" => alloc = {}

(* No pointer that push, pop or destroy_stack will follow points to a level *)
(* that was freed.                                                          *)
NoDangling ==
  /\ phase # "none" => bottom \in alloc \cup {NULL}
  /\ phase = "ready" => top \in alloc \cup {NULL}
  /\ phase \in {"up", "down"} => sl \in alloc
  /\ \A l \in alloc : /\ below[l] \in alloc \cup {NULL}
                      /\ phase # "down" => above[l] \in alloc \cup {NULL}

(* The inductive invariant behind the others: the allocated levels are a    *)
(* chain without repetition, linked in both directions, with the bottom at  *)
(* its lower end and the top height levels up; destroy_stack holds on to    *)
(* one of them while it goes up and to the last one while it goes down.     *)
ChainLinked ==
  /\ alloc = {chain[i] : i \in 1..Len(chain)}
  /\ \A i, j \in 1..Len(chain) : chain[i] = chain[j] => i = j
  /\ \A i \in 1..Len(chain) : below[chain[i]] = IF i = 1 THEN NULL ELSE chain[i - 1]
  /\ \A i \in 1..(Len(chain) - 1) : above[chain[i]] = chain[i + 1]
  /\ phase # "down" /\ chain # << >> => above[chain[Len(chain)]] = NULL

EndsPlaced ==
  /\ bottom = IF chain = << >> THEN NULL ELSE chain[1]
  /\ phase = "none" => chain = << >> /\ top = NULL /\ height = 0 /\ peak = 0
  /\ phase = "ready" => /\ height <= Len(chain) /\ peak = Len(chain)
                        /\ top = IF height = 0 THEN NULL ELSE chain[height]
  /\ phase = "up" => \E k \in 1..Len(chain) : sl = chain[k]
  /\ phase = "down" => chain # << >> /\ sl = chain[Len(chain)]

Counted == IsFiniteSet(alloc) /\ Cardinality(alloc) = Len(chain)

IInv == TypeOK /\ ChainLinked /\ EndsPlaced /\ Counted

(* faststack.c implements the stack of Stack.tla: the levels from the       *)
(* bottom to the top carry its contents.                                    *)
Contents == [i \in 1..(IF phase = "ready" THEN height ELSE 0) |-> data[chain[i]]]
Abs == INSTANCE Stack WITH made <- phase = "ready", contents <- Contents, got <- ret
ImplementsStack == Abs!AbsSpec

(* destroy_stack comes to its end. *)
DestroyEnds == phase \in {"up", "down"} ~> phase = "none"
FairSpec == Spec /\ WF_vars(DestroyUp \/ DestroyDown)
=============================================================================
