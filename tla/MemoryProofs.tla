---------------------------- MODULE MemoryProofs ----------------------------
(***************************************************************************)
(* For all block sizes, limits and sizes passed to the CSTRING functions:  *)
(* the limit is kept, terminators stay inside their buffers, an element is *)
(* never in a cache and in a client's hands, and the bytes counted are     *)
(* those the program holds.                                                *)
(***************************************************************************)
EXTENDS Memory, SequenceTheorems, FiniteSetTheorems, WellFoundedInduction, TLAPS

InUse == 0..limit
Strings == [len : Nat, base : Seq(STRING)]
Caches == [made : BOOLEAN, data : Seq(Obj), levels : Nat]

(* A cache whose contents are apart from h, what clients hold. *)
Apart(c, h) ==
  /\ c \in Caches /\ IsInjective(c.data) /\ Len(c.data) <= c.levels
  /\ h \cap Range(c.data) = {}

LimitInv == limit \in Nat /\ used \in InUse
StringInv ==
  /\ growsize \in Nat \ {0}
  /\ str # NULL => str \in Strings
  /\ TerminatorInside
CacheInv ==
  /\ held \in [Kind -> SUBSET Obj] /\ val \in [Obj -> Nat] /\ bin \in [Obj -> Nat]
  /\ DOMAIN cache = Kind /\ cache = [k \in Kind |-> cache[k]]
  /\ \A k \in Kind : Apart(cache[k], held[k])
MemoryInv == LimitInv /\ StringInv /\ CacheInv
-----------------------------------------------------------------------------
(* The memory functions. *)
LEMMA FreeBounded ==
  ASSUME NEW u \in Nat, NEW size \in Nat
  PROVE  sexp_free(u, size) \in 0..u
  BY DEF sexp_free

LEMMA ModBounded ==
  ASSUME NEW u \in Nat, NEW size \in Nat \ {0}
  PROVE  u % size \in 0..u
<1>1. u % size \in 0..(size - 1)
  OBVIOUS
<1>2. u < size => u % size = u
  OBVIOUS
<1> QED
  BY <1>1, <1>2

LEMMA FreeAllBounded ==
  ASSUME NEW u \in Nat, NEW n \in Nat, NEW size \in Nat \ {0}
  PROVE  sexp_free_all(u, n, size) \in 0..u
<1>1. n * size \in Nat
  OBVIOUS
<1> QED
  BY <1>1, ModBounded DEF sexp_free_all

LEMMA GrantedBounded ==
  ASSUME limit \in Nat, NEW u \in Nat, NEW size \in Int, NEW oldsize \in Int,
         NEW v \in Granted(u, size, oldsize), v # Refused
  PROVE  v \in InUse
<1> DEFINE after == (u + ((size - oldsize) % SizeRange)) % SizeRange
<1>1. \A a \in Int : a % SizeRange \in Nat
  BY RangeAssumption
<1>2. (size - oldsize) % SizeRange \in Nat
  BY <1>1
<1>3. after \in Nat
  BY <1>1, <1>2
<1>4. v = after /\ v <= limit
  BY DEF Granted
<1> QED
  BY <1>3, <1>4 DEF InUse

LEMMA MallocBounded ==
  ASSUME limit \in Nat, NEW u \in Nat, NEW size \in Nat,
         NEW v \in sexp_malloc(u, size), v # Refused
  PROVE  v \in InUse
  BY GrantedBounded DEF sexp_malloc

LEMMA InUseNat ==
  ASSUME limit \in Nat, NEW u \in InUse
  PROVE  u \in Nat /\ \A w \in 0..u : w \in InUse
  BY DEF InUse
-----------------------------------------------------------------------------
(* Sequences of distinct values. *)
LEMMA AppendDistinct ==
  ASSUME NEW s \in Seq(Obj), NEW o \in Obj, IsInjective(s), o \notin Range(s)
  PROVE  /\ Append(s, o) \in Seq(Obj) /\ Len(Append(s, o)) = Len(s) + 1
         /\ IsInjective(Append(s, o))
         /\ Range(Append(s, o)) \subseteq Range(s) \cup {o}
<1> DEFINE a == Append(s, o)
<1>1. /\ a \in Seq(Obj) /\ Len(a) = Len(s) + 1 /\ a[Len(s) + 1] = o
      /\ \A i \in 1..Len(s) : a[i] = s[i]
  BY AppendProperties
<1>2. \A i \in 1..Len(s) : s[i] \in Range(s)
  BY DEF Range
<1>3. \A i, j \in 1..Len(s) : s[i] = s[j] => i = j
  BY DEF IsInjective
<1>4. Len(s) \in Nat /\ DOMAIN a = 1..(Len(s) + 1)
  BY <1>1
<1> HIDE DEF a
<1>5. \A i \in 1..(Len(s) + 1) : i \in 1..Len(s) \/ i = Len(s) + 1
  BY <1>4
<1>6. \A i, j \in 1..(Len(s) + 1) : a[i] = a[j] => i = j
  BY <1>1, <1>2, <1>3, <1>5
<1>7. \A i \in 1..(Len(s) + 1) : a[i] \in Range(s) \cup {o}
  BY <1>1, <1>2, <1>5
<1> QED
  BY <1>1, <1>4, <1>6, <1>7 DEF IsInjective, Range, a

LEMMA FrontDistinct ==
  ASSUME NEW s \in Seq(Obj), s # << >>, IsInjective(s)
  PROVE  /\ Front(s) \in Seq(Obj) /\ Len(Front(s)) = Len(s) - 1
         /\ IsInjective(Front(s)) /\ Range(Front(s)) \subseteq Range(s)
         /\ Last(s) \in Range(s) /\ Last(s) \notin Range(Front(s)) /\ Last(s) \in Obj
<1> DEFINE f == Front(s)
<1>1. Len(s) \in Nat /\ Len(s) >= 1 /\ DOMAIN s = 1..Len(s)
  BY EmptySeq
<1>2. /\ f \in Seq(Obj) /\ Len(f) = Len(s) - 1 /\ DOMAIN f = 1..(Len(s) - 1)
      /\ \A i \in 1..(Len(s) - 1) : f[i] = s[i]
  BY <1>1, SubSeqProperties DEF Front
<1>3. \A i, j \in 1..Len(s) : s[i] = s[j] => i = j
  BY <1>1 DEF IsInjective
<1>4. Last(s) = s[Len(s)] /\ Len(s) \in 1..Len(s)
  BY <1>1 DEF Last
<1> HIDE DEF f
<1>5. \A i \in 1..(Len(s) - 1) : i \in 1..Len(s) /\ i # Len(s)
  <2>1. \A n \in Nat : \A i \in 1..(n - 1) : i \in 1..n /\ i # n
    OBVIOUS
  <2> QED
    BY <1>1, <2>1
<1>6. \A i \in 1..(Len(s) - 1) : f[i] # s[Len(s)] /\ f[i] \in Range(s)
  BY <1>1, <1>2, <1>3, <1>4, <1>5 DEF Range
<1>7. \A i, j \in 1..(Len(s) - 1) : f[i] = f[j] => i = j
  BY <1>2, <1>3, <1>5
<1>8. Last(s) \in Range(s) /\ Last(s) \in Obj
  BY <1>1, <1>4 DEF Range
<1>9. Range(f) \subseteq Range(s) /\ Last(s) \notin Range(f)
  BY <1>2, <1>4, <1>6 DEF Range
<1>10. IsInjective(f)
  BY <1>2, <1>7 DEF IsInjective
<1> QED
  BY <1>2, <1>8, <1>9, <1>10 DEF f
-----------------------------------------------------------------------------
(* The caches. *)
LEMMA CacheFields ==
  ASSUME NEW c \in Caches
  PROVE  /\ c.made \in BOOLEAN /\ c.data \in Seq(Obj) /\ c.levels \in Nat
         /\ [c EXCEPT !.made = TRUE] \in Caches
         /\ [c EXCEPT !.made = TRUE].data = c.data
         /\ [c EXCEPT !.made = TRUE].levels = c.levels
  BY DEF Caches

LEMMA CacheData ==
  ASSUME NEW c \in Caches, NEW d \in Seq(Obj)
  PROVE  /\ [c EXCEPT !.data = d] \in Caches /\ [c EXCEPT !.data = d].data = d
         /\ [c EXCEPT !.data = d].levels = c.levels
  BY DEF Caches

LEMMA MadeApart ==
  ASSUME NEW c, NEW h, Apart(c, h)
  PROVE  Apart([c EXCEPT !.made = TRUE], h)
<1>1. c \in Caches
  BY DEF Apart
<1> QED
  BY <1>1, CacheFields DEF Apart

LEMMA NoCacheApart ==
  ASSUME NEW h
  PROVE  Apart(NoCache, h)
<1>1. << >> \in Seq(Obj) /\ Len(<< >>) = 0 /\ DOMAIN << >> = {}
  OBVIOUS
<1>2. NoCache \in Caches /\ NoCache.data = << >> /\ NoCache.levels = 0
  BY <1>1 DEF NoCache, Caches
<1>3. IsInjective(<< >>) /\ Range(<< >>) = {}
  BY <1>1 DEF IsInjective, Range
<1> QED
  BY <1>1, <1>2, <1>3 DEF Apart

LEMMA StackedBounded ==
  ASSUME limit \in Nat, NEW u \in InUse, NEW c, NEW s \in Stacked(u, c), s # Refused
  PROVE  s \in InUse
  BY MallocBounded, InUseNat, CacheSizesAssumption DEF Stacked

(* What the allocation functions hand out is in no one's hands, and is not  *)
(* in the cache afterwards.                                                 *)
LEMMA AllocateApart ==
  ASSUME limit \in Nat, NEW u \in InUse, NEW k \in Kind, NEW c, Apart(c, held[k]),
         NEW r \in allocate(u, c, k), held[k] \subseteq Obj,
         CanMake(k, c) \/ c.data # << >>
  PROVE  /\ r.used \in InUse /\ Apart(r.cache, held[k])
         /\ r.obj # NULL => /\ r.obj \in Obj /\ r.obj \notin held[k]
                            /\ Apart(r.cache, held[k] \cup {r.obj})
<1>1. /\ c \in Caches /\ IsInjective(c.data) /\ held[k] \cap Range(c.data) = {}
      /\ c.data \in Seq(Obj) /\ c.levels \in Nat /\ Len(c.data) <= c.levels
  BY CacheFields DEF Apart
<1>2. CASE c.data # << >>
  <2>1. /\ Front(c.data) \in Seq(Obj) /\ Len(Front(c.data)) = Len(c.data) - 1
        /\ IsInjective(Front(c.data)) /\ Range(Front(c.data)) \subseteq Range(c.data)
        /\ Last(c.data) \notin Range(Front(c.data)) /\ Last(c.data) \in Obj
        /\ Last(c.data) \in Range(c.data)
    BY <1>1, <1>2, FrontDistinct
  <2>2. r = [used |-> u, cache |-> [c EXCEPT !.data = Front(@)], obj |-> Last(c.data)]
    BY <1>2 DEF allocate
  <2>3. r.used = u /\ r.cache = [c EXCEPT !.data = Front(c.data)] /\ r.obj = Last(c.data)
    BY <2>2
  <2>4. /\ r.cache \in Caches /\ r.cache.data = Front(c.data)
        /\ r.cache.levels = c.levels
    BY <1>1, <2>1, <2>3, CacheData
  <2>5. Len(Front(c.data)) <= c.levels
    <3>1. Len(c.data) \in Nat
      BY <1>1
    <3> QED
      BY <1>1, <2>1, <3>1
  <2> QED
    BY <1>1, <2>1, <2>3, <2>4, <2>5 DEF Apart
<1>3. CASE c.data = << >>
  <2>1. CanMake(k, c)
    BY <1>3
  <2>2. \E o \in Obj : o \notin held[k] \cup Range(c.data)
    <3>1. Range(c.data) \subseteq Obj
      BY <1>1 DEF Range
    <3> QED
      BY <2>1, <3>1 DEF CanMake
  <2>3. Fresh(k, c) \in Obj /\ Fresh(k, c) \notin held[k] \cup Range(c.data)
    BY <2>2 DEF Fresh
  <2>4. Apart([c EXCEPT !.made = TRUE], held[k])
    BY MadeApart
  <2>5. Apart([c EXCEPT !.made = TRUE], held[k] \cup {Fresh(k, c)})
    BY <1>1, <2>3, <2>4, CacheFields DEF Apart
  <2>6. CASE r = [used |-> u, cache |-> c, obj |-> NULL]
    BY <2>6
  <2>7. CASE r # [used |-> u, cache |-> c, obj |-> NULL]
    <3> DEFINE Outcome(s, v) == [used |-> IF v = Refused THEN s ELSE v,
                                 cache |-> [c EXCEPT !.made = TRUE],
                                 obj |-> IF v = Refused THEN NULL ELSE Fresh(k, c)]
               Outcomes(s) == {Outcome(s, v) : v \in sexp_malloc(s, ObjSize[k])}
    <3>1. r \in UNION {Outcomes(s) : s \in Stacked(u, c) \ {Refused}}
      BY <1>3, <2>7 DEF allocate
    <3> HIDE DEF Outcomes
    <3>2. PICK s \in Stacked(u, c) \ {Refused} : r \in Outcomes(s)
      BY <3>1
    <3>3. PICK v \in sexp_malloc(s, ObjSize[k]) : r = Outcome(s, v)
      BY <3>2 DEF Outcomes
    <3>4. s \in InUse /\ s \in Nat /\ ObjSize[k] \in Nat
      BY StackedBounded, InUseNat, CacheSizesAssumption
    <3>5. v # Refused => v \in InUse
      BY <3>4, MallocBounded
    <3>6. r.used \in InUse /\ r.cache = [c EXCEPT !.made = TRUE]
      BY <3>3, <3>4, <3>5
    <3>7. r.obj = NULL \/ r.obj = Fresh(k, c)
      BY <3>3
    <3> QED
      BY <2>3, <2>4, <2>5, <3>6, <3>7
  <2> QED
    BY <2>6, <2>7
<1> QED
  BY <1>2, <1>3

(* What is pushed comes from a client and is in the cache once. *)
LEMMA PushedApart ==
  ASSUME limit \in Nat, NEW u \in InUse, NEW k \in Kind, NEW c, NEW h, NEW o \in Obj,
         Apart(c, h \cup {o}), NEW d \in Pushed(u, c, k, o)
  PROVE  d.used \in InUse /\ Apart(d.cache, h \ {o})
<1>1. /\ c \in Caches /\ IsInjective(c.data) /\ (h \cup {o}) \cap Range(c.data) = {}
      /\ c.data \in Seq(Obj) /\ c.levels \in Nat /\ Len(c.data) <= c.levels
  BY CacheFields DEF Apart
<1> DEFINE a == Append(c.data, o)
<1>2. /\ Len(c.data) \in Nat
      /\ a \in Seq(Obj) /\ Len(a) = Len(c.data) + 1
      /\ IsInjective(a)
      /\ Range(a) \subseteq Range(c.data) \cup {o}
  BY <1>1, AppendDistinct
<1> HIDE DEF a
<1>3. (h \ {o}) \cap Range(a) = {}
  BY <1>1, <1>2
<1>4. CASE Len(c.data) < c.levels
  <2>1. d = [used |-> u, cache |-> [c EXCEPT !.data = Append(@, o)], lost |-> 0]
    BY <1>4 DEF Pushed
  <2>2. d.used = u /\ d.cache = [c EXCEPT !.data = a]
    BY <2>1 DEF a
  <2>3. /\ d.cache \in Caches /\ d.cache.data = a
        /\ d.cache.levels = c.levels
    BY <1>1, <1>2, <2>2, CacheData
  <2> QED
    BY <1>1, <1>2, <1>3, <1>4, <2>2, <2>3 DEF Apart
<1>5. CASE ~(Len(c.data) < c.levels)
  <2>1. PICK v \in sexp_malloc(u, LevelSize) :
          d = [used |-> IF v = Refused THEN u ELSE v,
               cache |-> IF v = Refused THEN NoCache
                         ELSE [c EXCEPT !.data = Append(@, o), !.levels = @ + 1],
               lost |-> IF v = Refused THEN CacheBytes(c, k) + ObjSize[k] ELSE 0]
    BY <1>5 DEF Pushed
  <2>2. v # Refused => v \in InUse
    BY MallocBounded, InUseNat, CacheSizesAssumption
  <2>3. CASE v = Refused
    <3>1. d.used = u /\ d.cache = NoCache
      BY <2>1, <2>3
    <3> QED
      BY <3>1, NoCacheApart
  <2>4. CASE v # Refused
    <3> DEFINE m == c.levels + 1
    <3>1. d.used = v /\ d.cache = [c EXCEPT !.data = a, !.levels = m]
      BY <2>1, <2>4 DEF a
    <3>2. m \in Nat /\ Len(a) <= m
      BY <1>1, <1>2
    <3> HIDE DEF m
    <3>3. d.cache \in Caches /\ d.cache.data = a /\ d.cache.levels = m
      <4>1. c \in Caches /\ a \in Seq(Obj) /\ m \in Nat
        BY <1>1, <1>2, <3>2
      <4> QED
        BY <3>1, <4>1 DEF Caches
    <3> QED
      BY <1>1, <1>2, <1>3, <2>2, <2>4, <3>1, <3>2, <3>3 DEF Apart
  <2> QED
    BY <2>3, <2>4
<1> QED
  BY <1>4, <1>5

LEMMA DeallocateApart ==
  ASSUME limit \in Nat, NEW u \in InUse, NEW k \in Kind, NEW c, NEW h, NEW o \in Obj,
         Apart(c, h \cup {o}), NEW n \in Nat, NEW d \in deallocate(u, c, k, o, n)
  PROVE  d.used \in InUse /\ Apart(d.cache, h \ {o})
<1>1. PICK s \in Stacked(u, c) :
        d \in IF s = Refused
              THEN {[used |-> sexp_free(sexp_free(u, n), ObjSize[k]), cache |-> c,
                     lost |-> 0]}
              ELSE Pushed(sexp_free(s, n), [c EXCEPT !.made = TRUE], k, o)
  BY DEF deallocate
<1>2. ObjSize[k] \in Nat
  BY CacheSizesAssumption
<1>3. CASE s = Refused
  <2>1. d.used = sexp_free(sexp_free(u, n), ObjSize[k]) /\ d.cache = c
    BY <1>1, <1>3
  <2>2. sexp_free(u, n) \in InUse
    BY FreeBounded, InUseNat
  <2>3. d.used \in InUse
    BY <1>2, <2>1, <2>2, FreeBounded, InUseNat
  <2> QED
    BY <2>1, <2>3 DEF Apart
<1>4. CASE s # Refused
  <2>1. s \in InUse
    BY <1>4, StackedBounded
  <2>2. sexp_free(s, n) \in InUse
    BY <2>1, FreeBounded, InUseNat
  <2>3. Apart([c EXCEPT !.made = TRUE], h \cup {o})
    BY MadeApart
  <2> QED
    BY <1>1, <1>4, <2>2, <2>3, PushedApart
<1> QED
  BY <1>3, <1>4
-----------------------------------------------------------------------------
(* The actions of a CSTRING. *)
LEMMA StringStepKeeps ==
  ASSUME LimitInv, StringInv, StringStep
  PROVE  LimitInv' /\ StringInv'
<1>1. /\ limit \in Nat /\ used \in InUse /\ used \in Nat
      /\ growsize \in Nat \ {0}
      /\ str # NULL => /\ str \in Strings /\ str.len \in Nat /\ str.base \in Seq(STRING)
                       /\ Len(str.base) \in Nat
                       /\ str.base # << >> => Len(str.base) < str.len
                       /\ str.base = << >> => Len(str.base) = 0
  BY InUseNat DEF LimitInv, StringInv, Strings, TerminatorInside, Curlen
<1>2. limit' = limit
  BY DEF StringStep, sgrowsize, snew, sadd, strim, sempty, sdestroy
<1>3. ASSUME NEW s \in GrowSizes, sgrowsize(s)
      PROVE  LimitInv' /\ StringInv'
  <2>1. growsize' \in Nat \ {0} /\ str' = str /\ used' = used
    BY <1>1, <1>3, StringSizesAssumption DEF sgrowsize
  <2> QED
    BY <1>2, <2>1 DEF LimitInv, InUse, StringInv, TerminatorInside, Curlen
<1>4. ASSUME NEW s \in StartSizes, snew(s)
      PROVE  LimitInv' /\ StringInv'
  <2>1. PICK u \in sexp_malloc(used, CStringSize) :
          \/ u = Refused /\ used' = used /\ str' = str
          \/ /\ u # Refused
             /\ \E v \in sexp_calloc(u, 1, s) :
                  \/ v = Refused /\ used' = sexp_free(u, CStringSize) /\ str' = str
                  \/ v # Refused /\ used' = v /\ str' = [len |-> s, base |-> << >>]
    BY <1>4 DEF snew
  <2>2. s \in Nat /\ CStringSize \in Nat /\ 1 * s \in Nat /\ growsize' = growsize
    BY <1>4, StringSizesAssumption DEF snew
  <2>3. u # Refused => u \in InUse /\ u \in Nat
    BY <1>1, <2>2, MallocBounded, InUseNat
  <2>4. used' \in InUse /\ (str' = str \/ str' = [len |-> s, base |-> << >>])
    <3>1. CASE u = Refused
      BY <1>1, <2>1, <3>1
    <3>2. CASE u # Refused
      <4>1. PICK v \in sexp_calloc(u, 1, s) :
              \/ v = Refused /\ used' = sexp_free(u, CStringSize) /\ str' = str
              \/ v # Refused /\ used' = v /\ str' = [len |-> s, base |-> << >>]
        BY <2>1, <3>2
      <4>2. v # Refused => v \in InUse
        BY <1>1, <2>2, <2>3, <3>2, GrantedBounded DEF sexp_calloc
      <4>3. sexp_free(u, CStringSize) \in InUse
        BY <1>1, <2>2, <2>3, <3>2, FreeBounded, InUseNat
      <4> QED
        BY <4>1, <4>2, <4>3
    <3> QED
      BY <3>1, <3>2
  <2>5. str' # NULL => str' \in Strings /\ (str'.base # << >> => Len(str'.base) < str'.len)
    <3>1. << >> \in Seq(STRING)
      OBVIOUS
    <3>2. CASE str' = [len |-> s, base |-> << >>]
      BY <2>2, <3>1, <3>2 DEF Strings
    <3> QED
      BY <1>1, <2>4, <3>2
  <2> QED
    BY <1>1, <1>2, <2>2, <2>4, <2>5 DEF LimitInv, InUse, StringInv, TerminatorInside, Curlen
<1>5. ASSUME NEW a \in Pieces, sadd(a)
      PROVE  LimitInv' /\ StringInv'
  <2> DEFINE n == Len(a)
             newlen == str.len + growsize + n
             new == str.base \o a
  <2>1. /\ str # NULL /\ a \in Seq(STRING) /\ n \in Nat /\ growsize' = growsize
        /\ newlen \in Nat
    BY <1>1, <1>5, StringSizesAssumption DEF sadd
  <2>2. /\ new \in Seq(STRING) /\ Len(new) = Len(str.base) + n
    BY <1>1, <2>1
  <2>3. \/ used' = used /\ str' = str
        \/ /\ Len(str.base) + n < str.len /\ used' = used
           /\ str' = [str EXCEPT !.base = new]
        \/ /\ \E u \in sexp_realloc(used, newlen, str.len) : u # Refused /\ used' = u
           /\ str' = [len |-> newlen, base |-> new]
    BY <1>1, <1>5, <2>1 DEF sadd, MustGrow, Curlen
  <2>4. used' \in InUse
    <3>1. \A u \in sexp_realloc(used, newlen, str.len) : u # Refused => u \in InUse
      BY <1>1, <2>1, GrantedBounded DEF sexp_realloc
    <3> QED
      BY <1>1, <2>3, <3>1
  <2>5. Len(str.base) + n < newlen
    BY <1>1, <2>1
  <2> HIDE DEF newlen, new, n
  <2>6. str' \in Strings /\ (str'.base # << >> => Len(str'.base) < str'.len)
    BY <1>1, <2>1, <2>2, <2>3, <2>5 DEF Strings
  <2> QED
    BY <1>1, <1>2, <2>1, <2>4, <2>6 DEF LimitInv, InUse, StringInv, TerminatorInside, Curlen
<1>6. ASSUME strim
      PROVE  LimitInv' /\ StringInv'
  <2> DEFINE newlen == Len(str.base) + 1
  <2>1. str # NULL /\ growsize' = growsize /\ newlen \in Nat
    BY <1>1, <1>6 DEF strim
  <2>2. \/ used' = used /\ str' = str
        \/ /\ \E u \in sexp_realloc(used, newlen, str.len) : u # Refused /\ used' = u
           /\ str' = [str EXCEPT !.len = newlen]
    BY <1>6 DEF strim, Curlen
  <2>3. used' \in InUse
    <3>1. \A u \in sexp_realloc(used, newlen, str.len) : u # Refused => u \in InUse
      BY <1>1, <2>1, GrantedBounded DEF sexp_realloc
    <3> QED
      BY <1>1, <2>2, <3>1
  <2>4. str' \in Strings /\ (str'.base # << >> => Len(str'.base) < str'.len)
    BY <1>1, <2>1, <2>2 DEF Strings
  <2> QED
    BY <1>1, <1>2, <2>1, <2>3, <2>4 DEF LimitInv, InUse, StringInv, TerminatorInside, Curlen
<1>7. ASSUME sempty
      PROVE  LimitInv' /\ StringInv'
  <2>1. /\ str # NULL /\ str' = [str EXCEPT !.base = << >>]
        /\ used' = used /\ growsize' = growsize
    BY <1>7 DEF sempty
  <2>2. str' \in Strings /\ str'.base = << >>
    <3>1. << >> \in Seq(STRING)
      OBVIOUS
    <3> QED
      BY <1>1, <2>1, <3>1 DEF Strings
  <2> QED
    BY <1>1, <1>2, <2>1, <2>2 DEF LimitInv, InUse, StringInv, TerminatorInside
<1>8. ASSUME sdestroy
      PROVE  LimitInv' /\ StringInv'
  <2>1. /\ str # NULL /\ str' = NULL /\ growsize' = growsize
        /\ used' = sexp_free(sexp_free(used, str.len), CStringSize)
    BY <1>8 DEF sdestroy
  <2>2. sexp_free(used, str.len) \in InUse
    BY <1>1, <2>1, FreeBounded, InUseNat
  <2>3. used' \in InUse
    BY <1>1, <2>1, <2>2, FreeBounded, InUseNat, StringSizesAssumption
  <2> QED
    BY <1>1, <1>2, <2>1, <2>3 DEF LimitInv, InUse, StringInv, TerminatorInside
<1> QED
  BY <1>3, <1>4, <1>5, <1>6, <1>7, <1>8 DEF StringStep
-----------------------------------------------------------------------------
(* The actions on the caches.  Each changes the cache and the holdings of   *)
(* one kind, or empties both caches.                                        *)
LEMMA OneCache ==
  ASSUME CacheInv, NEW k \in Kind, NEW c, NEW h \in SUBSET Obj, Apart(c, h),
         cache' = [cache EXCEPT ![k] = c], held' = [held EXCEPT ![k] = h],
         val' \in [Obj -> Nat], bin' \in [Obj -> Nat]
  PROVE  CacheInv'
<1>1. held' \in [Kind -> SUBSET Obj]
  BY DEF CacheInv
<1>2. DOMAIN cache' = Kind /\ cache' = [i \in Kind |-> cache'[i]]
  BY DEF CacheInv
<1>3. \A i \in Kind : /\ cache'[i] = IF i = k THEN c ELSE cache[i]
                      /\ held'[i] = IF i = k THEN h ELSE held[i]
  BY DEF CacheInv
<1>4. \A i \in Kind : Apart(cache'[i], held'[i])
  BY <1>3 DEF CacheInv
<1> QED
  BY <1>1, <1>2, <1>4 DEF CacheInv, Apart, Caches

LEMMA CacheStepKeeps ==
  ASSUME LimitInv, CacheInv, CacheStep
  PROVE  LimitInv' /\ CacheInv'
<1>1. /\ limit \in Nat /\ used \in InUse /\ used \in Nat
      /\ \A k \in Kind : Apart(cache[k], held[k]) /\ held[k] \in SUBSET Obj
      /\ \A o \in Obj : val[o] \in Nat /\ bin[o] \in Nat
      /\ val \in [Obj -> Nat] /\ bin \in [Obj -> Nat]
  BY InUseNat DEF LimitInv, CacheInv
<1>2. limit' = limit
  BY DEF CacheStep, New, new_sexp_atom, new_sexp_binary_atom, WrongConstructor, destroy_sexp, Release, sexp_cleanup
<1>3. \A k \in Kind : held = [held EXCEPT ![k] = held[k]]
  BY DEF CacheInv
<1>4. "sexp_t" \in Kind /\ "pd" \in Kind
  BY DEF Kind
<1>5. ASSUME NEW k \in Kind, New(k)
      PROVE  LimitInv' /\ CacheInv'
  <2>1. PICK r \in allocate(used, cache[k], k) :
          /\ used' = r.used /\ cache' = [cache EXCEPT ![k] = r.cache]
          /\ \/ r.obj = NULL /\ held' = held /\ val' = val
             \/ /\ r.obj # NULL
                /\ held' = [held EXCEPT ![k] = @ \cup {r.obj}]
                /\ val' = IF k = "pd" THEN val ELSE [val EXCEPT ![r.obj] = 0]
          /\ bin' = bin
    BY <1>5 DEF New
  <2>2. /\ r.used \in InUse /\ Apart(r.cache, held[k])
        /\ r.obj # NULL => r.obj \in Obj /\ Apart(r.cache, held[k] \cup {r.obj})
    BY <1>1, <1>5, AllocateApart DEF New
  <2>3. val' \in [Obj -> Nat] /\ bin' \in [Obj -> Nat]
    BY <1>1, <2>1, <2>2
  <2>4. CASE r.obj = NULL
    BY <1>1, <1>2, <1>3, <2>1, <2>2, <2>3, <2>4, OneCache DEF LimitInv, InUse
  <2>5. CASE r.obj # NULL
    <3>1. held[k] \cup {r.obj} \in SUBSET Obj
      BY <1>1, <2>2, <2>5
    <3>2. held' = [held EXCEPT ![k] = held[k] \cup {r.obj}]
      BY <2>1, <2>5
    <3>3. CacheInv'
      BY <2>1, <2>2, <2>3, <2>5, <3>1, <3>2, OneCache
    <3> QED
      BY <1>1, <1>2, <2>1, <2>2, <3>3 DEF LimitInv, InUse
  <2> QED
    BY <2>4, <2>5
<1>6. ASSUME NEW bs \in AtomSizes, new_sexp_atom(bs)
      PROVE  LimitInv' /\ CacheInv'
  <2> DEFINE K == "sexp_t"
  <2>1. PICK r \in allocate(used, cache[K], K) :
          \/ /\ r.obj = NULL
             /\ used' = r.used /\ cache' = [cache EXCEPT ![K] = r.cache]
             /\ held' = held /\ val' = val
          \/ /\ r.obj # NULL
             /\ \E v \in sexp_malloc(r.used, bs + 1) :
                  \/ /\ v # Refused
                     /\ used' = v /\ cache' = [cache EXCEPT ![K] = r.cache]
                     /\ held' = [held EXCEPT ![K] = @ \cup {r.obj}]
                     /\ val' = [val EXCEPT ![r.obj] = bs + 1]
                  \/ /\ v = Refused
                     /\ \E d \in deallocate(r.used, r.cache, K, r.obj, 0) :
                          used' = d.used /\ cache' = [cache EXCEPT ![K] = d.cache]
                     /\ held' = held /\ val' = val
    BY <1>6 DEF new_sexp_atom
  <2>5. bin' \in [Obj -> Nat]
    BY <1>1, <1>6 DEF new_sexp_atom
  <2>2. /\ r.used \in InUse /\ Apart(r.cache, held[K])
        /\ r.obj # NULL => /\ r.obj \in Obj /\ r.obj \notin held[K]
                           /\ Apart(r.cache, held[K] \cup {r.obj})
    BY <1>1, <1>4, <1>6, AllocateApart DEF new_sexp_atom
  <2>3. CASE r.obj = NULL
    BY <1>1, <1>2, <1>3, <1>4, <2>1, <2>2, <2>3, <2>5, OneCache DEF LimitInv, InUse
  <2>4. CASE r.obj # NULL
    <3>1. bs + 1 \in Nat /\ r.used \in Nat
      <4>1. bs \in Nat
        BY CacheSizesAssumption
      <4>2. r.used \in Nat
        BY <1>1, <2>2, InUseNat
      <4> QED
        BY <4>1, <4>2
    <3>2. PICK v \in sexp_malloc(r.used, bs + 1) :
            \/ /\ v # Refused
               /\ used' = v /\ cache' = [cache EXCEPT ![K] = r.cache]
               /\ held' = [held EXCEPT ![K] = @ \cup {r.obj}]
               /\ val' = [val EXCEPT ![r.obj] = bs + 1]
            \/ /\ v = Refused
               /\ \E d \in deallocate(r.used, r.cache, K, r.obj, 0) :
                    used' = d.used /\ cache' = [cache EXCEPT ![K] = d.cache]
               /\ held' = held /\ val' = val
      BY <2>1, <2>4
    <3>3. CASE v # Refused
      <4>1. used' \in InUse
        BY <1>1, <3>1, <3>2, <3>3, MallocBounded
      <4>2. held[K] \cup {r.obj} \in SUBSET Obj /\ val' \in [Obj -> Nat]
        BY <1>1, <1>4, <2>2, <2>4, <3>1, <3>2, <3>3
      <4>3. held' = [held EXCEPT ![K] = held[K] \cup {r.obj}]
        BY <3>2, <3>3
      <4>4. CacheInv'
        BY <1>4, <2>2, <2>4, <2>5, <3>2, <3>3, <4>2, <4>3, OneCache
      <4> QED
        BY <1>1, <1>2, <4>1, <4>4 DEF LimitInv, InUse
    <3>4. CASE v = Refused
      <4>1. PICK d \in deallocate(r.used, r.cache, K, r.obj, 0) :
              used' = d.used /\ cache' = [cache EXCEPT ![K] = d.cache]
        BY <3>2, <3>4
      <4>2. d.used \in InUse /\ Apart(d.cache, held[K] \ {r.obj})
        BY <1>1, <1>4, <2>2, <2>4, DeallocateApart
      <4>3. held[K] \ {r.obj} = held[K]
        BY <2>2, <2>4
      <4>4. CacheInv'
        <5>1. held' = [held EXCEPT ![K] = held[K]] /\ val' \in [Obj -> Nat]
          BY <1>1, <1>3, <1>4, <3>2, <3>4
        <5>2. Apart(d.cache, held[K]) /\ held[K] \in SUBSET Obj
          BY <1>1, <1>4, <4>2, <4>3
        <5> QED
          BY <1>4, <2>5, <4>1, <5>1, <5>2, OneCache
      <4> QED
        BY <1>1, <1>2, <4>1, <4>2, <4>4 DEF LimitInv, InUse
    <3> QED
      BY <3>3, <3>4
  <2> QED
    BY <2>3, <2>4
<1>7. ASSUME NEW o \in Obj, destroy_sexp(o)
      PROVE  LimitInv' /\ CacheInv'
  <2> DEFINE K == "sexp_t"
  <2>1. PICK d \in deallocate(sexp_free(used, val[o] + bin[o]), cache[K], K, o, 0) :
          /\ used' = d.used /\ cache' = [cache EXCEPT ![K] = d.cache]
          /\ held' = [held EXCEPT ![K] = @ \ {o}] /\ val' = [val EXCEPT ![o] = 0]
          /\ bin' = [bin EXCEPT ![o] = 0] /\ o \in held[K]
    BY <1>7 DEF destroy_sexp
  <2>2. sexp_free(used, val[o] + bin[o]) \in InUse
    BY <1>1, FreeBounded, InUseNat
  <2>3. held[K] \cup {o} = held[K] /\ Apart(cache[K], held[K])
    BY <1>1, <1>4, <2>1
  <2>4. d.used \in InUse /\ Apart(d.cache, held[K] \ {o})
    BY <1>1, <1>4, <2>2, <2>3, DeallocateApart
  <2>5. /\ held[K] \ {o} \in SUBSET Obj /\ val' \in [Obj -> Nat] /\ bin' \in [Obj -> Nat]
        /\ held' = [held EXCEPT ![K] = held[K] \ {o}]
    BY <1>1, <1>4, <2>1
  <2>6. CacheInv'
    BY <1>4, <2>1, <2>4, <2>5, OneCache
  <2> QED
    BY <1>1, <1>2, <2>1, <2>4, <2>6 DEF LimitInv, InUse
<1>8. ASSUME NEW k \in Kind, NEW o \in Obj, Release(k, o)
      PROVE  LimitInv' /\ CacheInv'
  <2> DEFINE n == IF k = "pd" THEN 0 ELSE val[o]
  <2>1. PICK d \in deallocate(used, cache[k], k, o, n) :
          /\ used' = d.used /\ cache' = [cache EXCEPT ![k] = d.cache]
          /\ held' = [held EXCEPT ![k] = @ \ {o}]
          /\ val' = IF k = "pd" THEN val ELSE [val EXCEPT ![o] = 0]
          /\ bin' = IF k = "pd" THEN bin ELSE [bin EXCEPT ![o] = 0]
          /\ o \in held[k]
    BY <1>8 DEF Release
  <2>2. n \in Nat
    BY <1>1
  <2> HIDE DEF n
  <2>3. held[k] \cup {o} = held[k] /\ Apart(cache[k], held[k])
    BY <1>1, <2>1
  <2>4. d.used \in InUse /\ Apart(d.cache, held[k] \ {o})
    BY <1>1, <2>2, <2>3, DeallocateApart
  <2>5. /\ held[k] \ {o} \in SUBSET Obj /\ val' \in [Obj -> Nat] /\ bin' \in [Obj -> Nat]
        /\ held' = [held EXCEPT ![k] = held[k] \ {o}]
    BY <1>1, <2>1
  <2>6. CacheInv'
    BY <2>1, <2>4, <2>5, OneCache
  <2> QED
    BY <1>1, <1>2, <2>1, <2>4, <2>6 DEF LimitInv, InUse
<1>9. ASSUME sexp_cleanup
      PROVE  LimitInv' /\ CacheInv'
  <2>1. ASSUME NEW u \in InUse, NEW k \in Kind
        PROVE  Emptied(u, k) \in InUse
    <3>1. /\ Len(cache[k].data) \in Nat /\ cache[k].levels \in Nat
          /\ ObjSize[k] \in Nat \ {0} /\ LevelSize \in Nat \ {0} /\ StackSize \in Nat
      <4>1. cache[k] \in Caches
        BY <1>1 DEF Apart
      <4>2. cache[k].data \in Seq(Obj) /\ cache[k].levels \in Nat
        BY <4>1, CacheFields
      <4> QED
        BY <4>2, CacheSizesAssumption
    <3>2. sexp_free_all(u, Len(cache[k].data), ObjSize[k]) \in InUse
      BY <1>1, <3>1, FreeAllBounded, InUseNat
    <3>3. sexp_free_all(sexp_free_all(u, Len(cache[k].data), ObjSize[k]),
                        cache[k].levels, LevelSize) \in InUse
      BY <1>1, <3>1, <3>2, FreeAllBounded, InUseNat
    <3>4. sexp_free(sexp_free_all(sexp_free_all(u, Len(cache[k].data), ObjSize[k]),
                                  cache[k].levels, LevelSize), StackSize) \in InUse
      BY <1>1, <3>1, <3>3, FreeBounded, InUseNat
    <3> QED
      BY <3>4 DEF Emptied
  <2>2. used' \in InUse
    BY <1>1, <1>4, <1>9, <2>1 DEF sexp_cleanup
  <2>3. CacheInv'
    BY <1>1, <1>9, NoCacheApart DEF sexp_cleanup, CacheInv, Apart, Caches
  <2> QED
    BY <1>1, <1>2, <2>2, <2>3 DEF LimitInv, InUse
<1>10. ASSUME NEW n \in AtomSizes, new_sexp_binary_atom(n)
       PROVE  LimitInv' /\ CacheInv'
  <2> DEFINE K == "sexp_t"
  <2>1. PICK v \in sexp_malloc(used, n) \ {Refused} :
          \E r \in allocate(v, cache[K], K) :
            /\ cache' = [cache EXCEPT ![K] = r.cache]
            /\ \/ r.obj = NULL /\ used' = sexp_free(r.used, n) /\ held' = held /\ bin' = bin
               \/ /\ r.obj # NULL /\ used' = r.used
                  /\ held' = [held EXCEPT ![K] = @ \cup {r.obj}]
                  /\ bin' = [bin EXCEPT ![r.obj] = n]
    BY <1>10 DEF new_sexp_binary_atom
  <2>2. PICK r \in allocate(v, cache[K], K) :
          /\ cache' = [cache EXCEPT ![K] = r.cache]
          /\ \/ r.obj = NULL /\ used' = sexp_free(r.used, n) /\ held' = held /\ bin' = bin
             \/ /\ r.obj # NULL /\ used' = r.used
                /\ held' = [held EXCEPT ![K] = @ \cup {r.obj}]
                /\ bin' = [bin EXCEPT ![r.obj] = n]
    BY <2>1
  <2>3. n \in Nat
    BY CacheSizesAssumption
  <2>4. v \in InUse
    BY <1>1, <2>3, MallocBounded
  <2>5. /\ r.used \in InUse /\ Apart(r.cache, held[K])
        /\ r.obj # NULL => r.obj \in Obj /\ Apart(r.cache, held[K] \cup {r.obj})
    BY <1>1, <1>4, <1>10, <2>4, AllocateApart DEF new_sexp_binary_atom
  <2>6. val' \in [Obj -> Nat] /\ bin' \in [Obj -> Nat]
    BY <1>1, <1>10, <2>2, <2>3, <2>5 DEF new_sexp_binary_atom
  <2>7. CASE r.obj = NULL
    <3>1. used' \in InUse
      BY <1>1, <2>2, <2>3, <2>5, <2>7, FreeBounded, InUseNat
    <3>2. CacheInv'
      BY <1>1, <1>3, <1>4, <2>2, <2>5, <2>6, <2>7, OneCache
    <3> QED
      BY <1>1, <1>2, <3>1, <3>2 DEF LimitInv, InUse
  <2>8. CASE r.obj # NULL
    <3>1. held[K] \cup {r.obj} \in SUBSET Obj
      BY <1>1, <1>4, <2>5, <2>8
    <3>2. held' = [held EXCEPT ![K] = held[K] \cup {r.obj}]
      BY <2>2, <2>8
    <3>3. CacheInv'
      BY <1>4, <2>2, <2>5, <2>6, <2>8, <3>1, <3>2, OneCache
    <3> QED
      BY <1>1, <1>2, <2>2, <2>5, <2>8, <3>3 DEF LimitInv, InUse
  <2> QED
    BY <2>7, <2>8
<1>11. CASE WrongConstructor
  BY <1>11 DEF WrongConstructor, LimitInv, InUse, CacheInv, Apart, Caches
<1> QED
  BY <1>5, <1>6, <1>7, <1>8, <1>9, <1>10, <1>11 DEF CacheStep
-----------------------------------------------------------------------------
LEMMA MemoryInit == Init => MemoryInv
<1> SUFFICES ASSUME Init PROVE MemoryInv
  OBVIOUS
<1>1. LimitInv
  <2>1. limit \in Nat
    BY LimitsAssumption, RangeAssumption DEF Init
  <2> QED
    BY <2>1 DEF Init, LimitInv, InUse
<1>2. StringInv
  BY StringSizesAssumption DEF Init, StringInv, TerminatorInside
<1>3. CacheInv
  <2>1. held \in [Kind -> SUBSET Obj] /\ val \in [Obj -> Nat] /\ bin \in [Obj -> Nat]
    BY DEF Init
  <2>2. cache = [k \in Kind |-> NoCache]
    BY DEF Init
  <2>3. DOMAIN cache = Kind /\ cache = [k \in Kind |-> cache[k]]
    BY <2>2
  <2>4. \A k \in Kind : Apart(cache[k], held[k])
    BY <2>2, NoCacheApart
  <2> QED
    BY <2>1, <2>3, <2>4 DEF CacheInv
<1> QED
  BY <1>1, <1>2, <1>3 DEF MemoryInv

LEMMA MemoryNext == MemoryInv /\ [Next]_vars => MemoryInv'
<1> SUFFICES ASSUME MemoryInv, [Next]_vars PROVE MemoryInv'
  OBVIOUS
<1>1. LimitInv /\ StringInv /\ CacheInv
  BY DEF MemoryInv
<1>2. UNCHANGED stringVars => StringInv'
  BY <1>1 DEF stringVars, StringInv, TerminatorInside, Curlen
<1>3. UNCHANGED cacheVars => CacheInv'
  BY <1>1 DEF cacheVars, CacheInv, Apart, Caches
<1>4. CASE StringStep /\ UNCHANGED cacheVars
  BY <1>1, <1>3, <1>4, StringStepKeeps DEF MemoryInv
<1>5. CASE CacheStep /\ UNCHANGED stringVars
  BY <1>1, <1>2, <1>5, CacheStepKeeps DEF MemoryInv
<1>6. ASSUME NEW n \in Limits, SetLimit(n)
      PROVE  MemoryInv'
  <2>1. n \in Nat
    BY LimitsAssumption, RangeAssumption
  <2>2. used' = used /\ (limit' = limit \/ (limit' = n /\ n >= used))
    BY <1>6 DEF SetLimit, set_sexp_max_memory
  <2>3. LimitInv'
    BY <1>1, <2>1, <2>2 DEF LimitInv, InUse
  <2>4. UNCHANGED stringVars /\ UNCHANGED cacheVars
    BY <1>6 DEF SetLimit
  <2> QED
    BY <1>2, <1>3, <2>3, <2>4 DEF MemoryInv
<1>7. CASE UNCHANGED vars
  <2>1. UNCHANGED stringVars /\ UNCHANGED cacheVars /\ used' = used /\ limit' = limit
    BY <1>7 DEF vars, stringVars, cacheVars
  <2> QED
    BY <1>1, <1>2, <1>3, <2>1 DEF MemoryInv, LimitInv, InUse
<1> QED
  BY <1>4, <1>5, <1>6, <1>7 DEF Next

(* The library never has more memory in use than the limit allows, for all  *)
(* block sizes and limits, whatever calls are refused, and although the     *)
(* limiter computes in size_t and takes the caller's word for the size of   *)
(* a block that is freed (sexp_memory.c).                                   *)
THEOREM MemoryWithinLimit == Spec => []WithinLimit
<1>1. MemoryInv => WithinLimit
  BY DEF MemoryInv, LimitInv, InUse, WithinLimit
<1> QED
  BY <1>1, MemoryInit, MemoryNext, PTL DEF Spec

(* The terminator that sadd and saddch write is inside the buffer, for all  *)
(* start sizes, 0 included, and all growth sizes sgrowsize accepts          *)
(* (cstring.c).                                                             *)
THEOREM CStringTerminator == Spec => []TerminatorInside
<1>1. MemoryInv => TerminatorInside
  BY DEF MemoryInv, StringInv
<1> QED
  BY <1>1, MemoryInit, MemoryNext, PTL DEF Spec

(* No element or record is in a cache twice, or in a cache and in a         *)
(* client's hands, whichever allocations fail (sexp_t_allocate,             *)
(* sexp_t_deallocate, pd_allocate and pd_deallocate of parser.c).           *)
THEOREM CacheOwnedOrCached == Spec => []OwnedOrCached
<1>1. MemoryInv => OwnedOrCached
  BY DEF MemoryInv, CacheInv, Apart, OwnedOrCached
<1> QED
  BY <1>1, MemoryInit, MemoryNext, PTL DEF Spec
-----------------------------------------------------------------------------
(* Sums over finite sets, as SumFunctionOnSet computes them: g gives the    *)
(* sum of f over each subset of S, taken one chosen element at a time.      *)
Chosen(s) == CHOOSE x \in s : TRUE
SumStep(f, g, s) == IF s = {} THEN 0 ELSE f[Chosen(s)] + g[s \ {Chosen(s)}]
Sums(f, S, g) == g = [s \in SUBSET S |-> SumStep(f, g, s)]

(* In every set of naturals with an element there is a least one, and among *)
(* finite sets there is one with the fewest elements.                       *)
LEMMA LeastNumber ==
  ASSUME NEW T \in SUBSET Nat, T # {} PROVE \E m \in T : \A k \in T : m <= k
<1>1. PICK m \in T : \A k \in T : ~(<<k, m>> \in OpToRel(<, Nat))
  BY NatLessThanWellFounded, WFMin
<1>2. \A k \in T : ~(k < m)
  BY <1>1 DEF OpToRel
<1> QED
  BY <1>2

LEMMA FewestElements ==
  ASSUME NEW B, B # {}, \A s \in B : IsFiniteSet(s)
  PROVE  \E s \in B : \A t \in B : Cardinality(s) <= Cardinality(t)
<1> DEFINE T == {Cardinality(s) : s \in B}
<1>1. T \in SUBSET Nat /\ T # {}
  BY FS_CardinalityType
<1> HIDE DEF T
<1>2. PICK m \in T : \A k \in T : m <= k
  BY <1>1, LeastNumber
<1> QED
  BY <1>2 DEF T

LEMMA OneChosen ==
  ASSUME NEW s, IsFiniteSet(s), s # {}
  PROVE  /\ Chosen(s) \in s /\ IsFiniteSet(s \ {Chosen(s)})
         /\ Cardinality(s) \in Nat
         /\ Cardinality(s \ {Chosen(s)}) = Cardinality(s) - 1
<1>1. Chosen(s) \in s
  BY DEF Chosen
<1> QED
  BY <1>1, FS_RemoveElement, FS_CardinalityType

LEMMA SumsExist ==
  ASSUME NEW f, NEW S, IsFiniteSet(S)
  PROVE  \E g : Sums(f, S, g)
<1> DEFINE Upto(n, g) == \A s \in SUBSET S : Cardinality(s) <= n => g[s] = SumStep(f, g, s)
           T == {n \in Nat : ~ \E g : Upto(n, g)}
<1>1. \A s \in SUBSET S : /\ IsFiniteSet(s) /\ Cardinality(s) \in Nat
                          /\ Cardinality(s) <= Cardinality(S)
  BY FS_Subset, FS_CardinalityType
<1>2. ASSUME T # {} PROVE FALSE
  <2>2. PICK m \in T : \A k \in T : m <= k
    BY <1>2, LeastNumber
  <2>3. CASE m = 0
    <3> DEFINE z == [s \in SUBSET S |-> 0]
    <3>1. \A s \in SUBSET S : Cardinality(s) <= 0 => s = {}
      BY <1>1, FS_EmptySet
    <3>2. Upto(0, z)
      BY <3>1 DEF SumStep
    <3> QED
      BY <2>3, <3>2
  <2>4. CASE m # 0
    <3>1. m - 1 \in Nat /\ m - 1 \notin T
      BY <2>2, <2>4
    <3>2. PICK g : Upto(m - 1, g)
      BY <3>1
    <3> DEFINE h == [s \in SUBSET S |-> IF Cardinality(s) <= m - 1 THEN g[s] ELSE SumStep(f, g, s)]
    <3>3. ASSUME NEW s \in SUBSET S, Cardinality(s) <= m PROVE h[s] = SumStep(f, g, s)
      BY <3>2
    <3>4. ASSUME NEW s \in SUBSET S, Cardinality(s) <= m PROVE SumStep(f, h, s) = SumStep(f, g, s)
      <4>1. CASE s = {}
        BY <4>1 DEF SumStep
      <4>2. CASE s # {}
        <5>1. s \ {Chosen(s)} \in SUBSET S /\ Cardinality(s \ {Chosen(s)}) <= m - 1
          BY <1>1, <3>1, <3>4, <4>2, OneChosen
        <5>2. h[s \ {Chosen(s)}] = g[s \ {Chosen(s)}]
          BY <5>1
        <5> QED
          BY <4>2, <5>2 DEF SumStep
      <4> QED
        BY <4>1, <4>2
    <3> HIDE DEF h
    <3>5. Upto(m, h)
      BY <3>3, <3>4
    <3> QED
      BY <3>5
  <2> QED
    BY <2>3, <2>4
<1>3. Cardinality(S) \in Nat
  BY FS_CardinalityType
<1>4. PICK g : Upto(Cardinality(S), g)
  BY <1>2, <1>3
<1> DEFINE h == [s \in SUBSET S |-> g[s]]
<1>5. \A s \in SUBSET S : SumStep(f, h, s) = SumStep(f, g, s)
  <2>1. \A s \in SUBSET S : s # {} => s \ {Chosen(s)} \in SUBSET S
    OBVIOUS
  <2> QED
    BY <2>1 DEF SumStep
<1>6. \A s \in SUBSET S : h[s] = SumStep(f, h, s)
  BY <1>1, <1>4, <1>5
<1>7. h = [s \in SUBSET S |-> h[s]]
  OBVIOUS
<1> HIDE DEF h
<1>8. Sums(f, S, h)
  BY <1>6, <1>7 DEF Sums
<1> QED
  BY <1>8

(* The order in which elements are chosen makes no difference, nor does     *)
(* what f is elsewhere.                                                     *)
LEMMA SumsAnyOrder ==
  ASSUME NEW f, NEW S, IsFiniteSet(S), \A x \in S : f[x] \in Nat, NEW g, Sums(f, S, g)
  PROVE  /\ g[{}] = 0
         /\ \A s \in SUBSET S : g[s] \in Nat
         /\ \A s \in SUBSET S : \A x \in s : g[s] = f[x] + g[s \ {x}]
<1>1. \A s \in SUBSET S : IsFiniteSet(s) /\ Cardinality(s) \in Nat
  BY FS_Subset, FS_CardinalityType
<1>2. \A s \in SUBSET S : g[s] = SumStep(f, g, s)
  <2> DEFINE F == [s \in SUBSET S |-> SumStep(f, g, s)]
  <2>1. \A s \in SUBSET S : F[s] = SumStep(f, g, s)
    OBVIOUS
  <2>2. g = F
    BY DEF Sums
  <2> HIDE DEF F
  <2> QED
    BY <2>1, <2>2
<1>3. \A s \in SUBSET S : s # {} => /\ g[s] = f[Chosen(s)] + g[s \ {Chosen(s)}]
                                    /\ Chosen(s) \in s /\ s \ {Chosen(s)} \in SUBSET S
                                    /\ Cardinality(s \ {Chosen(s)}) < Cardinality(s)
  <2> SUFFICES ASSUME NEW s \in SUBSET S, s # {}
               PROVE  /\ g[s] = f[Chosen(s)] + g[s \ {Chosen(s)}]
                      /\ Chosen(s) \in s /\ s \ {Chosen(s)} \in SUBSET S
                      /\ Cardinality(s \ {Chosen(s)}) < Cardinality(s)
    OBVIOUS
  <2>1. g[s] = f[Chosen(s)] + g[s \ {Chosen(s)}]
    BY <1>2 DEF SumStep
  <2>2. /\ Chosen(s) \in s /\ Cardinality(s) \in Nat
        /\ Cardinality(s \ {Chosen(s)}) = Cardinality(s) - 1
    BY <1>1, OneChosen
  <2> QED
    BY <2>1, <2>2
<1>4. g[{}] = 0
  BY <1>2 DEF SumStep
<1>5. ASSUME NEW s \in SUBSET S, g[s] \notin Nat PROVE FALSE
  <2> DEFINE B == {t \in SUBSET S : g[t] \notin Nat}
  <2>1. PICK t \in B : \A u \in B : Cardinality(t) <= Cardinality(u)
    <3>1. B # {} /\ \A t \in B : IsFiniteSet(t)
      BY <1>1, <1>5
    <3> HIDE DEF B
    <3> QED
      BY <3>1, FewestElements
  <2>2. t # {}
    BY <1>4, <2>1
  <2>3. g[t \ {Chosen(t)}] \in Nat
    BY <1>1, <1>3, <2>1, <2>2
  <2>4. f[Chosen(t)] \in Nat
    BY <1>3, <2>2
  <2>5. g[t] = f[Chosen(t)] + g[t \ {Chosen(t)}]
    BY <1>3, <2>1, <2>2
  <2>6. g[t] \notin Nat
    BY <2>1
  <2> QED
    BY <2>3, <2>4, <2>5, <2>6
<1>6. \A s \in SUBSET S : g[s] \in Nat
  BY <1>5
<1>7. ASSUME NEW s \in SUBSET S, NEW y \in s, g[s] # f[y] + g[s \ {y}] PROVE FALSE
  <2> DEFINE B == {t \in SUBSET S : \E x \in t : g[t] # f[x] + g[t \ {x}]}
  <2>1. PICK t \in B : \A u \in B : Cardinality(t) <= Cardinality(u)
    <3>1. B # {} /\ \A t \in B : IsFiniteSet(t)
      BY <1>1, <1>7
    <3> HIDE DEF B
    <3> QED
      BY <3>1, FewestElements
  <2>2. PICK x \in t : g[t] # f[x] + g[t \ {x}]
    BY <2>1
  <2> DEFINE p == Chosen(t)
             u == t \ {p}
             v == t \ {x}
  <2>3. /\ t \in SUBSET S /\ t # {} /\ p \in t /\ g[t] = f[p] + g[u]
        /\ u \in SUBSET S /\ Cardinality(u) < Cardinality(t)
    BY <1>3, <2>1, <2>2
  <2>4. x # p /\ x \in u /\ p \in v
    BY <2>2, <2>3
  <2>5. v \in SUBSET S /\ Cardinality(v) < Cardinality(t)
    BY <1>1, <2>3, <2>2, FS_RemoveElement
  <2>6. \A w \in SUBSET S : Cardinality(w) < Cardinality(t) => w \notin B
    BY <1>1, <2>1
  <2>7. g[u] = f[x] + g[u \ {x}] /\ g[v] = f[p] + g[v \ {p}]
    BY <2>3, <2>4, <2>5, <2>6
  <2>8. u \ {x} = v \ {p}
    OBVIOUS
  <2>9. f[x] \in Nat /\ f[p] \in Nat /\ g[u \ {x}] \in Nat
    <3>1. u \ {x} \in SUBSET S
      BY <2>3
    <3> QED
      BY <1>6, <2>2, <2>3, <3>1
  <2> HIDE DEF u, v, p
  <2>10. \A i, j, k \in Nat : i + (j + k) = j + (i + k)
    OBVIOUS
  <2>11. g[v] = f[p] + g[u \ {x}] /\ g[t] = f[p] + (f[x] + g[u \ {x}])
    BY <2>3, <2>7, <2>8
  <2>12. g[t] = f[x] + g[v]
    BY <2>9, <2>10, <2>11
  <2> QED
    BY <2>2, <2>12 DEF v
<1> QED
  BY <1>4, <1>6, <1>7

LEMMA SumsAgree ==
  ASSUME NEW f, NEW S, IsFiniteSet(S), NEW g, Sums(f, S, g),
         NEW f2, NEW S2, S \in SUBSET S2, NEW g2, Sums(f2, S2, g2),
         \A x \in S : f[x] = f2[x]
  PROVE  \A s \in SUBSET S : g[s] = g2[s]
<1>1. \A s \in SUBSET S : IsFiniteSet(s) /\ Cardinality(s) \in Nat
  BY FS_Subset, FS_CardinalityType
<1>2. \A s \in SUBSET S : g[s] = SumStep(f, g, s)
  <2> DEFINE F == [s \in SUBSET S |-> SumStep(f, g, s)]
  <2>1. \A s \in SUBSET S : F[s] = SumStep(f, g, s)
    OBVIOUS
  <2>2. g = F
    BY DEF Sums
  <2> HIDE DEF F
  <2> QED
    BY <2>1, <2>2
<1>3. \A s \in SUBSET S : g2[s] = SumStep(f2, g2, s)
  <2> DEFINE F == [s \in SUBSET S2 |-> SumStep(f2, g2, s)]
  <2>1. \A s \in SUBSET S2 : F[s] = SumStep(f2, g2, s)
    OBVIOUS
  <2>2. g2 = F
    BY DEF Sums
  <2> HIDE DEF F
  <2> QED
    BY <2>1, <2>2
<1>4. ASSUME NEW s \in SUBSET S, g[s] # g2[s] PROVE FALSE
  <2> DEFINE B == {t \in SUBSET S : g[t] # g2[t]}
  <2>1. PICK t \in B : \A u \in B : Cardinality(t) <= Cardinality(u)
    <3>1. B # {} /\ \A t \in B : IsFiniteSet(t)
      BY <1>1, <1>4
    <3> HIDE DEF B
    <3> QED
      BY <3>1, FewestElements
  <2>2. t # {}
    BY <1>2, <1>3, <2>1 DEF SumStep
  <2>3. /\ Chosen(t) \in t /\ t \ {Chosen(t)} \in SUBSET S
        /\ Cardinality(t \ {Chosen(t)}) < Cardinality(t)
    BY <1>1, <2>1, <2>2, OneChosen
  <2>4. g[t \ {Chosen(t)}] = g2[t \ {Chosen(t)}] /\ f[Chosen(t)] = f2[Chosen(t)]
    <3>1. t \ {Chosen(t)} \notin B
      BY <1>1, <2>1, <2>3
    <3> QED
      BY <2>1, <2>3, <3>1
  <2>5. SumStep(f, g, t) = SumStep(f2, g2, t)
    BY <2>2, <2>4 DEF SumStep
  <2> QED
    BY <1>2, <1>3, <2>1, <2>5
<1> QED
  BY <1>4

LEMMA SumIs ==
  ASSUME NEW f, NEW S, IsFiniteSet(S)
  PROVE  \E g : Sums(f, S, g) /\ SumFunctionOnSet(f, S) = g[S]
<1>1. SumFunctionOnSet(f, S) = (CHOOSE g : Sums(f, S, g))[S]
  BY DEF SumFunctionOnSet, FoldFunctionOnSet, MapThenFoldSet, Sums, SumStep, Chosen
<1> QED
  BY <1>1, SumsExist

(* What is said of sums below. *)
LEMMA SumEmpty == ASSUME NEW f PROVE SumFunctionOnSet(f, {}) = 0
<1>1. IsFiniteSet({})
  BY FS_EmptySet
<1>2. PICK g : Sums(f, {}, g) /\ SumFunctionOnSet(f, {}) = g[{}]
  BY <1>1, SumIs
<1> QED
  BY <1>1, <1>2, SumsAnyOrder

LEMMA SumNat ==
  ASSUME NEW f, NEW S, IsFiniteSet(S), \A x \in S : f[x] \in Nat
  PROVE  SumFunctionOnSet(f, S) \in Nat
  BY SumIs, SumsAnyOrder

LEMMA SumAgree ==
  ASSUME NEW f, NEW f2, NEW S, IsFiniteSet(S), \A x \in S : f[x] = f2[x]
  PROVE  SumFunctionOnSet(f, S) = SumFunctionOnSet(f2, S)
<1>1. PICK g : Sums(f, S, g) /\ SumFunctionOnSet(f, S) = g[S]
  BY SumIs
<1>2. PICK g2 : Sums(f2, S, g2) /\ SumFunctionOnSet(f2, S) = g2[S]
  BY SumIs
<1> QED
  BY <1>1, <1>2, SumsAgree

LEMMA SumRemove ==
  ASSUME NEW f, NEW S, IsFiniteSet(S), NEW o \in S, \A y \in S : f[y] \in Nat
  PROVE  SumFunctionOnSet(f, S) = f[o] + SumFunctionOnSet(f, S \ {o})
<1>1. PICK g : Sums(f, S, g) /\ SumFunctionOnSet(f, S) = g[S]
  BY SumIs
<1>2. IsFiniteSet(S \ {o})
  BY FS_Subset
<1>3. PICK h : Sums(f, S \ {o}, h) /\ SumFunctionOnSet(f, S \ {o}) = h[S \ {o}]
  BY <1>2, SumIs
<1>4. S \ {o} \in SUBSET S /\ S \in SUBSET S /\ S \ {o} \in SUBSET (S \ {o})
  OBVIOUS
<1>5. h[S \ {o}] = g[S \ {o}]
  <2> DEFINE T == S \ {o}
  <2>1. /\ IsFiniteSet(T) /\ Sums(f, T, h) /\ T \in SUBSET S /\ Sums(f, S, g)
        /\ \A x \in T : f[x] = f[x]
    BY <1>1, <1>2, <1>3, <1>4, Zenon
  <2> HIDE DEF T
  <2>2. \A s \in SUBSET T : h[s] = g[s]
    BY ONLY <2>1, SumsAgree
  <2> QED
    BY <1>4, <2>2, Zenon DEF T
<1>6. g[S] = f[o] + g[S \ {o}]
  BY <1>1, <1>4, SumsAnyOrder
<1> QED
  BY <1>1, <1>3, <1>5, <1>6
-----------------------------------------------------------------------------
(* What is counted.  An element or record is worth its size and what hangs  *)
(* on it; a cache is worth nothing until it is made.                        *)
Worth(k, n, m) == IF k = "pd" THEN 0 ELSE n + m
HeldOf(k, h, v, b) ==
  Cardinality(h) * ObjSize[k] + Worth(k, SumFunctionOnSet(v, h), SumFunctionOnSet(b, h))
Unmade(c) == ~c.made => c.data = << >> /\ c.levels = 0
Counted(c) == c \in Caches /\ Unmade(c)

CountInv ==
  /\ limit < SizeRange /\ lost \in Nat
  /\ \A k \in Kind : IsFiniteSet(held[k]) /\ Unmade(cache[k])
  /\ \A o \in Obj : o \notin held["sexp_t"] => val[o] = 0 /\ bin[o] = 0
  /\ UsedIsHeld

LEMMA GrantedExact ==
  ASSUME NEW u \in Nat, u < SizeRange, NEW size \in Nat, NEW oldsize \in Nat, oldsize <= u,
         NEW v \in Granted(u, size, oldsize), v # Refused
  PROVE  v = u + size - oldsize /\ v \in Nat
<1> DEFINE R == SizeRange
           d == size - oldsize
<1>1. R \in Nat \ {0} /\ d \in Int /\ u + d \in Nat
  BY RangeAssumption
<1>2. v = (u + (d % R)) % R /\ u + d < R
  BY DEF Granted
<1>3. \A a \in Nat : a < R => a % R = a
  BY <1>1
<1> HIDE DEF R, d
<1>4. CASE d >= 0
  BY <1>1, <1>2, <1>3, <1>4 DEF d
<1>5. CASE d < 0
  <2>1. d + R \in 0..(R - 1) /\ d = R * (-1) + (d + R)
    BY <1>1, <1>5 DEF R, d
  <2>2. d % R = d + R
    BY <1>1, <2>1
  <2>3. (u + d) + R = R * 1 + (u + d) /\ (u + d) \in 0..(R - 1)
    BY <1>1, <1>2
  <2>4. (u + (d + R)) % R = u + d
    BY <1>1, <2>3
  <2> QED
    BY <1>1, <1>2, <2>2, <2>4 DEF d
<1> QED
  BY <1>1, <1>4, <1>5

LEMMA MallocExact ==
  ASSUME limit < SizeRange, LimitInv, NEW u \in InUse, NEW size \in Nat,
         NEW v \in sexp_malloc(u, size), v # Refused
  PROVE  v = u + size /\ v \in Nat /\ v \in InUse
<1>1. u \in Nat /\ u < SizeRange /\ limit \in Nat
  BY RangeAssumption DEF LimitInv, InUse
<1>2. v = u + size - 0 /\ v \in Nat
  BY <1>1, GrantedExact DEF sexp_malloc
<1> QED
  BY <1>1, <1>2, MallocBounded

LEMMA FreeExact ==
  ASSUME NEW u \in Nat, NEW size \in Nat, size <= u
  PROVE  sexp_free(u, size) = u - size /\ u - size \in Nat
  BY DEF sexp_free

LEMMA FreeAllExact ==
  ASSUME NEW u \in Nat, NEW n \in Nat, NEW size \in Nat, n * size <= u
  PROVE  sexp_free_all(u, n, size) = u - n * size /\ u - n * size \in Nat
<1>1. n * size \in Nat
  OBVIOUS
<1> QED
  BY <1>1 DEF sexp_free_all

LEMMA OneMore ==
  ASSUME NEW n \in Nat, NEW size \in Nat
  PROVE  n * size \in Nat /\ (n + 1) * size = n * size + size
  OBVIOUS

LEMMA OneLess ==
  ASSUME NEW n \in Nat, n - 1 \in Nat, NEW size \in Nat
  PROVE  n * size = (n - 1) * size + size
<1> DEFINE m == n - 1
<1>1. m \in Nat /\ n = m + 1
  OBVIOUS
<1> HIDE DEF m
<1>2. n * size = m * size + size
  BY <1>1, OneMore
<1> QED
  BY <1>2 DEF m

LEMMA Sizes ==
  ASSUME NEW k \in Kind
  PROVE  ObjSize[k] \in Nat /\ StackSize \in Nat /\ LevelSize \in Nat
  BY CacheSizesAssumption

(* The worth of a cache, when it is made, popped and pushed. *)
LEMMA CacheBytesNat ==
  ASSUME NEW k \in Kind, NEW c \in Caches
  PROVE  /\ CacheBytes(c, k) \in Nat
         /\ c.made => /\ CacheBytes(c, k) = StackSize + c.levels * LevelSize
                                            + Len(c.data) * ObjSize[k]
                      /\ c.levels * LevelSize \in Nat /\ Len(c.data) * ObjSize[k] \in Nat
<1>1. c.levels \in Nat /\ Len(c.data) \in Nat
  <2>1. c.data \in Seq(Obj) /\ c.levels \in Nat
    BY CacheFields
  <2> QED
    BY <2>1
<1>2. c.levels * LevelSize \in Nat /\ Len(c.data) * ObjSize[k] \in Nat
  BY <1>1, Sizes, OneMore
<1> QED
  BY <1>2, Sizes DEF CacheBytes

LEMMA MadeBytes ==
  ASSUME NEW k \in Kind, NEW c, Counted(c)
  PROVE  LET m == [c EXCEPT !.made = TRUE]
         IN  /\ Counted(m) /\ m.made /\ m.data = c.data /\ m.levels = c.levels
             /\ CacheBytes(m, k) = CacheBytes(c, k) + (IF c.made THEN 0 ELSE StackSize)
<1> DEFINE m == [c EXCEPT !.made = TRUE]
<1>1. c \in Caches /\ m \in Caches /\ m.data = c.data /\ m.levels = c.levels
  BY CacheFields DEF Counted
<1>2. m.made
  BY <1>1 DEF Caches
<1> HIDE DEF m
<1>3. CASE c.made
  BY <1>1, <1>2, <1>3, CacheBytesNat DEF CacheBytes, Counted, Unmade, m
<1>4. CASE ~c.made
  <2>1. c.data = << >> /\ c.levels = 0 /\ Len(<< >>) = 0
    BY <1>4 DEF Counted, Unmade
  <2>2. 0 * LevelSize = 0 /\ 0 * ObjSize[k] = 0
    BY Sizes
  <2>3. CacheBytes(m, k) = StackSize /\ CacheBytes(c, k) = 0
    BY <1>1, <1>2, <1>4, <2>1, <2>2, Sizes DEF CacheBytes
  <2> QED
    BY <1>1, <1>2, <1>4, <2>3, Sizes DEF Counted, Unmade, m
<1> QED
  BY <1>3, <1>4

LEMMA StackedExact ==
  ASSUME limit < SizeRange, LimitInv, NEW u \in InUse, NEW c, NEW s \in Stacked(u, c),
         s # Refused
  PROVE  s = u + (IF c.made THEN 0 ELSE StackSize) /\ s \in InUse /\ s \in Nat
<1>1. u \in Nat /\ StackSize \in Nat
  BY CacheSizesAssumption, InUseNat DEF LimitInv
<1>2. CASE c.made
  BY <1>1, <1>2 DEF Stacked
<1>3. CASE ~c.made
  BY <1>1, <1>3, MallocExact DEF Stacked
<1> QED
  BY <1>2, <1>3

(* sexp_t_allocate and pd_allocate count what they take, if anything, and   *)
(* the cache they make.                                                     *)
LEMMA AllocateCounts ==
  ASSUME limit < SizeRange, LimitInv, NEW u \in InUse, NEW k \in Kind, NEW c, Counted(c),
         Apart(c, held[k]), held[k] \subseteq Obj, CanMake(k, c) \/ c.data # << >>,
         NEW r \in allocate(u, c, k)
  PROVE  /\ Counted(r.cache) /\ r.used \in Nat /\ u \in Nat
         /\ r.used + CacheBytes(c, k)
              = u + CacheBytes(r.cache, k) + (IF r.obj = NULL THEN 0 ELSE ObjSize[k])
         /\ u <= r.used
<1>1. /\ c \in Caches /\ c.data \in Seq(Obj) /\ c.levels \in Nat /\ Unmade(c)
      /\ IsInjective(c.data) /\ Len(c.data) \in Nat
  <2>1. c \in Caches /\ c.data \in Seq(Obj) /\ c.levels \in Nat
    BY CacheFields DEF Counted
  <2> QED
    BY <2>1 DEF Counted, Apart
<1>2. u \in Nat /\ CacheBytes(c, k) \in Nat /\ ObjSize[k] \in Nat
  BY <1>1, InUseNat, CacheBytesNat, Sizes DEF LimitInv
<1>3. CASE c.data # << >>
  <2>1. /\ Front(c.data) \in Seq(Obj) /\ Len(Front(c.data)) = Len(c.data) - 1
        /\ Last(c.data) \in Obj
    BY <1>1, <1>3, FrontDistinct
  <2>2. r = [used |-> u, cache |-> [c EXCEPT !.data = Front(@)], obj |-> Last(c.data)]
    BY <1>3 DEF allocate
  <2>3. r.used = u /\ r.cache = [c EXCEPT !.data = Front(c.data)] /\ r.obj = Last(c.data)
    BY <2>2
  <2>4. r.obj # NULL
    BY <2>1, <2>3, CacheSizesAssumption
  <2>5. c.made
    BY <1>1, <1>3 DEF Unmade
  <2>6. /\ r.cache \in Caches /\ r.cache.data = Front(c.data)
        /\ r.cache.levels = c.levels
    BY <1>1, <2>1, <2>3, CacheData
  <2>7. r.cache.made
    BY <1>1, <2>3, <2>5 DEF Caches
  <2>8. Len(c.data) - 1 \in Nat
    BY <2>1, <2>6, CacheFields
  <2>9. Len(c.data) * ObjSize[k] = (Len(c.data) - 1) * ObjSize[k] + ObjSize[k]
    BY <1>1, <1>2, <2>8, OneLess, Zenon
  <2>10. CacheBytes(c, k) = CacheBytes(r.cache, k) + ObjSize[k]
    <3>1. CacheBytes(c, k) = StackSize + c.levels * LevelSize + Len(c.data) * ObjSize[k]
      BY <1>1, <2>5, CacheBytesNat
    <3>2. /\ CacheBytes(r.cache, k)
               = StackSize + c.levels * LevelSize + (Len(c.data) - 1) * ObjSize[k]
          /\ c.levels * LevelSize \in Nat /\ (Len(c.data) - 1) * ObjSize[k] \in Nat
      BY <2>1, <2>6, <2>7, CacheBytesNat
    <3> QED
      BY <1>2, <2>9, <3>1, <3>2, Sizes
  <2>11. CacheBytes(r.cache, k) \in Nat
    BY <2>6, CacheBytesNat
  <2> QED
    BY <1>2, <2>3, <2>4, <2>6, <2>7, <2>10, <2>11 DEF Counted, Unmade
<1>4. CASE r = [used |-> u, cache |-> c, obj |-> NULL]
  BY <1>2, <1>4
<1>5. CASE c.data = << >> /\ r # [used |-> u, cache |-> c, obj |-> NULL]
  <2> DEFINE m == [c EXCEPT !.made = TRUE]
             Outcome(s, v) == [used |-> IF v = Refused THEN s ELSE v, cache |-> m,
                               obj |-> IF v = Refused THEN NULL ELSE Fresh(k, c)]
             Outcomes(s) == {Outcome(s, v) : v \in sexp_malloc(s, ObjSize[k])}
  <2>1. r \in UNION {Outcomes(s) : s \in Stacked(u, c) \ {Refused}}
    BY <1>5 DEF allocate
  <2> HIDE DEF Outcomes
  <2>2. PICK s \in Stacked(u, c) \ {Refused} : r \in Outcomes(s)
    BY <2>1
  <2>3. PICK v \in sexp_malloc(s, ObjSize[k]) : r = Outcome(s, v)
    BY <2>2 DEF Outcomes
  <2>4. s = u + (IF c.made THEN 0 ELSE StackSize) /\ s \in InUse /\ s \in Nat
    BY StackedExact
  <2>5. v # Refused => v = s + ObjSize[k] /\ v \in Nat
    BY <1>2, <2>4, MallocExact
  <2>6. /\ Counted(m) /\ CacheBytes(m, k) \in Nat
        /\ CacheBytes(m, k) = CacheBytes(c, k) + (IF c.made THEN 0 ELSE StackSize)
    <3>1. /\ Counted(m)
          /\ CacheBytes(m, k) = CacheBytes(c, k) + (IF c.made THEN 0 ELSE StackSize)
      BY MadeBytes
    <3> QED
      BY <1>2, <3>1, Sizes
  <2>7. Fresh(k, c) # NULL
    <3>1. \E o \in Obj : o \notin held[k] \cup Range(c.data)
      <4>1. Range(c.data) \subseteq Obj
        BY <1>1 DEF Range
      <4> QED
        BY <1>5, <4>1 DEF CanMake
    <3>2. Fresh(k, c) \in Obj
      BY <3>1 DEF Fresh
    <3> QED
      BY <3>2, CacheSizesAssumption
  <2> HIDE DEF m
  <2>8. r.cache = m /\ r.used = (IF v = Refused THEN s ELSE v)
        /\ r.obj = IF v = Refused THEN NULL ELSE Fresh(k, c)
    BY <2>3
  <2>9. CASE v = Refused
    BY <1>2, <2>4, <2>6, <2>8, <2>9, Sizes
  <2>10. CASE v # Refused
    <3>1. r.used = s + ObjSize[k] /\ r.obj # NULL
      BY <2>5, <2>7, <2>8, <2>10
    <3>2. CASE c.made
      BY <1>2, <2>4, <2>6, <2>8, <3>1, <3>2
    <3>3. CASE ~c.made
      BY <1>2, <2>4, <2>6, <2>8, <3>1, <3>3, Sizes
    <3> QED
      BY <3>2, <3>3
  <2> QED
    BY <2>9, <2>10
<1> QED
  BY <1>3, <1>4, <1>5

(* push moves an object to a cache, with the level it needs; when the level *)
(* is refused the cache and the object are lost.                            *)
LEMMA PushedCounts ==
  ASSUME limit < SizeRange, LimitInv, NEW u \in InUse, NEW k \in Kind, NEW c, Counted(c),
         c.made, Len(c.data) <= c.levels, NEW o \in Obj, NEW d \in Pushed(u, c, k, o)
  PROVE  /\ Counted(d.cache) /\ d.used \in Nat /\ d.lost \in Nat /\ u \in Nat
         /\ d.used + CacheBytes(c, k) + ObjSize[k] = u + CacheBytes(d.cache, k) + d.lost
<1> DEFINE a == Append(c.data, o)
<1>1. c \in Caches /\ c.data \in Seq(Obj) /\ c.levels \in Nat
  BY CacheFields DEF Counted
<1>2. Len(c.data) \in Nat /\ a \in Seq(Obj) /\ Len(a) = Len(c.data) + 1
  BY <1>1, AppendProperties
<1>3. u \in Nat /\ CacheBytes(c, k) \in Nat /\ ObjSize[k] \in Nat /\ LevelSize \in Nat
  BY <1>1, InUseNat, CacheBytesNat, Sizes DEF LimitInv
<1>4. /\ CacheBytes(c, k) = StackSize + c.levels * LevelSize + Len(c.data) * ObjSize[k]
      /\ c.levels * LevelSize \in Nat /\ Len(c.data) * ObjSize[k] \in Nat /\ StackSize \in Nat
  BY <1>1, CacheBytesNat, Sizes
<1>5. Len(a) * ObjSize[k] = Len(c.data) * ObjSize[k] + ObjSize[k]
  BY <1>2, <1>3, OneMore
<1> HIDE DEF a
<1>6. CASE Len(c.data) < c.levels
  <2>1. d = [used |-> u, cache |-> [c EXCEPT !.data = Append(@, o)], lost |-> 0]
    BY <1>6 DEF Pushed
  <2>2. d.used = u /\ d.cache = [c EXCEPT !.data = a] /\ d.lost = 0
    BY <2>1 DEF a
  <2>3. d.cache \in Caches /\ d.cache.data = a /\ d.cache.levels = c.levels
    BY <1>1, <1>2, <2>2, CacheData
  <2>4. d.cache.made
    BY <1>1, <2>2 DEF Caches
  <2>5. CacheBytes(d.cache, k) = StackSize + c.levels * LevelSize + Len(a) * ObjSize[k]
    BY <2>3, <2>4, CacheBytesNat
  <2>6. CacheBytes(d.cache, k) = CacheBytes(c, k) + ObjSize[k]
    BY <1>3, <1>4, <1>5, <2>5
  <2> QED
    BY <1>3, <2>2, <2>3, <2>4, <2>6 DEF Counted, Unmade
<1>7. CASE ~(Len(c.data) < c.levels)
  <2>1. PICK v \in sexp_malloc(u, LevelSize) :
          d = [used |-> IF v = Refused THEN u ELSE v,
               cache |-> IF v = Refused THEN NoCache
                         ELSE [c EXCEPT !.data = Append(@, o), !.levels = @ + 1],
               lost |-> IF v = Refused THEN CacheBytes(c, k) + ObjSize[k] ELSE 0]
    BY <1>7 DEF Pushed
  <2>2. CASE v = Refused
    <3>1. d.used = u /\ d.cache = NoCache /\ d.lost = CacheBytes(c, k) + ObjSize[k]
      BY <2>1, <2>2
    <3>2. Counted(NoCache) /\ CacheBytes(NoCache, k) = 0
      <4>1. << >> \in Seq(Obj)
        OBVIOUS
      <4> QED
        BY <4>1 DEF NoCache, Counted, Unmade, Caches, CacheBytes
    <3> QED
      BY <1>3, <3>1, <3>2
  <2>3. CASE v # Refused
    <3> DEFINE m == c.levels + 1
    <3>1. d.used = v /\ d.cache = [c EXCEPT !.data = a, !.levels = m] /\ d.lost = 0
      BY <2>1, <2>3 DEF a
    <3>2. v = u + LevelSize /\ v \in Nat
      BY <1>3, <2>3, MallocExact
    <3>3. m \in Nat /\ m * LevelSize = c.levels * LevelSize + LevelSize
      BY <1>1, <1>3, OneMore
    <3> HIDE DEF m
    <3>4. /\ d.cache \in Caches /\ d.cache.data = a /\ d.cache.levels = m /\ d.cache.made
      BY <1>1, <1>2, <3>1, <3>3 DEF Caches
    <3>5. CacheBytes(d.cache, k) = StackSize + m * LevelSize + Len(a) * ObjSize[k]
      BY <3>4, CacheBytesNat
    <3>6. CacheBytes(d.cache, k) = CacheBytes(c, k) + LevelSize + ObjSize[k]
      <4> DEFINE L == c.levels * LevelSize
                 N == Len(c.data) * ObjSize[k]
      <4>1. L \in Nat /\ N \in Nat /\ StackSize \in Nat
        BY <1>4
      <4>2. CacheBytes(d.cache, k) = StackSize + (L + LevelSize) + (N + ObjSize[k])
        BY <1>5, <3>3, <3>5
      <4>3. CacheBytes(c, k) = StackSize + L + N
        BY <1>4
      <4> HIDE DEF L, N
      <4> QED
        BY <1>3, <4>1, <4>2, <4>3
    <3> QED
      BY <1>3, <3>1, <3>2, <3>4, <3>6 DEF Counted, Unmade
  <2> QED
    BY <2>2, <2>3
<1> QED
  BY <1>6, <1>7

(* sexp_t_deallocate and pd_deallocate free the value and move the object   *)
(* to the cache, or free it when there is no cache and none can be made.    *)
LEMMA DeallocateCounts ==
  ASSUME limit < SizeRange, LimitInv, NEW u \in InUse, NEW k \in Kind, NEW c, Counted(c),
         Len(c.data) <= c.levels, NEW o \in Obj, NEW n \in Nat, n + ObjSize[k] <= u,
         NEW d \in deallocate(u, c, k, o, n)
  PROVE  /\ Counted(d.cache) /\ d.used \in Nat /\ d.lost \in Nat
         /\ d.used + n + CacheBytes(c, k) + ObjSize[k] = u + CacheBytes(d.cache, k) + d.lost
<1> DEFINE m == [c EXCEPT !.made = TRUE]
<1>1. PICK s \in Stacked(u, c) :
        d \in IF s = Refused
              THEN {[used |-> sexp_free(sexp_free(u, n), ObjSize[k]), cache |-> c,
                     lost |-> 0]}
              ELSE Pushed(sexp_free(s, n), m, k, o)
  BY DEF deallocate
<1>2. /\ ObjSize[k] \in Nat /\ StackSize \in Nat /\ u \in Nat /\ limit \in Nat
      /\ CacheBytes(c, k) \in Nat
  BY Sizes, InUseNat, CacheBytesNat DEF Counted, LimitInv
<1>3. CASE s = Refused
  <2>1. /\ d.used = sexp_free(sexp_free(u, n), ObjSize[k]) /\ d.cache = c
        /\ d.lost = 0
    BY <1>1, <1>3
  <2>2. sexp_free(u, n) = u - n /\ u - n \in Nat /\ ObjSize[k] <= u - n
    BY <1>2, FreeExact
  <2>3. d.used = u - n - ObjSize[k] /\ d.used \in Nat
    BY <1>2, <2>1, <2>2, FreeExact
  <2> QED
    BY <1>2, <2>1, <2>3
<1>4. CASE s # Refused
  <2> DEFINE extra == IF c.made THEN 0 ELSE StackSize
  <2>1. s = u + extra /\ s \in InUse /\ s \in Nat /\ extra \in Nat
    BY <1>2, <1>4, StackedExact
  <2>2. /\ Counted(m) /\ m.made /\ Len(m.data) <= m.levels
        /\ CacheBytes(m, k) = CacheBytes(c, k) + extra
    BY MadeBytes
  <2> HIDE DEF m, extra
  <2>3. sexp_free(s, n) = s - n
    BY <1>2, <2>1, FreeExact
  <2>4. sexp_free(s, n) \in InUse
    BY <1>2, <2>1, FreeBounded, InUseNat
  <2>5. d \in Pushed(sexp_free(s, n), m, k, o)
    BY <1>1, <1>4
  <2>6. /\ Counted(d.cache) /\ d.used \in Nat /\ d.lost \in Nat
        /\ d.used + CacheBytes(m, k) + ObjSize[k]
             = sexp_free(s, n) + CacheBytes(d.cache, k) + d.lost
    BY <2>2, <2>4, <2>5, PushedCounts
  <2>7. CacheBytes(d.cache, k) \in Nat
    BY <2>6, CacheBytesNat DEF Counted
  <2> DEFINE D == CacheBytes(d.cache, k)
             C == CacheBytes(c, k)
             X == d.used
             Y == d.lost
             O == ObjSize[k]
  <2>8. /\ C \in Nat /\ D \in Nat /\ X \in Nat /\ Y \in Nat /\ O \in Nat
        /\ extra \in Nat /\ u \in Nat
    BY <1>2, <2>1, <2>6, <2>7
  <2>9. X + (C + extra) + O = ((u + extra) - n) + D + Y
    BY <2>1, <2>2, <2>3, <2>6
  <2> HIDE DEF D, C, X, Y, O
  <2>10. X + n + C + O = u + D + Y
    BY <2>8, <2>9
  <2> QED
    BY <2>6, <2>10 DEF C, D, X, Y, O
<1> QED
  BY <1>3, <1>4

(* What clients hold, when they get an object and when they give one back.  *)
Numbers(h, v, b) == \A x \in h : v[x] \in Nat /\ b[x] \in Nat
SameOn(h, v, b, v2, b2) == \A x \in h : v2[x] = v[x] /\ b2[x] = b[x]

LEMMA HeldNat ==
  ASSUME NEW k \in Kind, NEW h, IsFiniteSet(h), NEW v, NEW b, Numbers(h, v, b)
  PROVE  HeldOf(k, h, v, b) \in Nat
<1>1. SumFunctionOnSet(v, h) \in Nat /\ SumFunctionOnSet(b, h) \in Nat
  BY SumNat DEF Numbers
<1>2. Cardinality(h) * ObjSize[k] \in Nat
  BY FS_CardinalityType, Sizes, OneMore
<1> QED
  BY <1>1, <1>2 DEF HeldOf, Worth

LEMMA HeldLess ==
  ASSUME NEW k \in Kind, NEW h, IsFiniteSet(h), NEW o \in h,
         NEW v, NEW b, Numbers(h, v, b),
         NEW v2, NEW b2, SameOn(h \ {o}, v, b, v2, b2)
  PROVE  /\ HeldOf(k, h \ {o}, v2, b2) \in Nat
         /\ HeldOf(k, h, v, b) = HeldOf(k, h \ {o}, v2, b2) + ObjSize[k] + Worth(k, v[o], b[o])
<1> DEFINE g == h \ {o}
<1>1. /\ IsFiniteSet(g) /\ Cardinality(g) = Cardinality(h) - 1 /\ Cardinality(g) \in Nat
      /\ Cardinality(h) \in Nat
  BY FS_RemoveElement, FS_CardinalityType
<1>2. /\ SumFunctionOnSet(v, h) = v[o] + SumFunctionOnSet(v, g)
      /\ SumFunctionOnSet(b, h) = b[o] + SumFunctionOnSet(b, g)
  BY SumRemove DEF Numbers
<1>3. \A x \in g : v[x] = v2[x] /\ b[x] = b2[x] /\ v2[x] \in Nat /\ b2[x] \in Nat
  BY DEF Numbers, SameOn
<1> HIDE DEF g
<1>4. /\ SumFunctionOnSet(v, g) = SumFunctionOnSet(v2, g)
      /\ SumFunctionOnSet(b, g) = SumFunctionOnSet(b2, g)
  BY <1>1, <1>3, SumAgree
<1>5. SumFunctionOnSet(v2, g) \in Nat /\ SumFunctionOnSet(b2, g) \in Nat
  BY <1>1, <1>3, SumNat
<1>6. /\ Cardinality(g) * ObjSize[k] \in Nat
      /\ Cardinality(h) * ObjSize[k] = Cardinality(g) * ObjSize[k] + ObjSize[k]
  BY <1>1, Sizes, OneMore
<1>7. v[o] \in Nat /\ b[o] \in Nat /\ ObjSize[k] \in Nat
  BY Sizes DEF Numbers
<1>8. HeldOf(k, g, v2, b2) \in Nat
  BY <1>1, <1>3, HeldNat DEF Numbers
<1>9. HeldOf(k, h, v, b) = HeldOf(k, g, v2, b2) + ObjSize[k] + Worth(k, v[o], b[o])
  BY <1>2, <1>4, <1>5, <1>6, <1>7 DEF HeldOf, Worth
<1> QED
  BY <1>8, <1>9 DEF g

LEMMA HeldMore ==
  ASSUME NEW k \in Kind, NEW h, IsFiniteSet(h), NEW o, o \notin h,
         NEW v, NEW b, Numbers(h, v, b), NEW v2, NEW b2, SameOn(h, v, b, v2, b2),
         v2[o] \in Nat, b2[o] \in Nat
  PROVE  /\ IsFiniteSet(h \cup {o})
         /\ HeldOf(k, h \cup {o}, v2, b2)
              = HeldOf(k, h, v, b) + ObjSize[k] + Worth(k, v2[o], b2[o])
<1> DEFINE g == h \cup {o}
<1>1. IsFiniteSet(g) /\ o \in g /\ g \ {o} = h
  BY FS_AddElement
<1>2. Numbers(g, v2, b2)
  BY DEF Numbers, SameOn
<1>3. SameOn(g \ {o}, v2, b2, v, b)
  BY <1>1 DEF SameOn
<1> HIDE DEF g
<1>4. HeldOf(k, g, v2, b2) = HeldOf(k, g \ {o}, v, b) + ObjSize[k] + Worth(k, v2[o], b2[o])
  BY <1>1, <1>2, <1>3, HeldLess
<1> QED
  BY <1>1, <1>4 DEF g
-----------------------------------------------------------------------------
(* The total, and the parts it is made of. *)
HeldNow(k) == HeldOf(k, held[k], val, bin)
CacheNow(k) == CacheBytes(cache[k], k)
SoundState == LimitInv /\ StringInv /\ CacheInv

LEMMA PartsNat ==
  ASSUME SoundState, \A k \in Kind : IsFiniteSet(held[k])
  PROVE  /\ StringBytes \in Nat /\ used \in Nat
         /\ \A k \in Kind : HeldNow(k) \in Nat /\ CacheNow(k) \in Nat
         /\ HeldBytes = HeldNow("sexp_t") + HeldNow("pd")
<1>1. StringBytes \in Nat
  BY StringSizesAssumption DEF SoundState, StringInv, Strings, StringBytes
<1>2. used \in Nat
  BY InUseNat DEF SoundState, LimitInv
<1>3. ASSUME NEW k \in Kind PROVE HeldNow(k) \in Nat /\ CacheNow(k) \in Nat
  <2>1. held[k] \subseteq Obj /\ val \in [Obj -> Nat] /\ bin \in [Obj -> Nat]
    BY DEF SoundState, CacheInv
  <2>2. Numbers(held[k], val, bin)
    BY <2>1 DEF Numbers
  <2>3. HeldNow(k) \in Nat
    BY <2>2, HeldNat DEF HeldNow
  <2>4. cache[k] \in Caches
    BY DEF SoundState, CacheInv, Apart
  <2> QED
    BY <2>3, <2>4, CacheBytesNat DEF CacheNow
<1>4. HeldBytes = HeldNow("sexp_t") + HeldNow("pd")
  <2> DEFINE A == Cardinality(held["sexp_t"]) * ObjSize["sexp_t"]
             B == Cardinality(held["pd"]) * ObjSize["pd"]
             C == SumFunctionOnSet(val, held["sexp_t"])
             D == SumFunctionOnSet(bin, held["sexp_t"])
  <2>1. "sexp_t" \in Kind /\ "pd" \in Kind
    BY DEF Kind
  <2>2. A \in Nat /\ B \in Nat
    BY <2>1, FS_CardinalityType, Sizes, OneMore
  <2>3. C \in Nat /\ D \in Nat
    <3>1. \A x \in held["sexp_t"] : val[x] \in Nat /\ bin[x] \in Nat
      BY <2>1 DEF SoundState, CacheInv
    <3> QED
      BY <2>1, <3>1, SumNat
  <2>4. HeldNow("sexp_t") = A + (C + D) /\ HeldNow("pd") = B + 0
    BY DEF HeldNow, HeldOf, Worth
  <2>5. HeldBytes = A + B + C + D
    BY DEF HeldBytes
  <2> HIDE DEF A, B, C, D
  <2> QED
    BY <2>2, <2>3, <2>4, <2>5
<1> QED
  BY <1>1, <1>2, <1>3, <1>4

LEMMA TotalIs ==
  ASSUME SoundState, \A k \in Kind : IsFiniteSet(held[k]), lost \in Nat
  PROVE  UsedIsHeld <=>
           used = StringBytes + (HeldNow("sexp_t") + CacheNow("sexp_t"))
                  + (HeldNow("pd") + CacheNow("pd")) + lost
<1>1. UsedIsHeld <=> used = StringBytes + HeldBytes + CacheNow("sexp_t") + CacheNow("pd") + lost
  BY DEF UsedIsHeld, CacheNow
<1>2. "sexp_t" \in Kind /\ "pd" \in Kind
  BY DEF Kind
<1> DEFINE A == HeldNow("sexp_t")
           B == CacheNow("sexp_t")
           C == HeldNow("pd")
           D == CacheNow("pd")
<1>3. /\ A \in Nat /\ B \in Nat /\ C \in Nat /\ D \in Nat /\ StringBytes \in Nat
      /\ HeldBytes = A + C
  BY <1>2, PartsNat
<1> HIDE DEF A, B, C, D
<1>4. StringBytes + HeldBytes + B + D + lost = StringBytes + (A + B) + (C + D) + lost
  BY <1>3
<1> QED
  BY <1>1, <1>4 DEF A, B, C, D

(* The same of the state after a step. *)
Countable == SoundState /\ (\A k \in Kind : IsFiniteSet(held[k])) /\ lost \in Nat
Summed ==
  /\ used \in Nat /\ \A k \in Kind : HeldNow(k) \in Nat /\ CacheNow(k) \in Nat
  /\ UsedIsHeld <=>
       used = StringBytes + (HeldNow("sexp_t") + CacheNow("sexp_t"))
              + (HeldNow("pd") + CacheNow("pd")) + lost

LEMMA CountableSummed == Countable => Summed
<1> SUFFICES ASSUME Countable PROVE Summed
  OBVIOUS
<1>1. SoundState /\ (\A k \in Kind : IsFiniteSet(held[k])) /\ lost \in Nat
  BY DEF Countable
<1>2. used \in Nat /\ \A k \in Kind : HeldNow(k) \in Nat /\ CacheNow(k) \in Nat
  BY <1>1, PartsNat
<1> QED
  BY <1>1, <1>2, TotalIs DEF Summed

LEMMA SummedNext == Countable' => Summed'
  BY CountableSummed, PTL

LEMMA PartsFit ==
  ASSUME SoundState, CountInv
  PROVE  /\ used \in Nat /\ lost \in Nat /\ StringBytes \in Nat /\ StringBytes <= used
         /\ HeldNow("sexp_t") + CacheNow("sexp_t") + HeldNow("pd") + CacheNow("pd") <= used
         /\ \A k \in Kind : /\ HeldNow(k) \in Nat /\ CacheNow(k) \in Nat
                            /\ HeldNow(k) + CacheNow(k) <= used
<1> DEFINE A == HeldNow("sexp_t")
           B == CacheNow("sexp_t")
           C == HeldNow("pd")
           D == CacheNow("pd")
<1>1. "sexp_t" \in Kind /\ "pd" \in Kind /\ \A k \in Kind : k = "sexp_t" \/ k = "pd"
  BY DEF Kind
<1>2. /\ A \in Nat /\ B \in Nat /\ C \in Nat /\ D \in Nat /\ StringBytes \in Nat
      /\ used \in Nat /\ lost \in Nat
      /\ \A k \in Kind : HeldNow(k) \in Nat /\ CacheNow(k) \in Nat
  BY <1>1, PartsNat DEF CountInv
<1>3. used = StringBytes + (A + B) + (C + D) + lost
  BY TotalIs DEF CountInv
<1> HIDE DEF A, B, C, D
<1>4. A + B <= used /\ C + D <= used /\ StringBytes <= used /\ A + B + C + D <= used
  BY <1>2, <1>3
<1> QED
  BY <1>1, <1>2, <1>4 DEF A, B, C, D

(* A step on one kind of object that accounts for what it does. *)
LEMMA Balanced ==
  ASSUME SoundState, CountInv, SoundState', limit' = limit, str' = str, NEW k \in Kind,
         \A i \in Kind : i # k => cache'[i] = cache[i] /\ held'[i] = held[i],
         k = "pd" => val' = val /\ bin' = bin,
         Counted(cache'[k]), IsFiniteSet(held'[k]), lost' \in Nat,
         \A o \in Obj : o \notin held'["sexp_t"] => val'[o] = 0 /\ bin'[o] = 0,
         used' + (HeldNow(k) + CacheNow(k)) + lost = used + (HeldNow(k)' + CacheNow(k)') + lost'
  PROVE  CountInv'
<1>1. "sexp_t" \in Kind /\ "pd" \in Kind /\ \A i \in Kind : i = "sexp_t" \/ i = "pd"
  BY DEF Kind
<1>2. \A i \in Kind : IsFiniteSet(held'[i]) /\ Unmade(cache'[i])
  BY DEF CountInv, Counted
<1>3. Summed'
  BY <1>2, SummedNext DEF Countable
<1>4. StringBytes' = StringBytes
  BY DEF StringBytes
<1>5. \A i \in Kind : i # k => HeldNow(i)' = HeldNow(i) /\ CacheNow(i)' = CacheNow(i)
  <2>1. ASSUME NEW i \in Kind, i # k, i = "sexp_t"
        PROVE  HeldNow(i)' = HeldNow(i)
    BY <1>1, <2>1 DEF HeldNow
  <2>2. ASSUME NEW i \in Kind, i # k, i = "pd"
        PROVE  HeldNow(i)' = HeldNow(i)
    BY <2>2 DEF HeldNow, HeldOf, Worth
  <2> QED
    BY <1>1, <2>1, <2>2 DEF CacheNow
<1> DEFINE P(i) == HeldNow(i) + CacheNow(i)
<1>6. /\ StringBytes \in Nat /\ used \in Nat /\ lost \in Nat
      /\ \A i \in Kind : P(i) \in Nat
  BY PartsFit
<1>7. used' \in Nat /\ \A i \in Kind : P(i)' \in Nat
  <2>1. /\ used' \in Nat
        /\ \A i \in Kind : HeldNow(i)' \in Nat /\ CacheNow(i)' \in Nat
    BY <1>3 DEF Summed
  <2> QED
    BY <2>1
<1>8. used = StringBytes + P("sexp_t") + P("pd") + lost
  BY TotalIs DEF CountInv
<1>9. used' = StringBytes + P("sexp_t")' + P("pd")' + lost'
  <2>1. used' + P(k) + lost = used + P(k)' + lost'
    OBVIOUS
  <2>2. \A i \in Kind : i # k => P(i)' = P(i)
    BY <1>5
  <2> DEFINE A == P("sexp_t")
             B == P("pd")
             A2 == P("sexp_t")'
             B2 == P("pd")'
             U2 == used'
             L2 == lost'
  <2>3. /\ A \in Nat /\ B \in Nat /\ A2 \in Nat /\ B2 \in Nat /\ U2 \in Nat /\ L2 \in Nat
        /\ used = StringBytes + A + B + lost
        /\ \/ U2 + A + lost = used + A2 + L2 /\ B2 = B
           \/ U2 + B + lost = used + B2 + L2 /\ A2 = A
    BY <1>1, <1>6, <1>7, <1>8, <2>1, <2>2
  <2> HIDE DEF P, A, B, A2, B2, U2, L2
  <2>4. U2 = StringBytes + A2 + B2 + L2
    BY <1>6, <2>3
  <2> QED
    BY <2>4 DEF A2, B2, U2, L2
<1>10. UsedIsHeld'
  <2>1. UsedIsHeld' <=> used' = StringBytes' + P("sexp_t")' + P("pd")' + lost'
    BY <1>3 DEF Summed
  <2> QED
    BY <1>4, <1>9, <2>1
<1> QED
  BY <1>2, <1>10 DEF CountInv
-----------------------------------------------------------------------------
(* The actions on the caches account for what they do. *)
LEMMA CountFacts ==
  ASSUME SoundState, CountInv
  PROVE  /\ limit < SizeRange /\ LimitInv /\ used \in InUse /\ lost \in Nat
         /\ "sexp_t" \in Kind /\ "pd" \in Kind /\ "sexp_t" # "pd"
         /\ held \in [Kind -> SUBSET Obj] /\ DOMAIN cache = Kind
         /\ val \in [Obj -> Nat] /\ bin \in [Obj -> Nat]
         /\ \A k \in Kind : /\ Counted(cache[k]) /\ Apart(cache[k], held[k])
                            /\ Len(cache[k].data) <= cache[k].levels
                            /\ held[k] \subseteq Obj /\ IsFiniteSet(held[k])
                            /\ Numbers(held[k], val, bin)
         /\ \A o \in Obj : o \notin held["sexp_t"] => val[o] = 0 /\ bin[o] = 0
<1>1. limit < SizeRange /\ LimitInv /\ used \in InUse /\ lost \in Nat
  BY DEF SoundState, LimitInv, CountInv
<1>2. "sexp_t" \in Kind /\ "pd" \in Kind /\ "sexp_t" # "pd"
  BY DEF Kind
<1>3. /\ held \in [Kind -> SUBSET Obj] /\ DOMAIN cache = Kind
      /\ val \in [Obj -> Nat] /\ bin \in [Obj -> Nat]
      /\ \A k \in Kind : Apart(cache[k], held[k])
  BY DEF SoundState, CacheInv
<1>4. \A k \in Kind : Counted(cache[k]) /\ Len(cache[k].data) <= cache[k].levels
  BY <1>3 DEF Apart, CountInv, Counted
<1>5. \A k \in Kind : /\ held[k] \subseteq Obj /\ IsFiniteSet(held[k])
                      /\ Numbers(held[k], val, bin)
  BY <1>3 DEF CountInv, Numbers
<1>6. \A o \in Obj : o \notin held["sexp_t"] => val[o] = 0 /\ bin[o] = 0
  BY DEF CountInv
<1> QED
  BY <1>1, <1>2, <1>3, <1>4, <1>5, <1>6

(* An object handed out with n and m bytes hanging on it, and one given     *)
(* back; c is the cache afterwards.                                         *)
HandedOut(k, c, o, n, m) ==
  /\ cache' = [cache EXCEPT ![k] = c] /\ held' = [held EXCEPT ![k] = @ \cup {o}]
  /\ val' = IF k = "pd" THEN val ELSE [val EXCEPT ![o] = n]
  /\ bin' = IF k = "pd" THEN bin ELSE [bin EXCEPT ![o] = m]
GivenBack(k, c, o) ==
  /\ cache' = [cache EXCEPT ![k] = c] /\ held' = [held EXCEPT ![k] = @ \ {o}]
  /\ val' = IF k = "pd" THEN val ELSE [val EXCEPT ![o] = 0]
  /\ bin' = IF k = "pd" THEN bin ELSE [bin EXCEPT ![o] = 0]

LEMMA GetsObject ==
  ASSUME SoundState, CountInv, SoundState', limit' = limit, str' = str, lost' = lost,
         NEW k \in Kind, NEW c, Counted(c), NEW o \in Obj, o \notin held[k],
         NEW n \in Nat, NEW m \in Nat, HandedOut(k, c, o, n, m),
         used' + CacheNow(k) = used + CacheBytes(c, k) + ObjSize[k] + Worth(k, n, m)
  PROVE  CountInv'
<1> USE CountFacts
<1>1. cache'[k] = c /\ held'[k] = held[k] \cup {o}
  BY DEF HandedOut
<1>2. \A i \in Kind : i # k => cache'[i] = cache[i] /\ held'[i] = held[i]
  BY DEF HandedOut
<1>3. k = "pd" => val' = val /\ bin' = bin
  BY DEF HandedOut
<1>4. val' \in [Obj -> Nat] /\ bin' \in [Obj -> Nat]
  BY DEF HandedOut
<1>5. \A x \in held[k] : val'[x] = val[x] /\ bin'[x] = bin[x]
  BY DEF HandedOut
<1>6. k # "pd" => val'[o] = n /\ bin'[o] = m
  BY DEF HandedOut
<1>7. /\ IsFiniteSet(held[k] \cup {o})
      /\ HeldOf(k, held[k] \cup {o}, val', bin')
           = HeldOf(k, held[k], val, bin) + ObjSize[k] + Worth(k, val'[o], bin'[o])
  <2>1. /\ IsFiniteSet(held[k]) /\ Numbers(held[k], val, bin)
        /\ SameOn(held[k], val, bin, val', bin')
    BY <1>5 DEF SameOn
  <2>2. val'[o] \in Nat /\ bin'[o] \in Nat
    BY <1>4
  <2> QED
    BY ONLY k \in Kind, o \notin held[k], <2>1, <2>2, HeldMore
<1>8. Worth(k, val'[o], bin'[o]) = Worth(k, n, m) /\ Worth(k, n, m) \in Nat
  BY <1>6 DEF Worth
<1>9. HeldNow(k)' = HeldNow(k) + ObjSize[k] + Worth(k, n, m) /\ CacheNow(k)' = CacheBytes(c, k)
  BY <1>1, <1>7, <1>8 DEF HeldNow, CacheNow
<1>10. \A x \in Obj : x \notin held'["sexp_t"] => val'[x] = 0 /\ bin'[x] = 0
  <2>1. CASE k = "pd"
    BY <1>2, <1>3, <2>1
  <2>2. CASE k # "pd"
    <3>1. k = "sexp_t"
      BY <2>2 DEF Kind
    <3> QED
      BY <1>1, <3>1 DEF HandedOut
  <2> QED
    BY <2>1, <2>2
<1>11. used' + (HeldNow(k) + CacheNow(k)) + lost = used + (HeldNow(k)' + CacheNow(k)') + lost'
  <2> DEFINE H == HeldNow(k)
             C == CacheNow(k)
             D == CacheBytes(c, k)
             O == ObjSize[k]
             W == Worth(k, n, m)
             U == used'
  <2>1. /\ H \in Nat /\ C \in Nat /\ D \in Nat /\ O \in Nat /\ W \in Nat /\ used \in Nat
        /\ lost \in Nat
    BY <1>8, PartsFit, CacheBytesNat, Sizes DEF Counted
  <2>2. U \in Nat
    BY DEF SoundState, LimitInv, InUse
  <2>3. U + C = used + D + O + W
    OBVIOUS
  <2>4. HeldNow(k)' = H + O + W /\ CacheNow(k)' = D
    BY <1>9
  <2> HIDE DEF H, C, D, O, W, U
  <2>5. U + (H + C) + lost = used + ((H + O + W) + D) + lost
    BY <2>1, <2>2, <2>3
  <2> QED
    BY <2>4, <2>5 DEF H, C, D, O, W, U
<1> QED
  BY <1>1, <1>2, <1>3, <1>7, <1>10, <1>11, Balanced

(* An object given back, with what hung on it freed or lost. *)
LEMMA GivesObject ==
  ASSUME SoundState, CountInv, SoundState', limit' = limit, str' = str, lost' \in Nat,
         NEW k \in Kind, NEW c, Counted(c), NEW o \in Obj, o \in held[k],
         GivenBack(k, c, o),
         used' + Worth(k, val[o], bin[o]) + CacheNow(k) + ObjSize[k] + lost
           = used + CacheBytes(c, k) + lost'
  PROVE  CountInv'
<1> USE CountFacts
<1>1. cache'[k] = c /\ held'[k] = held[k] \ {o}
  BY DEF GivenBack
<1>2. \A i \in Kind : i # k => cache'[i] = cache[i] /\ held'[i] = held[i]
  BY DEF GivenBack
<1>3. k = "pd" => val' = val /\ bin' = bin
  BY DEF GivenBack
<1>4. \A x \in held[k] \ {o} : val'[x] = val[x] /\ bin'[x] = bin[x]
  BY DEF GivenBack
<1>5. IsFiniteSet(held[k] \ {o})
  BY FS_RemoveElement
<1>6. /\ HeldOf(k, held[k] \ {o}, val', bin') \in Nat
      /\ HeldOf(k, held[k], val, bin)
           = HeldOf(k, held[k] \ {o}, val', bin') + ObjSize[k] + Worth(k, val[o], bin[o])
  <2>1. /\ IsFiniteSet(held[k]) /\ Numbers(held[k], val, bin)
        /\ SameOn(held[k] \ {o}, val, bin, val', bin')
    BY <1>4 DEF SameOn
  <2> QED
    BY ONLY k \in Kind, o \in held[k], <2>1, HeldLess
<1>7. Worth(k, val[o], bin[o]) \in Nat
  BY DEF Worth
<1>8. /\ HeldNow(k) = HeldNow(k)' + ObjSize[k] + Worth(k, val[o], bin[o])
      /\ HeldNow(k)' \in Nat /\ CacheNow(k)' = CacheBytes(c, k)
  BY <1>1, <1>6 DEF HeldNow, CacheNow
<1>9. \A x \in Obj : x \notin held'["sexp_t"] => val'[x] = 0 /\ bin'[x] = 0
  <2>1. CASE k = "pd"
    BY <1>2, <1>3, <2>1
  <2>2. CASE k # "pd"
    <3>1. k = "sexp_t"
      BY <2>2 DEF Kind
    <3> QED
      BY <1>1, <3>1 DEF GivenBack
  <2> QED
    BY <2>1, <2>2
<1>10. used' + (HeldNow(k) + CacheNow(k)) + lost = used + (HeldNow(k)' + CacheNow(k)') + lost'
  <2> DEFINE H == HeldNow(k)'
             C == CacheNow(k)
             D == CacheBytes(c, k)
             O == ObjSize[k]
             W == Worth(k, val[o], bin[o])
             U == used'
             L == lost'
  <2>1. /\ H \in Nat /\ C \in Nat /\ D \in Nat /\ O \in Nat /\ W \in Nat /\ used \in Nat
        /\ lost \in Nat /\ L \in Nat
    BY <1>7, <1>8, PartsFit, CacheBytesNat, Sizes DEF Counted
  <2>2. U \in Nat
    BY DEF SoundState, LimitInv, InUse
  <2>3. U + W + C + O + lost = used + D + L
    OBVIOUS
  <2>4. HeldNow(k) = H + O + W /\ CacheNow(k)' = D
    BY <1>8
  <2> HIDE DEF H, C, D, O, W, U, L
  <2>5. U + ((H + O + W) + C) + lost = used + (H + D) + L
    BY ONLY <2>1, <2>2, <2>3
  <2> QED
    BY <2>4, <2>5 DEF H, C, D, O, W, U, L
<1> QED
  BY <1>1, <1>2, <1>3, <1>5, <1>9, <1>10, Balanced

(* No object changes hands. *)
LEMMA KeepsObjects ==
  ASSUME SoundState, CountInv, SoundState', limit' = limit, str' = str, lost' \in Nat,
         NEW k \in Kind, NEW c, Counted(c),
         cache' = [cache EXCEPT ![k] = c], held' = held, val' = val, bin' = bin,
         used' + CacheNow(k) + lost = used + CacheBytes(c, k) + lost'
  PROVE  CountInv'
<1> USE CountFacts
<1>1. cache'[k] = c /\ held'[k] = held[k]
  OBVIOUS
<1>2. \A i \in Kind : i # k => cache'[i] = cache[i] /\ held'[i] = held[i]
  OBVIOUS
<1>3. HeldNow(k)' = HeldNow(k) /\ CacheNow(k)' = CacheBytes(c, k)
  BY <1>1 DEF HeldNow, CacheNow
<1>4. used' + (HeldNow(k) + CacheNow(k)) + lost = used + (HeldNow(k)' + CacheNow(k)') + lost'
  <2> DEFINE H == HeldNow(k)
             C == CacheNow(k)
             D == CacheBytes(c, k)
             U == used'
             L == lost'
  <2>1. /\ H \in Nat /\ C \in Nat /\ D \in Nat /\ used \in Nat
        /\ lost \in Nat /\ L \in Nat
    BY PartsFit, CacheBytesNat DEF Counted
  <2>2. U \in Nat
    BY DEF SoundState, LimitInv, InUse
  <2>3. U + C + lost = used + D + L
    OBVIOUS
  <2>4. HeldNow(k)' = H /\ CacheNow(k)' = D
    BY <1>3
  <2> HIDE DEF H, C, D, U, L
  <2>5. U + (H + C) + lost = used + (H + D) + L
    BY <2>1, <2>2, <2>3
  <2> QED
    BY <2>4, <2>5 DEF H, C, D, U, L
<1>5. \A o \in Obj : o \notin held'["sexp_t"] => val'[o] = 0 /\ bin'[o] = 0
  OBVIOUS
<1>6. IsFiniteSet(held'[k])
  BY <1>1
<1> QED
  BY <1>1, <1>2, <1>4, <1>5, <1>6, Balanced

LEMMA NewCounts ==
  ASSUME SoundState, CountInv, SoundState', str' = str, NEW k \in Kind, New(k)
  PROVE  CountInv'
<1> USE CountFacts
<1>1. PICK r \in allocate(used, cache[k], k) :
        /\ used' = r.used /\ cache' = [cache EXCEPT ![k] = r.cache]
        /\ \/ r.obj = NULL /\ held' = held /\ val' = val
           \/ /\ r.obj # NULL
              /\ held' = [held EXCEPT ![k] = @ \cup {r.obj}]
              /\ val' = IF k = "pd" THEN val ELSE [val EXCEPT ![r.obj] = 0]
        /\ bin' = bin /\ limit' = limit /\ lost' = lost
  BY DEF New
<1>2. CanMake(k, cache[k]) \/ cache[k].data # << >>
  BY DEF New
<1>3. /\ Counted(r.cache) /\ r.used \in Nat /\ used \in Nat
      /\ r.used + CacheNow(k)
           = used + CacheBytes(r.cache, k) + (IF r.obj = NULL THEN 0 ELSE ObjSize[k])
  BY <1>2, AllocateCounts DEF CacheNow
<1>4. r.obj # NULL => r.obj \in Obj /\ r.obj \notin held[k]
  BY <1>2, AllocateApart DEF LimitInv
<1>5. CacheNow(k) \in Nat /\ CacheBytes(r.cache, k) \in Nat /\ ObjSize[k] \in Nat
  BY <1>3, PartsFit, CacheBytesNat, Sizes DEF Counted
<1>6. CASE r.obj = NULL
  <2>1. used' + CacheNow(k) + lost = used + CacheBytes(r.cache, k) + lost'
    BY <1>1, <1>3, <1>5, <1>6
  <2> QED
    BY <1>1, <1>3, <1>6, <2>1, KeepsObjects
<1>7. CASE r.obj # NULL
  <2>1. bin' = IF k = "pd" THEN bin ELSE [bin EXCEPT ![r.obj] = 0]
    <3>1. CASE k = "pd"
      BY <1>1, <3>1
    <3>2. CASE k = "sexp_t"
      <4>1. bin[r.obj] = 0
        BY <1>4, <1>7, <3>2
      <4> QED
        BY <1>1, <1>4, <1>7, <3>2, <4>1
    <3> QED
      BY <3>1, <3>2 DEF Kind
  <2>2. Worth(k, 0, 0) = 0
    BY DEF Worth
  <2>3. used' + CacheNow(k) = used + CacheBytes(r.cache, k) + ObjSize[k] + Worth(k, 0, 0)
    BY <1>1, <1>3, <1>5, <1>7, <2>2
  <2>4. 0 \in Nat
    OBVIOUS
  <2>5. HandedOut(k, r.cache, r.obj, 0, 0)
    BY <1>1, <1>7, <2>1 DEF HandedOut
  <2> QED
    BY <1>1, <1>3, <1>4, <1>7, <2>3, <2>4, <2>5, GetsObject
<1> QED
  BY <1>6, <1>7

LEMMA NewBinaryCounts ==
  ASSUME SoundState, CountInv, SoundState', str' = str, NEW n \in AtomSizes,
         new_sexp_binary_atom(n)
  PROVE  CountInv'
<1> USE CountFacts
<1> DEFINE K == "sexp_t"
<1>1. PICK v \in sexp_malloc(used, n) \ {Refused} :
        \E r \in allocate(v, cache[K], K) :
          /\ cache' = [cache EXCEPT ![K] = r.cache]
          /\ \/ r.obj = NULL /\ used' = sexp_free(r.used, n) /\ held' = held /\ bin' = bin
             \/ /\ r.obj # NULL /\ used' = r.used
                /\ held' = [held EXCEPT ![K] = @ \cup {r.obj}]
                /\ bin' = [bin EXCEPT ![r.obj] = n]
  BY DEF new_sexp_binary_atom
<1>2. PICK r \in allocate(v, cache[K], K) :
        /\ cache' = [cache EXCEPT ![K] = r.cache]
        /\ \/ r.obj = NULL /\ used' = sexp_free(r.used, n) /\ held' = held /\ bin' = bin
           \/ /\ r.obj # NULL /\ used' = r.used
              /\ held' = [held EXCEPT ![K] = @ \cup {r.obj}]
              /\ bin' = [bin EXCEPT ![r.obj] = n]
  BY <1>1
<1>3. /\ n \in Nat /\ limit' = limit /\ val' = val /\ lost' = lost
      /\ CanMake(K, cache[K]) \/ cache[K].data # << >>
  BY CacheSizesAssumption DEF new_sexp_binary_atom
<1>4. v = used + n /\ v \in InUse /\ v \in Nat
  BY <1>3, MallocExact
<1>5. /\ Counted(r.cache) /\ r.used \in Nat /\ v <= r.used
      /\ r.used + CacheNow(K)
           = v + CacheBytes(r.cache, K) + (IF r.obj = NULL THEN 0 ELSE ObjSize[K])
  BY <1>3, <1>4, AllocateCounts DEF CacheNow
<1>6. r.obj # NULL => r.obj \in Obj /\ r.obj \notin held[K]
  BY <1>3, <1>4, AllocateApart DEF LimitInv
<1>7. CacheNow(K) \in Nat /\ CacheBytes(r.cache, K) \in Nat /\ ObjSize[K] \in Nat /\ used \in Nat
  BY <1>5, PartsFit, CacheBytesNat, Sizes DEF Counted
<1>8. CASE r.obj = NULL
  <2> DEFINE R == r.used
             C == CacheNow(K)
             D == CacheBytes(r.cache, K)
  <2>1. /\ R \in Nat /\ C \in Nat /\ D \in Nat /\ n \in Nat /\ used \in Nat /\ lost \in Nat
        /\ R + C = (used + n) + D + 0 /\ used + n <= R
    BY <1>3, <1>4, <1>5, <1>7, <1>8
  <2>2. used' = sexp_free(R, n)
    BY <1>2, <1>8
  <2> HIDE DEF R, C, D
  <2>3. n <= R /\ (R - n) + C + lost = used + D + lost
    BY <2>1
  <2>4. used' = R - n
    BY <2>1, <2>2, <2>3, FreeExact
  <2>5. used' + CacheNow(K) + lost = used + CacheBytes(r.cache, K) + lost'
    BY <1>3, <2>3, <2>4 DEF C, D
  <2> QED
    BY <1>2, <1>3, <1>5, <1>8, <2>5, KeepsObjects
<1>9. CASE r.obj # NULL
  <2>1. /\ val' = IF K = "pd" THEN val ELSE [val EXCEPT ![r.obj] = 0]
        /\ bin' = IF K = "pd" THEN bin ELSE [bin EXCEPT ![r.obj] = n]
    <3>1. val[r.obj] = 0
      BY <1>6, <1>9
    <3> QED
      BY <1>2, <1>3, <1>6, <1>9, <3>1
  <2>2. Worth(K, 0, n) = n
    BY <1>3 DEF Worth
  <2>3. used' + CacheNow(K) = used + CacheBytes(r.cache, K) + ObjSize[K] + Worth(K, 0, n)
    <3> DEFINE R == r.used
               C == CacheNow(K)
               D == CacheBytes(r.cache, K)
               O == ObjSize[K]
    <3>1. /\ R \in Nat /\ C \in Nat /\ D \in Nat /\ O \in Nat /\ n \in Nat /\ used \in Nat
          /\ R + C = (used + n) + D + O /\ used' = R
      BY <1>2, <1>3, <1>4, <1>5, <1>7, <1>9
    <3> HIDE DEF R, C, D, O
    <3>2. R + C = used + D + O + n
      BY <3>1
    <3> QED
      BY <2>2, <3>1, <3>2 DEF C, D, O
  <2>4. 0 \in Nat
    OBVIOUS
  <2>5. HandedOut(K, r.cache, r.obj, 0, n)
    BY <1>2, <1>9, <2>1 DEF HandedOut
  <2> QED
    BY <1>3, <1>5, <1>6, <1>9, <2>3, <2>4, <2>5, GetsObject
<1> QED
  BY <1>8, <1>9

LEMMA NewAtomCounts ==
  ASSUME SoundState, CountInv, SoundState', str' = str, NEW bs \in AtomSizes,
         new_sexp_atom(bs)
  PROVE  CountInv'
<1> USE CountFacts
<1> DEFINE K == "sexp_t"
<1>1. PICK r \in allocate(used, cache[K], K) :
        \/ /\ r.obj = NULL
           /\ used' = r.used /\ cache' = [cache EXCEPT ![K] = r.cache]
           /\ held' = held /\ val' = val /\ lost' = lost
        \/ /\ r.obj # NULL
           /\ \E v \in sexp_malloc(r.used, bs + 1) :
                \/ /\ v # Refused
                   /\ used' = v /\ cache' = [cache EXCEPT ![K] = r.cache]
                   /\ held' = [held EXCEPT ![K] = @ \cup {r.obj}]
                   /\ val' = [val EXCEPT ![r.obj] = bs + 1] /\ lost' = lost
                \/ /\ v = Refused
                   /\ \E d \in deallocate(r.used, r.cache, K, r.obj, 0) :
                        /\ used' = d.used /\ cache' = [cache EXCEPT ![K] = d.cache]
                        /\ lost' = lost + d.lost
                   /\ held' = held /\ val' = val
  BY DEF new_sexp_atom
<1>2. /\ bs \in Nat /\ bs + 1 \in Nat /\ limit' = limit /\ bin' = bin
      /\ CanMake(K, cache[K]) \/ cache[K].data # << >>
  BY CacheSizesAssumption DEF new_sexp_atom
<1>3. /\ Counted(r.cache) /\ r.used \in Nat /\ used \in Nat /\ used <= r.used
      /\ r.used + CacheNow(K)
           = used + CacheBytes(r.cache, K) + (IF r.obj = NULL THEN 0 ELSE ObjSize[K])
  BY <1>2, AllocateCounts DEF CacheNow
<1>4. /\ r.used \in InUse
      /\ r.obj # NULL => r.obj \in Obj /\ r.obj \notin held[K]
      /\ Apart(r.cache, held[K])
  BY <1>2, AllocateApart DEF LimitInv
<1>5. /\ CacheNow(K) \in Nat /\ CacheBytes(r.cache, K) \in Nat /\ ObjSize[K] \in Nat
      /\ CacheNow(K) <= used
  <2>1. /\ CacheNow(K) \in Nat /\ HeldNow(K) \in Nat
        /\ HeldNow(K) + CacheNow(K) <= used
    BY PartsFit
  <2> QED
    BY <1>3, <2>1, CacheBytesNat, Sizes DEF Counted
<1>6. CASE r.obj = NULL
  <2>1. used' + CacheNow(K) + lost = used + CacheBytes(r.cache, K) + lost'
    BY <1>1, <1>3, <1>5, <1>6
  <2> QED
    BY <1>1, <1>2, <1>3, <1>6, <2>1, KeepsObjects
<1>7. CASE r.obj # NULL
  <2>1. PICK v \in sexp_malloc(r.used, bs + 1) :
          \/ /\ v # Refused
             /\ used' = v /\ cache' = [cache EXCEPT ![K] = r.cache]
             /\ held' = [held EXCEPT ![K] = @ \cup {r.obj}]
             /\ val' = [val EXCEPT ![r.obj] = bs + 1] /\ lost' = lost
          \/ /\ v = Refused
             /\ \E d \in deallocate(r.used, r.cache, K, r.obj, 0) :
                  /\ used' = d.used /\ cache' = [cache EXCEPT ![K] = d.cache]
                  /\ lost' = lost + d.lost
             /\ held' = held /\ val' = val
    BY <1>1, <1>7
  <2>2. CASE v # Refused
    <3>1. v = r.used + (bs + 1)
      BY <1>2, <1>4, <2>2, MallocExact
    <3>2. /\ val' = IF K = "pd" THEN val ELSE [val EXCEPT ![r.obj] = bs + 1]
          /\ bin' = IF K = "pd" THEN bin ELSE [bin EXCEPT ![r.obj] = 0]
      <4>1. bin[r.obj] = 0
        BY <1>4, <1>7
      <4> QED
        BY <1>2, <1>4, <1>7, <2>1, <2>2, <4>1
    <3>3. Worth(K, bs + 1, 0) = bs + 1
      BY <1>2 DEF Worth
    <3>4. used' + CacheNow(K)
            = used + CacheBytes(r.cache, K) + ObjSize[K] + Worth(K, bs + 1, 0)
      BY <1>2, <1>3, <1>5, <1>7, <2>1, <2>2, <3>1, <3>3
    <3>5. 0 \in Nat
      OBVIOUS
    <3>6. HandedOut(K, r.cache, r.obj, bs + 1, 0)
      BY <2>1, <2>2, <3>2 DEF HandedOut
    <3> QED
      BY <1>2, <1>3, <1>4, <1>7, <2>1, <2>2, <3>4, <3>5, <3>6, GetsObject
  <2>3. CASE v = Refused
    <3>1. PICK d \in deallocate(r.used, r.cache, K, r.obj, 0) :
            /\ used' = d.used /\ cache' = [cache EXCEPT ![K] = d.cache]
            /\ lost' = lost + d.lost
      BY <2>1, <2>3
    <3>2. 0 \in Nat /\ 0 + ObjSize[K] <= r.used
      BY <1>3, <1>5, <1>7
    <3>3. Len(r.cache.data) <= r.cache.levels
      BY <1>4 DEF Apart
    <3>4. /\ Counted(d.cache) /\ d.used \in Nat /\ d.lost \in Nat
          /\ d.used + 0 + CacheBytes(r.cache, K) + ObjSize[K]
               = r.used + CacheBytes(d.cache, K) + d.lost
      <4>1. /\ limit < SizeRange /\ LimitInv /\ K \in Kind
            /\ r.used \in InUse /\ Counted(r.cache) /\ r.obj \in Obj
            /\ d \in deallocate(r.used, r.cache, K, r.obj, 0)
        BY <1>3, <1>4, <1>7
      <4> HIDE DEF K
      <4> QED
        BY ONLY <3>2, <3>3, <4>1, DeallocateCounts
    <3>5. CacheBytes(d.cache, K) \in Nat
      BY <3>4, CacheBytesNat DEF Counted
    <3>6. used' + CacheNow(K) + lost = used + CacheBytes(d.cache, K) + lost'
      <4> DEFINE R == r.used
                 B == CacheBytes(r.cache, K)
                 C == CacheNow(K)
                 D == CacheBytes(d.cache, K)
                 O == ObjSize[K]
                 U == d.used
                 L == d.lost
      <4>1. /\ R \in Nat /\ B \in Nat /\ C \in Nat /\ D \in Nat /\ O \in Nat /\ U \in Nat
            /\ L \in Nat /\ used \in Nat /\ lost \in Nat
            /\ U + 0 + B + O = R + D + L /\ R + C = used + B + O
        BY <1>3, <1>5, <1>7, <3>4, <3>5
      <4>2. used' = U /\ lost' = lost + L
        BY <3>1
      <4> HIDE DEF R, B, C, D, O, U, L
      <4>3. U + C + lost = used + D + (lost + L)
        BY ONLY <4>1
      <4> QED
        BY <4>2, <4>3 DEF C, D
    <3>7. held' = held /\ val' = val /\ lost' \in Nat
      BY <2>1, <2>3, <3>1, <3>4
    <3> QED
      BY <1>2, <3>1, <3>4, <3>6, <3>7, KeepsObjects
  <2> QED
    BY <2>2, <2>3
<1> QED
  BY <1>6, <1>7

(* What is worth freeing is in use. *)
LEMMA HeldInUse ==
  ASSUME SoundState, CountInv, NEW k \in Kind, NEW o \in Obj, o \in held[k]
  PROVE  /\ Worth(k, val[o], bin[o]) \in Nat
         /\ Worth(k, val[o], bin[o]) + ObjSize[k] <= used
<1>1. /\ IsFiniteSet(held[k]) /\ Numbers(held[k], val, bin)
      /\ SameOn(held[k] \ {o}, val, bin, val, bin)
  BY CountFacts DEF SameOn
<1> DEFINE H == HeldOf(k, held[k] \ {o}, val, bin)
           W == Worth(k, val[o], bin[o])
           O == ObjSize[k]
           A == HeldNow(k)
           C == CacheNow(k)
<1>2. H \in Nat /\ A = H + O + W
  <2> DEFINE v == val
             b == bin
  <2>1. SameOn(held[k] \ {o}, val, bin, v, b)
    BY <1>1
  <2> HIDE DEF v, b
  <2>2. /\ HeldOf(k, held[k] \ {o}, v, b) \in Nat
        /\ HeldOf(k, held[k], val, bin)
             = HeldOf(k, held[k] \ {o}, v, b) + ObjSize[k] + Worth(k, val[o], bin[o])
    BY ONLY k \in Kind, o \in held[k], <1>1, <2>1, HeldLess
  <2> QED
    BY <2>2 DEF HeldNow, v, b
<1>3. W \in Nat /\ O \in Nat
  BY CountFacts, Sizes DEF Worth
<1>4. A \in Nat /\ C \in Nat /\ A + C <= used /\ used \in Nat
  BY PartsFit
<1> HIDE DEF H, W, O, A, C
<1>5. W + O <= used
  BY ONLY <1>2, <1>3, <1>4
<1> QED
  BY <1>3, <1>5 DEF W, O

LEMMA DestroyCounts ==
  ASSUME SoundState, CountInv, SoundState', str' = str, NEW o \in Obj, destroy_sexp(o)
  PROVE  CountInv'
<1> DEFINE K == "sexp_t"
           n == val[o] + bin[o]
<1>1. PICK d \in deallocate(sexp_free(used, n), cache[K], K, o, 0) :
        /\ used' = d.used /\ cache' = [cache EXCEPT ![K] = d.cache]
        /\ lost' = lost + d.lost
        /\ held' = [held EXCEPT ![K] = @ \ {o}] /\ val' = [val EXCEPT ![o] = 0]
        /\ bin' = [bin EXCEPT ![o] = 0] /\ o \in held[K] /\ limit' = limit
  BY DEF destroy_sexp
<1>2. K \in Kind /\ Worth(K, val[o], bin[o]) = n
  BY DEF Kind, Worth
<1>3. n \in Nat /\ n + ObjSize[K] <= used
  BY <1>1, <1>2, HeldInUse
<1> HIDE DEF n
<1>4. used \in Nat /\ used \in InUse /\ ObjSize[K] \in Nat
  BY <1>2, PartsFit, CountFacts, Sizes
<1>5. sexp_free(used, n) = used - n
  BY <1>3, <1>4, FreeExact
<1>6. sexp_free(used, n) \in InUse
  BY <1>3, <1>4, FreeBounded, InUseNat DEF SoundState, LimitInv
<1>7. 0 \in Nat /\ 0 + ObjSize[K] <= sexp_free(used, n)
  BY <1>3, <1>4, <1>5
<1>8. /\ limit < SizeRange /\ LimitInv /\ Counted(cache[K]) /\ lost \in Nat
      /\ Len(cache[K].data) <= cache[K].levels
  BY <1>2, CountFacts
<1>9. /\ Counted(d.cache) /\ d.used \in Nat /\ d.lost \in Nat
      /\ d.used + 0 + CacheNow(K) + ObjSize[K]
           = sexp_free(used, n) + CacheBytes(d.cache, K) + d.lost
  BY <1>2, <1>6, <1>7, <1>8, DeallocateCounts DEF CacheNow
<1>10. /\ lost' \in Nat
       /\ used' + Worth(K, val[o], bin[o]) + CacheNow(K) + ObjSize[K] + lost
            = used + CacheBytes(d.cache, K) + lost'
  <2> DEFINE C == CacheNow(K)
             D == CacheBytes(d.cache, K)
             O == ObjSize[K]
             U == d.used
             L == d.lost
  <2>1. /\ C \in Nat /\ D \in Nat /\ O \in Nat /\ U \in Nat /\ L \in Nat
    BY <1>2, <1>4, <1>9, PartsFit, CacheBytesNat DEF Counted
  <2>2. U + 0 + C + O = (used - n) + D + L
    BY <1>5, <1>9
  <2>3. used' = U /\ lost' = lost + L /\ Worth(K, val[o], bin[o]) = n
    BY <1>1, <1>2
  <2> HIDE DEF C, D, O, U, L
  <2>4. U + n + C + O + lost = used + D + (lost + L) /\ lost + L \in Nat
    BY ONLY <1>3, <1>4, <1>8, <2>1, <2>2
  <2> QED
    BY <2>3, <2>4 DEF C, D, O
<1>11. GivenBack(K, d.cache, o)
  BY <1>1 DEF GivenBack
<1> QED
  BY <1>1, <1>2, <1>9, <1>10, <1>11, GivesObject

LEMMA ReleaseCounts ==
  ASSUME SoundState, CountInv, SoundState', str' = str, NEW k \in Kind, NEW o \in Obj,
         Release(k, o)
  PROVE  CountInv'
<1> DEFINE n == IF k = "pd" THEN 0 ELSE val[o]
           m == IF k = "pd" THEN 0 ELSE bin[o]
<1>1. PICK d \in deallocate(used, cache[k], k, o, n) :
        /\ used' = d.used /\ cache' = [cache EXCEPT ![k] = d.cache]
        /\ lost' = lost + d.lost + m
        /\ held' = [held EXCEPT ![k] = @ \ {o}]
        /\ val' = IF k = "pd" THEN val ELSE [val EXCEPT ![o] = 0]
        /\ bin' = IF k = "pd" THEN bin ELSE [bin EXCEPT ![o] = 0]
        /\ o \in held[k] /\ limit' = limit
  BY DEF Release
<1>2. n \in Nat /\ m \in Nat /\ Worth(k, val[o], bin[o]) = n + m
  BY CountFacts DEF Worth
<1> HIDE DEF n, m
<1>3. (n + m) + ObjSize[k] <= used
  BY <1>1, <1>2, HeldInUse
<1>4. used \in Nat /\ used \in InUse /\ ObjSize[k] \in Nat
  BY PartsFit, CountFacts, Sizes
<1>5. n + ObjSize[k] <= used
  BY <1>2, <1>3, <1>4
<1>6. /\ limit < SizeRange /\ LimitInv /\ Counted(cache[k]) /\ lost \in Nat
      /\ Len(cache[k].data) <= cache[k].levels
  BY CountFacts
<1>7. /\ Counted(d.cache) /\ d.used \in Nat /\ d.lost \in Nat
      /\ d.used + n + CacheNow(k) + ObjSize[k] = used + CacheBytes(d.cache, k) + d.lost
  BY <1>2, <1>4, <1>5, <1>6, DeallocateCounts DEF CacheNow
<1>8. /\ lost' \in Nat
      /\ used' + Worth(k, val[o], bin[o]) + CacheNow(k) + ObjSize[k] + lost
           = used + CacheBytes(d.cache, k) + lost'
  <2> DEFINE C == CacheNow(k)
             D == CacheBytes(d.cache, k)
             O == ObjSize[k]
             U == d.used
             L == d.lost
  <2>1. /\ C \in Nat /\ D \in Nat /\ O \in Nat /\ U \in Nat /\ L \in Nat
    BY <1>4, <1>7, PartsFit, CacheBytesNat DEF Counted
  <2>2. U + n + C + O = used + D + L
    BY <1>7
  <2>3. used' = U /\ lost' = lost + L + m
    BY <1>1
  <2> HIDE DEF C, D, O, U, L
  <2>4. U + (n + m) + C + O + lost = used + D + (lost + L + m) /\ lost + L + m \in Nat
    BY ONLY <1>2, <1>4, <1>6, <2>1, <2>2
  <2> QED
    BY <1>2, <2>3, <2>4 DEF C, D, O
<1>9. GivenBack(k, d.cache, o)
  BY <1>1 DEF GivenBack
<1> QED
  BY <1>1, <1>7, <1>8, <1>9, GivesObject

(* sexp_cleanup frees just what the two caches are worth. *)
LEMMA CleanupCounts ==
  ASSUME SoundState, CountInv, SoundState', str' = str, sexp_cleanup
  PROVE  CountInv'
<1>1. ASSUME NEW k \in Kind, NEW u \in Nat, CacheNow(k) <= u
      PROVE  Emptied(u, k) = u - CacheNow(k)
  <2>1. /\ cache[k] \in Caches /\ Unmade(cache[k])
    BY CountFacts DEF Counted
  <2>2. CASE cache[k].made
    <3> DEFINE P == Len(cache[k].data) * ObjSize[k]
               Q == cache[k].levels * LevelSize
    <3>1. /\ CacheNow(k) = StackSize + Q + P /\ P \in Nat /\ Q \in Nat /\ StackSize \in Nat
      BY <2>1, <2>2, CacheBytesNat, Sizes DEF CacheNow
    <3>2. /\ Len(cache[k].data) \in Nat /\ cache[k].levels \in Nat
          /\ ObjSize[k] \in Nat /\ LevelSize \in Nat
      <4>1. cache[k].data \in Seq(Obj) /\ cache[k].levels \in Nat
        BY <2>1, CacheFields
      <4> QED
        BY <4>1, Sizes
    <3>3. P <= u /\ Q <= u - P /\ StackSize <= (u - P) - Q /\ u - P \in Nat /\ (u - P) - Q \in Nat
      <4> HIDE DEF P, Q
      <4> QED
        BY <1>1, <3>1
    <3>4. sexp_free_all(u, Len(cache[k].data), ObjSize[k]) = u - P
      BY <3>2, <3>3, FreeAllExact, Zenon
    <3>5. sexp_free_all(u - P, cache[k].levels, LevelSize) = (u - P) - Q
      <4> DEFINE w == u - P
      <4>1. /\ w \in Nat /\ cache[k].levels * LevelSize <= w
            /\ cache[k].levels \in Nat /\ LevelSize \in Nat
        BY <3>2, <3>3, Zenon
      <4> HIDE DEF w
      <4>2. sexp_free_all(w, cache[k].levels, LevelSize) = w - Q
        BY <4>1, FreeAllExact, Zenon
      <4> QED
        BY <4>2, Zenon DEF w
    <3>6. sexp_free((u - P) - Q, StackSize) = ((u - P) - Q) - StackSize
      BY <3>1, <3>3, FreeExact
    <3>7. Emptied(u, k) = ((u - P) - Q) - StackSize
      BY <2>2, <3>4, <3>5, <3>6 DEF Emptied
    <3> HIDE DEF P, Q
    <3> QED
      BY <3>1, <3>7
  <2>3. CASE ~cache[k].made
    BY <2>3 DEF Emptied, CacheNow, CacheBytes
  <2> QED
    BY <2>2, <2>3
<1>2. /\ used' = Emptied(Emptied(used, "pd"), "sexp_t")
      /\ cache' = [k \in Kind |-> NoCache]
      /\ limit' = limit /\ held' = held /\ val' = val /\ bin' = bin /\ lost' = lost
  BY DEF sexp_cleanup
<1>3. "sexp_t" \in Kind /\ "pd" \in Kind
  BY DEF Kind
<1> DEFINE A == HeldNow("sexp_t")
           B == CacheNow("sexp_t")
           C == HeldNow("pd")
           D == CacheNow("pd")
<1>4. /\ A \in Nat /\ B \in Nat /\ C \in Nat /\ D \in Nat /\ used \in Nat /\ lost \in Nat
      /\ StringBytes \in Nat /\ A + B + C + D <= used
  BY <1>3, PartsFit
<1>5. used = StringBytes + (A + B) + (C + D) + lost
  BY <1>3, TotalIs DEF CountInv
<1>6. used' = (used - D) - B
  <2> HIDE DEF A, C
  <2>1. D <= used /\ used - D \in Nat /\ B <= used - D
    <3> HIDE DEF B, D
    <3> QED
      BY <1>4
  <2>2. Emptied(used, "pd") = used - D
    BY <1>1, <1>3, <1>4, <2>1
  <2>3. Emptied(used - D, "sexp_t") = (used - D) - B
    BY <1>1, <1>3, <2>1
  <2> QED
    BY <1>2, <2>2, <2>3
<1>7. \A k \in Kind : /\ HeldNow(k)' = HeldNow(k) /\ CacheNow(k)' = 0
                      /\ Unmade(cache'[k]) /\ IsFiniteSet(held'[k])
  <2>1. \A k \in Kind : cache'[k] = NoCache
    BY <1>2
  <2>2. Unmade(NoCache) /\ \A k \in Kind : CacheBytes(NoCache, k) = 0
    BY DEF NoCache, Unmade, CacheBytes
  <2>3. \A k \in Kind : HeldNow(k)' = HeldNow(k) /\ IsFiniteSet(held'[k])
    BY <1>2 DEF HeldNow, CountInv
  <2> QED
    BY <2>1, <2>2, <2>3 DEF CacheNow
<1>8. Summed'
  BY <1>2, <1>4, <1>7, SummedNext DEF Countable
<1>9. StringBytes' = StringBytes
  BY DEF StringBytes
<1>10. used' = StringBytes + (A + 0) + (C + 0) + lost
  <2> HIDE DEF A, B, C, D
  <2> QED
    BY <1>4, <1>5, <1>6
<1>11. UsedIsHeld'
  BY <1>2, <1>3, <1>7, <1>8, <1>9, <1>10 DEF Summed
<1> QED
  BY <1>2, <1>4, <1>7, <1>11 DEF CountInv
-----------------------------------------------------------------------------
(* So do those of a CSTRING, which change nothing else. *)
LEMMA StringBalanced ==
  ASSUME SoundState, CountInv, SoundState', limit' = limit, UNCHANGED cacheVars,
         used' + StringBytes = used + StringBytes'
  PROVE  CountInv'
<1>1. cache' = cache /\ held' = held /\ val' = val /\ bin' = bin /\ lost' = lost
  BY DEF cacheVars
<1>2. \A k \in Kind : /\ HeldNow(k)' = HeldNow(k) /\ CacheNow(k)' = CacheNow(k)
                      /\ Unmade(cache'[k]) /\ IsFiniteSet(held'[k])
  BY <1>1 DEF HeldNow, CacheNow, CountInv
<1>3. Summed'
  BY <1>1, <1>2, SummedNext, CountFacts DEF Countable
<1>4. "sexp_t" \in Kind /\ "pd" \in Kind
  BY DEF Kind
<1> DEFINE A == HeldNow("sexp_t") + CacheNow("sexp_t")
           B == HeldNow("pd") + CacheNow("pd")
           U == used'
           S == StringBytes'
<1>5. /\ A \in Nat /\ B \in Nat /\ StringBytes \in Nat /\ used \in Nat /\ lost \in Nat
  BY <1>4, PartsFit
<1>6. S \in Nat /\ U \in Nat
  BY StringSizesAssumption
  DEF SoundState, LimitInv, InUse, StringInv, Strings, StringBytes
<1>7. used = StringBytes + A + B + lost /\ U + StringBytes = used + S
  BY TotalIs DEF CountInv
<1> HIDE DEF A, B, U, S
<1>8. U = S + A + B + lost
  BY ONLY <1>5, <1>6, <1>7
<1>9. UsedIsHeld'
  BY <1>1, <1>2, <1>3, <1>4, <1>8 DEF Summed, A, B, U, S
<1> QED
  BY <1>1, <1>2, <1>9 DEF CountInv

LEMMA StringStepCounts ==
  ASSUME SoundState, CountInv, SoundState', StringStep, UNCHANGED cacheVars
  PROVE  CountInv'
<1>1. /\ limit < SizeRange /\ LimitInv /\ limit \in Nat /\ used \in InUse /\ used \in Nat
      /\ used < SizeRange /\ CStringSize \in Nat
      /\ growsize \in Nat
  BY CountFacts, StringSizesAssumption, RangeAssumption
  DEF SoundState, LimitInv, InUse, StringInv
<1>2. str # NULL => /\ str.len \in Nat /\ Len(str.base) \in Nat
                    /\ StringBytes = CStringSize + str.len /\ CStringSize + str.len <= used
                    /\ str.len <= used /\ str \in Strings
  <2>1. StringBytes <= used
    BY PartsFit
  <2>2. str # NULL => str \in Strings /\ str.len \in Nat /\ str.base \in Seq(STRING)
    BY DEF SoundState, StringInv, Strings
  <2> QED
    BY <1>1, <2>1, <2>2 DEF StringBytes
<1>3. limit' = limit
  BY DEF StringStep, sgrowsize, snew, sadd, strim, sempty, sdestroy
<1> SUFFICES used' + StringBytes = used + StringBytes'
  BY <1>3, StringBalanced
<1>4. ASSUME used' = used, str' = str
      PROVE  used' + StringBytes = used + StringBytes'
  BY <1>4 DEF StringBytes
<1>5. ASSUME NEW s \in GrowSizes, sgrowsize(s)
      PROVE  used' + StringBytes = used + StringBytes'
  BY <1>4, <1>5 DEF sgrowsize
<1>6. ASSUME NEW s \in StartSizes, snew(s)
      PROVE  used' + StringBytes = used + StringBytes'
  <2>1. PICK u \in sexp_malloc(used, CStringSize) :
          \/ u = Refused /\ used' = used /\ str' = str
          \/ /\ u # Refused
             /\ \E v \in sexp_calloc(u, 1, s) :
                  \/ v = Refused /\ used' = sexp_free(u, CStringSize) /\ str' = str
                  \/ v # Refused /\ used' = v /\ str' = [len |-> s, base |-> << >>]
    BY <1>6 DEF snew
  <2>2. s \in Nat /\ 1 * s = s /\ str = NULL
    BY <1>6, StringSizesAssumption DEF snew
  <2>3. CASE u = Refused
    BY <1>4, <2>1, <2>3
  <2>4. CASE u # Refused
    <3>1. u = used + CStringSize /\ u \in InUse /\ u \in Nat
      BY <1>1, <2>4, MallocExact
    <3>2. PICK v \in sexp_calloc(u, 1, s) :
            \/ v = Refused /\ used' = sexp_free(u, CStringSize) /\ str' = str
            \/ v # Refused /\ used' = v /\ str' = [len |-> s, base |-> << >>]
      BY <2>1, <2>4
    <3>3. CASE v = Refused
      <4>1. used' = used
        BY <1>1, <3>1, <3>2, <3>3, FreeExact
      <4> QED
        BY <1>4, <3>2, <3>3, <4>1
    <3>4. CASE v # Refused
      <4>1. v \in sexp_malloc(u, s)
        BY <2>2 DEF sexp_calloc, sexp_malloc
      <4>2. v = u + s
        BY <1>1, <2>2, <3>1, <3>4, <4>1, MallocExact
      <4>3. StringBytes = 0 /\ StringBytes' = CStringSize + s
        <5>1. str' = [len |-> s, base |-> << >>]
          BY <3>2, <3>4
        <5>2. str' # NULL => StringBytes' = CStringSize + s
          BY <5>1 DEF StringBytes
        <5>3. str' # NULL
          <6>1. << >> \in Seq(STRING)
            OBVIOUS
          <6>2. str' \in [len : Nat, base : Seq(STRING)]
            BY <2>2, <5>1, <6>1
          <6> QED
            BY <6>2, NullAssumption
        <5> QED
          BY <2>2, <5>2, <5>3 DEF StringBytes
      <4> QED
        BY <1>1, <2>2, <3>1, <3>2, <3>4, <4>2, <4>3
    <3> QED
      BY <3>3, <3>4
  <2> QED
    BY <2>3, <2>4
<1>7. ASSUME NEW newlen \in Nat, str # NULL,
             NEW u \in sexp_realloc(used, newlen, str.len), u # Refused, used' = u,
             str' # NULL, str'.len = newlen
      PROVE  used' + StringBytes = used + StringBytes'
  <2>1. u = used + newlen - str.len
    BY <1>1, <1>2, <1>7, GrantedExact DEF sexp_realloc
  <2>2. StringBytes' = CStringSize + newlen /\ StringBytes = CStringSize + str.len
    BY <1>7 DEF StringBytes
  <2> QED
    BY <1>1, <1>2, <1>7, <2>1, <2>2
<1>8. ASSUME NEW a \in Pieces, sadd(a)
      PROVE  used' + StringBytes = used + StringBytes'
  <2> DEFINE n == Len(a)
             newlen == str.len + growsize + n
             new == str.base \o a
  <2>1. /\ str # NULL /\ a \in Seq(STRING) /\ n \in Nat /\ newlen \in Nat
    BY <1>1, <1>2, <1>8, StringSizesAssumption DEF sadd
  <2>2. new \in Seq(STRING) /\ str \in Strings
    BY <1>2, <2>1 DEF Strings
  <2>3. \/ used' = used /\ str' = str
        \/ used' = used /\ str' = [str EXCEPT !.base = new]
        \/ /\ \E u \in sexp_realloc(used, newlen, str.len) : u # Refused /\ used' = u
           /\ str' = [len |-> newlen, base |-> new]
    BY <1>8, <2>1 DEF sadd
  <2> HIDE DEF newlen, new, n
  <2>4. CASE used' = used /\ str' = [str EXCEPT !.base = new]
    <3>1. str' \in Strings /\ str'.len = str.len
      BY <2>2, <2>4 DEF Strings
    <3>2. str' # NULL
      BY <3>1, NullAssumption DEF Strings
    <3> QED
      BY <2>1, <2>4, <3>1, <3>2 DEF StringBytes
  <2>5. CASE /\ \E u \in sexp_realloc(used, newlen, str.len) : u # Refused /\ used' = u
             /\ str' = [len |-> newlen, base |-> new]
    <3>1. str' \in Strings /\ str'.len = newlen
      BY <2>1, <2>2, <2>5 DEF Strings
    <3>2. str' # NULL
      BY <3>1, NullAssumption DEF Strings
    <3> QED
      BY <1>7, <2>1, <2>5, <3>1, <3>2
  <2> QED
    BY <1>4, <2>3, <2>4, <2>5
<1>9. ASSUME strim
      PROVE  used' + StringBytes = used + StringBytes'
  <2> DEFINE newlen == Len(str.base) + 1
  <2>1. str # NULL /\ newlen \in Nat /\ str \in Strings
    BY <1>2, <1>9 DEF strim
  <2>2. \/ used' = used /\ str' = str
        \/ /\ \E u \in sexp_realloc(used, newlen, str.len) : u # Refused /\ used' = u
           /\ str' = [str EXCEPT !.len = newlen]
    BY <1>9 DEF strim, Curlen
  <2> HIDE DEF newlen
  <2>3. CASE /\ \E u \in sexp_realloc(used, newlen, str.len) : u # Refused /\ used' = u
             /\ str' = [str EXCEPT !.len = newlen]
    <3>1. str' \in Strings /\ str'.len = newlen
      BY <2>1, <2>3 DEF Strings
    <3>2. str' # NULL
      BY <3>1, NullAssumption DEF Strings
    <3> QED
      BY <1>7, <2>1, <2>3, <3>1, <3>2
  <2> QED
    BY <1>4, <2>2, <2>3
<1>10. ASSUME sempty
       PROVE  used' + StringBytes = used + StringBytes'
  <2>1. str # NULL /\ used' = used /\ str' = [str EXCEPT !.base = << >>]
    BY <1>10 DEF sempty
  <2>2. str' \in Strings /\ str'.len = str.len
    <3>1. << >> \in Seq(STRING)
      OBVIOUS
    <3> QED
      BY <1>2, <2>1, <3>1 DEF Strings
  <2>3. str' # NULL
    BY <2>2, NullAssumption DEF Strings
  <2> QED
    BY <2>1, <2>2, <2>3 DEF StringBytes
<1>11. ASSUME sdestroy
       PROVE  used' + StringBytes = used + StringBytes'
  <2>1. /\ str # NULL /\ str' = NULL
        /\ used' = sexp_free(sexp_free(used, str.len), CStringSize)
    BY <1>11 DEF sdestroy
  <2>2. sexp_free(used, str.len) = used - str.len /\ used - str.len \in Nat
    BY <1>1, <1>2, <2>1, FreeExact
  <2>3. used' = (used - str.len) - CStringSize
    BY <1>1, <1>2, <2>1, <2>2, FreeExact
  <2>4. StringBytes' = 0
    BY <2>1 DEF StringBytes
  <2> QED
    BY <1>1, <1>2, <2>1, <2>3, <2>4
<1> QED
  BY <1>5, <1>6, <1>8, <1>9, <1>10, <1>11 DEF StringStep
-----------------------------------------------------------------------------
LEMMA CountInit == Init => MemoryInv /\ CountInv
<1> SUFFICES ASSUME Init PROVE MemoryInv /\ CountInv
  OBVIOUS
<1>1. MemoryInv
  BY MemoryInit
<1>2. limit < SizeRange /\ lost \in Nat
  BY LimitsAssumption, RangeAssumption DEF Init
<1>3. \A k \in Kind : IsFiniteSet(held[k]) /\ Unmade(cache[k]) /\ CacheNow(k) = 0
  BY FS_EmptySet DEF Init, NoCache, Unmade, CacheNow, CacheBytes
<1>4. \A o \in Obj : val[o] = 0 /\ bin[o] = 0
  BY DEF Init
<1>5. \A k \in Kind : HeldNow(k) = 0
  <2>1. \A k \in Kind : held[k] = {} /\ Cardinality({}) = 0 /\ 0 * ObjSize[k] = 0
    BY FS_EmptySet, Sizes DEF Init
  <2>2. SumFunctionOnSet(val, {}) = 0 /\ SumFunctionOnSet(bin, {}) = 0
    BY SumEmpty
  <2> QED
    BY <2>1, <2>2 DEF HeldNow, HeldOf, Worth
<1>6. UsedIsHeld
  <2>1. SoundState
    BY <1>1 DEF MemoryInv, SoundState
  <2>2. "sexp_t" \in Kind /\ "pd" \in Kind
    BY DEF Kind
  <2>3. used = 0 /\ lost = 0 /\ StringBytes = 0
    BY DEF Init, StringBytes
  <2> QED
    BY <1>2, <1>3, <1>5, <2>1, <2>2, <2>3, TotalIs
<1> QED
  BY <1>1, <1>2, <1>3, <1>4, <1>6 DEF CountInv

LEMMA CountNext == MemoryInv /\ CountInv /\ [Next]_vars => MemoryInv' /\ CountInv'
<1> SUFFICES ASSUME MemoryInv, CountInv, [Next]_vars PROVE MemoryInv' /\ CountInv'
  OBVIOUS
<1>1. MemoryInv'
  BY MemoryNext
<1>2. SoundState /\ SoundState'
  BY <1>1 DEF MemoryInv, SoundState
<1>3. CASE StringStep /\ UNCHANGED cacheVars
  BY <1>1, <1>2, <1>3, StringStepCounts
<1>4. CASE CacheStep /\ UNCHANGED stringVars
  <2>1. str' = str
    BY <1>4 DEF stringVars
  <2>2. ASSUME WrongConstructor PROVE CountInv'
    <3>1. /\ used' = used /\ limit' = limit /\ UNCHANGED cacheVars
      BY <2>2 DEF WrongConstructor, cacheVars
    <3>2. used' + StringBytes = used + StringBytes'
      BY <2>1, <3>1 DEF StringBytes
    <3> QED
      BY <1>2, <3>1, <3>2, StringBalanced
  <2> QED
    BY <1>1, <1>2, <1>4, <2>1, <2>2, NewCounts, NewAtomCounts, NewBinaryCounts,
       DestroyCounts, ReleaseCounts, CleanupCounts DEF CacheStep
<1>5. ASSUME NEW n \in Limits, SetLimit(n)
      PROVE  CountInv'
  <2>1. /\ n \in Nat /\ n < SizeRange
    BY LimitsAssumption, RangeAssumption
  <2>2. /\ used' = used /\ str' = str /\ UNCHANGED cacheVars
        /\ limit' = limit \/ limit' = n
    BY <1>5 DEF SetLimit, set_sexp_max_memory, stringVars
  <2>3. UsedIsHeld'
    BY <2>2 DEF CountInv, UsedIsHeld, StringBytes, HeldBytes, cacheVars
  <2> QED
    BY <2>1, <2>2, <2>3 DEF CountInv, cacheVars
<1>6. CASE UNCHANGED vars
  <2>1. used' = used /\ str' = str /\ UNCHANGED cacheVars /\ limit' = limit
    BY <1>6 DEF vars, cacheVars
  <2>2. UsedIsHeld'
    BY <2>1 DEF CountInv, UsedIsHeld, StringBytes, HeldBytes, cacheVars
  <2> QED
    BY <1>1, <2>1, <2>2 DEF CountInv, cacheVars
<1> QED
  BY <1>1, <1>3, <1>4, <1>5, <1>6 DEF Next

(* What the limiter says is in use is what the program holds, byte for      *)
(* byte: the CSTRING, the objects of clients with their buffers, the two    *)
(* caches and what a failing push or sexp_t_deallocate of a binary atom     *)
(* made unreachable.  For all sizes, limits and refusals; in particular     *)
(* every block is freed with the size it was allocated with and the count   *)
(* never wraps (sexp_memory.c, and its callers in cstring.c, parser.c and   *)
(* sexp.c).                                                                 *)
THEOREM MemoryUsedIsHeld == Spec => []UsedIsHeld
<1>1. MemoryInv /\ CountInv => UsedIsHeld
  BY DEF CountInv
<1> QED
  BY <1>1, CountInit, CountNext, PTL DEF Spec
=============================================================================
