-------------------------- MODULE FastStackProofs --------------------------
(* Proofs about faststack.c for any number of levels and any data. *)
EXTENDS FastStack, TLAPS, FiniteSetTheorems

(* What is left of a sequence without its last element. *)
LEMMA FrontProperties ==
  ASSUME NEW S, NEW s \in Seq(S), Len(s) # 0
  PROVE  LET f == SubSeq(s, 1, Len(s) - 1)
         IN  /\ f \in Seq(S) /\ Len(f) = Len(s) - 1
             /\ \A i \in 1..(Len(s) - 1) : f[i] = s[i]
<1>1. PICK n \in Nat : n = Len(s) - 1
  OBVIOUS
<1>2. SubSeq(s, 1, n) \in Seq(S) /\ Len(SubSeq(s, 1, n)) = n
  BY <1>1
<1>3. \A i \in 1..n : SubSeq(s, 1, n)[i] = s[i]
  BY <1>1
<1> QED
  BY <1>1, <1>2, <1>3

LEMMA InitIInv == Init => IInv
<1> SUFFICES ASSUME Init PROVE IInv
  OBVIOUS
<1>1. TypeOK
  BY DEF Init, TypeOK, Ptr
<1>2. ChainLinked
  BY DEF Init, ChainLinked
<1>3. EndsPlaced
  BY DEF Init, EndsPlaced
<1>4. Counted
  BY FS_EmptySet DEF Init, Counted
<1> QED
  BY <1>1, <1>2, <1>3, <1>4 DEF IInv

LEMMA TypeStep == ASSUME IInv, [Next]_vars PROVE TypeOK'
<1> USE DEF IInv, TypeOK, Ptr
<1>1. CASE MakeStack
  BY <1>1 DEF MakeStack, levels, ghosts
<1>2. ASSUME NEW d \in Data, PushReused(d) PROVE TypeOK'
  BY <1>2 DEF PushReused, NextLevel, Raised
<1>3. ASSUME NEW d \in Data, PushNew(d) PROVE TypeOK'
  BY <1>3 DEF PushNew, NextLevel, Raised
<1>4. CASE PushFails
  BY <1>4 DEF PushFails, ghosts
<1>5. CASE Pop
  BY <1>5 DEF Pop, levels, ghosts
<1>6. CASE BadStack
  BY <1>6 DEF BadStack, levels, ghosts
<1>7. CASE DestroyStart
  BY <1>7 DEF DestroyStart, Gone, levels
<1>8. CASE DestroyUp
  BY <1>8 DEF DestroyUp, levels, ghosts, EndsPlaced
<1>9. CASE DestroyDown
  BY <1>9 DEF DestroyDown, Gone, EndsPlaced
<1>10. CASE UNCHANGED vars
  BY <1>10 DEF vars, levels, ghosts
<1> QED
  BY <1>1, <1>2, <1>3, <1>4, <1>5, <1>6, <1>7, <1>8, <1>9, <1>10 DEF Next

(* The chain of levels stays linked, and the ends of the stack in place.   *)
LEMMA ChainStep == ASSUME IInv, [Next]_vars, TypeOK' PROVE (ChainLinked /\ EndsPlaced)'
<1> USE DEF IInv, ChainLinked, EndsPlaced
<1>0. \A i \in 1..Len(chain) : chain[i] \in Lvl /\ chain[i] # NULL
  BY NullAssumption DEF TypeOK
<1>1. CASE MakeStack
  BY <1>1 DEF MakeStack, levels, ghosts, TypeOK
<1>2. ASSUME NEW d \in Data, PushReused(d) PROVE (ChainLinked /\ EndsPlaced)'
  <2>1. height < Len(chain) /\ NextLevel = chain[height + 1]
    BY <1>2, NullAssumption DEF PushReused, NextLevel, TypeOK, Ptr
  <2>2. height + 1 \in 1..Len(chain) /\ peak' = peak
    BY <2>1, <1>2 DEF PushReused, Raised, TypeOK
  <2> QED
    BY <1>2, <2>1, <2>2 DEF PushReused, TypeOK
<1>3. ASSUME NEW d \in Data, PushNew(d) PROVE (ChainLinked /\ EndsPlaced)'
  <2>1. height = Len(chain)
    BY <1>3, NullAssumption DEF PushNew, NextLevel, TypeOK, Ptr
  <2>2. PICK l \in Lvl \ alloc :
          /\ alloc' = alloc \cup {l}
          /\ above' = [x \in Lvl |-> IF x = l THEN NULL
                                     ELSE IF x = top THEN l ELSE above[x]]
          /\ below' = [below EXCEPT ![l] = top]
          /\ top' = l
          /\ bottom' = IF top # NULL THEN bottom ELSE l
          /\ chain' = Append(chain, l)
    BY <1>3 DEF PushNew
  <2>3. /\ chain \in Seq(Lvl) /\ Len(chain') = Len(chain) + 1
        /\ \A i \in 1..Len(chain) : chain'[i] = chain[i] /\ chain[i] \in alloc
        /\ chain'[Len(chain) + 1] = l
    BY <2>2 DEF TypeOK
  <2>4. phase = "ready" /\ phase' = "ready" /\ height' = height + 1
    BY <1>3 DEF PushNew
  <2>5. peak' = Len(chain')
    BY <1>3, <2>1, <2>3 DEF PushNew, Raised, TypeOK
  <2>6. alloc' = {chain'[i] : i \in 1..Len(chain')}
    BY <2>2, <2>3 DEF TypeOK
  <2>7. \A i, j \in 1..Len(chain') : chain'[i] = chain'[j] => i = j
    BY <2>2, <2>3 DEF TypeOK
  <2>8. \A i \in 1..Len(chain') :
          below'[chain'[i]] = IF i = 1 THEN NULL ELSE chain'[i - 1]
    BY <2>1, <2>2, <2>3, <2>4 DEF TypeOK
  <2>9. \A i \in 1..(Len(chain') - 1) : above'[chain'[i]] = chain'[i + 1]
    BY <2>1, <2>2, <2>3, <2>4, NullAssumption DEF TypeOK
  <2>10. above'[chain'[Len(chain')]] = NULL
    BY <2>2, <2>3 DEF TypeOK
  <2>11. bottom' = chain'[1] /\ top' = chain'[height'] /\ height' # 0 /\ chain' # << >>
    BY <2>1, <2>2, <2>3, <2>4, NullAssumption DEF TypeOK
  <2> QED
    BY <2>1, <2>3, <2>4, <2>5, <2>6, <2>7, <2>8, <2>9, <2>10, <2>11 DEF TypeOK
<1>4. CASE PushFails
  <2>1. above' = above
    <3>1. \A x \in Lvl : (IF x = top THEN NULL ELSE above[x]) = above[x]
      BY <1>4, NullAssumption DEF PushFails, NextLevel, TypeOK, Ptr
    <3>2. above = [x \in Lvl |-> above[x]]
      BY DEF TypeOK
    <3> QED
      BY <1>4, <3>1, <3>2 DEF PushFails
  <2> QED
    BY <1>4, <2>1 DEF PushFails, ghosts, TypeOK
<1>5. CASE Pop
  BY <1>5, NullAssumption DEF Pop, levels, ghosts, TypeOK, Ptr
<1>6. CASE BadStack
  BY <1>6 DEF BadStack, levels, ghosts, TypeOK
<1>7. CASE DestroyStart
  <2>1. bottom = NULL => chain = << >>
    BY NullAssumption DEF TypeOK
  <2> QED
    BY <1>7, <2>1 DEF DestroyStart, Gone, levels, TypeOK
<1>8. CASE DestroyUp
  <2>1. PICK k \in 1..Len(chain) : sl = chain[k]
    BY <1>8 DEF DestroyUp
  <2>2. CASE above[sl] # NULL
    <3>1. k # Len(chain)
      BY <1>8, <2>1, <2>2 DEF DestroyUp, TypeOK
    <3>2. k + 1 \in 1..Len(chain) /\ sl' = chain[k + 1]
      BY <1>8, <2>1, <2>2, <3>1 DEF DestroyUp, TypeOK
    <3> QED
      BY <1>8, <2>2, <3>2 DEF DestroyUp, levels, ghosts, TypeOK
  <2>3. CASE above[sl] = NULL
    <3>1. k = Len(chain)
      <4>1. k < Len(chain) => above[sl] = chain[k + 1] /\ k + 1 \in 1..Len(chain)
        BY <2>1 DEF TypeOK
      <4> QED
        BY <1>0, <2>1, <2>3, <4>1 DEF TypeOK
    <3> QED
      BY <1>8, <2>1, <2>3, <3>1 DEF DestroyUp, levels, ghosts, TypeOK
  <2> QED
    BY <2>2, <2>3
<1>9. CASE DestroyDown
  <2>0. PICK n \in Nat : n = Len(chain)
    BY DEF TypeOK
  <2>1. /\ n # 0 /\ sl = chain[n] /\ phase = "down"
        /\ chain' = SubSeq(chain, 1, Len(chain) - 1)
    BY <1>9, <2>0 DEF DestroyDown, TypeOK
  <2>2. Len(chain') = n - 1 /\ \A i \in 1..(n - 1) : chain'[i] = chain[i]
    BY <2>0, <2>1, FrontProperties DEF TypeOK
  <2>3. CASE below[sl] # NULL
    <3>1. n > 1 /\ below[sl] = chain[n - 1] /\ above[below[sl]] = chain[n]
      BY <2>0, <2>1, <2>3 DEF TypeOK
    <3>2. alloc' = alloc \ {chain[n]} /\ sl' = chain[n - 1]
      BY <1>9, <2>3, <3>1 DEF DestroyDown
    <3>3. alloc' = {chain'[i] : i \in 1..Len(chain')}
      <4>1. alloc' = {chain[i] : i \in 1..(n - 1)}
        BY <2>0, <2>1, <3>2
      <4>2. {chain[i] : i \in 1..(n - 1)} = {chain'[i] : i \in 1..(n - 1)}
        BY <2>2
      <4> QED
        BY <2>2, <4>1, <4>2
    <3>4. sl' = chain'[Len(chain')] /\ chain' # << >> /\ bottom' = chain'[1]
      <4>1. n - 1 \in 1..(n - 1) /\ 1 \in 1..(n - 1) /\ Len(chain') # 0
        BY <2>0, <2>2, <3>1
      <4>2. chain' # << >> /\ chain # << >>
        BY <2>0, <2>1, <4>1
      <4>3. bottom' = bottom
        BY <1>9, <2>3 DEF DestroyDown
      <4> QED
        BY <2>2, <3>2, <4>1, <4>2, <4>3
    <3>5. phase' = "down" /\ above' = above /\ below' = below
      BY <1>9, <2>3, <2>1 DEF DestroyDown
    <3> QED
      BY <2>0, <2>1, <2>2, <3>1, <3>3, <3>4, <3>5 DEF TypeOK
  <2>4. CASE below[sl] = NULL
    <3>1. n = 1
      <4>1. n # 1 => below[sl] = chain[n - 1] /\ n - 1 \in 1..n
        BY <2>0, <2>1 DEF TypeOK
      <4> QED
        BY <1>0, <2>0, <2>4, <4>1
    <3>2. chain' = << >> /\ alloc' = {} /\ alloc = {sl}
      BY <1>9, <2>0, <2>1, <2>2, <2>4, <3>1 DEF DestroyDown, TypeOK
    <3>3. phase' = "none" /\ top' = NULL /\ bottom' = NULL /\ height' = 0 /\ peak' = 0
      BY <1>9, <2>4 DEF DestroyDown, Gone
    <3>4. Len(chain') = 0 /\ 1..Len(chain') = {} /\ 1..(Len(chain') - 1) = {}
      BY <3>2
    <3> QED
      BY <3>2, <3>3, <3>4
  <2> QED
    BY <2>3, <2>4
<1>10. CASE UNCHANGED vars
  BY <1>10 DEF vars, levels, ghosts, TypeOK
<1> QED
  BY <1>1, <1>2, <1>3, <1>4, <1>5, <1>6, <1>7, <1>8, <1>9, <1>10 DEF Next

(* On its way down destroy_stack holds the last level of the chain. *)
LEMMA DownLast ==
  ASSUME IInv, phase = "down"
  PROVE  sl \in alloc /\ (below[sl] # NULL => above[below[sl]] = sl)
<1>1. PICK n \in Nat : n = Len(chain) /\ n # 0 /\ sl = chain[n]
  BY DEF IInv, TypeOK, EndsPlaced
<1>2. n \in 1..Len(chain)
  BY <1>1
<1>3. sl \in alloc
  BY <1>1, <1>2 DEF IInv, ChainLinked
<1>4. ASSUME below[sl] # NULL PROVE above[below[sl]] = sl
  <2>1. n # 1 /\ below[sl] = chain[n - 1]
    BY <1>1, <1>2, <1>4 DEF IInv, ChainLinked
  <2>2. n - 1 \in 1..(Len(chain) - 1) /\ n - 1 + 1 = n
    BY <1>1, <2>1
  <2> QED
    BY <1>1, <2>1, <2>2 DEF IInv, ChainLinked
<1> QED
  BY <1>3, <1>4

(* The levels that are allocated are counted by the chain. *)
LEMMA CountStep == ASSUME IInv, [Next]_vars PROVE Counted'
<1> USE DEF IInv, Counted
<1>1. CASE MakeStack \/ PushFails \/ Pop \/ BadStack \/ DestroyStart \/ DestroyUp
  BY <1>1 DEF MakeStack, PushFails, Pop, BadStack, DestroyStart, DestroyUp, levels, ghosts
<1>2. ASSUME NEW d \in Data, PushReused(d) PROVE Counted'
  BY <1>2 DEF PushReused
<1>3. ASSUME NEW d \in Data, PushNew(d) PROVE Counted'
  <2>1. PICK l \in Lvl \ alloc : alloc' = alloc \cup {l} /\ chain' = Append(chain, l)
    BY <1>3 DEF PushNew
  <2>2. IsFiniteSet(alloc') /\ Cardinality(alloc') = Cardinality(alloc) + 1
    BY <2>1, FS_AddElement
  <2>3. Len(chain') = Len(chain) + 1
    BY <2>1 DEF TypeOK
  <2> QED
    BY <2>2, <2>3
<1>4. CASE DestroyDown
  <2>1. PICK l \in alloc : alloc' = alloc \ {l}
    BY <1>4, DownLast DEF DestroyDown
  <2>2. IsFiniteSet(alloc') /\ Cardinality(alloc') = Cardinality(alloc) - 1
    BY <2>1, FS_RemoveElement
  <2>3. Len(chain') = Len(chain) - 1
    BY <1>4, FrontProperties DEF DestroyDown, TypeOK, EndsPlaced
  <2> QED
    BY <2>2, <2>3
<1>5. CASE UNCHANGED vars
  BY <1>5 DEF vars, levels, ghosts
<1> QED
  BY <1>1, <1>2, <1>3, <1>4, <1>5 DEF Next

(* The invariant holds in every reachable state of faststack.c: the levels  *)
(* form one doubly linked chain, reused from the bottom up.                 *)
THEOREM FastStackInvariant == Spec => []IInv
<1>1. IInv /\ [Next]_vars => IInv'
  BY TypeStep, ChainStep, CountStep DEF IInv
<1> QED
  BY InitIInv, <1>1, PTL DEF Spec

(* Pointers and counts keep their types. *)
THEOREM FastStackTypeOK == Spec => []TypeOK
<1>1. IInv => TypeOK
  BY DEF IInv
<1> QED
  BY FastStackInvariant, <1>1, PTL

(* top = NULL and height = 0 agree whenever push, pop or empty_stack runs.  *)
THEOREM FastStackEmptiness == Spec => []EmptinessAgrees
<1>1. IInv => EmptinessAgrees
  BY NullAssumption DEF IInv, EmptinessAgrees, EndsPlaced, TypeOK
<1> QED
  BY FastStackInvariant, <1>1, PTL

(* No level is lost: push allocates only beyond the greatest height so far, *)
(* and destroy_stack frees every level.                                     *)
THEOREM FastStackRecycles == Spec => []LevelsRecycled
<1>1. IInv => LevelsRecycled
  <2> SUFFICES ASSUME IInv PROVE LevelsRecycled
    OBVIOUS
  <2>1. phase = "ready" => Cardinality(alloc) = peak
    BY DEF IInv, Counted, EndsPlaced
  <2>2. chain = << >> => alloc = {}
    BY DEF IInv, ChainLinked
  <2>3. phase = "none" => chain = << >>
    BY DEF IInv, EndsPlaced
  <2> QED
    BY <2>1, <2>2, <2>3 DEF LevelsRecycled
<1> QED
  BY FastStackInvariant, <1>1, PTL

(* No operation follows a pointer to a freed level. *)
THEOREM FastStackNoDangling == Spec => []NoDangling
<1>1. IInv => NoDangling
  <2> SUFFICES ASSUME IInv PROVE NoDangling
    OBVIOUS
  <2>1. PICK n \in Nat : n = Len(chain)
    BY DEF IInv, TypeOK
  <2>2. \A i \in 1..n : chain[i] \in alloc
    BY <2>1 DEF IInv, ChainLinked
  <2>3. chain # << >> => 1 \in 1..n /\ n \in 1..n
    BY <2>1 DEF IInv, TypeOK
  <2>4. \A l \in alloc : \E i \in 1..n : l = chain[i]
    BY <2>1 DEF IInv, ChainLinked
  <2>5. \A i \in 1..n : below[chain[i]] \in alloc \cup {NULL}
    BY <2>1, <2>2 DEF IInv, ChainLinked
  <2>6. \A i \in 1..n : phase # "down" => above[chain[i]] \in alloc \cup {NULL}
    BY <2>1, <2>2, <2>3 DEF IInv, ChainLinked
  <2>7. bottom \in alloc \cup {NULL}
    BY <2>2, <2>3 DEF IInv, EndsPlaced
  <2>8. phase = "ready" => top \in alloc \cup {NULL}
    BY <2>1, <2>2 DEF IInv, EndsPlaced, TypeOK
  <2>9. phase \in {"up", "down"} => sl \in alloc
    BY <2>1, <2>2, <2>3 DEF IInv, EndsPlaced
  <2> QED
    BY <2>4, <2>5, <2>6, <2>7, <2>8, <2>9 DEF NoDangling
<1> QED
  BY FastStackInvariant, <1>1, PTL

-----------------------------------------------------------------------------
(* Refinement: the data of the levels up to the top are a stack. *)
LEMMA SeqEqual ==
  ASSUME NEW S, NEW s \in Seq(S), NEW r \in Seq(S), Len(s) = Len(r),
         \A i \in 1..Len(s) : s[i] = r[i]
  PROVE  s = r
  OBVIOUS

LEMMA AppendEqual ==
  ASSUME NEW S, NEW s \in Seq(S), NEW r \in Seq(S), NEW d \in S,
         Len(r) = Len(s) + 1, \A i \in 1..Len(s) : r[i] = s[i], r[Len(s) + 1] = d
  PROVE  r = Append(s, d)
<1>1. Append(s, d) \in Seq(S) /\ Len(Append(s, d)) = Len(s) + 1
  OBVIOUS
<1>2. \A i \in 1..Len(r) : r[i] = Append(s, d)[i]
  OBVIOUS
<1> QED
  BY <1>1, <1>2, SeqEqual

(* What Contents is, in terms of the levels. *)
ContentsOK ==
  /\ Contents \in Seq(Data \cup {NULL})
  /\ phase = "ready" => Len(Contents) = height
  /\ phase = "ready" => \A i \in 1..height : Contents[i] = data[chain[i]]
  /\ phase # "ready" \/ height = 0 => Contents = << >>

LEMMA ContentsSeq == IInv => ContentsOK
<1> SUFFICES ASSUME IInv PROVE ContentsOK
  OBVIOUS
<1>1. PICK h \in Nat : h = IF phase = "ready" THEN height ELSE 0
  BY DEF IInv, TypeOK
<1>2. h <= Len(chain)
  BY <1>1 DEF IInv, EndsPlaced, TypeOK
<1>3. \A i \in 1..h : /\ i \in 1..Len(chain) /\ chain[i] \in Lvl
                      /\ data[chain[i]] \in Data \cup {NULL}
  BY <1>1, <1>2 DEF IInv, TypeOK
<1>4. Contents = [i \in 1..h |-> data[chain[i]]]
  BY <1>1 DEF Contents
<1>5. Contents \in Seq(Data \cup {NULL}) /\ Len(Contents) = h
  BY <1>3, <1>4
<1>6. h = 0 => Contents = << >>
  BY <1>5
<1> QED
  BY <1>1, <1>3, <1>4, <1>5, <1>6 DEF ContentsOK

LEMMA ContentsSeqPrime == IInv' => ContentsOK'
  BY ContentsSeq, PTL

LEMMA RefineStep ==
  ASSUME IInv, IInv', [Next]_vars
  PROVE  [Abs!AbsNext]_<<phase = "ready", Contents, ret>>
<1>0. ContentsOK /\ ContentsOK'
  BY ContentsSeq, ContentsSeqPrime
<1> DEFINE Goal == [Abs!AbsNext]_<<phase = "ready", Contents, ret>>
<1>1. CASE MakeStack
  <2>1. height = 0 /\ height' = 0
    BY <1>1 DEF MakeStack, IInv, EndsPlaced
  <2>2. CASE phase' = "ready"
    BY <1>0, <1>1, <2>1, <2>2 DEF MakeStack, Abs!AbsNext, Abs!AbsMake, ContentsOK
  <2>3. CASE phase' = phase
    BY <1>0, <1>1, <2>1, <2>3 DEF MakeStack, Abs!AbsNext, Abs!AbsNothing, ContentsOK
  <2> QED
    BY <1>1, <2>2, <2>3 DEF MakeStack
<1>2. ASSUME NEW d \in Data,
             phase = "ready", phase' = "ready", height' = height + 1, ret' = NULL,
             height \in Nat, data'[chain'[height + 1]] = d,
             \A i \in 1..height : data'[chain'[i]] = data[chain[i]]
      PROVE  Goal
  <2>1. Contents' = Append(Contents, d)
    <3>1. /\ Contents \in Seq(Data \cup {NULL}) /\ Contents' \in Seq(Data \cup {NULL})
          /\ Len(Contents) = height /\ Len(Contents') = height + 1
      BY <1>0, <1>2 DEF ContentsOK
    <3>2. \A i \in 1..height : Contents'[i] = Contents[i]
      BY <1>0, <1>2 DEF ContentsOK
    <3>3. Contents'[height + 1] = d
      BY <1>0, <1>2 DEF ContentsOK
    <3> QED
      BY <3>1, <3>2, <3>3, AppendEqual
  <2> QED
    BY <1>2, <2>1 DEF Abs!AbsNext, Abs!AbsPush
<1>3. ASSUME NEW d \in Data, PushReused(d) PROVE Goal
  <2>1. height < Len(chain) /\ NextLevel = chain[height + 1] /\ phase = "ready"
    BY <1>3, NullAssumption DEF PushReused, NextLevel, IInv, EndsPlaced, ChainLinked, TypeOK, Ptr
  <2>2. height \in Nat /\ height + 1 \in 1..Len(chain)
    BY <2>1 DEF IInv, TypeOK
  <2>3. \A i \in 1..height : i \in 1..Len(chain) /\ chain[i] # chain[height + 1]
    BY <2>1, <2>2 DEF IInv, ChainLinked
  <2>4. \A i \in 1..Len(chain) : chain[i] \in Lvl
    BY DEF IInv, TypeOK
  <2>5. data' = [data EXCEPT ![chain[height + 1]] = d] /\ chain' = chain /\ data \in [Lvl -> Data \cup {NULL}]
    BY <1>3, <2>1 DEF PushReused, IInv, TypeOK
  <2>6. data'[chain'[height + 1]] = d /\ \A i \in 1..height : data'[chain'[i]] = data[chain[i]]
    BY <2>2, <2>3, <2>4, <2>5
  <2> QED
    BY <1>2, <1>3, <2>2, <2>6 DEF PushReused
<1>4. ASSUME NEW d \in Data, PushNew(d) PROVE Goal
  <2>1. height = Len(chain) /\ phase = "ready" /\ height \in Nat
    BY <1>4, NullAssumption DEF PushNew, NextLevel, IInv, EndsPlaced, ChainLinked, TypeOK, Ptr
  <2>2. PICK l \in Lvl \ alloc : chain' = Append(chain, l) /\ data' = [data EXCEPT ![l] = d]
    BY <1>4 DEF PushNew
  <2>3. \A i \in 1..height : chain'[i] = chain[i] /\ chain[i] \in alloc /\ chain[i] \in Lvl
    BY <2>1, <2>2 DEF IInv, TypeOK, ChainLinked
  <2>4. chain'[height + 1] = l
    BY <2>1, <2>2 DEF IInv, TypeOK
  <2>5. data'[chain'[height + 1]] = d /\ \A i \in 1..height : data'[chain'[i]] = data[chain[i]]
    BY <2>2, <2>3, <2>4 DEF IInv, TypeOK
  <2> QED
    BY <1>2, <1>4, <2>1, <2>5 DEF PushNew
<1>5. CASE PushFails
  BY <1>5 DEF PushFails, ghosts, Contents, Abs!AbsNext, Abs!AbsNothing
<1>6. CASE Pop
  <2>1. phase = "ready" /\ phase' = "ready" /\ height \in Nat /\ data' = data /\ chain' = chain
    BY <1>6 DEF Pop, levels, ghosts, IInv, TypeOK
  <2>2. CASE height = 0
    <3>1. top = NULL /\ UNCHANGED <<phase, height>> /\ ret' = NULL
      BY <1>6, <2>2 DEF Pop, IInv, EndsPlaced
    <3> QED
      BY <2>1, <3>1 DEF Contents, Abs!AbsNext, Abs!AbsNothing
  <2>3. CASE height # 0
    <3>1. top # NULL /\ top = chain[height] /\ height' = height - 1 /\ ret' = data[top]
      BY <1>6, <2>1, <2>3, NullAssumption DEF Pop, IInv, EndsPlaced, TypeOK
    <3>2. /\ Contents \in Seq(Data \cup {NULL}) /\ Contents' \in Seq(Data \cup {NULL})
          /\ Len(Contents) = height /\ Len(Contents') = height - 1
          /\ Contents # << >> /\ Contents[height] = ret'
      BY <1>0, <2>1, <2>3, <3>1 DEF ContentsOK
    <3>3. \A i \in 1..(height - 1) : Contents'[i] = Contents[i]
      BY <1>0, <2>1, <3>1 DEF ContentsOK
    <3>4. Contents' = SubSeq(Contents, 1, Len(Contents) - 1)
      <4>1. LET f == SubSeq(Contents, 1, Len(Contents) - 1)
            IN  /\ f \in Seq(Data \cup {NULL}) /\ Len(f) = height - 1
                /\ \A i \in 1..(height - 1) : f[i] = Contents[i]
        BY <2>3, <3>2, FrontProperties
      <4> QED
        BY <3>2, <3>3, <4>1, SeqEqual
    <3> QED
      BY <2>1, <3>2, <3>4 DEF Abs!AbsNext, Abs!AbsPop
  <2> QED
    BY <2>2, <2>3
<1>7. CASE BadStack
  BY <1>7 DEF BadStack, levels, ghosts, Contents, Abs!AbsNext, Abs!AbsNothing
<1>8. CASE DestroyStart
  <2>1. phase = "ready" /\ phase' # "ready" /\ ret' = NULL
    BY <1>8 DEF DestroyStart, Gone
  <2> QED
    BY <1>0, <2>1 DEF ContentsOK, Abs!AbsNext, Abs!AbsDestroy
<1>9. CASE DestroyUp \/ DestroyDown
  <2>1. phase # "ready" /\ phase' # "ready" /\ ret' = ret
    BY <1>9 DEF DestroyUp, DestroyDown, Gone
  <2> QED
    BY <1>0, <2>1 DEF ContentsOK
<1>10. CASE UNCHANGED vars
  BY <1>10 DEF vars, levels, ghosts, Contents
<1> QED
  BY <1>1, <1>3, <1>4, <1>5, <1>6, <1>7, <1>8, <1>9, <1>10 DEF Next

(* faststack.c implements the abstract stack: pop returns what was pushed   *)
(* last, a failed push changes nothing, for any number of levels reused.    *)
THEOREM FastStackImplements == Spec => ImplementsStack
<1>1. Init => Abs!AbsInit
  BY InitIInv, ContentsSeq DEF Init, Abs!AbsInit, ContentsOK
<1>2. IInv /\ IInv' /\ [Next]_vars => [Abs!AbsNext]_<<phase = "ready", Contents, ret>>
  BY RefineStep
<1> QED
  BY <1>1, <1>2, FastStackInvariant, PTL DEF Spec, ImplementsStack, Abs!AbsSpec
=============================================================================
