--------------------------- MODULE MemPoolProofs ---------------------------
(***************************************************************************)
(* Proofs about MemPool for any threads, sizes and number of blocks: the   *)
(* two lists share out the blocks, no block has two owners, the pool is a  *)
(* memory for its objects, and it never outgrows its peak use.             *)
(***************************************************************************)
EXTENDS MemPool, SequenceTheorems, FiniteSetTheorems, TLAPS

\* Whoever has the address of a block has a block of the busy list.
OwnedIsBusy == \A t \in Threads : Owned(t) \subseteq m_listBusyMem

\* The block given to operator delete is no longer an object of the thread.
DeletedIsNotHeld ==
    \A t \in Threads : call[t].op = "delete" => call[t].p \notin held[t]

\* More blocks in use were never counted.
Peak == Cardinality(m_listBusyMem) <= peak

IInv == /\ TypeOK /\ ListsPartition /\ OneOwner /\ OwnedIsBusy
        /\ DeletedIsNotHeld /\ Peak /\ PoolBoundedByPeak

-----------------------------------------------------------------------------
(* Taking the first element from a list that holds every element once.     *)

Injective(s) == \A i, j \in DOMAIN s : s[i] = s[j] => i = j

LEMMA TailOnce ==
    ASSUME NEW S, NEW s \in Seq(S), s # <<>>, Injective(s)
    PROVE  /\ Head(s) \in S /\ Tail(s) \in Seq(S) /\ Injective(Tail(s))
           /\ Head(s) \in {s[i] : i \in DOMAIN s}
           /\ {Tail(s)[i] : i \in DOMAIN Tail(s)} = {s[i] : i \in DOMAIN s} \ {Head(s)}
<1> DEFINE r == Tail(s)
<1>1. /\ Head(s) = s[1] /\ r \in Seq(S) /\ Len(r) = Len(s) - 1
      /\ \A i \in 1..Len(r) : r[i] = s[i + 1]
  BY HeadTailProperties
<1>2. Len(s) \in Nat \ {0} /\ DOMAIN s = 1..Len(s) /\ DOMAIN r = 1..(Len(s) - 1)
  BY <1>1, EmptySeq
<1> HIDE DEF r
<1>3. s[1] \in S /\ s[1] \in {s[i] : i \in DOMAIN s}
  BY <1>2
<1>4. Injective(r)
  BY <1>1, <1>2 DEF Injective
<1>5. ASSUME NEW i \in DOMAIN r PROVE r[i] \in {s[j] : j \in DOMAIN s} \ {s[1]}
  BY <1>1, <1>2 DEF Injective
<1>6. ASSUME NEW j \in DOMAIN s, s[j] # s[1] PROVE s[j] \in {r[i] : i \in DOMAIN r}
  <2>1. j - 1 \in DOMAIN r /\ r[j - 1] = s[j]
    BY <1>1, <1>2, <1>6
  <2> QED BY <2>1
<1> QED BY <1>1, <1>3, <1>4, <1>5, <1>6 DEF r

LEMMA AppendOnce ==
    ASSUME NEW S, NEW s \in Seq(S), NEW e \in S, Injective(s),
           e \notin {s[i] : i \in DOMAIN s}
    PROVE  /\ Injective(Append(s, e))
           /\ {Append(s, e)[i] : i \in DOMAIN Append(s, e)}
              = {s[i] : i \in DOMAIN s} \cup {e}
<1> DEFINE r == Append(s, e)
<1>1. /\ r \in Seq(S) /\ Len(r) = Len(s) + 1
      /\ \A i \in 1..Len(s) : r[i] = s[i]
      /\ r[Len(s) + 1] = e
  BY AppendProperties
<1>2. Len(s) \in Nat /\ DOMAIN s = 1..Len(s) /\ DOMAIN r = 1..(Len(s) + 1)
  BY <1>1
<1> HIDE DEF r
<1>3. Injective(r)
  BY <1>1, <1>2 DEF Injective
<1>4. {r[i] : i \in DOMAIN r} = {s[i] : i \in DOMAIN s} \cup {e}
  <2>1. ASSUME NEW i \in DOMAIN r PROVE r[i] \in {s[j] : j \in DOMAIN s} \cup {e}
    BY <1>1, <1>2
  <2>2. ASSUME NEW j \in DOMAIN s PROVE s[j] \in {r[i] : i \in DOMAIN r}
    BY <1>1, <1>2
  <2>3. e \in {r[i] : i \in DOMAIN r}
    BY <1>1, <1>2
  <2> QED BY <2>1, <2>2, <2>3
<1> QED BY <1>3, <1>4 DEF r

-----------------------------------------------------------------------------
(* The initial state.                                                      *)

LEMMA InitInv == Init => IInv
<1> SUFFICES ASSUME Init PROVE IInv
  OBVIOUS
<1>1. nInitMaxCount \in Nat /\ MaxMems \in Nat /\ 1..nInitMaxCount \subseteq Mems
  BY PoolAssumption DEF Mems
<1>2. m_listFreeMem \in Seq(Mems) /\ DOMAIN m_listFreeMem = 1..nInitMaxCount
  BY <1>1 DEF Init
<1>3. FreeSet = 1..nInitMaxCount
  BY <1>2 DEF Init, FreeSet
<1>4. \A t \in Threads : Owned(t) = {}
  BY DEF Init, Owned, Idle
<1>5. TypeOK
  <2>1. call \in [Threads -> Calls]
    BY DEF Init, Calls, Idle
  <2> QED BY <1>1, <1>2, <2>1, PoolAssumption DEF Init, TypeOK
<1>6. ListsPartition
  BY <1>2, <1>3, <1>1 DEF Init, ListsPartition, Made
<1>7. OneOwner /\ OwnedIsBusy
  BY <1>4 DEF OneOwner, OwnedIsBusy
<1>8. DeletedIsNotHeld
  BY DEF Init, DeletedIsNotHeld, Idle
<1>9. Peak /\ PoolBoundedByPeak
  <2>1. Cardinality({}) = 0 /\ Cardinality(1..nInitMaxCount) = nInitMaxCount
    BY <1>1, FS_EmptySet, FS_Interval
  <2>2. m_vecMemBuf \ lost = 1..nInitMaxCount
    BY DEF Init
  <2> QED BY <2>1, <2>2, <1>1 DEF Init, Peak, PoolBoundedByPeak, Larger
<1> QED BY <1>5, <1>6, <1>7, <1>8, <1>9 DEF IInv

-----------------------------------------------------------------------------
(* Steps.                                                                  *)

LEMMA CountMems == ASSUME NEW A \in SUBSET Mems
                   PROVE  IsFiniteSet(A) /\ Cardinality(A) \in Nat
<1>1. IsFiniteSet(Mems)
  BY PoolAssumption, FS_Interval DEF Mems
<1> QED BY <1>1, FS_Subset, FS_CardinalityType

LEMMA CallShapes ==
    ASSUME TypeOK, NEW t \in Threads
    PROVE  /\ call[t].op = "new" => call[t].nsize \in Sizes /\ call[t].nsize \in Nat
           /\ call[t].op = "delete" => call[t].p \in Mems
<1>1. call[t] \in Calls
  BY DEF TypeOK
<1>2. CASE call[t] = Idle
  BY <1>2 DEF Idle
<1>3. CASE call[t] \in [op : {"new"}, nsize : Sizes]
  BY <1>3, PoolAssumption
<1>4. CASE call[t] \in [op : {"delete"}, p : Mems]
  BY <1>4
<1> QED BY <1>1, <1>2, <1>3, <1>4 DEF Calls

LEMMA CallNewInv ==
    ASSUME IInv, NEW t \in Threads, NEW n \in Sizes, CallNew(t, n)
    PROVE  IInv'
<1> USE DEF CallNew, lists, history, IInv
<1>1. call' = [call EXCEPT ![t] = [op |-> "new", nsize |-> n]] /\ call[t] = Idle
  OBVIOUS
<1>2. TypeOK'
  <2>1. [op |-> "new", nsize |-> n] \in Calls
    BY DEF Calls
  <2> QED BY <1>1, <2>1 DEF TypeOK
<1>3. \A u \in Threads : Owned(u)' = Owned(u)
  BY <1>1 DEF Owned, TypeOK, Idle
<1>4. FreeSet' = FreeSet /\ Made' = Made
  BY DEF FreeSet, Made
<1>5. OneOwner' /\ OwnedIsBusy'
  BY <1>3, <1>4 DEF OneOwner, OwnedIsBusy
<1>6. ListsPartition' /\ Peak' /\ PoolBoundedByPeak'
  BY <1>4 DEF ListsPartition, Peak, PoolBoundedByPeak
<1>7. DeletedIsNotHeld'
  BY <1>1 DEF DeletedIsNotHeld, TypeOK, Idle
<1> QED BY <1>2, <1>5, <1>6, <1>7

LEMMA CallDeleteInv ==
    ASSUME IInv, NEW t \in Threads, NEW m \in Mems, CallDelete(t, m)
    PROVE  IInv'
<1> USE DEF CallDelete, lists, history, IInv
<1>1. /\ call' = [call EXCEPT ![t] = [op |-> "delete", p |-> m]]
      /\ held' = [held EXCEPT ![t] = @ \ {m}]
      /\ call[t] = Idle /\ m \in held[t]
  OBVIOUS
<1>2. TypeOK'
  <2>1. [op |-> "delete", p |-> m] \in Calls
    BY DEF Calls
  <2> QED BY <1>1, <2>1 DEF TypeOK
<1>3. \A u \in Threads : Owned(u)' = Owned(u)
  BY <1>1 DEF Owned, TypeOK, Idle
<1>4. FreeSet' = FreeSet /\ Made' = Made
  BY DEF FreeSet, Made
<1>5. OneOwner' /\ OwnedIsBusy'
  BY <1>3, <1>4 DEF OneOwner, OwnedIsBusy
<1>6. ListsPartition' /\ Peak' /\ PoolBoundedByPeak'
  BY <1>4 DEF ListsPartition, Peak, PoolBoundedByPeak
<1>7. DeletedIsNotHeld'
  BY <1>1 DEF DeletedIsNotHeld, TypeOK, Idle
<1> QED BY <1>2, <1>5, <1>6, <1>7

\* A block that nobody had and that is handed to t has t as its one owner.
LEMMA HandOverOwner ==
    ASSUME TypeOK, OneOwner, OwnedIsBusy, DeletedIsNotHeld, NEW t \in Threads, NEW m \in Mems,
           call[t].op = "new", m \notin m_listBusyMem, HandOver(t, m)
    PROVE  /\ Owned(t)' = Owned(t) \cup {m}
           /\ \A u \in Threads \ {t} : Owned(u)' = Owned(u)
           /\ OwnedIsBusy' /\ DeletedIsNotHeld'
           /\ \A u, v \in Threads : u # v => Owned(u)' \cap Owned(v)' = {}
<1>1. /\ held' = [held EXCEPT ![t] = @ \cup {m}]
      /\ call' = [call EXCEPT ![t] = Idle]
      /\ m_listBusyMem' = m_listBusyMem \cup {m}
  BY DEF HandOver
<1>2. Owned(t)' = Owned(t) \cup {m}
  BY <1>1 DEF Owned, TypeOK, Idle
<1>3. \A u \in Threads \ {t} : Owned(u)' = Owned(u)
  BY <1>1 DEF Owned, TypeOK
<1>4. OwnedIsBusy'
  BY <1>1, <1>2, <1>3 DEF OwnedIsBusy
<1>5. ASSUME NEW u \in Threads, NEW v \in Threads, u # v
      PROVE  Owned(u)' \cap Owned(v)' = {}
  BY <1>2, <1>3, <1>5 DEF OneOwner, OwnedIsBusy
<1>6. DeletedIsNotHeld'
  BY <1>1 DEF DeletedIsNotHeld, OwnedIsBusy, Owned, TypeOK, Idle
<1> QED BY <1>2, <1>3, <1>4, <1>5, <1>6

\* Types and the peak after a block is handed over.
LEMMA HandOverTypes ==
    ASSUME TypeOK, NEW t \in Threads, NEW m \in Mems, HandOver(t, m)
    PROVE  /\ m_listBusyMem' \subseteq Mems /\ m_bFree' \in [Mems -> BOOLEAN]
           /\ lock' = lock /\ call' \in [Threads -> Calls]
           /\ held' \in [Threads -> SUBSET Mems]
           /\ lost' = lost /\ thrown' = thrown /\ overrun' = overrun
           /\ peak' \in Nat /\ peak' >= peak /\ Peak'
<1>1. m_listBusyMem' \subseteq Mems
  BY DEF TypeOK, HandOver
<1>2. Cardinality(m_listBusyMem') \in Nat
  BY <1>1, CountMems
<1>3. peak' \in Nat /\ peak' >= peak /\ Peak'
  BY <1>2 DEF TypeOK, HandOver, Larger, Peak
<1>4. Idle \in Calls
  BY DEF Calls
<1> QED BY <1>1, <1>3, <1>4 DEF TypeOK, HandOver

\* A thread that is thrown out of its call keeps its other objects.
LEMMA ThrowsOwner ==
    ASSUME TypeOK, OneOwner, OwnedIsBusy, DeletedIsNotHeld, NEW t \in Threads, Throws(t)
    PROVE  /\ Owned(t)' = held[t] /\ held[t] \subseteq Owned(t)
           /\ \A u \in Threads \ {t} : Owned(u)' = Owned(u)
           /\ \A u, v \in Threads : u # v => Owned(u)' \cap Owned(v)' = {}
           /\ DeletedIsNotHeld'
           /\ lock' \in Threads \cup {None} /\ call' \in [Threads -> Calls]
           /\ held' \in [Threads -> SUBSET Mems] /\ peak' = peak /\ overrun' = overrun
           /\ thrown' \subseteq Threads /\ thrown' # {}
<1>1. /\ held' = held /\ call' = [call EXCEPT ![t] = Idle] /\ peak' = peak
      /\ lock' = t /\ thrown' = thrown \cup {t} /\ overrun' = overrun
  BY DEF Throws
<1>2. Owned(t)' = held[t] /\ held[t] \subseteq Owned(t)
  BY <1>1 DEF Owned, TypeOK, Idle
<1>3. \A u \in Threads \ {t} : Owned(u)' = Owned(u)
  BY <1>1 DEF Owned, TypeOK
<1>4. ASSUME NEW u \in Threads, NEW v \in Threads, u # v
      PROVE  Owned(u)' \cap Owned(v)' = {}
  BY <1>2, <1>3, <1>4 DEF OneOwner
<1>5. DeletedIsNotHeld'
  BY <1>1 DEF DeletedIsNotHeld, TypeOK, Idle
<1>6. call' \in [Threads -> Calls] /\ thrown' \subseteq Threads /\ thrown' # {}
  BY <1>1 DEF TypeOK, Calls
<1> QED BY <1>1, <1>2, <1>3, <1>4, <1>5, <1>6 DEF TypeOK

\* The block at the front of the free list is free and nobody's.
LEMMA FrontIsFree ==
    ASSUME TypeOK, ListsPartition, m_listFreeMem # <<>>,
           NEW m, m = Head(m_listFreeMem)
    PROVE  /\ m \in Mems /\ m \in FreeSet /\ m \notin m_listBusyMem
           /\ m \in Made /\ m \notin lost
           /\ Tail(m_listFreeMem) \in Seq(Mems) /\ Injective(Tail(m_listFreeMem))
           /\ {Tail(m_listFreeMem)[i] : i \in DOMAIN Tail(m_listFreeMem)} = FreeSet \ {m}
<1>1. m_listFreeMem \in Seq(Mems) /\ Injective(m_listFreeMem)
  BY DEF TypeOK, ListsPartition, Injective
<1>2. /\ m \in Mems /\ m \in FreeSet
      /\ Tail(m_listFreeMem) \in Seq(Mems) /\ Injective(Tail(m_listFreeMem))
      /\ {Tail(m_listFreeMem)[i] : i \in DOMAIN Tail(m_listFreeMem)} = FreeSet \ {m}
  BY <1>1, TailOnce DEF FreeSet
<1> QED BY <1>2 DEF ListsPartition

LEMMA ReuseInv ==
    ASSUME IInv, NEW t \in Threads, Reuse(t)
    PROVE  IInv'
<1> USE DEF IInv
<1> DEFINE m == Head(m_listFreeMem)
<1>1. /\ call[t].op = "new" /\ m_listFreeMem # <<>> /\ m_vecMemBuf' = m_vecMemBuf
      /\ m_listFreeMem' = Tail(m_listFreeMem) /\ HandOver(t, m)
  BY DEF Reuse, Finds
<1>2. /\ m \in Mems /\ m \in FreeSet /\ m \notin m_listBusyMem
      /\ m \in Made /\ m \notin lost
      /\ m_listFreeMem' \in Seq(Mems) /\ Injective(m_listFreeMem')
      /\ FreeSet' = FreeSet \ {m}
  BY <1>1, FrontIsFree DEF FreeSet
<1> HIDE DEF m
<1>3. /\ m_listBusyMem' = m_listBusyMem \cup {m}
      /\ m_bFree' = [m_bFree EXCEPT ![m] = FALSE]
      /\ lost' = lost /\ thrown' = thrown
  BY <1>1 DEF HandOver
<1>4. TypeOK' /\ Peak' /\ peak' >= peak /\ peak' \in Nat
  BY <1>1, <1>2, HandOverTypes DEF TypeOK
<1>5. ListsPartition'
  BY <1>1, <1>2, <1>3 DEF ListsPartition, Injective, Made, TypeOK
<1>6. OneOwner' /\ OwnedIsBusy' /\ DeletedIsNotHeld'
  BY <1>1, <1>2, <1>5, HandOverOwner DEF OneOwner, OwnedIsBusy, ListsPartition
<1>7. PoolBoundedByPeak'
  <2>1. m_vecMemBuf \ lost \in SUBSET Mems /\ m_vecMemBuf' \ lost' = m_vecMemBuf \ lost
    BY <1>1, <1>3 DEF TypeOK
  <2>2. Cardinality(m_vecMemBuf \ lost) \in Nat
    BY <2>1, CountMems
  <2>3. peak \in Nat /\ peak' \in Nat /\ peak' >= peak /\ nInitMaxCount \in Nat
    BY <1>4, PoolAssumption DEF TypeOK
  <2>4. Cardinality(m_vecMemBuf \ lost) <= Larger(nInitMaxCount, peak)
    BY DEF PoolBoundedByPeak
  <2>5. Cardinality(m_vecMemBuf' \ lost') <= Larger(nInitMaxCount, peak')
    BY <2>1, <2>2, <2>3, <2>4 DEF Larger
  <2> QED BY <2>5 DEF PoolBoundedByPeak, Larger
<1> QED BY <1>4, <1>5, <1>6, <1>7

\* A new block is made only when every block is in use, or lost.
LEMMA GrowInv ==
    ASSUME IInv, NEW t \in Threads, Grow(t)
    PROVE  IInv'
<1> USE DEF IInv
<1>1. PICK m \in Mems : /\ Fresh(m) /\ HandOver(t, m)
                        /\ m_vecMemBuf' = m_vecMemBuf \cup {m}
  BY DEF Grow
<1>2. call[t].op = "new" /\ m_listFreeMem' = m_listFreeMem /\ m_listFreeMem = <<>>
  BY DEF Grow, FindsNone, Finds
<1>3. m \notin Made /\ m \notin m_listBusyMem /\ FreeSet = {} /\ FreeSet' = {}
  BY <1>1, <1>2 DEF Fresh, FreeSet, ListsPartition
<1>4. /\ m_listBusyMem' = m_listBusyMem \cup {m}
      /\ m_bFree' = [m_bFree EXCEPT ![m] = FALSE]
      /\ lost' = lost /\ thrown' = thrown
  BY <1>1 DEF HandOver
<1>5. TypeOK' /\ Peak' /\ peak' >= peak /\ peak' \in Nat
  BY <1>1, <1>2, HandOverTypes DEF TypeOK
<1>6. Made' = Made \cup {m} /\ m \notin lost
  BY <1>1, <1>3, <1>4 DEF Made
<1>7. ListsPartition'
  BY <1>2, <1>3, <1>4, <1>6 DEF ListsPartition, TypeOK
<1>8. OneOwner' /\ OwnedIsBusy' /\ DeletedIsNotHeld'
  BY <1>1, <1>2, <1>3, <1>7, HandOverOwner DEF OneOwner, OwnedIsBusy, ListsPartition
<1>9. PoolBoundedByPeak'
  <2>1. m_vecMemBuf' \ lost' \subseteq m_listBusyMem' /\ m_listBusyMem' \in SUBSET Mems
    BY <1>3, <1>5, <1>7 DEF ListsPartition, TypeOK, Made
  <2>2. Cardinality(m_vecMemBuf' \ lost') <= Cardinality(m_listBusyMem')
    BY <2>1, CountMems, FS_Subset
  <2>3. Cardinality(m_vecMemBuf' \ lost') \in Nat /\ Cardinality(m_listBusyMem') \in Nat
    BY <2>1, CountMems
  <2> QED BY <2>2, <2>3, <1>5, PoolAssumption DEF Peak, PoolBoundedByPeak, Larger
<1> QED BY <1>5, <1>7, <1>8, <1>9

\* An exception loses the block it was about, if there is one.
LEMMA NewMemThrowsInv ==
    ASSUME IInv, NEW t \in Threads, NewThrows(t) \/ GrowThrows(t) \/ ReuseThrows(t)
    PROVE  IInv'
<1> USE DEF IInv
<1>1. Throws(t) /\ m_listBusyMem' = m_listBusyMem /\ call[t].op = "new"
  BY DEF NewThrows, GrowThrows, ReuseThrows, lists
<1>2. Owned(t) = held[t]
  BY <1>1 DEF Owned
<1>3. /\ \A u \in Threads : Owned(u)' = Owned(u)
      /\ DeletedIsNotHeld' /\ OwnedIsBusy'
      /\ \A u, v \in Threads : u # v => Owned(u)' \cap Owned(v)' = {}
  BY <1>1, <1>2, ThrowsOwner DEF OwnedIsBusy
<1>4. /\ lost' \subseteq Mems /\ m_vecMemBuf' \subseteq Mems /\ m_listFreeMem' \in Seq(Mems)
      /\ m_bFree' \in [Mems -> BOOLEAN]
      /\ m_vecMemBuf' \ lost' \subseteq m_vecMemBuf \ lost
      /\ ListsPartition'
  <2>1. thrown' # {}
    BY <1>1, ThrowsOwner
  <2>2. CASE NewThrows(t)
    BY <2>1, <2>2 DEF NewThrows, lists, TypeOK, ListsPartition, FreeSet, Made
  <2>3. CASE GrowThrows(t)
    <3>1. PICK m \in Mems : /\ Fresh(m) /\ lost' = lost \cup {m}
                            /\ m_vecMemBuf' \in {m_vecMemBuf, m_vecMemBuf \cup {m}}
      BY <2>3 DEF GrowThrows
    <3>2. Made' = Made \cup {m} /\ m \notin Made /\ Made' \ lost' = Made \ lost
          /\ FreeSet' = FreeSet /\ UNCHANGED lists
      BY <2>3, <3>1 DEF GrowThrows, Made, Fresh, FreeSet, lists
    <3>3. ListsPartition'
      BY <2>1, <3>2 DEF ListsPartition, lists
    <3> QED BY <3>1, <3>2, <3>3 DEF TypeOK, lists
  <2>4. CASE ReuseThrows(t)
    <3> DEFINE m == Head(m_listFreeMem)
    <3>1. /\ m_listFreeMem # <<>> /\ m_listFreeMem' = Tail(m_listFreeMem)
          /\ m_bFree' = [m_bFree EXCEPT ![m] = FALSE] /\ lost' = lost \cup {m}
          /\ m_vecMemBuf' = m_vecMemBuf
      BY <2>4 DEF ReuseThrows, Finds
    <3>2. /\ m \in Mems /\ m \in FreeSet /\ m \notin m_listBusyMem
          /\ m \in Made /\ m \notin lost
          /\ m_listFreeMem' \in Seq(Mems) /\ Injective(m_listFreeMem')
          /\ FreeSet' = FreeSet \ {m}
      BY <3>1, FrontIsFree DEF FreeSet
    <3> HIDE DEF m
    <3>3. Made' = Made
      BY <3>1, <3>2 DEF Made
    <3>4. ListsPartition'
      BY <1>1, <2>1, <3>1, <3>2, <3>3 DEF ListsPartition, Injective, TypeOK
    <3> QED BY <3>1, <3>2, <3>4 DEF TypeOK
  <2> QED BY <2>2, <2>3, <2>4
<1>5. TypeOK'
  BY <1>1, <1>4, ThrowsOwner DEF TypeOK
<1>6. OneOwner'
  BY <1>3, <1>4 DEF OneOwner, OwnedIsBusy, ListsPartition
<1>7. Peak' /\ PoolBoundedByPeak'
  <2>1. peak' = peak
    BY <1>1 DEF Throws
  <2>2. m_vecMemBuf \ lost \in SUBSET Mems
    BY DEF TypeOK
  <2>3. /\ Cardinality(m_vecMemBuf' \ lost') <= Cardinality(m_vecMemBuf \ lost)
        /\ Cardinality(m_vecMemBuf' \ lost') \in Nat /\ Cardinality(m_vecMemBuf \ lost) \in Nat
    BY <1>4, <2>2, CountMems, FS_Subset
  <2> QED BY <1>1, <2>1, <2>3, PoolAssumption DEF Peak, PoolBoundedByPeak, Larger, TypeOK
<1> QED BY <1>3, <1>5, <1>4, <1>6, <1>7

LEMMA OverrunInv ==
    ASSUME IInv, NEW t \in Threads, Overrun(t)
    PROVE  IInv'
BY DEF IInv, Overrun, lists, history, TypeOK, ListsPartition, OneOwner, OwnedIsBusy,
       DeletedIsNotHeld, Owned, FreeSet, Made, Peak, PoolBoundedByPeak

\* What both ends of DeleteMem have in common: the block was busy, in no list of
\* free blocks, and the thread's alone.
LEMMA LeavesBusyInv ==
    ASSUME IInv, NEW t \in Threads, call[t].op = "delete", LeavesBusy(call[t].p),
           held' = held, call' = [call EXCEPT ![t] = Idle]
    PROVE  /\ call[t].p \in Mems /\ call[t].p \in m_listBusyMem /\ call[t].p \in Made
           /\ call[t].p \notin FreeSet /\ call[t].p \notin lost
           /\ m_listBusyMem' = m_listBusyMem \ {call[t].p} /\ m_listBusyMem' \subseteq Mems
           /\ m_bFree' = [m_bFree EXCEPT ![call[t].p] = TRUE] /\ m_vecMemBuf' = m_vecMemBuf
           /\ m_bFree' \in [Mems -> BOOLEAN] /\ call' \in [Threads -> Calls]
           /\ OwnedIsBusy' /\ DeletedIsNotHeld'
           /\ \A u, v \in Threads : u # v => Owned(u)' \cap Owned(v)' = {}
           /\ Cardinality(m_listBusyMem') <= peak
<1> USE DEF IInv
<1> DEFINE m == call[t].p
<1>1. /\ m_listBusyMem' = m_listBusyMem \ {m} /\ m_vecMemBuf' = m_vecMemBuf
      /\ m_bFree' = [m_bFree EXCEPT ![m] = TRUE]
  BY DEF LeavesBusy
<1>2. m \in Mems /\ m \in Owned(t)
  BY CallShapes DEF Owned
<1>3. m \in m_listBusyMem /\ m \in Made /\ m \notin FreeSet /\ m \notin lost
  BY <1>2 DEF OwnedIsBusy, ListsPartition
<1>4. m \notin held[t]
  BY DEF DeletedIsNotHeld
<1> HIDE DEF m
<1>5. /\ \A u \in Threads \ {t} : Owned(u)' = Owned(u) /\ m \notin Owned(u)
      /\ Owned(t)' = held[t] /\ held[t] \subseteq Owned(t)
  <2>1. \A u \in Threads \ {t} : Owned(u)' = Owned(u) /\ m \notin Owned(u)
    BY <1>2 DEF Owned, TypeOK, OneOwner
  <2>2. Owned(t)' = held[t] /\ held[t] \subseteq Owned(t)
    BY DEF Owned, TypeOK, Idle
  <2> QED BY <2>1, <2>2
<1>6. OwnedIsBusy'
  BY <1>1, <1>4, <1>5 DEF OwnedIsBusy
<1>7. \A u, v \in Threads : u # v => Owned(u)' \cap Owned(v)' = {}
  BY <1>5 DEF OneOwner
<1>8. DeletedIsNotHeld'
  BY DEF DeletedIsNotHeld, TypeOK, Idle
<1>9. m_listBusyMem' \subseteq Mems /\ m_bFree' \in [Mems -> BOOLEAN] /\ call' \in [Threads -> Calls]
  BY <1>1 DEF TypeOK, Calls
<1>10. Cardinality(m_listBusyMem') <= peak
  <2>1. Cardinality(m_listBusyMem') <= Cardinality(m_listBusyMem)
    BY <1>1, CountMems, FS_Subset DEF TypeOK
  <2>2. Cardinality(m_listBusyMem') \in Nat /\ Cardinality(m_listBusyMem) \in Nat
    BY <1>9, CountMems DEF TypeOK
  <2> QED BY <2>1, <2>2 DEF Peak, TypeOK
<1> QED BY <1>1, <1>2, <1>3, <1>6, <1>7, <1>8, <1>9, <1>10 DEF m

LEMMA DeleteMemInv ==
    ASSUME IInv, NEW t \in Threads, DeleteMem(t)
    PROVE  IInv'
<1> USE DEF IInv
<1> DEFINE m == call[t].p
<1>1. /\ call[t].op = "delete" /\ LeavesBusy(m)
      /\ m_listFreeMem' = Append(m_listFreeMem, m)
      /\ call' = [call EXCEPT ![t] = Idle]
      /\ UNCHANGED <<lock, held, lost, peak, thrown, overrun>>
  BY DEF DeleteMem, history
<1>2. /\ m \in Mems /\ m \in m_listBusyMem /\ m \in Made /\ m \notin FreeSet /\ m \notin lost
      /\ m_listBusyMem' = m_listBusyMem \ {m} /\ m_listBusyMem' \subseteq Mems
      /\ m_bFree' = [m_bFree EXCEPT ![m] = TRUE] /\ m_vecMemBuf' = m_vecMemBuf
      /\ m_bFree' \in [Mems -> BOOLEAN] /\ call' \in [Threads -> Calls]
      /\ OwnedIsBusy' /\ DeletedIsNotHeld'
      /\ \A u, v \in Threads : u # v => Owned(u)' \cap Owned(v)' = {}
      /\ Cardinality(m_listBusyMem') <= peak
  BY <1>1, LeavesBusyInv
<1>3. m_listFreeMem \in Seq(Mems) /\ Injective(m_listFreeMem)
  BY DEF TypeOK, ListsPartition, Injective
<1> HIDE DEF m
<1>4. /\ m_listFreeMem' \in Seq(Mems) /\ Injective(m_listFreeMem')
      /\ FreeSet' = FreeSet \cup {m}
  BY <1>1, <1>2, <1>3, AppendProperties, AppendOnce DEF FreeSet
<1>5. TypeOK'
  BY <1>1, <1>2, <1>4 DEF TypeOK
<1>6. ListsPartition'
  BY <1>1, <1>2, <1>4 DEF ListsPartition, Injective, Made, TypeOK
<1>7. OneOwner'
  BY <1>2, <1>6 DEF OneOwner, OwnedIsBusy, ListsPartition
<1>8. Peak' /\ PoolBoundedByPeak'
  BY <1>1, <1>2 DEF Peak, PoolBoundedByPeak
<1> QED BY <1>2, <1>5, <1>6, <1>7, <1>8

LEMMA DeleteThrowsInv ==
    ASSUME IInv, NEW t \in Threads, DeleteThrows(t)
    PROVE  IInv'
<1> USE DEF IInv
<1> DEFINE m == call[t].p
<1>1. /\ call[t].op = "delete" /\ LeavesBusy(m) /\ Throws(t)
      /\ m_listFreeMem' = m_listFreeMem /\ lost' = lost \cup {m}
      /\ call' = [call EXCEPT ![t] = Idle] /\ held' = held /\ peak' = peak
  BY DEF DeleteThrows, Throws
<1>2. /\ m \in Mems /\ m \in m_listBusyMem /\ m \in Made /\ m \notin FreeSet /\ m \notin lost
      /\ m_listBusyMem' = m_listBusyMem \ {m} /\ m_listBusyMem' \subseteq Mems
      /\ m_bFree' = [m_bFree EXCEPT ![m] = TRUE] /\ m_vecMemBuf' = m_vecMemBuf
      /\ m_bFree' \in [Mems -> BOOLEAN] /\ call' \in [Threads -> Calls]
      /\ OwnedIsBusy' /\ DeletedIsNotHeld'
      /\ \A u, v \in Threads : u # v => Owned(u)' \cap Owned(v)' = {}
      /\ Cardinality(m_listBusyMem') <= peak
  BY <1>1, LeavesBusyInv
<1> HIDE DEF m
<1>3. /\ lock' \in Threads \cup {None} /\ overrun' = overrun
      /\ thrown' \subseteq Threads /\ thrown' # {}
  BY <1>1, ThrowsOwner
<1>4. FreeSet' = FreeSet /\ Made' = Made
  BY <1>1, <1>2 DEF FreeSet, Made
<1>5. TypeOK'
  BY <1>1, <1>2, <1>3 DEF TypeOK
<1>6. ListsPartition'
  BY <1>1, <1>2, <1>3, <1>4 DEF ListsPartition, TypeOK
<1>7. OneOwner'
  BY <1>2, <1>6 DEF OneOwner, OwnedIsBusy, ListsPartition
<1>8. Peak' /\ PoolBoundedByPeak'
  <2>1. m_vecMemBuf \ lost \in SUBSET Mems /\ m_vecMemBuf' \ lost' \subseteq m_vecMemBuf \ lost
    BY <1>1, <1>2 DEF TypeOK
  <2>2. /\ Cardinality(m_vecMemBuf' \ lost') <= Cardinality(m_vecMemBuf \ lost)
        /\ Cardinality(m_vecMemBuf' \ lost') \in Nat /\ Cardinality(m_vecMemBuf \ lost) \in Nat
    BY <2>1, CountMems, FS_Subset
  <2> QED BY <1>1, <1>2, <2>2, PoolAssumption DEF Peak, PoolBoundedByPeak, Larger, TypeOK
<1> QED BY <1>2, <1>5, <1>6, <1>7, <1>8

LEMMA StutterInv == IInv /\ UNCHANGED vars => IInv'
BY DEF IInv, vars, lists, history, TypeOK, ListsPartition, OneOwner,
       OwnedIsBusy, DeletedIsNotHeld, Owned, FreeSet, Made, Peak, PoolBoundedByPeak

LEMMA NextInv == IInv /\ [Next]_vars => IInv'
<1> SUFFICES ASSUME IInv, [Next]_vars PROVE IInv'
  OBVIOUS
<1>1. CASE \E t \in Threads, n \in Sizes : CallNew(t, n)
  BY <1>1, CallNewInv
<1>2. CASE \E t \in Threads, m \in Mems : CallDelete(t, m)
  BY <1>2, CallDeleteInv
<1>3. CASE \E t \in Threads : Reuse(t)
  BY <1>3, ReuseInv
<1>4. CASE \E t \in Threads : Grow(t)
  BY <1>4, GrowInv
<1>5. CASE \E t \in Threads : Overrun(t)
  BY <1>5, OverrunInv
<1>6. CASE \E t \in Threads : NewThrows(t) \/ GrowThrows(t) \/ ReuseThrows(t)
  BY <1>6, NewMemThrowsInv
<1>7. CASE \E t \in Threads : DeleteMem(t)
  BY <1>7, DeleteMemInv
<1>8. CASE \E t \in Threads : DeleteThrows(t)
  BY <1>8, DeleteThrowsInv
<1>9. CASE UNCHANGED vars
  BY <1>9, StutterInv
<1> QED BY <1>1, <1>2, <1>3, <1>4, <1>5, <1>6, <1>7, <1>8, <1>9 DEF Next, NewMem

LEMMA Invariant == Spec => []IInv
BY InitInv, NextInv, PTL DEF Spec, SafeSpec

-----------------------------------------------------------------------------
(* The pool implements ObjectMemory.                                       *)

\* A step of one thread, seen by the others.
LEMMA OthersMemory ==
    ASSUME NEW t \in Threads,
           \A u \in Threads \ {t} : call'[u] = call[u] /\ held'[u] = held[u]
    PROVE  \A u \in Threads \ {t} : /\ Wanted(u)' = Wanted(u)
                                    /\ Owned(u)' = Owned(u)
                                    /\ Returned(u)' = Returned(u)
BY DEF Wanted, Owned, Returned

\* A call of operator new or operator delete begins.
LEMMA CallsImplement ==
    ASSUME IInv, NEW t \in Threads,
           (\E n \in Sizes : CallNew(t, n)) \/ (\E m \in Mems : CallDelete(t, m))
    PROVE  Memory!Next
<1>1. TypeOK /\ call[t] = Idle
  BY DEF IInv, CallNew, CallDelete
<1>2. Wanted(t) = 0 /\ Returned(t) = {} /\ Owned(t) = held[t] /\ Memory!Idle(t)
  BY <1>1 DEF Wanted, Returned, Owned, Idle, Memory!Idle
<1>3. ASSUME NEW n \in Sizes, CallNew(t, n) PROVE Memory!New(t, n)
  <2>1. call'[t] = [op |-> "new", nsize |-> n] /\ held' = held
        /\ \A u \in Threads \ {t} : call'[u] = call[u] /\ held'[u] = held[u]
    BY <1>1, <1>3 DEF CallNew, TypeOK
  <2>2. Wanted(t)' = n /\ Returned(t)' = {} /\ Owned(t)' = held[t]
    BY <2>1 DEF Wanted, Returned, Owned
  <2>3. \A u \in Threads \ {t} : Wanted(u)' = Wanted(u) /\ Owned(u)' = Owned(u)
                                 /\ Returned(u)' = Returned(u)
    BY <2>1, OthersMemory
  <2> QED BY <1>1, <1>2, <2>2, <2>3 DEF Memory!New
<1>4. ASSUME NEW m \in Mems, CallDelete(t, m) PROVE Memory!Delete(t, m)
  <2>1. /\ call'[t] = [op |-> "delete", p |-> m] /\ held'[t] = held[t] \ {m} /\ m \in held[t]
        /\ \A u \in Threads \ {t} : call'[u] = call[u] /\ held'[u] = held[u]
    BY <1>1, <1>4 DEF CallDelete, TypeOK
  <2>2. Wanted(t)' = 0 /\ Returned(t)' = {m} /\ Owned(t)' = held[t]
    BY <2>1 DEF Wanted, Returned, Owned
  <2>3. \A u \in Threads \ {t} : Wanted(u)' = Wanted(u) /\ Owned(u)' = Owned(u)
                                 /\ Returned(u)' = Returned(u)
    BY <2>1, OthersMemory
  <2> QED BY <1>1, <1>2, <2>1, <2>2, <2>3 DEF Memory!Delete
<1> QED BY <1>3, <1>4 DEF Memory!Next

\* The block that HandOver gives is nobody's before.
LEMMA HandOverImplements ==
    ASSUME IInv, NEW t \in Threads, NEW m \in Mems, call[t].op = "new",
           m \notin m_listBusyMem, HandOver(t, m), Fits(call[t].nsize)
    PROVE  Memory!Give(t, m)
<1>1. call[t].nsize \in Sizes /\ call[t].nsize \in Nat /\ call[t].nsize > 0
      /\ call[t].nsize <= nTenKB
  BY CallShapes, PoolAssumption DEF IInv, Fits
<1>2. Wanted(t) = call[t].nsize /\ Returned(t) = {} /\ Owned(t) = held[t]
  BY DEF Wanted, Returned, Owned
<1>3. /\ call'[t] = Idle /\ held'[t] = held[t] \cup {m}
      /\ \A u \in Threads \ {t} : call'[u] = call[u] /\ held'[u] = held[u]
  BY DEF HandOver, IInv, TypeOK
<1>4. Wanted(t)' = 0 /\ Returned(t)' = {} /\ Owned(t)' = held[t] \cup {m}
  BY <1>3 DEF Wanted, Returned, Owned, Idle
<1>5. \A u \in Threads \ {t} : Wanted(u)' = Wanted(u) /\ Owned(u)' = Owned(u)
                               /\ Returned(u)' = Returned(u)
  BY <1>3, OthersMemory
<1>6. Memory!Taken \subseteq m_listBusyMem
  BY DEF Memory!Taken, IInv, OwnedIsBusy
<1> HIDE DEF IInv
<1> QED BY <1>1, <1>2, <1>4, <1>5, <1>6 DEF Memory!Give

\* NewMem: the first free block, a new one, an exception, or the overrun, in
\* which the thread gets nothing and asks for ever.
LEMMA NewMemImplements ==
    ASSUME IInv, NEW t \in Threads, NewMem(t)
    PROVE  Memory!Next \/ UNCHANGED Memory!vars
<1>1. call[t].op = "new" /\ call[t].nsize \in Nat /\ call[t].nsize > 0
  BY CallShapes, PoolAssumption
     DEF NewMem, Reuse, Grow, Overrun, NewThrows, GrowThrows, ReuseThrows, IInv
<1>2. CASE Reuse(t)
  <2> DEFINE m == Head(m_listFreeMem)
  <2>1. HandOver(t, m) /\ m_listFreeMem # <<>> /\ Fits(call[t].nsize)
    BY <1>2 DEF Reuse, Finds
  <2>2. m \in Mems /\ m \notin m_listBusyMem
    BY <2>1, FrontIsFree DEF IInv
  <2> HIDE DEF m
  <2>3. Memory!Give(t, m)
    BY <1>1, <2>1, <2>2, HandOverImplements
  <2> QED BY <2>2, <2>3 DEF Memory!Next
<1>3. CASE Grow(t)
  <2>1. PICK m \in Mems : Fresh(m) /\ HandOver(t, m)
    BY <1>3 DEF Grow
  <2>2. m \notin m_listBusyMem /\ Fits(call[t].nsize)
    BY <1>3, <2>1 DEF Grow, Fresh, IInv, ListsPartition
  <2>3. Memory!Give(t, m)
    BY <1>1, <2>1, <2>2, HandOverImplements
  <2> QED BY <2>3 DEF Memory!Next
<1>4. CASE NewThrows(t) \/ GrowThrows(t) \/ ReuseThrows(t)
  <2>1. /\ call'[t] = Idle /\ held' = held
        /\ \A u \in Threads \ {t} : call'[u] = call[u] /\ held'[u] = held[u]
    BY <1>4 DEF NewThrows, GrowThrows, ReuseThrows, Throws, IInv, TypeOK
  <2>2. Wanted(t) > 0 /\ Returned(t) = {} /\ Owned(t) = held[t]
    BY <1>1 DEF Wanted, Returned, Owned
  <2>3. Wanted(t)' = 0 /\ Returned(t)' = {} /\ Owned(t)' = held[t]
    BY <2>1 DEF Wanted, Returned, Owned, Idle
  <2>4. \A u \in Threads \ {t} : Wanted(u)' = Wanted(u) /\ Owned(u)' = Owned(u)
                                 /\ Returned(u)' = Returned(u)
    BY <2>1, OthersMemory
  <2>5. Memory!Fail(t)
    BY <2>1, <2>2, <2>3, <2>4 DEF Memory!Fail
  <2> QED BY <2>5 DEF Memory!Next
<1>5. CASE Overrun(t)
  BY <1>5 DEF Overrun, Memory!vars, Wanted, Owned, Returned
<1> QED BY <1>2, <1>3, <1>4, <1>5 DEF NewMem

\* DeleteMem: the thread is rid of the block, also when push_back throws.
LEMMA DeleteMemImplements ==
    ASSUME IInv, NEW t \in Threads, DeleteMem(t) \/ DeleteThrows(t) PROVE Memory!Next
<1>1. /\ call[t].op = "delete" /\ call'[t] = Idle /\ held' = held
      /\ \A u \in Threads \ {t} : call'[u] = call[u] /\ held'[u] = held[u]
  BY DEF DeleteMem, DeleteThrows, Throws, IInv, TypeOK
<1>2. /\ Wanted(t) = 0 /\ Returned(t) = {call[t].p} /\ Owned(t) = held[t] \cup {call[t].p}
      /\ call[t].p \notin held[t]
  BY <1>1 DEF Wanted, Returned, Owned, IInv, DeletedIsNotHeld
<1>3. Wanted(t)' = 0 /\ Returned(t)' = {} /\ Owned(t)' = held[t]
  BY <1>1 DEF Wanted, Returned, Owned, Idle
<1>4. \A u \in Threads \ {t} : Wanted(u)' = Wanted(u) /\ Owned(u)' = Owned(u)
                               /\ Returned(u)' = Returned(u)
  BY <1>1, OthersMemory
<1>5. Owned(t)' = Owned(t) \ Returned(t)
  BY <1>2, <1>3
<1>6. Memory!Free(t)
  BY <1>1, <1>2, <1>3, <1>4, <1>5 DEF Memory!Free
<1> QED BY <1>6 DEF Memory!Next

-----------------------------------------------------------------------------
(* Theorems.                                                               *)

\* NewMem and DeleteMem keep every list, counter and owner in its type.
THEOREM PoolTypeCorrect == Spec => []TypeOK
<1>1. IInv => TypeOK
  BY DEF IInv
<1> QED BY <1>1, Invariant, PTL

\* NewMem never gives a thread the block of another thread's object, nor one
\* that is still on the free list, for any number of threads and sizes.
THEOREM NoSharedBlock == Spec => []OneOwner
<1>1. IInv => OneOwner
  BY DEF IInv
<1> QED BY <1>1, Invariant, PTL

\* The free list and the busy list share out the blocks that NewMem made: only an
\* exception of push_back takes one from both.
THEOREM NoLostBlock == Spec => []ListsPartition
<1>1. IInv => ListsPartition
  BY DEF IInv
<1> QED BY <1>1, Invariant, PTL

\* NewMem makes a block only when all are in use: but for those an exception lost,
\* the pool has at most as many as at the start or as were ever in use together.
THEOREM PoolIsACache == Spec => []PoolBoundedByPeak
<1>1. IInv => PoolBoundedByPeak
  BY DEF IInv
<1> QED BY <1>1, Invariant, PTL

\* Every call may enter the critical section until a call has thrown: a step that
\* leaves a thread inside is an allocation that threw (MemAlloctor.cpp).
THEOREM OnlyThrowEverShutsOut == Spec => []OnlyThrowShutsOut
<1> DEFINE Inside == lock # None => lock \in thrown
<1>1. Init => Inside
  BY DEF Init
<1>2. Inside /\ [Next]_vars => Inside'
  BY DEF Next, CallNew, CallDelete, NewMem, Reuse, Grow, Overrun, Throws, NewThrows, GrowThrows,
         ReuseThrows, HandOver, LeavesBusy, DeleteMem, DeleteThrows, vars, lists, history
<1>3. Inside => OnlyThrowShutsOut
  BY DEF OnlyThrowShutsOut, MayEnter
<1> QED BY <1>1, <1>2, <1>3, PTL DEF Spec, SafeSpec

\* Whichever blocks the pool hands round, NewMem and DeleteMem are a memory: a
\* block goes to one object at a time, holds as much as was asked for, and has
\* the same owner until operator delete has returned.  A block made for an object
\* of more than nTenKB is the end of what is promised.
THEOREM PoolImplementsMemory == Spec => ImplementsMemory
<1>1. Init => Memory!Init
  <2> SUFFICES ASSUME Init PROVE Memory!Init
    OBVIOUS
  <2>1. \A t \in Threads : Wanted(t) = 0 /\ Owned(t) = {} /\ Returned(t) = {}
    BY DEF Init, Wanted, Owned, Returned, Idle
  <2> QED BY <2>1 DEF Memory!Init
<1>2. IInv /\ [Next]_vars => [Memory!Next]_Memory!vars
  <2> SUFFICES ASSUME IInv, [Next]_vars PROVE Memory!Next \/ UNCHANGED Memory!vars
    OBVIOUS
  <2>1. CASE UNCHANGED vars
    BY <2>1 DEF vars, lists, history, Wanted, Owned, Returned, Memory!vars
  <2> QED BY <2>1, CallsImplement, NewMemImplements, DeleteMemImplements DEF Next
<1> QED BY <1>1, <1>2, Invariant, PTL DEF Spec, SafeSpec, ImplementsMemory, Memory!Spec

=============================================================================
