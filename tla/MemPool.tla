------------------------------ MODULE MemPool ------------------------------
(***************************************************************************)
(* CMemPool (IOCompletePort/MemAlloctor.cpp): operator new and operator    *)
(* delete of every overlapped object go to one static pool of CMem blocks, *)
(* shared by all threads under one critical section.  What a call does     *)
(* between EnterCriticalSection and LeaveCriticalSection is one step; one  *)
(* that throws leaves the section entered.                                 *)
(* A CMem holds nTenKB bytes whatever it is made for (m_byte, MemAlloctor.h*)
(* line 40): making one for a larger object zeroes memory behind it.       *)
(***************************************************************************)
EXTENDS Naturals, Sequences, FiniteSets

CONSTANTS Threads,        \* threads that create and delete overlapped objects
          None,           \* no thread, no block
          nTenKB,         \* the bytes of a block
          nInitMaxCount,  \* blocks made by _initMemBuf()
          MaxMems,        \* bound: CMem objects the process has memory for
          Sizes           \* sizes of objects

ASSUME PoolAssumption ==
    /\ None \notin Threads
    /\ nTenKB \in Nat \ {0}
    /\ nInitMaxCount \in Nat /\ MaxMems \in Nat /\ nInitMaxCount <= MaxMems
    /\ Sizes \subseteq Nat \ {0}

VARIABLES m_listFreeMem,     \* list of free blocks, taken from its front
          m_listBusyMem,     \* blocks in use (the list's order is never read)
          m_vecMemBuf,       \* blocks made, and to be deleted at the end
          m_bFree,           \* m_bFree[m]
          lock,              \* the thread left inside the critical section
          call,              \* call[t]: the call t is in
          held,              \* held[t]: the blocks whose address t has
          lost,              \* history: blocks on no list since a push_back threw
          peak,              \* history: most blocks in use at a time
          thrown,            \* history: threads whose call threw
          overrun            \* a block was made for an object it cannot hold

lists == <<m_listFreeMem, m_listBusyMem, m_bFree>>
history == <<lost, peak, thrown>>
vars == <<lists, m_vecMemBuf, lock, call, held, history, overrun>>

Mems == 1..MaxMems
Made == m_vecMemBuf \cup lost
FreeSet == {m_listFreeMem[i] : i \in DOMAIN m_listFreeMem}

Idle == [op |-> "none"]
Calls == {Idle} \cup [op : {"new"}, nsize : Sizes] \cup [op : {"delete"}, p : Mems]

TypeOK ==
    /\ m_listFreeMem \in Seq(Mems)
    /\ m_listBusyMem \subseteq Mems
    /\ m_vecMemBuf \subseteq Mems
    /\ m_bFree \in [Mems -> BOOLEAN]
    /\ lock \in Threads \cup {None}
    /\ call \in [Threads -> Calls]
    /\ held \in [Threads -> SUBSET Mems]
    /\ lost \subseteq Mems /\ peak \in Nat /\ thrown \subseteq Threads
    /\ overrun \in BOOLEAN

Init ==
    /\ m_listFreeMem = [i \in 1..nInitMaxCount |-> i]
    /\ m_listBusyMem = {}
    /\ m_vecMemBuf = 1..nInitMaxCount
    /\ m_bFree = [m \in Mems |-> TRUE]
    /\ lock = None
    /\ call = [t \in Threads |-> Idle]
    /\ held = [t \in Threads |-> {}]
    /\ lost = {} /\ peak = 0 /\ thrown = {} /\ overrun = FALSE

-----------------------------------------------------------------------------
(* A thread calls operator new, or operator delete for an object it owns.  *)

CallNew(t, n) ==
    /\ call[t] = Idle
    /\ call' = [call EXCEPT ![t] = [op |-> "new", nsize |-> n]]
    /\ UNCHANGED <<lists, m_vecMemBuf, lock, held, history, overrun>>

CallDelete(t, m) ==
    /\ call[t] = Idle
    /\ m \in held[t]
    /\ call' = [call EXCEPT ![t] = [op |-> "delete", p |-> m]]
    /\ held' = [held EXCEPT ![t] = @ \ {m}]
    /\ UNCHANGED <<lists, m_vecMemBuf, lock, history, overrun>>

\* The critical section is recursive: a thread left inside may enter again.
MayEnter(t) == lock \in {None, t}

\* GetSize() >= nsize, for any block: m_nSize is nTenKB until a block is overrun.
Fits(n) == n <= nTenKB

\* The search of NewMem() ends at the first free block, or finds none.
Finds(t) == Fits(call[t].nsize) /\ m_listFreeMem # <<>>
FindsNone(t) == ~ Finds(t)

\* m is the address that the next `new CMem` gives.
Fresh(m) == m \in Mems \ Made /\ \A k \in Mems \ Made : m <= k

Larger(a, b) == IF a > b THEN a ELSE b

\* Block m goes to the busy list and its address to thread t.
HandOver(t, m) ==
    /\ m_listBusyMem' = m_listBusyMem \cup {m}
    /\ m_bFree' = [m_bFree EXCEPT ![m] = FALSE]
    /\ held' = [held EXCEPT ![t] = @ \cup {m}]
    /\ call' = [call EXCEPT ![t] = Idle]
    /\ peak' = Larger(peak, Cardinality(m_listBusyMem'))
    /\ UNCHANGED <<lock, lost, thrown, overrun>>

\* NewMem() finds a free block.
ReuseWithoutErase(t) ==
    /\ call[t].op = "new" /\ MayEnter(t)
    /\ Finds(t)
    /\ HandOver(t, Head(m_listFreeMem))
    /\ UNCHANGED <<m_vecMemBuf, m_listFreeMem>>

Reuse(t) ==
    /\ call[t].op = "new" /\ MayEnter(t)
    /\ Finds(t)
    /\ m_listFreeMem' = Tail(m_listFreeMem)
    /\ HandOver(t, Head(m_listFreeMem))
    /\ UNCHANGED m_vecMemBuf

\* NewMem() makes a block for an object that fits into one.
Grow(t) ==
    /\ call[t].op = "new" /\ MayEnter(t)
    /\ FindsNone(t) /\ Fits(call[t].nsize)
    /\ \E m \in Mems : /\ Fresh(m)
                       /\ m_vecMemBuf' = m_vecMemBuf \cup {m}
                       /\ HandOver(t, m)
    /\ UNCHANGED m_listFreeMem

\* NewMem() makes a block for a larger object: `new CMem(nsize)` sets nsize bytes
\* of m_byte to zero, and with them m_bFree, m_nSize and what lies behind.  What
\* follows is undefined.
Overrun(t) ==
    /\ call[t].op = "new" /\ MayEnter(t)
    /\ ~ Fits(call[t].nsize)
    /\ overrun' = TRUE
    /\ UNCHANGED <<lists, m_vecMemBuf, lock, call, held, history>>

\* An exception leaves the call: catch (...) has no LeaveCriticalSection.
Throws(t) ==
    /\ lock' = t
    /\ call' = [call EXCEPT ![t] = Idle]
    /\ thrown' = thrown \cup {t}
    /\ UNCHANGED <<held, peak, overrun>>

\* `new CMem` throws, before anything has changed.
NewThrows(t) ==
    /\ call[t].op = "new" /\ MayEnter(t)
    /\ FindsNone(t)
    /\ Throws(t)
    /\ UNCHANGED <<lists, m_vecMemBuf, lost>>

\* The push_back of a new block throws: that of m_vecMemBuf, or of m_listBusyMem.
GrowThrows(t) ==
    /\ call[t].op = "new" /\ MayEnter(t)
    /\ FindsNone(t) /\ Fits(call[t].nsize)
    /\ \E m \in Mems : /\ Fresh(m)
                       /\ lost' = lost \cup {m}
                       /\ m_vecMemBuf' \in {m_vecMemBuf, m_vecMemBuf \cup {m}}
    /\ Throws(t)
    /\ UNCHANGED lists

\* m_listBusyMem.push_back throws when the block is off the free list.
ReuseThrows(t) ==
    /\ call[t].op = "new" /\ MayEnter(t)
    /\ Finds(t)
    /\ m_listFreeMem' = Tail(m_listFreeMem)
    /\ m_bFree' = [m_bFree EXCEPT ![Head(m_listFreeMem)] = FALSE]
    /\ lost' = lost \cup {Head(m_listFreeMem)}
    /\ Throws(t)
    /\ UNCHANGED <<m_listBusyMem, m_vecMemBuf>>

NewMem(t) == \/ Reuse(t) \/ Grow(t) \/ Overrun(t)
             \/ NewThrows(t) \/ GrowThrows(t) \/ ReuseThrows(t)

\* The first half of DeleteMem(): the block leaves the busy list.
LeavesBusy(m) ==
    /\ m_bFree' = [m_bFree EXCEPT ![m] = TRUE]
    /\ m_listBusyMem' = m_listBusyMem \ {m}
    /\ UNCHANGED m_vecMemBuf

DeleteStaysInside(t) ==
    /\ call[t].op = "delete" /\ MayEnter(t)
    /\ LeavesBusy(call[t].p)
    /\ m_listFreeMem' = Append(m_listFreeMem, call[t].p)
    /\ lock' = t
    /\ call' = [call EXCEPT ![t] = Idle]
    /\ UNCHANGED <<held, history, overrun>>

DeleteWithoutPush(t) ==
    /\ call[t].op = "delete" /\ MayEnter(t)
    /\ LeavesBusy(call[t].p)
    /\ call' = [call EXCEPT ![t] = Idle]
    /\ UNCHANGED <<m_listFreeMem, lock, held, history, overrun>>

DeleteMem(t) ==
    /\ call[t].op = "delete" /\ MayEnter(t)
    /\ LeavesBusy(call[t].p)
    /\ m_listFreeMem' = Append(m_listFreeMem, call[t].p)
    /\ call' = [call EXCEPT ![t] = Idle]
    /\ UNCHANGED <<lock, held, history, overrun>>

\* m_listFreeMem.push_back throws: the block is on neither list.
DeleteThrows(t) ==
    /\ call[t].op = "delete" /\ MayEnter(t)
    /\ LeavesBusy(call[t].p)
    /\ lost' = lost \cup {call[t].p}
    /\ Throws(t)
    /\ UNCHANGED m_listFreeMem

Next ==
    /\ ~ overrun
    /\ \E t \in Threads :
         \/ \E n \in Sizes : CallNew(t, n)
         \/ \E m \in Mems : CallDelete(t, m)
         \/ NewMem(t)
         \/ DeleteMem(t) \/ DeleteThrows(t)

SafeSpec == Init /\ [][Next]_vars

\* A thread that may enter the critical section finishes its call: every other
\* thread inside leaves it again, except one whose call threw.
Works(t) == ~ overrun /\ (NewMem(t) \/ DeleteMem(t) \/ DeleteThrows(t))

Spec == SafeSpec /\ \A t \in Threads : WF_vars(Works(t))

-----------------------------------------------------------------------------
(* Properties.  They speak of the program until a block is overrun.        *)

\* The block t is about to give back belongs to t until the step is done.
Owned(t) == held[t] \cup (IF call[t].op = "delete" THEN {call[t].p} ELSE {})

\* Two objects are never in one block: a block has one owner, and none while
\* it is on the free list (first fit, erase and push_back over many calls of
\* many threads; a block pushed twice would be handed out twice).
OneOwner ==
    /\ \A t, u \in Threads : t # u => Owned(t) \cap Owned(u) = {}
    /\ \A t \in Threads : Owned(t) \cap FreeSet = {}

\* No block is listed twice, and only a push_back that threw loses one: the two
\* lists share out the other blocks, and m_bFree tells which list one is on.
ListsPartition ==
    /\ \A i, j \in DOMAIN m_listFreeMem :
         m_listFreeMem[i] = m_listFreeMem[j] => i = j
    /\ FreeSet \cap m_listBusyMem = {}
    /\ FreeSet \cup m_listBusyMem = Made \ lost
    /\ \A m \in Made \ lost : m_bFree[m] <=> m \in FreeSet
    /\ thrown = {} => lost = {}

\* The pool is a cache, not a leak: but for the blocks lost by an exception it
\* never has more than it began with or than were in use at one time.
PoolBoundedByPeak ==
    Cardinality(m_vecMemBuf \ lost) <= Larger(nInitMaxCount, peak)

\* Only a thread whose call threw is left inside the critical section: until
\* then every call may enter (MemAlloctor.cpp, the catches of NewMem and
\* DeleteMem).
OnlyThrowShutsOut ==
    /\ lock # None => lock \in thrown
    /\ thrown = {} => \A t \in Threads : MayEnter(t)

\* A call returns, unless an allocation failed inside the critical section or a
\* block was overrun.
CallsReturn ==
    \A t \in Threads :
      (call[t] # Idle) ~> (call[t] = Idle \/ thrown # {} \/ overrun)

-----------------------------------------------------------------------------
(* The pool implements the memory of the objects.                          *)

Wanted(t) == IF call[t].op = "new" THEN call[t].nsize ELSE 0
Returned(t) == IF call[t].op = "delete" THEN {call[t].p} ELSE {}

Memory == INSTANCE ObjectMemory WITH
    Blocks <- Mems, size <- nTenKB,
    wants <- [t \in Threads |-> Wanted(t)],
    owns <- [t \in Threads |-> Owned(t)],
    returns <- [t \in Threads |-> Returned(t)]

\* Whatever went round between the two lists, operator new gives a block that is
\* nobody's and holds the object, until one is made for an object of more than
\* nTenKB: that step takes nothing and gives nothing here, and is the last.
ImplementsMemory == Memory!Spec

=============================================================================
