------------------------------ MODULE UseCount ------------------------------
(***************************************************************************)
(* CUseCount (common/UseCount.cpp): a count on the heap that the handles   *)
(* of one object share.  Each thread works on handles of its own; it may   *)
(* copy another's handle or attach to it while that handle rests.  An      *)
(* Interlocked call is one step, and so is a plain read of the count: the  *)
(* code decrements in one step and reads in another.  operator= is private *)
(* and not called.                                                         *)
(***************************************************************************)
EXTENDS Integers, FiniteSets

CONSTANTS Handles,     \* CUseCount objects
          None,        \* no handle
          MaxCounts    \* bound: counts made by `new`; no address is used twice

ASSUME UseCountAssumption ==
    /\ IsFiniteSet(Handles) /\ None \notin Handles
    /\ MaxCounts \in Nat

VARIABLES
    m_pCount,    \* m_pCount[h]: the count h points to; 0: h is not there
    count,       \* count[c]: its value, *m_pCount
    made,        \* counts made so far: 1..made
    pc, arg,     \* what is under way on h, and the u of Reattach(u)
    freed,       \* history: freed[c], how often c was deleted
    crowded,     \* history: counts two handles had let go of and not yet read
    abandoned,   \* history: counts whose last share went in Makeonly
    sole         \* history: handles last told that they are the only one

history == <<freed, crowded, abandoned, sole>>
vars == <<m_pCount, count, made, pc, arg, history>>

Counts == 1..MaxCounts

TypeOK ==
    /\ m_pCount \in [Handles -> 0..made]
    /\ count \in [Counts -> Int] /\ freed \in [Counts -> Nat]
    /\ made \in 0..MaxCounts
    /\ pc \in [Handles -> {"none", "rest", "released", "shared", "taken", "exchanged"}]
    /\ arg \in [Handles -> Handles \cup {None}]
    /\ \A h \in Handles : /\ pc[h] = "none" <=> m_pCount[h] = 0
                          /\ arg[h] # None <=> pc[h] \in {"taken", "exchanged"}

Init ==
    /\ m_pCount = [h \in Handles |-> 0]
    /\ count = [c \in Counts |-> 0] /\ made = 0
    /\ pc = [h \in Handles |-> "none"] /\ arg = [h \in Handles |-> None]
    /\ freed = [c \in Counts |-> 0]
    /\ crowded = {} /\ abandoned = {} /\ sole = {}

\* h rests and no other handle attaches to it.
Free(h) == pc[h] = "rest" /\ \A g \in Handles : arg[g] = h => g = h

\* What a plain read of count c may give: a deleted one can hold anything.
Read(c) == IF freed[c] = 0 THEN {count[c]} ELSE {0, 1, 2}

LetGo(c) == {h \in Handles : pc[h] \in {"released", "exchanged"} /\ m_pCount[h] = c}
Crowd(h) ==
    crowded' = crowded \cup {c \in {m_pCount[h]} : LetGo(c) # {}}

\* CUseCount()
Construct(h) ==
    /\ pc[h] = "none" /\ made < MaxCounts
    /\ made' = made + 1
    /\ m_pCount' = [m_pCount EXCEPT ![h] = made']
    /\ count' = [count EXCEPT ![made'] = 1]
    /\ pc' = [pc EXCEPT ![h] = "rest"]
    /\ sole' = sole \ {h}
    /\ UNCHANGED <<arg, freed, crowded, abandoned>>

\* CUseCount(u)
Copy(h, u) ==
    /\ pc[h] = "none" /\ pc[u] = "rest"
    /\ m_pCount' = [m_pCount EXCEPT ![h] = m_pCount[u]]
    /\ count' = [count EXCEPT ![m_pCount[u]] = @ + 1]
    /\ pc' = [pc EXCEPT ![h] = "rest"]
    /\ sole' = sole \ {h, u}
    /\ UNCHANGED <<made, arg, freed, crowded, abandoned>>

\* ~CUseCount(): atomic_dec, then the read and the delete.
Release(h) ==
    /\ Free(h)
    /\ count' = [count EXCEPT ![m_pCount[h]] = @ - 1]
    /\ pc' = [pc EXCEPT ![h] = "released"]
    /\ sole' = sole \ {h}
    /\ Crowd(h)
    /\ UNCHANGED <<m_pCount, made, arg, freed, abandoned>>

DeleteIf(c, gone) == freed' = IF gone THEN [freed EXCEPT ![c] = @ + 1] ELSE freed

UnusedBelowZero(v) == v < 0
Unused(v) == v <= 0

\* The handle is gone, whatever became of the count.
Forget(h) == m_pCount' = [m_pCount EXCEPT ![h] = 0]

Destroyed(h) ==
    /\ pc[h] = "released"
    /\ \E v \in Read(m_pCount[h]) : DeleteIf(m_pCount[h], Unused(v))
    /\ Forget(h)
    /\ pc' = [pc EXCEPT ![h] = "none"]
    /\ UNCHANGED <<count, made, arg, crowded, abandoned, sole>>

\* Reattach(u): a share of u's count is taken, then the own one given back.
TakeNothing(h, u) == UNCHANGED count
Take(h, u) == count' = [count EXCEPT ![m_pCount[u]] = @ + 1]

Reattach(h, u) ==
    /\ Free(h) /\ pc[u] = "rest"
    /\ Take(h, u)
    /\ pc' = [pc EXCEPT ![h] = "taken"] /\ arg' = [arg EXCEPT ![h] = u]
    /\ sole' = sole \ {h, u}
    /\ UNCHANGED <<m_pCount, made, freed, crowded, abandoned>>

Exchange(h) ==
    /\ pc[h] = "taken"
    /\ count' = [count EXCEPT ![m_pCount[h]] = @ - 1]
    /\ pc' = [pc EXCEPT ![h] = "exchanged"]
    /\ Crowd(h)
    /\ UNCHANGED <<m_pCount, made, arg, freed, abandoned, sole>>

Reattached(h) ==
    /\ pc[h] = "exchanged"
    /\ \E v \in Read(m_pCount[h]) : DeleteIf(m_pCount[h], v = 0)
    /\ m_pCount' = [m_pCount EXCEPT ![h] = m_pCount[arg[h]]]
    /\ pc' = [pc EXCEPT ![h] = "rest"] /\ arg' = [arg EXCEPT ![h] = None]
    /\ UNCHANGED <<count, made, crowded, abandoned, sole>>

\* Only(), and Makeonly() when it finds the count at one.
IsOne(c) == count[c] = 1

FindsOne(h) ==
    /\ Free(h) /\ IsOne(m_pCount[h])
    /\ sole' = sole \cup {h}
    /\ UNCHANGED <<m_pCount, count, made, pc, arg, freed, crowded, abandoned>>

\* Makeonly() when it finds more: it gives its share back and makes a count.
FindsMore(h) ==
    /\ Free(h) /\ ~ IsOne(m_pCount[h])
    /\ pc' = [pc EXCEPT ![h] = "shared"]
    /\ UNCHANGED <<m_pCount, count, made, arg, history>>

Split(h) ==
    LET c == m_pCount[h] IN
    /\ pc[h] = "shared" /\ made < MaxCounts
    /\ made' = made + 1
    /\ count' = [count EXCEPT ![c] = @ - 1, ![made'] = 1]
    /\ abandoned' = IF count'[c] = 0 THEN abandoned \cup {c} ELSE abandoned
    /\ m_pCount' = [m_pCount EXCEPT ![h] = made']
    /\ pc' = [pc EXCEPT ![h] = "rest"]
    /\ sole' = sole \cup {h}
    /\ UNCHANGED <<arg, freed, crowded>>

Next == \E h \in Handles :
          \/ Construct(h) \/ Release(h) \/ Destroyed(h) \/ Exchange(h)
          \/ Reattached(h) \/ FindsOne(h) \/ FindsMore(h) \/ Split(h)
          \/ \E u \in Handles : Copy(h, u) \/ Reattach(h, u)

Spec == Init /\ [][Next]_vars

-----------------------------------------------------------------------------
(* Properties.                                                             *)

\* A handle's share of a count: it points there and has not let go, or it is
\* about to point there.
Holders(c) == {h \in Handles : pc[h] \in {"rest", "shared", "taken"} /\ m_pCount[h] = c}
Takers(c) == {h \in Handles : arg[h] # None /\ m_pCount[arg[h]] = c}
Shares(c) == Cardinality(Holders(c)) + Cardinality(Takers(c))

\* A count that some handle still has a share of has not been deleted, and it
\* counts the shares, whatever copies, exchanges and destructions overlap.  A
\* handle that Only or Makeonly told it is the only one stays so until it is
\* copied or attached to: the others have let go already.
SharedIsAlive ==
    /\ TypeOK
    /\ \A c \in Counts : Shares(c) > 0 => freed[c] = 0 /\ count[c] = Shares(c)
    /\ \A h \in sole, u \in Handles :
         u # h /\ m_pCount[u] = m_pCount[h] => u \in LetGo(m_pCount[h])

\* A count is deleted when its last share is gone and those who let go have
\* read it, unless that share was given back by Makeonly, which deletes nothing;
\* and it is deleted twice only if two handles stood between the decrement and
\* the read at the same time.
DeletedOnce ==
    \A c \in 1..made :
      /\ Shares(c) = 0 /\ LetGo(c) = {} => freed[c] > 0 \/ c \in abandoned
      /\ freed[c] > 1 => c \in crowded

=============================================================================
