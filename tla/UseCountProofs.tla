--------------------------- MODULE UseCountProofs ---------------------------
(***************************************************************************)
(* Proofs about UseCount, for any number of handles and of counts: a count *)
(* that a handle shares is alive and right, and a count is deleted once.   *)
(***************************************************************************)
EXTENDS UseCount, FiniteSetTheorems, TLAPS

\* A handle that another attaches to rests.
Attached == \A g, h \in Handles : arg[g] = h /\ g # h => pc[h] = "rest"

\* Every count is the number of its shares, also when it has been deleted.
Balanced == \A c \in Counts : count[c] = Shares(c)

\* Only counts that were made and have no share left were deleted.
Living ==
    \A c \in Counts : freed[c] > 0 => c <= made /\ Holders(c) = {} /\ Takers(c) = {}

\* A handle told to be the only one has the only share.
Alone ==
    \A h \in sole :
      /\ h \in Handles /\ pc[h] \in {"rest", "shared"}
      /\ \A c \in Counts : m_pCount[h] = c => Holders(c) = {h} /\ Takers(c) = {}

\* Two handles that have let go of one count are what `crowded` records, and only
\* they can find a count deleted already.
Crowded ==
    \A c \in Counts :
      /\ \A g, h \in LetGo(c) : g # h => c \in crowded
      /\ freed[c] > 0 /\ LetGo(c) # {} => c \in crowded
      /\ freed[c] > 1 => c \in crowded

\* A count without shares is deleted by the last one to let go of it.
Deleted ==
    \A c \in Counts :
      c <= made /\ Holders(c) = {} /\ Takers(c) = {} /\ LetGo(c) = {}
        => freed[c] > 0 \/ c \in abandoned

IInv == TypeOK /\ Attached /\ Balanced /\ Living /\ Alone /\ Crowded /\ Deleted

-----------------------------------------------------------------------------
\* Sets of handles are finite, and empty exactly when their cardinality is 0.
LEMMA HandlesCard ==
    ASSUME NEW S \in SUBSET Handles
    PROVE  IsFiniteSet(S) /\ Cardinality(S) \in Nat /\ (Cardinality(S) = 0 <=> S = {})
BY FS_Subset, FS_CardinalityType, FS_EmptySet, UseCountAssumption

\* A handle more.
LEMMA OneMore ==
    ASSUME NEW S \in SUBSET Handles, NEW h \in Handles, h \notin S
    PROVE  Cardinality(S \cup {h}) = Cardinality(S) + 1
BY HandlesCard, FS_AddElement

\* A handle less.
LEMMA OneLess ==
    ASSUME NEW S \in SUBSET Handles, NEW h \in S
    PROVE  Cardinality(S \ {h}) = Cardinality(S) - 1
BY HandlesCard, FS_RemoveElement

\* No handle, and a single one.
LEMMA NoneOrOne == Cardinality({}) = 0 /\ \A h : Cardinality({h}) = 1
BY FS_Singleton, FS_EmptySet

\* The shares of a count are counted by a number, 0 when it has none.
LEMMA SharesNat ==
    ASSUME NEW c \in Counts
    PROVE  /\ Shares(c) \in Nat
           /\ Shares(c) = 0 <=> Holders(c) = {} /\ Takers(c) = {}
<1>1. Holders(c) \in SUBSET Handles /\ Takers(c) \in SUBSET Handles
  BY DEF Holders, Takers
<1>2. /\ Cardinality(Holders(c)) \in Nat /\ (Cardinality(Holders(c)) = 0 <=> Holders(c) = {})
      /\ Cardinality(Takers(c)) \in Nat /\ (Cardinality(Takers(c)) = 0 <=> Takers(c) = {})
  BY <1>1, HandlesCard
<1>3. QED
  BY <1>2 DEF Shares

\* No count has been made, and no handle is there.
LEMMA InitIInv == Init => IInv
<1> SUFFICES ASSUME Init PROVE IInv
  OBVIOUS
<1> USE UseCountAssumption DEF Init, Counts
<1>1. TypeOK
  BY DEF TypeOK
<1>2. \A c \in Counts : Holders(c) = {} /\ Takers(c) = {} /\ LetGo(c) = {}
  BY DEF Holders, Takers, LetGo
<1>3. Attached
  BY DEF Attached
<1>4. Balanced
  <2>1. \A c \in Counts : Cardinality(Holders(c)) = 0 /\ Cardinality(Takers(c)) = 0
    BY <1>2, NoneOrOne, Zenon
  <2>2. \A c \in Counts : Shares(c) = 0
    BY <2>1 DEF Shares
  <2>3. QED
    BY <2>2 DEF Balanced
<1>5. Living /\ Alone /\ Crowded /\ Deleted
  BY <1>2 DEF Living, Alone, Crowded, Deleted
<1>6. QED
  BY <1>1, <1>3, <1>4, <1>5 DEF IInv

\* CUseCount(): a new count with one share.
LEMMA ConstructIInv ==
    ASSUME IInv, NEW h \in Handles, Construct(h) PROVE IInv'
<1> DEFINE new == made + 1
<1> USE UseCountAssumption
<1>1. /\ TypeOK /\ Attached /\ Balanced /\ Living /\ Alone /\ Crowded /\ Deleted
      /\ new \in Counts /\ made \in Nat /\ made' = new /\ pc[h] = "none" /\ arg[h] = None
      /\ m_pCount' = [m_pCount EXCEPT ![h] = new]
      /\ count' = [count EXCEPT ![new] = 1] /\ pc' = [pc EXCEPT ![h] = "rest"]
      /\ sole' = sole \ {h} /\ UNCHANGED <<arg, freed, crowded, abandoned>>
  <2>1. TypeOK /\ Attached /\ Balanced /\ Living /\ Alone /\ Crowded /\ Deleted
    BY DEF IInv
  <2>2. new \in Counts /\ made \in Nat /\ made' = new /\ pc[h] = "none"
    BY <2>1 DEF Construct, TypeOK, Counts
  <2>3. arg[h] = None
    BY <2>1, <2>2 DEF TypeOK
  <2>4. QED
    BY <2>1, <2>2, <2>3 DEF Construct
<1> HIDE DEF new
<1>2. TypeOK'
  BY <1>1 DEF TypeOK, new, Counts
<1>3. \A g \in Handles : m_pCount[g] # new
  BY <1>1 DEF TypeOK, new
<1>4. \A g \in Handles : arg[g] # h
  BY <1>1 DEF Attached
<1>5. \A c \in Counts : /\ Holders(c)' = IF c = new THEN {h} ELSE Holders(c)
                        /\ c = new => Takers(c) = {} /\ LetGo(c) = {} /\ Holders(c) = {}
                        /\ Takers(c)' = Takers(c) /\ LetGo(c)' = LetGo(c)
  BY <1>1, <1>3, <1>4 DEF TypeOK, Holders, Takers, LetGo
<1>6. Attached'
  BY <1>1, <1>4 DEF Attached
<1>7. Balanced'
  <2>1. \A c \in Counts : count'[c] = IF c = new THEN 1 ELSE count[c]
    BY <1>1 DEF TypeOK
  <2>2. \A c \in Counts : Shares(c)' = IF c = new THEN 1 ELSE Shares(c)
    <3> SUFFICES ASSUME NEW c \in Counts
                 PROVE  Shares(c)' = IF c = new THEN 1 ELSE Shares(c)
      OBVIOUS
    <3>1. c = new => Cardinality(Holders(c)') = 1 /\ Cardinality(Takers(c)') = 0
      BY <1>5, NoneOrOne, Zenon
    <3>2. c # new => Holders(c)' = Holders(c) /\ Takers(c)' = Takers(c)
      BY <1>5
    <3>3. QED
      BY <3>1, <3>2 DEF Shares
  <2>3. QED
    BY <1>1, <2>1, <2>2 DEF Balanced
<1>8. freed[new] = 0
  BY <1>1 DEF Living, TypeOK, new
<1>9. Living'
  BY <1>1, <1>5, <1>8 DEF Living, TypeOK, new, Counts
<1>10. Alone'
  BY <1>1, <1>3, <1>5, <1>2 DEF Alone, TypeOK
<1>11. Crowded'
  BY <1>1, <1>5 DEF Crowded
<1>12. Deleted'
  BY <1>1, <1>5 DEF Deleted, new, Counts
<1>13. QED
  BY <1>2, <1>6, <1>7, <1>9, <1>10, <1>11, <1>12 DEF IInv

\* CUseCount(u): one share more of the count of u, which has one already.
LEMMA CopyIInv ==
    ASSUME IInv, NEW h \in Handles, NEW u \in Handles, Copy(h, u) PROVE IInv'
<1> DEFINE c0 == m_pCount[u]
<1>1. TypeOK /\ Attached /\ Balanced /\ Living /\ Alone /\ Crowded /\ Deleted
  BY DEF IInv
<1>2. /\ pc[h] = "none" /\ pc[u] = "rest" /\ u # h
      /\ m_pCount' = [m_pCount EXCEPT ![h] = c0]
      /\ count' = [count EXCEPT ![c0] = @ + 1] /\ pc' = [pc EXCEPT ![h] = "rest"]
      /\ sole' = sole \ {h, u} /\ UNCHANGED <<made, arg, freed, crowded, abandoned>>
  BY DEF Copy
<1>3. c0 \in Counts /\ c0 <= made /\ m_pCount[h] = 0 /\ arg[h] = None /\ u \in Holders(c0)
  <2>1. c0 \in 0..made /\ c0 # 0 /\ made \in 0..MaxCounts /\ m_pCount[h] = 0 /\ arg[h] = None
    BY <1>1, <1>2 DEF TypeOK
  <2>2. c0 \in Counts /\ c0 <= made
    BY <2>1, UseCountAssumption DEF Counts
  <2>3. QED
    BY <1>2, <2>1, <2>2 DEF Holders
<1> HIDE DEF c0
<1>4. \A g \in Handles : arg[g] # h
  BY <1>1, <1>2, <1>3, UseCountAssumption DEF Attached
<1>5. \A c \in Counts : /\ h \notin Holders(c)
                        /\ Holders(c)' = IF c = c0 THEN Holders(c) \cup {h} ELSE Holders(c)
                        /\ Takers(c)' = Takers(c) /\ LetGo(c)' = LetGo(c)
  BY <1>1, <1>2, <1>3, <1>4 DEF TypeOK, Holders, Takers, LetGo, Counts
<1>6. TypeOK'
  <2>1. c0 \in 0..made /\ c0 # 0
    BY <1>1, <1>3 DEF TypeOK, Counts
  <2>2. m_pCount' \in [Handles -> 0..made']
    BY <1>1, <1>2, <2>1 DEF TypeOK
  <2>3. count' \in [Counts -> Int]
    BY <1>1, <1>2, <1>3 DEF TypeOK
  <2>4. \A g \in Handles : /\ pc'[g] = "none" <=> m_pCount'[g] = 0
                           /\ arg'[g] # None <=> pc'[g] \in {"taken", "exchanged"}
    BY <1>1, <1>2, <1>3, <2>1 DEF TypeOK
  <2>5. pc' \in [Handles -> {"none", "rest", "released", "shared", "taken", "exchanged"}]
    BY <1>1, <1>2 DEF TypeOK
  <2>6. QED
    BY <1>1, <1>2, <2>2, <2>3, <2>4, <2>5 DEF TypeOK
<1>7. Attached'
  BY <1>1, <1>2, <1>4 DEF Attached, TypeOK
<1>8. Balanced'
  <2>1. \A c \in Counts : Shares(c)' = IF c = c0 THEN Shares(c) + 1 ELSE Shares(c)
    <3> SUFFICES ASSUME NEW c \in Counts
                 PROVE  Shares(c)' = IF c = c0 THEN Shares(c) + 1 ELSE Shares(c)
      OBVIOUS
    <3>1. Holders(c) \in SUBSET Handles /\ Takers(c) \in SUBSET Handles
      BY DEF Holders, Takers
    <3>2. Cardinality(Holders(c)) \in Nat /\ Cardinality(Takers(c)) \in Nat
      BY <3>1, HandlesCard
    <3>3. Cardinality(Holders(c) \cup {h}) = Cardinality(Holders(c)) + 1
      BY <1>5, <3>1, OneMore
    <3>4. QED
      BY <1>5, <3>2, <3>3 DEF Shares
  <2>2. QED
    BY <1>1, <1>2, <1>3, <2>1 DEF Balanced, TypeOK
<1>9. Living'
  BY <1>1, <1>2, <1>3, <1>5 DEF Living
<1>10. Alone'
  <2>1. \A g \in sole' : /\ g \in sole /\ g \in Handles /\ g # h /\ g # u
                         /\ m_pCount'[g] = m_pCount[g] /\ pc'[g] = pc[g]
    BY <1>1, <1>2 DEF Alone, TypeOK
  <2>2. \A g \in sole' : m_pCount'[g] # c0
    BY <1>1, <1>3, <2>1 DEF Alone
  <2>3. QED
    BY <1>1, <1>5, <2>1, <2>2 DEF Alone
<1>11. Crowded'
  BY <1>1, <1>2, <1>5 DEF Crowded
<1>12. Deleted'
  BY <1>1, <1>2, <1>5 DEF Deleted
<1>13. QED
  BY <1>6, <1>7, <1>8, <1>9, <1>10, <1>11, <1>12 DEF IInv

\* A share is given back in one step, by ~CUseCount or by Reattach: the handle
\* holds the count no more and has let go of it.
GivesBack(h) ==
    LET c == m_pCount[h] IN
    /\ count' = [count EXCEPT ![c] = @ - 1]
    /\ \E p \in {"released", "exchanged"} :
         /\ pc' = [pc EXCEPT ![h] = p]
         /\ p = "exchanged" => pc[h] = "taken"
         /\ p = "released" => pc[h] = "rest"
    /\ sole' = sole \ {h}
    /\ Crowd(h)
    /\ UNCHANGED <<m_pCount, made, arg, freed, abandoned>>

\* Giving back keeps the invariant: the handle had a share, so the count was alive,
\* and whoever else stands between decrement and read is recorded.
LEMMA GivesBackIInv ==
    ASSUME IInv, NEW h \in Handles, GivesBack(h), \A g \in Handles : arg[g] = h => g = h
    PROVE  IInv'
<1> DEFINE c0 == m_pCount[h]
<1>1. TypeOK /\ Attached /\ Balanced /\ Living /\ Alone /\ Crowded /\ Deleted
  BY DEF IInv
<1>2. PICK p \in {"released", "exchanged"} :
        /\ pc' = [pc EXCEPT ![h] = p]
        /\ p = "exchanged" => pc[h] = "taken"
        /\ p = "released" => pc[h] = "rest"
  BY DEF GivesBack
<1>3. /\ count' = [count EXCEPT ![c0] = @ - 1] /\ sole' = sole \ {h}
      /\ crowded' = crowded \cup {c \in {c0} : LetGo(c) # {}}
      /\ UNCHANGED <<m_pCount, made, arg, freed, abandoned>>
  BY DEF GivesBack, Crowd
<1>4. c0 \in Counts /\ h \in Holders(c0)
  BY <1>1, <1>2, UseCountAssumption DEF TypeOK, Counts, Holders
<1> HIDE DEF c0
<1>5. \A c \in Counts : /\ Holders(c)' = IF c = c0 THEN Holders(c) \ {h} ELSE Holders(c)
                        /\ Takers(c)' = Takers(c)
                        /\ LetGo(c)' = IF c = c0 THEN LetGo(c) \cup {h} ELSE LetGo(c)
  <2>1. \A g \in Handles : pc'[g] = IF g = h THEN p ELSE pc[g]
    BY <1>1, <1>2 DEF TypeOK
  <2>2. \A c \in Counts : Holders(c)' = IF c = c0 THEN Holders(c) \ {h} ELSE Holders(c)
    BY <1>2, <1>3, <2>1 DEF Holders, c0
  <2>3. \A c \in Counts : LetGo(c)' = IF c = c0 THEN LetGo(c) \cup {h} ELSE LetGo(c)
    BY <1>2, <1>3, <2>1 DEF LetGo, c0
  <2>4. QED
    BY <1>3, <2>2, <2>3 DEF Takers
<1>6. TypeOK'
  BY <1>1, <1>2, <1>3, <1>4 DEF TypeOK
<1>7. Attached'
  BY <1>1, <1>2, <1>3 DEF Attached, TypeOK
<1>8. Balanced'
  <2>1. \A c \in Counts : Shares(c)' = IF c = c0 THEN Shares(c) - 1 ELSE Shares(c)
    <3> SUFFICES ASSUME NEW c \in Counts
                 PROVE  Shares(c)' = IF c = c0 THEN Shares(c) - 1 ELSE Shares(c)
      OBVIOUS
    <3>1. Holders(c) \in SUBSET Handles /\ Takers(c) \in SUBSET Handles
      BY DEF Holders, Takers
    <3>2. Cardinality(Holders(c)) \in Nat /\ Cardinality(Takers(c)) \in Nat
      BY <3>1, HandlesCard
    <3>3. c = c0 => Cardinality(Holders(c) \ {h}) = Cardinality(Holders(c)) - 1
      BY <1>4, <3>1, OneLess
    <3>4. QED
      BY <1>5, <3>2, <3>3 DEF Shares
  <2>2. QED
    BY <1>1, <1>3, <1>4, <2>1 DEF Balanced, TypeOK
<1>9. Living'
  BY <1>1, <1>3, <1>4, <1>5 DEF Living
<1>10. Alone'
  <2> SUFFICES ASSUME NEW g \in sole'
               PROVE  /\ g \in Handles /\ pc'[g] \in {"rest", "shared"}
                      /\ \A c \in Counts :
                           m_pCount'[g] = c => Holders(c)' = {g} /\ Takers(c)' = {}
    BY DEF Alone
  <2>1. /\ g \in sole /\ g # h /\ g \in Handles /\ pc[g] \in {"rest", "shared"}
        /\ \A c \in Counts : m_pCount[g] = c => Holders(c) = {g} /\ Takers(c) = {}
    BY <1>1, <1>3 DEF Alone
  <2>2. pc'[g] = pc[g] /\ m_pCount'[g] = m_pCount[g]
    BY <1>1, <1>2, <1>3, <2>1 DEF TypeOK
  <2>3. m_pCount[g] # c0
    BY <1>4, <2>1
  <2>4. QED
    BY <1>5, <2>1, <2>2, <2>3
<1>11. Crowded'
  <2>1. freed[c0] = 0
    BY <1>1, <1>4 DEF Living, TypeOK
  <2>2. \A c \in Counts : /\ c \in crowded => c \in crowded'
                          /\ c = c0 /\ LetGo(c) # {} => c \in crowded'
    BY <1>3
  <2>3. QED
    BY <1>1, <1>3, <1>5, <2>1, <2>2 DEF Crowded
<1>12. Deleted'
  BY <1>1, <1>3, <1>5 DEF Deleted
<1>13. QED
  BY <1>6, <1>7, <1>8, <1>9, <1>10, <1>11, <1>12 DEF IInv

\* ~CUseCount(), its decrement.
LEMMA ReleaseIInv ==
    ASSUME IInv, NEW h \in Handles, Release(h) PROVE IInv'
BY GivesBackIInv DEF Release, GivesBack, Free

\* Reattach, its decrement: a handle inside Reattach is not told it is alone.
LEMMA ExchangeIInv ==
    ASSUME IInv, NEW h \in Handles, Exchange(h) PROVE IInv'
<1>1. sole = sole \ {h}
  BY DEF IInv, Alone, Exchange
<1>2. \A g \in Handles : arg[g] = h => g = h
  BY DEF IInv, Attached, Exchange
<1>3. GivesBack(h)
  BY <1>1 DEF Exchange, GivesBack
<1>4. QED
  BY <1>2, <1>3, GivesBackIInv

\* What a plain read of a count tells: more than zero while it has shares, and
\* zero when it has none and was not deleted.
LEMMA ReadTells ==
    ASSUME IInv, NEW c \in Counts, NEW v \in Read(c)
    PROVE  /\ v \in Int
           /\ Holders(c) # {} \/ Takers(c) # {} => v > 0
           /\ Holders(c) = {} /\ Takers(c) = {} /\ freed[c] = 0 => v = 0
<1>1. freed[c] \in Nat /\ count[c] \in Int /\ count[c] = Shares(c)
  BY DEF IInv, TypeOK, Balanced
<1>2. Holders(c) # {} \/ Takers(c) # {} => freed[c] = 0
  BY <1>1 DEF IInv, Living
<1>3. v \in Int /\ (freed[c] = 0 => v = count[c])
  BY <1>1 DEF Read
<1>4. QED
  BY <1>1, <1>2, <1>3, SharesNat

\* The read of ~CUseCount and of Reattach, and the deletion it decides on: the
\* count of a handle that has let go is deleted only when it has no share left,
\* and then it is deleted by now.
LEMMA DeletesLast ==
    ASSUME IInv, NEW h \in Handles, NEW v \in Read(m_pCount[h]), h \in LetGo(m_pCount[h]),
           NEW gone \in BOOLEAN, v = 0 => gone, gone => v <= 0, DeleteIf(m_pCount[h], gone)
    PROVE  /\ freed' \in [Counts -> Nat]
           /\ m_pCount[h] \in Counts /\ m_pCount[h] <= made
           /\ \A c \in Counts :
                \/ freed'[c] = freed[c]
                \/ /\ c = m_pCount[h] /\ freed'[c] = freed[c] + 1
                   /\ Holders(c) = {} /\ Takers(c) = {}
           /\ Holders(m_pCount[h]) = {} /\ Takers(m_pCount[h]) = {}
                => freed'[m_pCount[h]] > 0
<1> DEFINE c0 == m_pCount[h]
<1>1. TypeOK
  BY DEF IInv
<1>2. c0 \in 0..made /\ c0 # 0 /\ made \in 0..MaxCounts
  BY <1>1 DEF TypeOK, LetGo
<1>3. c0 \in Counts /\ c0 <= made
  BY <1>2, UseCountAssumption DEF Counts
<1>4. freed' = IF gone THEN [freed EXCEPT ![c0] = @ + 1] ELSE freed
  BY DEF DeleteIf
<1>5. v \in Read(c0)
  OBVIOUS
<1> HIDE DEF c0
<1>6. /\ v \in Int
      /\ Holders(c0) # {} \/ Takers(c0) # {} => v > 0
      /\ Holders(c0) = {} /\ Takers(c0) = {} /\ freed[c0] = 0 => v = 0
  BY <1>3, <1>5, ReadTells
<1>7. freed \in [Counts -> Nat]
  BY <1>1 DEF TypeOK
<1>8. freed' \in [Counts -> Nat]
  <2>1. [freed EXCEPT ![c0] = @ + 1] \in [Counts -> Nat]
    BY <1>3, <1>7
  <2>2. QED
    BY <1>4, <1>7, <2>1
<1>9. \A c \in Counts : \/ freed'[c] = freed[c]
                        \/ /\ c = c0 /\ freed'[c] = freed[c] + 1
                           /\ Holders(c) = {} /\ Takers(c) = {}
  BY <1>4, <1>6, <1>7
<1>10. Holders(c0) = {} /\ Takers(c0) = {} => freed'[c0] > 0
  BY <1>3, <1>4, <1>6, <1>7
<1>11. QED
  BY <1>3, <1>8, <1>9, <1>10 DEF c0

\* ~CUseCount(), its read: the handle is gone.
LEMMA DestroyedIInv ==
    ASSUME IInv, NEW h \in Handles, Destroyed(h) PROVE IInv'
<1> DEFINE c0 == m_pCount[h]
<1>1. TypeOK /\ Attached /\ Balanced /\ Living /\ Alone /\ Crowded /\ Deleted
  BY DEF IInv
<1>2. /\ pc[h] = "released" /\ m_pCount' = [m_pCount EXCEPT ![h] = 0]
      /\ pc' = [pc EXCEPT ![h] = "none"]
      /\ UNCHANGED <<count, made, arg, crowded, abandoned, sole>>
  BY DEF Destroyed, Forget
<1>3. h \in LetGo(c0)
  BY <1>2 DEF LetGo
<1>4. /\ freed' \in [Counts -> Nat] /\ c0 \in Counts /\ c0 <= made
      /\ \A c \in Counts : \/ freed'[c] = freed[c]
                           \/ /\ c = c0 /\ freed'[c] = freed[c] + 1
                              /\ Holders(c) = {} /\ Takers(c) = {}
      /\ Holders(c0) = {} /\ Takers(c0) = {} => freed'[c0] > 0
  <2>1. PICK v \in Read(c0) : DeleteIf(c0, Unused(v))
    BY DEF Destroyed
  <2>2. v \in Int
    <3>1. c0 \in 0..made /\ c0 # 0 /\ made \in 0..MaxCounts
      BY <1>1, <1>2 DEF TypeOK
    <3>2. c0 \in Counts
      BY <3>1, UseCountAssumption DEF Counts
    <3> HIDE DEF c0
    <3>3. QED
      BY <2>1, <3>2, ReadTells
  <2>3. Unused(v) \in BOOLEAN /\ (v = 0 => Unused(v)) /\ (Unused(v) => v <= 0)
    BY <2>2 DEF Unused
  <2>4. QED
    BY <1>3, <2>1, <2>3, DeletesLast
<1> HIDE DEF c0
<1>5. \A g \in Handles : arg[g] # h
  BY <1>1, <1>2, UseCountAssumption DEF Attached, TypeOK
<1>6. \A c \in Counts : /\ Holders(c)' = Holders(c) /\ Takers(c)' = Takers(c)
                        /\ LetGo(c)' = LetGo(c) \ {h}
                        /\ c # c0 => LetGo(c)' = LetGo(c)
  BY <1>1, <1>2, <1>5 DEF TypeOK, Holders, Takers, LetGo, Counts, c0
<1>7. TypeOK'
  BY <1>1, <1>2, <1>4 DEF TypeOK
<1>8. Attached'
  BY <1>1, <1>2, <1>5 DEF Attached, TypeOK
<1>9. Balanced'
  BY <1>1, <1>2, <1>6 DEF Balanced, Shares
<1>10. Living'
  BY <1>1, <1>2, <1>4, <1>6 DEF Living
<1>11. Alone'
  BY <1>1, <1>2, <1>6 DEF Alone, TypeOK
<1>12. Crowded'
  <2>1. freed \in [Counts -> Nat]
    BY <1>1 DEF TypeOK
  <2>2. QED
    BY <1>1, <1>2, <1>3, <1>4, <1>6, <2>1 DEF Crowded
<1>13. Deleted'
  <2>1. freed \in [Counts -> Nat]
    BY <1>1 DEF TypeOK
  <2>2. QED
    BY <1>1, <1>2, <1>4, <1>6, <2>1 DEF Deleted
<1>14. QED
  BY <1>7, <1>8, <1>9, <1>10, <1>11, <1>12, <1>13 DEF IInv

\* Reattach(u), its increment: a share of the count of u.
LEMMA ReattachIInv ==
    ASSUME IInv, NEW h \in Handles, NEW u \in Handles, Reattach(h, u) PROVE IInv'
<1> DEFINE c0 == m_pCount[u]
<1>1. TypeOK /\ Attached /\ Balanced /\ Living /\ Alone /\ Crowded /\ Deleted
  BY DEF IInv
<1>2. /\ pc[h] = "rest" /\ pc[u] = "rest" /\ \A g \in Handles : arg[g] = h => g = h
      /\ count' = [count EXCEPT ![c0] = @ + 1]
      /\ pc' = [pc EXCEPT ![h] = "taken"] /\ arg' = [arg EXCEPT ![h] = u]
      /\ sole' = sole \ {h, u} /\ UNCHANGED <<m_pCount, made, freed, crowded, abandoned>>
  BY DEF Reattach, Free, Take
<1>3. c0 \in Counts /\ c0 <= made /\ arg[h] = None /\ u \in Holders(c0)
  <2>1. c0 \in 0..made /\ c0 # 0 /\ made \in 0..MaxCounts /\ arg[h] = None
    BY <1>1, <1>2 DEF TypeOK
  <2>2. c0 \in Counts /\ c0 <= made
    BY <2>1, UseCountAssumption DEF Counts
  <2>3. QED
    BY <1>2, <2>1, <2>2 DEF Holders
<1>4. \A c \in Counts : /\ h \notin Takers(c)
                        /\ Takers(c)' = IF c = c0 THEN Takers(c) \cup {h} ELSE Takers(c)
                        /\ Holders(c)' = Holders(c) /\ LetGo(c)' = LetGo(c)
  <2>1. \A g \in Handles : /\ pc'[g] = IF g = h THEN "taken" ELSE pc[g]
                           /\ arg'[g] = IF g = h THEN u ELSE arg[g]
    BY <1>1, <1>2 DEF TypeOK
  <2>2. \A c \in Counts : Holders(c)' = Holders(c) /\ LetGo(c)' = LetGo(c)
    BY <1>2, <2>1 DEF Holders, LetGo
  <2>3. \A c \in Counts : /\ h \notin Takers(c)
                          /\ Takers(c)' = IF c = c0 THEN Takers(c) \cup {h} ELSE Takers(c)
    BY <1>2, <1>3, <2>1, UseCountAssumption DEF Takers
  <2>4. QED
    BY <2>2, <2>3
<1> HIDE DEF c0
<1>5. TypeOK'
  BY <1>1, <1>2, <1>3, UseCountAssumption DEF TypeOK
<1>6. Attached'
  BY <1>1, <1>2 DEF Attached, TypeOK
<1>7. Balanced'
  <2>1. \A c \in Counts : Shares(c)' = IF c = c0 THEN Shares(c) + 1 ELSE Shares(c)
    <3> SUFFICES ASSUME NEW c \in Counts
                 PROVE  Shares(c)' = IF c = c0 THEN Shares(c) + 1 ELSE Shares(c)
      OBVIOUS
    <3>1. Holders(c) \in SUBSET Handles /\ Takers(c) \in SUBSET Handles
      BY DEF Holders, Takers
    <3>2. Cardinality(Holders(c)) \in Nat /\ Cardinality(Takers(c)) \in Nat
      BY <3>1, HandlesCard
    <3>3. Cardinality(Takers(c) \cup {h}) = Cardinality(Takers(c)) + 1
      BY <1>4, <3>1, OneMore
    <3>4. QED
      BY <1>4, <3>2, <3>3 DEF Shares
  <2>2. QED
    BY <1>1, <1>2, <1>3, <2>1 DEF Balanced, TypeOK
<1>8. Living'
  BY <1>1, <1>2, <1>3, <1>4 DEF Living
<1>9. Alone'
  <2>1. \A g \in sole' : /\ g \in sole /\ g \in Handles /\ g # h /\ g # u
                         /\ m_pCount'[g] = m_pCount[g] /\ pc'[g] = pc[g]
    BY <1>1, <1>2 DEF Alone, TypeOK
  <2>2. \A g \in sole' : m_pCount'[g] # c0
    BY <1>1, <1>3, <2>1 DEF Alone
  <2>3. QED
    BY <1>1, <1>4, <2>1, <2>2 DEF Alone
<1>10. Crowded'
  BY <1>1, <1>2, <1>4 DEF Crowded
<1>11. Deleted'
  BY <1>1, <1>2, <1>4 DEF Deleted
<1>12. QED
  BY <1>5, <1>6, <1>7, <1>8, <1>9, <1>10, <1>11 DEF IInv

\* Reattach(u), its end: the share taken becomes the handle's own.
LEMMA ReattachedIInv ==
    ASSUME IInv, NEW h \in Handles, Reattached(h) PROVE IInv'
<1> DEFINE c0 == m_pCount[h]
           d == m_pCount[arg[h]]
<1>1. TypeOK /\ Attached /\ Balanced /\ Living /\ Alone /\ Crowded /\ Deleted
  BY DEF IInv
<1>2. /\ pc[h] = "exchanged" /\ m_pCount' = [m_pCount EXCEPT ![h] = d]
      /\ pc' = [pc EXCEPT ![h] = "rest"] /\ arg' = [arg EXCEPT ![h] = None]
      /\ UNCHANGED <<count, made, crowded, abandoned, sole>>
  BY DEF Reattached
<1>3. h \in LetGo(c0)
  BY <1>2 DEF LetGo
<1>4. /\ freed' \in [Counts -> Nat] /\ c0 \in Counts /\ c0 <= made
      /\ \A c \in Counts : \/ freed'[c] = freed[c]
                           \/ /\ c = c0 /\ freed'[c] = freed[c] + 1
                              /\ Holders(c) = {} /\ Takers(c) = {}
      /\ Holders(c0) = {} /\ Takers(c0) = {} => freed'[c0] > 0
  <2>1. PICK v \in Read(c0) : DeleteIf(c0, v = 0)
    BY DEF Reattached
  <2>2. (v = 0) \in BOOLEAN /\ (v = 0 => v <= 0)
    OBVIOUS
  <2>3. QED
    BY <1>3, <2>1, <2>2, DeletesLast
<1>5. /\ arg[h] \in Handles /\ h \in Takers(d) /\ d \in Counts /\ d <= made
      /\ \A g \in Handles : arg[g] = h => g = h
  <2>1. arg[h] # None /\ arg[h] \in Handles
    BY <1>1, <1>2 DEF TypeOK
  <2>2. arg[h] # h => pc[arg[h]] = "rest"
    BY <1>1, <2>1 DEF Attached
  <2>3. pc[arg[h]] # "none"
    BY <1>2, <2>2
  <2>4. d \in 0..made /\ d # 0 /\ made \in 0..MaxCounts
    BY <1>1, <2>1, <2>3 DEF TypeOK
  <2>5. d \in Counts /\ d <= made
    BY <2>4, UseCountAssumption DEF Counts
  <2>6. \A g \in Handles : arg[g] = h => g = h
    BY <1>1, <1>2 DEF Attached
  <2>7. QED
    BY <2>1, <2>5, <2>6 DEF Takers
<1>6. \A c \in Counts : /\ h \notin Holders(c)
                        /\ Holders(c)' = IF c = d THEN Holders(c) \cup {h} ELSE Holders(c)
                        /\ Takers(c)' = IF c = d THEN Takers(c) \ {h} ELSE Takers(c)
                        /\ LetGo(c)' = LetGo(c) \ {h}
                        /\ c # c0 => LetGo(c)' = LetGo(c)
  <2>1. \A g \in Handles : /\ pc'[g] = IF g = h THEN "rest" ELSE pc[g]
                           /\ arg'[g] = IF g = h THEN None ELSE arg[g]
                           /\ m_pCount'[g] = IF g = h THEN d ELSE m_pCount[g]
    BY <1>1, <1>2 DEF TypeOK
  <2>2. \A c \in Counts : /\ h \notin Holders(c)
                          /\ Holders(c)' = IF c = d THEN Holders(c) \cup {h} ELSE Holders(c)
    BY <1>2, <2>1 DEF Holders
  <2>3. \A c \in Counts : /\ LetGo(c)' = LetGo(c) \ {h}
                          /\ c # c0 => LetGo(c)' = LetGo(c)
    BY <1>2, <2>1 DEF LetGo
  <2>4. \A g \in Handles : g # h /\ arg[g] # None => m_pCount'[arg[g]] = m_pCount[arg[g]]
    BY <1>1, <1>5, <2>1 DEF TypeOK
  <2>5. \A c \in Counts : Takers(c)' = IF c = d THEN Takers(c) \ {h} ELSE Takers(c)
    BY <1>5, <2>1, <2>4 DEF Takers
  <2>6. QED
    BY <2>2, <2>3, <2>5
<1> HIDE DEF c0, d
<1>7. TypeOK'
  BY <1>1, <1>2, <1>4, <1>5, UseCountAssumption, SMTT(30) DEF TypeOK, Counts
<1>8. Attached'
  BY <1>1, <1>2, <1>5, UseCountAssumption, SMTT(30) DEF Attached, TypeOK
<1>9. Balanced'
  <2>1. \A c \in Counts : Shares(c)' = Shares(c)
    <3> SUFFICES ASSUME NEW c \in Counts PROVE Shares(c)' = Shares(c)
      OBVIOUS
    <3>1. Holders(c) \in SUBSET Handles /\ Takers(c) \in SUBSET Handles
      BY DEF Holders, Takers
    <3>2. Cardinality(Holders(c)) \in Nat /\ Cardinality(Takers(c)) \in Nat
      BY <3>1, HandlesCard
    <3>3. Cardinality(Holders(c) \cup {h}) = Cardinality(Holders(c)) + 1
      BY <1>6, <3>1, OneMore
    <3>4. c = d => Cardinality(Takers(c) \ {h}) = Cardinality(Takers(c)) - 1
      BY <1>5, <3>1, OneLess
    <3>5. CASE c = d
      <4>1. /\ Cardinality(Holders(c)') = Cardinality(Holders(c)) + 1
            /\ Cardinality(Takers(c)') = Cardinality(Takers(c)) - 1
        BY <1>6, <3>3, <3>4, <3>5
      <4>2. QED
        BY <3>2, <4>1 DEF Shares
    <3>6. CASE c # d
      BY <1>6, <3>6 DEF Shares
    <3>7. QED
      BY <3>5, <3>6
  <2>2. QED
    BY <1>1, <1>2, <2>1 DEF Balanced
<1>10. Living'
  <2>1. \A c \in Counts : freed'[c] > 0 => c <= made /\ Holders(c) = {} /\ Takers(c) = {}
    BY <1>1, <1>4 DEF Living
  <2>2. QED
    BY <1>2, <1>5, <1>6, <2>1 DEF Living
<1>11. Alone'
  <2>1. \A g \in sole : /\ g \in Handles /\ g # h
                        /\ m_pCount'[g] = m_pCount[g] /\ pc'[g] = pc[g]
    BY <1>1, <1>2 DEF Alone, TypeOK
  <2>2. \A g \in sole : m_pCount[g] # d
    BY <1>1, <1>5 DEF Alone
  <2>3. QED
    BY <1>1, <1>2, <1>6, <2>1, <2>2 DEF Alone
<1>12. Crowded'
  <2>1. freed \in [Counts -> Nat]
    BY <1>1 DEF TypeOK
  <2>2. QED
    BY <1>1, <1>2, <1>3, <1>4, <1>6, <2>1 DEF Crowded
<1>13. Deleted'
  <2>1. freed \in [Counts -> Nat]
    BY <1>1 DEF TypeOK
  <2>2. QED
    BY <1>1, <1>2, <1>4, <1>6, <2>1 DEF Deleted
<1>14. QED
  BY <1>7, <1>8, <1>9, <1>10, <1>11, <1>12, <1>13 DEF IInv

\* Only() and Makeonly() that find the count at one: it has no other share.
LEMMA FindsOneIInv ==
    ASSUME IInv, NEW h \in Handles, FindsOne(h) PROVE IInv'
<1> DEFINE c0 == m_pCount[h]
<1>1. TypeOK /\ Attached /\ Balanced /\ Living /\ Alone /\ Crowded /\ Deleted
  BY DEF IInv
<1>2. /\ pc[h] = "rest" /\ count[c0] = 1 /\ sole' = sole \cup {h}
      /\ UNCHANGED <<m_pCount, count, made, pc, arg, freed, crowded, abandoned>>
  BY DEF FindsOne, Free, IsOne
<1>3. c0 \in Counts /\ h \in Holders(c0)
  <2>1. c0 \in 0..made /\ c0 # 0 /\ made \in 0..MaxCounts
    BY <1>1, <1>2 DEF TypeOK
  <2>2. c0 \in Counts
    BY <2>1, UseCountAssumption DEF Counts
  <2>3. QED
    BY <1>2, <2>2 DEF Holders
<1>4. \A c \in Counts : /\ Holders(c)' = Holders(c) /\ Takers(c)' = Takers(c)
                        /\ LetGo(c)' = LetGo(c)
  BY <1>2 DEF Holders, Takers, LetGo
<1>5. Holders(c0) = {h} /\ Takers(c0) = {}
  <2> HIDE DEF c0
  <2>1. Holders(c0) \in SUBSET Handles /\ Takers(c0) \in SUBSET Handles
    BY DEF Holders, Takers
  <2>2. /\ Cardinality(Holders(c0)) \in Nat /\ Cardinality(Holders(c0) \ {h}) \in Nat
        /\ Cardinality(Takers(c0)) \in Nat
        /\ Cardinality(Takers(c0)) = 0 => Takers(c0) = {}
        /\ Cardinality(Holders(c0) \ {h}) = 0 => Holders(c0) \ {h} = {}
    BY <2>1, HandlesCard
  <2>3. Cardinality(Holders(c0) \ {h}) = Cardinality(Holders(c0)) - 1
    BY <1>3, <2>1, OneLess
  <2>4. Cardinality(Holders(c0)) + Cardinality(Takers(c0)) = 1
    BY <1>1, <1>2, <1>3 DEF Balanced, Shares
  <2>5. Cardinality(Takers(c0)) = 0 /\ Cardinality(Holders(c0) \ {h}) = 0
    BY <2>2, <2>3, <2>4
  <2>6. QED
    BY <1>3, <2>2, <2>5
<1>6. Alone'
  <2>1. \A g \in sole' : g \in Handles /\ pc'[g] \in {"rest", "shared"}
    BY <1>1, <1>2 DEF Alone
  <2>2. \A g \in sole', c \in Counts : m_pCount'[g] = c => Holders(c) = {g} /\ Takers(c) = {}
    BY <1>1, <1>2, <1>5 DEF Alone
  <2>3. QED
    BY <1>4, <2>1, <2>2 DEF Alone
<1>7. TypeOK' /\ Attached'
  BY <1>1, <1>2 DEF TypeOK, Attached
<1>8. Balanced'
  BY <1>1, <1>2, <1>4 DEF Balanced, Shares
<1>9. Living' /\ Crowded' /\ Deleted'
  BY <1>1, <1>2, <1>4 DEF Living, Crowded, Deleted
<1>10. QED
  BY <1>6, <1>7, <1>8, <1>9 DEF IInv

\* Makeonly() that finds more: the handle still holds its share.
LEMMA FindsMoreIInv ==
    ASSUME IInv, NEW h \in Handles, FindsMore(h) PROVE IInv'
<1>1. TypeOK /\ Attached /\ Balanced /\ Living /\ Alone /\ Crowded /\ Deleted
  BY DEF IInv
<1>2. /\ pc[h] = "rest" /\ pc' = [pc EXCEPT ![h] = "shared"]
      /\ \A g \in Handles : arg[g] = h => g = h
      /\ UNCHANGED <<m_pCount, count, made, arg, freed, crowded, abandoned, sole>>
  BY DEF FindsMore, Free, history
<1>3. \A c \in Counts : /\ Holders(c)' = Holders(c) /\ Takers(c)' = Takers(c)
                        /\ LetGo(c)' = LetGo(c)
  BY <1>1, <1>2 DEF TypeOK, Holders, Takers, LetGo
<1>4. TypeOK' /\ Attached'
  BY <1>1, <1>2 DEF TypeOK, Attached
<1>5. Balanced'
  BY <1>1, <1>2, <1>3 DEF Balanced, Shares
<1>6. Alone'
  BY <1>1, <1>2, <1>3 DEF Alone, TypeOK
<1>7. Living' /\ Crowded' /\ Deleted'
  BY <1>1, <1>2, <1>3 DEF Living, Crowded, Deleted
<1>8. QED
  BY <1>4, <1>5, <1>6, <1>7 DEF IInv

\* Makeonly() that gives its share back and makes a count: nobody deletes the old
\* one when that share was the last.
LEMMA SplitIInv ==
    ASSUME IInv, NEW h \in Handles, Split(h) PROVE IInv'
<1> DEFINE c0 == m_pCount[h]
           new == made + 1
<1>1. TypeOK /\ Attached /\ Balanced /\ Living /\ Alone /\ Crowded /\ Deleted
  BY DEF IInv
<1>2. /\ pc[h] = "shared" /\ made < MaxCounts /\ made' = new
      /\ count' = [count EXCEPT ![c0] = @ - 1, ![new] = 1]
      /\ abandoned' = IF count'[c0] = 0 THEN abandoned \cup {c0} ELSE abandoned
      /\ m_pCount' = [m_pCount EXCEPT ![h] = new] /\ pc' = [pc EXCEPT ![h] = "rest"]
      /\ sole' = sole \cup {h} /\ UNCHANGED <<arg, freed, crowded>>
  BY DEF Split
<1>3. /\ c0 \in Counts /\ c0 # new /\ new \in Counts /\ made \in Nat /\ h \in Holders(c0)
      /\ arg[h] = None /\ \A g \in Handles : m_pCount[g] # new
  <2>1. /\ c0 \in 0..made /\ c0 # 0 /\ made \in 0..MaxCounts /\ arg[h] = None
        /\ \A g \in Handles : m_pCount[g] \in 0..made
    BY <1>1, <1>2 DEF TypeOK
  <2>2. c0 \in Counts /\ c0 # new /\ new \in Counts /\ made \in Nat
    BY <1>2, <2>1, UseCountAssumption DEF Counts
  <2>3. \A g \in Handles : m_pCount[g] # new
    BY <2>1
  <2>4. QED
    BY <1>2, <2>1, <2>2, <2>3 DEF Holders
<1>4. \A g \in Handles : arg[g] # h
  BY <1>1, <1>2, <1>3, UseCountAssumption DEF Attached
<1>5. \A c \in Counts : /\ Holders(c)' = IF c = c0 THEN Holders(c) \ {h}
                                         ELSE IF c = new THEN {h} ELSE Holders(c)
                        /\ Takers(c)' = Takers(c) /\ LetGo(c)' = LetGo(c)
                        /\ c = new => Holders(c) = {} /\ Takers(c) = {}
  <2>1. \A g \in Handles : /\ pc'[g] = IF g = h THEN "rest" ELSE pc[g]
                           /\ m_pCount'[g] = IF g = h THEN new ELSE m_pCount[g]
    BY <1>1, <1>2 DEF TypeOK
  <2>2. \A c \in Counts : Holders(c)' = IF c = c0 THEN Holders(c) \ {h}
                                        ELSE IF c = new THEN {h} ELSE Holders(c)
    BY <1>2, <1>3, <2>1 DEF Holders
  <2>3. \A g \in Handles : arg[g] # None => /\ m_pCount'[arg[g]] = m_pCount[arg[g]]
                                            /\ m_pCount[arg[g]] # new
    BY <1>1, <1>3, <1>4, <2>1 DEF TypeOK
  <2>4. \A c \in Counts : Takers(c)' = Takers(c) /\ (c = new => Takers(c) = {})
    BY <1>2, <2>3 DEF Takers
  <2>5. \A c \in Counts : LetGo(c)' = LetGo(c)
    BY <1>2, <2>1 DEF LetGo
  <2>6. \A c \in Counts : c = new => Holders(c) = {}
    BY <1>3 DEF Holders
  <2>7. QED
    BY <2>2, <2>4, <2>5, <2>6
<1>6. freed \in [Counts -> Nat] /\ freed[new] = 0 /\ freed[c0] = 0
  <2>1. freed \in [Counts -> Nat]
    BY <1>1 DEF TypeOK
  <2>2. QED
    BY <1>1, <1>3, <2>1 DEF Living
<1> HIDE DEF c0
<1>7. TypeOK'
  <2>1. made' \in 0..MaxCounts /\ \A n \in 0..made : n \in 0..made'
    BY <1>1, <1>2, <1>3 DEF TypeOK, Counts
  <2>2. m_pCount' \in [Handles -> 0..made'] /\ m_pCount'[h] # 0
    BY <1>1, <1>2, <1>3, <2>1 DEF TypeOK
  <2>3. count' \in [Counts -> Int] /\ freed' \in [Counts -> Nat]
    BY <1>1, <1>2, <1>3 DEF TypeOK
  <2>4. QED
    BY <1>1, <1>2, <1>3, <2>1, <2>2, <2>3 DEF TypeOK
<1> HIDE DEF new
<1>8. Attached'
  BY <1>1, <1>2, <1>4 DEF Attached, TypeOK
<1>9. \A c \in Counts : Shares(c)' = IF c = c0 THEN Shares(c) - 1
                                     ELSE IF c = new THEN 1 ELSE Shares(c)
  <2> SUFFICES ASSUME NEW c \in Counts
               PROVE  Shares(c)' = IF c = c0 THEN Shares(c) - 1
                                   ELSE IF c = new THEN 1 ELSE Shares(c)
    OBVIOUS
  <2>1. Holders(c) \in SUBSET Handles /\ Takers(c) \in SUBSET Handles
    BY DEF Holders, Takers
  <2>2. Cardinality(Holders(c)) \in Nat /\ Cardinality(Takers(c)) \in Nat
    BY <2>1, HandlesCard
  <2>3. CASE c = c0
    <3>1. Cardinality(Holders(c) \ {h}) = Cardinality(Holders(c)) - 1
      BY <1>3, <2>1, <2>3, OneLess
    <3>2. QED
      BY <1>5, <2>2, <2>3, <3>1 DEF Shares
  <2>4. CASE c = new
    <3>1. Cardinality(Holders(c)') = 1 /\ Cardinality(Takers(c)') = 0
      BY <1>3, <1>5, <2>4, NoneOrOne, Zenon
    <3>2. QED
      BY <1>3, <2>4, <3>1 DEF Shares
  <2>5. CASE c # c0 /\ c # new
    BY <1>5, <2>5 DEF Shares
  <2>6. QED
    BY <2>3, <2>4, <2>5
<1>10. Balanced'
  BY <1>1, <1>2, <1>3, <1>9 DEF Balanced, TypeOK
<1>11. Living'
  <2>1. \A c \in Counts : freed'[c] > 0 => c # c0 /\ c # new
    BY <1>2, <1>6
  <2>2. made <= made'
    BY <1>2, <1>3 DEF new
  <2>3. \A c \in Counts : c <= made => c <= made'
    BY <1>2, <1>3 DEF new, Counts
  <2>4. QED
    BY <1>1, <1>2, <1>5, <2>1, <2>3 DEF Living
<1>12. Alone'
  <2>1. \A g \in sole : g \in Handles /\ pc[g] \in {"rest", "shared"}
    BY <1>1 DEF Alone
  <2>2. \A g \in sole' : g \in Handles /\ pc'[g] \in {"rest", "shared"}
    BY <1>1, <1>2, <2>1 DEF TypeOK
  <2>3. \A g \in sole : g # h => m_pCount[g] # c0 /\ m_pCount[g] # new
    BY <1>1, <1>3, <2>1 DEF Alone
  <2>4. \A g \in Handles : m_pCount'[g] = IF g = h THEN new ELSE m_pCount[g]
    BY <1>1, <1>2 DEF TypeOK
  <2>5. \A g \in sole', c \in Counts :
          m_pCount'[g] = c => Holders(c)' = {g} /\ Takers(c)' = {}
    <3> SUFFICES ASSUME NEW g \in sole', NEW c \in Counts, m_pCount'[g] = c
                 PROVE  Holders(c)' = {g} /\ Takers(c)' = {}
      OBVIOUS
    <3>1. CASE g = h
      BY <1>3, <1>5, <2>2, <2>4, <3>1
    <3>2. CASE g # h
      BY <1>1, <1>2, <1>5, <2>2, <2>3, <2>4, <3>2 DEF Alone
    <3>3. QED
      BY <3>1, <3>2
  <2>6. QED
    BY <2>2, <2>5 DEF Alone
<1>13. Crowded'
  BY <1>1, <1>2, <1>5 DEF Crowded
<1>14. Deleted'
  <2>1. \A c \in Counts : c = c0 /\ Shares(c)' = 0 => c \in abandoned'
    BY <1>2, <1>10 DEF Balanced
  <2>2. \A c \in Counts : Holders(c)' = {} /\ Takers(c)' = {} => Shares(c)' = 0
    <3>1. \A c \in Counts : Holders(c)' = {} /\ Takers(c)' = {}
            => Cardinality(Holders(c)') = 0 /\ Cardinality(Takers(c)') = 0
      BY NoneOrOne, Zenon
    <3>2. QED
      BY <3>1 DEF Shares
  <2>3. \A c \in Counts : c <= made' => c <= made \/ c = new
    BY <1>2, <1>3 DEF new, Counts
  <2>4. \A c \in abandoned : c \in abandoned'
    BY <1>2
  <2>5. QED
    BY <1>1, <1>2, <1>5, <2>1, <2>2, <2>3, <2>4 DEF Deleted
<1>15. QED
  BY <1>7, <1>8, <1>10, <1>11, <1>12, <1>13, <1>14 DEF IInv

-----------------------------------------------------------------------------
\* What the properties ask follows.
LEMMA SharedFollows == IInv => SharedIsAlive
<1> SUFFICES ASSUME IInv PROVE SharedIsAlive
  OBVIOUS
<1>1. TypeOK /\ Balanced /\ Living /\ Alone
  BY DEF IInv
<1>2. \A c \in Counts : Shares(c) > 0 => freed[c] = 0 /\ count[c] = Shares(c)
  BY <1>1, SharesNat DEF Balanced, Living, TypeOK
<1>3. \A h \in sole, u \in Handles :
        u # h /\ m_pCount[u] = m_pCount[h] => u \in LetGo(m_pCount[h])
  <2> SUFFICES ASSUME NEW h \in sole, NEW u \in Handles, u # h, m_pCount[u] = m_pCount[h]
               PROVE  u \in LetGo(m_pCount[h])
    OBVIOUS
  <2>1. h \in Handles /\ pc[h] # "none"
    BY <1>1 DEF Alone
  <2>2. m_pCount[h] \in 0..made /\ m_pCount[h] # 0 /\ made \in 0..MaxCounts
    BY <1>1, <2>1 DEF TypeOK
  <2>3. m_pCount[h] \in Counts
    BY <2>2, UseCountAssumption DEF Counts
  <2>4. u \notin Holders(m_pCount[h])
    BY <1>1, <2>3 DEF Alone
  <2>5. pc[u] # "none"
    BY <1>1, <2>2 DEF TypeOK
  <2>6. QED
    BY <1>1, <2>4, <2>5 DEF Holders, LetGo, TypeOK
<1>4. QED
  BY <1>1, <1>2, <1>3 DEF SharedIsAlive

\* And so does what is asked of deletions.
LEMMA DeletedFollows == IInv => DeletedOnce
<1> SUFFICES ASSUME IInv PROVE DeletedOnce
  OBVIOUS
<1>1. TypeOK /\ Crowded /\ Deleted
  BY DEF IInv
<1>2. \A c \in 1..made : c \in Counts /\ c <= made
  BY <1>1, UseCountAssumption DEF TypeOK, Counts
<1>3. QED
  BY <1>1, <1>2, SharesNat DEF DeletedOnce, Crowded, Deleted

\* The inductive invariant: a count is the number of its shares, always.
THEOREM IInvHolds == Spec => []IInv
<1>1. IInv /\ [Next]_vars => IInv'
  <2> SUFFICES ASSUME IInv, [Next]_vars PROVE IInv'
    OBVIOUS
  <2>1. CASE Next
    <3>1. PICK h \in Handles :
            \/ Construct(h) \/ Release(h) \/ Destroyed(h) \/ Exchange(h)
            \/ Reattached(h) \/ FindsOne(h) \/ FindsMore(h) \/ Split(h)
            \/ \E u \in Handles : Copy(h, u) \/ Reattach(h, u)
      BY <2>1 DEF Next
    <3>2. QED
      BY <3>1, ConstructIInv, ReleaseIInv, DestroyedIInv, ExchangeIInv, ReattachedIInv,
         FindsOneIInv, FindsMoreIInv, SplitIInv, CopyIInv, ReattachIInv
  <2>2. CASE UNCHANGED vars
    <3>1. UNCHANGED <<m_pCount, count, made, pc, arg, freed, crowded, abandoned, sole>>
      BY <2>2 DEF vars, history
    <3>2. \A c \in Counts : /\ Holders(c)' = Holders(c) /\ Takers(c)' = Takers(c)
                            /\ LetGo(c)' = LetGo(c)
      BY <3>1 DEF Holders, Takers, LetGo
    <3>3. Balanced'
      BY <3>1, <3>2 DEF IInv, Balanced, Shares
    <3>4. TypeOK' /\ Attached'
      BY <3>1 DEF IInv, TypeOK, Attached
    <3>5. Living' /\ Alone' /\ Crowded' /\ Deleted'
      BY <3>1, <3>2 DEF IInv, Living, Alone, Crowded, Deleted
    <3>6. QED
      BY <3>3, <3>4, <3>5 DEF IInv
  <2>3. QED
    BY <2>1, <2>2
<1>2. QED
  BY <1>1, InitIInv, PTL DEF Spec

\* A count that a handle shares has not been deleted and counts its shares, and
\* the only handle of a count stays it, for any number of handles, threads and
\* counts (UseCount.cpp:22-61).
THEOREM SharedAlwaysAlive == Spec => []SharedIsAlive
BY IInvHolds, SharedFollows, PTL

\* The last to let go of a count deletes it, once, but for the two exceptions that
\* DeletedOnce names (UseCount.cpp:33-34, Makeonly).
THEOREM AlwaysDeletedOnce == Spec => []DeletedOnce
BY IInvHolds, DeletedFollows, PTL
=============================================================================
