-------------------------- MODULE WnafCacheProofs --------------------------
(***************************************************************************)
(* Proofs about WnafCache, for any number of threads, points and windows   *)
(* and any cap: type correctness, the bound under a caller's mutex, the    *)
(* bound without one, that a call always multiplies with its own table,    *)
(* that the cache only holds complete tables, and that it forgets the      *)
(* oldest first.                                                           *)
(***************************************************************************)
EXTENDS WnafCache, FiniteSetTheorems, SequenceTheorems, TLAPS

\* The environment is what it was at the start.
LEMMA SameEnvironment ==
  ASSUME [Next]_vars PROVE env' = env
BY DEF Next, vars, Step, Call, Hit, Miss, CheckRoom, CheckFull, Evict, PickVictim,
       DeleteVictim, BuildEntry, Insert, Use, Abort

\* A position is in the cache or 0, and a position in the cache holds the key.
LEMMA PositionFacts ==
  ASSUME 0 \notin DOMAIN cache, NEW k
  PROVE  /\ Position(k) = 0 => \A i \in DOMAIN cache : cache[i].key # k
         /\ Position(k) # 0 => /\ Position(k) \in DOMAIN cache
                               /\ cache[Position(k)].key = k
<1>1. CASE \E i \in DOMAIN cache : cache[i].key = k
  <2>1. /\ Position(k) \in DOMAIN cache
        /\ cache[Position(k)].key = k
    BY <1>1 DEF Position
  <2>2. QED  BY <2>1
<1>2. CASE ~ \E i \in DOMAIN cache : cache[i].key = k
  BY <1>2 DEF Position
<1>3. QED  BY <1>1, <1>2

\* Removing an entry leaves the others, in their order.
LEMMA RemoveAtFacts ==
  ASSUME NEW S, NEW s \in Seq(S), NEW i \in 1..Len(s)
  PROVE  /\ RemoveAt(s, i) \in Seq(S)
         /\ Len(RemoveAt(s, i)) = Len(s) - 1
         /\ \A j \in 1..Len(s) - 1 :
              RemoveAt(s, i)[j] = IF j < i THEN s[j] ELSE s[j + 1]
<1> DEFINE u == SubSeq(s, 1, i - 1)
<1> DEFINE v == SubSeq(s, i + 1, Len(s))
<1>1. Len(s) \in Nat /\ i \in Int /\ \A j \in 1..Len(s) : s[j] \in S
  BY LenProperties, ElementOfSeq
<1>2. /\ u \in Seq(S) /\ Len(u) = i - 1
      /\ \A j \in 1..i - 1 : u[j] = s[1 + j - 1]
  BY <1>1, SubSeqProperties
<1>3. /\ v \in Seq(S) /\ Len(v) = Len(s) - i
      /\ \A j \in 1..Len(s) - i : v[j] = s[i + 1 + j - 1]
  BY <1>1, SubSeqProperties
<1>4. RemoveAt(s, i) = u \o v
  BY DEF RemoveAt
<1> HIDE DEF u, v
<1>5. /\ u \o v \in Seq(S)
      /\ Len(u \o v) = Len(u) + Len(v)
      /\ \A j \in 1..Len(u) + Len(v) :
           (u \o v)[j] = IF j <= Len(u) THEN u[j] ELSE v[j - Len(u)]
  BY <1>2, <1>3, ConcatProperties
<1>6. ASSUME NEW j \in 1..Len(s) - 1
      PROVE  (u \o v)[j] = IF j < i THEN s[j] ELSE s[j + 1]
  <2>1. CASE j <= i - 1
    <3>1. (u \o v)[j] = u[j] /\ 1 + j - 1 = j /\ j < i
      BY <1>1, <1>2, <1>3, <1>5, <2>1
    <3>2. QED  BY <1>1, <1>2, <2>1, <3>1
  <2>2. CASE j > i - 1
    <3> DEFINE m == j - (i - 1)
    <3>1. m \in 1..Len(s) - i /\ i + 1 + m - 1 = j + 1 /\ ~(j < i)
      BY <1>1, <2>2
    <3>2. (u \o v)[j] = v[m]
      BY <1>1, <1>2, <1>3, <1>5, <2>2
    <3>3. v[m] = s[i + 1 + m - 1]
      BY <1>3, <3>1
    <3>4. QED  BY <3>1, <3>2, <3>3
  <2>3. j \in Int
    BY <1>1
  <2>4. j <= i - 1 \/ j > i - 1
    BY <1>1, <2>3
  <2>5. QED  BY <2>1, <2>2, <2>4
<1>7. QED  BY <1>1, <1>2, <1>3, <1>4, <1>5, <1>6

\* An insertion appends its entry or overwrites the one with the same key.
LEMMA InsertFacts ==
  ASSUME NEW t \in Threads, Insert(t), NEW S, cache \in Seq(S),
         [key |-> CacheKey(call[t]), tbl |-> tbl[t]] \in S
  PROVE  \/ cache' = Append(cache, [key |-> CacheKey(call[t]), tbl |-> tbl[t]])
            /\ Len(cache') = Len(cache) + 1
         \/ /\ Position(CacheKey(call[t])) \in 1..Len(cache)
            /\ cache' = [cache EXCEPT ![Position(CacheKey(call[t]))] =
                            [key |-> CacheKey(call[t]), tbl |-> tbl[t]]]
            /\ Len(cache') = Len(cache)
<1> DEFINE i == Position(CacheKey(call[t]))
           e == [key |-> CacheKey(call[t]), tbl |-> tbl[t]]
<1>0. DOMAIN cache = 1..Len(cache) /\ 0 \notin DOMAIN cache
  BY LenProperties
<1>1. CASE i = 0
  <2>1. cache' = Append(cache, e)
    BY <1>1 DEF Insert
  <2>2. Len(cache') = Len(cache) + 1
    BY <2>1
  <2>3. QED  BY <2>1, <2>2
<1>2. CASE i # 0
  <2>1. cache' = [cache EXCEPT ![i] = e] /\ i \in 1..Len(cache)
    BY <1>0, <1>2, PositionFacts DEF Insert
  <2>2. Len(cache') = Len(cache)
    BY <2>1, ExceptSeq
  <2>3. QED  BY <2>1, <2>2
<1>3. QED  BY <1>1, <1>2

-----------------------------------------------------------------------------
(* Type correctness *)

\* Every variable keeps its shape, and a thread that builds or uses a table
\* holds one: type correctness of the shared cache and of the threads' locals.
THEOREM Typing == Spec => []TypeOK
<1> USE NilAssumption, WindowsAssumption
<1>1. Init => TypeOK
  BY DEF Init, TypeOK, Labels
<1>2. TypeOK /\ [Next]_vars => TypeOK'
  <2> SUFFICES ASSUME TypeOK, [Next]_vars PROVE TypeOK'
    OBVIOUS
  <2> USE DEF TypeOK, Labels
  <2>0. DOMAIN cache = 1..Len(cache) /\ Len(cache) \in Nat /\ 0 \notin DOMAIN cache
    BY LenProperties
  <2>1. CASE UNCHANGED vars
    BY <2>1 DEF vars
  <2>2. ASSUME NEW t \in Threads, NEW c \in Calls, Call(t, c) PROVE TypeOK'
    BY <2>2 DEF Call, Goto, Locked
  <2>3. ASSUME NEW t \in Threads, Hit(t) PROVE TypeOK'
    <3> DEFINE i == Position(CacheKey(call[t]))
    <3>1. i \in DOMAIN cache
      BY <2>0, <2>3, PositionFacts DEF Hit
    <3>2. cache[i] \in [key : Keys, tbl : Tables]
      BY <2>0, <3>1, ElementOfSeq
    <3>3. QED  BY <2>3, <3>2 DEF Hit, Goto
  <2>4. ASSUME NEW t \in Threads, Miss(t) PROVE TypeOK'
    BY <2>4 DEF Miss, Goto
  <2>5. ASSUME NEW t \in Threads, pc[t] # "idle"
        PROVE  [w |-> call[t].w, pt |-> call[t].pt, filled |-> 1] \in Tables
    BY <2>5 DEF Calls, Tables
  <2>6. ASSUME NEW t \in Threads, CheckRoom(t) PROVE TypeOK'
    BY <2>5, <2>6 DEF CheckRoom, NewTable, Goto
  <2>7. ASSUME NEW t \in Threads, CheckFull(t) PROVE TypeOK'
    BY <2>7 DEF CheckFull, Goto
  <2>8. ASSUME NEW t \in Threads, Evict(t) PROVE TypeOK'
    <3>1. cache' \in Seq([key : Keys, tbl : Tables])
      BY <2>8, HeadTailProperties DEF Evict
    <3>2. QED  BY <2>5, <2>8, <3>1 DEF Evict, NewTable, Goto
  <2>9. ASSUME NEW t \in Threads, PickVictim(t) PROVE TypeOK'
    <3>1. cache # << >> => Head(cache) \in [key : Keys, tbl : Tables]
      BY HeadTailProperties
    <3>2. QED  BY <2>9, <3>1 DEF PickVictim, Goto
  <2>10. ASSUME NEW t \in Threads, DeleteVictim(t) PROVE TypeOK'
    <3>1. cache' \in Seq([key : Keys, tbl : Tables])
      BY <2>0, <2>10, PositionFacts, RemoveAtFacts DEF DeleteVictim
    <3>2. QED  BY <2>5, <2>10, <3>1 DEF DeleteVictim, NewTable, Goto
  <2>11. ASSUME NEW t \in Threads, BuildEntry(t) PROVE TypeOK'
    <3>1. [tbl[t] EXCEPT !.filled = @ + 1] \in Tables
      <4>1. tbl[t] \in Tables
        BY <2>11 DEF BuildEntry
      <4>2. \A b \in Tables : [b EXCEPT !.filled = @ + 1] \in Tables
        BY ONLY TRUE DEF Tables
      <4>3. QED  BY ONLY <4>1, <4>2
    <3>2. QED  BY <2>11, <3>1 DEF BuildEntry
  <2>12. ASSUME NEW t \in Threads, Insert(t) PROVE TypeOK'
    <3> DEFINE i == Position(CacheKey(call[t]))
               e == [key |-> CacheKey(call[t]), tbl |-> tbl[t]]
    <3>1. e \in [key : Keys, tbl : Tables]
      BY <2>12 DEF Insert, Keys
    <3>2. cache' \in Seq([key : Keys, tbl : Tables])
      <4>1. CASE cache' = Append(cache, e)
        BY <3>1, <4>1
      <4>2. CASE cache' = [cache EXCEPT ![i] = e] /\ i \in 1..Len(cache)
        BY <3>1, <4>2, ExceptSeq
      <4>3. QED  BY <2>12, <3>1, <4>1, <4>2, InsertFacts
    <3>3. QED  BY <2>12, <3>2 DEF Insert, Goto
  <2>13. ASSUME NEW t \in Threads, Use(t) \/ Abort(t) PROVE TypeOK'
    BY <2>13 DEF Use, Abort, Leave, Goto, Locked
  <2>14. QED
    BY <2>1, <2>2, <2>3, <2>4, <2>6, <2>7, <2>8, <2>9, <2>10, <2>11, <2>12,
       <2>13 DEF Next, Step
<1>3. QED  BY <1>1, <1>2, PTL DEF Spec

-----------------------------------------------------------------------------
(* The bound under a caller's mutex *)

\* The owner of the mutex is the only thread inside a call, so what it has
\* read of the cache is still so when it acts on it.
LEMMA MutexHolds == Spec => []MutexInv
<1> USE MaxAssumption, NilAssumption
<1>1. Init => MutexInv
  BY DEF Init, MutexInv, CacheBounded
<1>2. TypeOK /\ MutexInv /\ [Next]_vars => MutexInv'
  <2> SUFFICES ASSUME TypeOK, MutexInv, [Next]_vars, Locked PROVE MutexInv'
    BY SameEnvironment DEF MutexInv, Locked
  <2> USE DEF MutexInv, CacheBounded
  <2>0. /\ cache \in Seq([key : Keys, tbl : Tables])
        /\ DOMAIN cache = 1..Len(cache) /\ Len(cache) \in Nat
        /\ 0 \notin DOMAIN cache
        /\ cache # << >> => Len(cache) > 0
        /\ pc \in [Threads -> Labels]
        /\ victim \in [Threads -> Keys \cup {Nil}]
    BY LenProperties, EmptySeq DEF TypeOK
  <2>1. CASE UNCHANGED vars
    BY <2>1 DEF vars
  <2>2. ASSUME NEW t \in Threads, NEW c \in Calls, Call(t, c) PROVE MutexInv'
    BY <2>0, <2>2 DEF Call, Goto
  <2>3. ASSUME NEW t \in Threads, Hit(t) \/ Miss(t) \/ BuildEntry(t)
        PROVE  MutexInv'
    BY <2>0, <2>3 DEF Hit, Miss, BuildEntry, Goto
  <2>4. ASSUME NEW t \in Threads, CheckRoom(t) PROVE MutexInv'
    BY <2>0, <2>4 DEF CheckRoom, Goto
  <2>5. ASSUME NEW t \in Threads, CheckFull(t) PROVE MutexInv'
    <3>1. cache # << >>
      BY <2>0, <2>5, EmptySeq DEF CheckFull
    <3>2. QED  BY <2>0, <2>5, <3>1 DEF CheckFull, Goto
  <2>6. ASSUME NEW t \in Threads, Evict(t) PROVE MutexInv'
    <3>1. Len(cache') = Len(cache) - 1
      BY <2>0, <2>6, HeadTailProperties DEF Evict
    <3>2. Len(cache') < WNAF_CACHE_MAX /\ Len(cache') <= WNAF_CACHE_MAX
      BY <2>0, <3>1
    <3>3. \A u \in Threads : u # t => pc[u] = "idle"
      BY <2>6 DEF Evict
    <3>4. pc' = [pc EXCEPT ![t] = "build"] /\ lock' = lock
      BY <2>6 DEF Evict, Goto
    <3>5. QED  BY <2>0, <2>6, <3>2, <3>3, <3>4 DEF Evict
  <2>7. ASSUME NEW t \in Threads, PickVictim(t) PROVE MutexInv'
    <3>1. cache # << >> /\ Head(cache) = cache[1]
      BY <2>0, <2>7 DEF PickVictim
    <3>2. QED  BY <2>0, <2>7, <3>1 DEF PickVictim, Goto
  <2>8. ASSUME NEW t \in Threads, DeleteVictim(t) PROVE MutexInv'
    <3>1. 1 \in DOMAIN cache /\ cache[1].key = victim[t]
      BY <2>0, <2>8 DEF DeleteVictim
    <3>2. Position(victim[t]) # 0
      BY <2>0, <3>1, PositionFacts
    <3>3. Position(victim[t]) \in 1..Len(cache)
      BY <2>0, <3>2, PositionFacts
    <3>4. Len(cache') = Len(cache) - 1
      BY <2>0, <2>8, <3>3, RemoveAtFacts DEF DeleteVictim
    <3>5. Len(cache') < WNAF_CACHE_MAX /\ Len(cache') <= WNAF_CACHE_MAX
      BY <2>0, <3>4
    <3>6. \A u \in Threads : u # t => pc[u] = "idle"
      BY <2>8 DEF DeleteVictim
    <3>7. pc' = [pc EXCEPT ![t] = "build"] /\ lock' = lock
      BY <2>8 DEF DeleteVictim, Goto
    <3>8. QED  BY <2>0, <2>8, <3>5, <3>6, <3>7 DEF DeleteVictim
  <2>9. ASSUME NEW t \in Threads, Insert(t) PROVE MutexInv'
    <3>1. [key |-> CacheKey(call[t]), tbl |-> tbl[t]] \in [key : Keys, tbl : Tables]
      BY <2>9 DEF Insert, Keys, TypeOK
    <3>2. Len(cache') \in {Len(cache), Len(cache) + 1}
      BY <2>0, <2>9, <3>1, InsertFacts
    <3>3. QED  BY <2>0, <2>9, <3>2 DEF Insert, Goto
  <2>10. ASSUME NEW t \in Threads, Use(t) \/ Abort(t) PROVE MutexInv'
    BY <2>0, <2>10 DEF Use, Abort, Leave, Goto
  <2>11. QED
    BY <2>1, <2>2, <2>3, <2>4, <2>5, <2>6, <2>7, <2>8, <2>9, <2>10
       DEF Next, Step
<1>3. QED  BY <1>1, <1>2, Typing, PTL DEF Spec

\* With the mutex that docs/security.md asks multi-threaded callers to hold,
\* the cache keeps its documented bound, however evict-and-insert is split.
THEOREM MutexBound == Spec => []MutexKeepsBound
<1>1. MutexInv => MutexKeepsBound
  BY DEF MutexInv, MutexKeepsBound
<1>2. QED  BY <1>1, MutexHolds, PTL

-----------------------------------------------------------------------------
(* The bound without a mutex *)

\* The threads past their size check are some of the threads.
LEMMA BuildingFacts ==
  /\ IsFiniteSet(Building) /\ Cardinality(Building) \in Nat
  /\ Cardinality(Threads) \in Nat \ {0}
  /\ \A t \in Threads \ Building :
       Cardinality(Building \cup {t}) = Cardinality(Building) + 1
       /\ Cardinality(Building) + 1 <= Cardinality(Threads)
  /\ \A t \in Building : Cardinality(Building \ {t}) = Cardinality(Building) - 1
<1> USE ThreadsAssumption
<1>1. Building \in SUBSET Threads
  BY DEF Building
<1>2. IsFiniteSet(Building)
  BY <1>1, FS_Subset
<1>3. Cardinality(Building) \in Nat /\ Cardinality(Threads) \in Nat
  BY <1>2, FS_CardinalityType
<1>4. Cardinality(Threads) # 0
  BY FS_EmptySet
<1>5. ASSUME NEW t \in Threads \ Building
      PROVE  Cardinality(Building \cup {t}) = Cardinality(Building) + 1
             /\ Cardinality(Building) + 1 <= Cardinality(Threads)
  <2>1. Building \cup {t} \in SUBSET Threads
    BY <1>1
  <2>2. Cardinality(Building \cup {t}) = Cardinality(Building) + 1
    BY <1>2, <1>5, FS_AddElement
  <2>3. Cardinality(Building \cup {t}) <= Cardinality(Threads)
    BY <2>1, FS_Subset
  <2>4. QED  BY <2>2, <2>3
<1>6. \A t \in Building : Cardinality(Building \ {t}) = Cardinality(Building) - 1
  BY <1>2, FS_RemoveElement
<1>7. QED  BY <1>2, <1>3, <1>4, <1>5, <1>6

\* Where keys.first and delete run as one, no thread stands between them.
NoSplitEviction == AtomicEvict => \A t \in Threads : pc[t] # "delete"

LEMMA NeverBetween == Spec => []NoSplitEviction
<1>1. Init => NoSplitEviction
  BY DEF Init, NoSplitEviction
<1>2. TypeOK /\ NoSplitEviction /\ [Next]_vars => NoSplitEviction'
  <2> SUFFICES ASSUME TypeOK, NoSplitEviction, [Next]_vars, AtomicEvict
               PROVE  NoSplitEviction'
    BY SameEnvironment DEF NoSplitEviction, AtomicEvict
  <2>1. pc \in [Threads -> Labels]
    BY DEF TypeOK
  <2>2. pc' = pc \/ \E t \in Threads, l \in Labels \ {"delete"} : Goto(t, l)
    <3>1. CASE UNCHANGED vars
      BY <3>1 DEF vars
    <3>2. ASSUME NEW t \in Threads, NEW c \in Calls, Call(t, c)
          PROVE  \E l \in Labels \ {"delete"} : Goto(t, l)
      BY <3>2 DEF Call, Labels
    <3>3. ASSUME NEW t \in Threads, Step(t) \/ Abort(t), pc' # pc
          PROVE  \E l \in Labels \ {"delete"} : Goto(t, l)
      BY <3>3 DEF Step, Hit, Miss, CheckRoom, CheckFull, Evict, PickVictim,
                  DeleteVictim, BuildEntry, Insert, Use, Abort, Leave, Labels
    <3>4. QED  BY <3>1, <3>2, <3>3 DEF Next
  <2>3. QED  BY <2>1, <2>2 DEF NoSplitEviction, Goto
<1>3. QED  BY <1>1, <1>2, Typing, PTL DEF Spec

\* Threads that share the cache without a mutex overrun the cap by less than
\* their number, as long as keys.first and delete run as one (on MRI).
THEOREM OverrunIsBounded == Spec => []OverrunBounded
<1> USE MaxAssumption
<1>1. Init => OverrunInv
  <2> SUFFICES ASSUME Init PROVE OverrunInv
    OBVIOUS
  <2>1. Building = {} /\ Len(cache) = 0
    BY DEF Init, Building
  <2>2. Cardinality(Building) = 0
    BY <2>1, FS_EmptySet
  <2>3. QED  BY <2>1, <2>2, BuildingFacts DEF OverrunInv
<1>2. TypeOK /\ NoSplitEviction /\ OverrunInv /\ [Next]_vars => OverrunInv'
  <2> SUFFICES ASSUME TypeOK, NoSplitEviction, OverrunInv, [Next]_vars, AtomicEvict
               PROVE  OverrunInv'
    BY SameEnvironment DEF OverrunInv, AtomicEvict
  <2> USE DEF OverrunInv
  <2>0. /\ cache \in Seq([key : Keys, tbl : Tables]) /\ Len(cache) \in Nat
        /\ pc \in [Threads -> Labels]
        /\ cache # << >> => Len(cache) > 0
    BY LenProperties, EmptySeq DEF TypeOK
  <2>1. ASSUME Building' = Building, Len(cache') = Len(cache) PROVE OverrunInv'
    BY <2>1
  <2>2. CASE UNCHANGED vars
    BY <2>1, <2>2 DEF vars, Building
  <2>3. ASSUME NEW t \in Threads, NEW c \in Calls, Call(t, c) PROVE OverrunInv'
    BY <2>0, <2>1, <2>3 DEF Call, Goto, Building
  <2>4. ASSUME NEW t \in Threads,
               Hit(t) \/ Miss(t) \/ CheckFull(t) \/ BuildEntry(t)
        PROVE  OverrunInv'
    BY <2>0, <2>1, <2>4 DEF Hit, Miss, CheckFull, BuildEntry, Goto, Building
  <2>5. ASSUME NEW t \in Threads, CheckRoom(t) PROVE OverrunInv'
    <3>1. t \in Threads \ Building /\ Building' = Building \cup {t}
      BY <2>0, <2>5 DEF CheckRoom, Goto, Building
    <3>2. Len(cache') = Len(cache) /\ Len(cache) <= WNAF_CACHE_MAX - 1
      BY <2>0, <2>5 DEF CheckRoom
    <3>3. QED  BY <2>0, <3>1, <3>2, BuildingFacts
  <2>6. ASSUME NEW t \in Threads, Evict(t) PROVE OverrunInv'
    <3>1. t \in Threads \ Building /\ Building' = Building \cup {t}
      BY <2>0, <2>6 DEF Evict, Goto, Building
    <3>2. CASE cache = << >>
      <4>1. Len(cache') = 0
        BY <2>6, <3>2 DEF Evict
      <4>2. QED  BY <3>1, <4>1, BuildingFacts
    <3>3. CASE cache # << >>
      <4>1. Len(cache') = Len(cache) - 1
        BY <2>0, <2>6, <3>3, HeadTailProperties DEF Evict
      <4>2. QED  BY <2>0, <3>1, <4>1, BuildingFacts
    <3>4. QED  BY <3>2, <3>3
  <2>7. ASSUME NEW t \in Threads, PickVictim(t) PROVE OverrunInv'
    BY <2>7 DEF PickVictim
  <2>8. ASSUME NEW t \in Threads, DeleteVictim(t) PROVE OverrunInv'
    BY <2>8 DEF DeleteVictim, NoSplitEviction
  <2>9. ASSUME NEW t \in Threads, Insert(t) PROVE OverrunInv'
    <3>1. t \in Building /\ Building' = Building \ {t}
      BY <2>0, <2>9 DEF Insert, Goto, Building
    <3>2. [key |-> CacheKey(call[t]), tbl |-> tbl[t]] \in [key : Keys, tbl : Tables]
      BY <2>9 DEF Insert, Keys, TypeOK
    <3>3. Len(cache') \in {Len(cache), Len(cache) + 1}
      BY <2>0, <2>9, <3>2, InsertFacts
    <3>4. QED  BY <2>0, <3>1, <3>3, BuildingFacts
  <2>10. ASSUME NEW t \in Threads, Use(t) \/ Abort(t) PROVE OverrunInv'
    <3>1. Building' = Building \ {t} /\ cache' = cache
      BY <2>0, <2>10 DEF Use, Abort, Leave, Goto, Building
    <3>2. CASE t \in Building
      BY <2>0, <3>1, <3>2, BuildingFacts
    <3>3. CASE t \notin Building
      BY <2>1, <3>1, <3>3
    <3>4. QED  BY <3>2, <3>3
  <2>11. QED
    BY <2>2, <2>3, <2>4, <2>5, <2>6, <2>7, <2>8, <2>9, <2>10 DEF Next, Step
<1>3. OverrunInv => OverrunBounded
  <2> SUFFICES ASSUME OverrunInv PROVE OverrunBounded
    OBVIOUS
  <2>1. QED  BY BuildingFacts DEF OverrunInv, OverrunBounded
<1>4. QED  BY <1>1, <1>2, <1>3, Typing, NeverBetween, PTL DEF Spec

-----------------------------------------------------------------------------
(* The table a call multiplies with *)

\* A thread only builds the table of its own call, and the cache only holds
\* complete tables: what another thread looks up cannot be half built.
LEMMA TablesStay == Spec => [](TableInv /\ UsesRightTable)
<1>1. Init => TableInv /\ UsesRightTable
  <2> SUFFICES ASSUME Init PROVE TableInv /\ UsesRightTable
    OBVIOUS
  <2>1. DOMAIN cache = {}
    BY DEF Init
  <2>2. QED  BY <2>1 DEF Init, TableInv, UsesRightTable
<1>2. TypeOK /\ TableInv /\ UsesRightTable /\ [Next]_vars
        => TableInv' /\ UsesRightTable'
  <2> SUFFICES ASSUME TypeOK, TableInv, UsesRightTable, [Next]_vars
               PROVE  TableInv' /\ UsesRightTable'
    OBVIOUS
  <2> DEFINE Entry == [key : Keys, tbl : Tables]
             LocalInv == \A t \in Threads : pc[t] \in {"build", "use"} =>
                           tbl[t].w = call[t].w /\ tbl[t].pt = call[t].pt
             Filed(e) == /\ e.key = <<e.tbl.w, e.tbl.pt>>
                         /\ e.tbl.filled = TblSize(e.tbl.w)
             CacheInv == \A i \in DOMAIN cache : Filed(cache[i])
  <2>0. /\ cache \in Seq(Entry) /\ Len(cache) \in Nat
        /\ DOMAIN cache = 1..Len(cache) /\ 0 \notin DOMAIN cache
        /\ pc \in [Threads -> Labels]
        /\ call \in [Threads -> Calls \cup {Nil}]
        /\ tbl \in [Threads -> Tables \cup {Nil}]
        /\ \A t \in Threads : pc[t] # "idle" => call[t] \in Calls
        /\ \A t \in Threads : pc[t] \in {"build", "use"} => tbl[t] \in Tables
    BY LenProperties DEF TypeOK
  <2>1. LocalInv /\ CacheInv
    BY DEF TableInv
  <2> USE DEF UsesRightTable, TableFor
  <2>2. CacheInv'
    <3> HIDE DEF Filed
    <3>1. CASE cache' = cache
      BY <2>1, <3>1
    <3>2. ASSUME NEW t \in Threads, Evict(t), cache # << >> PROVE CacheInv'
      <4>1. /\ cache' \in Seq(Entry) /\ Len(cache') = Len(cache) - 1
            /\ \A j \in 1..Len(cache') : cache'[j] = cache[j + 1]
        BY <2>0, <3>2, HeadTailProperties DEF Evict
      <4>2. DOMAIN cache' = 1..Len(cache')
        BY <4>1, LenProperties
      <4>3. QED  BY <2>0, <2>1, <4>1, <4>2
    <3>3. ASSUME NEW t \in Threads, DeleteVictim(t), cache' # cache
          PROVE  CacheInv'
      <4> DEFINE i == Position(victim[t])
      <4>1. i \in 1..Len(cache) /\ cache' = RemoveAt(cache, i)
        BY <2>0, <3>3, PositionFacts DEF DeleteVictim
      <4>2. /\ cache' \in Seq(Entry) /\ Len(cache') = Len(cache) - 1
            /\ \A j \in 1..Len(cache) - 1 :
                 cache'[j] = cache[j] \/ cache'[j] = cache[j + 1]
        BY <2>0, <4>1, RemoveAtFacts
      <4>3. DOMAIN cache' = 1..Len(cache')
        BY <4>2, LenProperties
      <4>4. \A j \in 1..Len(cache) - 1 : j \in DOMAIN cache /\ j + 1 \in DOMAIN cache
        BY <2>0
      <4>5. QED  BY <2>1, <4>2, <4>3, <4>4
    <3>4. ASSUME NEW t \in Threads, Insert(t) PROVE CacheInv'
      <4> DEFINE i == Position(CacheKey(call[t]))
                 e == [key |-> CacheKey(call[t]), tbl |-> tbl[t]]
      <4>1. e \in Entry
        BY <2>0, <3>4 DEF Insert, Keys
      <4>2. Filed(e)
        BY <2>0, <2>1, <3>4 DEF Insert, CacheKey, Filed
      <4>3. CASE cache' = Append(cache, e)
        BY <2>0, <2>1, <4>1, <4>2, <4>3
      <4>4. CASE cache' = [cache EXCEPT ![i] = e] /\ i \in 1..Len(cache)
        BY <2>0, <2>1, <4>1, <4>2, <4>4
      <4>5. QED  BY <2>0, <3>4, <4>1, <4>3, <4>4, InsertFacts
    <3>5. CASE \E t \in Threads : Evict(t)
      BY <3>1, <3>2, <3>5 DEF Evict
    <3>6. CASE \E t \in Threads : DeleteVictim(t) \/ Insert(t)
      BY <3>1, <3>3, <3>4, <3>6
    <3>7. CASE ~ \E t \in Threads : Evict(t) \/ DeleteVictim(t) \/ Insert(t)
      <4>1. cache' = cache
        BY <3>7 DEF Next, Step, vars, Call, Hit, Miss, CheckRoom, CheckFull,
                    PickVictim, BuildEntry, Use, Abort
      <4>2. QED  BY <3>1, <4>1
    <3>8. QED  BY <3>5, <3>6, <3>7
  <2>3. LocalInv' /\ UsesRightTable'
    <3>1. CASE UNCHANGED vars
      BY <2>1, <3>1 DEF vars
    <3>2. ASSUME NEW t \in Threads,
                 \/ \E c \in Calls : Call(t, c)
                 \/ Miss(t) \/ CheckFull(t) \/ PickVictim(t)
                 \/ Use(t) \/ Abort(t)
          PROVE  LocalInv' /\ UsesRightTable'
      BY <2>0, <2>1, <3>2
         DEF Call, Miss, CheckFull, PickVictim, Use, Abort, Leave, Goto
    <3>3. ASSUME NEW t \in Threads, Hit(t) PROVE LocalInv' /\ UsesRightTable'
      <4> DEFINE i == Position(CacheKey(call[t]))
      <4>1. /\ i \in DOMAIN cache /\ cache[i].key = CacheKey(call[t])
            /\ tbl' = [tbl EXCEPT ![t] = cache[i].tbl]
        BY <2>0, <3>3, PositionFacts DEF Hit
      <4>2. cache[i] \in Entry
        BY <2>0, <4>1, ElementOfSeq
      <4>3. /\ cache[i].tbl.w = call[t].w /\ cache[i].tbl.pt = call[t].pt
            /\ cache[i].tbl.filled = TblSize(call[t].w)
        BY <2>1, <4>1 DEF CacheKey
      <4>4. cache[i].tbl = TableFor(call[t])
        BY <4>2, <4>3 DEF Tables
      <4>5. QED  BY <2>0, <2>1, <3>3, <4>1, <4>3, <4>4 DEF Hit, Goto
    <3>4. ASSUME NEW t \in Threads, CheckRoom(t) \/ Evict(t) \/ DeleteVictim(t)
          PROVE  LocalInv' /\ UsesRightTable'
      BY <2>0, <2>1, <3>4 DEF CheckRoom, Evict, DeleteVictim, NewTable, Goto
    <3>5. ASSUME NEW t \in Threads, BuildEntry(t)
          PROVE  LocalInv' /\ UsesRightTable'
      <4>1. /\ tbl' = [tbl EXCEPT ![t] = [tbl[t] EXCEPT !.filled = @ + 1]]
            /\ tbl[t] \in Tables
        BY <2>0, <3>5 DEF BuildEntry
      <4>2. /\ [tbl[t] EXCEPT !.filled = @ + 1].w = tbl[t].w
            /\ [tbl[t] EXCEPT !.filled = @ + 1].pt = tbl[t].pt
        BY <4>1 DEF Tables
      <4>3. QED  BY <2>0, <2>1, <3>5, <4>1, <4>2 DEF BuildEntry
    <3>6. ASSUME NEW t \in Threads, Insert(t) PROVE LocalInv' /\ UsesRightTable'
      <4>1. tbl[t] = TableFor(call[t])
        BY <2>0, <2>1, <3>6 DEF Insert, Tables
      <4>2. QED  BY <2>0, <2>1, <3>6, <4>1 DEF Insert, Goto
    <3>7. QED
      BY <3>1, <3>2, <3>3, <3>4, <3>5, <3>6 DEF Next, Step
  <2>4. QED  BY <2>2, <2>3 DEF TableInv
<1>3. QED  BY <1>1, <1>2, Typing, PTL DEF Spec

\* Whatever the threads do to the shared cache, mutex or not, a call that
\* reaches the accumulation loop holds the complete table of its own window
\* and point.
THEOREM RightTable == Spec => []UsesRightTable
BY TablesStay, PTL

\* And every table in the cache is complete and filed under the key of the
\* window and the point it was built for, whichever calls died on the way.
THEOREM TablesComplete == Spec => []CachedTablesComplete
<1>1. TypeOK /\ TableInv => CachedTablesComplete
  <2> SUFFICES ASSUME TypeOK, TableInv, NEW i \in DOMAIN cache
               PROVE  \E c \in Calls : /\ cache[i].key = CacheKey(c)
                                       /\ cache[i].tbl = TableFor(c)
    BY DEF CachedTablesComplete
  <2> DEFINE e == cache[i]
             c == [w |-> e.tbl.w, pt |-> e.tbl.pt]
  <2>1. e \in [key : Keys, tbl : Tables]
    BY LenProperties, ElementOfSeq DEF TypeOK
  <2>2. e.tbl \in Tables /\ c \in Calls
    BY <2>1 DEF Tables, Calls
  <2>3. e.key = <<e.tbl.w, e.tbl.pt>> /\ e.tbl.filled = TblSize(e.tbl.w)
    BY DEF TableInv
  <2>4. e.key = CacheKey(c)
    BY <2>3 DEF CacheKey
  <2>5. e.tbl = TableFor(c)
    BY <2>2, <2>3 DEF TableFor, Tables
  <2>6. QED  BY <2>2, <2>4, <2>5
<1>2. QED  BY <1>1, TablesStay, Typing, PTL

-----------------------------------------------------------------------------
(* First in, first out *)

\* No key is filed twice, although threads insert what another one inserted.
KeysDistinct ==
  \A i, j \in DOMAIN cache : cache[i].key = cache[j].key => i = j

\* What a step makes of the cache: it is left alone, or loses one entry to an
\* eviction, or receives the entry of a thread that has built its table.
LEMMA CacheSteps ==
  ASSUME [Next]_vars
  PROVE  \/ cache' = cache
         \/ cache # << >> /\ cache' = Tail(cache)
         \/ \E t \in Threads : DeleteVictim(t) \/ Insert(t)
BY DEF Next, vars, Step, Call, Hit, Miss, CheckRoom, CheckFull, Evict, PickVictim,
       BuildEntry, Use, Abort

LEMMA DistinctKeys == Spec => []KeysDistinct
<1>1. Init => KeysDistinct
  <2>1. Init => DOMAIN cache = {}
    BY DEF Init
  <2>2. QED  BY <2>1 DEF KeysDistinct
<1>2. TypeOK /\ KeysDistinct /\ [Next]_vars => KeysDistinct'
  <2> SUFFICES ASSUME TypeOK, KeysDistinct, [Next]_vars PROVE KeysDistinct'
    OBVIOUS
  <2> DEFINE Entry == [key : Keys, tbl : Tables]
  <2>0. /\ cache \in Seq(Entry) /\ Len(cache) \in Nat
        /\ DOMAIN cache = 1..Len(cache) /\ 0 \notin DOMAIN cache
    BY LenProperties DEF TypeOK
  <2>1. CASE cache' = cache
    BY <2>1 DEF KeysDistinct
  <2>2. CASE cache # << >> /\ cache' = Tail(cache)
    <3>1. /\ cache' \in Seq(Entry) /\ Len(cache') = Len(cache) - 1
          /\ \A j \in 1..Len(cache') : cache'[j] = cache[j + 1]
      BY <2>0, <2>2, HeadTailProperties
    <3>2. DOMAIN cache' = 1..Len(cache')
      BY <3>1, LenProperties
    <3>3. \A j \in DOMAIN cache' : j \in Int /\ j + 1 \in DOMAIN cache
      BY <2>0, <3>1, <3>2
    <3>4. QED  BY <3>1, <3>2, <3>3 DEF KeysDistinct
  <2>3. ASSUME NEW t \in Threads, DeleteVictim(t), cache' # cache
        PROVE  KeysDistinct'
    <3> DEFINE i == Position(victim[t])
    <3>1. i \in 1..Len(cache) /\ cache' = RemoveAt(cache, i)
      BY <2>0, <2>3, PositionFacts DEF DeleteVictim
    <3>2. /\ cache' \in Seq(Entry) /\ Len(cache') = Len(cache) - 1
          /\ \A j \in 1..Len(cache) - 1 :
               cache'[j] = IF j < i THEN cache[j] ELSE cache[j + 1]
      BY <2>0, <3>1, RemoveAtFacts
    <3>3. DOMAIN cache' = 1..Len(cache) - 1
      BY <3>2, LenProperties
    <3> HIDE DEF i
    <3>4. ASSUME NEW m \in DOMAIN cache', NEW n \in DOMAIN cache',
                 cache'[m].key = cache'[n].key
          PROVE  m = n
      <4> DEFINE old(j) == IF j < i THEN j ELSE j + 1
      <4>1. /\ m \in 1..Len(cache) - 1 /\ n \in 1..Len(cache) - 1 /\ i \in Int
            /\ old(m) \in DOMAIN cache /\ old(n) \in DOMAIN cache
        BY <2>0, <3>1, <3>3
      <4>2. cache'[m] = cache[old(m)] /\ cache'[n] = cache[old(n)]
        BY <3>2, <4>1
      <4> HIDE DEF old
      <4>3. old(m) = old(n)
        BY <3>4, <4>1, <4>2 DEF KeysDistinct
      <4>4. QED  BY <4>1, <4>3 DEF old
    <3>5. QED  BY <3>4 DEF KeysDistinct
  <2>4. ASSUME NEW t \in Threads, Insert(t) PROVE KeysDistinct'
    <3> DEFINE k == CacheKey(call[t])
               i == Position(k)
               e == [key |-> k, tbl |-> tbl[t]]
    <3>1. e \in Entry
      BY <2>4 DEF Insert, Keys, TypeOK
    <3>2. CASE i = 0
      <4>1. cache' = Append(cache, e) /\ \A j \in DOMAIN cache : cache[j].key # k
        BY <2>0, <2>4, <3>2, PositionFacts DEF Insert
      <4>2. /\ cache' \in Seq(Entry) /\ Len(cache') = Len(cache) + 1
            /\ \A j \in 1..Len(cache) : cache'[j] = cache[j]
            /\ cache'[Len(cache) + 1] = e
        BY <2>0, <3>1, <4>1, AppendProperties
      <4>3. DOMAIN cache' = DOMAIN cache \cup {Len(cache) + 1}
        BY <2>0, <4>2, LenProperties
      <4>4. e.key = k
        OBVIOUS
      <4> HIDE DEF e, k
      <4>5. QED  BY <2>0, <4>1, <4>2, <4>3, <4>4 DEF KeysDistinct
    <3>3. CASE i # 0
      <4>1. i \in DOMAIN cache /\ cache[i].key = k /\ cache' = [cache EXCEPT ![i] = e]
        BY <2>0, <2>4, <3>3, PositionFacts DEF Insert
      <4>2. e.key = k
        OBVIOUS
      <4> HIDE DEF e, k, i
      <4>3. /\ DOMAIN cache' = DOMAIN cache
            /\ \A j \in DOMAIN cache : cache'[j].key = cache[j].key
        BY <2>0, <4>1, <4>2
      <4>4. QED  BY <4>3 DEF KeysDistinct
    <3>4. QED  BY <3>2, <3>3
  <2>5. QED  BY <2>1, <2>2, <2>3, <2>4, CacheSteps
<1>3. QED  BY <1>1, <1>2, Typing, PTL DEF Spec

\* The keys of a cache are as many as its entries, in their order.
LEMMA KeysOfFacts ==
  ASSUME NEW s \in Seq([key : Keys, tbl : Tables])
  PROVE  /\ KeysOf(s) \in Seq(Keys) /\ Len(KeysOf(s)) = Len(s)
         /\ \A i \in 1..Len(s) : KeysOf(s)[i] = s[i].key
<1>1. DOMAIN s = 1..Len(s) /\ Len(s) \in Nat
  BY LenProperties
<1>2. \A i \in 1..Len(s) : s[i].key \in Keys
  <2>1. \A i \in 1..Len(s) : s[i] \in [key : Keys, tbl : Tables]
    BY ElementOfSeq
  <2>2. QED  BY <2>1
<1>3. KeysOf(s) \in [1..Len(s) -> Keys]
  BY <1>1, <1>2 DEF KeysOf
<1>4. KeysOf(s) \in Seq(Keys)
  BY <1>1, <1>3, SeqDef
<1>5. Len(KeysOf(s)) = Len(s)
  BY <1>1, <1>3, <1>4, LenProperties
<1>6. QED  BY <1>1, <1>4, <1>5 DEF KeysOf

\* A sequence that agrees with a longer one as far as it goes is its prefix.
LEMMA PrefixFacts ==
  ASSUME NEW S, NEW s \in Seq(S), NEW u \in Seq(S),
         Len(s) <= Len(u), \A i \in 1..Len(s) : s[i] = u[i]
  PROVE  IsPrefix(s, u)
<1> DEFINE p == SubSeq(s, 1, Len(s))
           q == SubSeq(u, 1, Len(s))
<1>1. /\ Len(s) \in Nat /\ Len(u) \in Nat
      /\ \A i \in 1..Len(s) : s[i] \in S /\ u[i] \in S
  BY LenProperties, ElementOfSeq
<1>2. /\ p \in Seq(S) /\ Len(p) = Len(s)
      /\ \A i \in 1..Len(s) : p[i] = s[1 + i - 1]
  BY <1>1, SubSeqProperties
<1>3. /\ q \in Seq(S) /\ Len(q) = Len(s)
      /\ \A i \in 1..Len(s) : q[i] = u[1 + i - 1]
  BY <1>1, SubSeqProperties
<1> HIDE DEF p, q
<1>4. \A i \in 1..Len(s) : 1 + i - 1 = i
  BY <1>1
<1>5. \A i \in 1..Len(p) : p[i] = q[i]
  BY <1>2, <1>3, <1>4
<1>6. p = q
  BY <1>2, <1>3, <1>5, SeqEqual
<1>7. QED  BY <1>6 DEF IsPrefix, p, q

\* First in, first out, for the threads that hold a caller's mutex and for
\* those of a runtime that does not interrupt the eviction: the entries that
\* survive a step keep their order, only the oldest is dropped, and no step
\* makes an entry young again.
THEOREM OldestFirst == Spec => EvictsOldestFirst
<1>1. TypeOK /\ TypeOK' /\ MutexInv /\ NoSplitEviction /\ KeysDistinct
      /\ [Next]_vars => [FirstOutOnly]_vars
  <2> SUFFICES ASSUME TypeOK, TypeOK', MutexInv, NoSplitEviction, KeysDistinct,
                      [Next]_vars, Locked \/ AtomicEvict
               PROVE  \/ IsPrefix(KeysOf(cache), KeysOf(cache'))
                      \/ cache # << >> /\ KeysOf(cache') = Tail(KeysOf(cache))
    BY DEF FirstOutOnly
  <2> DEFINE Entry == [key : Keys, tbl : Tables]
  <2>0. /\ cache \in Seq(Entry) /\ Len(cache) \in Nat /\ cache' \in Seq(Entry)
        /\ DOMAIN cache = 1..Len(cache) /\ 0 \notin DOMAIN cache
    BY LenProperties DEF TypeOK
  <2>1. ASSUME Len(cache) <= Len(cache'),
               \A i \in 1..Len(cache) : cache'[i].key = cache[i].key
        PROVE  IsPrefix(KeysOf(cache), KeysOf(cache'))
    <3>1. /\ KeysOf(cache) \in Seq(Keys) /\ Len(KeysOf(cache)) = Len(cache)
          /\ \A i \in 1..Len(cache) : KeysOf(cache)[i] = cache[i].key
      BY <2>0, KeysOfFacts
    <3>2. /\ KeysOf(cache') \in Seq(Keys) /\ Len(KeysOf(cache')) = Len(cache')
          /\ \A i \in 1..Len(cache') : KeysOf(cache')[i] = cache'[i].key
      BY <2>0, KeysOfFacts
    <3>3. Len(cache') \in Nat
      BY <2>0, LenProperties
    <3>4. \A i \in 1..Len(cache) : i \in 1..Len(cache')
      BY <2>0, <2>1, <3>3
    <3>5. \A i \in 1..Len(KeysOf(cache)) : KeysOf(cache)[i] = KeysOf(cache')[i]
      BY <2>1, <3>1, <3>2, <3>4
    <3>6. QED  BY <2>1, <3>1, <3>2, <3>5, PrefixFacts
  <2>2. ASSUME cache # << >>, cache' = Tail(cache)
        PROVE  KeysOf(cache') = Tail(KeysOf(cache))
    <3>1. /\ KeysOf(cache) \in Seq(Keys) /\ Len(KeysOf(cache)) = Len(cache)
          /\ \A i \in 1..Len(cache) : KeysOf(cache)[i] = cache[i].key
      BY <2>0, KeysOfFacts
    <3>2. /\ KeysOf(cache') \in Seq(Keys) /\ Len(KeysOf(cache')) = Len(cache')
          /\ \A i \in 1..Len(cache') : KeysOf(cache')[i] = cache'[i].key
      BY <2>0, KeysOfFacts
    <3>3. /\ Len(cache') = Len(cache) - 1
          /\ \A i \in 1..Len(cache') : cache'[i] = cache[i + 1]
      BY <2>0, <2>2, HeadTailProperties
    <3>4. KeysOf(cache) # << >>
      BY <2>0, <2>2, <3>1, EmptySeq
    <3>5. /\ Tail(KeysOf(cache)) \in Seq(Keys)
          /\ Len(Tail(KeysOf(cache))) = Len(cache) - 1
          /\ \A i \in 1..Len(cache) - 1 : Tail(KeysOf(cache))[i] = KeysOf(cache)[i + 1]
      BY <3>1, <3>4, HeadTailProperties
    <3>6. \A i \in 1..Len(cache) - 1 : i + 1 \in 1..Len(cache)
      BY <2>0
    <3>7. \A i \in 1..Len(KeysOf(cache')) : KeysOf(cache')[i] = Tail(KeysOf(cache))[i]
      BY <3>1, <3>2, <3>3, <3>5, <3>6
    <3>8. QED  BY <3>2, <3>3, <3>5, <3>7, SeqEqual
  <2>3. CASE cache' = cache
    BY <2>0, <2>1, <2>3
  <2>4. CASE cache # << >> /\ cache' = Tail(cache)
    BY <2>2, <2>4
  <2>5. ASSUME NEW t \in Threads, DeleteVictim(t) PROVE cache' = Tail(cache)
    <3>1. Locked /\ pc[t] = "delete"
      BY <2>5 DEF DeleteVictim, NoSplitEviction
    <3>2. cache # << >> /\ victim[t] = cache[1].key
      BY <3>1 DEF MutexInv
    <3>3. 1 \in DOMAIN cache
      BY <2>0, <3>2, EmptySeq
    <3>4. Position(victim[t]) = 1
      BY <2>0, <3>2, <3>3, PositionFacts DEF KeysDistinct
    <3>5. cache' = RemoveAt(cache, 1)
      BY <2>5, <3>4 DEF DeleteVictim
    <3>6. /\ Len(cache') = Len(cache) - 1
          /\ \A j \in 1..Len(cache) - 1 : cache'[j] = cache[j + 1]
      <4> DEFINE i == 1
      <4>0. i \in 1..Len(cache) /\ cache' = RemoveAt(cache, i)
        BY <2>0, <3>3, <3>5
      <4> HIDE DEF i
      <4>1. /\ Len(cache') = Len(cache) - 1
            /\ \A j \in 1..Len(cache) - 1 :
                 cache'[j] = IF j < i THEN cache[j] ELSE cache[j + 1]
        BY <2>0, <4>0, RemoveAtFacts
      <4> USE DEF i
      <4>2. \A j \in 1..Len(cache) - 1 : ~(j < 1)
        BY <2>0
      <4>3. QED  BY <4>1, <4>2
    <3>7. /\ Tail(cache) \in Seq(Entry) /\ Len(Tail(cache)) = Len(cache) - 1
          /\ \A i \in 1..Len(cache) - 1 : Tail(cache)[i] = cache[i + 1]
      BY <2>0, <3>2, HeadTailProperties
    <3>8. QED  BY <2>0, <3>6, <3>7, SeqEqual
  <2>6. ASSUME NEW t \in Threads, DeleteVictim(t) PROVE cache # << >>
    BY <2>6 DEF DeleteVictim, NoSplitEviction, MutexInv
  <2>7. ASSUME NEW t \in Threads, Insert(t)
        PROVE  /\ Len(cache) <= Len(cache')
               /\ \A i \in 1..Len(cache) : cache'[i].key = cache[i].key
    <3> DEFINE k == CacheKey(call[t])
               i == Position(k)
               e == [key |-> k, tbl |-> tbl[t]]
    <3>1. e \in Entry
      BY <2>7 DEF Insert, Keys, TypeOK
    <3>2. CASE i = 0
      <4>1. cache' = Append(cache, e)
        BY <2>7, <3>2 DEF Insert
      <4>2. QED  BY <2>0, <3>1, <4>1, AppendProperties
    <3>3. CASE i # 0
      <4>1. i \in 1..Len(cache) /\ cache[i].key = k /\ cache' = [cache EXCEPT ![i] = e]
        BY <2>0, <2>7, <3>3, PositionFacts DEF Insert
      <4>2. e.key = k
        OBVIOUS
      <4>3. Len(cache') = Len(cache)
        BY <2>0, <3>1, <4>1, ExceptSeq
      <4> HIDE DEF e, k, i
      <4>4. QED  BY <2>0, <4>1, <4>2, <4>3
    <3>4. QED  BY <3>2, <3>3
  <2>8. QED  BY <2>1, <2>2, <2>3, <2>4, <2>5, <2>6, <2>7, CacheSteps
<1>2. Spec => []TypeOK /\ []MutexInv /\ []NoSplitEviction /\ []KeysDistinct
  BY Typing, MutexHolds, NeverBetween, DistinctKeys
<1>3. QED  BY <1>1, <1>2, PTL DEF Spec, EvictsOldestFirst

=============================================================================
