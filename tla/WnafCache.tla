------------------------------ MODULE WnafCache ------------------------------
(***************************************************************************)
(* The process-wide cache of precomputed wNAF tables (WNAF_TABLE_CACHE) as *)
(* the threads of a Ruby process use it: every Point#mul_vt runs           *)
(* Secp256k1.scalar_multiply_wnaf, which looks its table up, evicts,       *)
(* builds and inserts one statement at a time, without a lock of its own.  *)
(*                                                                         *)
(* A Ruby Hash remembers the order of insertion, so the cache is a         *)
(* sequence of entries, oldest first.  A precomputed table is a record of  *)
(* what it was built for and of how many of its slots are filled: a table  *)
(* of window w holds the 2^(w-1) odd multiples of its point.               *)
(***************************************************************************)
EXTENDS Integers, Sequences, FiniteSets, SequencesExt

CONSTANTS
  Threads,        \* the Ruby threads that call Point#mul_vt
  Points,         \* the base points they multiply
  Windows,        \* the window sizes they pass (5 unless the caller says else)
  WNAF_CACHE_MAX, \* the cap: 512 in the code
  Environments,   \* the programs and runtimes the gem is used in, see env
  Nil

ASSUME ThreadsAssumption == IsFiniteSet(Threads) /\ Threads # {}
ASSUME WindowsAssumption == Windows \subseteq 1..32
ASSUME MaxAssumption == WNAF_CACHE_MAX \in Nat \ {0}
ASSUME EnvironmentsAssumption ==
  Environments \subseteq [locked : BOOLEAN, atomicEvict : BOOLEAN]
ASSUME NilAssumption == Nil \notin Threads

VARIABLES
  cache,  \* WNAF_TABLE_CACHE: the entries in insertion order
  pc,     \* where each thread is in scalar_multiply_wnaf
  call,   \* the window and the point of the thread's current call
  tbl,    \* the local variable tbl
  victim, \* the key keys.first returned, before delete runs
  lock,   \* the owner of the caller's mutex (unused unless Locked)
  env     \* where the process runs; it never changes

vars == <<cache, pc, call, tbl, victim, lock, env>>

\* Does the caller hold a mutex around every mul_vt (docs/security.md)?
Locked == env.locked
\* Can no other thread run between keys.first and delete (as on MRI)?
AtomicEvict == env.atomicEvict

Calls == [w : Windows, pt : Points]

\* "#{window}:#{px.to_s(16)}:#{py.to_s(16)}" is injective in its three parts.
CacheKeyWithoutWindow(c) == <<2, c.pt>>  \* mutant: the key leaves the window out
CacheKey(c) == <<c.w, c.pt>>
Keys == {CacheKey(c) : c \in Calls}

TblSize(w) == 2^(w - 1)

Tables == [w : Windows, pt : Points, filled : Nat]
TableFor(c) == [w |-> c.w, pt |-> c.pt, filled |-> TblSize(c.w)]

\* The position of a key in the cache, 0 when it is absent.
Position(k) ==
  IF \E i \in DOMAIN cache : cache[i].key = k
  THEN CHOOSE i \in DOMAIN cache : cache[i].key = k
  ELSE 0

-----------------------------------------------------------------------------
Init ==
  /\ cache = << >>
  /\ pc = [t \in Threads |-> "idle"]
  /\ call = [t \in Threads |-> Nil]
  /\ tbl = [t \in Threads |-> Nil]
  /\ victim = [t \in Threads |-> Nil]
  /\ lock = Nil
  /\ env \in Environments

Goto(t, label) == pc' = [pc EXCEPT ![t] = label]

\* The thread leaves scalar_multiply_wnaf: its locals are gone and a caller's
\* Mutex#synchronize releases the mutex.
Leave(t) ==
  /\ Goto(t, "idle")
  /\ call' = [call EXCEPT ![t] = Nil]
  /\ tbl' = [tbl EXCEPT ![t] = Nil]
  /\ victim' = [victim EXCEPT ![t] = Nil]
  /\ lock' = IF Locked THEN Nil ELSE lock

\* Point#mul_vt with a non-zero scalar on a finite point.
Call(t, c) ==
  /\ pc[t] = "idle"
  /\ Locked => lock = Nil
  /\ lock' = IF Locked THEN t ELSE lock
  /\ call' = [call EXCEPT ![t] = c]
  /\ Goto(t, "lookup")
  /\ UNCHANGED <<cache, tbl, victim, env>>

\* tbl = WNAF_TABLE_CACHE[cache_key], and the table is there.
Hit(t) ==
  /\ pc[t] = "lookup"
  /\ LET i == Position(CacheKey(call[t])) IN
       /\ i # 0
       /\ tbl' = [tbl EXCEPT ![t] = cache[i].tbl]
  /\ Goto(t, "use")
  /\ UNCHANGED <<cache, call, victim, lock, env>>

Miss(t) ==
  /\ pc[t] = "lookup"
  /\ Position(CacheKey(call[t])) = 0
  /\ Goto(t, "check")
  /\ UNCHANGED <<cache, call, tbl, victim, lock, env>>

\* tbl = Array.new(tbl_size); tbl[0] = [px, py, 1]
NewTable(t) ==
  tbl' = [tbl EXCEPT ![t] = [w |-> call[t].w, pt |-> call[t].pt, filled |-> 1]]

\* Mutant: the size is compared with > in place of >=.
CheckRoomOffByOne(t) ==
  /\ pc[t] = "check"
  /\ Len(cache) <= WNAF_CACHE_MAX
  /\ NewTable(t)
  /\ Goto(t, "build")
  /\ UNCHANGED <<cache, call, victim, lock, env>>

\* WNAF_TABLE_CACHE.size >= WNAF_CACHE_MAX is false: nothing is evicted.
CheckRoom(t) ==
  /\ pc[t] = "check"
  /\ Len(cache) < WNAF_CACHE_MAX
  /\ NewTable(t)
  /\ Goto(t, "build")
  /\ UNCHANGED <<cache, call, victim, lock, env>>

CheckFull(t) ==
  /\ pc[t] = "check"
  /\ Len(cache) >= WNAF_CACHE_MAX
  /\ Goto(t, "evict")
  /\ UNCHANGED <<cache, call, tbl, victim, lock, env>>

\* Mutant: "while the cache is full, evict" in place of "if".
EvictAndCheckAgain(t) ==
  /\ pc[t] = "evict"
  /\ AtomicEvict
  /\ cache' = IF cache = << >> THEN cache ELSE Tail(cache)
  /\ Goto(t, "check")
  /\ UNCHANGED <<call, tbl, victim, lock, env>>

\* WNAF_TABLE_CACHE.delete(WNAF_TABLE_CACHE.keys.first) as one step, which is
\* how MRI runs two calls of C methods with no branch between them.
\* delete(nil) of an emptied cache does nothing.
Evict(t) ==
  /\ pc[t] = "evict"
  /\ AtomicEvict
  /\ cache' = IF cache = << >> THEN cache ELSE Tail(cache)
  /\ NewTable(t)
  /\ Goto(t, "build")
  /\ UNCHANGED <<call, victim, lock, env>>

\* The same statement on a runtime whose threads run in parallel.
PickVictim(t) ==
  /\ pc[t] = "evict"
  /\ ~AtomicEvict
  /\ victim' = [victim EXCEPT ![t] = IF cache = << >> THEN Nil
                                     ELSE Head(cache).key]
  /\ Goto(t, "delete")
  /\ UNCHANGED <<cache, call, tbl, lock, env>>

DeleteVictim(t) ==
  /\ pc[t] = "delete"
  /\ LET i == Position(victim[t]) IN
       cache' = IF i = 0 THEN cache ELSE RemoveAt(cache, i)
  /\ victim' = [victim EXCEPT ![t] = Nil]
  /\ NewTable(t)
  /\ Goto(t, "build")
  /\ UNCHANGED <<call, lock, env>>

\* One turn of 1.upto(tbl_size - 1): the table is not yet visible to others.
BuildEntry(t) ==
  /\ pc[t] = "build"
  /\ tbl[t].filled < TblSize(call[t].w)
  /\ tbl' = [tbl EXCEPT ![t].filled = @ + 1]
  /\ UNCHANGED <<cache, pc, call, victim, lock, env>>

\* Mutant: the table is published while it is being filled.
InsertUnfilled(t) ==
  /\ pc[t] = "build"
  /\ Position(CacheKey(call[t])) = 0
  /\ cache' = Append(cache, [key |-> CacheKey(call[t]), tbl |-> tbl[t]])
  /\ Goto(t, "use")
  /\ UNCHANGED <<call, tbl, victim, lock, env>>

\* Mutant: inserting a key again makes its entry the youngest.
InsertRejuvenates(t) ==
  /\ pc[t] = "build"
  /\ tbl[t].filled = TblSize(call[t].w)
  /\ LET k == CacheKey(call[t])
         i == Position(k)
         entry == [key |-> k, tbl |-> tbl[t]]
     IN  cache' = Append(IF i = 0 THEN cache ELSE RemoveAt(cache, i), entry)
  /\ Goto(t, "use")
  /\ UNCHANGED <<call, tbl, victim, lock, env>>

\* WNAF_TABLE_CACHE[cache_key] = tbl: a key that is already there (another
\* thread missed it too) keeps its place and gets the new table.
Insert(t) ==
  /\ pc[t] = "build"
  /\ tbl[t].filled = TblSize(call[t].w)
  /\ LET k == CacheKey(call[t])
         i == Position(k)
         entry == [key |-> k, tbl |-> tbl[t]]
     IN  cache' = IF i = 0 THEN Append(cache, entry)
                  ELSE [cache EXCEPT ![i] = entry]
  /\ Goto(t, "use")
  /\ UNCHANGED <<call, tbl, victim, lock, env>>

\* The accumulation loop reads tbl[idx] and the call returns.
Use(t) ==
  /\ pc[t] = "use"
  /\ Leave(t)
  /\ UNCHANGED <<cache, env>>

\* An exception reaches the thread inside the call (Timeout.timeout,
\* Thread#raise, NoMemoryError): nothing in the code rescues it.
Abort(t) ==
  /\ pc[t] # "idle"
  /\ Leave(t)
  /\ UNCHANGED <<cache, env>>

Step(t) ==
  \/ Hit(t)
  \/ Miss(t)
  \/ CheckRoom(t)
  \/ CheckFull(t)
  \/ Evict(t)
  \/ PickVictim(t)
  \/ DeleteVictim(t)
  \/ BuildEntry(t)
  \/ Insert(t)
  \/ Use(t)

Next ==
  \E t \in Threads :
    \/ \E c \in Calls : Call(t, c)
    \/ Step(t)
    \/ Abort(t)

Spec == Init /\ [][Next]_vars

\* Ruby's scheduler gives every runnable thread a time slice.
FairSpec == Spec /\ \A t \in Threads : WF_vars(Step(t))

-----------------------------------------------------------------------------
Labels == {"idle", "lookup", "check", "evict", "delete", "build", "use"}

\* The variables have the shapes the actions assume: a thread inside a call
\* knows its window and point, and holds a table once it has one.
TypeOK ==
  /\ cache \in Seq([key : Keys, tbl : Tables])
  /\ pc \in [Threads -> Labels]
  /\ call \in [Threads -> Calls \cup {Nil}]
  /\ tbl \in [Threads -> Tables \cup {Nil}]
  /\ victim \in [Threads -> Keys \cup {Nil}]
  /\ lock \in Threads \cup {Nil}
  /\ env \in Environments
  /\ \A t \in Threads : pc[t] # "idle" => call[t] \in Calls
  /\ \A t \in Threads : pc[t] \in {"build", "use"} => tbl[t] \in Tables

\* The documented bound (lib/secp256k1.rb, comment of WNAF_TABLE_CACHE): the
\* cache never holds more than WNAF_CACHE_MAX tables.
CacheBounded == Len(cache) <= WNAF_CACHE_MAX

\* With the mutex that docs/security.md asks multi-threaded callers to hold,
\* the bound stands, however eviction and insertion are split.
MutexKeepsBound == Locked => CacheBounded

\* The bound the code does give to threads that share the cache without a
\* mutex when eviction is not interrupted: each other thread can be past its
\* size check at once, so the cap is overrun by less than the threads' number.
OverrunBounded ==
  AtomicEvict => Len(cache) <= WNAF_CACHE_MAX + Cardinality(Threads) - 1

\* A thread that passed its size check will add at most one entry.
Building == {t \in Threads : pc[t] = "build"}
OverrunInv ==
  AtomicEvict =>
    Len(cache) + Cardinality(Building) <= WNAF_CACHE_MAX + Cardinality(Threads) - 1

\* What the mutex keeps true between two statements of its one owner.
MutexInv ==
  Locked =>
  /\ \A t \in Threads : pc[t] # "idle" => lock = t
  /\ CacheBounded
  /\ \A t \in Threads :
       /\ pc[t] = "evict" => cache # << >>
       /\ pc[t] = "delete" => cache # << >> /\ victim[t] = cache[1].key
       /\ pc[t] = "build" => Len(cache) < WNAF_CACHE_MAX

\* Whatever other threads evict, overwrite or abandon meanwhile, the table a
\* call multiplies with is the complete table of its own window and point, so
\* every wNAF digit finds its odd multiple at tbl[digit.abs >> 1].
UsesRightTable ==
  \A t \in Threads : pc[t] = "use" => tbl[t] = TableFor(call[t])

\* While a table is built it is nobody else's and never longer than its size.
TableInv ==
  /\ \A t \in Threads : pc[t] \in {"build", "use"} =>
       tbl[t].w = call[t].w /\ tbl[t].pt = call[t].pt
  /\ \A i \in DOMAIN cache :
       /\ cache[i].key = <<cache[i].tbl.w, cache[i].tbl.pt>>
       /\ cache[i].tbl.filled = TblSize(cache[i].tbl.w)

\* What the cache publishes is always complete and filed under the key of its
\* own window and point, also after calls that died while they were building.
CachedTablesComplete ==
  \A i \in DOMAIN cache :
    \E c \in Calls : cache[i].key = CacheKey(c) /\ cache[i].tbl = TableFor(c)

\* First in, first out: a step keeps the surviving entries in their order,
\* drops none but the oldest, and adds only at the young end.  A hit or a
\* second insertion of a key does not make its entry young again.  (On a
\* runtime that splits the statement, the victim may have been reinserted.)
KeysOf(s) == [i \in DOMAIN s |-> s[i].key]
FirstOutOnly ==
  Locked \/ AtomicEvict =>
    \/ IsPrefix(KeysOf(cache), KeysOf(cache'))
    \/ cache # << >> /\ KeysOf(cache') = Tail(KeysOf(cache))
EvictsOldestFirst == [][FirstOutOnly]_vars

\* No interleaving on the shared cache keeps a call from coming back.
CallsReturn == \A t \in Threads : pc[t] = "lookup" ~> pc[t] = "idle"

=============================================================================
