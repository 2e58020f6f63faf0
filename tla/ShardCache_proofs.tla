-------------------------- MODULE ShardCache_proofs --------------------------
(* Proofs about ShardCache, for any number of shards and transactions, every  *)
(* setting of the store and the trainer, and every replacement policy.        *)
EXTENDS ShardCache, FiniteSetTheorems, TLAPS

-------------------------------------------------------------------------------
(* The inductive invariant *)

\* Where the passes are, and which shards the open transaction has staged there.
Passes ==
  /\ pc \in UpPasses => idx \in 1..(Last + 1)
  /\ pc \in DownPasses => idx \in 0..NumShards
  /\ pc = "evaluate" => config.guarded
  /\ pc \in {"forward", "collect", "validate", "done"} => staged = Nothing
  /\ pc = "update" => \A s \in Shards : staged[s] # None <=> s > idx
  /\ pc = "evaluate" => \A s \in Shards : staged[s] # None

\* The payload cache has reached its limit: only an abort makes room in it again.
Full == Cardinality(Held(cache)) = config.window

\* Cached or on its way.
In == Held(cache) \cup Held(inflight)

\* A cache that is not full has whatever the pass has visited, and nothing is on its way
\* without all that the pass will visit before it.
Filling ==
  Full \/
    /\ pc \in UpPasses =>
         /\ \A s \in Shards : s < idx => cache[s] # None
         /\ \A t \in Held(inflight) : \A s \in idx..t : s \in In
    /\ pc \in DownPasses =>
         /\ \A s \in Shards : s > idx => cache[s] # None
         /\ \A t \in Held(inflight) : \A s \in t..idx : s \in Shards => s \in In

\* Room for the shard that the pass is at: it is there or coming, or nothing is coming.
Wanted == ~ahead /\ (Up \/ Down) => Full \/ idx \in In

\* Counted apart, the payloads cached and those on their way still fit the window.
Counted ==
  /\ \A s \in Shards : cache[s] # None => inflight[s] = None
  /\ CacheBudget

\* The module cache: switched off, unlimited, or of the truth unless it keeps stale modules.
ModulesHeld ==
  /\ ~config.modules => modules = Nothing
  /\ \A s \in Shards : modules[s] # None => Full \/ cache[s] # None
  /\ ~KeepsStaleModules => \A s \in Shards : modules[s] \in {None, Truth[s]}

\* What is staged is cached as far as there is room, and a candidate that one of the caches
\* has room for is held by it.
CandidateHeld ==
  \A s \in Shards : staged[s] # None =>
    /\ Full \/ cache[s] # None
    /\ config.window >= NumShards => cache[s] # None
    /\ config.modules /\ config.resident >= NumShards => modules[s] # None

IndInv == /\ TypeOK /\ Passes /\ PayloadsCoherent /\ Filling /\ Wanted /\ Counted
          /\ ModulesHeld /\ CandidateHeld
          /\ NoLostUpdate /\ TrainsOnPublished /\ GuardSeesHeldCandidate

-------------------------------------------------------------------------------
(* Counting entries *)

\* The shards, and any set of them, can be counted, and a set of them by its parts.
LEMMA Counts ==
  /\ NumShards \in Nat \ {0, 1} /\ MaxTxns \in Nat
  /\ \A S \in SUBSET Shards : IsFiniteSet(S) /\ Cardinality(S) \in Nat /\ Cardinality(S) <= NumShards
  /\ \A S, T \in SUBSET Shards :
       S \subseteq T => Cardinality(S) <= Cardinality(T) /\ (Cardinality(S) = Cardinality(T) => S = T)
  /\ \A S, T \in SUBSET Shards :
       S \cap T = {} => Cardinality(S \cup T) = Cardinality(S) + Cardinality(T)
<1>1. NumShards \in Nat \ {0, 1} /\ MaxTxns \in Nat
  BY ShardsAssumption
<1>2. IsFiniteSet(Shards) /\ Cardinality(Shards) = NumShards
  BY <1>1, FS_Interval DEF Shards
<1>3. ASSUME NEW S \in SUBSET Shards
      PROVE  IsFiniteSet(S) /\ Cardinality(S) \in Nat /\ Cardinality(S) <= NumShards
  BY <1>2, FS_Subset, FS_CardinalityType
<1>4. ASSUME NEW S \in SUBSET Shards, NEW T \in SUBSET Shards, S \subseteq T
      PROVE  Cardinality(S) <= Cardinality(T) /\ (Cardinality(S) = Cardinality(T) => S = T)
  <2>1. IsFiniteSet(T) /\ S \in SUBSET T
    BY <1>3, <1>4
  <2> QED
    BY <2>1, FS_Subset
<1>5. ASSUME NEW S \in SUBSET Shards, NEW T \in SUBSET Shards, S \cap T = {}
      PROVE  Cardinality(S \cup T) = Cardinality(S) + Cardinality(T)
  <2>1. Cardinality(S \cup T) = Cardinality(S) + Cardinality(T) - Cardinality({})
    BY <1>3, <1>5, FS_Union
  <2> QED
    BY <1>3, <2>1, FS_EmptySet
<1> QED
  BY <1>1, <1>3, <1>4, <1>5

\* What is held is a set of shards.
LEMMA HeldShards == \A f : Held(f) \in SUBSET Shards
  BY DEF Held

\* Every configuration is one of a store whose window fits its residency limit.
LEMMA Configured ==
  ASSUME TypeOK
  PROVE  config.window \in Nat /\ config.resident \in Nat \ {0} /\ config.window <= config.resident
  BY ConfigsAssumption DEF TypeOK, Config

\* No version is taken for a missing or an unread one.
LEMMA Versions == None \notin Ver /\ Unread \notin Ver /\ None # Unread /\ 0 \in Ver
  BY TokensAssumption, ShardsAssumption DEF Ver

\* What r is if it is left of f: entries are taken out down to the limit.
LeftOf(f, limit, must, r) ==
  /\ r = [s \in Shards |-> r[s]]
  /\ \A s \in Shards : r[s] \in {None, f[s]}
  /\ Held(r) \subseteq Held(f) /\ Cardinality(Held(r)) <= limit
  /\ Cardinality(Held(f)) >= limit => Cardinality(Held(r)) = limit
  /\ Cardinality(Held(f)) <= limit => \A s \in Shards : r[s] = f[s]
  /\ limit > 0 => must \subseteq Held(r)

\* Trimming takes entries out, down to the limit, and none if there are no more.
LEMMA Trims ==
  ASSUME NEW f, NEW limit \in Nat, NEW must, NEW r \in Trimmed(f, limit, must)
  PROVE  LeftOf(f, limit, must, r)
<1> DEFINE n == IF Cardinality(Held(f)) < limit THEN Cardinality(Held(f)) ELSE limit
<1>1. PICK kept \in SUBSET Held(f) :
        /\ Cardinality(kept) = n /\ (limit > 0 => must \subseteq kept)
        /\ r = [s \in Shards |-> IF s \in kept THEN f[s] ELSE None]
  BY DEF Trimmed
<1>2. Held(r) = kept
  BY <1>1 DEF Held
<1>3. Cardinality(Held(f)) \in Nat /\ kept \in SUBSET Shards
  BY HeldShards, Counts
<1>4. Cardinality(Held(f)) <= limit => kept = Held(f)
  BY <1>1, <1>3, HeldShards, Counts
<1>5. Cardinality(Held(f)) <= limit => \A s \in Shards : r[s] = f[s]
  BY <1>1, <1>4 DEF Held
<1> QED
  BY <1>1, <1>2, <1>3, <1>5 DEF LeftOf

\* Reaping moves what the thread has read into the cache and gives nothing up.
LEMMA Reaps ==
  ASSUME TypeOK, PayloadsCoherent, Counted, NEW c \in Reaped
  PROVE  /\ c \in [Shards -> Ver \cup {None}]
         /\ \A s \in Shards : c[s] = IF inflight[s] \in Ver THEN inflight[s] ELSE cache[s]
         /\ Unfinished \in [Shards -> {None, Unread}]
         /\ \A s \in Shards : Unfinished[s] # None => inflight[s] = Unread /\ c[s] = None
         /\ \A s \in Shards : c[s] # None => c[s] = Truth[s]
         /\ Held(cache) \subseteq Held(c) /\ Held(c) \cup Held(Unfinished) = In
         /\ Held(c) \cap Held(Unfinished) = {}
         /\ Cardinality(Held(c)) + Cardinality(Held(Unfinished)) <= config.window
         /\ Full => Cardinality(Held(c)) = config.window
<1> DEFINE m == [s \in Shards |-> IF inflight[s] \in Ver THEN inflight[s] ELSE cache[s]]
<1>1. /\ Held(cache) \cap Held(inflight) = {} /\ Held(m) \cap Held(Unfinished) = {}
      /\ Held(m) \cup Held(Unfinished) = In /\ Held(cache) \subseteq Held(m)
  BY Versions DEF Held, In, Unfinished, Counted, TypeOK
<1>2. /\ Cardinality(Held(m)) + Cardinality(Held(Unfinished)) <= config.window
      /\ Cardinality(Held(m)) \in Nat /\ Cardinality(Held(Unfinished)) \in Nat
      /\ Cardinality(Held(cache)) \in Nat /\ config.window \in Nat
      /\ Cardinality(Held(cache)) <= Cardinality(Held(m))
  BY ZenonT(40), <1>1, HeldShards, Counts, Configured DEF In, Counted, CacheBudget
<1>3. /\ c = [s \in Shards |-> c[s]]
      /\ \A s \in Shards : c[s] = m[s]
  <2>1. c \in Trimmed(m, config.window, {})
    BY DEF Reaped
  <2>2. LeftOf(m, config.window, {}, c)
    BY <1>2, <2>1, Trims
  <2>3. Cardinality(Held(m)) <= config.window
    BY <1>2
  <2> QED
    BY <2>2, <2>3 DEF LeftOf
<1>4. Held(c) = Held(m)
  BY <1>3 DEF Held
<1>5. c \in [Shards -> Ver \cup {None}]
  <2>1. \A s \in Shards : c[s] \in Ver \cup {None}
    BY <1>3 DEF TypeOK
  <2> QED
    BY <1>3, <2>1
<1>6. Unfinished \in [Shards -> {None, Unread}]
  BY DEF Unfinished, TypeOK
<1>7. \A s \in Shards : Unfinished[s] # None => inflight[s] = Unread /\ c[s] = None
  BY <1>3, Versions DEF Unfinished, TypeOK, Counted
<1>8. \A s \in Shards : c[s] # None => c[s] = Truth[s]
  BY <1>3, Versions DEF PayloadsCoherent, Truth
<1> QED
  BY <1>1, <1>2, <1>3, <1>4, <1>5, <1>6, <1>7, <1>8 DEF Full

\* Among shards one is farthest from a given one.
LEMMA Farthest ==
  ASSUME NEW S \in SUBSET Shards, S # {}, NEW at \in Shards
  PROVE  \E s \in S : \A t \in S : Distance(t, at) <= Distance(s, at)
<1> DEFINE T == {NumShards - Distance(s, at) : s \in S}
<1>1. \A s \in S : Distance(s, at) \in Nat /\ Distance(s, at) <= NumShards
  BY Counts DEF Distance, Shards
<1>2. T \subseteq Nat /\ T # {}
  BY <1>1, Counts
<1>3. PICK n \in T : \A k \in T : ~(<<k, n>> \in OpToRel(<, Nat))
  BY <1>2, NatLessThanWellFounded, WFMin
<1> HIDE DEF T
<1>4. ASSUME NEW k \in T
      PROVE  n <= k
  <2>1. k \in Nat /\ n \in Nat
    BY <1>2
  <2>2. <<k, n>> \in OpToRel(<, Nat) <=> k < n
    BY <2>1 DEF OpToRel
  <2>3. ~(k < n)
    BY <1>3, <2>2, Zenon
  <2> QED
    BY <2>1, <2>3
<1>5. PICK s \in S : n = NumShards - Distance(s, at)
  BY <1>3 DEF T
<1>6. \A t \in S : NumShards - Distance(s, at) <= NumShards - Distance(t, at)
  BY <1>4, <1>5 DEF T
<1> QED
  BY <1>1, <1>6, Counts

\* A cache c and prefetches f that fit the window, and shards wanted from a pass at `at'.
Scheduling(c, f, wanted, at) ==
  /\ wanted \in SUBSET Shards /\ at \in Shards
  /\ \A s, t \in wanted : Distance(s, at) = Distance(t, at) => s = t
  /\ config.window \in Nat
  /\ Held(c) \cap Held(f) = {}
  /\ Cardinality(Held(c)) + Cardinality(Held(f)) <= config.window

\* The prefetches g go on from f: no more than there is room for, the nearest shards first.
ScheduledNearest(c, f, g, wanted, at) ==
  /\ g = [s \in Shards |-> g[s]]
  /\ \A s \in Shards : g[s] = f[s] \/ (g[s] = Unread /\ f[s] = None /\ c[s] = None /\ s \in wanted)
  /\ Held(c) \cap Held(g) = {}
  /\ Cardinality(Held(c)) + Cardinality(Held(g)) <= config.window
  /\ \A s, t \in wanted :
       Distance(s, at) <= Distance(t, at) /\ f[t] # g[t] => s \in Held(c) \cup Held(g)
  /\ at \in wanted => \/ at \in Held(c) \cup Held(g)
                      \/ Cardinality(Held(c)) + Cardinality(Held(f)) = config.window

\* The prefetcher schedules no more than there is room for, the nearest shards first, and
\* the shard that the pass is at before any other.
LEMMA Schedules ==
  ASSUME NEW c, NEW f, NEW wanted, NEW at, Scheduling(c, f, wanted, at)
  PROVE  ScheduledNearest(c, f, Scheduled(c, f, wanted, at), wanted, at)
<1> DEFINE g == Scheduled(c, f, wanted, at)
<1> HIDE DEF g
<1> USE DEF Scheduling
<1> DEFINE missing == {s \in wanted : c[s] = None /\ f[s] = None}
           Nearer(s) == {t \in missing : Distance(t, at) < Distance(s, at)}
           used == Cardinality(Held(c)) + Cardinality(Held(f))
           chosen == {s \in missing : used + Cardinality(Nearer(s)) < config.window}
<1>1. g = [s \in Shards |-> IF s \in chosen THEN Unread ELSE f[s]]
  BY DEF Scheduled, g
<1>2. /\ Cardinality(Held(c)) \in Nat /\ Cardinality(Held(f)) \in Nat /\ used \in Nat
      /\ missing \in SUBSET Shards /\ chosen \in SUBSET Shards
      /\ \A s : Nearer(s) \in SUBSET Shards /\ Cardinality(Nearer(s)) \in Nat
  BY HeldShards, Counts
<1>3. Held(g) = Held(f) \cup chosen
  BY <1>1, <1>2, Versions DEF Held
<1>4. Held(f) \cap chosen = {} /\ Held(c) \cap chosen = {}
  BY DEF Held
<1>5. used + Cardinality(chosen) <= config.window
  <2>1. CASE chosen = {}
    <3>1. Cardinality(chosen) = 0
      BY <2>1, FS_EmptySet
    <3> QED
      BY <1>2, <3>1
  <2>2. CASE chosen # {}
    <3>1. PICK s \in chosen : \A t \in chosen : Distance(t, at) <= Distance(s, at)
      BY <1>2, <2>2, Farthest
    <3>2. chosen \ {s} \in SUBSET Nearer(s)
      <4>1. \A t \in chosen : Distance(t, at) \in Nat
        BY <1>2, Counts DEF Distance, Shards
      <4>2. \A t \in chosen : Distance(t, at) = Distance(s, at) => t = s
        BY <3>1
      <4> QED
        BY <3>1, <4>1, <4>2
    <3>3. Cardinality(chosen \ {s}) <= Cardinality(Nearer(s)) /\ chosen \ {s} \in SUBSET Shards
      BY <1>2, <3>2, Counts
    <3>4. Cardinality(chosen) = Cardinality(chosen \ {s}) + 1 /\ Cardinality(chosen \ {s}) \in Nat
      <4>1. IsFiniteSet(chosen \ {s}) /\ Cardinality(chosen \ {s}) \in Nat
        BY <3>3, Counts
      <4>2. (chosen \ {s}) \cup {s} = chosen
        BY <3>1
      <4> QED
        BY <4>1, <4>2, FS_AddElement
    <3> HIDE DEF missing
    <3>5. used + Cardinality(Nearer(s)) < config.window
      BY <3>1
    <3> QED
      BY <1>2, <3>3, <3>4, <3>5
  <2> QED
    BY <2>1, <2>2
<1>6. Cardinality(Held(c)) + Cardinality(Held(g)) <= config.window
  <2>1. Cardinality(Held(g)) = Cardinality(Held(f)) + Cardinality(chosen)
    BY <1>2, <1>3, <1>4, HeldShards, Counts
  <2>2. Cardinality(chosen) \in Nat
    BY <1>2, Counts
  <2> QED
    BY <1>2, <1>5, <2>1, <2>2
<1>7. ASSUME NEW s \in wanted, NEW t \in wanted, Distance(s, at) <= Distance(t, at), f[t] # g[t]
      PROVE  s \in Held(c) \cup Held(g)
  <2>1. t \in chosen
    BY <1>1, <1>7
  <2>2. Distance(s, at) \in Nat /\ Distance(t, at) \in Nat
    BY Counts DEF Distance, Shards
  <2>3. \A r \in missing : Distance(r, at) \in Nat
    BY <1>2, Counts DEF Distance, Shards
  <2>4. Nearer(s) \subseteq Nearer(t)
    BY <1>7, <2>2, <2>3
  <2>5. Cardinality(Nearer(s)) <= Cardinality(Nearer(t))
    BY <1>2, <2>4, Counts
  <2>6. used + Cardinality(Nearer(t)) < config.window
    BY <2>1
  <2>7. s \in missing => s \in chosen
    BY <1>2, <2>5, <2>6
  <2>8. s \in missing \/ s \in Held(c) \/ s \in Held(f)
    BY DEF Held
  <2> QED
    BY <1>3, <2>7, <2>8
<1>8. ASSUME at \in wanted
      PROVE  \/ at \in Held(c) \cup Held(g)
             \/ Cardinality(Held(c)) + Cardinality(Held(f)) = config.window
  <2>1. Nearer(at) = {}
    BY <1>2, Counts DEF Distance, Shards
  <2>2. Cardinality(Nearer(at)) = 0
    BY <2>1, FS_EmptySet
  <2>3. at \in missing /\ used < config.window => at \in chosen
    BY <1>2, <2>2
  <2>4. at \in missing \/ at \in Held(c) \/ at \in Held(f)
    BY <1>8 DEF Held
  <2> QED
    BY <1>2, <1>3, <2>3, <2>4
<1>9. \A s \in Shards : g[s] = f[s] \/ (g[s] = Unread /\ f[s] = None /\ c[s] = None /\ s \in wanted)
  BY <1>1
<1>10. g = [s \in Shards |-> g[s]]
  BY <1>1
<1> QED
  BY <1>3, <1>4, <1>6, <1>7, <1>8, <1>9, <1>10 DEF ScheduledNearest, g

-------------------------------------------------------------------------------
(* The steps of a pass *)

\* A full cache waits for nothing.
LEMMA FullIsQuiet ==
  ASSUME TypeOK, Counted, Full
  PROVE  Held(inflight) = {}
<1>1. Cardinality(Held(cache)) + Cardinality(Held(inflight)) <= config.window
  BY DEF Counted, CacheBudget
<1>2. Cardinality(Held(inflight)) \in Nat /\ config.window \in Nat /\ IsFiniteSet(Held(inflight))
  BY HeldShards, Counts, Configured
<1>3. Cardinality(Held(inflight)) = 0
  BY <1>1, <1>2 DEF Full
<1> QED
  BY <1>2, <1>3, FS_EmptySet

\* An empty store of shards, untouched, satisfies the invariant.
LEMMA InitInvariant == Init => IndInv
<1> SUFFICES ASSUME Init
             PROVE  IndInv
  OBVIOUS
<1>1. /\ \A s \in Shards : /\ live[s] = 0 /\ base[s] = 0 /\ staged[s] = None /\ cache[s] = None
                           /\ inflight[s] = None /\ modules[s] = None /\ seen[s] = None
      /\ pc = "forward" /\ idx = 1 /\ ahead = TRUE /\ txns = 0 /\ config \in Configs
  BY DEF Init, Nothing
<1>2. TypeOK
  <2>1. 1 \in 0..(NumShards + 1) /\ 0 \in Ver
    BY Counts DEF Ver
  <2> QED
    BY <2>1 DEF Init, Nothing, TypeOK
<1>3. Passes
  BY <1>1, Counts DEF Init, Passes, UpPasses, DownPasses, Last
<1>4. Held(cache) = {} /\ Held(inflight) = {}
  BY <1>1 DEF Held
<1>5. Filling /\ Wanted /\ PayloadsCoherent
  BY <1>1, <1>4 DEF Filling, Wanted, PayloadsCoherent, UpPasses, DownPasses, Shards
<1>6. Counted
  <2>1. Cardinality(Held(cache)) = 0 /\ Cardinality(Held(inflight)) = 0
    BY <1>4, FS_EmptySet
  <2> QED
    BY <1>1, <1>2, <2>1, Configured DEF Counted, CacheBudget
<1>7. ModulesHeld /\ CandidateHeld
  BY <1>1 DEF Init, ModulesHeld, CandidateHeld
<1>8. NoLostUpdate /\ TrainsOnPublished /\ GuardSeesHeldCandidate
  BY <1>1 DEF NoLostUpdate, TrainsOnPublished, GuardSeesHeldCandidate
<1> QED
  BY <1>2, <1>3, <1>5, <1>6, <1>7, <1>8 DEF IndInv

\* A read by the prefetch thread changes what is on its way, and not for which shards.
LEMMA ReadInvariant == IndInv /\ PrefetchThread => IndInv'
<1> SUFFICES ASSUME IndInv, NEW s \in Shards, ThreadReads(s)
             PROVE  IndInv'
  BY DEF PrefetchThread
<1> USE DEF IndInv
<1>1. /\ inflight[s] = Unread /\ inflight' = [inflight EXCEPT ![s] = live[s]]
      /\ UNCHANGED <<config, live, staged, cache, modules, pc, idx, ahead, seen, base, txns>>
  BY DEF ThreadReads, store
<1>2. /\ inflight'[s] = live[s] /\ live[s] \in Ver
      /\ \A t \in Shards : t # s => inflight'[t] = inflight[t]
  BY <1>1 DEF TypeOK
<1>3. \A t \in Shards : inflight'[t] # None <=> inflight[t] # None
  BY <1>1, <1>2, Versions
<1>4. Held(inflight') = Held(inflight)
  BY <1>3 DEF Held
<1>5. TypeOK'
  BY <1>1, <1>2 DEF TypeOK
<1>6. Passes'
  BY <1>1 DEF Passes, Last
<1>7. PayloadsCoherent'
  BY <1>1, <1>2, Versions DEF PayloadsCoherent, Truth
<1>8. Filling' /\ Wanted'
  BY <1>1, <1>4 DEF Filling, Wanted, Full, In, Held, Up, Down, Last
<1>9. Counted'
  BY <1>1, <1>3, <1>4 DEF Counted, CacheBudget
<1>10. ModulesHeld' /\ CandidateHeld'
  BY <1>1 DEF ModulesHeld, CandidateHeld, KeepsStaleModules, HoldsCandidate, Full, Truth
<1>11. NoLostUpdate' /\ TrainsOnPublished' /\ GuardSeesHeldCandidate'
  BY <1>1 DEF NoLostUpdate, TrainsOnPublished, GuardSeesHeldCandidate, KeepsStaleModules,
              HoldsCandidate
<1> QED
  BY <1>5, <1>6, <1>7, <1>8, <1>9, <1>10, <1>11

\* The prefetch before a shard gets that shard in, unless the cache is full.
LEMMA PrefetchInvariant == IndInv /\ PrefetchAhead => IndInv'
<1> SUFFICES ASSUME IndInv, PrefetchAhead
             PROVE  IndInv'
  OBVIOUS
<1> USE DEF IndInv
<1> DEFINE to_come == IF Up THEN idx..Last ELSE 1..idx
           wanted == {s \in to_come : Distance(s, idx) < config.window}
<1>1. /\ (Up \/ Down) /\ ahead' = FALSE
      /\ UNCHANGED <<config, live, staged, modules, pc, idx, seen, base, txns>>
  BY DEF PrefetchAhead, store
<1>2. PICK c \in Reaped : cache' = c /\ inflight' = Scheduled(c, Unfinished, wanted, idx)
  BY DEF PrefetchAhead
<1>3. /\ idx \in Shards /\ wanted \in SUBSET Shards
      /\ \A s, t \in wanted : Distance(s, idx) = Distance(t, idx) => s = t
      /\ config.window > 0 => idx \in wanted
      /\ \A s, t \in to_come : (Up /\ s <= t) \/ (~Up /\ t <= s) => Distance(s, idx) <= Distance(t, idx)
      /\ \A t \in to_come : IF Up THEN idx <= t ELSE t <= idx
  BY <1>1, Counts, Configured DEF Up, Down, Last, Distance, Shards
<1>4. /\ c \in [Shards -> Ver \cup {None}]
      /\ Unfinished \in [Shards -> {None, Unread}]
      /\ \A s \in Shards : Unfinished[s] # None => inflight[s] = Unread /\ c[s] = None
      /\ \A s \in Shards : c[s] # None => c[s] = Truth[s]
      /\ Held(cache) \subseteq Held(c) /\ Held(c) \cup Held(Unfinished) = In
      /\ Held(c) \cap Held(Unfinished) = {}
      /\ Cardinality(Held(c)) + Cardinality(Held(Unfinished)) <= config.window
      /\ Full => Cardinality(Held(c)) = config.window
  BY Reaps
<1>5. config.window \in Nat
  BY Configured
<1> HIDE DEF wanted
<1>6. /\ inflight' = [s \in Shards |-> inflight'[s]]
      /\ \A s \in Shards : \/ inflight'[s] = Unfinished[s]
                           \/ inflight'[s] = Unread /\ c[s] = None /\ s \in wanted
      /\ Held(c) \cap Held(inflight') = {}
      /\ Cardinality(Held(c)) + Cardinality(Held(inflight')) <= config.window
      /\ \A s, t \in wanted :
           Distance(s, idx) <= Distance(t, idx) /\ Unfinished[t] # inflight'[t] =>
             s \in Held(c) \cup Held(inflight')
      /\ idx \in wanted => \/ idx \in Held(c) \cup Held(inflight')
                           \/ Cardinality(Held(c)) + Cardinality(Held(Unfinished)) = config.window
  <2>1. Scheduling(c, Unfinished, wanted, idx)
    BY <1>3, <1>4, <1>5 DEF Scheduling
  <2>2. ScheduledNearest(c, Unfinished, inflight', wanted, idx)
    BY <1>2, <2>1, Schedules
  <2> QED
    BY <2>2 DEF ScheduledNearest
<1>7. TypeOK'
  <2>1. \A s \in Shards : inflight'[s] \in {None, Unread}
    BY <1>4, <1>6
  <2>2. inflight' \in [Shards -> Ver \cup {None, Unread}]
    BY <1>6, <2>1
  <2> QED
    BY <1>1, <1>2, <1>4, <2>2 DEF TypeOK
<1>8. Passes'
  BY <1>1 DEF Passes, Last
<1>9. Held(Unfinished) \subseteq Held(inflight') /\ Held(Unfinished) \subseteq Held(inflight)
  BY <1>4, <1>6, Versions DEF Held
<1>10. In \subseteq In'
  BY <1>2, <1>4, <1>9 DEF In
<1>11. Counted'
  BY <1>1, <1>2, <1>6 DEF Counted, CacheBudget, Held
<1>12. Full => Full' /\ Held(inflight') = {}
  <2>1. Full => Full'
    BY <1>1, <1>2, <1>4 DEF Full, Held
  <2>2. Full' => Held(inflight') = {}
    <3>1. Cardinality(Held(inflight')) \in Nat /\ IsFiniteSet(Held(inflight'))
      BY HeldShards, Counts
    <3>2. Full' => Cardinality(Held(inflight')) = 0
      BY <1>1, <1>2, <1>5, <1>6, <3>1 DEF Full, Held
    <3> QED
      BY <3>1, <3>2, FS_EmptySet
  <2> QED
    BY <2>1, <2>2
<1>13. PayloadsCoherent'
  <2>1. ASSUME NEW s \in Shards, inflight'[s] # None
        PROVE  staged[s] = None
    <3>1. CASE inflight'[s] = Unfinished[s]
      BY <1>4, <2>1, <3>1, Versions DEF PayloadsCoherent
    <3>2. CASE c[s] = None /\ s \in wanted
      <4>1. ~Full /\ cache[s] = None
        BY <1>4, <1>12, <2>1, <3>2 DEF Held
      <4> QED
        BY <4>1 DEF CandidateHeld
    <3> QED
      BY <1>6, <3>1, <3>2
  <2> QED
    BY <1>1, <1>2, <1>4, <1>6, <2>1 DEF PayloadsCoherent, Truth
<1>14. Filling' /\ Wanted'
  <2>1. CASE Full
    BY <1>12, <2>1 DEF Filling, Wanted
  <2>2. CASE ~Full
    <3>1. ASSUME NEW t \in Held(Unfinished), NEW s \in Shards, IF Up THEN s \in idx..t ELSE s \in t..idx
          PROVE  s \in In'
      BY <1>1, <1>9, <1>10, <2>2, <3>1 DEF Filling, Up, Down
    <3>2. ASSUME NEW t \in Held(inflight'), t \notin Held(Unfinished), NEW s \in Shards,
                 IF Up THEN s \in idx..t ELSE s \in t..idx
          PROVE  s \in In'
      <4>1. t \in wanted /\ Unfinished[t] # inflight'[t]
        BY <1>6, <3>2 DEF Held
      <4>2. s \in wanted /\ Distance(s, idx) <= Distance(t, idx)
        BY <1>1, <1>3, <3>2, <4>1, Counts, Configured DEF wanted, Up, Down, Last, Distance, Shards
      <4> QED
        BY <1>2, <1>6, <4>1, <4>2 DEF In, Held
    <3>3. \A s \in Shards : cache[s] # None => cache'[s] # None
      BY <1>2, <1>4 DEF Held
    <3>4. \A t \in Held(inflight') : \A s \in Shards :
            (IF Up THEN s \in idx..t ELSE s \in t..idx) => s \in In'
      BY <3>1, <3>2
    <3>5. ASSUME Up PROVE Filling'
      <4>1. /\ \A s \in Shards : s < idx => cache'[s] # None
            /\ \A t \in Held(inflight') : \A s \in idx..t : s \in In'
        <5>1. \A t \in Held(inflight') : \A s \in idx..t : s \in Shards
          <6>1. \A t \in Shards : \A s \in idx..t : s \in Shards
            BY <1>3, Counts DEF Shards
          <6> QED
            BY <6>1, HeldShards
        <5> QED
          BY <1>1, <2>2, <3>3, <3>4, <3>5, <5>1 DEF Filling, Up
      <4>2. pc' \in UpPasses /\ pc' \notin DownPasses /\ Held(inflight)' = Held(inflight')
        BY <1>1, <3>5 DEF Up, UpPasses, DownPasses, Held
      <4> QED
        BY <1>1, <4>1, <4>2 DEF Filling
    <3>6. ASSUME ~Up PROVE Filling'
      <4>1. /\ \A s \in Shards : s > idx => cache'[s] # None
            /\ \A t \in Held(inflight') : \A s \in t..idx : s \in Shards => s \in In'
        BY <1>1, <1>3, <2>2, <3>3, <3>4, <3>6 DEF Filling, Down, Shards
      <4>2. pc' \in DownPasses /\ pc' \notin UpPasses /\ Held(inflight)' = Held(inflight')
        BY <1>1, <3>6 DEF Down, UpPasses, DownPasses, Held
      <4> QED
        BY <1>1, <4>1, <4>2 DEF Filling
    <3>7. Filling'
      BY <3>5, <3>6
    <3>8. Full' \/ idx \in In'
      <4>1. CASE Held(Unfinished) = {}
        <5>1. Cardinality(Held(Unfinished)) = 0 /\ Cardinality(Held(c)) \in Nat
          BY <4>1, HeldShards, Counts, FS_EmptySet
        <5>2. config.window = 0 => Cardinality(Held(c)) = config.window
          BY <1>4, <1>5, <5>1
        <5>3. config.window > 0 => idx \in Held(c) \cup Held(inflight') \/ Cardinality(Held(c)) = config.window
          BY <1>3, <1>5, <1>6, <5>1
        <5> QED
          BY <1>1, <1>2, <1>5, <5>2, <5>3 DEF Full, In, Held
      <4>2. CASE Held(Unfinished) # {}
        <5>1. PICK t \in Held(Unfinished) : TRUE
          BY <4>2
        <5>2. t \in Held(inflight) /\ cache[t] = None
          BY <1>9, <5>1 DEF Counted, Held
        <5>3. IF Up THEN idx \in idx..t ELSE idx \in t..idx
          BY <1>1, <1>3, <2>2, <5>2 DEF Filling, Up, Down, Shards, Held
        <5> QED
          BY <1>3, <3>1, <5>1, <5>3
      <4> QED
        BY <4>1, <4>2
    <3> QED
      BY <1>1, <3>7, <3>8 DEF Wanted
  <2> QED
    BY <2>1, <2>2
<1>15. ModulesHeld' /\ CandidateHeld'
  BY <1>1, <1>2, <1>4 DEF ModulesHeld, CandidateHeld, KeepsStaleModules, HoldsCandidate, Full,
                          Truth, Held
<1>16. NoLostUpdate' /\ TrainsOnPublished' /\ GuardSeesHeldCandidate'
  BY <1>1 DEF NoLostUpdate, TrainsOnPublished, GuardSeesHeldCandidate, KeepsStaleModules,
              HoldsCandidate
<1> QED
  BY <1>7, <1>8, <1>11, <1>13, <1>14, <1>15, <1>16

\* Building a module gives up others, where room is short, and never the built one.
LEMMA Builds ==
  ASSUME TypeOK, NEW i \in Shards, NEW p \in Ver, NEW m \in BuiltModules(i, p)
  PROVE  /\ m \in [Shards -> Ver \cup {None}]
         /\ \A s \in Shards : \/ m[s] \in {None, modules[s]}
                              \/ s = i /\ m[s] = p /\ config.modules /\ modules[s] = None
         /\ config.modules => m[i] # None
         /\ ~config.modules => m = modules
         /\ config.resident >= NumShards => \A s \in Shards : modules[s] # None => m[s] # None
<1>1. CASE config.modules /\ modules[i] = None
  <2> DEFINE f == [modules EXCEPT ![i] = p]
  <2>1. m \in Trimmed(f, config.resident, {i})
    BY <1>1 DEF BuiltModules, PutModule
  <2>2. /\ f[i] = p /\ p # None /\ \A s \in Shards : s # i => f[s] = modules[s]
        /\ \A s \in Shards : f[s] \in Ver \cup {None}
    BY Versions DEF TypeOK
  <2>3. {i} \subseteq Held(f)
    BY <2>2 DEF Held
  <2> HIDE DEF f
  <2>4. /\ m = [s \in Shards |-> m[s]]
        /\ \A s \in Shards : m[s] \in {None, f[s]}
        /\ Cardinality(Held(f)) <= config.resident => \A s \in Shards : m[s] = f[s]
        /\ i \in Held(m)
    <3>1. config.resident \in Nat /\ config.resident > 0
      BY Configured
    <3>2. LeftOf(f, config.resident, {i}, m)
      BY <2>1, <3>1, Trims
    <3> QED
      BY <3>1, <3>2 DEF LeftOf
  <2>5. config.resident >= NumShards => Cardinality(Held(f)) <= config.resident
    BY HeldShards, Counts, Configured
  <2>6. m \in [Shards -> Ver \cup {None}]
    <3>1. \A s \in Shards : m[s] \in Ver \cup {None}
      BY <2>2, <2>4
    <3> QED
      BY <2>4, <3>1
  <2> QED
    BY <1>1, <2>2, <2>4, <2>5, <2>6 DEF Held
<1>2. CASE ~(config.modules /\ modules[i] = None)
  BY <1>2 DEF BuiltModules, TypeOK
<1> QED
  BY <1>1, <1>2

\* A load finds the shard in the cache, unless the cache is full, and what it finds is the
\* truth; what it reads from the live file is the truth of a shard that is not staged.
LEMMA Loads ==
  ASSUME IndInv, ~ahead, Up \/ Down, LoadPayload(idx), NEW c \in Reaped
  PROVE  /\ idx \in Shards /\ inflight' = Unfinished
         /\ Payload(c, idx) \in Ver
         /\ idx \in Held(c) \/ Cardinality(Held(c)) = config.window
         /\ staged[idx] = None => Payload(c, idx) = live[idx]
         /\ config.window >= NumShards /\ staged[idx] # None => Payload(c, idx) = staged[idx]
<1> USE DEF IndInv
<1>1. idx \in Shards /\ inflight[idx] # Unread /\ inflight' = Unfinished
  BY Counts DEF Up, Down, Last, Shards, LoadPayload
<1>2. /\ c \in [Shards -> Ver \cup {None}]
      /\ \A s \in Shards : Unfinished[s] # None => inflight[s] = Unread /\ c[s] = None
      /\ \A s \in Shards : c[s] # None => c[s] = Truth[s]
      /\ Held(cache) \subseteq Held(c) /\ Held(c) \cup Held(Unfinished) = In
      /\ Full => Cardinality(Held(c)) = config.window
  BY Reaps
<1>3. idx \in Held(c) \/ Cardinality(Held(c)) = config.window
  BY <1>1, <1>2 DEF Wanted, Held
<1>4. Payload(c, idx) \in Ver
  BY <1>1, <1>2 DEF Payload, TypeOK
<1>5. staged[idx] = None => Payload(c, idx) = live[idx]
  BY <1>1, <1>2 DEF Payload, Truth
<1>6. config.window >= NumShards /\ staged[idx] # None => Payload(c, idx) = staged[idx]
  BY <1>1, <1>2 DEF Payload, Truth, CandidateHeld, Held
<1> QED
  BY <1>1, <1>3, <1>4, <1>5, <1>6

\* A pass that visits a shard and changes no weights.
LEMMA VisitInvariant ==
  ASSUME IndInv, ~ahead, Up \/ (Down /\ pc = "collect"),
         LoadPayload(idx), NEW c \in Reaped, cache' = c,
         modules' \in BuiltModules(idx, Payload(c, idx)),
         seen' = [seen EXCEPT ![idx] = ModuleVersion(idx, Payload(c, idx))],
         idx' = IF Up THEN idx + 1 ELSE idx - 1, ahead' = TRUE,
         UNCHANGED <<config, pc, store>>
  PROVE  IndInv'
<1> USE DEF IndInv
<1> DEFINE p == Payload(c, idx)
           v == ModuleVersion(idx, p)
<1>1. UNCHANGED <<config, pc, live, staged, base, txns>>
  BY DEF store
<1>2. /\ idx \in Shards /\ inflight' = Unfinished
      /\ p \in Ver
      /\ idx \in Held(c) \/ Cardinality(Held(c)) = config.window
      /\ staged[idx] = None => p = live[idx]
      /\ config.window >= NumShards /\ staged[idx] # None => p = staged[idx]
  BY Loads
<1>3. /\ c \in [Shards -> Ver \cup {None}]
      /\ Unfinished \in [Shards -> {None, Unread}]
      /\ \A s \in Shards : Unfinished[s] # None => inflight[s] = Unread /\ c[s] = None
      /\ \A s \in Shards : c[s] # None => c[s] = Truth[s]
      /\ Held(cache) \subseteq Held(c) /\ Held(c) \cup Held(Unfinished) = In
      /\ Held(c) \cap Held(Unfinished) = {}
      /\ Cardinality(Held(c)) + Cardinality(Held(Unfinished)) <= config.window
      /\ Full => Cardinality(Held(c)) = config.window
  BY Reaps
<1> HIDE DEF p
<1>4. /\ modules' \in [Shards -> Ver \cup {None}]
      /\ \A s \in Shards : \/ modules'[s] \in {None, modules[s]}
                           \/ s = idx /\ modules'[s] = p /\ config.modules /\ modules[s] = None
      /\ ~config.modules => modules' = modules
      /\ config.resident >= NumShards => \A s \in Shards : modules[s] # None => modules'[s] # None
  BY <1>2, Builds DEF p
<1>5. v \in Ver
  BY <1>2 DEF ModuleVersion, CachedModule, TypeOK
<1>6. TypeOK'
  <2>1. inflight' \in [Shards -> Ver \cup {None, Unread}]
    BY <1>2, <1>3
  <2>2. idx' \in 0..(NumShards + 1)
    BY <1>2, Counts DEF Shards
  <2>3. seen' \in [Shards -> Ver \cup {None}]
    BY <1>5 DEF p, TypeOK
  <2> QED
    BY <1>1, <1>3, <1>4, <2>1, <2>2, <2>3 DEF TypeOK
<1>7. Passes'
  BY <1>1, <1>2, Counts DEF Passes, Last, Up, Down, Shards, UpPasses, DownPasses
<1>8. PayloadsCoherent'
  BY <1>1, <1>2, <1>3 DEF PayloadsCoherent, Truth
<1>9. Full => Full'
  BY <1>1, <1>3 DEF Full, Held
<1>10. In' = In /\ Held(Unfinished) \subseteq Held(inflight)
  BY <1>2, <1>3, Versions DEF In, Held
<1>11. \A s \in Shards : cache[s] # None => cache'[s] # None
  BY <1>3 DEF Held
<1>12. Full' \/ cache'[idx] # None
  BY <1>1, <1>2 DEF Full, Held
<1>13. Filling' /\ Wanted'
  <2>1. CASE Full'
    BY <2>1 DEF Filling, Wanted
  <2>2. CASE ~Full'
    <3>1. ASSUME Up
          PROVE  Filling'
      <4>1. idx' = idx + 1 /\ pc' \in UpPasses /\ pc' \notin DownPasses /\ idx \in Nat
        BY <1>1, <1>2, <3>1 DEF Up, UpPasses, DownPasses, Shards
      <4>2. \A s \in Shards : s < idx' => cache'[s] # None
        BY <1>9, <1>11, <1>12, <2>2, <3>1, <4>1 DEF Filling, Up, Shards
      <4>3. \A t \in Held(inflight') : \A s \in idx'..t : s \in In'
        <5>1. ASSUME NEW t \in Held(inflight'), NEW s \in idx'..t
              PROVE  s \in In
          <6>1. t \in Held(inflight) /\ t \in Nat
            BY <1>2, <1>10, HeldShards DEF Shards
          <6>2. s \in idx..t
            BY <4>1, <6>1
          <6> QED
            BY <1>9, <2>2, <3>1, <6>1, <6>2 DEF Filling, Up
        <5> QED
          BY <1>10, <5>1
      <4> QED
        BY <4>1, <4>2, <4>3 DEF Filling, Held
    <3>2. ASSUME ~Up
          PROVE  Filling'
      <4>1. idx' = idx - 1 /\ pc' \in DownPasses /\ pc' \notin UpPasses /\ idx \in Nat
        BY <1>1, <1>2, <3>2 DEF Down, UpPasses, DownPasses, Shards
      <4>2. \A s \in Shards : s > idx' => cache'[s] # None
        BY <1>1, <1>9, <1>11, <1>12, <2>2, <3>2, <4>1 DEF Filling, Shards
      <4>3. \A t \in Held(inflight') : \A s \in t..idx' : s \in Shards => s \in In'
        <5>1. ASSUME NEW t \in Held(inflight'), NEW s \in t..idx', s \in Shards
              PROVE  s \in In
          <6>1. t \in Held(inflight) /\ t \in Nat
            BY <1>2, <1>10, HeldShards DEF Shards
          <6>2. s \in t..idx
            BY <4>1, <6>1
          <6> QED
            BY <1>1, <1>9, <2>2, <4>1, <5>1, <6>1, <6>2 DEF Filling
        <5> QED
          BY <1>10, <5>1
      <4> QED
        BY <4>1, <4>2, <4>3 DEF Filling, Held
    <3> QED
      BY <3>1, <3>2 DEF Wanted
  <2> QED
    BY <2>1, <2>2
<1>14. Counted'
  BY <1>1, <1>2, <1>3 DEF Counted, CacheBudget, Held
<1>15. ModulesHeld'
  <2>1. ~config.modules => modules' = Nothing
    BY <1>4 DEF ModulesHeld
  <2>2. \A s \in Shards : modules'[s] # None => Full' \/ cache'[s] # None
    BY <1>4, <1>9, <1>11, <1>12 DEF ModulesHeld
  <2>3. ASSUME ~KeepsStaleModules, NEW s \in Shards
        PROVE  modules'[s] \in {None, Truth[s]}
    <3>1. CASE modules'[s] \in {None, modules[s]}
      BY <2>3, <3>1 DEF ModulesHeld
    <3>2. CASE s = idx /\ modules'[s] = p /\ config.modules /\ modules[s] = None
      <4>1. staged[s] = None => Truth[s] = live[s]
        BY DEF Truth
      <4>2. staged[s] # None => Truth[s] = staged[s] /\ config.guarded
        BY <1>2, <3>2 DEF Truth, Passes, Up, UpPasses, Nothing
      <4>3. staged[s] # None => config.window >= NumShards
        BY <2>3, <3>2, <4>2 DEF KeepsStaleModules, HoldsCandidate, CandidateHeld
      <4> QED
        BY <1>2, <3>2, <4>1, <4>2, <4>3
    <3> QED
      BY <1>4, <3>1, <3>2
  <2> QED
    BY <1>1, <2>1, <2>2, <2>3 DEF ModulesHeld, KeepsStaleModules, HoldsCandidate, Truth
<1>16. CandidateHeld'
  BY <1>1, <1>4, <1>9, <1>11, Configured DEF CandidateHeld
<1>17. NoLostUpdate'
  BY <1>1 DEF NoLostUpdate, KeepsStaleModules, HoldsCandidate
<1>18. TrainsOnPublished'
  <2>1. pc # "evaluate" /\ ~KeepsStaleModules => v = live[idx]
    <3>1. pc # "evaluate" => staged[idx] = None
      BY <1>2 DEF Passes, Up, UpPasses, Nothing
    <3>2. ~KeepsStaleModules => modules[idx] \in {None, Truth[idx]}
      BY <1>2 DEF ModulesHeld
    <3> QED
      BY <1>2, <3>1, <3>2 DEF ModuleVersion, CachedModule, Truth
  <2> QED
    BY <1>1, <2>1 DEF TrainsOnPublished, KeepsStaleModules, HoldsCandidate, TypeOK, p
<1>19. GuardSeesHeldCandidate'
  <2>1. pc = "evaluate" /\ HoldsCandidate => v = staged[idx]
    <3>1. pc = "evaluate" => staged[idx] # None
      BY <1>2 DEF Passes
    <3>2. HoldsCandidate => modules[idx] \in {None, Truth[idx]}
      BY <1>2 DEF ModulesHeld, KeepsStaleModules
    <3>3. HoldsCandidate /\ staged[idx] # None => CachedModule(idx) \/ p = staged[idx]
      BY <1>2 DEF HoldsCandidate, CandidateHeld, CachedModule
    <3> QED
      BY <1>2, <3>1, <3>2, <3>3 DEF ModuleVersion, CachedModule, Truth
  <2> QED
    BY <1>1, <2>1 DEF GuardSeesHeldCandidate, HoldsCandidate, TypeOK, p
<1> QED
  BY <1>6, <1>7, <1>8, <1>13, <1>14, <1>15, <1>16, <1>17, <1>18, <1>19

LEMMA CollectInvariant == IndInv /\ CollectShard => IndInv'
<1> SUFFICES ASSUME IndInv, CollectShard
             PROVE  IndInv'
  OBVIOUS
<1>1. PICK c \in Reaped :
        /\ cache' = c
        /\ modules' \in BuiltModules(idx, Payload(c, idx))
        /\ seen' = [seen EXCEPT ![idx] = ModuleVersion(idx, Payload(c, idx))]
  BY DEF CollectShard
<1>2. ~Up
  BY DEF CollectShard, Up, UpPasses
<1>3. /\ ~ahead /\ Down /\ pc = "collect" /\ LoadPayload(idx) /\ idx' = idx - 1 /\ ahead' = TRUE
      /\ UNCHANGED <<config, pc, store>>
  BY DEF CollectShard
<1> QED
  BY <1>1, <1>2, <1>3, VisitInvariant

\* A forward pass that meets a module in the cache asks for no payload; the module can only
\* be there if the payload is, or the payload cache is full.
LEMMA ForwardInvariant == IndInv /\ ForwardShard => IndInv'
<1> SUFFICES ASSUME IndInv, ForwardShard
             PROVE  IndInv'
  OBVIOUS
<1>1. ~ahead /\ Up /\ idx' = idx + 1 /\ ahead' = TRUE /\ UNCHANGED <<config, pc, store>>
  BY DEF ForwardShard
<1>2. CASE ~CachedModule(idx)
  <2>1. PICK c \in Reaped :
          /\ cache' = c
          /\ modules' \in BuiltModules(idx, Payload(c, idx))
          /\ seen' = [seen EXCEPT ![idx] = Payload(c, idx)]
    BY <1>2 DEF ForwardShard
  <2>2. LoadPayload(idx)
    BY <1>2 DEF ForwardShard
  <2>3. ModuleVersion(idx, Payload(c, idx)) = Payload(c, idx)
    BY <1>2 DEF ModuleVersion
  <2> QED
    BY <1>1, <2>1, <2>2, <2>3, VisitInvariant
<1>3. CASE CachedModule(idx)
  <2> USE DEF IndInv
  <2>1. /\ seen' = [seen EXCEPT ![idx] = modules[idx]]
        /\ UNCHANGED <<config, pc, live, staged, base, txns, cache, inflight, modules>>
    BY <1>1, <1>3 DEF ForwardShard, store
  <2>2. idx \in Shards /\ modules[idx] # None /\ config.modules
    BY <1>1, <1>3, Counts DEF Up, Last, Shards, CachedModule
  <2>3. TypeOK'
    BY <1>1, <2>1, <2>2, Counts DEF TypeOK, Shards
  <2>4. Passes'
    BY <1>1, <2>1, <2>2, Counts DEF Passes, Last, Up, Shards, UpPasses, DownPasses
  <2>5. PayloadsCoherent'
    BY <2>1 DEF PayloadsCoherent, Truth
  <2>6. Filling' /\ Wanted'
    <3>1. Full \/ cache[idx] # None
      BY <2>2 DEF ModulesHeld
    <3>2. Full' <=> Full
      BY <2>1 DEF Full, Held
    <3>3. ASSUME ~Full
          PROVE  Filling'
      <4>1. pc' \in UpPasses /\ pc' \notin DownPasses /\ idx \in Nat
        BY <1>1, <2>1, <2>2 DEF Up, UpPasses, DownPasses, Shards
      <4>2. \A s \in Shards : s < idx' => cache'[s] # None
        BY <1>1, <2>1, <3>1, <3>3, <4>1 DEF Filling, Up, Shards
      <4>3. \A t \in Held(inflight) : \A s \in idx'..t : s \in In
        <5>1. \A t \in Held(inflight) : t \in Nat
          BY HeldShards DEF Shards
        <5>2. \A t \in Held(inflight) : \A s \in idx'..t : s \in idx..t
          BY <1>1, <4>1, <5>1
        <5> QED
          BY <1>1, <3>3, <5>2 DEF Filling, Up
      <4> QED
        BY <2>1, <4>1, <4>2, <4>3 DEF Filling, Held, In
    <3> QED
      BY <1>1, <3>2, <3>3 DEF Filling, Wanted
  <2>7. Counted'
    BY <2>1 DEF Counted, CacheBudget, Held
  <2>8. ModulesHeld' /\ CandidateHeld'
    BY <2>1 DEF ModulesHeld, CandidateHeld, KeepsStaleModules, HoldsCandidate, Full, Held, Truth
  <2>9. NoLostUpdate'
    BY <2>1 DEF NoLostUpdate, KeepsStaleModules, HoldsCandidate
  <2>10. ~KeepsStaleModules => modules[idx] = Truth[idx]
    BY <2>2 DEF ModulesHeld
  <2>11. TrainsOnPublished'
    <3>1. pc # "evaluate" => staged[idx] = None
      BY <1>1, <2>2 DEF Passes, Up, UpPasses, Nothing
    <3>2. pc # "evaluate" /\ ~KeepsStaleModules => modules[idx] = live[idx]
      BY <2>2, <2>10, <3>1 DEF Truth
    <3> QED
      BY <2>1, <3>2 DEF TrainsOnPublished, KeepsStaleModules, HoldsCandidate, TypeOK
  <2>12. GuardSeesHeldCandidate'
    <3>1. pc = "evaluate" => staged[idx] # None
      BY <2>2 DEF Passes
    <3>2. pc = "evaluate" /\ HoldsCandidate => modules[idx] = staged[idx]
      BY <2>2, <2>10, <3>1 DEF Truth, KeepsStaleModules
    <3> QED
      BY <2>1, <3>2 DEF GuardSeesHeldCandidate, HoldsCandidate, TypeOK
  <2> QED
    BY <2>3, <2>4, <2>5, <2>6, <2>7, <2>8, <2>9, <2>11, <2>12
<1> QED
  BY <1>2, <1>3

\* An update stages a shard: the new payload takes the place of the old one, or, in a full
\* cache, that of some other; the module in use becomes the new one.
LEMMA UpdateInvariant == IndInv /\ UpdateShard => IndInv'
<1> SUFFICES ASSUME IndInv, UpdateShard
             PROVE  IndInv'
  OBVIOUS
<1> USE DEF IndInv
<1>1. /\ ~ahead /\ pc = "update" /\ Down /\ LoadPayload(idx)
      /\ staged' = [staged EXCEPT ![idx] = txns] /\ idx' = idx - 1 /\ ahead' = TRUE
      /\ UNCHANGED <<config, pc, live, txns>>
  BY DEF UpdateShard
<1>2. PICK c \in Reaped :
        /\ cache' \in PutPayload([c EXCEPT ![idx] = None], idx, txns)
        /\ modules' \in IF config.modules
                        THEN {[m EXCEPT ![idx] = txns] : m \in BuiltModules(idx, Payload(c, idx))}
                        ELSE {modules}
        /\ seen' = [seen EXCEPT ![idx] = ModuleVersion(idx, Payload(c, idx))]
        /\ base' = [base EXCEPT ![idx] = UpdatedFrom(Payload(c, idx), ModuleVersion(idx, Payload(c, idx)))]
  BY DEF UpdateShard
<1> DEFINE p == Payload(c, idx)
           v == ModuleVersion(idx, p)
           d == [[c EXCEPT ![idx] = None] EXCEPT ![idx] = txns]
<1>3. /\ idx \in Shards /\ inflight' = Unfinished
      /\ p \in Ver
      /\ idx \in Held(c) \/ Cardinality(Held(c)) = config.window
      /\ staged[idx] = None => p = live[idx]
      /\ config.window >= NumShards /\ staged[idx] # None => p = staged[idx]
  BY <1>1, Loads
<1>4. /\ c \in [Shards -> Ver \cup {None}]
      /\ Unfinished \in [Shards -> {None, Unread}]
      /\ \A s \in Shards : Unfinished[s] # None => inflight[s] = Unread /\ c[s] = None
      /\ \A s \in Shards : c[s] # None => c[s] = Truth[s]
      /\ Held(cache) \subseteq Held(c) /\ Held(c) \cup Held(Unfinished) = In
      /\ Held(c) \cap Held(Unfinished) = {}
      /\ Cardinality(Held(c)) + Cardinality(Held(Unfinished)) <= config.window
      /\ Full => Cardinality(Held(c)) = config.window
  BY Reaps
<1> HIDE DEF p
<1>5. /\ staged[idx] = None /\ staged'[idx] = txns /\ txns \in Ver /\ txns # None
      /\ \A s \in Shards : s # idx => staged'[s] = staged[s]
      /\ idx \in Nat /\ inflight[idx] # Unread /\ UpPasses \cap DownPasses = {}
      /\ "update" \in DownPasses /\ "update" # "evaluate"
  BY <1>1, <1>3, Versions DEF Passes, TypeOK, Shards, LoadPayload, UpPasses, DownPasses
<1>6. p = live[idx] /\ (~KeepsStaleModules => v = live[idx]) /\ v \in Ver
  <2>1. p = live[idx]
    BY <1>3, <1>5
  <2>2. ~KeepsStaleModules => modules[idx] \in {None, live[idx]}
    BY <1>3, <1>5 DEF ModulesHeld, Truth
  <2> QED
    BY <1>3, <2>1, <2>2 DEF ModuleVersion, CachedModule, TypeOK
<1>7. /\ \A s \in Shards : d[s] = IF s = idx THEN txns ELSE c[s]
      /\ d \in [Shards -> Ver \cup {None}]
      /\ Held(d) = Held(c) \cup {idx}
  BY <1>3, <1>4, <1>5 DEF Held
<1>8. LeftOf(d, config.window, {idx}, cache')
  BY <1>2, Trims, Configured DEF PutPayload
<1> HIDE DEF d
<1>9. /\ Cardinality(Held(c)) \in Nat /\ Cardinality(Held(d)) \in Nat /\ config.window \in Nat
      /\ Cardinality(Held(Unfinished)) \in Nat /\ Cardinality(Held(d)) <= NumShards
      /\ IF idx \in Held(c) THEN Cardinality(Held(d)) = Cardinality(Held(c))
                            ELSE Cardinality(Held(d)) = Cardinality(Held(c)) + 1
  BY <1>7, HeldShards, Counts, Configured, FS_AddElement
<1>10. /\ cache' \in [Shards -> Ver \cup {None}]
       /\ \A s \in Shards : cache'[s] \in {None, d[s]}
  <2>1. \A s \in Shards : cache'[s] \in Ver \cup {None}
    BY <1>7, <1>8 DEF LeftOf
  <2> QED
    BY <1>8, <2>1 DEF LeftOf
\* Either nothing is given up, or the cache is full and nothing is on its way.
<1>11. \/ (\A s \in Shards : cache'[s] = d[s]) /\ idx \in Held(c)
       \/ Cardinality(Held(cache')) = config.window /\ Held(Unfinished) = {}
  <2>1. CASE idx \in Held(c)
    BY <1>4, <1>8, <1>9, <2>1 DEF LeftOf
  <2>2. CASE idx \notin Held(c)
    <3>1. Cardinality(Held(c)) = config.window /\ Cardinality(Held(Unfinished)) = 0
      BY <1>3, <1>4, <1>9, <2>2
    <3>2. Cardinality(Held(cache')) = config.window
      BY <1>8, <1>9, <2>2, <3>1 DEF LeftOf
    <3>3. Held(Unfinished) = {}
      BY <3>1, HeldShards, Counts, FS_EmptySet
    <3> QED
      BY <3>2, <3>3
  <2> QED
    BY <2>1, <2>2
<1>12. Full' <=> Cardinality(Held(cache')) = config.window
  BY <1>1 DEF Full, Held
<1>13. Full => Full'
  BY <1>4, <1>8, <1>9, <1>12 DEF LeftOf
<1>14. Full' \/ \A s \in Shards : cache'[s] = d[s]
  BY <1>11, <1>12
<1>15. \A s \in Shards : (cache[s] # None => Full' \/ cache'[s] # None) /\ (Full' \/ cache'[idx] # None)
  BY <1>3, <1>4, <1>5, <1>7, <1>14 DEF Held
<1>16. config.window >= NumShards => \A s \in Shards : cache'[s] = d[s]
  <2>1. config.window >= NumShards => Cardinality(Held(d)) <= config.window
    BY <1>9, Counts
  <2> QED
    BY <1>8, <2>1 DEF LeftOf
<1>17. /\ modules' \in [Shards -> Ver \cup {None}]
       /\ \A s \in Shards : s # idx => modules'[s] \in {None, modules[s]}
       /\ config.modules => modules'[idx] = txns
       /\ ~config.modules => modules' = modules
       /\ config.modules /\ config.resident >= NumShards =>
            \A s \in Shards : s = idx \/ modules[s] # None => modules'[s] # None
  <2>1. CASE config.modules
    <3>1. PICK m \in BuiltModules(idx, p) : modules' = [m EXCEPT ![idx] = txns]
      BY <1>2, <2>1 DEF p
    <3>2. /\ m \in [Shards -> Ver \cup {None}]
          /\ \A s \in Shards : \/ m[s] \in {None, modules[s]}
                               \/ s = idx /\ m[s] = p /\ config.modules /\ modules[s] = None
          /\ config.resident >= NumShards => \A s \in Shards : modules[s] # None => m[s] # None
      BY <1>3, <3>1, Builds
    <3> QED
      BY <1>3, <1>5, <2>1, <3>1, <3>2
  <2>2. CASE ~config.modules
    BY <1>2, <2>2 DEF TypeOK
  <2> QED
    BY <2>1, <2>2
<1>18. TypeOK'
  <2>1. inflight' \in [Shards -> Ver \cup {None, Unread}]
    BY <1>3, <1>4
  <2>2. idx' \in 0..(NumShards + 1)
    BY <1>1, <1>3, Counts DEF Shards
  <2>3. seen' \in [Shards -> Ver \cup {None}]
    BY <1>2, <1>6 DEF p, TypeOK
  <2>4. base' \in [Shards -> Ver]
    BY <1>2, <1>3, <1>6 DEF p, TypeOK, UpdatedFrom
  <2> QED
    BY <1>1, <1>5, <1>10, <1>17, <2>1, <2>2, <2>3, <2>4 DEF TypeOK
<1>19. Passes'
  BY <1>1, <1>3, <1>5, Counts DEF Passes, Shards, UpPasses, DownPasses
<1>20. PayloadsCoherent'
  <2>1. ASSUME NEW s \in Shards, cache'[s] # None
        PROVE  cache'[s] = Truth'[s]
    <3>1. CASE s = idx
      BY <1>5, <1>7, <1>10, <2>1, <3>1 DEF Truth
    <3>2. CASE s # idx
      BY <1>1, <1>4, <1>5, <1>7, <1>10, <2>1, <3>2 DEF Truth
    <3> QED
      BY <3>1, <3>2
  <2>2. ASSUME NEW s \in Shards, inflight'[s] # None
        PROVE  staged'[s] = None /\ inflight'[s] \in {Unread, live[s]}
    BY <1>3, <1>4, <1>5, <2>2, Versions DEF PayloadsCoherent
  <2> QED
    BY <1>1, <2>1, <2>2 DEF PayloadsCoherent
<1>21. Filling' /\ Wanted'
  <2>1. ASSUME ~Full'
        PROVE  Filling'
    <3>1. /\ \A s \in Shards : cache'[s] = d[s]
          /\ idx \in Held(c)
      BY <1>11, <1>12, <2>1
    <3>2. Held(cache') = Held(c)
      BY <1>7, <3>1 DEF Held
    <3>3. \A s \in Shards : s > idx' => cache'[s] # None
      BY <1>1, <1>5, <1>13, <1>15, <2>1 DEF Filling, Shards
    <3>4. In' = In /\ Held(Unfinished) \subseteq Held(inflight)
      BY <1>3, <1>4, <3>2, Versions DEF In, Held
    <3>5. \A t \in Held(Unfinished) : \A s \in t..idx' : s \in Shards => s \in In
      <4>1. \A t \in Held(Unfinished) : t \in Nat
        BY HeldShards DEF Shards
      <4>2. \A t \in Held(Unfinished) : \A s \in t..idx' : s \in t..idx
        BY <1>1, <1>5, <4>1
      <4> QED
        BY <1>1, <1>5, <1>13, <2>1, <3>4, <4>2 DEF Filling
    <3>6. pc' \in DownPasses /\ pc' \notin UpPasses /\ Held(inflight)' = Held(Unfinished)
      BY <1>1, <1>3, <1>5 DEF UpPasses, Held
    <3> QED
      BY <3>3, <3>4, <3>5, <3>6 DEF Filling
  <2> QED
    BY <1>1, <2>1 DEF Filling, Wanted
<1>22. Counted'
  <2>1. \A s \in Shards : cache'[s] # None => inflight'[s] = None
    BY <1>3, <1>4, <1>5, <1>7, <1>10
  <2>2. Cardinality(Held(cache')) + Cardinality(Held(inflight')) <= config.window
    <3>1. CASE Cardinality(Held(cache')) = config.window /\ Held(Unfinished) = {}
      <4>1. Cardinality(Held(Unfinished)) = 0
        BY <3>1, FS_EmptySet
      <4> QED
        BY <1>3, <1>9, <3>1, <4>1
    <3>2. CASE (\A s \in Shards : cache'[s] = d[s]) /\ idx \in Held(c)
      <4>1. Held(cache') = Held(c)
        BY <1>7, <3>2 DEF Held
      <4> QED
        BY <1>3, <1>4, <4>1
    <3> QED
      BY <1>11, <3>1, <3>2
  <2> QED
    BY <1>1, <2>1, <2>2 DEF Counted, CacheBudget, Held
<1>23. ModulesHeld'
  <2>1. ~config.modules => modules' = Nothing
    BY <1>17 DEF ModulesHeld
  <2>2. \A s \in Shards : modules'[s] # None => Full' \/ cache'[s] # None
    BY <1>13, <1>15, <1>17 DEF ModulesHeld
  <2>3. ASSUME ~KeepsStaleModules, NEW s \in Shards
        PROVE  modules'[s] \in {None, Truth'[s]}
    <3>1. CASE s = idx
      BY <1>3, <1>5, <1>17, <2>3, <3>1 DEF Truth, ModulesHeld, Nothing
    <3>2. CASE s # idx
      BY <1>1, <1>5, <1>17, <2>3, <3>2 DEF Truth, ModulesHeld
    <3> QED
      BY <3>1, <3>2
  <2> QED
    BY <1>1, <2>1, <2>2, <2>3 DEF ModulesHeld, KeepsStaleModules, HoldsCandidate
<1>24. CandidateHeld'
  <2>1. ASSUME NEW s \in Shards, staged'[s] # None
        PROVE  /\ Full' \/ cache'[s] # None
               /\ config.window >= NumShards => cache'[s] # None
               /\ config.modules /\ config.resident >= NumShards => modules'[s] # None
    <3>1. CASE s = idx
      BY <1>3, <1>5, <1>7, <1>15, <1>16, <1>17, <3>1
    <3>2. CASE s # idx
      <4>1. c[s] # None \/ cache[s] = None
        BY <1>4 DEF Held
      <4> QED
        BY <1>5, <1>7, <1>13, <1>15, <1>16, <1>17, <2>1, <3>2, <4>1 DEF CandidateHeld
    <3> QED
      BY <3>1, <3>2
  <2> QED
    BY <1>1, <2>1 DEF CandidateHeld
<1>25. NoLostUpdate'
  <2>1. ~KeepsStaleModules \/ config.master => base'[idx] = live[idx]
    BY <1>2, <1>3, <1>6 DEF p, UpdatedFrom, TypeOK
  <2>2. \A s \in Shards : s # idx => base'[s] = base[s]
    BY <1>2 DEF TypeOK
  <2> QED
    BY <1>1, <1>5, <2>1, <2>2 DEF NoLostUpdate, KeepsStaleModules, HoldsCandidate
<1>26. TrainsOnPublished' /\ GuardSeesHeldCandidate'
  BY <1>1, <1>2, <1>6 DEF TrainsOnPublished, GuardSeesHeldCandidate, KeepsStaleModules,
                          HoldsCandidate, TypeOK, p
<1> QED
  BY <1>18, <1>19, <1>20, <1>21, <1>22, <1>23, <1>24, <1>25, <1>26

-------------------------------------------------------------------------------
(* The steps between passes *)

\* Any step that only starts a pass keeps the invariant, if the pass may follow.
LEMMA StartInvariant ==
  ASSUME IndInv, NEW pass \in UpPasses \cup DownPasses, StartPass(pass), txns' \in Ver,
         UNCHANGED <<config, live, staged, cache, inflight, modules, base>>,
         Passes', Filling'
  PROVE  IndInv'
<1> USE DEF IndInv
<1>1. /\ pc' = pass /\ ahead' = TRUE /\ seen' = Nothing
      /\ idx' = IF pass \in DownPasses THEN NumShards ELSE 1
  BY DEF StartPass
<1>2. TypeOK'
  <2>1. seen' \in [Shards -> Ver \cup {None}]
    BY <1>1 DEF Nothing
  <2>2. idx' \in 0..(NumShards + 1)
    BY <1>1, Counts
  <2> QED
    BY <1>1, <2>1, <2>2 DEF TypeOK, UpPasses, DownPasses
<1>3. PayloadsCoherent'
  BY DEF PayloadsCoherent, Truth
<1>4. Wanted'
  BY <1>1 DEF Wanted
<1>5. Counted'
  BY DEF Counted, CacheBudget, Held
<1>6. ModulesHeld' /\ CandidateHeld'
  BY DEF ModulesHeld, CandidateHeld, KeepsStaleModules, HoldsCandidate, Full, Held, Truth
<1>7. NoLostUpdate'
  BY DEF NoLostUpdate, KeepsStaleModules, HoldsCandidate
<1>8. TrainsOnPublished' /\ GuardSeesHeldCandidate'
  BY <1>1 DEF TrainsOnPublished, GuardSeesHeldCandidate, Nothing
<1> QED
  BY <1>2, <1>3, <1>4, <1>5, <1>6, <1>7, <1>8

\* At the end of an up pass what is on its way is at most the shard the pass left out.
LEMMA UpEnd ==
  ASSUME IndInv, pc \in UpPasses, idx > Last, ~Full
  PROVE  /\ \A s \in Shards : s <= Last => s \in Held(cache)
         /\ \A t \in Held(inflight) : pc = "forward" /\ t = NumShards
<1> USE DEF IndInv
<1>1. idx = Last + 1 /\ Last \in Nat /\ Last = IF pc = "forward" THEN NumShards - 1 ELSE NumShards
  BY Counts DEF Passes, Last
<1>2. \A s \in Shards : s <= Last => cache[s] # None
  BY <1>1 DEF Filling, Shards
<1>3. \A t \in Held(inflight) : t \in Shards /\ cache[t] = None
  BY DEF Counted, Held
<1>4. \A s \in Shards : ~(s <= Last) => pc = "forward" /\ s = NumShards
  BY <1>1, Counts DEF Shards
<1> QED
  BY <1>2, <1>3, <1>4 DEF Held

LEMMA NextInvariantOfUpPasses ==
  IndInv /\ (NextMicroBatch \/ ForwardDone \/ ValidateDone) => IndInv'
<1> USE DEF IndInv
<1>1. ASSUME IndInv, NEW pass \in UpPasses \cup DownPasses, StartPass(pass),
             UNCHANGED <<config, live, staged, cache, inflight, modules, base>>,
             pc \in UpPasses, idx > Last, pass \in UpPasses \/ pc = "forward"
      PROVE  Filling'
  <2>1. CASE Full
    BY <1>1, <2>1 DEF Filling, Full, Held
  <2>2. CASE ~Full
    <3>1. /\ \A s \in Shards : s <= Last => s \in Held(cache)
          /\ \A t \in Held(inflight) : pc = "forward" /\ t = NumShards
      BY <1>1, <2>2, UpEnd
    <3>2. \A t \in Held(inflight) : \A s \in Shards : s \in In
      <4>1. \A s \in Shards : pc = "forward" => s <= Last \/ s = NumShards
        BY Counts DEF Shards, Last
      <4> QED
        BY <3>1, <4>1 DEF In
    <3>3. \A t \in Held(inflight) : \A s \in 1..t : s \in In
      <4>1. \A t \in Shards : \A s \in 1..t : s \in Shards
        BY Counts DEF Shards
      <4> QED
        BY <3>2, <4>1, HeldShards
    <3>4. /\ pc' = pass /\ UpPasses \cap DownPasses = {}
          /\ idx' = IF pass \in DownPasses THEN NumShards ELSE 1
      BY <1>1 DEF StartPass, UpPasses, DownPasses
    <3>5. /\ \A s \in Shards : ~(s < 1) /\ ~(s > NumShards)
      BY Counts DEF Shards
    <3>6. In' = In /\ Held(inflight)' = Held(inflight) /\ cache' = cache
      BY <1>1 DEF In, Held
    <3> QED
      BY <3>2, <3>3, <3>4, <3>5, <3>6 DEF Filling
  <2> QED
    BY <2>1, <2>2
<1>2. IndInv /\ NextMicroBatch => IndInv'
  <2> SUFFICES ASSUME IndInv, NextMicroBatch
               PROVE  IndInv'
    OBVIOUS
  <2>1. /\ pc \in UpPasses /\ idx > Last /\ StartPass(pc) /\ txns' = txns
        /\ UNCHANGED <<config, live, staged, cache, inflight, modules, base>>
    BY DEF NextMicroBatch, store
  <2>2. Passes'
    BY <2>1, Counts DEF Passes, StartPass, Last, UpPasses, DownPasses
  <2>3. txns' \in Ver /\ Filling'
    BY <1>1, <2>1 DEF TypeOK
  <2> QED
    BY <2>1, <2>2, <2>3, StartInvariant
<1>3. IndInv /\ ForwardDone => IndInv'
  <2> SUFFICES ASSUME IndInv, ForwardDone
               PROVE  IndInv'
    OBVIOUS
  <2>1. /\ pc = "forward" /\ idx > Last /\ txns < MaxTxns /\ txns' = txns + 1
        /\ UNCHANGED <<config, live, staged, cache, inflight, modules, base>>
    BY DEF ForwardDone, BeginTransaction
  <2>2. PICK pass \in DownPasses : StartPass(pass)
    BY DEF ForwardDone, BeginTransaction
  <2>3. Passes'
    BY <2>1, <2>2, Counts DEF Passes, StartPass, Shards, Nothing, UpPasses, DownPasses
  <2>4. txns' \in Ver
    BY <2>1, Counts DEF TypeOK, Ver
  <2>5. Filling'
    BY <1>1, <2>1, <2>2 DEF UpPasses
  <2> QED
    BY <2>1, <2>2, <2>3, <2>4, <2>5, StartInvariant
<1>4. IndInv /\ ValidateDone => IndInv'
  <2> SUFFICES ASSUME IndInv, ValidateDone
               PROVE  IndInv'
    OBVIOUS
  <2>1. /\ pc = "validate" /\ idx > Last /\ StartPass("forward") /\ txns' = txns
        /\ UNCHANGED <<config, live, staged, cache, inflight, modules, base>>
        /\ "forward" \in UpPasses /\ pc \in UpPasses
    BY DEF ValidateDone, store, UpPasses
  <2>2. Passes'
    BY <2>1, Counts DEF Passes, StartPass, Last, UpPasses, DownPasses
  <2>3. txns' \in Ver /\ Filling'
    BY <1>1, <2>1 DEF TypeOK
  <2> QED
    BY <2>1, <2>2, <2>3, StartInvariant
<1> QED
  BY <1>2, <1>3, <1>4

\* At the end of a down pass nothing is on its way.
LEMMA NextInvariantOfDownPasses ==
  IndInv /\ (CollectDone \/ EvaluateCandidate) => IndInv'
<1> SUFFICES ASSUME IndInv, CollectDone \/ EvaluateCandidate
             PROVE  IndInv'
  OBVIOUS
<1> USE DEF IndInv
<1>1. /\ pc \in DownPasses /\ idx = 0 /\ txns' = txns
      /\ UNCHANGED <<config, live, staged, cache, inflight, modules, base>>
  BY DEF CollectDone, EvaluateCandidate, store, DownPasses
<1>2. PICK pass \in {"update", "evaluate"} :
        /\ StartPass(pass)
        /\ pass = "update" => pc = "collect"
        /\ pass = "evaluate" => pc = "update" /\ config.guarded
  BY DEF CollectDone, EvaluateCandidate
<1>3. Passes'
  BY <1>1, <1>2, Counts DEF Passes, StartPass, Last, Shards, Nothing, UpPasses, DownPasses
<1>4. Filling'
  <2>1. CASE Full
    BY <1>1, <2>1 DEF Filling, Full, Held
  <2>2. CASE ~Full
    <3>1. \A s \in Shards : cache[s] # None
      BY <1>1, <2>2 DEF Filling, Shards
    <3>2. Held(inflight) = {} /\ \A s \in Shards : s \in Held(cache)
      BY <3>1 DEF Counted, Held
    <3> QED
      BY <1>1, <3>1, <3>2 DEF Filling, Held
  <2> QED
    BY <2>1, <2>2
<1> QED
  BY <1>1, <1>2, <1>3, <1>4, StartInvariant DEF TypeOK, UpPasses, DownPasses

\* When a transaction may be published every shard is staged and nothing is on its way.
LEMMA Quiet ==
  ASSUME IndInv, ReadyToCommit \/ (pc = "evaluate" /\ idx > Last)
  PROVE  /\ \A s \in Shards : staged[s] # None /\ inflight[s] = None
         /\ staged \in [Shards -> Ver] /\ inflight = Nothing
<1> USE DEF IndInv
<1>1. \A s \in Shards : staged[s] # None
  BY DEF ReadyToCommit, Passes, Shards
<1>2. \A s \in Shards : inflight[s] = None
  BY <1>1 DEF PayloadsCoherent
<1>3. staged \in [Shards -> Ver] /\ inflight = Nothing
  BY <1>1, <1>2 DEF TypeOK, Nothing
<1> QED
  BY <1>1, <1>2, <1>3

\* Priming schedules what the next pass begins with, for a cache with nothing on its way.
LEMMA Primes ==
  ASSUME TypeOK, NEW c0 \in [Shards -> Ver \cup {None}], Cardinality(Held(c0)) <= config.window,
         PrimeAndGoOn(c0, Nothing), config' = config
  PROVE  /\ cache' = c0 /\ inflight' \in [Shards -> {None, Unread}]
         /\ pc' \in {"forward", "validate"} /\ idx' = 1 /\ ahead' = TRUE /\ seen' = Nothing
         /\ Filling' /\ Counted'
<1> DEFINE wanted == {s \in Shards : s <= config.window}
<1>1. /\ cache' = c0 /\ inflight' = Scheduled(c0, Nothing, wanted, 1)
      /\ pc' \in {"forward", "validate"} /\ pc' \in UpPasses /\ pc' \notin DownPasses
      /\ idx' = 1 /\ ahead' = TRUE /\ seen' = Nothing
  BY DEF PrimeAndGoOn, StartPass, UpPasses, DownPasses
<1>2. /\ wanted \in SUBSET Shards /\ 1 \in Shards /\ config.window \in Nat
      /\ \A s, t \in Shards : s <= t <=> Distance(s, 1) <= Distance(t, 1)
      /\ \A s, t \in Shards : Distance(s, 1) = Distance(t, 1) => s = t
      /\ \A s \in Shards : s \in Nat /\ s >= 1
  BY Counts, Configured DEF Distance, Shards
<1>3. Held(Nothing) = {} /\ Cardinality(Held(Nothing)) = 0 /\ Cardinality(Held(c0)) \in Nat
  BY FS_EmptySet, HeldShards, Counts DEF Held, Nothing
<1>4. ScheduledNearest(c0, Nothing, inflight', wanted, 1)
  <2>1. Scheduling(c0, Nothing, wanted, 1)
    BY <1>2, <1>3 DEF Scheduling
  <2> HIDE DEF wanted
  <2> QED
    BY <1>1, <2>1, Schedules
<1>5. \A s \in Shards : inflight'[s] = None \/ (inflight'[s] = Unread /\ c0[s] = None /\ s \in wanted)
  BY <1>4 DEF ScheduledNearest, Nothing
<1>6. inflight' \in [Shards -> {None, Unread}]
  <2>1. inflight' = [s \in Shards |-> inflight'[s]]
    BY <1>4 DEF ScheduledNearest
  <2>2. \A s \in Shards : inflight'[s] \in {None, Unread}
    BY <1>5
  <2> QED
    BY <2>1, <2>2
<1>7. Counted'
  <2>1. Cardinality(Held(c0)) + Cardinality(Held(inflight')) <= config.window
    BY <1>4 DEF ScheduledNearest
  <2>2. \A s \in Shards : c0[s] # None => inflight'[s] = None
    BY <1>5
  <2> QED
    BY <1>1, <2>1, <2>2 DEF Counted, CacheBudget, Held
<1>8. Filling'
  <2>1. ASSUME NEW t \in Held(inflight'), NEW s \in 1..t
        PROVE  s \in Held(c0) \cup Held(inflight')
    <3>1. t \in Shards /\ t \in wanted /\ Nothing[t] # inflight'[t]
      BY <1>5, Versions DEF Held, Nothing
    <3>2. s \in wanted /\ s <= t
      BY <1>2, <3>1, Counts DEF Shards
    <3> QED
      BY <1>2, <1>4, <3>1, <3>2 DEF ScheduledNearest
  <2>2. \A s \in Shards : ~(s < 1)
    BY <1>2
  <2>3. In' = Held(c0) \cup Held(inflight') /\ Held(inflight)' = Held(inflight')
    BY <1>1 DEF In, Held
  <2> QED
    BY <1>1, <2>1, <2>2, <2>3 DEF Filling
<1> QED
  BY <1>1, <1>6, <1>7, <1>8

\* What is published is what was staged: the truth about every shard stays what it was.
LEMMA CommitInvariant == IndInv /\ Commit => IndInv'
<1> SUFFICES ASSUME IndInv, Commit
             PROVE  IndInv'
  OBVIOUS
<1> USE DEF IndInv
<1>1. /\ ReadyToCommit /\ live' = staged /\ staged' = Nothing
      /\ UNCHANGED <<config, modules, base, txns>>
  BY DEF Commit
<1>2. /\ \A s \in Shards : staged[s] # None /\ inflight[s] = None
      /\ staged \in [Shards -> Ver] /\ inflight = Nothing
  BY <1>1, Quiet
<1>3. Unfinished = Nothing
  BY <1>2, Versions DEF Unfinished, Nothing
<1>4. PICK c \in Reaped : PrimeAndGoOn(c, Nothing)
  BY <1>3 DEF Commit
<1>5. /\ c \in [Shards -> Ver \cup {None}]
      /\ \A s \in Shards : c[s] # None => c[s] = Truth[s]
      /\ Held(cache) \subseteq Held(c)
      /\ Cardinality(Held(c)) + Cardinality(Held(Unfinished)) <= config.window
      /\ Full => Cardinality(Held(c)) = config.window
  BY Reaps
<1>6. Cardinality(Held(c)) <= config.window
  BY <1>5, HeldShards, Counts, Configured
<1>7. /\ cache' = c /\ inflight' \in [Shards -> {None, Unread}]
      /\ pc' \in {"forward", "validate"} /\ idx' = 1 /\ ahead' = TRUE /\ seen' = Nothing
      /\ Filling' /\ Counted'
  BY <1>1, <1>4, <1>5, <1>6, Primes
<1>8. \A s \in Shards : Truth[s] = staged[s] /\ Truth'[s] = staged[s] /\ live'[s] = staged[s] /\ staged'[s] = None
  BY <1>1, <1>2 DEF Truth, Nothing
<1>9. TypeOK'
  <2>1. /\ inflight' \in [Shards -> Ver \cup {None, Unread}]
        /\ seen' \in [Shards -> Ver \cup {None}] /\ staged' \in [Shards -> Ver \cup {None}]
    BY <1>1, <1>7 DEF Nothing
  <2>2. 1 \in 0..(NumShards + 1)
    BY Counts
  <2> QED
    BY <1>1, <1>2, <1>5, <1>7, <2>1, <2>2 DEF TypeOK
<1>10. Passes'
  BY <1>1, <1>7, Counts DEF Passes, Last, UpPasses, DownPasses
<1>11. PayloadsCoherent'
  BY <1>5, <1>7, <1>8 DEF PayloadsCoherent
<1>12. Wanted' /\ CandidateHeld' /\ NoLostUpdate'
  BY <1>7, <1>8 DEF Wanted, CandidateHeld, NoLostUpdate
<1>13. ModulesHeld'
  BY <1>1, <1>5, <1>7, <1>8 DEF ModulesHeld, KeepsStaleModules, HoldsCandidate, Full, Held
<1>14. TrainsOnPublished' /\ GuardSeesHeldCandidate'
  BY <1>7 DEF TrainsOnPublished, GuardSeesHeldCandidate, Nothing
<1> QED
  BY <1>7, <1>9, <1>10, <1>11, <1>12, <1>13, <1>14

\* An abort takes everything out of all caches, because every shard was staged.
LEMMA RejectInvariant == IndInv /\ (RejectAndRetry \/ RejectAndSkip) => IndInv'
<1> SUFFICES ASSUME IndInv, RejectAndRetry \/ RejectAndSkip
             PROVE  IndInv'
  OBVIOUS
<1> USE DEF IndInv
<1>1. /\ pc = "evaluate" /\ idx > Last /\ modules' = DropStaged(modules) /\ staged' = Nothing
      /\ UNCHANGED <<config, live, base>>
  BY DEF RejectAndRetry, RejectAndSkip
<1>2. /\ \A s \in Shards : staged[s] # None
      /\ \A f : DropStaged(f) = Nothing
  <2>1. \A s \in Shards : staged[s] # None
    BY <1>1, Quiet
  <2> QED
    BY <2>1 DEF DropStaged, Nothing
<1>3. /\ Held(Nothing) = {} /\ Cardinality(Held(Nothing)) = 0 /\ config.window \in Nat
      /\ Nothing \in [Shards -> Ver \cup {None}]
  BY FS_EmptySet, Configured DEF Held, Nothing
<1>4. /\ cache' = Nothing
      /\ inflight' \in [Shards -> {None, Unread}]
      /\ pc' \in {"forward", "validate"} \cup DownPasses /\ ahead' = TRUE /\ seen' = Nothing
      /\ idx' = IF pc' \in DownPasses THEN NumShards ELSE 1
      /\ Filling' /\ Counted' /\ txns' \in Ver
  <2>1. CASE RejectAndRetry
    <3>1. PICK pass \in DownPasses : StartPass(pass)
      BY <2>1 DEF RejectAndRetry, BeginTransaction
    <3>2. /\ cache' = Nothing /\ inflight' = Nothing /\ pc' = pass
          /\ txns < MaxTxns /\ txns' = txns + 1
      BY <1>2, <2>1, <3>1 DEF RejectAndRetry, BeginTransaction, StartPass
    <3>3. ahead' = TRUE /\ seen' = Nothing /\ idx' = NumShards
      BY <3>1 DEF StartPass
    <3>4. \A s \in Shards : ~(s > NumShards)
      BY Counts DEF Shards
    <3>5. Held(inflight)' = {} /\ Held(cache)' = {}
      BY <1>3, <3>2 DEF Held
    <3>6. Filling'
      BY <3>2, <3>3, <3>4, <3>5 DEF Filling, UpPasses, DownPasses
    <3>7. CacheBudget'
      BY <1>1, <1>3, <3>2 DEF CacheBudget, Held
    <3>8. Counted'
      BY <3>2, <3>7 DEF Counted, Nothing
    <3>9. txns' \in Ver
      BY <3>2, Counts DEF TypeOK, Ver
    <3>10. inflight' \in [Shards -> {None, Unread}]
      BY <3>2 DEF Nothing
    <3> QED
      BY <3>2, <3>3, <3>6, <3>8, <3>9, <3>10
  <2>2. CASE RejectAndSkip
    <3>1. PrimeAndGoOn(Nothing, Nothing) /\ txns' = txns
      BY <1>2, <2>2 DEF RejectAndSkip
    <3>2. Cardinality(Held(Nothing)) <= config.window
      BY <1>3
    <3> QED
      BY <1>1, <1>3, <3>1, <3>2, Primes DEF DownPasses, TypeOK
  <2> QED
    BY <2>1, <2>2
<1>5. TypeOK'
  <2>1. /\ inflight' \in [Shards -> Ver \cup {None, Unread}]
        /\ seen' \in [Shards -> Ver \cup {None}] /\ staged' \in [Shards -> Ver \cup {None}]
        /\ modules' \in [Shards -> Ver \cup {None}]
    BY <1>1, <1>2, <1>3, <1>4
  <2>2. idx' \in 0..(NumShards + 1)
    BY <1>4, Counts
  <2> QED
    BY <1>1, <1>3, <1>4, <2>1, <2>2 DEF TypeOK, DownPasses
<1>6. Passes'
  <2>1. \A s \in Shards : ~(s > NumShards) /\ staged'[s] = None
    BY <1>1, Counts DEF Shards, Nothing
  <2> QED
    BY <1>1, <1>4, <2>1, Counts DEF Passes, Last, UpPasses, DownPasses
<1>7. PayloadsCoherent'
  BY <1>1, <1>4 DEF PayloadsCoherent, Nothing
<1>8. Wanted' /\ CandidateHeld' /\ NoLostUpdate'
  BY <1>1, <1>4 DEF Wanted, CandidateHeld, NoLostUpdate, Nothing
<1>9. ModulesHeld'
  BY <1>1, <1>2 DEF ModulesHeld, Nothing
<1>10. TrainsOnPublished' /\ GuardSeesHeldCandidate'
  BY <1>4 DEF TrainsOnPublished, GuardSeesHeldCandidate, Nothing
<1> QED
  BY <1>4, <1>5, <1>6, <1>7, <1>8, <1>9, <1>10

LEMMA DoneInvariant == IndInv /\ Done => IndInv'
<1> SUFFICES ASSUME IndInv, Done
             PROVE  IndInv'
  OBVIOUS
<1> USE DEF IndInv
<1>1. /\ pc = "forward" /\ idx = 1 /\ pc' = "done"
      /\ UNCHANGED <<config, live, staged, cache, inflight, modules, idx, ahead, seen, base, txns>>
      /\ pc' \notin UpPasses /\ pc' \notin DownPasses /\ pc' # "evaluate"
  BY DEF Done, UpPasses, DownPasses
<1>2. TypeOK' /\ Passes' /\ PayloadsCoherent' /\ Filling' /\ Wanted'
  BY <1>1 DEF TypeOK, Passes, PayloadsCoherent, Truth, Filling, Wanted, Up, Down
<1>3. Counted' /\ ModulesHeld' /\ CandidateHeld'
  BY <1>1 DEF Counted, CacheBudget, Held, ModulesHeld, CandidateHeld, KeepsStaleModules,
              HoldsCandidate, Full, Truth
<1>4. NoLostUpdate' /\ TrainsOnPublished' /\ GuardSeesHeldCandidate'
  BY <1>1 DEF NoLostUpdate, TrainsOnPublished, GuardSeesHeldCandidate, KeepsStaleModules,
              HoldsCandidate
<1> QED
  BY <1>2, <1>3, <1>4

-------------------------------------------------------------------------------
(* The theorems *)

LEMMA StutterInvariant == IndInv /\ UNCHANGED vars => IndInv'
<1> SUFFICES ASSUME IndInv, UNCHANGED vars
             PROVE  IndInv'
  OBVIOUS
<1> USE DEF IndInv
<1>1. UNCHANGED <<config, live, staged, cache, inflight, modules, pc, idx, ahead, seen, base, txns>>
  BY DEF vars
<1>2. TypeOK' /\ Passes' /\ PayloadsCoherent' /\ Wanted'
  BY <1>1 DEF TypeOK, Passes, PayloadsCoherent, Truth, Wanted, Up, Down, Last, Full, Held, In
<1>3. Filling' /\ Counted' /\ ModulesHeld' /\ CandidateHeld'
  BY <1>1 DEF Filling, In, Counted, CacheBudget, Held, ModulesHeld, CandidateHeld,
              KeepsStaleModules, HoldsCandidate, Full, Truth
<1>4. NoLostUpdate' /\ TrainsOnPublished' /\ GuardSeesHeldCandidate'
  BY <1>1 DEF NoLostUpdate, TrainsOnPublished, GuardSeesHeldCandidate, KeepsStaleModules,
              HoldsCandidate
<1> QED
  BY <1>2, <1>3, <1>4

\* The trainer's passes, the prefetch thread and the caches keep step, for any number of
\* shards, every setting and every replacement policy.
THEOREM CachesInStep == Spec => []IndInv
<1>1. IndInv /\ [Next]_vars => IndInv'
  BY ReadInvariant, PrefetchInvariant, ForwardInvariant, CollectInvariant, UpdateInvariant,
     NextInvariantOfUpPasses, NextInvariantOfDownPasses, CommitInvariant, RejectInvariant,
     DoneInvariant, StutterInvariant DEF Next, TrainerStep, Stopped
<1> QED
  BY InitInvariant, <1>1, PTL DEF Spec

\* CachesCoherent: whatever the prefetch thread reads and whenever, a cached payload is the
\* truth about its shard, and nothing is being read while a transaction is published.
THEOREM CachesTellTheTruth == Spec => []CachesCoherent
<1>1. IndInv => CachesCoherent
  BY Quiet DEF IndInv, CachesCoherent, NoReadDuringPublish
<1> QED
  BY CachesInStep, <1>1, PTL

\* NoLostUpdate: what is staged was computed from the publication that it replaces.
THEOREM UpdatesBuildOnPublished == Spec => []NoLostUpdate
<1>1. IndInv => NoLostUpdate
  BY DEF IndInv
<1> QED
  BY CachesInStep, <1>1, PTL

\* TrainsOnPublished: no pass but the guard's computes with anything unpublished.
THEOREM PassesUsePublished == Spec => []TrainsOnPublished
<1>1. IndInv => TrainsOnPublished
  BY DEF IndInv
<1> QED
  BY CachesInStep, <1>1, PTL

\* GuardSeesHeldCandidate: a guard whose candidate the caches hold judges that candidate.
THEOREM GuardJudgesCandidate == Spec => []GuardSeesHeldCandidate
<1>1. IndInv => GuardSeesHeldCandidate
  BY DEF IndInv
<1> QED
  BY CachesInStep, <1>1, PTL

\* CacheBudget: the payloads cached and those on their way fit the prefetch window together.
THEOREM WindowHolds == Spec => []CacheBudget
<1>1. IndInv => CacheBudget
  BY DEF IndInv, Counted
<1> QED
  BY CachesInStep, <1>1, PTL
===============================================================================
