---------------------------- MODULE KVServing_proofs ---------------------------
(* Proofs about the KV serving side: the pager, for any number of pages, of    *)
(* any sizes and spans, and any number of bytes asked of an eviction; and the  *)
(* algorithms of KVCodec and ServingPlan, for any rows of numbers, any counts  *)
(* of codes and tokens.                                                        *)
EXTENDS KVPager, Algorithms, FiniteSetTheorems, TLAPS

-------------------------------------------------------------------------------
(* The pager *)

\* PagesKept is inductive by itself; that there is a first page to stop at takes that there
\* are finitely many.
IndInv == PagesKept /\ IsFiniteSet(Registered)

-------------------------------------------------------------------------------
(* Orders *)

\* An order of a set orders its subsets.
LEMMA OrderOfSubset ==
  ASSUME NEW S, NEW T, T \subseteq S, NEW before, Ordered(before, S)
  PROVE  Ordered(before, T)
  BY DEF Ordered

\* What a list of accesses leaves: the pages accessed come last, in the order of the list.
LEMMA TouchedOrder ==
  ASSUME TypeOK, NEW M, M \subseteq Registered, NEW before, Ordered(before, M)
  PROVE  /\ Touched(M, before) \in [Pages -> SUBSET Registered]
         /\ Ordered(Touched(M, before), Registered)
         /\ \A p \in Pages \ Registered : Touched(M, before)[p] = {}
<1> DEFINE T == Touched(M, before)
<1>1. Registered \subseteq Pages
  BY DEF Registered
<1>2. /\ T \in [Pages -> SUBSET Registered]
      /\ \A p \in M : T[p] = (Registered \ M) \cup (before[p] \cap M)
      /\ \A p \in Pages \ M : T[p] = earlier[p] \ M
  BY <1>1 DEF Touched, TypeOK
<1> HIDE DEF T
<1>3. \A p \in Registered : p \notin T[p]
  BY <1>1, <1>2 DEF TypeOK, Ordered
<1>4. \A p, q \in Registered : p = q \/ p \in T[q] \/ q \in T[p]
  BY <1>1, <1>2 DEF TypeOK, Ordered
<1>5. ASSUME NEW p \in Registered, NEW q \in Registered, p \in T[q]
      PROVE  T[p] \subseteq T[q]
  <2>1. CASE q \in M
    <3>1. CASE p \in M
      BY <1>2, <1>5, <2>1, <3>1 DEF Ordered
    <3>2. CASE p \notin M
      BY <1>1, <1>2, <2>1, <3>2 DEF TypeOK
    <3> QED
      BY <3>1, <3>2
  <2>2. CASE q \notin M
    BY <1>1, <1>2, <1>5, <2>2 DEF TypeOK, Ordered
  <2> QED
    BY <2>1, <2>2
<1>6. \A p \in Pages \ Registered : T[p] = {}
  BY <1>2 DEF TypeOK
<1> QED
  BY <1>2, <1>3, <1>4, <1>5, <1>6 DEF Ordered, T

\* The candidates of an eviction are the tier's pages in the order of their last access,
\* and with a victim all candidates before it are victims.
LEMMA EvictionOrder ==
  ASSUME TypeOK, NEW t \in Tiers, NEW needed
  PROVE  /\ OnTier(t) \subseteq Registered
         /\ Ordered(Candidates(t), OnTier(t))
         /\ \A p \in OnTier(t) : Candidates(t)[p] = earlier[p] \cap OnTier(t)
         /\ Victims(t, needed) \subseteq OnTier(t)
         /\ \A p \in Victims(t, needed) : Candidates(t)[p] \subseteq Victims(t, needed)
<1>1. OnTier(t) \subseteq Registered
  BY DEF OnTier, Registered
<1>2. \A p \in OnTier(t) : Candidates(t)[p] = earlier[p] \cap OnTier(t)
  BY DEF Candidates
<1>3. Ordered(Candidates(t), OnTier(t))
  BY <1>1, <1>2 DEF TypeOK, Ordered
<1>4. Victims(t, needed) \subseteq OnTier(t)
  BY DEF Victims
<1>5. ASSUME NEW p \in Victims(t, needed), NEW q \in Candidates(t)[p]
      PROVE  q \in Victims(t, needed)
  <2>1. p \in OnTier(t) /\ q \in OnTier(t)
    BY <1>2, <1>4
  <2>2. Candidates(t)[q] \subseteq Candidates(t)[p]
    BY <1>3, <2>1 DEF Ordered
  <2> QED
    BY <2>1, <2>2 DEF Victims
<1> QED
  BY <1>1, <1>2, <1>3, <1>4, <1>5

-------------------------------------------------------------------------------
(* The steps *)

\* `move' for pages in some order, wherever it stops: what was moved is a part of them that
\* comes first, and keeps its payload in memory or in a file.
LEMMA MoveInvariant ==
  ASSUME IndInv, NEW S, S \subseteq Registered, NEW before, Ordered(before, S), NEW t \in Tiers,
         MoveInOrder(S, before, t)
  PROVE  IndInv'
<1> USE DEF IndInv, PagesKept
<1>1. PICK stop \in Stopped(S, before) :
        /\ \A p \in stop.moved : ~Unreadable(p, t)
        /\ tier' = [p \in Pages |-> IF p \in stop.moved THEN t ELSE tier[p]]
        /\ files' = files \cup Written(stop.moved, t)
        /\ resident' = IF t = "nvme" THEN resident \ stop.moved ELSE resident \cup stop.moved
        /\ scraps' = (scraps \ Written(stop.moved, t)) \cup (IF t = "nvme" THEN stop.at ELSE {})
        /\ earlier' = Touched(stop.moved, before)
  BY DEF MoveInOrder
<1> DEFINE M == stop.moved
<1>2. M \subseteq S /\ stop.at \subseteq S
  BY DEF Stopped
<1> HIDE DEF M
<1>3. M \subseteq Registered /\ M \subseteq Pages /\ S \subseteq Pages /\ Registered \subseteq Pages
  BY <1>2 DEF Registered
<1>4. /\ \A p \in Pages : tier'[p] = IF p \in M THEN t ELSE tier[p]
      /\ tier' \in [Pages -> Tiers \cup {"new", "gone"}]
  BY <1>1 DEF M, TypeOK
<1>5. Registered' = Registered
  BY <1>3, <1>4 DEF Registered
<1>6. TypeOK'
  <2>1. /\ earlier' \in [Pages -> SUBSET Registered]
        /\ Ordered(earlier', Registered)
        /\ \A p \in Pages \ Registered : earlier'[p] = {}
    BY <1>1, <1>2, <1>3, OrderOfSubset, TouchedOrder DEF M
  <2>2. resident' \subseteq Pages /\ files' \subseteq Pages /\ scraps' \subseteq Pages
    BY <1>1, <1>2, <1>3 DEF M, Written, TypeOK
  <2> QED
    BY <1>4, <1>5, <2>1, <2>2 DEF TypeOK, Ordered
<1>7. Readable'
  BY <1>1, <1>3, <1>5 DEF M, Readable, Written
<1>8. HotPagesResident'
  <2>1. \A p \in Pages : tier'[p] \in {"gpu", "cpu"} => p \in resident'
    BY <1>1, <1>4 DEF M, HotPagesResident, OnTier
  <2> QED
    BY <2>1 DEF HotPagesResident, OnTier
<1>9. NoOrphanFile'
  BY <1>1, <1>3, <1>5 DEF M, NoOrphanFile, Written
<1> QED
  BY <1>5, <1>6, <1>7, <1>8, <1>9

\* Pages that leave the registry leave with their payloads and files.
LEMMA DropInvariant ==
  ASSUME IndInv, NEW gone, gone \subseteq Registered, Drop(gone)
  PROVE  IndInv'
<1> USE DEF IndInv, PagesKept
<1>1. /\ tier' = [p \in Pages |-> IF p \in gone THEN "gone" ELSE tier[p]]
      /\ resident' = resident \ gone /\ files' = files \ gone /\ scraps' = scraps
      /\ earlier' = [p \in Pages |-> IF p \in gone THEN {} ELSE earlier[p] \ gone]
  BY DEF Drop
<1>2. Registered' = Registered \ gone /\ Registered \subseteq Pages
  BY <1>1 DEF Registered, Tiers
<1>3. IsFiniteSet(Registered')
  BY <1>2, FS_Subset
<1>4. TypeOK'
  <2>1. Ordered(earlier', Registered')
    BY <1>1, <1>2 DEF TypeOK, Ordered
  <2>2. tier' \in [Pages -> Tiers \cup {"new", "gone"}]
    BY <1>1 DEF TypeOK
  <2>3. /\ earlier' \in [Pages -> SUBSET Registered']
        /\ \A p \in Pages \ Registered' : earlier'[p] = {}
    BY <1>1, <1>2 DEF TypeOK
  <2> QED
    BY <1>1, <2>1, <2>2, <2>3 DEF TypeOK, Ordered
<1>5. Readable' /\ NoOrphanFile'
  BY <1>1, <1>2 DEF Readable, NoOrphanFile
<1>6. HotPagesResident'
  BY <1>1 DEF HotPagesResident, OnTier
<1> QED
  BY <1>3, <1>4, <1>5, <1>6

\* A new page is the last accessed, and its payload is in memory, file or no file.
LEMMA PutInvariant == IndInv /\ (\E p \in Pages, t \in Tiers : Put(p, t)) => IndInv'
<1> SUFFICES ASSUME IndInv, NEW n \in Pages, NEW t \in Tiers, Put(n, t)
             PROVE  IndInv'
  OBVIOUS
<1> USE DEF IndInv, PagesKept
<1>1. /\ tier[n] = "new" /\ tier' = [tier EXCEPT ![n] = t] /\ resident' = resident \cup {n}
      /\ earlier' = [earlier EXCEPT ![n] = Registered]
      /\ files \subseteq files' /\ files' \subseteq files \cup {n}
      /\ scraps' \subseteq scraps \cup {n}
  BY DEF Put
<1>2. Registered' = Registered \cup {n} /\ n \notin Registered /\ Registered \subseteq Pages
  BY <1>1 DEF Registered, Tiers, TypeOK
<1>3. IsFiniteSet(Registered')
  BY <1>2, FS_AddElement
<1>4. TypeOK'
  <2>1. /\ earlier'[n] = Registered /\ \A p \in Pages : p # n => earlier'[p] = earlier[p]
    BY <1>1 DEF TypeOK
  <2>2. Ordered(earlier', Registered')
    BY <1>2, <2>1 DEF TypeOK, Ordered
  <2>3. /\ tier' \in [Pages -> Tiers \cup {"new", "gone"}]
        /\ earlier' \in [Pages -> SUBSET Registered']
    BY <1>1, <1>2 DEF TypeOK
  <2>4. \A p \in Pages \ Registered' : earlier'[p] = {}
    BY <1>2, <2>1 DEF TypeOK
  <2>5. resident' \subseteq Pages /\ files' \subseteq Pages /\ scraps' \subseteq Pages
    BY <1>1 DEF TypeOK
  <2> QED
    BY <2>2, <2>3, <2>4, <2>5 DEF TypeOK, Ordered
<1>5. Readable' /\ NoOrphanFile'
  BY <1>1, <1>2 DEF Readable, NoOrphanFile
<1>6. HotPagesResident'
  BY <1>1 DEF HotPagesResident, OnTier, TypeOK
<1> QED
  BY <1>3, <1>4, <1>5, <1>6

LEMMA GetInvariant == IndInv /\ (\E p \in Pages : Get(p)) => IndInv'
<1> SUFFICES ASSUME IndInv, NEW n \in Pages, Get(n)
             PROVE  IndInv'
  OBVIOUS
<1> USE DEF IndInv, PagesKept
<1>1. /\ n \in Registered /\ resident \subseteq resident' /\ resident' \subseteq resident \cup {n}
      /\ earlier' = Touched({n}, earlier)
      /\ UNCHANGED <<tier, files, scraps>>
  BY DEF Get
<1>2. Registered' = Registered
  BY <1>1 DEF Registered
<1>3. TypeOK'
  <2>1. Ordered(earlier, {n}) /\ {n} \subseteq Registered
    BY <1>1 DEF TypeOK, Ordered
  <2>2. /\ earlier' \in [Pages -> SUBSET Registered]
        /\ Ordered(earlier', Registered)
        /\ \A p \in Pages \ Registered : earlier'[p] = {}
    BY <1>1, <2>1, TouchedOrder
  <2> QED
    BY <1>1, <1>2, <2>2 DEF TypeOK, Ordered
<1>4. Readable' /\ NoOrphanFile' /\ HotPagesResident'
  BY <1>1, <1>2 DEF Readable, NoOrphanFile, HotPagesResident, OnTier
<1> QED
  BY <1>2, <1>3, <1>4

LEMMA InitInvariant == Init => IndInv
<1> SUFFICES ASSUME Init
             PROVE  IndInv
  OBVIOUS
<1>1. Registered = {} /\ OnTier("gpu") = {} /\ OnTier("cpu") = {}
  BY DEF Init, Registered, OnTier, Tiers
<1>2. TypeOK
  BY <1>1 DEF Init, TypeOK, Ordered
<1> QED
  BY <1>1, <1>2, FS_EmptySet
     DEF Init, IndInv, PagesKept, Readable, HotPagesResident, NoOrphanFile

LEMMA NextInvariant == IndInv /\ [Next]_pagerVars => IndInv'
<1> SUFFICES ASSUME IndInv, [Next]_pagerVars
             PROVE  IndInv'
  OBVIOUS
<1> USE DEF IndInv, PagesKept
<1>1. ASSUME NEW p \in Pages, NEW t \in Tiers, Move(p, t)
      PROVE  IndInv'
  <2>1. {p} \subseteq Registered /\ MoveInOrder({p}, earlier, t) /\ Ordered(earlier, {p})
    BY <1>1 DEF Move, TypeOK, Ordered
  <2> QED
    BY <2>1, MoveInvariant
<1>2. ASSUME NEW p \in Pages, Delete(p)
      PROVE  IndInv'
  BY <1>2, DropInvariant DEF Delete
<1>3. ASSUME NEW t \in Tiers, NEW needed \in 0..MaxBytes, EvictLru(t, needed)
      PROVE  IndInv'
  <2>1. /\ Victims(t, needed) \subseteq Registered
        /\ Ordered(Candidates(t), Victims(t, needed))
    BY EvictionOrder, OrderOfSubset
  <2>2. CASE t = "gpu"
    BY <1>3, <2>1, <2>2, MoveInvariant DEF EvictLru, Tiers
  <2>3. CASE t = "cpu"
    BY <1>3, <2>1, <2>3, MoveInvariant DEF EvictLru, Tiers
  <2>4. CASE t = "nvme"
    BY <1>3, <2>1, <2>4, DropInvariant DEF EvictLru
  <2> QED
    BY <2>2, <2>3, <2>4 DEF Tiers
<1>4. ASSUME NEW r \in Requests, NEW position \in Positions, NEW tokens \in Positions,
             Prefetch(r, position, tokens)
      PROVE  IndInv'
  <2> DEFINE below == Window(r, position, tokens) \ OnTier("gpu")
  <2>1. PICK before \in Orders(below) : MoveInOrder(below, before, "gpu")
    BY <1>4 DEF Prefetch
  <2>2. below \subseteq Registered /\ Ordered(before, below)
    BY <2>1 DEF Orders, Window
  <2> HIDE DEF below
  <2> QED
    BY <2>1, <2>2, MoveInvariant DEF Tiers
<1>5. CASE UNCHANGED pagerVars
  <2>1. UNCHANGED <<tier, resident, files, scraps, earlier>>
    BY <1>5 DEF pagerVars
  <2>2. Registered' = Registered
    BY <2>1 DEF Registered
  <2> QED
    BY <2>1, <2>2 DEF TypeOK, Ordered, Readable, HotPagesResident, NoOrphanFile, OnTier
<1> QED
  BY <1>1, <1>2, <1>3, <1>4, <1>5, PutInvariant, GetInvariant DEF Next

\* The pager's invariant, of every sequence of calls and failures.
THEOREM PagesInStep == Spec => []IndInv
BY InitInvariant, NextInvariant, PTL DEF Spec

\* No order of puts, moves, reads, evictions and failed writes loses the payload of a
\* registered page, leaves a GPU or CPU page without it, or a page file without its page.
THEOREM PagesSafe == Spec => []PagesKept
<1>1. IndInv => PagesKept
  BY DEF IndInv
<1> QED
  BY <1>1, PagesInStep, PTL

-------------------------------------------------------------------------------
(* Evictions *)

\* What an eviction has moved, wherever it stops, is the candidates up to some point.
LEMMA EvictsOldest ==
  ASSUME IndInv, NEW t \in Tiers, NEW needed \in Nat, EvictLru(t, needed),
         NEW p \in OnTier(t), NEW q \in OnTier(t), tier'[p] # t, q \in earlier[p]
  PROVE  tier'[q] # t
<1>1. TypeOK /\ p \in Pages /\ q \in Pages /\ tier[p] = t /\ tier[q] = t
  BY DEF IndInv, PagesKept, OnTier
<1>2. q \in Candidates(t)[p] /\ Ordered(Candidates(t), OnTier(t))
  BY <1>1, EvictionOrder
<1>3. /\ Victims(t, needed) \subseteq OnTier(t)
      /\ p \in Victims(t, needed) => q \in Victims(t, needed)
  BY <1>1, <1>2, EvictionOrder
<1>4. ASSUME NEW lower \in Tiers, lower # t,
             MoveInOrder(Victims(t, needed), Candidates(t), lower)
      PROVE  tier'[q] # t
  <2>1. PICK stop \in Stopped(Victims(t, needed), Candidates(t)) :
          tier' = [x \in Pages |-> IF x \in stop.moved THEN lower ELSE tier[x]]
    BY <1>4 DEF MoveInOrder
  <2>2. p \in stop.moved
    BY <1>1, <2>1
  <2>3. CASE stop.moved = Victims(t, needed)
    BY <1>1, <1>3, <1>4, <2>1, <2>2, <2>3
  <2>4. ASSUME NEW x \in Victims(t, needed),
               stop.moved = Victims(t, needed) \cap Candidates(t)[x]
        PROVE  tier'[q] # t
    <3>1. q \in Candidates(t)[x]
      BY <1>2, <1>3, <2>2, <2>4 DEF Ordered
    <3> QED
      BY <1>1, <1>3, <1>4, <2>1, <2>2, <2>4, <3>1
  <2> QED
    BY <2>1, <2>3, <2>4 DEF Stopped
<1>5. CASE t = "gpu"
  BY <1>4, <1>5 DEF EvictLru, Tiers
<1>6. CASE t = "cpu"
  BY <1>4, <1>6 DEF EvictLru, Tiers
<1>7. CASE t = "nvme"
  BY <1>1, <1>3, <1>7 DEF EvictLru, Drop
<1> QED
  BY <1>5, <1>6, <1>7 DEF Tiers

\* Victims are all candidates, or the candidates before the one at which enough is freed.
LEMMA EnoughVictims ==
  ASSUME IndInv, NEW t \in Tiers, NEW needed \in Nat
  PROVE  \/ Victims(t, needed) = OnTier(t)
         \/ Freed(Victims(t, needed)) >= needed
<1> SUFFICES ASSUME Victims(t, needed) # OnTier(t)
             PROVE  Freed(Victims(t, needed)) >= needed
  OBVIOUS
<1> DEFINE C == Candidates(t)
           B == {p \in OnTier(t) : Enough(p, t, needed)}
           Sets == {C[p] : p \in B}
<1>1. TypeOK /\ IsFiniteSet(Registered)
  BY DEF IndInv, PagesKept
<1>2. /\ OnTier(t) \subseteq Registered
      /\ Ordered(C, OnTier(t))
      /\ \A p \in OnTier(t) : C[p] \subseteq OnTier(t)
  BY <1>1, EvictionOrder
<1>3. B # {}
  BY <1>2 DEF Victims
<1>4. IsFiniteSet(OnTier(t))
  BY <1>1, <1>2, FS_Subset
<1>5. PICK first \in B : \A p \in B : ~ (C[p] \subseteq C[first] /\ C[p] # C[first])
  <2> DEFINE R == StrictSubsetOrdering(OnTier(t))
  <2>1. IsWellFoundedOn(R, SUBSET OnTier(t))
    BY <1>4, FS_StrictSubsetOrderingWellFounded, FS_FiniteSubsetsOfFinite
  <2>2. Sets \subseteq SUBSET OnTier(t) /\ Sets # {}
    BY <1>2, <1>3
  <2> HIDE DEF R, Sets
  <2>3. PICK least \in Sets : \A other \in Sets : ~(<<other, least>> \in R)
    BY <2>1, <2>2, WFMin
  <2>4. \A other \in Sets : ~(other \subseteq least /\ other # least)
    BY <2>2, <2>3 DEF R, StrictSubsetOrdering
  <2> QED
    BY <2>4 DEF Sets
<1>6. first \in OnTier(t) /\ Freed(C[first]) >= needed
  BY DEF Enough
<1>7. \A p \in C[first] : ~Enough(p, t, needed)
  <2> SUFFICES ASSUME NEW p \in C[first], p \in B
               PROVE  FALSE
    BY <1>2, <1>6
  <2>1. C[p] \subseteq C[first] /\ p \notin C[p]
    BY <1>2, <1>6 DEF Ordered
  <2> QED
    BY <1>5, <2>1
<1>8. Victims(t, needed) = C[first]
  <2>1. ASSUME NEW p \in Victims(t, needed)
        PROVE  p \in C[first]
    <3>1. p \in OnTier(t) /\ p # first /\ first \notin C[p]
      BY <1>6 DEF Victims, Enough
    <3> QED
      BY <1>2, <1>6, <3>1 DEF Ordered
  <2>2. ASSUME NEW p \in C[first]
        PROVE  p \in Victims(t, needed)
    <3>1. p \in OnTier(t) /\ C[p] \subseteq C[first]
      BY <1>2, <1>6, <2>2 DEF Ordered
    <3> QED
      BY <1>7, <3>1 DEF Victims
  <2> QED
    BY <2>1, <2>2
<1> QED
  BY <1>6, <1>8

\* Pages demoted from the GPU are in memory, so that no step of the eviction can raise.
LEMMA GpuEviction ==
  ASSUME IndInv, NEW needed \in Nat, EvictLru("gpu", needed)
  PROVE  OnTier("gpu")' = OnTier("gpu") \ Victims("gpu", needed)
<1> DEFINE V == Victims("gpu", needed)
<1>1. V \subseteq OnTier("gpu") /\ OnTier("gpu") \subseteq resident
  BY EvictionOrder DEF IndInv, PagesKept, HotPagesResident, Tiers
<1>2. PICK stop \in Stopped(V, Candidates("gpu")) :
        /\ \A p \in stop.at : UsesFile(p, "cpu")
        /\ tier' = [p \in Pages |-> IF p \in stop.moved THEN "cpu" ELSE tier[p]]
  BY DEF EvictLru, MoveInOrder
<1> HIDE DEF V
<1>3. stop.at = {}
  BY <1>1, <1>2 DEF Stopped, UsesFile
<1>4. stop.moved = V
  BY <1>2, <1>3 DEF Stopped
<1>5. OnTier("gpu")' = {p \in Pages : tier'[p] = "gpu"}
  BY DEF OnTier
<1> QED
  BY <1>1, <1>2, <1>4, <1>5 DEF OnTier, V

\* An eviction takes the least recently used of its tier, also when it stops half way; one
\* from the GPU frees what it was asked for, or all there is.
THEOREM EvictionsAsAsked == Spec => EvictsAsAsked
<1>1. IndInv /\ [Next]_pagerVars =>
        [\A t \in Tiers, needed \in 0..MaxBytes : EvictLru(t, needed) =>
           /\ \A p, q \in OnTier(t) : (tier'[p] # t /\ q \in earlier[p]) => tier'[q] # t
           /\ t = "gpu" =>
                \/ OnTier("gpu")' = {}
                \/ Freed(OnTier("gpu") \ OnTier("gpu")') >= needed]_pagerVars
  <2> SUFFICES ASSUME IndInv, NEW t \in Tiers, NEW needed \in 0..MaxBytes, EvictLru(t, needed)
               PROVE  /\ \A p, q \in OnTier(t) : (tier'[p] # t /\ q \in earlier[p]) => tier'[q] # t
                      /\ t = "gpu" =>
                           \/ OnTier("gpu")' = {}
                           \/ Freed(OnTier("gpu") \ OnTier("gpu")') >= needed
    OBVIOUS
  <2>1. needed \in Nat
    BY SizeAssumption
  <2>2. \A p, q \in OnTier(t) : (tier'[p] # t /\ q \in earlier[p]) => tier'[q] # t
    BY <2>1, EvictsOldest
  <2>3. CASE t = "gpu"
    <3>1. OnTier("gpu")' = OnTier("gpu") \ Victims("gpu", needed)
      BY <2>1, <2>3, GpuEviction
    <3>2. Victims("gpu", needed) \subseteq OnTier("gpu")
      BY EvictionOrder DEF IndInv, PagesKept, Tiers
    <3>3. OnTier("gpu") \ OnTier("gpu")' = Victims("gpu", needed)
      BY <3>1, <3>2
    <3>4. \/ Victims("gpu", needed) = OnTier("gpu")
          \/ Freed(Victims("gpu", needed)) >= needed
      BY <2>1, EnoughVictims DEF Tiers
    <3> QED
      BY <2>2, <2>3, <3>1, <3>3, <3>4
  <2> QED
    BY <2>2, <2>3
<1> QED
  BY <1>1, PagesInStep, PTL DEF Spec, EvictsAsAsked

-------------------------------------------------------------------------------
(* The algorithms *)

\* A behaviour takes an input of its subject and gives one of its answers.
AnswersInv ==
  /\ subject \in Subjects /\ input \in Inputs(subject)
  /\ answer = {} \/ \E a \in Answers(subject, input) : answer = {a}

LEMMA AnswersInvariant == AlgorithmsSpec => []AnswersInv
<1>1. AlgorithmsInit => AnswersInv
  BY DEF AlgorithmsInit, AnswersInv
<1>2. AnswersInv /\ [Compute]_algorithmVars => AnswersInv'
  BY DEF AnswersInv, Compute, algorithmVars
<1> QED
  BY <1>1, <1>2, PTL DEF AlgorithmsSpec

-------------------------------------------------------------------------------
(* Policies *)

LEMMA PolicyTightens ==
  ASSUME NEW mode \in PolicyModes, NEW q \in 60..100, NEW p \in 60..q,
         NEW busy \in BOOLEAN, NEW long \in BOOLEAN
  PROVE  AtLeastAsTight(Decide(mode, q, busy, long), Decide(mode, p, busy, long))
<1>1. CASE QualityRow(mode, p, busy)
  BY <1>1 DEF PolicyModes, AtLeastAsTight, Decide, Decision, QualityRow, PressureRow, ThroughputRow
<1>2. CASE ~QualityRow(mode, p, busy) /\ PressureRow(mode, p)
  BY <1>2 DEF PolicyModes, AtLeastAsTight, Decide, Decision, QualityRow, PressureRow, ThroughputRow
<1>3. CASE ~QualityRow(mode, p, busy) /\ ~PressureRow(mode, p) /\ ThroughputRow(mode, busy)
  BY <1>3 DEF PolicyModes, AtLeastAsTight, Decide, Decision, QualityRow, PressureRow, ThroughputRow
<1>4. CASE ~QualityRow(mode, p, busy) /\ ~PressureRow(mode, p) /\ ~ThroughputRow(mode, busy)
  BY <1>4 DEF PolicyModes, AtLeastAsTight, Decide, Decision, QualityRow, PressureRow, ThroughputRow
<1> QED
  BY <1>1, <1>2, <1>3, <1>4

LEMMA PolicyUnderPressure ==
  ASSUME NEW mode \in PolicyModes, NEW p \in 90..100, NEW busy \in BOOLEAN, NEW long \in BOOLEAN
  PROVE  Decide(mode, p, busy, long) = Decide("memory_first", p, busy, long)
<1>1. ~QualityRow(mode, p, busy) /\ ~QualityRow("memory_first", p, busy)
  BY DEF QualityRow
<1>2. PressureRow(mode, p) /\ PressureRow("memory_first", p)
  BY DEF PressureRow
<1> QED
  BY <1>1, <1>2 DEF Decide

-------------------------------------------------------------------------------
(* Weights *)

\* What _validate_requested and the automatic choice need to know of a machine.
LEMMA HardwareKinds ==
  ASSUME NEW hw \in AllHardware
  PROVE  /\ hw.bf16 \in BOOLEAN /\ hw.fp8 \in BOOLEAN /\ hw.int4 \in BOOLEAN
         /\ hw.kind \in {"cuda", "rocm", "cpu"}
         /\ hw.kind # "cpu" => hw.int4
         /\ hw.kind = "rocm" => hw.bf16
         /\ hw.kind = "cpu" => ~hw.fp8
<1>1. CASE \E m \in {3, 16, 20, 32}, b \in BOOLEAN :
             hw = [kind |-> "cuda", memory |-> m, bf16 |-> b, fp8 |-> FALSE, int4 |-> TRUE]
  <2>1. PICK b \in BOOLEAN : hw.kind = "cuda" /\ hw.bf16 = b /\ hw.fp8 = FALSE /\ hw.int4 = TRUE
    BY <1>1
  <2> QED
    BY <2>1, Zenon
<1>2. CASE \E m \in {3, 16, 20, 32} :
             hw = [kind |-> "cuda", memory |-> m, bf16 |-> TRUE, fp8 |-> TRUE, int4 |-> TRUE]
  <2>1. hw.kind = "cuda" /\ hw.bf16 = TRUE /\ hw.fp8 = TRUE /\ hw.int4 = TRUE
    BY <1>2
  <2> QED
    BY <2>1, Zenon
<1>3. CASE hw = [kind |-> "rocm", memory |-> 0, bf16 |-> TRUE, fp8 |-> FALSE, int4 |-> TRUE]
  <2>1. hw.kind = "rocm" /\ hw.bf16 = TRUE /\ hw.fp8 = FALSE /\ hw.int4 = TRUE
    BY <1>3
  <2> QED
    BY <2>1, Zenon
<1>4. CASE hw = [kind |-> "cpu", memory |-> 0, bf16 |-> FALSE, fp8 |-> FALSE, int4 |-> FALSE]
  <2>1. hw.kind = "cpu" /\ hw.bf16 = FALSE /\ hw.fp8 = FALSE /\ hw.int4 = FALSE
    BY <1>4
  <2> QED
    BY <2>1, Zenon
<1>5. \/ \E m \in {3, 16, 20, 32}, b \in BOOLEAN :
             hw = [kind |-> "cuda", memory |-> m, bf16 |-> b, fp8 |-> FALSE, int4 |-> TRUE]
      \/ \E m \in {3, 16, 20, 32} :
             hw = [kind |-> "cuda", memory |-> m, bf16 |-> TRUE, fp8 |-> TRUE, int4 |-> TRUE]
      \/ hw = [kind |-> "rocm", memory |-> 0, bf16 |-> TRUE, fp8 |-> FALSE, int4 |-> TRUE]
      \/ hw = [kind |-> "cpu", memory |-> 0, bf16 |-> FALSE, fp8 |-> FALSE, int4 |-> FALSE]
  BY SMTT(30) DEF AllHardware
<1> QED
  BY <1>1, <1>2, <1>3, <1>4, <1>5, Zenon

\* A format that every machine can be asked for, or one that this machine has.
Fits(mode, hw, asked) ==
  /\ mode \in WeightModes
  /\ (mode = "bf16") => hw.bf16
  /\ (mode = "fp8") => hw.fp8
  /\ (mode = "int4") => hw.int4
  /\ (mode = "fp16") => (hw.kind # "cpu" \/ asked = "fp16")

LEMMA ValidatedFits ==
  ASSUME NEW hw \in AllHardware, NEW requested \in WeightModes
  PROVE  Fits(Validated(requested, hw), hw, requested)
<1> USE HardwareKinds
<1>1. CASE requested = "bf16"
  BY <1>1 DEF Validated, Fits, WeightModes
<1>2. CASE requested = "fp16"
  BY <1>2 DEF Validated, Fits, WeightModes
<1>3. CASE requested = "fp8"
  BY <1>3 DEF Validated, Fits, WeightModes
<1>4. CASE requested = "int8"
  BY <1>4 DEF Validated, Fits, WeightModes
<1>5. CASE requested = "int4"
  BY <1>5 DEF Validated, Fits, WeightModes
<1> QED
  BY <1>1, <1>2, <1>3, <1>4, <1>5 DEF WeightModes

LEMMA WidestFits ==
  ASSUME NEW hw \in AllHardware, NEW asked
  PROVE  Fits(WidestFloat(hw), hw, asked)
BY HardwareKinds DEF WidestFloat, Fits, WeightModes

LEMMA AutoFits ==
  ASSUME NEW hw \in AllHardware, NEW policy \in PolicyModes, NEW min, NEW asked
  PROVE  Fits(AutoMode(policy, hw, min), hw, asked)
<1>1. \/ AutoMode(policy, hw, min) = WidestFloat(hw)
      \/ AutoMode(policy, hw, min) = "fp8" /\ hw.fp8
      \/ AutoMode(policy, hw, min) = "int4" /\ hw.int4
      \/ AutoMode(policy, hw, min) = "int8"
  <2>1. CASE policy = "quality_first"
    BY <2>1 DEF AutoMode
  <2>2. CASE policy = "memory_first"
    BY <2>2 DEF AutoMode
  <2>3. CASE policy = "throughput_first"
    BY <2>3 DEF AutoMode
  <2>4. CASE policy = "balanced"
    BY <2>4 DEF AutoMode
  <2> QED
    BY <2>1, <2>2, <2>3, <2>4 DEF PolicyModes
<1> QED
  BY <1>1, WidestFits DEF Fits, WeightModes

\* The plan _build_plan makes of a format the machine has.
LEMMA BuiltFits ==
  ASSUME NEW hw \in AllHardware, NEW asked, NEW mode, Fits(mode, hw, asked),
         NEW pre \in BOOLEAN, NEW plan, plan = Built(mode, pre)
  PROVE  /\ plan.selected = "bf16" => hw.bf16
         /\ plan.selected = "fp8" \/ plan.kv_cache = "fp8" => hw.fp8
         /\ plan.selected = "int4" => hw.int4
         /\ plan.selected = "fp16" => hw.kind # "cpu" \/ asked = "fp16"
         /\ plan.online => ~pre /\ plan.format \in {"safetensors", "bitsandbytes"}
<1>1. plan.selected = mode
  BY DEF Built
<1>2. plan.kv_cache = "fp8" => mode = "fp8"
  BY DEF Built
<1>3. plan.online <=> mode \in {"fp8", "int4", "int8"} /\ ~pre
  BY DEF Built
<1>4. ASSUME mode \in {"fp8", "int4", "int8"}, ~pre
      PROVE  plan.format \in {"safetensors", "bitsandbytes"}
  <2>1. CASE mode = "fp8"
    BY <1>4, <2>1 DEF Built
  <2>2. CASE mode = "int4"
    BY <1>4, <2>2 DEF Built
  <2>3. CASE mode = "int8"
    BY <1>4, <2>3 DEF Built
  <2> QED
    BY <1>4, <2>1, <2>2, <2>3
<1> QED
  BY <1>1, <1>2, <1>3, <1>4 DEF Fits

\* PlansHold: the answers of "policy" and "weights" are the ones the lemmas are about.
THEOREM PlansHoldAlways == AlgorithmsSpec => []PlansHold
<1>1. ASSUME AnswersInv  PROVE PlansHold
  <2>1. ASSUME NEW d \in Answer("policy")
        PROVE  /\ \A p \in 60..input[2] :
                    AtLeastAsTight(d, Decide(input[1], p, input[3], input[4]))
               /\ input[2] >= 90 => d = Decide("memory_first", input[2], input[3], input[4])
    <3>1. subject = "policy" /\ d \in answer
      BY <2>1 DEF Answer
    <3>2. input \in PolicyModes \X (60..100) \X BOOLEAN \X BOOLEAN
      BY <1>1, <3>1 DEF AnswersInv, Inputs
    <3>3. d = Decide(input[1], input[2], input[3], input[4])
      BY <1>1, <3>1 DEF AnswersInv, Answers
    <3>4. input[1] \in PolicyModes /\ input[2] \in 60..100 /\ input[3] \in BOOLEAN /\ input[4] \in BOOLEAN
      BY <3>2
    <3>5. ASSUME NEW p \in 60..input[2]
          PROVE  AtLeastAsTight(d, Decide(input[1], p, input[3], input[4]))
      BY <3>3, <3>4, <3>5, PolicyTightens
    <3>6. ASSUME input[2] >= 90
          PROVE  d = Decide("memory_first", input[2], input[3], input[4])
      <4>1. input[2] \in 90..100
        BY <3>4, <3>6
      <4> QED
        BY <3>3, <3>4, <4>1, PolicyUnderPressure
    <3> QED
      BY <3>5, <3>6
  <2>2. ASSUME NEW plan \in Answer("weights")
        PROVE  /\ plan.selected = "bf16" => input[3].bf16
               /\ plan.selected = "fp8" \/ plan.kv_cache = "fp8" => input[3].fp8
               /\ plan.selected = "int4" => input[3].int4
               /\ plan.selected = "fp16" => input[3].kind # "cpu" \/ input[1] = "fp16"
               /\ plan.online => ~input[5] /\ plan.format \in {"safetensors", "bitsandbytes"}
    <3>1. subject = "weights" /\ plan \in answer
      BY <2>2 DEF Answer
    <3>2. input \in (WeightModes \cup {"auto"}) \X PolicyModes \X AllHardware \X {0, 16} \X BOOLEAN
      BY <1>1, <3>1 DEF AnswersInv, Inputs
    <3>3. plan = Built(Selected(input[1], input[2], input[3], input[4]), input[5])
      BY <1>1, <3>1 DEF AnswersInv, Answers
    <3>4. /\ input[1] \in WeightModes \cup {"auto"} /\ input[2] \in PolicyModes
          /\ input[3] \in AllHardware /\ input[5] \in BOOLEAN
      BY <3>2
    <3>5. Fits(Selected(input[1], input[2], input[3], input[4]), input[3], input[1])
      BY <3>4, ValidatedFits, AutoFits DEF Selected
    <3> QED
      BY <3>3, <3>4, <3>5, BuiltFits
  <2> QED
    BY <2>1, <2>2 DEF PlansHold
<1> QED
  BY <1>1, AnswersInvariant, PTL
-------------------------------------------------------------------------------
(* The tokens that are kept, renumbered *)

Below(R, t) == {u \in R : u < t}
Rank(R, t)  == Cardinality(Below(R, t))

\* Counting the tokens below one renumbers the retained tokens 0, 1, ..., in their order.
LEMMA RanksOrdered ==
  ASSUME NEW R \in SUBSET Nat, IsFiniteSet(R), NEW t \in R
  PROVE  /\ Rank(R, t) \in 0..(Cardinality(R) - 1)
         /\ \A u \in R : u < t => Rank(R, u) < Rank(R, t)
<1>1. Below(R, t) \in SUBSET R /\ t \notin Below(R, t) /\ R # Below(R, t)
  BY DEF Below
<1>2. /\ IsFiniteSet(Below(R, t)) /\ Rank(R, t) \in Nat /\ Cardinality(R) \in Nat
      /\ Rank(R, t) <= Cardinality(R) /\ Rank(R, t) # Cardinality(R)
  BY <1>1, FS_Subset, FS_CardinalityType DEF Rank
<1>3. ASSUME NEW u \in R, u < t
      PROVE  Rank(R, u) < Rank(R, t)
  <2>1. Below(R, u) \in SUBSET Below(R, t) /\ u \in Below(R, t) /\ u \notin Below(R, u)
    <3>1. \A v \in R : v \in Nat
      OBVIOUS
    <3>2. \A v \in R : v < u => v < t
      BY <1>3, <3>1
    <3>3. ~(u < u)
      BY <3>1
    <3> QED
      BY <1>3, <3>2, <3>3, Zenon DEF Below
  <2>2. /\ IsFiniteSet(Below(R, u)) /\ Rank(R, u) \in Nat
        /\ Rank(R, u) <= Rank(R, t) /\ Rank(R, u) # Rank(R, t)
    BY <1>2, <2>1, FS_Subset, FS_CardinalityType DEF Rank
  <2> QED
    BY <1>2, <2>2
<1> QED
  BY <1>2, <1>3

LEMMA RanksDiffer ==
  ASSUME NEW R \in SUBSET Nat, IsFiniteSet(R), NEW t \in R, NEW u \in R, Rank(R, t) = Rank(R, u)
  PROVE  t = u
<1>1. Rank(R, t) \in Int /\ t \in Nat /\ u \in Nat
  BY RanksOrdered
<1>2. ~(t < u) /\ ~(u < t)
  BY <1>1, RanksOrdered
<1> QED
  BY <1>1, <1>2

\* Kept undoes the renumbering, and every number of a retained token is one of theirs.
LEMMA KeptRank ==
  ASSUME NEW R \in SUBSET Nat, IsFiniteSet(R), NEW t \in R
  PROVE  Kept(R, Rank(R, t)) = t
<1>1. Kept(R, Rank(R, t)) = CHOOSE u \in R : Rank(R, u) = Rank(R, t)
  BY DEF Kept, Rank, Below
<1> QED
  BY <1>1, RanksDiffer

LEMMA RankKept ==
  ASSUME NEW R \in SUBSET Nat, IsFiniteSet(R), NEW i \in 0..(Cardinality(R) - 1)
  PROVE  Kept(R, i) \in R /\ Rank(R, Kept(R, i)) = i
<1> DEFINE Numbers == 0..(Cardinality(R) - 1)
           rank == [t \in R |-> Rank(R, t)]
<1>1. Cardinality(R) \in Nat
  BY FS_CardinalityType
<1>2. IsFiniteSet(Numbers) /\ Cardinality(Numbers) = Cardinality(R)
  BY <1>1, FS_Interval
<1>3. rank \in Injection(R, Numbers)
  <2>1. rank \in [R -> Numbers]
    BY RanksOrdered
  <2>2. \A t, u \in R : rank[t] = rank[u] => t = u
    BY RanksDiffer
  <2> QED
    BY <2>1, <2>2 DEF Injection, IsInjective
<1>4. rank \in Surjection(R, Numbers)
  <2> HIDE DEF rank, Numbers
  <2> QED
    BY <1>2, <1>3, FS_Injection
<1>5. \E t \in R : Rank(R, t) = i
  BY <1>4 DEF Surjection
<1>6. Kept(R, i) = CHOOSE t \in R : Rank(R, t) = i
  BY DEF Kept, Rank, Below
<1> QED
  BY <1>5, <1>6

-------------------------------------------------------------------------------
(* What becomes of the tokens *)

\* At most 80 percent of the tokens are removed, and none of the recent ones.
LEMMA PruneCountBounds ==
  ASSUME NEW n \in Nat, NEW recent \in Nat, NEW prune \in Nat
  PROVE  /\ PruneCount(n, recent, prune) \in Nat
         /\ n <= recent => PruneCount(n, recent, prune) = 0
         /\ n > recent => PruneCount(n, recent, prune) <= n - recent
         /\ 100 * PruneCount(n, recent, prune) <= 80 * n
<1> DEFINE percent == Smaller(prune, 80)
           asked == (n * percent) \div 100
<1>1. percent \in 0..80
  BY DEF Smaller
<1> HIDE DEF percent
<1>2. n * percent \in Nat /\ n * percent <= 80 * n
  <2>1. n * (80 - percent) \in Nat /\ n * percent \in Nat
    BY <1>1
  <2>2. n * (80 - percent) = 80 * n - n * percent
    BY <1>1
  <2> QED
    BY <1>1, <2>1, <2>2
<1>3. asked \in Nat /\ 100 * asked <= 80 * n
  <2> DEFINE product == n * percent
  <2>1. product \in Nat /\ product <= 80 * n
    BY <1>2
  <2> HIDE DEF product
  <2>2. product \div 100 \in Nat /\ 100 * (product \div 100) <= product
    BY <2>1
  <2> QED
    BY <2>1, <2>2 DEF product
<1> HIDE DEF asked
<1>4. CASE n <= recent
  BY <1>4 DEF PruneCount
<1>5. CASE n > recent
  <2>1. PruneCount(n, recent, prune) = Smaller(asked, n - recent)
    BY <1>5 DEF PruneCount, asked, percent
  <2> QED
    BY <1>3, <1>5, <2>1 DEF Smaller
<1> QED
  BY <1>4, <1>5

\* The tokens left after the pruning are the recent ones, numbered last, and older ones.
LEMMA RetainedRanks ==
  ASSUME NEW n \in Nat, NEW recent \in Nat, NEW gone \in SUBSET Old(n, recent),
         NEW R, R = (0..(n - 1)) \ gone
  PROVE  /\ R \in SUBSET Nat /\ IsFiniteSet(R)
         /\ Cardinality(gone) \in Nat /\ Cardinality(R) = n - Cardinality(gone)
         /\ \A t \in 0..(n - 1) :
              t >= n - recent => t \in R /\ Rank(R, t) = t - Cardinality(gone)
         /\ \A t \in R : t < n - recent =>
              Rank(R, t) < Cardinality(R) - Smaller(recent, Cardinality(R))
<1> DEFINE m == Cardinality(R)
<1>1. gone \subseteq 0..(n - 1)
  BY DEF Old
<1>2. IsFiniteSet(0..(n - 1)) /\ Cardinality(0..(n - 1)) = n
  BY FS_Interval
<1>3. IsFiniteSet(gone) /\ Cardinality(gone) \in Nat
  BY <1>1, <1>2, FS_Subset, FS_CardinalityType
<1>4. R \in SUBSET Nat /\ IsFiniteSet(R)
  <2>1. IsFiniteSet((0..(n - 1)) \ gone)
    BY <1>2, FS_Difference
  <2> QED
    BY <2>1
<1>5. Cardinality(R) = n - Cardinality(gone) /\ Cardinality(R) \in Nat
  <2>1. (0..(n - 1)) \cap gone = gone
    BY <1>1
  <2>2. Cardinality((0..(n - 1)) \ gone)
          = Cardinality(0..(n - 1)) - Cardinality((0..(n - 1)) \cap gone)
    BY <1>2, FS_Difference
  <2>3. Cardinality(R) \in Nat
    BY <1>4, FS_CardinalityType
  <2> QED
    BY <1>2, <2>1, <2>2, <2>3
<1>6. ASSUME NEW t \in 0..(n - 1), t >= n - recent
      PROVE  t \in R /\ Rank(R, t) = t - Cardinality(gone)
  <2>1. t \in R
    BY <1>6 DEF Old
  <2>2. Below(R, t) = (0..(t - 1)) \ gone
    BY <1>6 DEF Below
  <2>3. \A u \in gone : u \in 0..(t - 1)
    BY <1>6 DEF Old
  <2>4. (0..(t - 1)) \cap gone = gone
    BY <2>3
  <2>5. IsFiniteSet(0..(t - 1)) /\ Cardinality(0..(t - 1)) = t
    BY FS_Interval
  <2>6. Cardinality((0..(t - 1)) \ gone)
          = Cardinality(0..(t - 1)) - Cardinality((0..(t - 1)) \cap gone)
    BY <2>5, FS_Difference
  <2> QED
    BY <2>1, <2>2, <2>4, <2>5, <2>6 DEF Rank
<1>7. ASSUME NEW t \in R, t < n - recent
      PROVE  Rank(R, t) < Cardinality(R) - Smaller(recent, Cardinality(R))
  <2>1. Rank(R, t) \in 0..(Cardinality(R) - 1)
    BY <1>4, RanksOrdered
  <2>2. CASE recent = 0
    BY <1>5, <2>1, <2>2 DEF Smaller
  <2>3. CASE recent > 0
    <3> DEFINE first == n - recent
    <3>1. first \in 0..(n - 1) /\ first >= n - recent /\ t < first
      BY <1>4, <1>7, <2>3
    <3> HIDE DEF first
    <3>2. first \in R /\ Rank(R, first) = first - Cardinality(gone)
      BY <1>6, <3>1
    <3>3. Rank(R, t) < Rank(R, first)
      BY <1>4, <3>1, <3>2, RanksOrdered
    <3>4. Rank(R, t) < Cardinality(R) - recent
      BY <1>3, <1>5, <2>1, <3>2, <3>3 DEF first
    <3>5. Smaller(recent, Cardinality(R)) <= recent
      BY <1>5 DEF Smaller
    <3> QED
      BY <1>5, <2>1, <3>4, <3>5 DEF Smaller
  <2> QED
    BY <2>2, <2>3
<1> QED
  BY <1>3, <1>4, <1>5, <1>6, <1>7

\* TokensByImportance of one answer, its fates by name.
ByImportance(a, n, scores, given, recent) ==
  /\ a.tiers.recent = {t \in 0..(n - 1) : t >= n - recent}
  /\ a.pruned \cup a.tiers.cold \cup a.tiers.hot \cup a.tiers.recent = 0..(n - 1)
  /\ a.pruned \cap a.tiers.cold = {} /\ a.pruned \cap a.tiers.hot = {}
  /\ a.pruned \cap a.tiers.recent = {} /\ a.tiers.cold \cap a.tiers.hot = {}
  /\ a.tiers.cold \cap a.tiers.recent = {} /\ a.tiers.hot \cap a.tiers.recent = {}
  /\ given => /\ \A t \in a.pruned, u \in a.tiers.cold : scores[t] <= scores[u]
              /\ \A t \in a.pruned, u \in a.tiers.hot : scores[t] <= scores[u]
              /\ \A t \in a.tiers.cold, u \in a.tiers.hot : scores[t] <= scores[u]
  /\ 100 * Cardinality(a.pruned) <= 80 * n

\* store_kv, for a request of any length: which tokens go, and where the others are put.
LEMMA StoredByImportance ==
  ASSUME NEW n \in Nat, NEW scores, NEW given \in BOOLEAN, NEW recent \in Nat,
         NEW prune \in Nat, NEW hot, NEW a \in Stored(n, scores, given, recent, prune, hot)
  PROVE  ByImportance(a, n, scores, given, recent)
<1>1. PICK gone \in Pruned(n, scores, recent, prune) :
        a \in {[pruned |-> gone,
                tiers  |-> [part \in DOMAIN t |->
                              {Kept((0..(n - 1)) \ gone, i) : i \in t[part]}]] :
                 t \in Compressed(n - Cardinality(gone),
                                  ScoresOf(scores, given, (0..(n - 1)) \ gone), recent, hot)}
  BY DEF Stored
<1> DEFINE R == (0..(n - 1)) \ gone
           m == Cardinality(R)
           moved == ScoresOf(scores, given, R)
           kept == Smaller(recent, m)
<1>2. /\ gone \in SUBSET Old(n, recent) /\ Cardinality(gone) = PruneCount(n, recent, prune)
      /\ \A t \in gone, u \in Old(n, recent) \ gone : scores[t] <= scores[u]
  BY DEF Pruned, Lowest
<1>3. /\ R \in SUBSET Nat /\ IsFiniteSet(R)
      /\ Cardinality(gone) \in Nat /\ m = n - Cardinality(gone)
      /\ \A t \in 0..(n - 1) :
           t >= n - recent => t \in R /\ Rank(R, t) = t - Cardinality(gone)
      /\ \A t \in R : t < n - recent => Rank(R, t) < m - kept
  BY ZenonT(40), <1>2, RetainedRanks
<1>4. PICK t \in Compressed(m, moved, recent, hot) :
        a = [pruned |-> gone,
             tiers  |-> [part \in DOMAIN t |-> {Kept(R, i) : i \in t[part]}]]
  BY <1>1, <1>3
<1>5. PICK H \in Highest(Old(m, kept), moved, Smaller(m - kept, CeilDiv(m * hot, 100))) :
        t = [cold |-> Old(m, kept) \ H, hot |-> H, recent |-> (m - kept)..(m - 1)]
  BY DEF Compressed
<1>6. /\ H \subseteq Old(m, kept)
      /\ \A i \in H, j \in Old(m, kept) \ H : moved[i] >= moved[j]
  BY DEF Highest
<1>7. /\ a.pruned = gone
      /\ a.tiers.cold = {Kept(R, i) : i \in Old(m, kept) \ H}
      /\ a.tiers.hot = {Kept(R, i) : i \in H}
      /\ a.tiers.recent = {Kept(R, i) : i \in (m - kept)..(m - 1)}
  BY <1>4, <1>5
<1>8. m \in Nat /\ kept \in 0..m /\ m <= n
  BY <1>3, FS_CardinalityType DEF Smaller
<1>9. gone \subseteq 0..(n - 1) /\ R = (0..(n - 1)) \ gone
  BY <1>2 DEF Old
<1>10. m - kept >= n - recent - Cardinality(gone)
  BY <1>3, <1>8 DEF Smaller
<1>11. given => moved = [i \in 0..(m - 1) |-> scores[Kept(R, i)]]
  BY DEF ScoresOf
<1>12. Old(m, kept) = 0..(m - kept - 1)
  BY DEF Old
<1>13. Cardinality(gone) <= n - recent \/ gone = {}
  <2>1. n <= recent => gone = {}
    BY <1>2 DEF Old
  <2> QED
    BY <1>2, <2>1, PruneCountBounds
<1>14. gone = {} => Cardinality(gone) = 0
  BY FS_EmptySet
<1> HIDE DEF R, moved
<1>15. /\ n <= recent => Cardinality(gone) = 0
       /\ n > recent => Cardinality(gone) <= n - recent
  <2>1. /\ n <= recent => PruneCount(n, recent, prune) = 0
        /\ n > recent => PruneCount(n, recent, prune) <= n - recent
    BY PruneCountBounds
  <2> QED
    BY <1>2, <2>1
<1> HIDE DEF m
<1>16. /\ recent >= n => m - kept = 0
       /\ recent < n => kept = recent
  BY <1>3, <1>8, <1>15 DEF Smaller
<1> HIDE DEF kept
<1>17. \A i \in 0..(m - 1) : Kept(R, i) \in R /\ Rank(R, Kept(R, i)) = i
  BY <1>3, RankKept DEF m
<1>18. \A u \in R : Rank(R, u) \in 0..(m - 1) /\ Kept(R, Rank(R, u)) = u
  BY <1>3, RanksOrdered, KeptRank DEF m
\* A number is one of the recent tokens' exactly from m - kept on.
<1>19. ASSUME NEW i \in 0..(m - 1)
       PROVE  i >= m - kept <=> Kept(R, i) >= n - recent
  <2>1. Kept(R, i) \in 0..(n - 1) /\ Kept(R, i) \in R /\ Rank(R, Kept(R, i)) = i
    BY <1>9, <1>17
  <2>2. CASE Kept(R, i) < n - recent
    BY <1>3, <1>8, <2>1, <2>2
  <2>3. CASE Kept(R, i) >= n - recent
    <3>1. i = Kept(R, i) - Cardinality(gone)
      BY <1>3, <2>1, <2>3
    <3> QED
      BY <1>3, <1>8, <1>16, <2>1, <2>3, <3>1
  <2> QED
    BY <2>1, <2>2, <2>3
<1>20. \A i, j \in 0..(m - 1) : Kept(R, i) = Kept(R, j) => i = j
  BY <1>17
<1>21. H \subseteq 0..(m - kept - 1) /\ 0..(m - kept - 1) \subseteq 0..(m - 1)
       /\ (m - kept)..(m - 1) \subseteq 0..(m - 1)
  BY <1>6, <1>8, <1>12
<1>22. a.tiers.recent = {u \in 0..(n - 1) : u >= n - recent}
  <2>1. ASSUME NEW u \in 0..(n - 1), u >= n - recent
        PROVE  u \in a.tiers.recent
    <3>1. u \in R /\ Rank(R, u) \in 0..(m - 1) /\ Kept(R, Rank(R, u)) = u
      BY <1>3, <1>18, <2>1
    <3>2. Rank(R, u) \in (m - kept)..(m - 1)
      BY <1>8, <1>19, <2>1, <3>1
    <3> QED
      BY <1>7, <3>1, <3>2
  <2>2. ASSUME NEW u \in a.tiers.recent
        PROVE  u \in 0..(n - 1) /\ u >= n - recent
    <3>1. PICK i \in (m - kept)..(m - 1) : u = Kept(R, i)
      BY <1>7
    <3>2. i \in 0..(m - 1) /\ i >= m - kept
      BY <1>8, <1>21, <3>1
    <3>3. u \in R /\ u >= n - recent
      BY <1>17, <1>19, <3>1, <3>2
    <3> QED
      BY <1>9, <3>3
  <2> QED
    BY <2>1, <2>2
<1>23. a.tiers.cold \subseteq R /\ a.tiers.hot \subseteq R /\ a.tiers.recent \subseteq R
  BY <1>7, <1>12, <1>17, <1>21
<1>24. R \subseteq a.tiers.cold \cup a.tiers.hot \cup a.tiers.recent
  <2> SUFFICES ASSUME NEW u \in R
               PROVE  u \in a.tiers.cold \/ u \in a.tiers.hot \/ u \in a.tiers.recent
    OBVIOUS
  <2>1. Rank(R, u) \in 0..(m - 1) /\ Kept(R, Rank(R, u)) = u
    BY <1>18
  <2>2. \/ Rank(R, u) \in Old(m, kept) \ H \/ Rank(R, u) \in H
        \/ Rank(R, u) \in (m - kept)..(m - 1)
    BY <1>8, <1>12, <2>1
  <2> QED
    BY <1>7, <2>1, <2>2
<1>25. a.tiers.cold \cap a.tiers.hot = {}
  BY <1>7, <1>12, <1>20, <1>21
<1>26. \A u \in a.tiers.cold \cup a.tiers.hot : u \in R /\ u < n - recent
  <2> SUFFICES ASSUME NEW i \in 0..(m - kept - 1)
               PROVE  Kept(R, i) \in R /\ Kept(R, i) < n - recent
    BY <1>7, <1>12, <1>21
  <2>1. i \in 0..(m - 1) /\ ~(i >= m - kept)
    BY <1>8
  <2>2. Kept(R, i) \in R /\ ~(Kept(R, i) >= n - recent)
    BY <1>17, <1>19, <2>1
  <2>3. Kept(R, i) \in Nat
    BY <1>3, <2>2
  <2> QED
    BY <2>2, <2>3
<1>27. ASSUME given
       PROVE  /\ \A u \in gone, v \in a.tiers.cold \cup a.tiers.hot : scores[u] <= scores[v]
              /\ \A u \in a.tiers.cold, v \in a.tiers.hot : scores[u] <= scores[v]
  <2>1. ASSUME NEW u \in gone, NEW v \in a.tiers.cold \cup a.tiers.hot
        PROVE  scores[u] <= scores[v]
    <3>1. v \in Old(n, recent) \ gone
      BY <1>9, <1>26 DEF Old
    <3> QED
      BY <1>2, <3>1
  <2>2. ASSUME NEW u \in a.tiers.cold, NEW v \in a.tiers.hot
        PROVE  scores[u] <= scores[v]
    <3>1. PICK i \in Old(m, kept) \ H : u = Kept(R, i)
      BY <1>7
    <3>2. PICK j \in H : v = Kept(R, j)
      BY <1>7
    <3>3. moved[j] >= moved[i]
      BY <1>6
    <3>4. i \in 0..(m - 1) /\ j \in 0..(m - 1)
      BY <1>12, <1>21
    <3>5. moved[i] = scores[u] /\ moved[j] = scores[v]
      BY <1>11, <1>27, <3>1, <3>2, <3>4
    <3> QED
      BY <3>3, <3>5
  <2> QED
    BY <2>1, <2>2
<1>28. 100 * Cardinality(gone) <= 80 * n
  BY <1>2, PruneCountBounds
<1>29. a.pruned \cup a.tiers.cold \cup a.tiers.hot \cup a.tiers.recent = 0..(n - 1)
  BY <1>7, <1>9, <1>23, <1>24
<1>30. gone \cap R = {}
  BY <1>9
<1>31. a.tiers.cold \cap a.tiers.recent = {} /\ a.tiers.hot \cap a.tiers.recent = {}
  BY <1>3, <1>22, <1>26
<1> QED
  BY <1>7, <1>22, <1>23, <1>25, <1>27, <1>28, <1>29, <1>30, <1>31 DEF ByImportance

\* TokensByImportance: the answers of "tokens" are the ones StoredByImportance is about.
THEOREM TokensByImportanceAlways == AlgorithmsSpec => []TokensByImportance
<1>1. ASSUME AnswersInv  PROVE TokensByImportance
  <2> SUFFICES ASSUME NEW a \in Answer("tokens")
               PROVE  LET recent == {t \in 0..(input.n - 1) : t >= input.n - input.recent}
                          fates  == <<a.pruned, a.tiers.cold, a.tiers.hot, a.tiers.recent>>
                      IN  /\ a.tiers.recent = recent
                          /\ UNION Range(fates) = 0..(input.n - 1)
                          /\ \A i, j \in 1..4 : i # j => fates[i] \cap fates[j] = {}
                          /\ input.given =>
                               \A i, j \in 1..3 : i < j =>
                                 \A t \in fates[i], u \in fates[j] :
                                   input.scores[t] <= input.scores[u]
                          /\ 100 * Cardinality(a.pruned) <= 80 * input.n
    BY DEF TokensByImportance
  <2> DEFINE fates == <<a.pruned, a.tiers.cold, a.tiers.hot, a.tiers.recent>>
  <2>1. subject = "tokens" /\ a \in answer
    BY DEF Answer
  <2>2. input \in TokenRequests
    BY <1>1, <2>1 DEF AnswersInv, Inputs
  <2>3. a \in Stored(input.n, input.scores, input.given, input.recent, input.prune, input.hot)
    BY <1>1, <2>1 DEF AnswersInv, Answers
  <2>4. input.n \in Nat /\ input.recent \in Nat /\ input.prune \in Nat /\ input.given \in BOOLEAN
    BY <2>2, AlgorithmsAssumption DEF TokenRequests
  <2>5. /\ a.tiers.recent = {t \in 0..(input.n - 1) : t >= input.n - input.recent}
        /\ a.pruned \cup a.tiers.cold \cup a.tiers.hot \cup a.tiers.recent = 0..(input.n - 1)
        /\ a.pruned \cap a.tiers.cold = {} /\ a.pruned \cap a.tiers.hot = {}
        /\ a.pruned \cap a.tiers.recent = {} /\ a.tiers.cold \cap a.tiers.hot = {}
        /\ a.tiers.cold \cap a.tiers.recent = {} /\ a.tiers.hot \cap a.tiers.recent = {}
        /\ input.given =>
             /\ \A t \in a.pruned, u \in a.tiers.cold : input.scores[t] <= input.scores[u]
             /\ \A t \in a.pruned, u \in a.tiers.hot : input.scores[t] <= input.scores[u]
             /\ \A t \in a.tiers.cold, u \in a.tiers.hot : input.scores[t] <= input.scores[u]
        /\ 100 * Cardinality(a.pruned) <= 80 * input.n
    <3>1. ByImportance(a, input.n, input.scores, input.given, input.recent)
      BY <2>3, <2>4, StoredByImportance, Zenon
    <3> QED
      BY <3>1, Zenon DEF ByImportance
  <2>6. /\ fates[1] = a.pruned /\ fates[2] = a.tiers.cold /\ fates[3] = a.tiers.hot
        /\ fates[4] = a.tiers.recent /\ DOMAIN fates = 1..4
    OBVIOUS
  <2> HIDE DEF fates
  <2>7. UNION Range(fates) = 0..(input.n - 1)
    <3>1. UNION Range(fates) = fates[1] \cup fates[2] \cup fates[3] \cup fates[4]
      BY <2>6 DEF Range
    <3> QED
      BY <2>5, <2>6, <3>1
  <2>8. \A i, j \in 1..4 : i # j => fates[i] \cap fates[j] = {}
    BY <2>5, <2>6
  <2>9. input.given => \A i, j \in 1..3 : i < j =>
                          \A t \in fates[i], u \in fates[j] : input.scores[t] <= input.scores[u]
    BY <2>5, <2>6
  <2> QED
    BY <2>5, <2>7, <2>8, <2>9 DEF fates
<1> QED
  BY <1>1, AnswersInvariant, PTL

-------------------------------------------------------------------------------
(* Numbers *)

LEMMA PowersOfTwo ==
  /\ 2^0 = 1 /\ 2^1 = 2 /\ 2^2 = 4 /\ 2^3 = 8 /\ 2^4 = 16 /\ 2^5 = 32 /\ 2^6 = 64 /\ 2^7 = 128
  /\ 2^8 = 256 /\ 2^9 = 512 /\ 2^10 = 1024 /\ 2^11 = 2048 /\ 2^12 = 4096 /\ 2^13 = 8192
  /\ 2^14 = 16384 /\ 2^15 = 32768
OBVIOUS

LEMMA DivisionFacts ==
  ASSUME NEW n \in Int, NEW d \in Nat \ {0}
  PROVE  /\ n \div d \in Int /\ n % d \in 0..(d - 1) /\ n = d * (n \div d) + (n % d)
         /\ n >= 0 => n \div d \in Nat
BY Z3

\* A quotient is known by its remainder.
LEMMA DivisionUnique ==
  ASSUME NEW n \in Int, NEW d \in Nat \ {0}, NEW q \in Int, NEW r \in 0..(d - 1), n = d * q + r
  PROVE  n \div d = q /\ n % d = r
BY Z3

\* np.round is within half a unit, and never goes beyond a bound that is a whole number.
LEMMA RoundDivClose ==
  ASSUME NEW n \in Nat, NEW d \in Nat \ {0}
  PROVE  /\ RoundDiv(n, d) \in Nat
         /\ 2 * (d * RoundDiv(n, d)) - 2 * n <= d
         /\ 2 * n - 2 * (d * RoundDiv(n, d)) <= d
<1> DEFINE q == n \div d
           r == n % d
<1>1. q \in Nat /\ r \in 0..(d - 1) /\ n = d * q + r
  BY Z3
<1>2. RoundDiv(n, d) = IF 2 * r < d THEN q ELSE IF 2 * r > d THEN q + 1 ELSE q + (q % 2)
  BY DEF RoundDiv
<1> HIDE DEF q, r
<1>3. q % 2 \in {0, 1}
  BY <1>1
<1>4. d * (q + 1) = d * q + d /\ d * q \in Nat
  BY <1>1
<1>5. \/ RoundDiv(n, d) = q /\ 2 * r <= d
      \/ RoundDiv(n, d) = q + 1 /\ 2 * r >= d
  BY <1>1, <1>2, <1>3
<1> QED
  BY <1>1, <1>4, <1>5

LEMMA RoundDivAtMost ==
  ASSUME NEW n \in Nat, NEW d \in Nat \ {0}, NEW m \in Nat, n <= m * d
  PROVE  RoundDiv(n, d) <= m
<1>1. RoundDiv(n, d) \in Nat /\ 2 * (d * RoundDiv(n, d)) - 2 * n <= d
  BY RoundDivClose
<1>2. SUFFICES ASSUME RoundDiv(n, d) >= m + 1
               PROVE  FALSE
  BY <1>1
<1> DEFINE x == RoundDiv(n, d)
<1>3. d * x >= d * (m + 1)
  <2>1. x \in Int /\ x - (m + 1) \in Nat
    BY <1>1, <1>2
  <2> HIDE DEF x
  <2>2. d * (x - (m + 1)) \in Nat
    BY <2>1
  <2>3. d * (x - (m + 1)) = d * x - d * (m + 1)
    BY <2>1, Z3
  <2> QED
    BY <2>1, <2>2, <2>3
<1>4. d * (m + 1) = m * d + d /\ m * d \in Nat
  OBVIOUS
<1> QED
  BY <1>1, <1>3, <1>4

LEMMA MagnitudeFacts ==
  ASSUME NEW v \in Int
  PROVE  /\ Magnitude(v) \in Nat /\ Magnitude(-v) = Magnitude(v)
         /\ Magnitude(v) = 0 => v = 0
         /\ v = (IF v < 0 THEN -1 ELSE 1) * Magnitude(v)
BY DEF Magnitude

-------------------------------------------------------------------------------
(* Low-bit codes *)

Widths == {2, 3, 4}

LEMMA QmaxValues == Qmax(2) = 1 /\ Qmax(3) = 3 /\ Qmax(4) = 7
<1>1. 2 - 1 = 1 /\ 3 - 1 = 2 /\ 4 - 1 = 3
  OBVIOUS
<1> QED
  BY <1>1, PowersOfTwo DEF Qmax

\* The bits of two bytes, lowest first, and the number that eight of them make.
Bits == [0..15 -> 0..1]
ByteOf(c, from) ==
  c[from] + 2 * c[from + 1] + 4 * c[from + 2] + 8 * c[from + 3] + 16 * c[from + 4]
    + 32 * c[from + 5] + 64 * c[from + 6] + 128 * c[from + 7]

\* What unpack_signed_nbit has before it masks the code.
RawCode(x, y, off, width) ==
  (x \div 2^off) + (IF off + width > 8 THEN y * 2^(8 - off) ELSE 0)

LEMMA ReadAt ==
  ASSUME NEW c \in Bits, NEW off \in 0..7
  PROVE  /\ RawCode(ByteOf(c, 0), ByteOf(c, 8), off, 2) % 4 = c[off] + 2 * c[off + 1]
         /\ RawCode(ByteOf(c, 0), ByteOf(c, 8), off, 3) % 8
              = c[off] + 2 * c[off + 1] + 4 * c[off + 2]
         /\ RawCode(ByteOf(c, 0), ByteOf(c, 8), off, 4) % 16
              = c[off] + 2 * c[off + 1] + 4 * c[off + 2] + 8 * c[off + 3]
<1> DEFINE x == ByteOf(c, 0)
           y == ByteOf(c, 8)
<1>1. /\ c[0] \in 0..1 /\ c[1] \in 0..1 /\ c[2] \in 0..1 /\ c[3] \in 0..1
      /\ c[4] \in 0..1 /\ c[5] \in 0..1 /\ c[6] \in 0..1 /\ c[7] \in 0..1
      /\ c[8] \in 0..1 /\ c[9] \in 0..1 /\ c[10] \in 0..1 /\ c[11] \in 0..1
      /\ c[12] \in 0..1 /\ c[13] \in 0..1 /\ c[14] \in 0..1 /\ c[15] \in 0..1
  BY DEF Bits
<1>2. PICK a0 \in 0..1, a1 \in 0..1, a2 \in 0..1, a3 \in 0..1,
           a4 \in 0..1, a5 \in 0..1, a6 \in 0..1, a7 \in 0..1,
           b0 \in 0..1, b1 \in 0..1, b2 \in 0..1, b3 \in 0..1,
           b4 \in 0..1, b5 \in 0..1, b6 \in 0..1, b7 \in 0..1 :
        /\ c[0] = a0 /\ c[1] = a1 /\ c[2] = a2 /\ c[3] = a3
        /\ c[4] = a4 /\ c[5] = a5 /\ c[6] = a6 /\ c[7] = a7
        /\ c[8] = b0 /\ c[9] = b1 /\ c[10] = b2 /\ c[11] = b3
        /\ c[12] = b4 /\ c[13] = b5 /\ c[14] = b6 /\ c[15] = b7
  BY <1>1, Zenon
<1>3. /\ x = a0 + 2 * a1 + 4 * a2 + 8 * a3 + 16 * a4 + 32 * a5 + 64 * a6 + 128 * a7
      /\ y = b0 + 2 * b1 + 4 * b2 + 8 * b3 + 16 * b4 + 32 * b5 + 64 * b6 + 128 * b7
  <2>1. /\ 0 + 1 = 1 /\ 0 + 2 = 2 /\ 0 + 3 = 3 /\ 0 + 4 = 4 /\ 0 + 5 = 5 /\ 0 + 6 = 6 /\ 0 + 7 = 7
        /\ 8 + 1 = 9 /\ 8 + 2 = 10 /\ 8 + 3 = 11 /\ 8 + 4 = 12 /\ 8 + 5 = 13 /\ 8 + 6 = 14
        /\ 8 + 7 = 15
    OBVIOUS
  <2> QED
    BY <1>2, <2>1, Zenon DEF ByteOf
<1> HIDE DEF x, y
<1>4. x \in Int /\ y \in Int
  BY <1>3
<1>5. CASE off = 0
  <2>1. /\ RawCode(x, y, off, 2) = x
        /\ RawCode(x, y, off, 3) = x
        /\ RawCode(x, y, off, 4) = x
    BY <1>4, <1>5, PowersOfTwo DEF RawCode
  <2>2. off + 1 = 1 /\ off + 2 = 2 /\ off + 3 = 3
    BY <1>5
  <2>3. /\ x % 4 = a0 + 2 * a1
        /\ x % 8 = a0 + 2 * a1 + 4 * a2
        /\ x % 16 = a0 + 2 * a1 + 4 * a2 + 8 * a3
    BY <1>3, Z3
  <2> QED
    BY <1>5, <1>2, <2>1, <2>2, <2>3, Zenon DEF x, y
<1>6. CASE off = 1
  <2>1. /\ RawCode(x, y, off, 2) = x \div 2
        /\ RawCode(x, y, off, 3) = x \div 2
        /\ RawCode(x, y, off, 4) = x \div 2
    BY <1>4, <1>6, PowersOfTwo DEF RawCode
  <2>2. off + 1 = 2 /\ off + 2 = 3 /\ off + 3 = 4
    BY <1>6
  <2>3. /\ (x \div 2) % 4 = a1 + 2 * a2
        /\ (x \div 2) % 8 = a1 + 2 * a2 + 4 * a3
        /\ (x \div 2) % 16 = a1 + 2 * a2 + 4 * a3 + 8 * a4
    BY <1>3, Z3
  <2> QED
    BY <1>6, <1>2, <2>1, <2>2, <2>3, Zenon DEF x, y
<1>7. CASE off = 2
  <2>1. /\ RawCode(x, y, off, 2) = x \div 4
        /\ RawCode(x, y, off, 3) = x \div 4
        /\ RawCode(x, y, off, 4) = x \div 4
    BY <1>4, <1>7, PowersOfTwo DEF RawCode
  <2>2. off + 1 = 3 /\ off + 2 = 4 /\ off + 3 = 5
    BY <1>7
  <2>3. /\ (x \div 4) % 4 = a2 + 2 * a3
        /\ (x \div 4) % 8 = a2 + 2 * a3 + 4 * a4
        /\ (x \div 4) % 16 = a2 + 2 * a3 + 4 * a4 + 8 * a5
    BY <1>3, Z3
  <2> QED
    BY <1>7, <1>2, <2>1, <2>2, <2>3, Zenon DEF x, y
<1>8. CASE off = 3
  <2>1. /\ RawCode(x, y, off, 2) = x \div 8
        /\ RawCode(x, y, off, 3) = x \div 8
        /\ RawCode(x, y, off, 4) = x \div 8
    BY <1>4, <1>8, PowersOfTwo DEF RawCode
  <2>2. off + 1 = 4 /\ off + 2 = 5 /\ off + 3 = 6
    BY <1>8
  <2>3. /\ (x \div 8) % 4 = a3 + 2 * a4
        /\ (x \div 8) % 8 = a3 + 2 * a4 + 4 * a5
        /\ (x \div 8) % 16 = a3 + 2 * a4 + 4 * a5 + 8 * a6
    BY <1>3, Z3
  <2> QED
    BY <1>8, <1>2, <2>1, <2>2, <2>3, Zenon DEF x, y
<1>9. CASE off = 4
  <2>1. /\ RawCode(x, y, off, 2) = x \div 16
        /\ RawCode(x, y, off, 3) = x \div 16
        /\ RawCode(x, y, off, 4) = x \div 16
    BY <1>4, <1>9, PowersOfTwo DEF RawCode
  <2>2. off + 1 = 5 /\ off + 2 = 6 /\ off + 3 = 7
    BY <1>9
  <2>3. /\ (x \div 16) % 4 = a4 + 2 * a5
        /\ (x \div 16) % 8 = a4 + 2 * a5 + 4 * a6
        /\ (x \div 16) % 16 = a4 + 2 * a5 + 4 * a6 + 8 * a7
    BY <1>3, Z3
  <2> QED
    BY <1>9, <1>2, <2>1, <2>2, <2>3, Zenon DEF x, y
<1>10. CASE off = 5
  <2>1. /\ RawCode(x, y, off, 2) = x \div 32
        /\ RawCode(x, y, off, 3) = x \div 32
        /\ RawCode(x, y, off, 4) = (x \div 32) + 8 * y
    BY <1>4, <1>10, PowersOfTwo DEF RawCode
  <2>2. off + 1 = 6 /\ off + 2 = 7 /\ off + 3 = 8
    BY <1>10
  <2>3. /\ (x \div 32) % 4 = a5 + 2 * a6
        /\ (x \div 32) % 8 = a5 + 2 * a6 + 4 * a7
        /\ ((x \div 32) + 8 * y) % 16 = a5 + 2 * a6 + 4 * a7 + 8 * b0
    BY <1>3, Z3
  <2> QED
    BY <1>10, <1>2, <2>1, <2>2, <2>3, Zenon DEF x, y
<1>11. CASE off = 6
  <2>1. /\ RawCode(x, y, off, 2) = x \div 64
        /\ RawCode(x, y, off, 3) = (x \div 64) + 4 * y
        /\ RawCode(x, y, off, 4) = (x \div 64) + 4 * y
    BY <1>4, <1>11, PowersOfTwo DEF RawCode
  <2>2. off + 1 = 7 /\ off + 2 = 8 /\ off + 3 = 9
    BY <1>11
  <2>3. /\ (x \div 64) % 4 = a6 + 2 * a7
        /\ ((x \div 64) + 4 * y) % 8 = a6 + 2 * a7 + 4 * b0
        /\ ((x \div 64) + 4 * y) % 16 = a6 + 2 * a7 + 4 * b0 + 8 * b1
    BY <1>3, Z3
  <2> QED
    BY <1>11, <1>2, <2>1, <2>2, <2>3, Zenon DEF x, y
<1>12. CASE off = 7
  <2>1. /\ RawCode(x, y, off, 2) = (x \div 128) + 2 * y
        /\ RawCode(x, y, off, 3) = (x \div 128) + 2 * y
        /\ RawCode(x, y, off, 4) = (x \div 128) + 2 * y
    BY <1>4, <1>12, PowersOfTwo DEF RawCode
  <2>2. off + 1 = 8 /\ off + 2 = 9 /\ off + 3 = 10
    BY <1>12
  <2>3. /\ ((x \div 128) + 2 * y) % 4 = a7 + 2 * b0
        /\ ((x \div 128) + 2 * y) % 8 = a7 + 2 * b0 + 4 * b1
        /\ ((x \div 128) + 2 * y) % 16 = a7 + 2 * b0 + 4 * b1 + 8 * b2
    BY <1>3, Z3
  <2> QED
    BY <1>12, <1>2, <2>1, <2>2, <2>3, Zenon DEF x, y
<1> QED
  BY <1>5, <1>6, <1>7, <1>8, <1>9, <1>10, <1>11, <1>12

\* The bits of a code make it up.
LEMMA BitsMakeCode ==
  ASSUME NEW width \in Widths, NEW u \in 0..(2^width - 1)
  PROVE  /\ \A k \in 0..3 : Bit(u, k) \in {0, 1}
         /\ width = 2 => u = Bit(u, 0) + 2 * Bit(u, 1)
         /\ width = 3 => u = Bit(u, 0) + 2 * Bit(u, 1) + 4 * Bit(u, 2)
         /\ width = 4 => u = Bit(u, 0) + 2 * Bit(u, 1) + 4 * Bit(u, 2) + 8 * Bit(u, 3)
<1>1. /\ width = 2 => u \in 0..3
      /\ width = 3 => u \in 0..7
      /\ width = 4 => u \in 0..15
      /\ u \in 0..15
  <2>1. CASE width = 2
    BY <2>1, PowersOfTwo
  <2>2. CASE width = 3
    BY <2>2, PowersOfTwo
  <2>3. CASE width = 4
    BY <2>3, PowersOfTwo
  <2> QED
    BY <2>1, <2>2, <2>3 DEF Widths
<1>2. /\ Bit(u, 0) = u % 2 /\ Bit(u, 1) = (u \div 2) % 2
      /\ Bit(u, 2) = (u \div 4) % 2 /\ Bit(u, 3) = (u \div 8) % 2
  BY <1>1, PowersOfTwo DEF Bit
<1>3. \A k \in 0..3 : k = 0 \/ k = 1 \/ k = 2 \/ k = 3
  OBVIOUS
<1>4. \A k \in 0..3 : Bit(u, k) \in {0, 1}
  BY <1>1, <1>2, <1>3
<1>5. CASE width = 2
  <2>1. u \in 0..3
    BY <1>1, <1>5
  <2>2. u = (u % 2) + 2 * ((u \div 2) % 2)
    BY <2>1, Z3
  <2>3. u = Bit(u, 0) + 2 * Bit(u, 1)
    BY <1>2, <2>2
  <2> QED
    BY <1>1, <1>4, <1>5, <2>3
<1>6. CASE width = 3
  <2>1. u \in 0..7
    BY <1>1, <1>6
  <2>2. u = (u % 2) + 2 * ((u \div 2) % 2) + 4 * ((u \div 4) % 2)
    BY <2>1, Z3
  <2>3. u = Bit(u, 0) + 2 * Bit(u, 1) + 4 * Bit(u, 2)
    BY <1>2, <2>2
  <2> QED
    BY <1>1, <1>4, <1>6, <2>3
<1>7. CASE width = 4
  <2>1. u \in 0..15
    BY <1>1, <1>7
  <2>2. u = (u % 2) + 2 * ((u \div 2) % 2) + 4 * ((u \div 4) % 2) + 8 * ((u \div 8) % 2)
    BY <2>1, Z3
  <2>3. u = Bit(u, 0) + 2 * Bit(u, 1) + 4 * Bit(u, 2) + 8 * Bit(u, 3)
    BY <1>2, <2>2
  <2> QED
    BY <1>1, <1>4, <1>7, <2>3
<1> QED
  BY <1>4, <1>5, <1>6, <1>7 DEF Widths

CodeRange(width) == (-Qmax(width))..Qmax(width)

LEMMA CodeRanges ==
  ASSUME NEW width \in Widths
  PROVE  /\ width \in Nat \ {0} /\ Qmax(width) \in Nat
         /\ \A v \in CodeRange(width) : v + Qmax(width) \in 0..(2^width - 1)
<1>1. width = 2 \/ width = 3 \/ width = 4
  BY DEF Widths
<1>2. CASE width = 2
  BY <1>2, QmaxValues, PowersOfTwo DEF CodeRange
<1>3. CASE width = 3
  BY <1>3, QmaxValues, PowersOfTwo DEF CodeRange
<1>4. CASE width = 4
  BY <1>4, QmaxValues, PowersOfTwo DEF CodeRange
<1> QED
  BY <1>1, <1>2, <1>3, <1>4

\* The bits of code i are those from (i - 1) * width on.
LEMMA PackedBits ==
  ASSUME NEW width \in Widths, NEW values \in Seq(CodeRange(width))
  PROVE  /\ \A b \in Nat : PackedBit(values, width, b) \in 0..1
         /\ \A i \in 1..Len(values), j \in 0..(width - 1) :
              PackedBit(values, width, (i - 1) * width + j) = Bit(values[i] + Qmax(width), j)
<1>1. width \in Nat \ {0} /\ width <= 4 /\ Len(values) \in Nat
  BY DEF Widths
<1>2. \A i \in 1..Len(values) : values[i] + Qmax(width) \in 0..(2^width - 1)
  BY CodeRanges
<1>3. ASSUME NEW b \in Nat
      PROVE  PackedBit(values, width, b) \in 0..1
  <2> DEFINE i == b \div width
             k == b % width
  <2>1. i \in Nat /\ k \in 0..3
    <3>1. i \in Nat /\ k \in 0..(width - 1)
      BY <1>1, Z3
    <3> QED
      BY <1>1, <3>1
  <2>2. PackedBit(values, width, b)
          = IF i < Len(values) THEN Bit(values[i + 1] + Qmax(width), k) ELSE 0
    BY DEF PackedBit
  <2> HIDE DEF i, k
  <2>3. i < Len(values) => i + 1 \in 1..Len(values)
    BY <1>1, <2>1
  <2>4. i < Len(values) => Bit(values[i + 1] + Qmax(width), k) \in {0, 1}
    BY <1>2, <2>1, <2>3, BitsMakeCode
  <2> QED
    BY <2>2, <2>4
<1>4. ASSUME NEW i \in 1..Len(values), NEW j \in 0..(width - 1)
      PROVE  PackedBit(values, width, (i - 1) * width + j) = Bit(values[i] + Qmax(width), j)
  <2> DEFINE b == (i - 1) * width + j
  <2>1. b \in Int /\ b = width * (i - 1) + j /\ i - 1 \in Int
    BY <1>1
  <2> HIDE DEF b
  <2>2. b \div width = i - 1 /\ b % width = j
    BY <1>1, <2>1, DivisionUnique
  <2>3. (i - 1) + 1 = i /\ i - 1 < Len(values)
    BY <1>1
  <2>4. PackedBit(values, width, b) = Bit(values[i] + Qmax(width), j)
    BY <2>2, <2>3 DEF PackedBit
  <2> QED
    BY <2>4 DEF b
<1> QED
  BY <1>3, <1>4

LEMMA PackedBytes ==
  ASSUME NEW width \in Widths, NEW values \in Seq(CodeRange(width))
  PROVE  LET nb == CeilDiv(Len(values) * width, 8)
         IN  /\ nb \in Nat /\ 8 * nb >= Len(values) * width /\ Len(Pack(values, width)) = nb
             /\ \A n \in 1..nb : Pack(values, width)[n]
                  = ByteOf([k \in 0..15 |-> PackedBit(values, width, 8 * (n - 1) + k)], 0)
<1> DEFINE nb == CeilDiv(Len(values) * width, 8)
           bits == Len(values) * width
<1>1. bits \in Nat
  BY CodeRanges
<1>2. nb = (bits + 7) \div 8
  <2>1. nb = (bits + 8 - 1) \div 8
    BY DEF CeilDiv
  <2> HIDE DEF bits, nb
  <2> QED
    BY <1>1, <2>1
<1> HIDE DEF bits, nb
<1>3. nb \in Nat /\ 8 * nb >= bits
  BY <1>1, <1>2, Z3
<1>4. /\ Len(Pack(values, width)) = nb
      /\ \A n \in 1..nb : Pack(values, width)[n]
           = PackedBit(values, width, 8 * (n - 1) + 0)
             + 2 * PackedBit(values, width, 8 * (n - 1) + 1)
             + 4 * PackedBit(values, width, 8 * (n - 1) + 2)
             + 8 * PackedBit(values, width, 8 * (n - 1) + 3)
             + 16 * PackedBit(values, width, 8 * (n - 1) + 4)
             + 32 * PackedBit(values, width, 8 * (n - 1) + 5)
             + 64 * PackedBit(values, width, 8 * (n - 1) + 6)
             + 128 * PackedBit(values, width, 8 * (n - 1) + 7)
  BY <1>3 DEF Pack, nb
<1>5. ASSUME NEW n \in 1..nb
      PROVE  Pack(values, width)[n]
               = ByteOf([k \in 0..15 |-> PackedBit(values, width, 8 * (n - 1) + k)], 0)
  <2> DEFINE c == [k \in 0..15 |-> PackedBit(values, width, 8 * (n - 1) + k)]
  <2>1. \A k \in 0..15 : c[k] = PackedBit(values, width, 8 * (n - 1) + k)
    OBVIOUS
  <2>2. /\ 0 + 1 = 1 /\ 0 + 2 = 2 /\ 0 + 3 = 3 /\ 0 + 4 = 4 /\ 0 + 5 = 5 /\ 0 + 6 = 6 /\ 0 + 7 = 7
        /\ 0 \in 0..15 /\ 1 \in 0..15 /\ 2 \in 0..15 /\ 3 \in 0..15 /\ 4 \in 0..15 /\ 5 \in 0..15
        /\ 6 \in 0..15 /\ 7 \in 0..15
    OBVIOUS
  <2> HIDE DEF c
  <2>3. Pack(values, width)[n] = c[0] + 2 * c[1] + 4 * c[2] + 8 * c[3] + 16 * c[4]
                                   + 32 * c[5] + 64 * c[6] + 128 * c[7]
    BY <1>4, <2>1, <2>2, Zenon
  <2>4. ByteOf(c, 0) = c[0] + 2 * c[1] + 4 * c[2] + 8 * c[3] + 16 * c[4]
                         + 32 * c[5] + 64 * c[6] + 128 * c[7]
    BY <2>2, Zenon DEF ByteOf
  <2> QED
    BY <2>3, <2>4 DEF c
<1> QED
  BY <1>3, <1>4, <1>5 DEF nb, bits

\* Low-bit codes are read back exactly, however they fall on the bytes.
LEMMA CodesRoundTrip ==
  ASSUME NEW width \in Widths, NEW values \in Seq(CodeRange(width))
  PROVE  Unpack(Pack(values, width), Len(values), width) = values
<1> DEFINE bytes == Pack(values, width)
           nb == CeilDiv(Len(values) * width, 8)
           bit(b) == PackedBit(values, width, b)
<1>1. width \in Nat \ {0} /\ width <= 8 /\ Len(values) \in Nat /\ Qmax(width) \in Int
  BY CodeRanges DEF Widths
<1>2. /\ nb \in Nat /\ 8 * nb >= Len(values) * width /\ Len(bytes) = nb
      /\ \A n \in 1..nb : bytes[n] = ByteOf([k \in 0..15 |-> bit(8 * (n - 1) + k)], 0)
  BY PackedBytes
<1>3. ASSUME NEW i \in 1..Len(values)
      PROVE  LET at     == (i - 1) * width
                 byte   == at \div 8 + 1
                 offset == at % 8
                 raw    == bytes[byte] \div 2^offset
                           + (IF offset + width > 8 /\ byte < Len(bytes)
                              THEN bytes[byte + 1] * 2^(8 - offset) ELSE 0)
             IN  (raw % 2^width) - Qmax(width) = values[i]
  <2> DEFINE at == (i - 1) * width
             byte == at \div 8 + 1
             off == at % 8
             u == values[i] + Qmax(width)
             c == [k \in 0..15 |-> bit(8 * (byte - 1) + k)]
             raw == bytes[byte] \div 2^off
                    + (IF off + width > 8 /\ byte < Len(bytes)
                       THEN bytes[byte + 1] * 2^(8 - off) ELSE 0)
  <2>1. at \in Nat /\ at + width <= Len(values) * width
    <3> DEFINE rest == Len(values) - i
    <3>1. i - 1 \in Nat /\ rest \in Nat /\ Len(values) = (i - 1) + 1 + rest
      BY <1>1
    <3> HIDE DEF rest
    <3>2. rest * width \in Nat /\ (i - 1) * width \in Nat
      BY <1>1, <3>1
    <3>3. ((i - 1) + 1 + rest) * width = (i - 1) * width + width + rest * width
      BY <1>1, <3>1, Z3
    <3> QED
      BY <1>1, <3>1, <3>2, <3>3
  <2> HIDE DEF at
  <2>2. byte \in Nat \ {0} /\ off \in 0..7 /\ at = 8 * (byte - 1) + off
    BY <2>1, Z3
  <2> HIDE DEF byte, off, bytes, nb
  <2>3. byte \in 1..nb /\ (off + width > 8 => byte + 1 \in 1..nb)
    <3>1. 8 * (byte - 1) + off + width <= 8 * nb
      BY <1>1, <1>2, <2>1, <2>2
    <3> QED
      BY <1>1, <1>2, <2>2, <3>1
  <2>4. c \in Bits
    <3>1. \A k \in 0..15 : 8 * (byte - 1) + k \in Nat
      BY <2>2
    <3> QED
      BY <3>1, PackedBits DEF Bits
  <2>5. bytes[byte] = ByteOf(c, 0)
    BY <1>2, <2>3
  <2>6. off + width > 8 => bytes[byte + 1] = ByteOf(c, 8)
    <3> DEFINE d == [k \in 0..15 |-> bit(8 * (byte + 1 - 1) + k)]
    <3>1. off + width > 8 => bytes[byte + 1] = ByteOf(d, 0)
      BY <1>2, <2>3
    <3>2. \A k \in 0..7 : 8 * (byte + 1 - 1) + k = 8 * (byte - 1) + (8 + k)
      BY <2>2
    <3>3. \A k \in 0..7 : d[k] = c[8 + k]
      BY SMTT(30), <3>2
    <3> HIDE DEF c, d
    <3>4. /\ d[0] = c[8] /\ d[0 + 1] = c[8 + 1] /\ d[0 + 2] = c[8 + 2] /\ d[0 + 3] = c[8 + 3]
          /\ d[0 + 4] = c[8 + 4] /\ d[0 + 5] = c[8 + 5] /\ d[0 + 6] = c[8 + 6]
          /\ d[0 + 7] = c[8 + 7]
      BY <3>3
    <3>5. ByteOf(d, 0) = ByteOf(c, 8)
      BY <3>4, Zenon DEF ByteOf
    <3> QED
      BY <3>1, <3>5
  <2>7. raw = RawCode(ByteOf(c, 0), ByteOf(c, 8), off, width)
    <3>1. off + width > 8 => byte < Len(bytes)
      BY <1>2, <2>2, <2>3
    <3> HIDE DEF c
    <3>2. CASE off + width > 8
      BY <2>5, <2>6, <3>1, <3>2 DEF RawCode
    <3>3. CASE ~(off + width > 8)
      BY <2>5, <3>3 DEF RawCode
    <3> QED
      BY <3>2, <3>3
  <2>8. \A j \in 0..(width - 1) : c[off + j] = Bit(u, j)
    <3> SUFFICES ASSUME NEW j \in 0..(width - 1)
                 PROVE  c[off + j] = Bit(u, j)
      OBVIOUS
    <3>1. off + j \in 0..15 /\ 8 * (byte - 1) + (off + j) = at + j
      BY <1>1, <2>2 DEF Widths
    <3>2. c[off + j] = bit(at + j)
      BY <3>1
    <3>3. bit(at + j) = Bit(u, j)
      BY PackedBits DEF at
    <3> QED
      BY <3>2, <3>3
  <2>9. u \in 0..(2^width - 1)
    BY CodeRanges
  <2> HIDE DEF c, u, raw
  <2>10. raw % 2^width = u
    <3>1. CASE width = 2
      <4>1. raw % 4 = c[off] + 2 * c[off + 1]
        BY <2>2, <2>4, <2>7, <3>1, ReadAt
      <4>2. c[off] = Bit(u, 0) /\ c[off + 1] = Bit(u, 1)
        BY <2>2, <2>8, <3>1
      <4>3. u = Bit(u, 0) + 2 * Bit(u, 1)
        BY <2>9, <3>1, BitsMakeCode
      <4> QED
        BY <3>1, <4>1, <4>2, <4>3, PowersOfTwo
    <3>2. CASE width = 3
      <4>1. raw % 8 = c[off] + 2 * c[off + 1] + 4 * c[off + 2]
        BY <2>2, <2>4, <2>7, <3>2, ReadAt
      <4>2. c[off] = Bit(u, 0) /\ c[off + 1] = Bit(u, 1) /\ c[off + 2] = Bit(u, 2)
        BY <2>2, <2>8, <3>2
      <4>3. u = Bit(u, 0) + 2 * Bit(u, 1) + 4 * Bit(u, 2)
        BY <2>9, <3>2, BitsMakeCode
      <4> QED
        BY <3>2, <4>1, <4>2, <4>3, PowersOfTwo
    <3>3. CASE width = 4
      <4>1. raw % 16 = c[off] + 2 * c[off + 1] + 4 * c[off + 2] + 8 * c[off + 3]
        BY <2>2, <2>4, <2>7, <3>3, ReadAt
      <4>2. /\ c[off] = Bit(u, 0) /\ c[off + 1] = Bit(u, 1) /\ c[off + 2] = Bit(u, 2)
            /\ c[off + 3] = Bit(u, 3)
        BY <2>2, <2>8, <3>3
      <4>3. u = Bit(u, 0) + 2 * Bit(u, 1) + 4 * Bit(u, 2) + 8 * Bit(u, 3)
        BY <2>9, <3>3, BitsMakeCode
      <4> QED
        BY <3>3, <4>1, <4>2, <4>3, PowersOfTwo
    <3> QED
      BY <3>1, <3>2, <3>3 DEF Widths
  <2>11. u - Qmax(width) = values[i]
    <3>1. values[i] \in CodeRange(width)
      OBVIOUS
    <3>2. values[i] \in Int
      BY <1>1, <3>1 DEF CodeRange
    <3> QED
      BY <1>1, <3>2 DEF u
  <2> QED
    BY <2>10, <2>11 DEF raw, byte, off, at
<1>4. \A i \in 1..Len(values) : Unpack(bytes, Len(values), width)[i] = values[i]
  BY <1>3 DEF Unpack
<1>5. Unpack(bytes, Len(values), width)
        = [i \in 1..Len(values) |-> Unpack(bytes, Len(values), width)[i]]
  BY DEF Unpack
<1>6. values = [i \in 1..Len(values) |-> values[i]]
  OBVIOUS
<1> QED
  BY <1>4, <1>5, <1>6

-------------------------------------------------------------------------------
(* The float16 scales *)

\* Every set of natural numbers that is not empty has a least.
LEMMA LeastOf ==
  ASSUME NEW S, S \subseteq Nat, S # {}
  PROVE  \E m \in S : \A k \in Nat : k < m => k \notin S
<1>1. PICK m \in S : \A k \in S : ~(<<k, m>> \in OpToRel(<, Nat))
  BY NatLessThanWellFounded, WFMin
<1>2. m \in Nat /\ \A k \in Nat : k < m => <<k, m>> \in OpToRel(<, Nat)
  BY DEF OpToRel
<1> QED
  BY <1>1, <1>2

\* No step is above the last, and the others are at most half of it.
LEMMA HalfStepsGrow ==
  ASSUME NEW k \in DOMAIN HalfSteps
  PROVE  /\ HalfSteps[k] \in Nat \ {0}
         /\ k = Len(HalfSteps) \/ 2 * HalfSteps[k] <= LargestStep
<1> DEFINE n == Len(HalfSteps)
           Bad == {m \in 0..(n - 1) : ~(HalfSteps[n - m] <= HalfSteps[n])}
<1>1. /\ n \in Nat \ {0} /\ DOMAIN HalfSteps = 1..n
      /\ \A j \in 1..n : HalfSteps[j] \in Nat \ {0}
      /\ \A j \in 2..n : HalfSteps[j] = 2 * HalfSteps[j - 1]
  BY CodecAssumption
<1> HIDE DEF n
<1>2. Bad = {}
  <2>1. SUFFICES ASSUME Bad # {}
                 PROVE  FALSE
    OBVIOUS
  <2>2. Bad \subseteq Nat
    BY <1>1
  <2> HIDE DEF Bad
  <2>3. PICK m \in Bad : \A l \in Nat : l < m => l \notin Bad
    BY <2>1, <2>2, LeastOf
  <2> USE DEF Bad
  <2>4. m \in 0..(n - 1) /\ ~(HalfSteps[n - m] <= HalfSteps[n])
    OBVIOUS
  <2>5. m # 0
    BY <1>1, <2>4
  <2>6. m - 1 \in 0..(n - 1) /\ n - (m - 1) \in 2..n /\ n - (m - 1) - 1 = n - m /\ n - m \in 1..n
    BY <1>1, <2>4, <2>5
  <2>7. m - 1 \notin Bad
    <3> HIDE DEF Bad
    <3>1. m - 1 \in Nat /\ m - 1 < m
      BY <1>1, <2>4, <2>6
    <3> QED
      BY <2>3, <3>1
  <2>8. HalfSteps[n - (m - 1)] <= HalfSteps[n]
    BY <2>6, <2>7
  <2>9. HalfSteps[n - (m - 1)] = 2 * HalfSteps[n - m]
    BY <1>1, <2>6
  <2> DEFINE a == HalfSteps[n - m]
             b == HalfSteps[n]
  <2>10. a \in Nat /\ b \in Nat /\ 2 * a <= b /\ ~(a <= b)
    BY <1>1, <2>4, <2>6, <2>8, <2>9
  <2> HIDE DEF a, b
  <2> QED
    BY <2>10
<1>3. CASE k = n
  BY <1>1, <1>3 DEF n
<1>4. CASE k # n
  <2>1. k \in 1..n /\ k + 1 \in 2..n /\ k + 1 - 1 = k
    BY <1>1, <1>4
  <2>2. HalfSteps[k + 1] = 2 * HalfSteps[k]
    BY <1>1, <2>1
  <2>3. n - (k + 1) \in 0..(n - 1) /\ n - (n - (k + 1)) = k + 1
    <3> HIDE DEF Bad
    <3>1. n \in Nat /\ k \in Nat /\ k < n
      BY SMTT(30), <1>1, <1>4, <2>1
    <3>2. n - (k + 1) \in Nat /\ n - (k + 1) <= n - 1
      BY <3>1
    <3>3. n - (n - (k + 1)) = k + 1
      BY <3>1
    <3> QED
      BY <3>1, <3>2, <3>3
  <2>4. n - (k + 1) \notin Bad
    BY <1>2
  <2>5. HalfSteps[n - (n - (k + 1))] <= HalfSteps[n]
    BY <2>3, <2>4
  <2>6. HalfSteps[k + 1] <= HalfSteps[n]
    BY <2>3, <2>5
  <2> QED
    BY <1>1, <2>1, <2>2, <2>6 DEF LargestStep, n
<1> QED
  BY <1>3, <1>4

\* n / d lies in a binade, and HalfStep is the distance of the float16 in it.
LEMMA HalfStepOf ==
  ASSUME NEW n \in Nat, NEW d \in Nat \ {0}
  PROVE  /\ HalfStep(n, d) \in Nat \ {0}
         /\ HalfStep(n, d) = HalfSteps[1] \/ 1024 * (HalfStep(n, d) * d) <= n
         /\ \/ HalfStep(n, d) = LargestStep
            \/ n < 2048 * (HalfStep(n, d) * d) /\ 2 * HalfStep(n, d) <= LargestStep
<1> DEFINE size == Len(HalfSteps)
           Reaches(k) == k = size \/ n < 2048 * (HalfSteps[k] * d)
           Good == {k \in 1..size : Reaches(k)}
           At(k) == (k = 1 \/ n >= 2048 * (HalfSteps[k - 1] * d)) /\ Reaches(k)
           at == CHOOSE k \in 1..size : At(k)
<1>1. /\ size \in Nat \ {0} /\ DOMAIN HalfSteps = 1..size
      /\ \A j \in 1..size : HalfSteps[j] \in Nat \ {0}
      /\ \A j \in 2..size : HalfSteps[j] = 2 * HalfSteps[j - 1]
  BY CodecAssumption
<1>2. HalfStep(n, d) = HalfSteps[at]
  BY <1>1 DEF HalfStep
<1>3. LargestStep = HalfSteps[size]
  BY DEF LargestStep
<1> HIDE DEF size
<1>4. \E k \in 1..size : At(k)
  <2>1. size \in Good
    BY <1>1
  <2>2. Good \subseteq Nat
    BY <1>1
  <2> HIDE DEF Good
  <2>3. PICK k \in Good : \A l \in Nat : l < k => l \notin Good
    BY <2>1, <2>2, LeastOf
  <2> USE DEF Good
  <2>4. k \in 1..size /\ Reaches(k)
    OBVIOUS
  <2>5. CASE k = 1
    BY <2>4, <2>5
  <2>6. CASE k # 1
    <3>1. k - 1 \in 1..size /\ k - 1 \in Nat /\ k \in Nat /\ k - 1 < k
      BY <1>1, <2>4, <2>6
    <3>2. k - 1 \notin Good
      <4> HIDE DEF Good
      <4> QED
        BY <2>3, <3>1
    <3>3. ~(n < 2048 * (HalfSteps[k - 1] * d))
      BY <3>1, <3>2
    <3>4. HalfSteps[k - 1] * d \in Nat
      <4> DEFINE w == HalfSteps[k - 1]
      <4>1. w \in Nat
        BY <1>1, <3>1
      <4> HIDE DEF w
      <4>2. w * d \in Nat
        BY <4>1
      <4> QED
        BY <4>2 DEF w
    <3>5. n >= 2048 * (HalfSteps[k - 1] * d)
      BY <3>3, <3>4
    <3> QED
      BY <2>4, <3>5
  <2> QED
    BY <2>5, <2>6
<1> HIDE DEF At
<1>5. at \in 1..size /\ At(at)
  BY <1>4
<1> HIDE DEF at
<1> DEFINE u == HalfSteps[at]
<1>6. u \in Nat \ {0} /\ u * d \in Nat
  BY <1>1, <1>5
<1>7. at # 1 => 1024 * (u * d) <= n
  <2> SUFFICES ASSUME at # 1
               PROVE  1024 * (u * d) <= n
    OBVIOUS
  <2> DEFINE w == HalfSteps[at - 1]
  <2>1. at \in 2..size /\ at - 1 \in 1..size
    BY <1>1, <1>5
  <2>2. w \in Nat /\ u = 2 * w
    BY <1>1, <2>1
  <2>3. n >= 2048 * (w * d)
    BY <1>5 DEF At
  <2> HIDE DEF w, u
  <2>4. u * d = 2 * (w * d)
    BY <2>2, Z3
  <2>5. w * d \in Nat
    BY <2>2
  <2> QED
    BY <2>3, <2>4, <2>5
<1>8. at # size => n < 2048 * (u * d)
  BY <1>5 DEF At
<1>9. at # size => 2 * u <= LargestStep
  BY <1>1, <1>5, HalfStepsGrow DEF size
<1> QED
  BY <1>2, <1>3, <1>6, <1>7, <1>8, <1>9

\* Rounding stays below 2048 exactly below 2047 and a half, the half going to 2048.
LEMMA RoundDivBelow2048 ==
  ASSUME NEW n \in Nat, NEW d \in Nat \ {0}
  PROVE  RoundDiv(n, d) < 2048 <=> 2 * n < 4095 * d
<1> DEFINE q == n \div d
           r == n % d
<1>1. q \in Nat /\ r \in 0..(d - 1) /\ n = d * q + r
  BY Z3
<1>2. RoundDiv(n, d) = IF 2 * r < d THEN q ELSE IF 2 * r > d THEN q + 1 ELSE q + (q % 2)
  BY DEF RoundDiv
<1> HIDE DEF q, r
<1>3. q % 2 \in {0, 1}
  BY <1>1
<1>4. CASE q <= 2046
  <2>1. 2046 - q \in Nat /\ d * (2046 - q) \in Nat
    BY <1>1, <1>4
  <2>2. d * (2046 - q) = 2046 * d - d * q
    BY <1>1, Z3
  <2>3. d * q \in Nat
    BY <1>1
  <2>4. 2 * n < 4095 * d
    BY <1>1, <2>1, <2>2, <2>3
  <2>5. RoundDiv(n, d) < 2048
    BY <1>1, <1>2, <1>3, <1>4
  <2> QED
    BY <2>4, <2>5
<1>5. CASE q = 2047
  <2>1. n = 2047 * d + r /\ q % 2 = 1
    BY <1>1, <1>5
  <2> QED
    BY <1>1, <1>2, <1>5, <2>1
<1>6. CASE q >= 2048
  <2>1. q - 2048 \in Nat /\ d * (q - 2048) \in Nat
    BY <1>1, <1>6
  <2>2. d * (q - 2048) = d * q - 2048 * d
    BY <1>1, Z3
  <2>3. d * q \in Nat
    BY <1>1
  <2>4. ~(2 * n < 4095 * d)
    BY <1>1, <2>1, <2>2, <2>3
  <2>5. ~(RoundDiv(n, d) < 2048)
    BY <1>1, <1>2, <1>3, <1>6
  <2> QED
    BY <2>4, <2>5
<1> QED
  BY <1>1, <1>4, <1>5, <1>6

\* How far the scale that is stored may be from the one of the group.
ScaleSlack(scale, qmax) == Larger(HalfSteps[1] * qmax, scale \div 1024)

\* astype(float16) of a scale is within half the distance of two float16 numbers
\* there, and inf if it would be more than the largest of them.
LEMMA StoredScale ==
  ASSUME NEW scale \in Nat, NEW qmax \in Nat \ {0}
  PROVE  /\ Half(scale, qmax) \in Nat /\ ScaleSlack(scale, qmax) \in Nat
         /\ 2 * Magnitude(qmax * Half(scale, qmax) - scale) <= ScaleSlack(scale, qmax)
         /\ IsFinite(Half(scale, qmax)) <=> 2 * scale < 4095 * (LargestStep * qmax)
<1> DEFINE u == HalfStep(scale, qmax)
           D == u * qmax
           r == RoundDiv(scale, D)
           t == Half(scale, qmax)
           L == LargestStep
           e == ScaleSlack(scale, qmax)
           least == HalfSteps[1]
<1>1. /\ u \in Nat \ {0}
      /\ u = least \/ 1024 * D <= scale
      /\ u = L \/ (scale < 2048 * D /\ 2 * u <= L)
  BY HalfStepOf
<1>2. t = u * r
  BY DEF Half
<1>3. L \in Nat \ {0} /\ least \in Nat \ {0}
  BY CodecAssumption DEF LargestStep
<1>4. e = Larger(least * qmax, scale \div 1024)
  BY DEF ScaleSlack
<1> HIDE DEF u, t, L, e, least
<1>5. D \in Nat \ {0}
  <2>1. D \in Nat
    BY <1>1
  <2>2. D # 0
    BY <1>1, Z3
  <2> QED
    BY <2>1, <2>2
<1>6. D * r = qmax * t
  <2> HIDE DEF r
  <2>1. r \in Nat
    BY <1>5, RoundDivClose DEF r
  <2> QED
    BY <1>1, <1>2, <2>1, Z3
<1> HIDE DEF D
<1>7. /\ r \in Nat /\ 2 * (D * r) - 2 * scale <= D /\ 2 * scale - 2 * (D * r) <= D
  BY <1>5, RoundDivClose
<1> HIDE DEF r
<1>8. t \in Nat
  BY <1>1, <1>2, <1>7
<1>9. D <= e /\ e \in Nat
  <2>1. scale \div 1024 \in Nat /\ least * qmax \in Nat
    BY <1>3
  <2>2. CASE u = least
    BY <1>4, <1>5, <2>1, <2>2 DEF Larger, D
  <2>3. CASE 1024 * D <= scale
    <3>1. D <= scale \div 1024
      BY <1>5, <2>3
    <3> QED
      BY <1>4, <1>5, <2>1, <3>1 DEF Larger
  <2> QED
    BY <1>1, <2>2, <2>3
<1>10. 2 * Magnitude(qmax * t - scale) <= e
  <2> DEFINE p == qmax * t
  <2>1. p \in Nat /\ 2 * p - 2 * scale <= D /\ 2 * scale - 2 * p <= D
    BY <1>6, <1>7, <1>8
  <2> HIDE DEF p
  <2>2. 2 * Magnitude(p - scale) <= e
    BY <1>5, <1>9, <2>1 DEF Magnitude
  <2> QED
    BY <2>2 DEF p
<1>11. IsFinite(t) <=> t < 2048 * L
  BY DEF IsFinite, L
<1>12. CASE u = L
  <2>1. r < 2048 <=> 2 * scale < 4095 * D
    BY <1>5, RoundDivBelow2048 DEF r
  <2>2. D = L * qmax
    BY <1>12 DEF D
  <2>3. L * r < 2048 * L <=> r < 2048
    <3>1. CASE r < 2048
      <4>1. 2047 - r \in Nat /\ L * (2047 - r) \in Nat
        BY <1>3, <1>7, <3>1
      <4>2. L * (2047 - r) = 2047 * L - L * r
        BY <1>3, <1>7, Z3
      <4>3. L * r \in Nat
        BY <1>3, <1>7
      <4> QED
        BY <1>3, <3>1, <4>1, <4>2, <4>3
    <3>2. CASE r >= 2048
      <4>1. r - 2048 \in Nat /\ L * (r - 2048) \in Nat
        BY <1>3, <1>7, <3>2
      <4>2. L * (r - 2048) = L * r - 2048 * L
        BY <1>3, <1>7, Z3
      <4>3. L * r \in Nat
        BY <1>3, <1>7
      <4>4. ~(L * r < 2048 * L)
        BY <1>3, <4>1, <4>2, <4>3
      <4>5. ~(r < 2048)
        BY <1>7, <3>2
      <4> QED
        BY <4>4, <4>5
    <3> QED
      BY <1>7, <3>1, <3>2
  <2>4. IsFinite(t) <=> 2 * scale < 4095 * (L * qmax)
    BY <1>2, <1>11, <1>12, <2>1, <2>2, <2>3
  <2> QED
    BY <1>8, <1>9, <1>10, <2>4 DEF t, e, L
<1>13. CASE scale < 2048 * D /\ 2 * u <= L
  <2>1. r <= 2048
    BY <1>5, <1>13, RoundDivAtMost DEF r
  <2>2. t <= 2048 * u
    <3>1. 2048 - r \in Nat /\ u * (2048 - r) \in Nat
      BY <1>1, <1>7, <2>1
    <3>2. u * (2048 - r) = 2048 * u - u * r
      BY <1>1, <1>7, Z3
    <3> QED
      BY <1>1, <1>2, <1>8, <3>1, <3>2
  <2>3. t < 2048 * L
    BY <1>1, <1>3, <1>8, <1>13, <2>2
  <2>4. 2 * D <= L * qmax
    <3>1. L - 2 * u \in Nat /\ (L - 2 * u) * qmax \in Nat
      BY <1>1, <1>3, <1>13
    <3>2. (L - 2 * u) * qmax = L * qmax - 2 * (u * qmax)
      BY <1>1, <1>3, Z3
    <3>3. L * qmax \in Nat
      BY <1>3
    <3> QED
      BY <1>5, <3>1, <3>2, <3>3 DEF D
  <2>5. 2 * scale < 4095 * (L * qmax)
    <3>1. L * qmax \in Nat
      BY <1>3
    <3> QED
      BY <1>5, <1>13, <2>4, <3>1
  <2> QED
    BY <1>8, <1>9, <1>10, <1>11, <2>3, <2>5 DEF t, e, L
<1> QED
  BY <1>1, <1>12, <1>13

\* A code times the stored scale: the step of the quantization, and the one of
\* the scale as often as the code says.
LEMMA NumberDecoded ==
  ASSUME NEW qmax \in Nat \ {0}, NEW c \in (-qmax)..qmax, NEW v \in Int, NEW t \in Nat,
         NEW scale \in Nat, NEW e \in Nat, 2 * Magnitude(qmax * t - scale) <= e,
         2 * Magnitude(c * scale - v * qmax) <= scale
  PROVE  2 * (qmax * Magnitude(c * t - v)) <= scale + qmax * e
<1> DEFINE x == qmax * t - scale
           y == c * scale - v * qmax
           z == c * t - v
<1>1. x \in Int /\ y \in Int /\ z \in Int /\ c \in Int
  OBVIOUS
<1>2. qmax * z = c * x + y
  <2>1. qmax * (c * t - v) = c * (qmax * t - scale) + (c * scale - v * qmax)
    BY <1>1, Z3
  <2> QED
    BY <2>1
<1>3. 2 * Magnitude(x) <= e /\ 2 * Magnitude(y) <= scale
  OBVIOUS
<1> HIDE DEF x, y, z
<1> DEFINE m == Magnitude(x)
           k == Magnitude(c)
<1>4. m \in Nat /\ k \in 0..qmax
  BY <1>1 DEF Magnitude
<1>5. c * x = k * m \/ c * x = -(k * m)
  <2>1. (c = k \/ c = -k) /\ (x = m \/ x = -m)
    BY <1>1 DEF Magnitude
  <2> HIDE DEF m, k
  <2> QED
    BY <1>4, <2>1, Z3
<1>6. 2 * m <= e
  BY <1>3
<1> HIDE DEF m, k
<1>7. k * m \in Nat /\ 2 * (k * m) <= qmax * e
  <2>1. k * m \in Nat /\ qmax * e \in Nat
    BY <1>4
  <2>2. e - 2 * m \in Nat /\ qmax - k \in Nat
    BY <1>4, <1>6
  <2>3. qmax * (e - 2 * m) \in Nat /\ (qmax - k) * m \in Nat
    BY <1>4, <2>2
  <2>4. qmax * (e - 2 * m) = qmax * e - 2 * (qmax * m)
    BY <1>4, Z3
  <2>5. (qmax - k) * m = qmax * m - k * m
    BY <1>4, Z3
  <2>6. qmax * m \in Nat
    BY <1>4
  <2> QED
    BY <2>1, <2>3, <2>4, <2>5, <2>6
<1>8. 2 * Magnitude(c * x + y) <= scale + qmax * e
  <2> DEFINE w == k * m
             b == qmax * e
             p == c * x
  <2>1. w \in Nat /\ b \in Nat /\ 2 * w <= b /\ (p = w \/ p = -w)
    BY <1>5, <1>7
  <2> HIDE DEF w, b, p
  <2>2. 2 * Magnitude(p + y) <= scale + b
    BY <1>1, <1>3, <2>1 DEF Magnitude
  <2> QED
    BY <2>2 DEF p, b
<1>9. Magnitude(qmax * z) = qmax * Magnitude(z)
  <2>1. CASE z < 0
    <3>1. -z \in Nat \ {0} /\ qmax * (-z) = -(qmax * z) /\ qmax * (-z) \in Nat
      BY <1>1, <2>1, Z3
    <3>2. qmax * (-z) # 0
      BY <1>1, <2>1, Z3
    <3>3. qmax * z \in Int
      BY <1>1
    <3> QED
      BY <1>1, <2>1, <3>1, <3>2, <3>3 DEF Magnitude
  <2>2. CASE ~(z < 0)
    <3>1. qmax * z \in Nat
      BY <1>1, <2>2
    <3> QED
      BY <2>2, <3>1 DEF Magnitude
  <2> QED
    BY <2>1, <2>2
<1> QED
  BY <1>2, <1>8, <1>9 DEF z

-------------------------------------------------------------------------------
(* Rows of numbers *)

\* Among finitely many numbers there is a largest.
LEMMA LargestOf ==
  ASSUME NEW g \in Nat \ {0}, NEW f \in [1..g -> Nat]
  PROVE  \E x \in 1..g : \A y \in 1..g : f[x] >= f[y]
<1> DEFINE Peak(h) == \E x \in 1..h : \A y \in 1..h : f[x] >= f[y]
           Bad == {h \in 1..g : ~Peak(h)}
<1>1. SUFFICES ASSUME Bad # {}
               PROVE  FALSE
  <2>1. g \in 1..g
    OBVIOUS
  <2> HIDE DEF Peak
  <2>2. Bad = {} => Peak(g)
    BY <2>1
  <2> QED
    BY <2>2 DEF Peak
<1>2. Bad \subseteq Nat
  OBVIOUS
<1>3. PICK h \in Bad : \A k \in Bad : ~(<<k, h>> \in OpToRel(<, Nat))
  BY <1>1, <1>2, NatLessThanWellFounded, WFMin
<1>4. h \in 1..g /\ ~Peak(h)
  OBVIOUS
<1>5. h # 1
  <2>1. ASSUME h = 1  PROVE Peak(h)
    BY <2>1, <1>4
  <2> QED
    BY <1>4, <2>1
<1>6. h - 1 \in 1..g
  BY <1>4, <1>5
<1>7. Peak(h - 1)
  <2>1. h - 1 \in Bad => <<h - 1, h>> \in OpToRel(<, Nat)
    BY <1>4, <1>6 DEF OpToRel
  <2> QED
    BY <1>3, <1>6, <2>1
<1>8. PICK x \in 1..(h - 1) : \A y \in 1..(h - 1) : f[x] >= f[y]
  BY <1>7
<1>9. /\ \A y \in 1..h : y \in 1..(h - 1) \/ y = h
      /\ x \in 1..h /\ h \in 1..h /\ f[x] \in Nat /\ f[h] \in Nat
      /\ \A y \in 1..h : f[y] \in Nat
  BY <1>4, <1>6
<1>10. CASE f[x] >= f[h]
  <2>1. \A y \in 1..h : f[x] >= f[y]
    BY <1>8, <1>9, <1>10
  <2> QED
    BY <1>4, <1>9, <2>1
<1>11. CASE ~(f[x] >= f[h])
  <2>1. \A y \in 1..h : f[h] >= f[y]
    BY <1>8, <1>9, <1>11
  <2> QED
    BY <1>4, <1>9, <2>1
<1> QED
  BY <1>10, <1>11

LEMMA QmaxPositive == \A width \in Widths : Qmax(width) \in Nat \ {0}
BY QmaxValues DEF Widths

\* Number i of a padded row belongs to a group of the row, whose scale bounds it.
LEMMA GroupScaleBounds ==
  ASSUME NEW group \in Nat \ {0}, NEW c \in Nat, NEW padded \in [1..(group * c) -> Int],
         NEW i \in 1..(group * c), NEW width \in Widths
  PROVE  /\ GroupScale(padded, group, width, i) \in Nat \ {0}
         /\ Magnitude(padded[i]) <= GroupScale(padded, group, width, i)
<1> DEFINE q == (i - 1) \div group
           first == q * group
           k == ((i - 1) % group) + 1
           S == {Magnitude(padded[first + j]) : j \in 1..group}
<1>1. group * c \in Nat /\ i - 1 \in Nat /\ i - 1 < group * c
  <2>1. group * c \in Nat
    OBVIOUS
  <2> QED
    BY <2>1
<1>2. q \in Nat /\ k \in 1..group /\ i - 1 = group * q + (k - 1)
  <2>1. /\ (i - 1) \div group \in Nat /\ (i - 1) % group \in 0..(group - 1)
        /\ i - 1 = group * ((i - 1) \div group) + ((i - 1) % group)
    BY <1>1, Z3
  <2> QED
    BY <2>1
<1> HIDE DEF q, k
<1>3. first = group * q /\ first \in Nat
  BY <1>2
<1>4. q < c
  <2>1. ASSUME q >= c  PROVE FALSE
    <3>1. q - c \in Nat /\ group * (q - c) \in Nat
      BY <1>2, <2>1
    <3>2. group * (q - c) = group * q - group * c
      BY <1>2, Z3
    <3>3. group * q \in Nat
      BY <1>2
    <3> QED
      BY <1>1, <1>2, <3>1, <3>2, <3>3
  <2> QED
    BY <1>2, <2>1
<1>5. first + group <= group * c
  <2>1. c - q - 1 \in Nat /\ group * (c - q - 1) \in Nat
    BY <1>2, <1>4
  <2>2. group * (c - q - 1) = group * c - group * q - group
    BY <1>2, Z3
  <2> QED
    BY <1>1, <1>3, <2>1, <2>2
<1> HIDE DEF first
<1>6. \A j \in 1..group : first + j \in 1..(group * c)
  BY <1>1, <1>3, <1>5
<1>7. first + k = i
  BY <1>2, <1>3
<1>8. \A j \in 1..group : Magnitude(padded[first + j]) \in Nat
  BY <1>6, MagnitudeFacts
<1>9. \E x \in S : \A y \in S : x >= y
  <2> DEFINE f == [j \in 1..group |-> Magnitude(padded[first + j])]
  <2>1. f \in [1..group -> Nat]
    BY <1>8
  <2>2. S = {f[j] : j \in 1..group}
    OBVIOUS
  <2> HIDE DEF f, S
  <2>3. \E x \in 1..group : \A y \in 1..group : f[x] >= f[y]
    BY <2>1, LargestOf
  <2> QED
    BY <2>2, <2>3
<1>10. GroupScale(padded, group, width, i) = Larger(Max(S), ScaleFloor * Qmax(width))
  BY DEF GroupScale, first, q
<1>11. Max(S) \in S /\ \A y \in S : Max(S) >= y
  <2> HIDE DEF S
  <2> QED
    BY <1>9 DEF Max
<1>12. Magnitude(padded[i]) \in S
  BY <1>2, <1>7
<1>13. S \subseteq Nat
  BY <1>8
<1>14. ScaleFloor * Qmax(width) \in Nat \ {0}
  BY CodecAssumption, QmaxPositive, Z3
<1> DEFINE m == Max(S)
           floor == ScaleFloor * Qmax(width)
           v == Magnitude(padded[i])
<1> HIDE DEF S
<1>15. m \in Nat /\ floor \in Nat \ {0} /\ v \in Nat /\ v <= m
  BY <1>11, <1>12, <1>13, <1>14
<1>16. GroupScale(padded, group, width, i) = Larger(m, floor)
  BY <1>10
<1> HIDE DEF m, floor, v
<1>17. Larger(m, floor) \in Nat \ {0} /\ v <= Larger(m, floor)
  BY <1>15 DEF Larger
<1> QED
  BY <1>16, <1>17 DEF v

LEMMA PaddedRow ==
  ASSUME NEW row \in Seq(Int), NEW group \in Nat \ {0}
  PROVE  LET c == CeilDiv(Len(row), group)
         IN  /\ c \in Nat /\ group * c \in Nat /\ Len(row) \in Nat /\ Len(row) <= group * c
             /\ Padded(row, group) \in [1..(group * c) -> Int]
             /\ Len(Padded(row, group)) = group * c
             /\ \A i \in 1..Len(row) : Padded(row, group)[i] = row[i]
<1> DEFINE n == Len(row)
           c == CeilDiv(n, group)
<1>1. n \in Nat
  OBVIOUS
<1> HIDE DEF n
<1>2. c \in Nat /\ n <= group * c
  <2> DEFINE m == n + group - 1
             q == m \div group
             r == m % group
  <2>1. m \in Nat
    BY <1>1
  <2> HIDE DEF m
  <2>2. q \in Nat /\ r \in 0..(group - 1) /\ m = group * q + r
    BY <2>1, Z3
  <2>3. c = q
    BY DEF CeilDiv, m
  <2> HIDE DEF q, r, c
  <2>4. group * q \in Nat
    BY <2>2
  <2> QED
    BY <1>1, <2>1, <2>2, <2>3, <2>4 DEF m
<1> HIDE DEF c
<1>3. group * c \in Nat
  BY <1>2
<1> DEFINE size == group * c
<1>4. Padded(row, group) = [i \in 1..size |-> IF i <= n THEN row[i] ELSE 0]
  BY DEF Padded, n, c
<1> HIDE DEF size
<1>5. \A i \in 1..n : row[i] \in Int
  BY DEF n
<1>6. size \in Nat /\ n <= size
  BY <1>2, <1>3 DEF size
<1>7. Padded(row, group) \in [1..size -> Int] /\ Len(Padded(row, group)) = size
  BY <1>1, <1>4, <1>5, <1>6
<1>8. \A i \in 1..n : Padded(row, group)[i] = row[i]
  BY <1>1, <1>4, <1>6
<1> QED
  BY <1>1, <1>2, <1>6, <1>7, <1>8 DEF n, c, size

\* The code of a number is within half a step of its group's scale.
LEMMA NumberQuantized ==
  ASSUME NEW v \in Int, NEW scale \in Nat \ {0}, Magnitude(v) <= scale, NEW qmax \in Nat, NEW q,
         q = Clipped((IF v < 0 THEN -1 ELSE 1) * RoundDiv(Magnitude(v) * qmax, scale), qmax)
  PROVE  q \in (-qmax)..qmax /\ 2 * Magnitude(q * scale - v * qmax) <= scale
<1> DEFINE n == Magnitude(v) * qmax
           r == RoundDiv(n, scale)
<1>1. Magnitude(v) \in Nat
  BY MagnitudeFacts
<1>2. n \in Nat /\ n <= qmax * scale
  <2>1. scale - Magnitude(v) \in Nat
    BY <1>1
  <2>2. (scale - Magnitude(v)) * qmax \in Nat /\ n \in Nat
    BY <1>1, <2>1
  <2>3. (scale - Magnitude(v)) * qmax = qmax * scale - n
    BY <1>1, Z3
  <2>4. qmax * scale \in Nat
    OBVIOUS
  <2> HIDE DEF n
  <2> QED
    BY <2>2, <2>3, <2>4
<1> HIDE DEF n
<1>3. /\ r \in Nat /\ r <= qmax
      /\ 2 * (scale * r) - 2 * n <= scale /\ 2 * n - 2 * (scale * r) <= scale
  BY <1>2, RoundDivClose, RoundDivAtMost
<1>4. q = Clipped((IF v < 0 THEN -1 ELSE 1) * r, qmax)
  BY DEF n, r
<1> HIDE DEF r
<1>5. CASE v < 0
  <2>1. q = -r
    BY <1>3, <1>4, <1>5 DEF Clipped, Larger, Smaller
  <2>2. v = -Magnitude(v)
    BY <1>5 DEF Magnitude
  <2>3. q * scale = -(scale * r)
    BY <1>3, <2>1
  <2>4. v * qmax = -n
    BY <1>1, <2>2 DEF n
  <2>5. scale * r \in Nat
    BY <1>3
  <2>6. 2 * Magnitude(n - scale * r) <= scale
    BY <1>2, <1>3, <2>5 DEF Magnitude
  <2>7. q * scale - v * qmax = n - scale * r
    BY <1>2, <2>3, <2>4, <2>5
  <2> QED
    BY <1>3, <2>1, <2>6, <2>7
<1>6. CASE ~(v < 0)
  <2>1. q = r
    BY <1>3, <1>4, <1>6 DEF Clipped, Larger, Smaller
  <2>2. v * qmax = n
    BY <1>6 DEF n, Magnitude
  <2>3. scale * r \in Nat
    BY <1>3
  <2>4. q * scale = scale * r
    BY <1>3, <2>1
  <2>5. 2 * Magnitude(scale * r - n) <= scale
    BY <1>2, <1>3, <2>3 DEF Magnitude
  <2> QED
    BY <1>3, <2>1, <2>2, <2>4, <2>5
<1> QED
  BY <1>5, <1>6

\* What comes back of v: the number within its bound, or nothing of it.
Decoded(back, v, scale, qmax) ==
  /\ back.finite <=> 2 * scale < 4095 * (LargestStep * qmax)
  /\ back.finite =>
       2 * (qmax * Magnitude(back.value - v)) <= scale + qmax * ScaleSlack(scale, qmax)

LEMMA RowRestored ==
  ASSUME NEW row \in Seq(Int), NEW group \in Nat \ {0}, NEW width \in Widths
  PROVE  /\ DOMAIN Restored(row, group, width) = DOMAIN row
         /\ \A i \in DOMAIN row :
              LET scale == GroupScale(Padded(row, group), group, width, i)
              IN  Decoded(Restored(row, group, width)[i], row[i], scale, Qmax(width))
<1> DEFINE padded == Padded(row, group)
           codes == Quantized(row, group, width)
           c == CeilDiv(Len(row), group)
           size == group * c
           qmax == Qmax(width)
           Scale(i) == GroupScale(padded, group, width, i)
           Q(i) == Clipped((IF padded[i] < 0 THEN -1 ELSE 1)
                             * RoundDiv(Magnitude(padded[i]) * qmax, Scale(i)), qmax)
           Back(t, code) == IF IsFinite(t) THEN [finite |-> TRUE, value |-> code * t]
                            ELSE [finite |-> FALSE, value |-> 0]
<1>1. /\ c \in Nat /\ size \in Nat /\ Len(row) \in Nat /\ Len(row) <= size
      /\ padded \in [1..size -> Int] /\ Len(padded) = size
      /\ \A i \in 1..Len(row) : padded[i] = row[i]
  BY PaddedRow
<1>2. qmax \in Nat \ {0}
  BY QmaxPositive
<1>3. codes = [i \in 1..size |-> Q(i)]
  <2>1. DOMAIN padded = 1..size
    BY <1>1
  <2>2. codes = [i \in DOMAIN padded |-> Q(i)]
    BY DEF Quantized
  <2> QED
    BY <2>1, <2>2
<1> HIDE DEF padded, codes, c, size, qmax
<1>4. ASSUME NEW i \in 1..size
      PROVE  /\ Scale(i) \in Nat \ {0} /\ codes[i] \in (-qmax)..qmax
             /\ 2 * Magnitude(codes[i] * Scale(i) - padded[i] * qmax) <= Scale(i)
  <2> DEFINE scale == Scale(i)
             v == padded[i]
             q == codes[i]
  <2>1. scale \in Nat \ {0} /\ Magnitude(v) <= scale
    BY <1>1, GroupScaleBounds DEF size
  <2>2. v \in Int
    BY <1>1
  <2>3. q = Q(i)
    BY <1>3
  <2> HIDE DEF scale, v
  <2>4. q = Clipped((IF v < 0 THEN -1 ELSE 1) * RoundDiv(Magnitude(v) * qmax, scale), qmax)
    BY <2>3 DEF scale, v
  <2>5. q \in (-qmax)..qmax /\ 2 * Magnitude(q * scale - v * qmax) <= scale
    <3> HIDE DEF q
    <3> QED
      BY <1>2, <2>1, <2>2, <2>4, NumberQuantized
  <2> QED
    BY <2>1, <2>5 DEF scale, v
<1>5. codes \in Seq(CodeRange(width)) /\ Len(codes) = size
  <2>1. codes = [i \in 1..size |-> codes[i]]
    BY <1>3
  <2>2. \A i \in 1..size : codes[i] \in CodeRange(width)
    BY <1>4 DEF CodeRange, qmax
  <2> DEFINE R == CodeRange(width)
  <2>3. codes \in [1..size -> R]
    BY <2>1, <2>2
  <2> HIDE DEF R
  <2>4. codes \in Seq(R) /\ Len(codes) = size
    BY <1>1, <2>3
  <2> QED
    BY <2>4 DEF R
<1>6. Unpack(Pack(codes, width), size, width) = codes
  BY <1>5, CodesRoundTrip
<1> HIDE DEF Scale
<1>7. Restored(row, group, width)
        = [i \in DOMAIN row |->
             Back(Half(Scale(i), qmax), Unpack(Pack(codes, width), Len(padded), width)[i])]
  BY DEF Restored, codes, padded, qmax, Scale
<1>8. Restored(row, group, width)
        = [i \in DOMAIN row |-> Back(Half(Scale(i), qmax), codes[i])]
  BY <1>1, <1>6, <1>7
<1> HIDE DEF Back
<1>9. ASSUME NEW i \in DOMAIN row
      PROVE  Decoded(Restored(row, group, width)[i], row[i], Scale(i), qmax)
  <2> DEFINE scale == Scale(i)
             v == row[i]
             q == codes[i]
             t == Half(scale, qmax)
             slack == ScaleSlack(scale, qmax)
  <2>1. i \in 1..size /\ padded[i] = v /\ v \in Int
    <3>1. i \in 1..Len(row) /\ v \in Int
      OBVIOUS
    <3> HIDE DEF v
    <3>2. padded[i] = v
      BY <1>1, <3>1 DEF v
    <3> QED
      BY <1>1, <3>1, <3>2
  <2>2. /\ scale \in Nat \ {0} /\ q \in (-qmax)..qmax
        /\ 2 * Magnitude(q * scale - v * qmax) <= scale
    BY <1>4, <2>1
  <2>3. Restored(row, group, width)[i] = Back(t, q)
    BY <1>8
  <2> HIDE DEF scale, v, q
  <2>4. /\ t \in Nat /\ slack \in Nat
        /\ 2 * Magnitude(qmax * t - scale) <= slack
        /\ IsFinite(t) <=> 2 * scale < 4095 * (LargestStep * qmax)
    BY <1>2, <2>2, StoredScale
  <2> HIDE DEF t, slack
  <2>5. 2 * (qmax * Magnitude(q * t - v)) <= scale + qmax * slack
    <3>1. scale \in Nat /\ q \in (-qmax)..qmax
      BY <2>2
    <3>2. 2 * Magnitude(q * scale - v * qmax) <= scale
      BY <2>2
    <3>3. t \in Nat /\ slack \in Nat /\ 2 * Magnitude(qmax * t - scale) <= slack
      BY <2>4
    <3> QED
      BY <1>2, <2>1, <3>1, <3>2, <3>3, NumberDecoded
  <2>6. Back(t, q).finite <=> IsFinite(t)
    BY DEF Back
  <2>7. IsFinite(t) => Back(t, q).value = q * t
    BY DEF Back
  <2>8. Decoded(Back(t, q), v, scale, qmax)
    <3>1. CASE IsFinite(t)
      BY <2>4, <2>5, <2>6, <2>7, <3>1 DEF Decoded, slack
    <3>2. CASE ~IsFinite(t)
      BY <2>4, <2>6, <3>2 DEF Decoded
    <3> QED
      BY <3>1, <3>2
  <2> QED
    BY <2>3, <2>8 DEF scale, v
<1> QED
  BY <1>8, <1>9 DEF padded, qmax, Scale

-------------------------------------------------------------------------------
(* FP8 *)

\* P is the power of two below exponent e.
PowerBelow(e, P) ==
  /\ P = 2^(e - 1) /\ P \in Nat \ {0} /\ 2^e = 2 * P
  /\ e = 15 => P = 16384

LEMMA ExponentPowers ==
  ASSUME NEW e \in 1..15
  PROVE  PowerBelow(e, 2^(e - 1))
<1>1. \/ e = 1 \/ e = 2 \/ e = 3 \/ e = 4 \/ e = 5 \/ e = 6 \/ e = 7 \/ e = 8
      \/ e = 9 \/ e = 10 \/ e = 11 \/ e = 12 \/ e = 13 \/ e = 14 \/ e = 15
  OBVIOUS
<1>2. CASE e = 1
  BY <1>2, PowersOfTwo DEF PowerBelow
<1>3. CASE e = 2
  BY <1>3, PowersOfTwo DEF PowerBelow
<1>4. CASE e = 3
  BY <1>4, PowersOfTwo DEF PowerBelow
<1>5. CASE e = 4
  BY <1>5, PowersOfTwo DEF PowerBelow
<1>6. CASE e = 5
  BY <1>6, PowersOfTwo DEF PowerBelow
<1>7. CASE e = 6
  BY <1>7, PowersOfTwo DEF PowerBelow
<1>8. CASE e = 7
  BY <1>8, PowersOfTwo DEF PowerBelow
<1>9. CASE e = 8
  BY <1>9, PowersOfTwo DEF PowerBelow
<1>10. CASE e = 9
  BY <1>10, PowersOfTwo DEF PowerBelow
<1>11. CASE e = 10
  BY <1>11, PowersOfTwo DEF PowerBelow
<1>12. CASE e = 11
  BY <1>12, PowersOfTwo DEF PowerBelow
<1>13. CASE e = 12
  BY <1>13, PowersOfTwo DEF PowerBelow
<1>14. CASE e = 13
  BY <1>14, PowersOfTwo DEF PowerBelow
<1>15. CASE e = 14
  BY <1>15, PowersOfTwo DEF PowerBelow
<1>16. CASE e = 15
  BY <1>16, PowersOfTwo DEF PowerBelow
<1> QED
  BY <1>1, <1>2, <1>3, <1>4, <1>5, <1>6, <1>7, <1>8, <1>9, <1>10, <1>11, <1>12, <1>13, <1>14,
     <1>15, <1>16

\* A normal magnitude lies between two powers of two, and Exponent finds them.
LEMMA ExponentOf ==
  ASSUME NEW v \in Nat, v >= 16
  PROVE  /\ Exponent(v) \in 1..15 /\ v >= 16 * 2^(Exponent(v) - 1)
         /\ Exponent(v) = 15 \/ v < 32 * 2^(Exponent(v) - 1)
<1> DEFINE In(e) == v >= NormalMin * 2^(e - 1) /\ (e = 15 \/ v < NormalMin * 2^e)
<1>1. /\ 1 - 1 = 0 /\ 2 - 1 = 1 /\ 3 - 1 = 2 /\ 4 - 1 = 3 /\ 5 - 1 = 4 /\ 6 - 1 = 5 /\ 7 - 1 = 6
      /\ 8 - 1 = 7 /\ 9 - 1 = 8 /\ 10 - 1 = 9 /\ 11 - 1 = 10 /\ 12 - 1 = 11 /\ 13 - 1 = 12
      /\ 14 - 1 = 13 /\ 15 - 1 = 14
  OBVIOUS
<1>2. /\ v < 32 => In(1)
      /\ v >= 32 /\ v < 64 => In(2)
      /\ v >= 64 /\ v < 128 => In(3)
      /\ v >= 128 /\ v < 256 => In(4)
      /\ v >= 256 /\ v < 512 => In(5)
  BY <1>1, PowersOfTwo DEF NormalMin
<1>3. /\ v >= 512 /\ v < 1024 => In(6)
      /\ v >= 1024 /\ v < 2048 => In(7)
      /\ v >= 2048 /\ v < 4096 => In(8)
      /\ v >= 4096 /\ v < 8192 => In(9)
      /\ v >= 8192 /\ v < 16384 => In(10)
  BY <1>1, PowersOfTwo DEF NormalMin
<1>4. /\ v >= 16384 /\ v < 32768 => In(11)
      /\ v >= 32768 /\ v < 65536 => In(12)
      /\ v >= 65536 /\ v < 131072 => In(13)
      /\ v >= 131072 /\ v < 262144 => In(14)
      /\ v >= 262144 => In(15)
  BY <1>1, PowersOfTwo DEF NormalMin
<1> HIDE DEF In
<1>5. \E e \in 1..15 : In(e)
  BY <1>2, <1>3, <1>4
<1>6. Exponent(v) = CHOOSE e \in 1..15 : In(e)
  BY DEF Exponent, Exponents, In
<1>7. Exponent(v) \in 1..15 /\ In(Exponent(v))
  BY <1>5, <1>6
<1> DEFINE e == Exponent(v)
           P == 2^(e - 1)
<1>8. P \in Nat /\ 2^e = 2 * P
  <2>1. e \in 1..15
    BY <1>7
  <2> HIDE DEF e
  <2>2. PowerBelow(e, P)
    BY <2>1, ExponentPowers
  <2> HIDE DEF P
  <2> QED
    BY <2>2 DEF PowerBelow
<1>9. v >= 16 * P /\ (e = 15 \/ v < 16 * 2^e)
  BY <1>7 DEF In, NormalMin
<1>10. 16 * 2^e = 32 * P
  BY <1>8
<1> QED
  BY <1>7, <1>9, <1>10

\* A normal magnitude of step 2 * P is decoded within P of itself, whether the
\* mantissa stays below 8 or carries into the exponent.
LEMMA NormalRestored ==
  ASSUME NEW x \in Nat, Smaller(x, MaxFinite) >= 16
  PROVE  LET v == Smaller(x, MaxFinite)
         IN  2 * Magnitude(Decode(Encode(x)) - v) <= 2 * 2^(Exponent(v) - 1)
<1> DEFINE v == Smaller(x, MaxFinite)
           e == Exponent(v)
           P == 2^(e - 1)
           w == v - 16 * P
           m == RoundDiv(8 * w, 16 * P)
<1>1. v \in Nat /\ v <= 491520
  BY DEF Smaller, MaxFinite
<1> HIDE DEF v
<1>2. e \in 1..15 /\ v >= 16 * P /\ (e = 15 \/ v < 32 * P)
  BY <1>1, ExponentOf DEF v
<1> HIDE DEF e
<1>3. P \in Nat \ {0} /\ 2^e = 2 * P /\ (e = 15 => P = 16384)
  <2>1. PowerBelow(e, P)
    BY <1>2, ExponentPowers
  <2> HIDE DEF P
  <2> QED
    BY <2>1 DEF PowerBelow
<1>4. Encode(x) = IF v < 16 THEN [exp |-> 0, mantissa |-> Smaller(7, RoundDiv(v, 2))]
                  ELSE IF m = 8 THEN [exp |-> Smaller(15, e + 1), mantissa |-> 0]
                  ELSE [exp |-> e, mantissa |-> m]
  BY DEF Encode, NormalMin, v, e
<1> HIDE DEF P
<1>5. w \in Nat /\ (e = 15 => w <= 229376) /\ (e # 15 => w <= 16 * P)
  BY <1>1, <1>2, <1>3
<1> HIDE DEF w
<1> DEFINE d == 16 * P
           n == 8 * w
<1>6. d \in Nat \ {0} /\ n \in Nat
  BY <1>3, <1>5
<1>7. e = 15 => n <= 7 * d
  BY <1>3, <1>5
<1>8. e # 15 => n <= 8 * d
  BY <1>3, <1>5
<1> HIDE DEF d, n
<1>9. /\ m \in Nat /\ 2 * (d * m) - 2 * n <= d /\ 2 * n - 2 * (d * m) <= d
      /\ m <= 8 /\ (e = 15 => m <= 7)
  <2>1. m = RoundDiv(n, d)
    BY DEF n, d
  <2> HIDE DEF m
  <2>2. /\ m \in Nat /\ 2 * (d * m) - 2 * n <= d /\ 2 * n - 2 * (d * m) <= d
    BY <1>6, <2>1, RoundDivClose
  <2>3. e = 15 => m <= 7
    BY <1>6, <1>7, <2>1, RoundDivAtMost
  <2>4. e # 15 => m <= 8
    BY <1>6, <1>8, <2>1, RoundDivAtMost
  <2> QED
    BY <2>2, <2>3, <2>4
<1> HIDE DEF m
<1>10. P * m \in Nat /\ d * m = 16 * (P * m)
  <2>1. P * m \in Nat
    BY <1>3, <1>9
  <2>2. d * m = 16 * (P * m)
    BY <1>3, <1>9, Z3 DEF d
  <2> QED
    BY <2>1, <2>2
<1>11. 2 * Magnitude((16 * P + 2 * (P * m)) - v) <= 2 * P
  <2> DEFINE z == P * m
  <2>1. z \in Nat /\ d * m = 16 * z
    BY <1>10
  <2>2. 2 * (16 * z) - 2 * (8 * w) <= 16 * P /\ 2 * (8 * w) - 2 * (16 * z) <= 16 * P
    BY <1>9, <2>1 DEF d, n
  <2> HIDE DEF z
  <2>3. v = 16 * P + w
    BY <1>1, <1>3 DEF w
  <2>4. (16 * P + 2 * z) - v = 2 * z - w /\ 2 * z - w <= P /\ w - 2 * z <= P
    BY <1>3, <1>5, <2>1, <2>2, <2>3
  <2>5. 2 * Magnitude((16 * P + 2 * z) - v) <= 2 * P
    BY <1>3, <1>5, <2>1, <2>4 DEF Magnitude
  <2> QED
    BY <2>5 DEF z
<1>12. Decode(Encode(x)) = 16 * P + 2 * (P * m)
  <2>0. ~(v < 16)
    BY <1>1 DEF v
  <2>1. CASE m = 8
    <3>1. e + 1 \in 1..15 /\ Smaller(15, e + 1) = e + 1 /\ (e + 1) - 1 = e
      BY <1>2, <1>9, <2>1 DEF Smaller
    <3>2. Encode(x) = [exp |-> e + 1, mantissa |-> 0]
      BY <1>4, <2>0, <2>1, <3>1
    <3>3. e + 1 # 0
      BY <1>2
    <3>4. Decode(Encode(x)) = (8 + 0) * 2 * 2^e
      BY <3>1, <3>2, <3>3 DEF Decode
    <3> QED
      BY <1>3, <2>1, <3>4
  <2>2. CASE m # 8
    <3>1. Encode(x) = [exp |-> e, mantissa |-> m] /\ e # 0
      BY <1>2, <1>4, <2>0, <2>2
    <3>2. Decode(Encode(x)) = (8 + m) * 2 * P
      BY <3>1 DEF Decode, P
    <3>3. (8 + m) * 2 * P = 16 * P + 2 * (P * m)
      BY <1>3, <1>9, Z3
    <3> QED
      BY <3>2, <3>3
  <2> QED
    BY <2>1, <2>2
<1> QED
  BY <1>11, <1>12 DEF v, e, P

LEMMA SubnormalRestored ==
  ASSUME NEW x \in Nat, x < 16
  PROVE  2 * Magnitude(Decode(Encode(x)) - x) <= 2
<1> DEFINE r == RoundDiv(x, 2)
<1>1. r \in Nat /\ 2 * (2 * r) - 2 * x <= 2 /\ 2 * x - 2 * (2 * r) <= 2
  BY RoundDivClose
<1>2. Smaller(x, MaxFinite) = x
  BY DEF Smaller, MaxFinite
<1>3. Encode(x) = [exp |-> 0, mantissa |-> Smaller(7, r)]
  BY <1>2 DEF Encode, NormalMin
<1> HIDE DEF r
<1>4. Decode(Encode(x)) = 2 * Smaller(7, r)
  BY <1>3 DEF Decode
<1>5. 2 * Smaller(7, r) - x <= 1 /\ x - 2 * Smaller(7, r) <= 1 /\ Smaller(7, r) \in Nat
  BY <1>1 DEF Smaller
<1> QED
  BY <1>4, <1>5 DEF Magnitude

\* An FP8 number is read back within half a step.
LEMMA HalfAStep ==
  ASSUME NEW x \in Nat
  PROVE  LET v == Smaller(x, MaxFinite)
             step == IF v < NormalMin THEN 2 ELSE 2 * 2^(Exponent(v) - 1)
         IN  2 * Magnitude(Decode(Encode(x)) - v) <= step
<1> DEFINE v == Smaller(x, MaxFinite)
<1>1. CASE v < 16
  <2>1. v = x /\ x < 16
    BY <1>1 DEF Smaller, MaxFinite
  <2>2. 2 * Magnitude(Decode(Encode(x)) - x) <= 2
    BY <2>1, SubnormalRestored
  <2> QED
    BY <1>1, <2>1, <2>2 DEF NormalMin
<1>2. CASE ~(v < 16)
  <2>1. v >= 16
    BY <1>2 DEF Smaller, MaxFinite
  <2>2. 2 * Magnitude(Decode(Encode(x)) - v) <= 2 * 2^(Exponent(v) - 1)
    BY <2>1, NormalRestored
  <2> QED
    BY <1>2, <2>2 DEF NormalMin
<1> QED
  BY <1>1, <1>2

-------------------------------------------------------------------------------
(* What the codecs store *)

LEMMA MagnitudesNatural == Magnitudes \subseteq Nat
<1>1. ASSUME NEW m \in 0..15, NEW e \in 5..14, NEW d \in {-1, 0, 1}
      PROVE  (16 + m) * 2^e + d \in Nat
  <2>1. 2^e \in Nat \ {0}
    <3> DEFINE P == 2^(e - 1)
    <3>1. e \in 1..15
      OBVIOUS
    <3>2. PowerBelow(e, P)
      BY <3>1, ExponentPowers
    <3> HIDE DEF P
    <3> QED
      BY <3>2 DEF PowerBelow
  <2> DEFINE D == 2^e
  <2>2. D \in Nat \ {0}
    BY <2>1
  <2> HIDE DEF D
  <2>3. m * D \in Nat /\ (16 + m) * D = 16 * D + m * D
    BY <2>2
  <2>4. (16 + m) * D + d \in Nat
    BY <2>2, <2>3
  <2> QED
    BY <2>4 DEF D
<1>2. MaxFinite \in Nat /\ MaxFinite + 1 \in Nat
  BY DEF MaxFinite
<1> QED
  BY <1>1, <1>2 DEF Magnitudes

\* The codes the runs pack are codes of their width.
LEMMA CodesTyped ==
  ASSUME NEW x \in Codes
  PROVE  x.width \in Widths /\ x.values \in Seq(CodeRange(x.width))
<1>1. CASE \E w \in {2, 3} :
             x \in [values : UNION {[1..n -> -Qmax(w)..Qmax(w)] : n \in 1..MaxCodes}, width : {w}]
  <2>1. PICK w \in {2, 3} :
             x \in [values : UNION {[1..n -> -Qmax(w)..Qmax(w)] : n \in 1..MaxCodes}, width : {w}]
    BY <1>1
  <2>2. x.width = w /\ x.values \in UNION {[1..n -> -Qmax(w)..Qmax(w)] : n \in 1..MaxCodes}
    BY <2>1
  <2> DEFINE R == CodeRange(w)
  <2>3. x.values \in UNION {[1..n -> R] : n \in 1..MaxCodes}
    BY <2>2 DEF CodeRange
  <2> HIDE DEF R
  <2>4. PICK n \in 1..MaxCodes : x.values \in [1..n -> R]
    BY <2>3
  <2>5. n \in Nat
    BY AlgorithmsAssumption
  <2>6. x.values \in Seq(R)
    BY <2>4, <2>5
  <2>7. w \in Widths
    BY DEF Widths
  <2> QED
    BY <2>2, <2>6, <2>7 DEF R
<1>2. CASE x \in [values : {[i \in 1..5 |-> IF i % 2 = k THEN v ELSE -v] : k \in {0, 1}, v \in 0..7},
                  width : {4}]
  <2>1. x.width = 4
        /\ x.values \in {[i \in 1..5 |-> IF i % 2 = k THEN v ELSE -v] : k \in {0, 1}, v \in 0..7}
    BY <1>2
  <2>2. PICK k \in {0, 1}, v \in 0..7 : x.values = [i \in 1..5 |-> IF i % 2 = k THEN v ELSE -v]
    BY <2>1
  <2> DEFINE R == -7..7
  <2>3. v \in R /\ -v \in R
    OBVIOUS
  <2>4. CodeRange(4) = R
    BY QmaxValues DEF CodeRange
  <2> HIDE DEF R
  <2>5. x.values \in [1..5 -> R]
    BY <2>2, <2>3
  <2>6. x.values \in Seq(R)
    <3> DEFINE f == x.values
    <3>1. f \in [1..5 -> R]
      BY <2>5
    <3> HIDE DEF f
    <3>2. ASSUME NEW n \in Nat, f \in [1..n -> R]
          PROVE  f \in Seq(R)
      BY <3>2
    <3>3. f \in Seq(R)
      BY <3>1, <3>2
    <3> QED
      BY <3>3 DEF f
  <2> QED
    BY <2>1, <2>4, <2>6 DEF Widths
<1> QED
  BY <1>1, <1>2 DEF Codes

\* What the codecs store decodes to what was put in: pack_signed_nbit and
\* unpack_signed_nbit exactly; TurboQuant within half a step of the group's scale
\* and what the rounding of that scale to float16 adds for a code, or not at all,
\* exactly when the rounded scale is inf; FP8 within half a step.
THEOREM StoredValuesDecodeAlways == AlgorithmsSpec => []StoredValuesDecode
<1>1. ASSUME AnswersInv  PROVE StoredValuesDecode
  <2>1. ASSUME NEW values \in Answer("codes")
        PROVE  values = input.values
    <3>1. subject = "codes" /\ values \in answer
      BY DEF Answer
    <3>2. input \in Codes
      BY <1>1, <3>1 DEF AnswersInv, Inputs
    <3>3. values = Unpack(Pack(input.values, input.width), Len(input.values), input.width)
      BY <1>1, <3>1 DEF AnswersInv, Answers
    <3> QED
      BY <3>2, <3>3, CodesTyped, CodesRoundTrip
  <2>2. ASSUME NEW restored \in Answer("row"), NEW i \in DOMAIN restored
        PROVE  Decoded(restored[i], input[1][i],
                       GroupScale(Padded(input[1], input[2]), input[2], input[3], i),
                       Qmax(input[3]))
    <3>1. subject = "row" /\ restored \in answer
      BY DEF Answer
    <3>2. input \in Rows \X (1..4) \X {2, 3, 4}
      BY <1>1, <3>1 DEF AnswersInv, Inputs
    <3>3. restored = Restored(input[1], input[2], input[3])
      BY <1>1, <3>1 DEF AnswersInv, Answers
    <3>4. input[1] \in Seq(Int) /\ input[2] \in Nat \ {0} /\ input[3] \in Widths
      BY <3>2, AlgorithmsAssumption DEF Widths
    <3> QED
      BY <3>3, <3>4, RowRestored
  <2>3. ASSUME NEW code \in Answer("fp8")
        PROVE  LET v == Smaller(input, MaxFinite)
                   step == IF v < NormalMin THEN 2 ELSE 2 * 2^(Exponent(v) - 1)
               IN  2 * Magnitude(Decode(code) - v) <= step
    <3>1. subject = "fp8" /\ code \in answer
      BY DEF Answer
    <3>2. input \in Nat
      <4>1. input \in Magnitudes
        BY <1>1, <3>1 DEF AnswersInv, Inputs
      <4> QED
        BY <4>1, MagnitudesNatural
    <3>3. code = Encode(input)
      BY <1>1, <3>1 DEF AnswersInv, Answers
    <3> QED
      BY <3>2, <3>3, HalfAStep
  <2> QED
    BY <2>1, <2>2, <2>3 DEF StoredValuesDecode, Decoded, ScaleSlack
<1> QED
  BY <1>1, AnswersInvariant, PTL
===============================================================================
