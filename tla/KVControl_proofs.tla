--------------------------- MODULE KVControl_proofs ---------------------------
(* Proofs about KVControl, for any requests, tenants and prompts, any budget   *)
(* and page size, and any relation of nearness between prompts.                *)
EXTENDS KVControl, FiniteSetTheorems, TLAPS

Generating == {r \in Requests : pc[r] = "generate"}

\* A handle names the KV of a request of its own tenant and prompt.
HandlesNamed == \A key \in Keys : prefixes[key] # NoRef => ask[prefixes[key]].key = key

\* What is counted has been counted up from nothing.
Counted == IsFiniteSet(Generating) /\ IsFiniteSet(Pager!OnTier("gpu"))

IndInv == RequestsAccounted /\ GpuBounded /\ TenantIsolation /\ HandlesNamed /\ Counted

-------------------------------------------------------------------------------
(* What the control plane does with pages *)

LEMMA Instances ==
  /\ Pager!Tiers = {"gpu", "cpu", "nvme"}
  /\ Pager!Registered = {r \in Requests : tier[r] \in {"gpu", "cpu", "nvme"}}
  /\ \A t : Pager!OnTier(t) = {r \in Requests : tier[r] = t}
BY DEF Pager!Tiers, Pager!Registered, Pager!OnTier

\* A page stored is registered and in memory, and on the tier the policy chose.
Stored(r, t) ==
  /\ r \notin Pager!Registered
  /\ Pager!Registered' = Pager!Registered \cup {r}
  /\ resident' = resident \cup {r}
  /\ Pager!OnTier("gpu")' = IF t = "gpu" THEN Pager!OnTier("gpu") \cup {r} ELSE Pager!OnTier("gpu")
  /\ Pager!TypeOK'

LEMMA PagePut ==
  ASSUME Pager!TypeOK, NEW r \in Requests, NEW t \in {"gpu", "cpu"}, Pager!Put(r, t)
  PROVE  Stored(r, t)
<1>1. /\ tier[r] = "new" /\ tier' = [tier EXCEPT ![r] = t] /\ resident' = resident \cup {r}
      /\ earlier' = [earlier EXCEPT ![r] = Pager!Registered]
      /\ files' = files /\ scraps' = scraps
  BY DEF Pager!Put
<1>2. tier \in [Requests -> {"gpu", "cpu", "nvme"} \cup {"new", "gone"}]
  BY Instances DEF Pager!TypeOK
<1>3. /\ r \notin Pager!Registered
      /\ Pager!Registered' = Pager!Registered \cup {r}
      /\ Pager!Registered \subseteq Requests
  BY <1>1, <1>2 DEF Pager!Registered, Pager!Tiers
<1>4. Pager!OnTier("gpu")' = IF t = "gpu" THEN Pager!OnTier("gpu") \cup {r}
                                          ELSE Pager!OnTier("gpu")
  <2>1. \A q \in Requests : tier'[q] = IF q = r THEN t ELSE tier[q]
    BY <1>1, <1>2
  <2> QED
    BY <1>1, <2>1 DEF Pager!OnTier
<1>5. Pager!TypeOK'
  <2>1. /\ earlier'[r] = Pager!Registered
        /\ \A q \in Requests : q # r => earlier'[q] = earlier[q]
    BY <1>1 DEF Pager!TypeOK
  <2>2. Pager!Ordered(earlier', Pager!Registered')
    BY <1>3, <2>1 DEF Pager!TypeOK, Pager!Ordered
  <2>3. /\ tier' \in [Requests -> Pager!Tiers \cup {"new", "gone"}]
        /\ earlier' \in [Requests -> SUBSET Pager!Registered']
    BY <1>1, <1>2, <1>3, Instances DEF Pager!TypeOK
  <2>4. \A q \in Requests \ Pager!Registered' : earlier'[q] = {}
    BY <1>3, <2>1 DEF Pager!TypeOK
  <2>5. resident' \subseteq Requests /\ files' \subseteq Requests /\ scraps' \subseteq Requests
    BY <1>1 DEF Pager!TypeOK
  <2>6. Pager!Tiers' = Pager!Tiers
    BY DEF Pager!Tiers
  <2> QED
    BY <2>2, <2>3, <2>4, <2>5, <2>6 DEF Pager!TypeOK, Pager!Ordered
<1> QED
  BY <1>1, <1>3, <1>4, <1>5 DEF Stored

\* A page released is gone from the registry, memory and disk, and no other is.
Released(r) ==
  /\ Pager!Registered' = Pager!Registered \ {r}
  /\ resident = Pager!Registered => resident' = Pager!Registered'
  /\ Pager!OnTier("gpu")' = Pager!OnTier("gpu") \ {r}
  /\ Pager!TypeOK'

LEMMA PageReleased ==
  ASSUME Pager!TypeOK, NEW r \in Requests, Release(r)
  PROVE  Released(r)
<1>1. CASE r \in Pager!Registered
  <2>1. /\ tier' = [p \in Requests |-> IF p \in {r} THEN "gone" ELSE tier[p]]
        /\ resident' = resident \ {r} /\ files' = files \ {r} /\ scraps' = scraps
        /\ earlier' = [p \in Requests |-> IF p \in {r} THEN {} ELSE earlier[p] \ {r}]
    BY <1>1 DEF Release, Pager!Delete, Pager!Drop
  <2>2. Pager!Registered' = Pager!Registered \ {r} /\ Pager!Registered \subseteq Requests
    BY <2>1 DEF Pager!Registered, Pager!Tiers
  <2>3. Pager!OnTier("gpu")' = Pager!OnTier("gpu") \ {r}
    BY <2>1 DEF Pager!OnTier
  <2>4. Pager!TypeOK'
    <3>1. Pager!Ordered(earlier', Pager!Registered')
      BY <2>1, <2>2 DEF Pager!TypeOK, Pager!Ordered
    <3>2. tier' \in [Requests -> Pager!Tiers \cup {"new", "gone"}]
      BY <2>1 DEF Pager!TypeOK
    <3>3. /\ earlier' \in [Requests -> SUBSET Pager!Registered']
          /\ \A p \in Requests \ Pager!Registered' : earlier'[p] = {}
      BY <2>1, <2>2 DEF Pager!TypeOK
    <3>4. Pager!Tiers' = Pager!Tiers
      BY DEF Pager!Tiers
    <3> QED
      BY <2>1, <3>1, <3>2, <3>3, <3>4 DEF Pager!TypeOK, Pager!Ordered
  <2> QED
    BY <2>1, <2>2, <2>3, <2>4 DEF Released
<1>2. CASE r \notin Pager!Registered
  <2>1. UNCHANGED <<tier, resident, files, scraps, earlier>>
    BY <1>2 DEF Release, pagerVars
  <2>2. Pager!Registered' = Pager!Registered /\ Pager!OnTier("gpu")' = Pager!OnTier("gpu")
    BY <2>1 DEF Pager!Registered, Pager!OnTier, Pager!Tiers
  <2>3. r \notin Pager!OnTier("gpu")
    BY <1>2, Instances
  <2>4. Pager!TypeOK'
    BY <2>1, <2>2 DEF Pager!TypeOK, Pager!Ordered, Pager!Tiers
  <2> QED
    BY <1>2, <2>1, <2>2, <2>3, <2>4 DEF Released
<1> QED
  BY <1>1, <1>2

LEMMA PagesUntouched ==
  ASSUME Pager!TypeOK, UNCHANGED pagerVars
  PROVE  /\ Pager!Registered' = Pager!Registered
         /\ resident' = resident
         /\ Pager!OnTier("gpu")' = Pager!OnTier("gpu")
         /\ Pager!TypeOK'
<1>1. UNCHANGED <<tier, resident, files, scraps, earlier>>
  BY DEF pagerVars
<1>2. Pager!Registered' = Pager!Registered /\ Pager!OnTier("gpu")' = Pager!OnTier("gpu")
  BY <1>1 DEF Pager!Registered, Pager!OnTier, Pager!Tiers
<1> QED
  BY <1>1, <1>2 DEF Pager!TypeOK, Pager!Ordered, Pager!Tiers

-------------------------------------------------------------------------------
(* Tenants *)

\* The handle found is the tenant's own, whether of the same prompt or of a near one.
LEMMA OwnHandle ==
  ASSUME TypeOK, HandlesNamed, NEW key \in Keys, NEW ref \in Lookup(key)
  PROVE  ref \in Refs /\ (ref # NoRef => ask[ref].key[1] = key[1])
<1>1. prefixes \in [Keys -> Refs]
  BY DEF TypeOK
<1>2. CASE prefixes[key] # NoRef
  BY <1>1, <1>2 DEF Lookup, HandlesNamed
<1>3. CASE prefixes[key] = NoRef /\ NearHandles(key) # {}
  <2>1. ref \in NearHandles(key)
    BY <1>3 DEF Lookup
  <2>2. PICK other \in Keys : other[1] = key[1] /\ ref = prefixes[other]
    BY <2>1 DEF NearHandles
  <2> QED
    BY <1>1, <2>2 DEF HandlesNamed
<1>4. CASE prefixes[key] = NoRef /\ NearHandles(key) = {}
  BY <1>4 DEF Lookup, Refs
<1> QED
  BY <1>2, <1>3, <1>4

LEMMA AdmittedOwn ==
  ASSUME TypeOK, HandlesNamed, TenantIsolation, NEW r \in Requests, Admitted(r)
  PROVE  HandlesNamed' /\ TenantIsolation' /\ hit' \in [Requests -> Refs]
<1>1. ask[r].key \in Keys /\ hit \in [Requests -> Refs]
  BY DEF TypeOK
<1>2. PICK ref \in Lookup(ask[r].key) : hit' = [hit EXCEPT ![r] = ref]
  BY DEF Admitted
<1>3. UNCHANGED <<ask, prefixes>>
  BY DEF Admitted
<1>4. ref \in Refs /\ (ref # NoRef => ask[ref].key[1] = ask[r].key[1])
  BY <1>1, <1>2, OwnHandle
<1>5. /\ hit' \in [Requests -> Refs]
      /\ \A q \in Requests : hit'[q] = IF q = r THEN ref ELSE hit[q]
  BY <1>1, <1>2, <1>4
<1>6. TenantIsolation'
  BY <1>3, <1>4, <1>5 DEF TenantIsolation
<1> QED
  BY <1>3, <1>5, <1>6 DEF HandlesNamed

-------------------------------------------------------------------------------
(* The GPU budget *)

\* Where the policy leaves a page on the GPU, the pressure is below 86 percent.
LEMMA PressureWhenKept ==
  ASSUME TypeOK, Counted, ~PageToCpu
  PROVE  100 * GpuUsed < 86 * Budget
<1>1. Budget \in Nat /\ PageSize \in Nat /\ Cardinality(Pager!OnTier("gpu")) \in Nat
  BY BudgetAssumption, FS_CardinalityType DEF Counted
<1>2. GpuUsed \in Nat
  BY <1>1 DEF GpuUsed
<1>3. PressureBelow(72) \/ PressureBelow(86)
  BY DEF PageToCpu
<1> QED
  BY <1>1, <1>2, <1>3 DEF PressureBelow

LEMMA GpuStored ==
  ASSUME TypeOK, Counted, GpuBounded, NEW r \in Requests,
         Stored(r, IF PageToCpu THEN "cpu" ELSE "gpu")
  PROVE  GpuBounded' /\ IsFiniteSet(Pager!OnTier("gpu"))'
<1> DEFINE G == Pager!OnTier("gpu")
           n == Cardinality(G)
<1>1. IsFiniteSet(G) /\ n \in Nat
  BY FS_CardinalityType DEF Counted
<1>2. Budget \in Nat /\ PageSize \in Nat
  BY BudgetAssumption
<1>3. CASE PageToCpu
  <2>1. G' = G
    BY <1>3 DEF Stored
  <2> QED
    BY <1>1, <2>1 DEF GpuBounded, GpuUsed
<1>4. CASE ~PageToCpu
  <2>1. G' = G \cup {r} /\ r \notin G
    BY <1>4, Instances DEF Stored
  <2>2. IsFiniteSet(G') /\ Cardinality(G') = n + 1
    BY <1>1, <2>1, FS_AddElement
  <2>3. 100 * (PageSize * n) < 86 * Budget
    BY <1>4, PressureWhenKept DEF GpuUsed
  <2>4. 100 * (PageSize * (n + 1)) < 86 * Budget + 100 * PageSize
    <3>1. PageSize * n \in Nat /\ PageSize * (n + 1) = PageSize * n + PageSize
      BY <1>1, <1>2
    <3> HIDE DEF n
    <3> QED
      BY <1>2, <2>3, <3>1
  <2> QED
    BY <2>2, <2>4 DEF GpuBounded, GpuUsed
<1> QED
  BY <1>3, <1>4

LEMMA GpuReleased ==
  ASSUME TypeOK, Counted, GpuBounded, NEW r \in Requests, Released(r)
  PROVE  GpuBounded' /\ IsFiniteSet(Pager!OnTier("gpu"))'
<1> DEFINE G == Pager!OnTier("gpu")
           n == Cardinality(G)
<1>1. IsFiniteSet(G) /\ n \in Nat
  BY FS_CardinalityType DEF Counted
<1>2. Budget \in Nat /\ PageSize \in Nat
  BY BudgetAssumption
<1>3. G' = G \ {r}
  BY DEF Released
<1>4. IsFiniteSet(G') /\ Cardinality(G') \in Nat /\ Cardinality(G') <= n
  <2> HIDE DEF G
  <2>1. G' \subseteq G
    BY <1>3
  <2> QED
    BY <1>1, <2>1, FS_Subset, FS_CardinalityType
<1>5. PageSize * Cardinality(G') <= PageSize * n
  <2>1. PICK d \in Nat : n = Cardinality(G') + d
    <3>1. n - Cardinality(G') \in Nat
      BY <1>1, <1>4
    <3> QED
      BY <1>1, <1>4, <3>1
  <2> DEFINE m == Cardinality(G')
  <2>2. m \in Nat
    BY <1>4
  <2> HIDE DEF n, m
  <2>3. PageSize * (m + d) = PageSize * m + PageSize * d /\ PageSize * d \in Nat
    BY <1>2, <2>2
  <2>4. PageSize * m \in Nat
    BY <1>2, <2>2
  <2>5. PageSize * m <= PageSize * n
    BY <2>1, <2>3, <2>4 DEF m
  <2> QED
    BY <2>5 DEF m
<1>6. PageSize * n \in Nat /\ PageSize * Cardinality(G') \in Nat
  BY <1>1, <1>2, <1>4
<1>7. 100 * (PageSize * n) < 86 * Budget + 100 * PageSize
  BY DEF GpuBounded, GpuUsed
<1>8. 100 * (PageSize * Cardinality(G')) < 86 * Budget + 100 * PageSize
  BY <1>2, <1>5, <1>6, <1>7
<1> QED
  BY <1>4, <1>8 DEF GpuBounded, GpuUsed

-------------------------------------------------------------------------------
(* The steps *)

\* Suspending r somewhere else moves it between the sets of requests, and no other.
LEMMA Suspended ==
  ASSUME TypeOK, NEW r \in Requests, NEW place \in Places, pc' = [pc EXCEPT ![r] = place]
  PROVE  /\ pc' \in [Requests -> Places]
         /\ InFlight' = (InFlight \ {r}) \cup (IF place \in {"first", "generate"} THEN {r} ELSE {})
         /\ Lost' = (Lost \ {r}) \cup (IF place \in {"closed", "failed"} THEN {r} ELSE {})
         /\ Generating' = (Generating \ {r}) \cup (IF place = "generate" THEN {r} ELSE {})
<1>1. /\ pc' \in [Requests -> Places]
      /\ \A q \in Requests : pc'[q] = IF q = r THEN place ELSE pc[q]
  BY DEF TypeOK
<1> QED
  BY <1>1 DEF InFlight, Lost, Generating

LEMMA AdmitInvariant ==
  ASSUME IndInv, NEW r \in Requests, Admit(r)
  PROVE  IndInv'
<1> USE DEF IndInv
<1>1. TypeOK /\ Pager!TypeOK
  BY DEF RequestsAccounted, TypeOK
<1>2. /\ pc[r] = "new" /\ allocations' = allocations \cup {r} /\ UNCHANGED <<ask, mode, dev, prefixes>>
      /\ StoreKV(r)
      /\ \/ pc' = [pc EXCEPT ![r] = "first"] /\ active_requests' = active_requests
         \/ pc' = [pc EXCEPT ![r] = "generate"] /\ active_requests' = active_requests + 1
  BY DEF Admit, Admitted
<1>3. HandlesNamed' /\ TenantIsolation' /\ hit' \in [Requests -> Refs]
  BY <1>1, AdmittedOwn DEF Admit
<1>4. /\ r \notin Generating /\ r \notin InFlight /\ r \notin Lost
  BY <1>2 DEF Generating, InFlight, Lost
<1>5. /\ pc' \in [Requests -> Places]
      /\ InFlight' = InFlight \cup {r} /\ Lost' = Lost
      /\ \/ Generating' = Generating /\ active_requests' = active_requests
         \/ Generating' = Generating \cup {r} /\ active_requests' = active_requests + 1
  BY <1>1, <1>2, <1>4, Suspended DEF Places
<1>6. active_requests = Cardinality(Generating) /\ active_requests \in Nat
  BY <1>1 DEF RequestsAccounted, Generating, TypeOK
<1>7. IsFiniteSet(Generating') /\ active_requests' = Cardinality(Generating')
  BY <1>4, <1>5, <1>6, FS_AddElement DEF Counted
<1>8. /\ GpuBounded' /\ IsFiniteSet(Pager!OnTier("gpu"))' /\ Pager!TypeOK'
      /\ Pager!Registered' \subseteq allocations'
      /\ resident' = Pager!Registered'
      /\ dev' => InFlight' \subseteq Pager!Registered'
  <2>1. CASE dev
    <3>1. Stored(r, IF PageToCpu THEN "cpu" ELSE "gpu")
      BY <1>1, <1>2, <2>1, PagePut DEF StoreKV
    <3>2. GpuBounded' /\ IsFiniteSet(Pager!OnTier("gpu"))'
      BY <1>1, <3>1, GpuStored
    <3> QED
      BY <1>2, <1>5, <2>1, <3>1, <3>2 DEF Stored, RequestsAccounted
  <2>2. CASE ~dev
    <3>1. UNCHANGED pagerVars
      BY <1>2, <2>2 DEF StoreKV
    <3>2. /\ Pager!Registered' = Pager!Registered /\ resident' = resident
          /\ Pager!OnTier("gpu")' = Pager!OnTier("gpu")
          /\ Pager!TypeOK'
      BY <1>1, <3>1, PagesUntouched
    <3>3. GpuBounded' /\ IsFiniteSet(Pager!OnTier("gpu"))'
      BY <3>2 DEF GpuBounded, GpuUsed, Counted
    <3> QED
      BY <1>2, <1>5, <2>2, <3>2, <3>3 DEF RequestsAccounted
  <2> QED
    BY <1>1, <2>1, <2>2 DEF TypeOK
<1>9. TypeOK'
  BY <1>1, <1>2, <1>3, <1>5, <1>6, <1>8 DEF TypeOK
<1>10. allocations' = InFlight' \cup Lost'
  BY <1>2, <1>5 DEF RequestsAccounted
<1> QED
  BY <1>3, <1>7, <1>8, <1>9, <1>10 DEF RequestsAccounted, Counted, Generating

\* An admission that raises leaves its allocation; a stream closed at its first chunk also
\* its page.
LEMMA LostInvariant ==
  ASSUME IndInv, NEW r \in Requests, AdmissionFails(r) \/ CloseAtFirstChunk(r)
  PROVE  IndInv'
<1> USE DEF IndInv
<1>1. TypeOK /\ Pager!TypeOK
  BY DEF RequestsAccounted, TypeOK
<1>2. /\ UNCHANGED <<ask, mode, dev, prefixes, active_requests>> /\ UNCHANGED pagerVars
      /\ \/ pc[r] = "new" /\ allocations' = allocations \cup {r}
         \/ pc[r] = "first" /\ allocations' = allocations
      /\ \/ pc' = [pc EXCEPT ![r] = "failed"]
         \/ pc' = [pc EXCEPT ![r] = "closed"]
  BY DEF AdmissionFails, Admitted, CloseAtFirstChunk
<1>3. HandlesNamed' /\ TenantIsolation' /\ hit' \in [Requests -> Refs]
  <2>1. CASE AdmissionFails(r)
    BY <1>1, <2>1, AdmittedOwn DEF AdmissionFails
  <2>2. CASE CloseAtFirstChunk(r)
    BY <1>1, <2>2 DEF CloseAtFirstChunk, HandlesNamed, TenantIsolation, TypeOK
  <2> QED
    BY <2>1, <2>2
<1>4. r \notin Generating
  BY <1>2 DEF Generating
<1>5. /\ pc' \in [Requests -> Places]
      /\ InFlight' = InFlight \ {r} /\ Lost' = Lost \cup {r} /\ Generating' = Generating
  <2>1. /\ pc' \in [Requests -> Places]
        /\ InFlight' = InFlight \ {r} /\ Lost' = (Lost \ {r}) \cup {r}
        /\ Generating' = Generating \ {r}
    BY <1>1, <1>2, Suspended DEF Places
  <2> QED
    BY <1>4, <2>1
<1>6. allocations' = InFlight' \cup Lost'
  <2>1. pc[r] = "first" => r \in InFlight
    BY DEF InFlight
  <2>2. pc[r] = "new" => r \notin InFlight
    BY DEF InFlight
  <2> QED
    BY <1>2, <1>5, <2>1, <2>2 DEF RequestsAccounted
<1>7. /\ Pager!Registered' = Pager!Registered /\ resident' = resident
      /\ Pager!OnTier("gpu")' = Pager!OnTier("gpu")
      /\ Pager!TypeOK'
  BY <1>1, <1>2, PagesUntouched
<1>8. GpuBounded'
  BY <1>7 DEF GpuBounded, GpuUsed
<1>9. TypeOK'
  BY <1>1, <1>2, <1>3, <1>5, <1>7 DEF TypeOK
<1>10. /\ Pager!Registered' \subseteq allocations'
       /\ resident' = Pager!Registered'
       /\ dev' => InFlight' \subseteq Pager!Registered'
  BY <1>2, <1>5, <1>7 DEF RequestsAccounted
<1>11. Counted' /\ active_requests' = Cardinality(Generating')
  BY <1>2, <1>5, <1>7 DEF Counted, RequestsAccounted, Generating
<1> QED
  BY <1>3, <1>6, <1>8, <1>9, <1>10, <1>11 DEF RequestsAccounted, Generating

LEMMA EnterStreamInvariant ==
  ASSUME IndInv, NEW r \in Requests, EnterStream(r)
  PROVE  IndInv'
<1> USE DEF IndInv
<1>1. TypeOK /\ Pager!TypeOK
  BY DEF RequestsAccounted, TypeOK
<1>2. /\ pc[r] = "first" /\ pc' = [pc EXCEPT ![r] = "generate"]
      /\ active_requests' = active_requests + 1
      /\ UNCHANGED <<ask, mode, dev, allocations, prefixes, hit>> /\ UNCHANGED pagerVars
  BY DEF EnterStream
<1>3. r \notin Generating /\ r \in InFlight /\ r \notin Lost
  BY <1>2 DEF Generating, InFlight, Lost
<1>4. /\ pc' \in [Requests -> Places]
      /\ InFlight' = InFlight /\ Lost' = Lost /\ Generating' = Generating \cup {r}
  <2>1. /\ pc' \in [Requests -> Places]
        /\ InFlight' = (InFlight \ {r}) \cup {r} /\ Lost' = Lost \ {r}
        /\ Generating' = (Generating \ {r}) \cup {r}
    BY <1>1, <1>2, Suspended DEF Places
  <2> QED
    BY <1>3, <2>1
<1>5. active_requests = Cardinality(Generating) /\ active_requests \in Nat
  BY <1>1 DEF RequestsAccounted, Generating, TypeOK
<1>6. IsFiniteSet(Generating') /\ active_requests' = Cardinality(Generating')
  BY <1>2, <1>3, <1>4, <1>5, FS_AddElement DEF Counted
<1>7. /\ Pager!Registered' = Pager!Registered /\ resident' = resident
      /\ Pager!OnTier("gpu")' = Pager!OnTier("gpu")
      /\ Pager!TypeOK'
  BY <1>1, <1>2, PagesUntouched
<1>8. GpuBounded' /\ Counted'
  BY <1>6, <1>7 DEF GpuBounded, GpuUsed, Counted
<1>9. HandlesNamed' /\ TenantIsolation'
  BY <1>2 DEF HandlesNamed, TenantIsolation
<1>10. TypeOK'
  BY <1>1, <1>2, <1>4, <1>5, <1>7 DEF TypeOK
<1> QED
  BY <1>2, <1>4, <1>6, <1>7, <1>8, <1>9, <1>10 DEF RequestsAccounted, Generating

LEMMA FinallyInvariant ==
  ASSUME IndInv, NEW r \in Requests, Finally(r)
  PROVE  IndInv'
<1> USE DEF IndInv
<1>1. TypeOK /\ Pager!TypeOK
  BY DEF RequestsAccounted, TypeOK
<1>2. /\ pc[r] = "generate" /\ pc' = [pc EXCEPT ![r] = "done"]
      /\ active_requests' = active_requests - 1
      /\ prefixes' = Recorded(r) /\ allocations' = allocations \ {r} /\ Release(r)
      /\ UNCHANGED <<ask, mode, dev, hit>>
  BY DEF Finally
<1>3. r \in Generating /\ r \notin Lost
  BY <1>2 DEF Generating, Lost
<1>4. /\ pc' \in [Requests -> Places]
      /\ InFlight' = InFlight \ {r} /\ Lost' = Lost /\ Generating' = Generating \ {r}
  <2>1. /\ pc' \in [Requests -> Places]
        /\ InFlight' = InFlight \ {r} /\ Lost' = Lost \ {r} /\ Generating' = Generating \ {r}
    BY <1>1, <1>2, Suspended DEF Places
  <2> QED
    BY <1>3, <2>1
<1>5. active_requests = Cardinality(Generating) /\ IsFiniteSet(Generating)
  BY DEF RequestsAccounted, Generating, Counted
<1>6. /\ IsFiniteSet(Generating') /\ active_requests' = Cardinality(Generating')
      /\ active_requests' \in Nat
  <2> DEFINE g == Generating
  <2>1. IsFiniteSet(Generating \ {r}) /\ Cardinality(Generating \ {r}) = active_requests - 1
    BY <1>3, <1>5, FS_RemoveElement
  <2>2. Cardinality(Generating \ {r}) \in Nat
    BY <2>1, FS_CardinalityType
  <2> QED
    BY <1>2, <1>4, <2>1, <2>2
<1>7. Released(r)
  BY <1>1, <1>2, PageReleased
<1>8. GpuBounded' /\ Counted'
  BY <1>1, <1>6, <1>7, GpuReleased DEF Counted
<1>9. HandlesNamed' /\ prefixes' \in [Keys -> Refs]
  BY <1>1, <1>2 DEF HandlesNamed, Recorded, TypeOK, Refs
<1>10. TenantIsolation'
  BY <1>2 DEF TenantIsolation
<1>11. TypeOK'
  BY <1>1, <1>2, <1>4, <1>6, <1>7, <1>9 DEF TypeOK, Released
<1>12. /\ allocations' = InFlight' \cup Lost'
       /\ Pager!Registered' \subseteq allocations'
       /\ resident' = Pager!Registered'
       /\ dev' => InFlight' \subseteq Pager!Registered'
  BY <1>2, <1>3, <1>4, <1>7 DEF Released, RequestsAccounted
<1> QED
  BY <1>6, <1>8, <1>9, <1>10, <1>11, <1>12 DEF RequestsAccounted, Generating

LEMMA InitInvariant == Init => IndInv
<1> SUFFICES ASSUME Init
             PROVE  IndInv
  OBVIOUS
<1>1. /\ ask \in [Requests -> [key : Keys, stream : BOOLEAN]] /\ mode \in Modes /\ dev \in BOOLEAN
      /\ pc = [r \in Requests |-> "new"]
      /\ active_requests = 0 /\ allocations = {}
      /\ prefixes = [key \in Keys |-> NoRef] /\ hit = [r \in Requests |-> NoRef]
      /\ tier = [r \in Requests |-> "new"] /\ resident = {} /\ files = {} /\ scraps = {}
      /\ earlier = [r \in Requests |-> {}]
  BY DEF Init, Pager!Init
<1>2. Pager!Registered = {} /\ Pager!OnTier("gpu") = {}
  BY <1>1, Instances
<1>3. InFlight = {} /\ Lost = {} /\ Generating = {}
  BY <1>1 DEF InFlight, Lost, Generating
<1>4. Pager!TypeOK
  BY <1>1, <1>2 DEF Pager!TypeOK, Pager!Ordered
<1>5. TypeOK
  BY <1>1, <1>4 DEF TypeOK, Places, Refs
<1>6. Counted /\ active_requests = Cardinality(Generating)
  BY <1>1, <1>2, <1>3, FS_EmptySet DEF Counted
<1>7. GpuBounded
  <2>1. GpuUsed = 0 /\ Budget \in Nat \ {0} /\ PageSize \in Nat \ {0}
    BY <1>2, BudgetAssumption, FS_EmptySet DEF GpuUsed
  <2> QED
    BY <2>1 DEF GpuBounded
<1>8. HandlesNamed /\ TenantIsolation
  BY <1>1 DEF HandlesNamed, TenantIsolation
<1> QED
  BY <1>1, <1>2, <1>3, <1>5, <1>6, <1>7, <1>8 DEF IndInv, RequestsAccounted, Generating

LEMMA NextInvariant == IndInv /\ [Next]_vars => IndInv'
<1> SUFFICES ASSUME IndInv, [Next]_vars
             PROVE  IndInv'
  OBVIOUS
<1>1. CASE UNCHANGED vars
  <2>1. /\ UNCHANGED <<ask, mode, dev, pc, active_requests, allocations, prefixes, hit>>
        /\ UNCHANGED pagerVars
    BY <1>1 DEF vars
  <2>2. TypeOK /\ Pager!TypeOK
    BY DEF IndInv, RequestsAccounted, TypeOK
  <2>3. /\ Pager!Registered' = Pager!Registered /\ resident' = resident
        /\ Pager!OnTier("gpu")' = Pager!OnTier("gpu")
        /\ Pager!TypeOK'
    BY <2>1, <2>2, PagesUntouched
  <2>4. TypeOK'
    BY <2>1, <2>2, <2>3 DEF TypeOK
  <2> QED
    BY <2>1, <2>3, <2>4 DEF IndInv, RequestsAccounted, GpuBounded, GpuUsed, TenantIsolation,
                           HandlesNamed, Counted, InFlight, Lost, Generating
<1> QED
  BY <1>1, AdmitInvariant, LostInvariant, EnterStreamInvariant, FinallyInvariant DEF Next, Idle

\* The control plane's invariant, however requests interleave and end.
THEOREM ServerInStep == Spec => []IndInv
BY InitInvariant, NextInvariant, PTL DEF Spec

\* While a request is in flight it has its allocation and, with the dev backend, its page in
\* memory; afterwards only a request that never reached its finally block has anything left;
\* and the policy's active_requests is the number of requests at a backend.
THEOREM Accounts == Spec => []RequestsAccounted
<1>1. IndInv => RequestsAccounted
  BY DEF IndInv
<1> QED
  BY <1>1, ServerInStep, PTL

\* The GPU tier passes the pressure at which pages go to the CPU by less than one page.
THEOREM GpuHeld == Spec => []GpuBounded
<1>1. IndInv => GpuBounded
  BY DEF IndInv
<1> QED
  BY <1>1, ServerInStep, PTL

\* No request is given a handle to the KV of another tenant.
THEOREM TenantsApart == Spec => []TenantIsolation
<1>1. IndInv => TenantIsolation
  BY DEF IndInv
<1> QED
  BY <1>1, ServerInStep, PTL
===============================================================================
