----------------------------- MODULE KVControl -----------------------------
(***************************************************************************)
(* Chat requests and their KV: kvserve/orchestrator.py on top of           *)
(* kvserve/kv/control_plane.py, with the pager (KVPager) and the prefix    *)
(* index (kvserve/kv/prefix.py).                                           *)
(*                                                                         *)
(* The server is one asyncio loop: a request runs from one await, or one   *)
(* yield of its stream, to the next without another in between, so that    *)
(* stretch is one action.  A stream that is closed (its client has gone)   *)
(* or whose backend raises leaves at the yield or await it is suspended    *)
(* at, through the finally blocks it is in.                                *)
(***************************************************************************)
EXTENDS Integers, FiniteSets

CONSTANTS
  Requests, Tenants, Prompts,
  Near,            \* pairs of prompts within near_match_hamming of each other
  PageSize,        \* bytes of a request's KV, which is one page
  Budget,          \* gpu_budget_bytes
  HighConcurrency, \* 16 in policy.py
  NoRef,
  Modes            \* policy modes the model may be registered with

ASSUME NearAssumption == Near \subseteq Prompts \X Prompts
ASSUME BudgetAssumption ==
  PageSize \in Nat \ {0} /\ Budget \in Nat \ {0} /\ HighConcurrency \in Nat
ASSUME NoRefAssumption == NoRef \notin Requests
ASSUME ModesAssumption ==
  Modes \subseteq {"quality_first", "balanced", "memory_first", "throughput_first"}

VARIABLES
  ask,             \* request -> its tenant, prompt and whether it streams
  mode,            \* policy_mode of the model
  dev,             \* the dev backend, whose KV the control plane keeps
  pc,              \* request -> where its coroutine is suspended
  active_requests,
  allocations,     \* requests with an entry in KVControlPlane.allocations
  prefixes,        \* <<tenant, prompt>> of a PrefixHandle -> request whose KV its kv_ref names
  hit,             \* request -> the kv_ref of the handle it was admitted with
  tier, resident, files, scraps, earlier  \* the pager's; a request's page bears its name

pagerVars == <<tier, resident, files, scraps, earlier>>
vars == <<ask, mode, dev, pc, active_requests, allocations, prefixes, hit, pagerVars>>

Pager == INSTANCE KVPager WITH
  Pages <- Requests, Owner <- [r \in Requests |-> r], Size <- [r \in Requests |-> PageSize],
  Start <- [r \in Requests |-> 0], End <- [r \in Requests |-> 1], MaxBytes <- 0

\* Prompts stand for their normalized hashes.
Keys == Tenants \X Prompts
Refs == Requests \cup {NoRef}

\* "first": a stream at its opening chunk.  "generate": inside the try block.  "closed"
\* and "failed" are requests that ended before it, "done" those that ended through it.
Places == {"new", "first", "generate", "closed", "failed", "done"}

TypeOK ==
  /\ ask \in [Requests -> [key : Keys, stream : BOOLEAN]]
  /\ mode \in Modes /\ dev \in BOOLEAN
  /\ pc \in [Requests -> Places]
  /\ active_requests \in Nat
  /\ allocations \subseteq Requests
  /\ prefixes \in [Keys -> Refs] /\ hit \in [Requests -> Refs]
  /\ Pager!TypeOK

Init ==
  /\ ask \in [Requests -> [key : Keys, stream : BOOLEAN]]
  /\ mode \in Modes /\ dev \in BOOLEAN
  /\ pc = [r \in Requests |-> "new"]
  /\ active_requests = 0 /\ allocations = {}
  /\ prefixes = [key \in Keys |-> NoRef] /\ hit = [r \in Requests |-> NoRef]
  /\ Pager!Init

-----------------------------------------------------------------------------
GpuUsed == PageSize * Cardinality(Pager!OnTier("gpu"))
PressureBelow(percent) == 100 * GpuUsed < percent * Budget
Busy == active_requests >= HighConcurrency

\* Mutant of PageToCpu: no emergency branch.
PageToCpuByMode ==
  /\ ~(mode = "quality_first" /\ PressureBelow(72) /\ ~Busy)
  /\ mode = "memory_first"
\* KVPolicyEngine.decide, as far as it decides where a page goes (nothing reads page_to_nvme).
PageToCpu ==
  /\ ~(mode = "quality_first" /\ PressureBelow(72) /\ ~Busy)
  /\ \/ mode = "memory_first"
     \/ ~PressureBelow(86)
     \/ ~PressureBelow(80) /\ (mode = "throughput_first" \/ Busy)

\* Mutant: the candidates of all tenants are compared.
HandlesOfAll(key) ==
  {prefixes[other] : other \in {k \in Keys : <<key[2], k[2]>> \in Near}} \ {NoRef}
NearHandles(key) ==
  {prefixes[other] : other \in {k \in Keys : k[1] = key[1] /\ <<key[2], k[2]>> \in Near}} \ {NoRef}

\* lookup: the tenant's handle of the same prompt, else the nearest of the tenant's.
Lookup(key) ==
  IF prefixes[key] # NoRef THEN {prefixes[key]}
  ELSE IF NearHandles(key) # {} THEN NearHandles(key) ELSE {NoRef}

\* admit: the pressure is read, the prefix looked up and the allocation entered.
Admitted(r) ==
  /\ pc[r] = "new"
  /\ hit' \in {[hit EXCEPT ![r] = ref] : ref \in Lookup(ask[r].key)}
  /\ allocations' = allocations \cup {r}
  /\ UNCHANGED <<ask, mode, dev, prefixes>>

\* store_kv, which is called for the dev backend only; pruning and compression change how
\* many bytes a page has, here always PageSize.
StoreKV(r) ==
  IF dev THEN Pager!Put(r, IF PageToCpu THEN "cpu" ELSE "gpu") ELSE UNCHANGED pagerVars

\* complete_chat and stream_chat up to where they are suspended for the first time.
Admit(r) ==
  /\ Admitted(r)
  /\ StoreKV(r)
  /\ IF ask[r].stream
     THEN pc' = [pc EXCEPT ![r] = "first"] /\ UNCHANGED active_requests
     ELSE pc' = [pc EXCEPT ![r] = "generate"] /\ active_requests' = active_requests + 1

\* The quantization planner, or pruning and compressing the KV, raises after that.
AdmissionFails(r) ==
  /\ Admitted(r)
  /\ pc' = [pc EXCEPT ![r] = "failed"]
  /\ UNCHANGED <<active_requests, pagerVars>>

\* The client has taken the opening chunk.
EnterStream(r) ==
  /\ pc[r] = "first"
  /\ pc' = [pc EXCEPT ![r] = "generate"]
  /\ active_requests' = active_requests + 1
  /\ UNCHANGED <<ask, mode, dev, allocations, prefixes, hit, pagerVars>>

\* The client has gone: GeneratorExit at a yield that is in no try block.
CloseAtFirstChunk(r) ==
  /\ pc[r] = "first"
  /\ pc' = [pc EXCEPT ![r] = "closed"]
  /\ UNCHANGED <<ask, mode, dev, active_requests, allocations, prefixes, hit, pagerVars>>

\* record_prefix and insert: a new handle, or the old one with a new kv_ref.
Recorded(r) == [prefixes EXCEPT ![ask[r].key] = r]

\* Mutant of Release: the page leaves the registry and stays in memory.
ReleaseEntry(r) ==
  IF r \in Pager!Registered
  THEN tier' = [tier EXCEPT ![r] = "gone"] /\ UNCHANGED <<resident, files, scraps, earlier>>
  ELSE UNCHANGED pagerVars
\* release
Release(r) == IF r \in Pager!Registered THEN Pager!Delete(r) ELSE UNCHANGED pagerVars

\* The finally block: the backend has answered, raised or been cancelled, or the client
\* was found to be gone, or the stream was closed at one of its chunks.
Finally(r) ==
  /\ pc[r] = "generate"
  /\ pc' = [pc EXCEPT ![r] = "done"]
  /\ active_requests' = active_requests - 1
  /\ prefixes' = Recorded(r)
  /\ allocations' = allocations \ {r}
  /\ Release(r)
  /\ UNCHANGED <<ask, mode, dev, hit>>

Idle == (\A r \in Requests : pc[r] \in {"closed", "failed", "done"}) /\ UNCHANGED vars

Next ==
  \/ \E r \in Requests :
       \/ Admit(r) \/ AdmissionFails(r)
       \/ EnterStream(r) \/ CloseAtFirstChunk(r)
       \/ Finally(r)
  \/ Idle

Spec == Init /\ [][Next]_vars

-----------------------------------------------------------------------------
InFlight == {r \in Requests : pc[r] \in {"first", "generate"}}
Lost == {r \in Requests : pc[r] \in {"closed", "failed"}}

\* A request has its allocation, and on the dev backend its page, as long as it is in
\* flight, whatever the others do; afterwards nothing of it is left, in the registry or in
\* memory, unless it ended before the try block whose finally releases it.  The concurrency
\* the policy decides on is the number of requests at a backend, however each of the others
\* ended.
RequestsAccounted ==
  /\ TypeOK
  /\ allocations = InFlight \cup Lost
  /\ Pager!Registered \subseteq allocations
  /\ resident = Pager!Registered
  /\ dev => InFlight \subseteq Pager!Registered
  /\ active_requests = Cardinality({r \in Requests : pc[r] = "generate"})

\* KV on the GPU passes the 86 percent at which every policy pages to the CPU by less than one
\* page: the pressure is read and the page stored without an await in between.
GpuBounded == 100 * GpuUsed < 86 * Budget + 100 * PageSize

\* docs/kv-control-plane.md "No candidate from one tenant can be returned to another
\* tenant": also among near matches.
TenantIsolation == \A r \in Requests : hit[r] # NoRef => ask[hit[r]].key[1] = ask[r].key[1]

\* docs/architecture.md "Tenant-safe prefix index for exact and near-prefix KV reuse": the
\* KV a handle names exists.
PrefixesUsable == \A key \in Keys : prefixes[key] # NoRef => prefixes[key] \in allocations
=============================================================================
