------------------------------ MODULE KVPager ------------------------------
(***************************************************************************)
(* The pages of the KV store: kvserve/kv/paging.py, class KVPager.  A page *)
(* is a block of one request's KV on one of three tiers.  The GPU and CPU  *)
(* tiers keep its payload in memory, the NVMe tier in a file written       *)
(* beside its name and moved into place.                                   *)
(*                                                                         *)
(* The pager is called from one thread and never yields, so a call is one  *)
(* action; but a call that reads or writes files may raise half way, and   *)
(* the pages it has moved by then stay moved.                              *)
(***************************************************************************)
EXTENDS Naturals, FiniteSetsExt

CONSTANTS
  Pages,        \* page ids; each is used once, as the code draws them at random
  Requests,
  Owner,        \* page -> request_id
  Size,         \* page -> size_bytes
  Start, End,  \* page -> token_start, token_end
  MaxBytes      \* bound of the model: bytes asked of an eviction

ASSUME OwnerAssumption == Owner \in [Pages -> Requests]
ASSUME SizeAssumption == Size \in [Pages -> Nat \ {0}] /\ MaxBytes \in Nat
ASSUME SpanAssumption == Start \in [Pages -> Nat] /\ End \in [Pages -> Nat]

VARIABLES
  tier,      \* page -> its tier, or "new" or "gone" for one that is not in self.pages
  resident,  \* pages whose payload is in memory
  files,     \* pages with a path and the .npz file it names
  scraps,    \* .tmp files of writes that failed
  earlier    \* registered page -> those whose last_accessed_at is before its own

pagerVars == <<tier, resident, files, scraps, earlier>>

Tiers == {"gpu", "cpu", "nvme"}
Registered == {p \in Pages : tier[p] \in Tiers}
OnTier(t) == {p \in Pages : tier[p] = t}

\* before[p], for p in S, is what comes before p when S is put in some order.
Ordered(before, S) ==
  /\ \A p \in S : p \notin before[p]
  /\ \A p, q \in S : p = q \/ p \in before[q] \/ q \in before[p]
  /\ \A p, q \in S : p \in before[q] => before[p] \subseteq before[q]
Orders(S) == {before \in [S -> SUBSET S] : Ordered(before, S)}

TypeOK ==
  /\ tier \in [Pages -> Tiers \cup {"new", "gone"}]
  /\ resident \subseteq Pages /\ files \subseteq Pages /\ scraps \subseteq Pages
  /\ earlier \in [Pages -> SUBSET Registered]
  /\ Ordered(earlier, Registered)
  /\ \A p \in Pages \ Registered : earlier[p] = {}

Init ==
  /\ tier = [p \in Pages |-> "new"]
  /\ resident = {} /\ files = {} /\ scraps = {} /\ earlier = [p \in Pages |-> {}]

-----------------------------------------------------------------------------
\* The pages of S have been accessed in the order of `before'.
Touched(S, before) ==
  [p \in Pages |-> IF p \in S THEN (Registered \ S) \cup (before[p] \cap S) ELSE earlier[p] \ S]

\* _write_to_nvme writes nothing when there is no payload.
Written(moved, t) == IF t = "nvme" THEN moved \cap resident ELSE {}
\* _write_to_nvme or _read_from_nvme may raise for a page on its way to tier t.
UsesFile(p, t) == IF t = "nvme" THEN p \in resident ELSE p \notin resident
\* ... and _read_from_nvme must, without a path.
Unreadable(p, t) == t # "nvme" /\ p \notin resident \cup files

\* What `move' has done to the pages of S, taken in some order, when it is through with
\* them or when it raises: `moved' were moved, `at' is the page that raised, if one did.
Stopped(S, before) ==
  {[moved |-> S, at |-> {}]} \cup {[moved |-> S \cap before[p], at |-> {p}] : p \in S}

\* Mutant of MoveInOrder: the payload of a demoted page is dropped before its file is written.
MoveEagerly(S, before, t) ==
  \E stop \in Stopped(S, before) :
    /\ \A p \in stop.at : UsesFile(p, t)
    /\ \A p \in stop.moved : ~Unreadable(p, t)
    /\ tier' = [p \in Pages |-> IF p \in stop.moved THEN t ELSE tier[p]]
    /\ files' = files \cup Written(stop.moved, t)
    /\ resident' = IF t = "nvme" THEN resident \ S ELSE resident \cup stop.moved
    /\ scraps' = (scraps \ Written(stop.moved, t)) \cup (IF t = "nvme" THEN stop.at ELSE {})
    /\ earlier' = Touched(stop.moved, before)
\* move, for one page after another: all of S, or those before the one that raises.
MoveInOrder(S, before, t) ==
  \E stop \in Stopped(S, before) :
    /\ \A p \in stop.at : UsesFile(p, t)
    /\ \A p \in stop.moved : ~Unreadable(p, t)
    /\ tier' = [p \in Pages |-> IF p \in stop.moved THEN t ELSE tier[p]]
    /\ files' = files \cup Written(stop.moved, t)
    /\ resident' = IF t = "nvme" THEN resident \ stop.moved ELSE resident \cup stop.moved
    /\ scraps' = (scraps \ Written(stop.moved, t)) \cup (IF t = "nvme" THEN stop.at ELSE {})
    /\ earlier' = Touched(stop.moved, before)

\* delete
Drop(gone) ==
  /\ tier' = [p \in Pages |-> IF p \in gone THEN "gone" ELSE tier[p]]
  /\ resident' = resident \ gone
  /\ files' = files \ gone
  /\ earlier' = [p \in Pages |-> IF p \in gone THEN {} ELSE earlier[p] \ gone]
  /\ UNCHANGED scraps

-----------------------------------------------------------------------------
\* A page put on the NVMe tier keeps its payload; it is registered even if its file
\* cannot be written.
Put(p, t) ==
  /\ tier[p] = "new"
  /\ tier' = [tier EXCEPT ![p] = t]
  /\ resident' = resident \cup {p}
  /\ earlier' = [earlier EXCEPT ![p] = Registered]
  /\ \/ /\ files' = IF t = "nvme" THEN files \cup {p} ELSE files
        /\ UNCHANGED scraps
     \/ /\ t = "nvme"
        /\ scraps' = scraps \cup {p}
        /\ UNCHANGED files

\* get: the access counts even if the read raises.
Get(p) ==
  /\ p \in Registered
  /\ \/ /\ p \in resident \/ (tier[p] = "nvme" /\ p \in files)
        /\ resident' = resident \cup {p}
     \/ p \notin resident /\ UNCHANGED resident
  /\ earlier' = Touched({p}, earlier)
  /\ UNCHANGED <<tier, files, scraps>>

Move(p, t) ==
  /\ p \in Registered
  /\ tier[p] # t
  /\ MoveInOrder({p}, earlier, t)

Delete(p) ==
  /\ p \in Registered
  /\ Drop({p})

\* Mutant: candidates sorted the other way round.
NewestFirst(t) == [p \in OnTier(t) |-> {q \in OnTier(t) : p \in earlier[q]}]
\* The pages of a tier, the least recently used first.
Candidates(t) == [p \in OnTier(t) |-> earlier[p] \cap OnTier(t)]

\* Bytes freed by the eviction of S, and by then the loop stops at the next candidate.
Freed(S) == MapThenSumSet(LAMBDA p : Size[p], S)
Enough(p, t, needed) == Freed(Candidates(t)[p]) >= needed
Victims(t, needed) ==
  {p \in OnTier(t) : \A q \in Candidates(t)[p] \cup {p} : ~Enough(q, t, needed)}

EvictLru(t, needed) ==
  CASE t = "gpu" -> MoveInOrder(Victims(t, needed), Candidates(t), "cpu")
    [] t = "cpu" -> MoveInOrder(Victims(t, needed), Candidates(t), "nvme")
    [] t = "nvme" -> Drop(Victims(t, needed))

\* Pages that overlap the window go to the GPU, in the order they were put: any order here.
Window(request, position, tokens) ==
  {p \in Registered : Owner[p] = request /\ Start[p] <= position + tokens /\ End[p] >= position}
Prefetch(request, position, tokens) ==
  LET below == Window(request, position, tokens) \ OnTier("gpu")
  IN  \E before \in Orders(below) : MoveInOrder(below, before, "gpu")

Positions == UNION {{Start[p], End[p]} : p \in Pages}

Next ==
  \/ \E p \in Pages, t \in Tiers : Put(p, t) \/ Move(p, t)
  \/ \E p \in Pages : Get(p) \/ Delete(p)
  \/ \E t \in Tiers, needed \in 0..MaxBytes : EvictLru(t, needed)
  \/ \E r \in Requests, position, tokens \in Positions : Prefetch(r, position, tokens)

Spec == Init /\ [][Next]_pagerVars

-----------------------------------------------------------------------------
\* A registered page can be read, "has no resident payload" and "has no NVMe path" never
\* raise: no order of demotions, promotions, reads, evictions and failures loses a payload.
Readable == \A p \in Registered : p \in resident \cup files

\* What is on the GPU or CPU tier is in memory, so that its demotion can write it.
HotPagesResident == OnTier("gpu") \cup OnTier("cpu") \subseteq resident

\* The directory holds no page file that nothing refers to; scraps are another matter.
NoOrphanFile == files \subseteq Registered

\* Whatever moves, reads, evictions and failed writes follow one another, and whichever
\* page of several they stop at, no page loses its payload or leaves a file behind.
PagesKept == TypeOK /\ Readable /\ HotPagesResident /\ NoOrphanFile

\* docs/kv-control-plane.md "Eviction is LRU by tier": no page is evicted while one of the
\* same tier that was not used since stays, also when the eviction raises half way.  An
\* eviction from the GPU, whose demotions to CPU memory cannot fail, frees the bytes it was
\* asked for, or all there are.
EvictsAsAsked ==
  [][\A t \in Tiers, needed \in 0..MaxBytes : EvictLru(t, needed) =>
       /\ \A p, q \in OnTier(t) : (tier'[p] # t /\ q \in earlier[p]) => tier'[q] # t
       /\ t = "gpu" =>
            \/ OnTier("gpu")' = {}
            \/ Freed(OnTier("gpu") \ OnTier("gpu")') >= needed]_pagerVars
=============================================================================
