------------------------- MODULE ShardServing_proofs -------------------------
(* Proofs about ShardServing, for any number of requests, shards, positions   *)
(* and tokens, any residency limits and prompt lengths.                       *)
EXTENDS ShardServing, FiniteSetTheorems, TLAPS

\* The records a request can be.
Places == {"enter", "hit", "miss", "build", "touch", "put", "evict", "mark", "enforce", "use"}

Running ==
  [at : Places, todo : Seq(Stores) \ {<<>>}, shard : Shards,
   held : {"none", "cached", "own", "moved"}, prompt : Nat, new : Nat, kv : BOOLEAN,
   keys : {<<>>} \cup (Nat \X Nat), sampled : Seq(Nat \X Nat), overlapped : BOOLEAN]

Answered == [at : {"done"}, answer : {"ok"}, prompt : Nat, sampled : Seq(Nat \X Nat)]
Errors   == {"error", "non-finite logits"}
Failed   == [at : {"done"}, answer : Errors, overlapped : BOOLEAN]
Rejected == [at |-> "done", answer |-> "rejected"]

\* The tokens a request has were sampled from the right positions, and where it
\* has a KV cache, that holds every position but the next, with room for it.
InContext(q) ==
  \A i \in DOMAIN q.sampled : q.sampled[i] = Window(q.prompt + i - 1)

KeysHeld(q) ==
  \/ Slides(q)
  \/ q.keys = <<>> /\ q.sampled = <<>>
  \/ q.keys = <<1, Ids(q) - 1>> /\ Ids(q) - 1 < Positions

Lawful(q) == \/ q \in Running /\ InContext(q) /\ KeysHeld(q)
             \/ q \in Answered /\ InContext(q)
             \/ q \in Failed \cup {New, Rejected}

RequestsOK ==
  /\ DOMAIN request = Requests
  /\ request = [r \in Requests |-> request[r]]
  /\ \A r \in Requests : Lawful(request[r])

StoresOK ==
  /\ config \in Settings
  /\ active \in [Stores -> SUBSET Shards]
  /\ cached \in [Stores -> UNION {[m -> SUBSET Shards] : m \in SUBSET Shards}]

\* Two requests in flight know of each other.
Company ==
  \A r, o \in Requests :
    r # o /\ InFlight(r) /\ InFlight(o) => request[r].overlapped

\* The module that r has found is where it was found, or put.
Newest(r) == /\ Shard(r) \in DOMAIN cached[Store(r)]
             /\ cached[Store(r)][Shard(r)] = DOMAIN cached[Store(r)] \ {Shard(r)}
Sound(r)  == /\ request[r].held # "moved"
             /\ request[r].at \in {"hit", "touch"} => IsCached(r)
             /\ request[r].at = "evict" => Newest(r)

\* Nothing has touched the module that a request without company has found.
Unhurt == \A r \in Requests : InFlight(r) /\ ~request[r].overlapped => Sound(r)

IndInv == /\ RequestsOK /\ StoresOK /\ Company /\ Unhurt
          /\ ResidencyHeld /\ ErrorsNeedCompany

-------------------------------------------------------------------------------
(* Records *)

LEMMA Sizes ==
  /\ NumShards \in Nat /\ NumShards > 0 /\ Positions \in Nat /\ Positions > 0
  /\ MaxNew \in Nat /\ MaxNew > 0
  /\ \A c \in Settings : c.limit \in Nat /\ c.limit > 0
  /\ \A n \in Prompts : n \in Nat
BY ServingAssumption

LEMMA RunningFields ==
  ASSUME NEW q \in Running
  PROVE  /\ q.at \in Places /\ q.at \notin {"new", "done"}
         /\ q.todo \in Seq(Stores) /\ q.todo # <<>> /\ Head(q.todo) \in Stores
         /\ q.shard \in Shards /\ q.held \in {"none", "cached", "own", "moved"}
         /\ q.prompt \in Nat /\ q.new \in Nat /\ q.kv \in BOOLEAN
         /\ q.keys \in {<<>>} \cup (Nat \X Nat)
         /\ q.sampled \in Seq(Nat \X Nat)
         /\ q.overlapped \in BOOLEAN
BY DEF Running, Places

\* A request is in flight exactly if its record is one of a running handler.
LEMMA FlightIsRunning ==
  ASSUME RequestsOK, NEW r \in Requests
  PROVE  /\ InFlight(r) => request[r] \in Running /\ InContext(request[r]) /\ KeysHeld(request[r])
         /\ ~InFlight(r) => request[r].at \in {"new", "done"}
<1>1. Lawful(request[r])
  BY DEF RequestsOK
<1>2. InFlight(r) => request[r] \notin Answered \cup Failed \cup {New, Rejected}
  BY DEF InFlight, Answered, Failed, New, Rejected
<1> QED
  BY <1>1, <1>2 DEF Lawful, InFlight

\* What is sampled, and from what, survives a step that leaves it alone.
SameText(p, q) ==
  /\ p.prompt = q.prompt /\ p.sampled = q.sampled
  /\ p.keys = q.keys /\ p.kv = q.kv

LEMMA TextKept ==
  ASSUME NEW q \in Running, NEW p \in Running, InContext(q), KeysHeld(q), SameText(p, q)
  PROVE  Lawful(p)
BY DEF Lawful, InContext, KeysHeld, SameText, Slides, Ids

-------------------------------------------------------------------------------
(* The steps of a handler *)

\* Only r has gone on, or ended; the others are where they were.
Continues(r) ==
  /\ InFlight(r) /\ (InFlight(r)' => request'[r].overlapped = request[r].overlapped)
  /\ \A o \in Requests \ {r} :
       \/ request'[o] = request[o]
       \/ /\ InFlight(o) /\ InFlight(o)'
          /\ request'[o].at = request[o].at /\ request'[o].todo = request[o].todo
          /\ request'[o].shard = request[o].shard
          /\ request'[o].overlapped = request[o].overlapped

\* r is at another place of the same pass.
Moved(r, at, held) ==
  /\ RequestsOK' /\ Continues(r) /\ InFlight(r)'
  /\ request'[r].at = at /\ request'[r].held = held
  /\ request'[r].todo = request[r].todo /\ request'[r].shard = request[r].shard

LEMMA GoesMoves ==
  ASSUME RequestsOK, NEW r \in Requests, InFlight(r), NEW at \in Places,
         NEW held \in {"none", "cached", "own", "moved"}, Goes(r, at, held)
  PROVE  Moved(r, at, held)
<1> DEFINE p == [request[r] EXCEPT !.at = at, !.held = held]
<1>1. request[r] \in Running /\ InContext(request[r]) /\ KeysHeld(request[r])
  BY FlightIsRunning
<1>2. request' = [request EXCEPT ![r] = p]
  BY DEF Goes
<1>3. p \in Running
  BY <1>1 DEF Running
<1>4. SameText(p, request[r]) /\ p.at = at /\ p.held = held /\ p.todo = request[r].todo
        /\ p.shard = request[r].shard /\ p.overlapped = request[r].overlapped
  BY <1>1 DEF SameText, Running
<1>5. Lawful(p)
  BY <1>1, <1>3, <1>4, TextKept
<1>6. request'[r] = p /\ \A o \in Requests \ {r} : request'[o] = request[o]
  BY <1>2 DEF RequestsOK
<1>7. RequestsOK'
  <2>1. DOMAIN request' = Requests /\ request' = [o \in Requests |-> request'[o]]
    BY <1>2 DEF RequestsOK
  <2> HIDE DEF p
  <2>2. \A o \in Requests : Lawful(request'[o])
    BY <1>5, <1>6 DEF RequestsOK
  <2> QED
    BY <2>1, <2>2 DEF RequestsOK, Lawful
<1>8. p.at \notin {"new", "done"}
  BY <1>3, RunningFields
<1> HIDE DEF p
<1> QED
  BY <1>4, <1>6, <1>7, <1>8 DEF Moved, Continues, InFlight

\* r has ended without an answer.
Ended(r, answer) ==
  /\ RequestsOK' /\ Continues(r) /\ ~InFlight(r)'
  /\ request'[r].at = "done" /\ request'[r].answer = answer
  /\ request'[r].overlapped = request[r].overlapped

LEMMA RaisesEnds ==
  ASSUME RequestsOK, NEW r \in Requests, InFlight(r), NEW answer \in Errors, Raises(r, answer)
  PROVE  Ended(r, answer)
<1> DEFINE p == [at |-> "done", answer |-> answer, overlapped |-> request[r].overlapped]
<1>1. request[r] \in Running
  BY FlightIsRunning
<1>2. request' = [request EXCEPT ![r] = p]
  BY DEF Raises
<1>3. p \in Failed /\ p.at = "done" /\ p.answer = answer /\ p.overlapped = request[r].overlapped
  BY <1>1, RunningFields DEF Failed
<1>4. request'[r] = p /\ \A o \in Requests \ {r} : request'[o] = request[o]
  BY <1>2 DEF RequestsOK
<1>5. RequestsOK'
  <2>1. DOMAIN request' = Requests /\ request' = [o \in Requests |-> request'[o]]
    BY <1>2 DEF RequestsOK
  <2> HIDE DEF p
  <2>2. \A o \in Requests : Lawful(request'[o])
    BY <1>3, <1>4 DEF RequestsOK, Lawful
  <2> QED
    BY <2>1, <2>2 DEF RequestsOK, Lawful
<1> HIDE DEF p
<1> QED
  BY <1>3, <1>4, <1>5 DEF Ended, Continues, InFlight

-------------------------------------------------------------------------------
(* Residency *)

Users(k) == {x \in Requests : Inside(x, k)}

LEMMA WhatIsOpen ==
  ASSUME RequestsOK, StoresOK, NEW r \in Requests, InFlight(r)
  PROVE  /\ Store(r) \in Stores /\ Shard(r) \in Shards
         /\ config.limit \in Nat /\ config.limit > 0
         /\ active[Store(r)] \subseteq Shards /\ DOMAIN cached[Store(r)] \subseteq Shards
         /\ IsFiniteSet(active[Store(r)]) /\ IsFiniteSet(DOMAIN cached[Store(r)])
<1>1. request[r] \in Running
  BY FlightIsRunning
<1>2. Store(r) \in Stores /\ Shard(r) \in Shards
  BY <1>1, RunningFields DEF Store, Shard
<1>3. config.limit \in Nat /\ config.limit > 0
  BY Sizes DEF StoresOK
<1>4. active[Store(r)] \subseteq Shards /\ DOMAIN cached[Store(r)] \subseteq Shards
  BY <1>2 DEF StoresOK
<1>5. IsFiniteSet(Shards)
  BY Sizes, FS_Interval DEF Shards
<1> QED
  BY <1>2, <1>3, <1>4, <1>5, FS_Subset

\* Whoever is inside keeps its store and its shard.
LEMMA SameUsers ==
  ASSUME StoresOK, ResidencyHeld, UNCHANGED <<config, active>>,
         \A x \in Requests, k \in Stores : Inside(x, k)' <=> Inside(x, k),
         \A x \in Requests, k \in Stores : Inside(x, k) =>
           /\ Shard(x)' = Shard(x)
           /\ request'[x].at = "use" => request[x].at = "use"
  PROVE  ResidencyHeld'
<1> SUFFICES ASSUME NEW k \in Stores
             PROVE  /\ active'[k] = {Shard(r)' : r \in {x \in Requests : Inside(x, k)'}}
                    /\ \A r, o \in Requests :
                         Inside(r, k)' /\ Inside(o, k)' /\ Shard(r)' = Shard(o)' => r = o
                    /\ Cardinality({r \in Requests : Inside(r, k)' /\ request'[r].at = "use"})
                         <= config'.limit
  BY DEF ResidencyHeld
<1>1. {x \in Requests : Inside(x, k)'} = Users(k)
  BY DEF Users
<1>2. {Shard(r)' : r \in Users(k)} = {Shard(r) : r \in Users(k)}
  BY DEF Users
<1>3. active[k] = {Shard(r) : r \in Users(k)}
  BY DEF ResidencyHeld, Users
<1> DEFINE using == {r \in Requests : Inside(r, k) /\ request[r].at = "use"}
           uses  == {r \in Requests : Inside(r, k)' /\ request'[r].at = "use"}
<1>4. uses \subseteq using
  OBVIOUS
<1>5. Cardinality(using) <= config.limit
  BY DEF ResidencyHeld
<1>6. IsFiniteSet(using)
  BY FS_Subset, ServingAssumption
<1>7. Cardinality(uses) <= config'.limit
  <2>1. config.limit \in Nat
    BY Sizes DEF StoresOK
  <2> HIDE DEF uses, using
  <2> QED
    BY <1>4, <1>5, <1>6, <2>1, FS_Subset, FS_CardinalityType
<1>8. \A r, o \in Requests :
        Inside(r, k)' /\ Inside(o, k)' /\ Shard(r)' = Shard(o)' => r = o
  BY DEF ResidencyHeld
<1> QED
  BY <1>1, <1>2, <1>3, <1>7, <1>8

\* The other requests are inside and compute as before.
OthersStay(r) ==
  \A x \in Requests \ {r}, k \in Stores :
    /\ Inside(x, k)' <=> Inside(x, k)
    /\ Inside(x, k) => /\ Shard(x)' = Shard(x)
                       /\ request'[x].at = "use" <=> request[x].at = "use"

LEMMA ContinuesOthers ==
  ASSUME NEW r \in Requests, Continues(r)
  PROVE  OthersStay(r)
BY DEF Continues, OthersStay, Inside, Store, Shard

\* Entering a shard that nobody is in.
LEMMA Entering ==
  ASSUME StoresOK, ResidencyHeld, NEW r \in Requests, NEW at \in Stores,
         OthersStay(r), \A k \in Stores : ~Inside(r, k),
         \A k \in Stores : Inside(r, k)' <=> k = at,
         request'[r].at # "use", Shard(r)' = Shard(r), Shard(r) \in Shards,
         Shard(r) \notin active[at], config' = config,
         active' = [active EXCEPT ![at] = @ \cup {Shard(r)}]
  PROVE  ResidencyHeld'
<1> SUFFICES ASSUME NEW k \in Stores
             PROVE  /\ active'[k] = {Shard(o)' : o \in {x \in Requests : Inside(x, k)'}}
                    /\ \A q, o \in Requests :
                         Inside(q, k)' /\ Inside(o, k)' /\ Shard(q)' = Shard(o)' => q = o
                    /\ Cardinality({o \in Requests : Inside(o, k)' /\ request'[o].at = "use"})
                         <= config'.limit
  BY DEF ResidencyHeld
<1> DEFINE entered == IF k = at THEN {r} ELSE {}
<1>1. {x \in Requests : Inside(x, k)'} = Users(k) \cup entered
  BY DEF Users, OthersStay
<1>2. \A x \in Users(k) : x # r /\ Shard(x)' = Shard(x)
  BY DEF Users, OthersStay
<1>3. active[k] = {Shard(o) : o \in Users(k)}
  BY DEF ResidencyHeld, Users
<1>4. active'[k] = active[k] \cup (IF k = at THEN {Shard(r)} ELSE {})
  BY DEF StoresOK
<1>5. active'[k] = {Shard(o)' : o \in Users(k) \cup entered}
  BY <1>2, <1>3, <1>4
<1>6. \A o \in Users(k) : k = at => Shard(o) # Shard(r)
  BY <1>3
<1>7. \A q, o \in Users(k) : Shard(q) = Shard(o) => q = o
  BY DEF ResidencyHeld, Users
<1>8. \A q, o \in Users(k) \cup entered : Shard(q)' = Shard(o)' => q = o
  BY <1>2, <1>6, <1>7
<1>9. {o \in Requests : Inside(o, k)' /\ request'[o].at = "use"}
        = {o \in Requests : Inside(o, k) /\ request[o].at = "use"}
  BY DEF OthersStay
<1>10. Cardinality({o \in Requests : Inside(o, k)' /\ request'[o].at = "use"}) <= config'.limit
  BY <1>9 DEF ResidencyHeld
<1> QED
  BY <1>1, <1>5, <1>8, <1>10

\* Leaving the shard that r is in.
LEMMA Leaving ==
  ASSUME StoresOK, ResidencyHeld, NEW r \in Requests, NEW at \in Stores,
         OthersStay(r), Inside(r, at), \A k \in Stores : ~Inside(r, k)',
         config' = config, active' = [active EXCEPT ![at] = @ \ {Shard(r)}]
  PROVE  ResidencyHeld'
<1> SUFFICES ASSUME NEW k \in Stores
             PROVE  /\ active'[k] = {Shard(o)' : o \in {x \in Requests : Inside(x, k)'}}
                    /\ \A q, o \in Requests :
                         Inside(q, k)' /\ Inside(o, k)' /\ Shard(q)' = Shard(o)' => q = o
                    /\ Cardinality({o \in Requests : Inside(o, k)' /\ request'[o].at = "use"})
                         <= config'.limit
  BY DEF ResidencyHeld
<1>1. {x \in Requests : Inside(x, k)'} = Users(k) \ {r}
  BY DEF Users, OthersStay
<1>2. \A x \in Users(k) \ {r} : Shard(x)' = Shard(x)
  BY DEF Users, OthersStay
<1>3. active[k] = {Shard(o) : o \in Users(k)}
  BY DEF ResidencyHeld, Users
<1>4. \A q, o \in Users(k) : Shard(q) = Shard(o) => q = o
  BY DEF ResidencyHeld, Users
<1>5. r \in Users(k) <=> k = at
  BY DEF Users, Inside
<1>6. active'[k] = active[k] \ (IF k = at THEN {Shard(r)} ELSE {})
  BY DEF StoresOK
<1>7. active'[k] = {Shard(o) : o \in Users(k) \ {r}}
  <2>1. CASE k = at
    BY <1>3, <1>4, <1>5, <1>6, <2>1
  <2>2. CASE k # at
    BY <1>3, <1>5, <1>6, <2>2
  <2> QED
    BY <2>1, <2>2
<1>8. active'[k] = {Shard(o)' : o \in Users(k) \ {r}}
  BY <1>2, <1>7
<1>9. \A q, o \in Users(k) \ {r} : Shard(q)' = Shard(o)' => q = o
  BY <1>2, <1>4
<1> DEFINE using == {o \in Requests : Inside(o, k) /\ request[o].at = "use"}
           uses  == {o \in Requests : Inside(o, k)' /\ request'[o].at = "use"}
<1>10. uses \subseteq using
  BY DEF OthersStay
<1>11. Cardinality(using) <= config.limit
  BY DEF ResidencyHeld
<1>12. IsFiniteSet(using)
  BY FS_Subset, ServingAssumption
<1>13. Cardinality(uses) <= config'.limit
  <2>1. config.limit \in Nat
    BY Sizes DEF StoresOK
  <2> HIDE DEF uses, using
  <2> QED
    BY <1>10, <1>11, <1>12, <2>1, FS_Subset, FS_CardinalityType
<1> QED
  BY <1>1, <1>8, <1>9, <1>13

\* As many requests are inside as shards are entered.
LEMMA UsersCounted ==
  ASSUME StoresOK, ResidencyHeld, NEW k \in Stores
  PROVE  /\ IsFiniteSet(Users(k)) /\ IsFiniteSet(active[k])
         /\ Cardinality(Users(k)) <= Cardinality(active[k])
<1>1. active[k] = {Shard(o) : o \in Users(k)}
  BY DEF ResidencyHeld, Users
<1>2. \A q, o \in Users(k) : Shard(q) = Shard(o) => q = o
  BY DEF ResidencyHeld, Users
<1>3. IsFiniteSet(active[k])
  <2>1. active[k] \subseteq Shards
    BY DEF StoresOK
  <2>2. IsFiniteSet(Shards)
    BY Sizes, FS_Interval DEF Shards
  <2> QED
    BY <2>1, <2>2, FS_Subset
<1> DEFINE f == [o \in Users(k) |-> Shard(o)]
<1>4. f \in [Users(k) -> active[k]]
  BY <1>1
<1>5. \A q, o \in Users(k) : f[q] = f[o] => q = o
  BY <1>2
<1> HIDE DEF f
<1>6. f \in Injection(Users(k), active[k])
  BY <1>4, <1>5 DEF Injection, IsInjective
<1> QED
  BY <1>3, <1>6, FS_Injection

\* Computing with the shard entered, once no more are entered than allowed.
LEMMA Computing ==
  ASSUME StoresOK, ResidencyHeld, NEW r \in Requests, NEW at \in Stores,
         OthersStay(r), \A k \in Stores : Inside(r, k) <=> k = at,
         \A k \in Stores : Inside(r, k)' <=> k = at, Shard(r)' = Shard(r),
         Cardinality(active[at]) <= config.limit, UNCHANGED <<config, active>>
  PROVE  ResidencyHeld'
<1> SUFFICES ASSUME NEW k \in Stores
             PROVE  /\ active'[k] = {Shard(o)' : o \in {x \in Requests : Inside(x, k)'}}
                    /\ \A q, o \in Requests :
                         Inside(q, k)' /\ Inside(o, k)' /\ Shard(q)' = Shard(o)' => q = o
                    /\ Cardinality({o \in Requests : Inside(o, k)' /\ request'[o].at = "use"})
                         <= config'.limit
  BY DEF ResidencyHeld
<1>1. \A x \in Requests : Inside(x, k)' <=> Inside(x, k)
  BY DEF OthersStay
<1>2. \A x \in Users(k) : Shard(x)' = Shard(x)
  BY DEF Users, OthersStay
<1>3. {x \in Requests : Inside(x, k)'} = Users(k)
  BY <1>1 DEF Users
<1>4. active[k] = {Shard(o) : o \in Users(k)}
  BY DEF ResidencyHeld, Users
<1>5. active'[k] = {Shard(o)' : o \in Users(k)}
  BY <1>2, <1>4
<1>6. \A q, o \in Users(k) : Shard(q)' = Shard(o)' => q = o
  BY <1>2 DEF ResidencyHeld, Users
<1> DEFINE using == {o \in Requests : Inside(o, k) /\ request[o].at = "use"}
           uses  == {o \in Requests : Inside(o, k)' /\ request'[o].at = "use"}
<1>7. CASE k = at
  <2>1. uses \subseteq Users(at)
    BY <1>3, <1>7
  <2>2. /\ IsFiniteSet(Users(at)) /\ IsFiniteSet(active[at])
        /\ Cardinality(Users(at)) <= Cardinality(active[at])
    BY UsersCounted
  <2>3. config.limit \in Nat
    BY Sizes DEF StoresOK
  <2> HIDE DEF uses, using
  <2>4. Cardinality(uses) <= config'.limit
    BY <2>1, <2>2, <2>3, FS_Subset, FS_CardinalityType
  <2> QED
    BY <1>3, <1>5, <1>6, <2>4 DEF uses
<1>8. CASE k # at
  <2>1. uses = using
    BY <1>8 DEF OthersStay
  <2>2. Cardinality(using) <= config.limit
    BY DEF ResidencyHeld
  <2>3. Cardinality(uses) <= config'.limit
    BY <2>1, <2>2
  <2> QED
    BY <1>3, <1>5, <1>6, <2>3
<1> QED
  BY <1>7, <1>8

-------------------------------------------------------------------------------
(* Company *)

\* A request without company is the only one in the store.
LEMMA Unopposed ==
  ASSUME RequestsOK, StoresOK, Company, ResidencyHeld, NEW r \in Requests,
         InFlight(r), ~request[r].overlapped
  PROVE  /\ request[r].at \notin {"enforce", "use"} => active[Store(r)] = {} /\ ~Refused(r)
         /\ request[r].at = "enforce" => ~OverLimit(r)
<1>1. \A o \in Requests : InFlight(o) => o = r
  <2>1. SUFFICES ASSUME NEW o \in Requests, InFlight(o), o # r PROVE FALSE
    OBVIOUS
  <2> QED
    BY <2>1 DEF Company
<1>2. \A o \in Requests, k \in Stores : Inside(o, k) => InFlight(o)
  BY DEF Inside, InFlight
<1>3. /\ Store(r) \in Stores /\ Shard(r) \in Shards
      /\ config.limit \in Nat /\ config.limit > 0
  BY WhatIsOpen
<1>4. Users(Store(r)) = IF request[r].at \in {"enforce", "use"} THEN {r} ELSE {}
  <2>1. Inside(r, Store(r)) <=> request[r].at \in {"enforce", "use"}
    BY DEF Inside
  <2>2. \A o \in Users(Store(r)) : o = r /\ Inside(r, Store(r))
    BY <1>1, <1>2, <1>3 DEF Users
  <2>3. Inside(r, Store(r)) => r \in Users(Store(r))
    BY DEF Users
  <2> QED
    BY <2>1, <2>2, <2>3
<1>5. active[Store(r)] = {Shard(o) : o \in Users(Store(r))}
  BY <1>3 DEF ResidencyHeld, Users
<1>6. request[r].at \notin {"enforce", "use"} => active[Store(r)] = {} /\ ~Refused(r)
  <2>1. Cardinality({}) = 0
    BY FS_EmptySet
  <2> QED
    BY <1>3, <1>4, <1>5, <2>1 DEF Refused
<1>7. request[r].at = "enforce" => ~OverLimit(r)
  <2>1. SUFFICES ASSUME request[r].at = "enforce" PROVE ~OverLimit(r)
    OBVIOUS
  <2>2. active[Store(r)] = {Shard(r)}
    BY <1>4, <1>5, <2>1
  <2>3. Cardinality({Shard(r)}) = 1
    BY FS_Singleton
  <2>4. NumShards > 1 => 1 \in Shards /\ 2 \in Shards
    BY Sizes DEF Shards
  <2> QED
    BY <1>3, <2>2, <2>3, <2>4 DEF OverLimit
<1> QED
  BY <1>6, <1>7

LEMMA CompanyKept ==
  ASSUME Company, NEW r \in Requests, Continues(r)
  PROVE  Company'
<1> SUFFICES ASSUME NEW q \in Requests, NEW o \in Requests, q # o, InFlight(q)', InFlight(o)'
             PROVE  request'[q].overlapped
  BY DEF Company
<1>1. \A x \in {q, o} : InFlight(x) /\ request'[x].overlapped = request[x].overlapped
  BY DEF Continues, InFlight
<1> QED
  BY <1>1 DEF Company

\* While r acts, only r can be without company.
LEMMA UnhurtKept ==
  ASSUME Company, NEW r \in Requests, Continues(r),
         InFlight(r)' /\ ~request[r].overlapped => Sound(r)'
  PROVE  Unhurt'
<1> SUFFICES ASSUME NEW o \in Requests, InFlight(o)', ~request'[o].overlapped
             PROVE  Sound(o)'
  BY DEF Unhurt
<1>1. CASE o = r
  BY <1>1 DEF Continues
<1>2. CASE o # r
  <2>1. InFlight(o) /\ request'[o].overlapped = request[o].overlapped
    BY <1>2 DEF Continues, InFlight
  <2>2. InFlight(r)
    BY DEF Continues
  <2> QED
    BY <1>2, <2>1, <2>2 DEF Company
<1> QED
  BY <1>1, <1>2

LEMMA ErrorsKept ==
  ASSUME ErrorsNeedCompany, NEW r \in Requests, Continues(r),
         request'[r].at = "done" /\ request'[r].answer = "error" => request'[r].overlapped
  PROVE  ErrorsNeedCompany'
BY DEF ErrorsNeedCompany, Continues, InFlight

-------------------------------------------------------------------------------
(* Steps between two shards *)

\* A step of r between shards, which neither enters nor leaves one.
LEMMA OutsideStep ==
  ASSUME IndInv, NEW r \in Requests, Continues(r), RequestsOK', StoresOK',
         request[r].at \notin {"enforce", "use"},
         request'[r].at \notin {"enforce", "use"}, UNCHANGED <<config, active>>,
         InFlight(r)' /\ ~request[r].overlapped => Sound(r)',
         request'[r].at = "done" /\ request'[r].answer = "error" => request'[r].overlapped
  PROVE  IndInv'
<1>1. Company' /\ Unhurt' /\ ErrorsNeedCompany'
  BY CompanyKept, UnhurtKept, ErrorsKept DEF IndInv
<1>2. OthersStay(r)
  BY ContinuesOthers
<1>3. \A x \in Requests, k \in Stores : Inside(x, k)' <=> Inside(x, k)
  BY <1>2 DEF OthersStay, Inside
<1>4. \A x \in Requests, k \in Stores : Inside(x, k) =>
        /\ Shard(x)' = Shard(x)
        /\ request'[x].at = "use" => request[x].at = "use"
  BY <1>2 DEF OthersStay, Inside
<1>5. ResidencyHeld'
  BY <1>3, <1>4, SameUsers DEF IndInv
<1> QED
  BY <1>1, <1>5 DEF IndInv

LEMMA StoresKept ==
  ASSUME StoresOK, UNCHANGED <<config, active, cached>>
  PROVE  StoresOK'
BY DEF StoresOK

\* An error of a request that had company.
LEMMA FailsOutside ==
  ASSUME IndInv, NEW r \in Requests, InFlight(r), Fails(r), request[r].overlapped,
         request[r].at \notin {"enforce", "use"}, UNCHANGED <<config, active, cached>>
  PROVE  IndInv'
<1>1. Ended(r, "error")
  BY RaisesEnds DEF IndInv, Fails, Errors
<1>2. StoresOK'
  BY StoresKept DEF IndInv
<1> QED
  BY <1>1, <1>2, OutsideStep DEF Ended

LEMMA StepEnter ==
  ASSUME IndInv, NEW r \in Requests, Enter(r)
  PROVE  IndInv'
<1>1. InFlight(r) /\ RequestsOK /\ request[r].at = "enter"
  BY DEF Enter, InFlight, IndInv
<1>2. StoresOK'
  BY StoresKept DEF Enter, IndInv
<1>3. CASE IsCached(r)
  <2>1. Moved(r, "hit", "cached")
    BY <1>1, <1>3, GoesMoves DEF Enter, Places
  <2>2. IsCached(r)'
    BY <1>3, <2>1 DEF Enter, IsCached, Moved, Store, Shard
  <2> QED
    BY <1>1, <1>2, <2>1, <2>2, OutsideStep DEF Moved, Enter, Sound
<1>4. CASE ~IsCached(r)
  <2>1. Moved(r, "miss", "none")
    BY <1>1, <1>4, GoesMoves DEF Enter, Places
  <2> QED
    BY <1>1, <1>2, <2>1, OutsideStep DEF Moved, Enter, Sound
<1> QED
  BY <1>3, <1>4

LEMMA StepCheckMiss ==
  ASSUME IndInv, NEW r \in Requests, CheckMiss(r)
  PROVE  IndInv'
<1>1. InFlight(r) /\ RequestsOK /\ request[r].at = "miss"
  BY DEF CheckMiss, InFlight, IndInv
<1>2. CASE Refused(r)
  <2>1. request[r].overlapped
    BY <1>1, <1>2, Unopposed, FlightIsRunning, RunningFields DEF IndInv
  <2> QED
    BY <1>1, <1>2, <2>1, FailsOutside DEF CheckMiss
<1>3. CASE ~Refused(r)
  <2>1. Moved(r, "build", "none")
    BY <1>1, <1>3, GoesMoves DEF CheckMiss, Places
  <2>2. StoresOK'
    BY StoresKept DEF CheckMiss, IndInv
  <2> QED
    BY <1>1, <2>1, <2>2, OutsideStep DEF Moved, CheckMiss, Sound
<1> QED
  BY <1>2, <1>3

LEMMA TouchedModules ==
  ASSUME NEW m \in SUBSET Shards, NEW c \in [m -> SUBSET Shards], NEW s \in Shards
  PROVE  /\ Touched(c, s) \in [m \cup {s} -> SUBSET Shards]
         /\ DOMAIN Touched(c, s) = m \cup {s} /\ Touched(c, s)[s] = m \ {s}
BY DEF Touched

LEMMA ModulesKept ==
  ASSUME StoresOK, NEW k \in Stores, NEW m \in SUBSET Shards, NEW c \in [m -> SUBSET Shards],
         UNCHANGED <<config, active>>, cached' = [cached EXCEPT ![k] = c]
  PROVE  StoresOK'
<1>1. c \in UNION {[n -> SUBSET Shards] : n \in SUBSET Shards}
  OBVIOUS
<1>2. cached' \in [Stores -> UNION {[n -> SUBSET Shards] : n \in SUBSET Shards}]
  BY <1>1 DEF StoresOK
<1> QED
  BY <1>2 DEF StoresOK

LEMMA CacheIsModules ==
  ASSUME StoresOK, NEW k \in Stores
  PROVE  /\ DOMAIN cached[k] \subseteq Shards
         /\ cached[k] \in [DOMAIN cached[k] -> SUBSET Shards]
BY DEF StoresOK

\* Moving a module to the end leaves the store sound.
LEMMA TouchKeepsStores ==
  ASSUME StoresOK, NEW k \in Stores, NEW s \in Shards, UNCHANGED <<config, active>>,
         cached' = [cached EXCEPT ![k] = Touched(@, s)]
  PROVE  StoresOK'
<1>1. /\ DOMAIN cached[k] \in SUBSET Shards
      /\ cached[k] \in [DOMAIN cached[k] -> SUBSET Shards]
  BY CacheIsModules
<1>2. Touched(cached[k], s) \in [DOMAIN cached[k] \cup {s} -> SUBSET Shards]
  BY <1>1, TouchedModules
<1>3. DOMAIN cached[k] \cup {s} \in SUBSET Shards
  BY <1>1
<1>4. cached' = [cached EXCEPT ![k] = Touched(cached[k], s)]
  BY DEF StoresOK
<1> QED
  BY <1>2, <1>3, <1>4, ModulesKept

LEMMA StepTakeHit ==
  ASSUME IndInv, NEW r \in Requests, TakeHit(r)
  PROVE  IndInv'
<1>1. InFlight(r) /\ RequestsOK /\ StoresOK /\ request[r].at = "hit"
  BY DEF TakeHit, InFlight, IndInv
<1>2. CASE Refused(r) \/ ~IsCached(r)
  <2>1. request[r].overlapped
    BY <1>1, <1>2, Unopposed, FlightIsRunning, RunningFields DEF IndInv, Unhurt, Sound
  <2> QED
    BY <1>1, <1>2, <2>1, FailsOutside DEF TakeHit
<1>3. CASE ~(Refused(r) \/ ~IsCached(r))
  <2>1. request[r].held \in {"none", "cached", "own", "moved"} /\ Goes(r, "mark", request[r].held)
    BY <1>1, <1>3, FlightIsRunning, RunningFields DEF TakeHit
  <2>2. Moved(r, "mark", request[r].held)
    BY <1>1, <2>1, GoesMoves DEF Places
  <2>3. StoresOK'
    BY <1>1, <1>3, WhatIsOpen, TouchKeepsStores DEF TakeHit
  <2>4. ~request[r].overlapped => request[r].held # "moved"
    BY <1>1 DEF IndInv, Unhurt, Sound
  <2> QED
    BY <1>1, <2>2, <2>3, <2>4, OutsideStep DEF Moved, TakeHit, Sound
<1> QED
  BY <1>2, <1>3

LEMMA StepRetake ==
  ASSUME IndInv, NEW r \in Requests, Retake(r)
  PROVE  IndInv'
<1>1. InFlight(r) /\ RequestsOK /\ StoresOK /\ request[r].at = "touch"
  BY DEF Retake, InFlight, IndInv
<1>2. CASE ~IsCached(r)
  <2>1. request[r].overlapped
    BY <1>1, <1>2 DEF IndInv, Unhurt, Sound
  <2> QED
    BY <1>1, <1>2, <2>1, FailsOutside DEF Retake
<1>3. CASE IsCached(r)
  <2>1. request[r].held \in {"none", "cached", "own", "moved"} /\ Goes(r, "mark", request[r].held)
    BY <1>1, <1>3, FlightIsRunning, RunningFields DEF Retake
  <2>2. Moved(r, "mark", request[r].held)
    BY <1>1, <2>1, GoesMoves DEF Places
  <2>3. StoresOK'
    BY <1>1, <1>3, WhatIsOpen, TouchKeepsStores DEF Retake
  <2>4. ~request[r].overlapped => request[r].held # "moved"
    BY <1>1 DEF IndInv, Unhurt, Sound
  <2> QED
    BY <1>1, <2>2, <2>3, <2>4, OutsideStep DEF Moved, Retake, Sound
<1> QED
  BY <1>2, <1>3

LEMMA StepLookAgain ==
  ASSUME IndInv, NEW r \in Requests, LookAgain(r)
  PROVE  IndInv'
<1>1. InFlight(r) /\ RequestsOK /\ request[r].at = "build" /\ UNCHANGED <<config, active, cached>>
  BY DEF LookAgain, InFlight, IndInv
<1>2. StoresOK'
  BY <1>1, StoresKept DEF IndInv
<1>3. CASE ~config.caching /\ Goes(r, "mark", "own")
  <2>1. Moved(r, "mark", "own")
    BY <1>1, <1>3, GoesMoves DEF Places
  <2> QED
    BY <1>1, <1>2, <2>1, OutsideStep DEF Moved, Sound
<1>4. CASE IsCached(r) /\ Goes(r, "touch", "cached")
  <2>1. Moved(r, "touch", "cached")
    BY <1>1, <1>4, GoesMoves DEF Places
  <2>2. IsCached(r)'
    BY <1>1, <1>4, <2>1 DEF IsCached, Moved, Store, Shard
  <2> QED
    BY <1>1, <1>2, <2>1, <2>2, OutsideStep DEF Moved, Sound
<1>5. CASE config.caching /\ ~IsCached(r) /\ Goes(r, "put", "own")
  <2>1. Moved(r, "put", "own")
    BY <1>1, <1>5, GoesMoves DEF Places
  <2> QED
    BY <1>1, <1>2, <2>1, OutsideStep DEF Moved, Sound
<1> QED
  BY <1>3, <1>4, <1>5 DEF LookAgain

\* What a step of r makes of it, and of those with whom it shares a module.
Restamps(r, p, sharing, held) ==
  request' = [o \in Requests |-> IF o = r THEN p
                                 ELSE IF o \in sharing THEN [request[o] EXCEPT !.held = held]
                                 ELSE request[o]]

LEMMA RestampsMoves ==
  ASSUME RequestsOK, NEW r \in Requests, InFlight(r), NEW p \in Running,
         SameText(p, request[r]), p.todo = request[r].todo, p.shard = request[r].shard,
         p.overlapped = request[r].overlapped, NEW sharing, \A o \in sharing : InFlight(o),
         NEW held \in {"none", "cached", "own", "moved"}, Restamps(r, p, sharing, held)
  PROVE  Moved(r, p.at, p.held)
<1>1. request[r] \in Running /\ InContext(request[r]) /\ KeysHeld(request[r])
  BY FlightIsRunning
<1>2. request'[r] = p
  BY DEF Restamps
<1>3. Lawful(p) /\ p.at \notin {"new", "done"}
  BY <1>1, TextKept, RunningFields
<1>4. ASSUME NEW o \in Requests \ {r}
      PROVE  /\ Lawful(request'[o])
             /\ \/ request'[o] = request[o]
                \/ /\ InFlight(o) /\ InFlight(o)'
                   /\ request'[o].at = request[o].at /\ request'[o].todo = request[o].todo
                   /\ request'[o].shard = request[o].shard
                   /\ request'[o].overlapped = request[o].overlapped
  <2>1. CASE o \in sharing
    <3> DEFINE l == [request[o] EXCEPT !.held = held]
    <3>1. request'[o] = l /\ InFlight(o)
      BY <2>1 DEF Restamps
    <3>2. request[o] \in Running /\ InContext(request[o]) /\ KeysHeld(request[o])
      BY <3>1, FlightIsRunning
    <3>3. l \in Running /\ SameText(l, request[o])
      BY <3>2 DEF Running, SameText
    <3>4. l.at = request[o].at /\ l.todo = request[o].todo /\ l.shard = request[o].shard
            /\ l.overlapped = request[o].overlapped
      BY <3>2 DEF Running
    <3>5. Lawful(l)
      BY <3>2, <3>3, TextKept
    <3> HIDE DEF l
    <3> QED
      BY <3>1, <3>4, <3>5 DEF InFlight
  <2>2. CASE o \notin sharing
    BY <2>2 DEF Restamps, RequestsOK
  <2> QED
    BY <2>1, <2>2
<1>5. RequestsOK'
  <2>1. DOMAIN request' = Requests /\ request' = [o \in Requests |-> request'[o]]
    BY DEF Restamps
  <2>2. \A o \in Requests : Lawful(request'[o])
    BY <1>2, <1>3, <1>4
  <2> QED
    BY <2>1, <2>2 DEF RequestsOK, Lawful
<1> QED
  BY <1>2, <1>3, <1>4, <1>5 DEF Moved, Continues, InFlight

LEMMA StepPutModule ==
  ASSUME IndInv, NEW r \in Requests, PutModule(r)
  PROVE  IndInv'
<1> DEFINE p == [request[r] EXCEPT !.at = "evict", !.held = "cached"]
           sharing == {o \in Requests : SharesModule(o, r, Shard(r))}
<1>1. InFlight(r) /\ RequestsOK /\ StoresOK /\ request[r].at = "put"
  BY DEF PutModule, InFlight, IndInv
<1>2. request[r] \in Running /\ Store(r) \in Stores /\ Shard(r) \in Shards
  BY <1>1, FlightIsRunning, WhatIsOpen
<1>3. /\ p \in Running /\ SameText(p, request[r]) /\ p.todo = request[r].todo
      /\ p.shard = request[r].shard /\ p.overlapped = request[r].overlapped
      /\ p.at = "evict" /\ p.held = "cached"
  BY <1>2 DEF Running, SameText, Places
<1>4. Restamps(r, p, sharing, "own")
  BY DEF PutModule, Restamps
<1>5. \A o \in sharing : InFlight(o)
  BY DEF SharesModule, InFlight
<1> HIDE DEF p, sharing
<1>6. Moved(r, "evict", "cached")
  BY <1>1, <1>3, <1>4, <1>5, RestampsMoves
<1>7. StoresOK' /\ Newest(r)'
  <2>1. /\ cached' = [cached EXCEPT ![Store(r)] = Touched(@, Shard(r))]
        /\ UNCHANGED <<config, active>>
    BY DEF PutModule
  <2>2. /\ DOMAIN cached[Store(r)] \in SUBSET Shards
        /\ cached[Store(r)] \in [DOMAIN cached[Store(r)] -> SUBSET Shards]
    BY <1>1, <1>2, CacheIsModules
  <2>3. cached'[Store(r)] = Touched(cached[Store(r)], Shard(r))
    BY <1>1, <1>2, <2>1 DEF StoresOK
  <2>4. Store(r)' = Store(r) /\ Shard(r)' = Shard(r)
    BY <1>6 DEF Moved, Store, Shard
  <2> DEFINE c == Touched(cached[Store(r)], Shard(r))
             m == DOMAIN cached[Store(r)]
  <2>5. DOMAIN c = m \cup {Shard(r)} /\ c[Shard(r)] = m \ {Shard(r)}
    BY <1>2, <2>2, TouchedModules
  <2> HIDE DEF c
  <2>6. /\ Shard(r) \in DOMAIN cached'[Store(r)]
        /\ cached'[Store(r)][Shard(r)] = DOMAIN cached'[Store(r)] \ {Shard(r)}
    BY <2>3, <2>5 DEF c
  <2> QED
    BY <1>1, <1>2, <2>1, <2>4, <2>6, TouchKeepsStores DEF Newest
<1>8. Continues(r) /\ RequestsOK' /\ request'[r].at = "evict" /\ request'[r].held = "cached"
  BY <1>6 DEF Moved
<1>9. Sound(r)'
  BY <1>7, <1>8 DEF Sound
<1> QED
  BY <1>1, <1>7, <1>8, <1>9, OutsideStep DEF PutModule

LEMMA WithoutModules ==
  ASSUME NEW m \in SUBSET Shards, NEW c \in [m -> SUBSET Shards], NEW s
  PROVE  Without(c, s) \in [m \ {s} -> SUBSET Shards]
BY DEF Without

\* The module just added is the most recently used, so that a request without
\* company, which holds no shard yet, never evicts its own.
LEMMA OwnModuleStays ==
  ASSUME StoresOK, RequestsOK, NEW r \in Requests, InFlight(r), active[Store(r)] = {},
         Newest(r), TooMany(r), NEW s \in Idle(r), cached[Store(r)][s] \cap Idle(r) = {}
  PROVE  s # Shard(r)
<1> DEFINE m == DOMAIN cached[Store(r)]
<1>1. IsFiniteSet(m) /\ config.limit \in Nat /\ config.limit > 0
  BY WhatIsOpen
<1>2. SUFFICES ASSUME s = Shard(r)
               PROVE  FALSE
  OBVIOUS
<1>3. Idle(r) = m
  BY DEF Idle
<1>4. m = {Shard(r)}
  BY <1>2, <1>3 DEF Newest
<1>5. Cardinality(m) = 1
  BY <1>4, FS_Singleton
<1> QED
  BY <1>1, <1>5 DEF TooMany

LEMMA StepEvict ==
  ASSUME IndInv, NEW r \in Requests, Evict(r)
  PROVE  IndInv'
<1>1. /\ InFlight(r) /\ RequestsOK /\ StoresOK /\ request[r].at = "evict"
      /\ UNCHANGED <<config, active>>
  BY DEF Evict, InFlight, IndInv
<1>2. request[r] \in Running /\ Store(r) \in Stores /\ Shard(r) \in Shards
  BY <1>1, FlightIsRunning, WhatIsOpen
<1>3. CASE Goes(r, "mark", request[r].held) /\ UNCHANGED cached
  <2>1. request[r].held \in {"none", "cached", "own", "moved"}
    BY <1>2, RunningFields
  <2>2. Moved(r, "mark", request[r].held)
    BY <1>1, <1>3, <2>1, GoesMoves DEF Places
  <2>3. StoresOK'
    BY <1>1, <1>3, StoresKept
  <2>4. ~request[r].overlapped => request[r].held # "moved"
    BY <1>1 DEF IndInv, Unhurt, Sound
  <2> QED
    BY <1>1, <2>2, <2>3, <2>4, OutsideStep DEF Moved, Sound
<1>4. ASSUME NEW s \in Idle(r), TooMany(r), cached[Store(r)][s] \cap Idle(r) = {},
             cached' = [cached EXCEPT ![Store(r)] = Without(@, s)],
             request' = [o \in Requests |->
                           IF SharesModule(o, r, s) THEN [request[o] EXCEPT !.held = "moved"]
                           ELSE request[o]]
      PROVE  IndInv'
  <2> DEFINE own == SharesModule(r, r, s)
             p == IF own THEN [request[r] EXCEPT !.held = "moved"] ELSE request[r]
             sharing == {o \in Requests : SharesModule(o, r, s)}
             c == cached[Store(r)]
             m == DOMAIN c
  <2>1. /\ p \in Running /\ SameText(p, request[r]) /\ p.todo = request[r].todo
        /\ p.shard = request[r].shard /\ p.overlapped = request[r].overlapped
        /\ p.at = "evict" /\ (~own => p.held = request[r].held)
    BY <1>1, <1>2 DEF Running, SameText
  <2>2. Restamps(r, p, sharing, "moved")
    BY <1>4 DEF Restamps
  <2>3. \A o \in sharing : InFlight(o)
    BY DEF SharesModule, InFlight
  <2> HIDE DEF p, sharing
  <2>4. Moved(r, "evict", p.held)
    BY <1>1, <2>1, <2>2, <2>3, RestampsMoves
  <2>5. m \in SUBSET Shards /\ c \in [m -> SUBSET Shards]
    BY <1>1, <1>2, CacheIsModules
  <2>6. cached' = [cached EXCEPT ![Store(r)] = Without(c, s)] /\ cached'[Store(r)] = Without(c, s)
    BY <1>2, <1>4, <1>1 DEF StoresOK
  <2>7. StoresOK'
    <3> HIDE DEF c, m
    <3>1. Without(c, s) \in [m \ {s} -> SUBSET Shards] /\ m \ {s} \in SUBSET Shards
      BY <2>5, WithoutModules
    <3> QED
      BY <1>1, <1>2, <2>6, <3>1, ModulesKept
  <2>8. Continues(r) /\ RequestsOK' /\ request'[r].at = "evict" /\ request'[r].held = p.held
          /\ Store(r)' = Store(r) /\ Shard(r)' = Shard(r)
    BY <2>4 DEF Moved, Store, Shard
  <2>9. ~request[r].overlapped => Sound(r)'
    <3> SUFFICES ASSUME ~request[r].overlapped
                 PROVE  Sound(r)'
      OBVIOUS
    <3>1. Newest(r) /\ request[r].held # "moved"
      BY <1>1 DEF IndInv, Unhurt, Sound
    <3>2. active[Store(r)] = {}
      BY <1>1, Unopposed DEF IndInv
    <3>3. s # Shard(r)
      BY <1>1, <1>4, <3>1, <3>2, OwnModuleStays
    <3>4. p.held = request[r].held
      BY <2>1, <3>3 DEF SharesModule
    <3>5. Shard(r) \in DOMAIN Without(c, s)
      BY <3>1, <3>3 DEF Without, Newest
    <3>6. Without(c, s)[Shard(r)] = DOMAIN Without(c, s) \ {Shard(r)}
      BY <3>1, <3>3, <3>5 DEF Without, Newest
    <3>7. Newest(r)'
      BY <2>6, <2>8, <3>5, <3>6 DEF Newest
    <3> QED
      BY <2>8, <3>1, <3>4, <3>7 DEF Sound
  <2> QED
    BY <1>1, <2>7, <2>8, <2>9, OutsideStep
<1> QED
  BY <1>3, <1>4 DEF Evict

-------------------------------------------------------------------------------
(* Steps into a shard and out of it *)

LEMMA StepMark ==
  ASSUME IndInv, NEW r \in Requests, Mark(r)
  PROVE  IndInv'
<1>1. InFlight(r) /\ RequestsOK /\ StoresOK /\ request[r].at = "mark"
  BY DEF Mark, InFlight, IndInv
<1>2. CASE Shard(r) \in active[Store(r)]
  <2>1. request[r].overlapped
    BY <1>1, <1>2, Unopposed, FlightIsRunning, RunningFields DEF IndInv
  <2> QED
    BY <1>1, <1>2, <2>1, FailsOutside DEF Mark
<1>3. CASE Shard(r) \notin active[Store(r)]
  <2>1. request[r].held \in {"none", "cached", "own", "moved"} /\ Goes(r, "enforce", request[r].held)
    BY <1>1, <1>3, FlightIsRunning, RunningFields DEF Mark
  <2>2. Moved(r, "enforce", request[r].held)
    BY <1>1, <2>1, GoesMoves DEF Places
  <2>3. active' = [active EXCEPT ![Store(r)] = @ \cup {Shard(r)}] /\ UNCHANGED <<config, cached>>
    BY <1>3 DEF Mark
  <2>4. Store(r) \in Stores /\ Shard(r) \in Shards
    BY <1>1, WhatIsOpen
  <2>5. StoresOK'
    BY <1>1, <2>3, <2>4 DEF StoresOK
  <2>6. ResidencyHeld'
    <3>1. \A k \in Stores : ~Inside(r, k) /\ (Inside(r, k)' <=> k = Store(r))
      BY <1>1, <2>2 DEF Inside, Moved, Store
    <3>2. OthersStay(r) /\ Shard(r)' = Shard(r) /\ request'[r].at # "use"
      BY <2>2, ContinuesOthers DEF Moved, Shard
    <3> QED
      BY <1>1, <1>3, <2>3, <2>4, <3>1, <3>2, Entering DEF IndInv
  <2>7. Company' /\ Unhurt' /\ ErrorsNeedCompany'
    BY <1>1, <2>2, CompanyKept, UnhurtKept, ErrorsKept DEF IndInv, Moved, Unhurt, Sound
  <2> QED
    BY <2>2, <2>5, <2>6, <2>7 DEF IndInv, Moved
<1> QED
  BY <1>2, <1>3

\* r has left its shard.
LEMMA LeavesShard ==
  ASSUME IndInv, NEW r \in Requests, Continues(r), RequestsOK',
         request[r].at \in {"enforce", "use"}, request'[r].at \in {"enter", "done"},
         UNCHANGED <<config, cached>>,
         active' = [active EXCEPT ![Store(r)] = @ \ {Shard(r)}],
         InFlight(r)' => request'[r].held = "none",
         request'[r].at = "done" /\ request'[r].answer = "error" => request'[r].overlapped
  PROVE  IndInv'
<1>1. InFlight(r) /\ RequestsOK /\ StoresOK /\ ResidencyHeld
  BY DEF InFlight, IndInv
<1>2. Store(r) \in Stores /\ Shard(r) \in Shards
  BY <1>1, WhatIsOpen
<1>3. StoresOK'
  BY <1>1, <1>2 DEF StoresOK
<1>4. ResidencyHeld'
  <2>1. Inside(r, Store(r)) /\ \A k \in Stores : ~Inside(r, k)'
    BY DEF Inside
  <2>2. OthersStay(r)
    BY ContinuesOthers
  <2> QED
    BY <1>1, <1>2, <2>1, <2>2, Leaving
<1>5. Company' /\ Unhurt' /\ ErrorsNeedCompany'
  BY CompanyKept, UnhurtKept, ErrorsKept DEF IndInv, Sound, InFlight
<1> QED
  BY <1>3, <1>4, <1>5 DEF IndInv

LEMMA StepEnforce ==
  ASSUME IndInv, NEW r \in Requests, Enforce(r)
  PROVE  IndInv'
<1>1. InFlight(r) /\ RequestsOK /\ StoresOK /\ ResidencyHeld /\ request[r].at = "enforce"
  BY DEF Enforce, InFlight, IndInv
<1>2. CASE OverLimit(r)
  <2>1. request[r].overlapped
    BY <1>1, <1>2, Unopposed, FlightIsRunning, RunningFields DEF IndInv
  <2>2. Ended(r, "error")
    BY <1>1, <1>2, RaisesEnds DEF Enforce, Fails, Errors
  <2> QED
    BY <1>1, <1>2, <2>1, <2>2, LeavesShard DEF Enforce, Ended
<1>3. CASE ~OverLimit(r)
  <2>1. request[r].held \in {"none", "cached", "own", "moved"} /\ Goes(r, "use", request[r].held)
    BY <1>1, <1>3, FlightIsRunning, RunningFields DEF Enforce
  <2>2. Moved(r, "use", request[r].held)
    BY <1>1, <2>1, GoesMoves DEF Places
  <2>3. UNCHANGED <<config, active, cached>>
    BY <1>3 DEF Enforce
  <2>4. Store(r) \in Stores /\ config.limit \in Nat
    BY <1>1, WhatIsOpen
  <2>5. Cardinality(active[Store(r)]) <= config.limit
    BY <1>1, <1>3, <2>4, WhatIsOpen, FS_CardinalityType DEF OverLimit
  <2>6. ResidencyHeld'
    <3>1. \A k \in Stores : (Inside(r, k) <=> k = Store(r)) /\ (Inside(r, k)' <=> k = Store(r))
      BY <1>1, <2>2 DEF Inside, Moved, Store
    <3>2. OthersStay(r) /\ Shard(r)' = Shard(r)
      BY <2>2, ContinuesOthers DEF Moved, Shard
    <3> QED
      BY <1>1, <2>3, <2>4, <2>5, <3>1, <3>2, Computing
  <2>7. Company' /\ Unhurt' /\ ErrorsNeedCompany'
    BY <1>1, <2>2, CompanyKept, UnhurtKept, ErrorsKept DEF IndInv, Moved, Unhurt, Sound
  <2> QED
    BY <1>1, <2>2, <2>3, <2>6, <2>7, StoresKept DEF IndInv, Moved
<1> QED
  BY <1>2, <1>3

-------------------------------------------------------------------------------
(* What a pass samples *)

LEMMA Windows ==
  /\ \A n \in Nat : Window(n) \in Nat \X Nat
  /\ \A n \in Nat : n <= Positions => Window(n) = <<1, n>>
BY Sizes DEF Window

\* With the KV cache or without, a pass attends to the last positions.
LEMMA AttendedIsWindow ==
  ASSUME NEW q \in Running, KeysHeld(q)
  PROVE  /\ Ids(q) \in Nat /\ Attended(q) = Window(Ids(q))
         /\ ~Slides(q) => Ids(q) <= Positions
<1>1. q.prompt \in Nat /\ q.sampled \in Seq(Nat \X Nat) /\ Len(q.sampled) \in Nat
      /\ q.kv \in BOOLEAN /\ q.keys \in {<<>>} \cup (Nat \X Nat)
  BY RunningFields
<1>2. Ids(q) \in Nat
  BY <1>1 DEF Ids
<1>3. ~Slides(q) => Ids(q) <= Positions
  <2>1. SUFFICES ASSUME ~Slides(q) PROVE Ids(q) <= Positions
    OBVIOUS
  <2>2. q.prompt < Positions
    BY <1>1, <2>1, Sizes DEF Slides
  <2>3. CASE q.sampled = <<>>
    BY <1>1, <2>2, <2>3, Sizes DEF Ids
  <2>4. CASE Ids(q) - 1 < Positions
    BY <1>2, <2>4, Sizes
  <2> QED
    BY <2>1, <2>3, <2>4 DEF KeysHeld
<1>4. Attended(q) = Window(Ids(q))
  <2>1. CASE Slides(q) \/ q.keys = <<>>
    BY <2>1 DEF Attended
  <2>2. CASE ~(Slides(q) \/ q.keys = <<>>)
    <3>1. q.keys = <<1, Ids(q) - 1>>
      BY <2>2 DEF KeysHeld
    <3>2. Attended(q) = <<1, Ids(q)>>
      BY <1>2, <2>2, <3>1 DEF Attended
    <3> QED
      BY <1>2, <1>3, <2>2, <3>2, Windows
  <2> QED
    BY <2>1, <2>2
<1> QED
  BY <1>2, <1>3, <1>4

LEMMA AfterPassLawful ==
  ASSUME NEW q \in Running, InContext(q), KeysHeld(q), NEW eos \in BOOLEAN
  PROVE  /\ Lawful(AfterPass(q, eos))
         /\ \/ AfterPass(q, eos) \in Answered
            \/ /\ AfterPass(q, eos) \in Running
               /\ AfterPass(q, eos).at = "enter" /\ AfterPass(q, eos).held = "none"
               /\ AfterPass(q, eos).overlapped = q.overlapped
<1> DEFINE w    == Attended(q)
           seen == [q EXCEPT !.shard = 1, !.at = "enter", !.held = "none",
                             !.keys = w, !.sampled = Append(@, w)]
           next == [seen EXCEPT !.todo = Tail(@), !.keys = <<>>, !.sampled = <<>>]
           ends == eos \/ Len(seen.sampled) = q.new \/ ~HasRoom(seen)
           last == Len(q.todo) = 1
<1>1. /\ w = Window(Ids(q)) /\ Ids(q) \in Nat /\ w \in Nat \X Nat
      /\ ~Slides(q) => w = <<1, Ids(q)>>
  BY AttendedIsWindow, Windows
<1>2. /\ q.prompt \in Nat /\ q.sampled \in Seq(Nat \X Nat) /\ q.todo \in Seq(Stores)
      /\ q.todo # <<>> /\ q.new \in Nat
  BY RunningFields
<1>3. seen \in Running
  <2>1. Append(q.sampled, w) \in Seq(Nat \X Nat) /\ 1 \in Shards
    BY <1>1, <1>2, Sizes DEF Shards
  <2> HIDE DEF w
  <2> QED
    BY <1>1, <2>1 DEF Running, Places
<1>4. /\ seen.at = "enter" /\ seen.held = "none" /\ seen.overlapped = q.overlapped
      /\ seen.prompt = q.prompt /\ seen.kv = q.kv /\ seen.todo = q.todo
      /\ seen.keys = w /\ seen.sampled = Append(q.sampled, w)
  BY DEF Running
<1> HIDE DEF w, seen
<1>5. InContext(seen)
  <2>1. SUFFICES ASSUME NEW i \in DOMAIN seen.sampled
                 PROVE  seen.sampled[i] = Window(seen.prompt + i - 1)
    BY DEF InContext
  <2>2. i \in 1..(Len(q.sampled) + 1)
    BY <1>1, <1>2, <1>4, <2>1
  <2>3. CASE i \in 1..Len(q.sampled)
    BY <1>1, <1>2, <1>4, <2>3 DEF InContext
  <2>4. CASE i = Len(q.sampled) + 1
    <3>1. seen.sampled[i] = w
      BY <1>1, <1>2, <1>4, <2>4
    <3>2. q.prompt + i - 1 = Ids(q)
      BY <1>2, <2>4 DEF Ids
    <3> QED
      BY <1>1, <1>4, <3>1, <3>2
  <2> QED
    BY <1>2, <2>2, <2>3, <2>4
<1>6. ~ends => KeysHeld(seen)
  <2>1. SUFFICES ASSUME HasRoom(seen), ~Slides(seen)
                 PROVE  seen.keys = <<1, Ids(seen) - 1>> /\ Ids(seen) - 1 < Positions
    BY DEF KeysHeld
  <2>2. ~Slides(q)
    BY <1>4, <2>1 DEF Slides
  <2>3. seen.keys = <<1, Ids(q)>>
    BY <1>1, <1>4, <2>2
  <2>4. Ids(seen) - 1 = Ids(q)
    BY SMTT(30), <1>1, <1>2, <1>4 DEF Ids
  <2>5. Ids(q) < Positions
    BY <1>1, <2>1, <2>3, Sizes DEF HasRoom
  <2> QED
    BY <2>3, <2>4, <2>5
<1>7. ASSUME ends, ~last
      PROVE  /\ next \in Running /\ InContext(next) /\ KeysHeld(next)
             /\ next.at = "enter" /\ next.held = "none" /\ next.overlapped = q.overlapped
  <2>1. Tail(q.todo) \in Seq(Stores) \ {<<>>}
    <3>1. Len(q.todo) \in Nat /\ Len(q.todo) # 0 /\ Len(q.todo) # 1
      BY <1>2, <1>7
    <3>2. Tail(q.todo) \in Seq(Stores) /\ Len(Tail(q.todo)) = Len(q.todo) - 1
      BY <1>2
    <3>3. Len(Tail(q.todo)) # 0
      BY <3>1, <3>2
    <3>4. Len(<<>>) = 0
      OBVIOUS
    <3> HIDE DEF next, ends, last
    <3>5. Tail(q.todo) # <<>>
      BY <3>3, <3>4
    <3> QED
      BY <3>2, <3>5
  <2>2. next \in Running
    <3>1. <<>> \in Seq(Nat \X Nat)
      OBVIOUS
    <3> DEFINE t == Tail(q.todo)
    <3>2. t \in Seq(Stores) \ {<<>>} /\ next = [seen EXCEPT !.todo = t, !.keys = <<>>, !.sampled = <<>>]
      BY <1>4, <2>1
    <3> HIDE DEF t, next
    <3> QED
      BY <1>3, <3>1, <3>2 DEF Running
  <2>3. /\ next.at = seen.at /\ next.held = seen.held /\ next.overlapped = seen.overlapped
        /\ next.keys = <<>> /\ next.sampled = <<>>
    BY <1>3 DEF Running
  <2> HIDE DEF next
  <2>4. InContext(next) /\ KeysHeld(next)
    BY <2>3 DEF InContext, KeysHeld
  <2> QED
    BY <1>4, <2>2, <2>3, <2>4
<1>8. ASSUME NEW p \in Running, InContext(p)
      PROVE  Done(p) \in Answered /\ InContext(Done(p))
  <2>1. p.prompt \in Nat /\ p.sampled \in Seq(Nat \X Nat)
    BY RunningFields
  <2>2. /\ Done(p) \in Answered
        /\ Done(p).prompt = p.prompt /\ Done(p).sampled = p.sampled
    BY <2>1 DEF Done, Answered
  <2> QED
    BY <1>8, <2>2 DEF InContext
<1>9. AfterPass(q, eos) = CASE q.new = 0 -> Done(q)
                            [] q.new > 0 /\ ~ends -> seen
                            [] q.new > 0 /\ ends /\ last -> Done(seen)
                            [] OTHER -> next
  BY DEF AfterPass, seen, w
<1>10. CASE q.new = 0
  BY <1>8, <1>9, <1>10 DEF Lawful
<1>11. CASE q.new > 0 /\ ~ends
  <2>1. AfterPass(q, eos) = seen
    BY <1>9, <1>11
  <2> QED
    BY <1>3, <1>4, <1>5, <1>6, <1>11, <2>1 DEF Lawful
<1>12. CASE q.new > 0 /\ ends /\ last
  <2>1. AfterPass(q, eos) = Done(seen)
    BY <1>9, <1>12
  <2> QED
    BY <1>3, <1>5, <1>8, <2>1 DEF Lawful
<1>13. CASE q.new > 0 /\ ends /\ ~last
  <2>1. AfterPass(q, eos) = next
    BY <1>9, <1>13
  <2> HIDE DEF next, ends, last
  <2> QED
    BY <1>7, <1>13, <2>1 DEF Lawful
<1> QED
  BY <1>2, <1>10, <1>11, <1>12, <1>13

-------------------------------------------------------------------------------
(* Leaving a shard, arriving *)

LEMMA Replaced ==
  ASSUME RequestsOK, NEW r \in Requests, NEW p, Lawful(p),
         request' = [request EXCEPT ![r] = p]
  PROVE  RequestsOK' /\ request'[r] = p /\ \A o \in Requests \ {r} : request'[o] = request[o]
<1>1. request'[r] = p /\ \A o \in Requests \ {r} : request'[o] = request[o]
  BY DEF RequestsOK
<1>2. DOMAIN request' = Requests /\ request' = [o \in Requests |-> request'[o]]
  BY DEF RequestsOK
<1>3. \A o \in Requests : Lawful(request'[o])
  BY <1>1 DEF RequestsOK
<1> QED
  BY <1>1, <1>2, <1>3 DEF RequestsOK, Lawful

LEMMA StepUse ==
  ASSUME IndInv, NEW r \in Requests, Use(r)
  PROVE  IndInv'
<1> DEFINE q == request[r]
<1>1. /\ InFlight(r) /\ RequestsOK /\ StoresOK /\ q.at = "use"
      /\ active' = [active EXCEPT ![Store(r)] = @ \ {Shard(r)}]
      /\ UNCHANGED <<config, cached>>
  BY DEF Use, InFlight, IndInv
<1>2. q \in Running /\ InContext(q) /\ KeysHeld(q)
  BY <1>1, FlightIsRunning
<1>3. ASSUME NEW p, Lawful(p), request' = [request EXCEPT ![r] = p],
             \/ p \in Answered
             \/ p \in Running /\ p.at = "enter" /\ p.held = "none" /\ p.overlapped = q.overlapped
      PROVE  IndInv'
  <2>1. RequestsOK' /\ request'[r] = p /\ \A o \in Requests \ {r} : request'[o] = request[o]
    BY <1>1, <1>3, Replaced
  <2>2. p \in Answered => p.at = "done" /\ p.answer = "ok"
    BY DEF Answered
  <2>3. Continues(r)
    BY <1>1, <1>3, <2>1, <2>2 DEF Continues, InFlight
  <2> QED
    BY <1>1, <1>3, <2>1, <2>2, <2>3, LeavesShard DEF InFlight
<1>4. CASE q.held = "moved" /\ Fails(r)
  <2>1. Ended(r, "error")
    BY <1>1, <1>4, RaisesEnds DEF Fails, Errors
  <2>2. q.overlapped
    BY <1>1, <1>4 DEF IndInv, Unhurt, Sound
  <2> QED
    BY <1>1, <2>1, <2>2, LeavesShard DEF Ended
<1>5. CASE Raises(r, "non-finite logits")
  <2>1. Ended(r, "non-finite logits")
    BY <1>1, <1>5, RaisesEnds DEF Errors
  <2> QED
    BY <1>1, <2>1, LeavesShard DEF Ended
<1>6. CASE /\ Shard(r) < NumShards
           /\ request' = [request EXCEPT ![r].at = "enter", ![r].shard = @ + 1,
                                         ![r].held = "none"]
  <2> DEFINE p == [q EXCEPT !.at = "enter", !.shard = @ + 1, !.held = "none"]
  <2>1. request' = [request EXCEPT ![r] = p]
    BY <1>6
  <2>2. q.shard + 1 \in Shards
    BY <1>2, <1>6, RunningFields, Sizes DEF Shard, Shards
  <2>3. p \in Running /\ SameText(p, q)
    BY <1>2, <2>2 DEF Running, SameText, Places
  <2>4. p.at = "enter" /\ p.held = "none" /\ p.overlapped = q.overlapped
    BY <1>2 DEF Running
  <2>5. Lawful(p)
    BY <1>2, <2>3, TextKept
  <2> HIDE DEF p
  <2> QED
    BY <1>3, <2>1, <2>3, <2>4, <2>5
<1>7. ASSUME NEW eos \in BOOLEAN, request' = [request EXCEPT ![r] = AfterPass(q, eos)]
      PROVE  IndInv'
  BY <1>2, <1>3, <1>7, AfterPassLawful
<1> QED
  BY <1>4, <1>5, <1>6, <1>7 DEF Use

\* Somebody who arrives tells everybody, and is told.
LEMMA ArrivingStep ==
  ASSUME IndInv, NEW r \in Requests, ~InFlight(r), NEW todo \in Seq(Stores) \ {<<>>},
         NEW prompt \in Nat, NEW new \in Nat, NEW kv \in BOOLEAN,
         request' = Arriving(r, Started(r, todo, prompt, new, kv)),
         UNCHANGED <<config, active, cached>>
  PROVE  IndInv'
<1> DEFINE p == Started(r, todo, prompt, new, kv)
<1>1. p \in Running
  BY Sizes DEF Started, Running, Places, Shards
<1>2. /\ p.at = "enter" /\ p.held = "none" /\ p.keys = <<>> /\ p.sampled = <<>>
      /\ p.overlapped = (Others(r) # {})
  BY DEF Started
<1> HIDE DEF p
<1>3. Lawful(p)
  BY <1>1, <1>2 DEF Lawful, InContext, KeysHeld
<1>4. request'[r] = p
  BY DEF Arriving, p
<1>5. ASSUME NEW o \in Requests \ {r}, InFlight(o)
      PROVE  /\ Lawful(request'[o]) /\ request'[o].overlapped
             /\ request'[o].at = request[o].at /\ request'[o].todo = request[o].todo
             /\ request'[o].shard = request[o].shard
  <2> DEFINE l == [request[o] EXCEPT !.overlapped = TRUE]
  <2>1. request'[o] = l
    BY <1>5 DEF Arriving
  <2>2. request[o] \in Running /\ InContext(request[o]) /\ KeysHeld(request[o])
    BY <1>5, FlightIsRunning DEF IndInv
  <2>3. l \in Running /\ SameText(l, request[o])
    BY <2>2 DEF Running, SameText
  <2>4. l.overlapped /\ l.at = request[o].at /\ l.todo = request[o].todo
          /\ l.shard = request[o].shard
    BY <2>2 DEF Running
  <2>5. Lawful(l)
    BY <2>2, <2>3, TextKept
  <2> HIDE DEF l
  <2> QED
    BY <2>1, <2>4, <2>5
<1>6. \A o \in Requests \ {r} : ~InFlight(o) => request'[o] = request[o]
  BY DEF Arriving
<1>7. RequestsOK'
  <2>1. DOMAIN request' = Requests /\ request' = [o \in Requests |-> request'[o]]
    BY DEF Arriving
  <2>2. \A o \in Requests : Lawful(request'[o])
    BY <1>3, <1>4, <1>5, <1>6 DEF IndInv, RequestsOK
  <2> QED
    BY <2>1, <2>2 DEF RequestsOK, Lawful
<1>8. StoresOK'
  BY StoresKept DEF IndInv
<1>9. Company'
  <2>1. SUFFICES ASSUME NEW x \in Requests, NEW o \in Requests, x # o, InFlight(x)', InFlight(o)'
                 PROVE  request'[x].overlapped
    BY DEF Company
  <2>2. CASE x # r
    BY <1>5, <1>6, <2>1, <2>2 DEF InFlight
  <2>3. CASE x = r
    <3>1. InFlight(o)
      BY <1>6, <2>1, <2>3 DEF InFlight
    <3>2. o \in Others(r)
      BY <2>1, <2>3, <3>1 DEF Others
    <3> QED
      BY <1>2, <1>4, <2>3, <3>2
  <2> QED
    BY <2>2, <2>3
<1>10. Unhurt'
  <2>1. SUFFICES ASSUME NEW o \in Requests, InFlight(o)', ~request'[o].overlapped
                 PROVE  /\ request'[o].held # "moved"
                        /\ request'[o].at \notin {"hit", "touch", "evict"}
    BY DEF Unhurt, Sound
  <2>2. o = r
    BY <1>5, <1>6, <2>1 DEF InFlight
  <2> QED
    BY <1>2, <1>4, <2>2
<1>11. ErrorsNeedCompany'
  <2>1. SUFFICES ASSUME NEW o \in Requests, request'[o].at = "done",
                        request'[o].answer = "error"
                 PROVE  request'[o].overlapped
    BY DEF ErrorsNeedCompany
  <2>2. o # r
    BY <1>2, <1>4, <2>1
  <2>3. ~InFlight(o)
    BY <1>5, <2>1, <2>2 DEF InFlight
  <2> QED
    BY <1>6, <2>1, <2>2, <2>3 DEF IndInv, ErrorsNeedCompany
<1>12. ResidencyHeld'
  <2>1. \A x \in Requests : request'[x].at \in {"enforce", "use"}
          \/ request[x].at \in {"enforce", "use"} => x # r /\ InFlight(x)
    BY <1>2, <1>4, <1>6 DEF InFlight
  <2>2. \A x \in Requests, k \in Stores : Inside(x, k)' <=> Inside(x, k)
    BY <1>5, <2>1 DEF Inside, Store
  <2>3. \A x \in Requests, k \in Stores : Inside(x, k) =>
          /\ Shard(x)' = Shard(x)
          /\ request'[x].at = "use" => request[x].at = "use"
    BY <1>5, <2>1 DEF Inside, Shard
  <2> QED
    BY <2>2, <2>3, SameUsers DEF IndInv
<1> QED
  BY <1>7, <1>8, <1>9, <1>10, <1>11, <1>12 DEF IndInv

LEMMA StepArrive ==
  ASSUME IndInv, NEW r \in Requests, Arrive(r) \/ ArrivePreload(r)
  PROVE  IndInv'
<1>1. ~InFlight(r) /\ UNCHANGED <<config, active, cached>>
  BY DEF Arrive, ArrivePreload
<1>2. Backup \in Stores /\ 1 \in Stores
  BY DEF Backup, Stores
<1>3. /\ \A store \in Stores : <<store>> \in Seq(Stores) \ {<<>>}
      /\ <<1, Backup>> \in Seq(Stores) \ {<<>>}
  <2>1. \A store \in Stores : <<store>> \in Seq(Stores) /\ Len(<<store>>) = 1
    OBVIOUS
  <2>2. <<1, Backup>> \in Seq(Stores) /\ Len(<<1, Backup>>) = 2
    BY <1>2
  <2>3. Len(<<>>) = 0
    OBVIOUS
  <2> QED
    BY <2>1, <2>2, <2>3
<1>4. CASE Arrive(r)
  <2>1. PICK length \in Prompts, kv \in BOOLEAN :
          LET prompt == IF length = 0 THEN 1 ELSE length
          IN  \/ \E store \in {1, Backup} :
                   request' = Arriving(r, Started(r, <<store>>, prompt, MaxNew, kv))
              \/ request' = Arriving(r, Started(r, <<1, Backup>>, prompt, MaxNew, TRUE))
    BY <1>4 DEF Arrive
  <2> DEFINE prompt == IF length = 0 THEN 1 ELSE length
  <2>2. prompt \in Nat /\ MaxNew \in Nat
    BY Sizes
  <2>3. CASE \E store \in {1, Backup} :
               request' = Arriving(r, Started(r, <<store>>, prompt, MaxNew, kv))
    <3>1. PICK store \in {1, Backup} :
            request' = Arriving(r, Started(r, <<store>>, prompt, MaxNew, kv))
      BY <2>3
    <3>2. <<store>> \in Seq(Stores) \ {<<>>}
      BY <1>2, <1>3
    <3> HIDE DEF prompt
    <3> QED
      BY <1>1, <2>2, <3>1, <3>2, ArrivingStep
  <2>4. CASE request' = Arriving(r, Started(r, <<1, Backup>>, prompt, MaxNew, TRUE))
    <3> HIDE DEF prompt
    <3> QED
      BY <1>1, <1>3, <2>2, <2>4, ArrivingStep
  <2> QED
    BY <2>1, <2>3, <2>4
<1>5. CASE ArrivePreload(r)
  <2>1. PICK store \in {1, Backup} :
          request' = Arriving(r, Started(r, <<store>>, 1, 0, FALSE))
    BY <1>5 DEF ArrivePreload
  <2>2. <<store>> \in Seq(Stores) \ {<<>>}
    BY <1>2, <1>3
  <2> QED
    BY <1>1, <2>1, <2>2, ArrivingStep
<1> QED
  BY <1>4, <1>5

LEMMA StepReject ==
  ASSUME IndInv, NEW r \in Requests, Reject(r)
  PROVE  IndInv'
<1>1. /\ RequestsOK /\ ~InFlight(r) /\ UNCHANGED <<config, active, cached>>
      /\ request' = [request EXCEPT ![r] = Rejected]
  BY DEF Reject, Rejected, IndInv
<1>2. Lawful(Rejected) /\ Rejected.at = "done" /\ Rejected.answer = "rejected"
  BY DEF Lawful, Rejected
<1>3. /\ RequestsOK' /\ request'[r] = Rejected
      /\ \A o \in Requests \ {r} : request'[o] = request[o]
  BY <1>1, <1>2, Replaced
<1>4. \A o \in Requests : InFlight(o)' => o # r /\ InFlight(o)
  BY <1>2, <1>3 DEF InFlight
<1>5. Company'
  BY <1>3, <1>4 DEF IndInv, Company
<1>6. Unhurt'
  <2>1. SUFFICES ASSUME NEW o \in Requests, InFlight(o)', ~request'[o].overlapped
                 PROVE  Sound(o)'
    BY DEF Unhurt
  <2>2. o # r /\ InFlight(o) /\ request'[o] = request[o]
    BY <1>3, <1>4, <2>1
  <2>3. Sound(o)
    BY <2>1, <2>2 DEF IndInv, Unhurt
  <2>4. Store(o)' = Store(o) /\ Shard(o)' = Shard(o) /\ config' = config /\ cached' = cached
    BY <1>1, <2>2 DEF Store, Shard
  <2>5. IsCached(o)' <=> IsCached(o)
    BY <2>4 DEF IsCached
  <2>6. Newest(o)' <=> Newest(o)
    BY <2>4 DEF Newest
  <2> QED
    BY <2>2, <2>3, <2>5, <2>6 DEF Sound
<1>7. ErrorsNeedCompany'
  BY <1>2, <1>3 DEF IndInv, ErrorsNeedCompany
<1>8. request[r].at \notin {"enforce", "use"}
  BY <1>1 DEF InFlight
<1>9. \A x \in Requests, k \in Stores : Inside(x, k)' <=> Inside(x, k)
  BY <1>2, <1>3, <1>8 DEF Inside, Store
<1>10. \A x \in Requests, k \in Stores : Inside(x, k) =>
          /\ Shard(x)' = Shard(x)
          /\ request'[x].at = "use" => request[x].at = "use"
  BY <1>3, <1>8 DEF Inside, Shard
<1>11. ResidencyHeld'
  BY <1>1, <1>9, <1>10, SameUsers DEF IndInv
<1> QED
  BY <1>1, <1>3, <1>5, <1>6, <1>7, <1>11, StoresKept DEF IndInv

-------------------------------------------------------------------------------
(* The theorems *)

LEMMA InitIndInv ==
  ASSUME Init
  PROVE  IndInv
<1>1. \A r \in Requests : request[r] = New /\ ~InFlight(r)
  BY DEF Init, New, InFlight
<1>2. New.at = "new" /\ DOMAIN New = {"at"}
  BY DEF New
<1>3. RequestsOK
  BY <1>1 DEF Init, RequestsOK, Lawful
<1>4. StoresOK
  <2>1. [s \in {} |-> {}] \in [{} -> SUBSET Shards] /\ {} \in SUBSET Shards
    OBVIOUS
  <2>2. [s \in {} |-> {}] \in UNION {[m -> SUBSET Shards] : m \in SUBSET Shards}
    BY <2>1
  <2> QED
    BY <2>2 DEF Init, StoresOK
<1>5. Company /\ Unhurt
  BY <1>1 DEF Company, Unhurt
<1>6. ErrorsNeedCompany
  BY <1>1, <1>2 DEF ErrorsNeedCompany
<1>7. ResidencyHeld
  <2>1. \A r \in Requests, k \in Stores : ~Inside(r, k)
    BY <1>1, <1>2 DEF Inside
  <2>2. \A k \in Stores : active[k] = {}
    BY DEF Init
  <2>3. \A k \in Stores : {x \in Requests : Inside(x, k)} = {}
    BY <2>1
  <2>4. \A k \in Stores : {r \in Requests : Inside(r, k) /\ request[r].at = "use"} = {}
    BY <2>1
  <2>5. Cardinality({}) = 0 /\ config.limit \in Nat
    BY <1>4, Sizes, FS_EmptySet DEF StoresOK
  <2>6. \A k \in Stores :
          Cardinality({r \in Requests : Inside(r, k) /\ request[r].at = "use"}) <= config.limit
    BY <2>4, <2>5
  <2>7. \A k \in Stores : active[k] = {Shard(r) : r \in {x \in Requests : Inside(x, k)}}
    BY <2>2, <2>3
  <2> QED
    BY <2>1, <2>6, <2>7 DEF ResidencyHeld
<1> QED
  BY <1>3, <1>4, <1>5, <1>6, <1>7 DEF IndInv

LEMMA NextIndInv ==
  ASSUME IndInv, [Next]_vars
  PROVE  IndInv'
<1>1. CASE Next
  <2>1. PICK r \in Requests : Arrive(r) \/ ArrivePreload(r) \/ Reject(r) \/ Handle(r)
    BY <1>1 DEF Next
  <2>2. CASE Arrive(r) \/ ArrivePreload(r)
    BY <2>2, StepArrive
  <2>3. CASE Reject(r)
    BY <2>3, StepReject
  <2>4. CASE Handle(r)
    BY <2>4, StepEnter, StepTakeHit, StepCheckMiss, StepLookAgain, StepRetake, StepPutModule,
       StepEvict, StepMark, StepEnforce, StepUse
    DEF Handle
  <2> QED
    BY <2>1, <2>2, <2>3, <2>4
<1>2. CASE UNCHANGED vars
  <2>1. /\ request' = request /\ active' = active /\ cached' = cached /\ config' = config
        /\ UNCHANGED <<config, active>> /\ UNCHANGED <<config, active, cached>>
    BY <1>2 DEF vars
  <2>2. RequestsOK' /\ StoresOK'
    BY <2>1, StoresKept DEF IndInv, RequestsOK, Lawful
  <2>3. Company' /\ Unhurt'
    BY <2>1 DEF IndInv, Company, Unhurt, Sound, Newest, InFlight, IsCached, Store, Shard
  <2>4. ErrorsNeedCompany'
    BY <2>1 DEF IndInv, ErrorsNeedCompany
  <2>5. \A x \in Requests, k \in Stores :
          /\ Inside(x, k)' <=> Inside(x, k)
          /\ Shard(x)' = Shard(x)
          /\ request'[x].at = "use" => request[x].at = "use"
    BY <2>1 DEF Inside, Store, Shard
  <2>6. ResidencyHeld'
    BY <2>1, <2>5, SameUsers DEF IndInv
  <2> QED
    BY <2>2, <2>3, <2>4, <2>6 DEF IndInv
<1> QED
  BY <1>1, <1>2

\* The handlers' records, the stores and the modules found stay in step, however
\* requests overlap between the calls of active_module.
THEOREM HandlersInStep == Spec => []IndInv
<1>1. Init => IndInv
  BY InitIndInv
<1>2. IndInv /\ [Next]_vars => IndInv'
  BY NextIndInv
<1> QED
  BY <1>1, <1>2, PTL DEF Spec

\* For any number of requests and any limit, active_param_shards holds exactly
\* the shards that a request is in, and no more than max_resident_shards are
\* computed with at a time.
THEOREM ResidencyKept == Spec => []ResidencyHeld
<1>1. IndInv => ResidencyHeld
  BY DEF IndInv
<1> QED
  BY <1>1, HandlersInStep, PTL

\* For any prompt, number of tokens and positions, the cached and the uncached
\* path of the generator sample every token from the same last positions.
THEOREM TokensFromContext == Spec => []SampledFromContext
<1>1. IndInv => SampledFromContext
  <2>1. SUFFICES ASSUME IndInv, NEW r \in Requests, "sampled" \in DOMAIN request[r]
                 PROVE  InContext(request[r])
    BY DEF SampledFromContext, InContext
  <2>2. Lawful(request[r])
    BY <2>1 DEF IndInv, RequestsOK
  <2>3. request[r] \notin Failed \cup {New, Rejected}
    BY <2>1 DEF Failed, New, Rejected
  <2> QED
    BY <2>2, <2>3 DEF Lawful
<1> QED
  BY <1>1, HandlersInStep, PTL

\* For any number of requests and shards, the store and its module cache fail no
\* request without company in flight, whatever failed before it.
THEOREM FailuresNeedCompany == Spec => []ErrorsNeedCompany
<1>1. IndInv => ErrorsNeedCompany
  BY DEF IndInv
<1> QED
  BY <1>1, HandlersInStep, PTL
===============================================================================
