----------------------------- MODULE ShardServing -----------------------------
(* The test host that serves shard runs: FastAPI runs its handlers on a thread *)
(* pool, and all of them generate through one generator and one shard store    *)
(* per run, without a lock.  A generation streams its shards through the       *)
(* store's residency limit and module cache, token after token, with a         *)
(* KV cache or by computing the whole context again.                           *)
(*                                                                             *)
(* A token is its position in prompt and answer, so a context is an interval.  *)
(* Threads switch between the calls of active_module and between two evictions.*)
(* A test of membership and the dictionary operation after it are one step:    *)
(* CPython switches at calls and loops, and there is none in between.  Taken   *)
(* as one step too are the check of a hit and its move to the end, and the     *)
(* search for the module to evict.                                             *)
EXTENDS Integers, Sequences, FiniteSets

CONSTANTS Requests,    \* requests in flight at most, one after the other
          NumShards,   \* shards of a model; the last is lm_head
          Settings,    \* what a store and a host may be started with
          Positions,   \* max_position_embeddings
          Prompts,     \* prompt lengths, trailing EOS tokens stripped
          MaxNew       \* max_new_tokens

ASSUME ServingAssumption ==
  /\ {NumShards, Positions, MaxNew} \subseteq Nat \ {0}
  /\ Settings \subseteq [limit : Nat \ {0}, caching : BOOLEAN, sameBackup : BOOLEAN]
  /\ Prompts \subseteq Nat /\ IsFiniteSet(Requests)

VARIABLES
  config,   \* max_resident_shards, cache_active_modules, backup and primary one run
  request,  \* request -> where its handler is
  active,   \* store -> active_param_shards
  cached    \* store -> shard in _cached_modules -> those less recently used

vars == <<config, request, active, cached>>

Stores == {1, 2}
Shards == 1..NumShards
New    == [at |-> "new"]

Init ==
  /\ config \in Settings
  /\ request = [r \in Requests |-> New]
  /\ active = [k \in Stores |-> {}]
  /\ cached = [k \in Stores |-> [s \in {} |-> {}]]

-------------------------------------------------------------------------------
Backup == IF config.sameBackup THEN 1 ELSE 2

\* The last positions of a context of n tokens that the model can see.
Window(n) == <<IF n > Positions THEN n - Positions + 1 ELSE 1, n>>

InFlight(r) == request[r].at \notin {"new", "done"}
Others(r)   == {o \in Requests \ {r} : InFlight(o)}

\* A handler that starts: the stores it generates with in turn, and how.
Started(r, todo, prompt, new, kv) ==
  [at |-> "enter", todo |-> todo, shard |-> 1, held |-> "none", prompt |-> prompt,
   new |-> new, kv |-> kv, keys |-> <<>>, sampled |-> <<>>,
   overlapped |-> Others(r) # {}]

\* Mark r's entry with v and tell the requests in flight that they had company.
Arriving(r, v) ==
  [o \in Requests |-> IF o = r THEN v
                      ELSE IF InFlight(o) THEN [request[o] EXCEPT !.overlapped = TRUE]
                      ELSE request[o]]

Arrive(r) ==
  /\ ~InFlight(r)
  /\ \E length \in Prompts, kv \in BOOLEAN :
       LET prompt == IF length = 0 THEN 1 ELSE length   \* an empty prompt is BOS
       IN  \/ \E store \in {1, Backup} :
                request' = Arriving(r, Started(r, <<store>>, prompt, MaxNew, kv))
           \/ request' = Arriving(r, Started(r, <<1, Backup>>, prompt, MaxNew, TRUE))
  /\ UNCHANGED <<config, active, cached>>

\* preload_modules takes every shard once and generates nothing.
ArrivePreload(r) ==
  /\ ~InFlight(r)
  /\ \E store \in {1, Backup} : request' = Arriving(r, Started(r, <<store>>, 1, 0, FALSE))
  /\ UNCHANGED <<config, active, cached>>

\* An unknown model (404) or stream=true (400).
Reject(r) ==
  /\ ~InFlight(r)
  /\ request' = [request EXCEPT ![r] = [at |-> "done", answer |-> "rejected"]]
  /\ UNCHANGED <<config, active, cached>>

-------------------------------------------------------------------------------
Store(r) == Head(request[r].todo)
Shard(r) == request[r].shard

\* The handler ends with an exception and the client gets a 500.
Raises(r, answer) ==
  request' = [request EXCEPT ![r] = [at |-> "done", answer |-> answer,
                                     overlapped |-> @.overlapped]]
\* RuntimeError or KeyError of the store, or of a module that was moved away.
Fails(r) == Raises(r, "error")
Goes(r, at, held) == request' = [request EXCEPT ![r].at = at, ![r].held = held]

IsCached(r) == config.caching /\ Shard(r) \in DOMAIN cached[Store(r)]

Refused(r) == Shard(r) \notin active[Store(r)]
                /\ Cardinality(active[Store(r)]) >= config.limit

\* The cache with the shard as the most recently used: move_to_end, or added.
Touched(modules, shard) ==
  [s \in DOMAIN modules \cup {shard} |->
     IF s = shard THEN DOMAIN modules \ {shard} ELSE modules[s] \ {shard}]

\* o's module is the one that the cache has for the shard in r's store.
SharesModule(o, r, shard) ==
  /\ request[o].at \notin {"new", "done"} /\ request[o].held = "cached"
  /\ Store(o) = Store(r) /\ Shard(o) = shard

\* What _put_cached_module may evict, and how long it does.
Idle(r)     == DOMAIN cached[Store(r)] \ active[Store(r)]
TooMany(r)  == Cardinality(DOMAIN cached[Store(r)]) > config.limit

Without(modules, shard) ==
  [s \in DOMAIN modules \ {shard} |-> modules[s] \ {shard}]

\* active_module looks for a built module.
Enter(r) ==
  /\ request[r].at = "enter"
  /\ IF IsCached(r) THEN Goes(r, "hit", "cached") ELSE Goes(r, "miss", "none")
  /\ UNCHANGED <<config, active, cached>>

\* A hit is checked against the limit and moved to the end of the cache, from
\* which another request may have evicted it.
TakeHit(r) ==
  /\ request[r].at = "hit"
  /\ IF Refused(r) \/ ~IsCached(r)
     THEN Fails(r) /\ UNCHANGED cached
     ELSE /\ Goes(r, "mark", request[r].held)
          /\ cached' = [cached EXCEPT ![Store(r)] = Touched(@, Shard(r))]
  /\ UNCHANGED <<config, active>>

CheckMiss(r) ==
  /\ request[r].at = "miss"
  /\ IF Refused(r) THEN Fails(r) ELSE Goes(r, "build", "none")
  /\ UNCHANGED <<config, active, cached>>

\* Loads the payload, looks again, and builds a module if there is still none.
LookAgain(r) ==
  /\ request[r].at = "build"
  /\ \/ ~config.caching /\ Goes(r, "mark", "own")
     \/ IsCached(r) /\ Goes(r, "touch", "cached")
     \/ config.caching /\ ~IsCached(r) /\ Goes(r, "put", "own")
  /\ UNCHANGED <<config, active, cached>>

\* The module found is moved to the end, if no other request has evicted it.
Retake(r) ==
  /\ request[r].at = "touch"
  /\ IF ~IsCached(r)
     THEN Fails(r) /\ UNCHANGED cached
     ELSE /\ Goes(r, "mark", request[r].held)
          /\ cached' = [cached EXCEPT ![Store(r)] = Touched(@, Shard(r))]
  /\ UNCHANGED <<config, active>>

\* _put_cached_module: the module built takes the place of one that another
\* request has put there since; that one keeps its own.
PutModule(r) ==
  /\ request[r].at = "put"
  /\ cached' = [cached EXCEPT ![Store(r)] = Touched(@, Shard(r))]
  /\ request' = [o \in Requests |->
       IF o = r THEN [request[r] EXCEPT !.at = "evict", !.held = "cached"]
       ELSE IF SharesModule(o, r, Shard(r)) THEN [request[o] EXCEPT !.held = "own"]
       ELSE request[o]]
  /\ UNCHANGED <<config, active>>

\* One turn of its loop: the oldest module whose shard is not active goes, and is
\* moved to the CPU under whoever has looked it up.
Evict(r) ==
  /\ request[r].at = "evict"
  /\ \/ /\ TooMany(r)
        /\ \E s \in Idle(r) :
             /\ cached[Store(r)][s] \cap Idle(r) = {}
             /\ cached' = [cached EXCEPT ![Store(r)] = Without(@, s)]
             /\ request' = [o \in Requests |->
                  IF SharesModule(o, r, s) THEN [request[o] EXCEPT !.held = "moved"]
                  ELSE request[o]]
     \/ /\ ~TooMany(r) \/ Idle(r) = {}
        /\ Goes(r, "mark", request[r].held) /\ UNCHANGED cached
  /\ UNCHANGED <<config, active>>

\* _mark_param_active: the shard is entered, then the limits are enforced.
Mark(r) ==
  /\ request[r].at = "mark"
  /\ IF Shard(r) \in active[Store(r)] THEN Fails(r) /\ UNCHANGED active
     ELSE /\ Goes(r, "enforce", request[r].held)
          /\ active' = [active EXCEPT ![Store(r)] = @ \cup {Shard(r)}]
  /\ UNCHANGED <<config, cached>>

\* More shards than allowed, or the whole model.
OverLimit(r) == \/ Cardinality(active[Store(r)]) > config.limit
                \/ active[Store(r)] = Shards /\ NumShards > 1

\* Mutant: the shard stays entered when the limits refuse it.
EnforceKeeping(r) ==
  /\ request[r].at = "enforce"
  /\ IF OverLimit(r) THEN Fails(r) ELSE Goes(r, "use", request[r].held)
  /\ UNCHANGED <<config, active, cached>>

\* Mutant: what was checked before the load is not checked again.
EnforceNothing(r) ==
  /\ request[r].at = "enforce"
  /\ Goes(r, "use", request[r].held)
  /\ UNCHANGED <<config, active, cached>>

Enforce(r) ==
  /\ request[r].at = "enforce"
  /\ IF OverLimit(r)
     THEN /\ Fails(r)
          /\ active' = [active EXCEPT ![Store(r)] = @ \ {Shard(r)}]
     ELSE Goes(r, "use", request[r].held) /\ UNCHANGED active
  /\ UNCHANGED <<config, cached>>

-------------------------------------------------------------------------------
Ids(q)    == q.prompt + Len(q.sampled)      \* prompt and answer so far
Slides(q) == ~q.kv \/ q.prompt >= Positions \* the whole context every time

\* The keys and values a pass works on: the context again, or one more token.
Attended(q) == IF Slides(q) \/ q.keys = <<>> THEN Window(Ids(q))
               ELSE <<q.keys[1], q.keys[2] + 1>>

\* Mutant: the cached path goes on one position too far.
HasRoomAtEnd(q) == Slides(q) \/ q.keys[2] - q.keys[1] + 1 <= Positions

\* No position is left to append another token to the KV cache.
HasRoom(q) == Slides(q) \/ q.keys[2] - q.keys[1] + 1 < Positions

\* The handler returns what was sampled.
Done(q) == [at |-> "done", answer |-> "ok", prompt |-> q.prompt, sampled |-> q.sampled]

\* The request after the pass that sampled a token, or after a preload.
AfterPass(q, eos) ==
  LET seen == [q EXCEPT !.shard = 1, !.at = "enter", !.held = "none",
                        !.keys = Attended(q), !.sampled = Append(@, Attended(q))]
      ends == eos \/ Len(seen.sampled) = q.new \/ ~HasRoom(seen)
      last == Len(q.todo) = 1
  IN  CASE q.new = 0 -> Done(q)
        [] q.new > 0 /\ ~ends -> seen
        [] q.new > 0 /\ ends /\ last -> Done(seen)
        [] OTHER -> [seen EXCEPT !.todo = Tail(@), !.keys = <<>>, !.sampled = <<>>]

\* The forward of one shard, and the end of its active_module context.  With a
\* module that was moved away from a GPU it fails; on the CPU nothing has moved.
\* After the last shard a generation refuses logits that are not finite.
Use(r) ==
  LET q == request[r]
  IN  /\ q.at = "use"
      /\ active' = [active EXCEPT ![Store(r)] = @ \ {Shard(r)}]
      /\ \/ q.held = "moved" /\ Fails(r)
         \/ Shard(r) = NumShards /\ q.new > 0 /\ Raises(r, "non-finite logits")
         \/ /\ Shard(r) < NumShards
            /\ request' = [request EXCEPT ![r].at = "enter", ![r].shard = @ + 1,
                                          ![r].held = "none"]
         \/ /\ Shard(r) = NumShards
            /\ \E eos \in BOOLEAN : request' = [request EXCEPT ![r] = AfterPass(q, eos)]
      /\ UNCHANGED <<config, cached>>

Handle(r) == Enter(r) \/ TakeHit(r) \/ CheckMiss(r) \/ LookAgain(r) \/ Retake(r)
               \/ PutModule(r) \/ Evict(r) \/ Mark(r) \/ Enforce(r) \/ Use(r)

Next == \E r \in Requests : Arrive(r) \/ ArrivePreload(r) \/ Reject(r) \/ Handle(r)

Spec == Init /\ [][Next]_vars

-------------------------------------------------------------------------------
Inside(r, k) == request[r].at \in {"enforce", "use"} /\ Store(r) = k

\* However requests fail or overlap, active_param_shards holds exactly the
\* shards that some request is in, each for one request: an entry left behind
\* would refuse that shard for ever, one removed too early would let the limit
\* be passed.  And though the limit is checked before a payload is loaded, and
\* other requests enter in between, no more than max_resident_shards are computed
\* with at a time.
ResidencyHeld ==
  \A k \in Stores :
    /\ active[k] = {Shard(r) : r \in {x \in Requests : Inside(x, k)}}
    /\ \A r, o \in Requests : Inside(r, k) /\ Inside(o, k) /\ Shard(r) = Shard(o) => r = o
    /\ Cardinality({r \in Requests : Inside(r, k) /\ request[r].at = "use"}) <= config.limit

\* With the KV cache or without, every token is sampled from the last positions
\* of the prompt and the answer before it, each attended to once.
SampledFromContext ==
  \A r \in Requests : "sampled" \in DOMAIN request[r] =>
    \A i \in DOMAIN request[r].sampled :
      request[r].sampled[i] = Window(request[r].prompt + i - 1)

\* The store and its module cache fail a request only if another was in flight
\* with it.  What a request leaves behind that ends with an error, theirs or that
\* of its own logits, makes no later one fail.
ErrorsNeedCompany ==
  \A r \in Requests : request[r].at = "done" /\ request[r].answer = "error" =>
    request[r].overlapped
===============================================================================
