----------------------------- MODULE ScoreCache -----------------------------
(***************************************************************************)
(* LatencyOptimizer of internal/ml/latency.go: scores cached by the hash   *)
(* of the text, least recently used out first.  Get and Put each hold the  *)
(* cache's lock; OptimizedDetect does not between the two.  Texts of fewer *)
(* than 32 characters never get this far.  A score is known by the sets of *)
(* variants it was computed with, which PrecomputeVariants replaces.       *)
(***************************************************************************)
EXTENDS Integers, Sequences, FiniteSets, SequencesExt, Selection

CONSTANTS
  Keys,       \* Hashes of texts.
  Workers,    \* Calls of OptimizedDetect at once, as BatchDetect makes them.
  capacity,
  MaxUses,    \* Bound: how often the cache is used.
  MaxVariants \* Bound: how often the variants are computed.

ASSUME CapacityAssumption ==
  /\ {capacity, MaxVariants} \subseteq Nat \ {0} /\ MaxUses \in Nat
  /\ Keys # {} /\ IsFiniteSet(Workers)

VARIABLES
  order,    \* The list: keys, the most recently used first.
  items,    \* The map: the score of each key in it, 0 for those that are not.
  variantSets, \* Which sets of variants there are.
  worker,   \* worker[w]: where its call is.
  uses      \* Every Get that hit and every Put, newest first.

cacheVars == <<order, items, variantSets, worker, uses>>

NoCall == [pc |-> "idle", key |-> CHOOSE k \in Keys : TRUE, score |-> 0]

CacheTypeOK ==
  /\ order \in Seq(Keys)
  /\ items \in [Keys -> 0..MaxVariants]
  /\ variantSets \in 1..MaxVariants
  /\ worker \in [Workers -> [pc : {"idle", "miss", "put"}, key : Keys, score : 0..MaxVariants]]
  /\ uses \in Seq(Keys) /\ Len(uses) <= MaxUses + Cardinality(Workers)

CacheInit ==
  /\ order = <<>>
  /\ items = [k \in Keys |-> 0]
  /\ variantSets = 1
  /\ worker = [w \in Workers |-> NoCall]
  /\ uses = <<>>

-----------------------------------------------------------------------------
ToFront(seq, k) == <<k>> \o Select(seq, Keys \ {k})

(* The order after Get found k. *)
Touched(k) == ToFront(order, k)

(* Faulty variant: reading leaves the order alone. *)
Untouched(k) == order

MovedToFront(k) == Touched(k)

Hit(w, k) ==
  /\ worker[w].pc = "idle"
  /\ Len(uses) < MaxUses
  /\ items[k] # 0
  /\ order' = MovedToFront(k)
  /\ uses' = <<k>> \o uses
  /\ UNCHANGED <<items, variantSets, worker>>

Miss(w, k) ==
  /\ worker[w].pc = "idle"
  /\ Len(uses) < MaxUses
  /\ items[k] = 0
  /\ worker' = [worker EXCEPT ![w] = [pc |-> "miss", key |-> k, score |-> 0]]
  /\ UNCHANGED <<order, items, variantSets, uses>>

(* optimizedDetectWithSets reads the sets without the lock. *)
Compute(w) ==
  /\ worker[w].pc = "miss"
  /\ worker' = [worker EXCEPT ![w].pc = "put", ![w].score = variantSets]
  /\ UNCHANGED <<order, items, variantSets, uses>>

(* Put: another call may have put the same key meanwhile. *)
Put(w) ==
  /\ worker[w].pc = "put"
  /\ LET k == worker[w].key
         full == items[k] = 0 /\ Len(order) >= capacity
         kept == IF full THEN Front(order) ELSE order
     IN /\ order' = ToFront(kept, k)
        /\ items' = [x \in Keys |-> IF x = k THEN worker[w].score
                                    ELSE IF full /\ x = Last(order) THEN 0 ELSE items[x]]
        /\ uses' = <<k>> \o uses
  /\ worker' = [worker EXCEPT ![w] = NoCall]
  /\ UNCHANGED <<variantSets>>

ResetCache ==
  /\ order # <<>>
  /\ order' = <<>>
  /\ items' = [k \in Keys |-> 0]
  /\ uses' = <<>>
  /\ UNCHANGED <<variantSets, worker>>

(* The cache keeps the scores of the old variants. *)
PrecomputeVariants ==
  /\ variantSets < MaxVariants
  /\ variantSets' = variantSets + 1
  /\ UNCHANGED <<order, items, worker, uses>>

CacheNext ==
  \/ \E w \in Workers :
       \/ \E k \in Keys : Hit(w, k) \/ Miss(w, k)
       \/ Compute(w) \/ Put(w)
  \/ ResetCache \/ PrecomputeVariants

CacheSpec == CacheInit /\ [][CacheNext]_cacheVars

-----------------------------------------------------------------------------
(* Properties *)

(* Where in the history a key was used last. *)
WasUsed(k) == k \in ToSet(uses)
LastUse(k) == CHOOSE i \in DOMAIN uses : uses[i] = k /\ \A j \in 1..i - 1 : uses[j] # k

(* The keys of the list are those used last, and in that order.  So a key stays
   cached while fewer than capacity others are used, whoever uses them
   (latency.go:33, front = most recent); and the map has the same keys. *)
RecentlyUsedCached ==
  /\ \A i, j \in DOMAIN order : i < j => LastUse(order[i]) < LastUse(order[j])
  /\ \A k \in Keys : WasUsed(k) /\ k \notin ToSet(order) =>
       /\ Len(order) = capacity
       /\ \A i \in DOMAIN order : LastUse(order[i]) < LastUse(k)
  /\ \A i \in DOMAIN order : WasUsed(order[i])
  /\ Len(order) <= capacity
  /\ ToSet(order) = {k \in Keys : items[k] # 0}
=============================================================================
