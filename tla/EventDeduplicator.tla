------------------------- MODULE EventDeduplicator -------------------------
(***************************************************************************)
(* The bounded, TTL-aware filter in front of storage and broadcast         *)
(* (crates/obschain-detectors/src/dedup.rs).  filter takes the events of a *)
(* batch one after the other under the write lock; Offer is one of them.   *)
(* A key stands for the event type with its txid, block hash, height or    *)
(* title: event_key and the deterministic event id agree.                  *)
(*                                                                         *)
(* Left out: filter lets a batch through when the lock is poisoned, which  *)
(* takes a panic of another holder; no code under the lock panics.         *)
(***************************************************************************)
EXTENDS Integers, Sequences, FiniteSets, SequencesExt

CONSTANTS
  Keys,         \* deduplication keys
  Sources,      \* observation sources
  None,         \* Option::None
  MaxCapacity,  \* max_capacity, at least 1 by new()
  Ttl,          \* ttl, in clock ticks
  MaxClock,     \* bound on the clock
  MaxOffers     \* bound on the events offered

ASSUME CapacityAssumption == MaxCapacity \in Nat \ {0}
ASSUME TtlAssumption == Ttl \in Nat /\ MaxClock \in Nat /\ MaxOffers \in Nat
ASSUME NoneAssumption == None \notin Sources

VARIABLES
  seen,      \* key -> the time it last passed
  witnesses, \* key -> the sources that were recorded for it
  order,     \* keys, oldest first
  clock,     \* Instant::now()
  passed,    \* history: every pass, [key, at]
  evicted,   \* history: whether the capacity bound ever removed a key
  offers     \* events offered so far

inner == <<seen, witnesses, order>>
history == <<passed, evicted, offers>>
dedupVars == <<inner, clock, history>>

Without(f, S) == [k \in DOMAIN f \ S |-> f[k]]

\* Mutant: an event without a source leaves a witness too.
PushAlways(ws, key, source) ==
  [k \in DOMAIN ws \cup {key} |->
     IF k # key THEN ws[k]
     ELSE IF k \in DOMAIN ws THEN Append(ws[k], source) ELSE <<source>>]

\* entry(key).or_default().push(witness)
Push(ws, key, source) ==
  IF source = None THEN ws
  ELSE [k \in DOMAIN ws \cup {key} |->
          IF k # key THEN ws[k]
          ELSE IF k \in DOMAIN ws THEN Append(ws[k], source) ELSE <<source>>]

DedupInit ==
  /\ seen = <<>> /\ witnesses = <<>> /\ order = <<>>
  /\ clock = 0
  /\ passed = <<>> /\ evicted = FALSE /\ offers = 0

IsDuplicate(key) == key \in DOMAIN seen /\ clock - seen[key] < Ttl

\* A duplicate within the window only leaves a witness.
Drop(key, source) ==
  /\ IsDuplicate(key)
  /\ witnesses' = Push(witnesses, key, source)
  /\ UNCHANGED <<seen, order, passed, evicted>>

\* The eviction loop pops the queue until there is room or it is empty.
Prefix(n) == {order[i] : i \in 1..n}
HasRoom(n) ==
  n = Len(order) \/ Cardinality(DOMAIN seen \ Prefix(n)) < MaxCapacity
IsEviction(n) ==
  n \in 0..Len(order) /\ HasRoom(n) /\ \A m \in 0..(n - 1) : ~HasRoom(m)

\* Mutant: an entry that is already there keeps its old time.
PassUnrefreshed(key, source) ==
  /\ ~IsDuplicate(key)
  /\ \E n \in 0..Len(order) :
       /\ IsEviction(n)
       /\ LET kept == Without(seen, Prefix(n))
          IN seen' = [k \in DOMAIN kept \cup {key} |->
                        IF k \in DOMAIN kept THEN kept[k] ELSE clock]
       /\ witnesses' = Push(Without(witnesses, Prefix(n)), key, source)
       /\ order' = Append(SubSeq(order, n + 1, Len(order)), key)
       /\ evicted' = (evicted \/ n > 0)
  /\ passed' = Append(passed, [key |-> key, at |-> clock])

\* Mutant: the witnesses of an evicted key stay behind.
PassKeepWitnesses(key, source) ==
  /\ ~IsDuplicate(key)
  /\ \E n \in 0..Len(order) :
       /\ IsEviction(n)
       /\ LET kept == Without(seen, Prefix(n))
          IN seen' = [k \in DOMAIN kept \cup {key} |->
                        IF k = key THEN clock ELSE kept[k]]
       /\ witnesses' = Push(witnesses, key, source)
       /\ order' = Append(SubSeq(order, n + 1, Len(order)), key)
       /\ evicted' = (evicted \/ n > 0)
  /\ passed' = Append(passed, [key |-> key, at |-> clock])

\* A fresh event makes room, is recorded and goes on.
Pass(key, source) ==
  /\ ~IsDuplicate(key)
  /\ \E n \in 0..Len(order) :
       /\ IsEviction(n)
       /\ LET kept == Without(seen, Prefix(n))
          IN seen' = [k \in DOMAIN kept \cup {key} |->
                        IF k = key THEN clock ELSE kept[k]]
       /\ witnesses' = Push(Without(witnesses, Prefix(n)), key, source)
       /\ order' = Append(SubSeq(order, n + 1, Len(order)), key)
       /\ evicted' = (evicted \/ n > 0)
  /\ passed' = Append(passed, [key |-> key, at |-> clock])

Offer(key, source) ==
  /\ offers' = offers + 1
  /\ Drop(key, source) \/ Pass(key, source)
  /\ UNCHANGED clock

Tick ==
  /\ clock < MaxClock
  /\ clock' = clock + 1
  /\ UNCHANGED <<inner, history>>

DedupNext ==
  \/ /\ offers < MaxOffers
     /\ \E key \in Keys, source \in Sources \cup {None} : Offer(key, source)
  \/ Tick

DedupSpec == DedupInit /\ [][DedupNext]_dedupVars

(***************************************************************************)
(* Properties.                                                             *)
(***************************************************************************)

\* Every variable holds a value of its Rust type.
DedupTypeOK ==
  /\ DOMAIN seen \subseteq Keys
  /\ \A k \in DOMAIN seen : seen[k] \in 0..clock
  /\ DOMAIN witnesses \subseteq Keys
  /\ \A k \in DOMAIN witnesses : witnesses[k] \in Seq(Sources)
  /\ order \in Seq(Keys)
  /\ clock \in 0..MaxClock
  /\ passed \in Seq([key : Keys, at : Nat])
  /\ evicted \in BOOLEAN
  /\ offers \in 0..MaxOffers

\* The keys that filter remembers are bounded, although it keeps three
\* collections in step by hand: at most max_capacity keys, witnesses for none
\* but those, and each of them still queued, so that the eviction loop always
\* finds something to remove.  (The queue and the list of witnesses of a key have
\* no bound: see OrderBounded.)
DedupBounded ==
  /\ Cardinality(DOMAIN seen) <= MaxCapacity
  /\ DOMAIN witnesses \subseteq DOMAIN seen
  /\ DOMAIN seen \subseteq ToSet(order)

\* As long as the capacity bound removed nothing, the same event never goes to
\* storage and to the clients twice within the TTL.
TtlSeparates ==
  ~evicted => \A i, j \in DOMAIN passed :
    i < j /\ passed[i].key = passed[j].key
      => passed[j].at - passed[i].at >= Ttl

(***************************************************************************)
(* What the documentation says and the code does not keep (see README.md). *)
(***************************************************************************)

\* Eviction is first in, first out: a key that is removed to make room is no
\* younger than a key that stays.
EvictionIsFifo ==
  [][\A gone \in DOMAIN seen \ DOMAIN seen' :
       \A stays \in DOMAIN seen \cap DOMAIN seen' :
         seen'[stays] = seen[stays] => seen[gone] <= seen[stays]]_dedupVars

\* The queue of keys is bounded by the capacity like the map it belongs to.
OrderBounded == Len(order) <= MaxCapacity
============================================================================
