------------------------ MODULE IncidentWatchEngine ------------------------
(***************************************************************************)
(* The incident watch engine                                               *)
(* (crates/obschain-intelligence/src/watch_engine.rs) and the table of     *)
(* activities its matches are saved in.  The pipeline worker calls         *)
(* process_transaction under the engine's write lock; the call is split    *)
(* here at the points where it changes the state, one step per input,      *)
(* enrolled output or output match, and nothing else happens in between.   *)
(*                                                                         *)
(* A transaction may be observed any number of times: when it enters the   *)
(* mempool, again as rawtx when its block arrives, and inside the block.   *)
(* Texts, timestamps and evidence lists are left out; amounts are in BTC.  *)
(***************************************************************************)
EXTENDS Integers, Sequences, FiniteSets, SequencesExt

CONSTANTS
  Txs,             \* transactions
  Inputs,          \* Inputs[t]: sequence of [prev, address, value]
  Outputs,         \* Outputs[t]: sequence of [op_return, script, address, value]
  Replaces,        \* Replaces[t]: the transactions t replaces, in order
  Targets,         \* watch targets
  TargetOf,        \* TargetOf[w]: [active, kind, watched, classification]
  None,            \* Option::None
  MaxDepth,        \* max_descendant_depth
  MaxTracked,      \* max_tracked_descendants
  MaxObservations, \* bound: calls of process_transaction and _replacement
  MaxEdits         \* bound: targets added or removed

Outpoints == Txs \X Nat

Kinds == {"OutPoint", "ScriptPubKey", "Address", "Transaction"}
Classes == {"OnChainVerified", "OfficiallyAttributed", "ReputableReporting",
            "Heuristic", "Unverified", "Disputed"}

ASSUME DepthAssumption == MaxDepth \in 1..5 /\ MaxTracked \in Nat \ {0}
ASSUME BoundsAssumption == MaxObservations \in Nat /\ MaxEdits \in Nat
ASSUME TargetAssumption ==
  \A w \in Targets : /\ TargetOf[w].kind \in Kinds
                     /\ TargetOf[w].classification \in Classes

VARIABLES
  index,        \* the four indices and all_targets: targets as they were added
  tracked,      \* descendant_outpoints: outpoint -> [target, depth, confidence]
  fifo,         \* descendant_fifo
  call,         \* the call in progress: its place, transaction and status
  enrolling,    \* outputs that enroll_descendants has still to register
  activities,   \* incident_activities: dedup_key -> status
  alerts,       \* the alerts emitted
  confirmed,    \* history: transactions observed in a block
  spent,        \* history: outpoints spent by an observed transaction
  observations, edits

registry == <<tracked, fifo, enrolling>>
store == <<activities, alerts>>
vars == <<index, registry, call, store, confirmed, spent, observations, edits>>

NoCall ==
  [at |-> "idle", tx |-> None, status |-> "Mempool", known |-> {}, n |-> 0]
Idle == call.at = "idle" /\ enrolling = <<>>

(***************************************************************************)
(* calculate_alert_severity and the correlation strength of addresses.     *)
(***************************************************************************)

\* 1 is Low, 2 Medium, 3 High, 4 Critical.
\* Mutant: the cap on heuristic correlations comes after the amounts.
SeverityCapLast(type, strength, value) ==
  CASE type = "WatchedOutpointSpent" -> IF value >= 100 THEN 4 ELSE 3
    [] OTHER ->
       IF value >= 100 /\ strength = "Direct" THEN 4
       ELSE IF value >= 10 THEN 3
       ELSE IF strength = "Heuristic" THEN 2
       ELSE 1

Severity(type, strength, value) ==
  IF type = "WatchedOutpointSpent" THEN (IF value >= 100 THEN 4 ELSE 3)
  ELSE IF strength = "Heuristic" THEN 2
  ELSE IF value >= 100 /\ strength = "Direct" THEN 4
  ELSE IF value >= 10 THEN 3
  ELSE CASE type = "WatchedTransactionObserved" -> 1
         [] type = "NewDescendantObserved" -> IF value >= 5 THEN 3 ELSE 1
         [] OTHER -> 2

AddressStrength(class) ==
  CASE class = "OnChainVerified" -> "Direct"
    [] class = "OfficiallyAttributed" -> "Structural"
    [] OTHER -> "Heuristic"

(***************************************************************************)
(* Matches, and the rows they become: the pipeline saves the activity of   *)
(* each match under its dedup_key, and an alert when the target is known.  *)
(***************************************************************************)

Match(type, target, strength, value) ==
  [type |-> type, target |-> target, strength |-> strength, value |-> value]

\* Mutant: two targets of one transaction share a key.
KeyWithoutTarget(m, t) == <<m.type, t>>

\* dedup_key.
Key(m, t) == <<m.type, t, m.target>>

\* A later activity with the same key overwrites the status.
Save(ms, t, status) ==
  /\ activities' =
       [k \in DOMAIN activities \cup {Key(m, t) : m \in ms} |->
          IF k \in {Key(m, t) : m \in ms} THEN status ELSE activities[k]]
  /\ alerts' = alerts \cup
       {[target |-> m.target, strength |-> m.strength,
         severity |-> Severity(m.type, m.strength, m.value)] :
          m \in {x \in ms : \E i \in DOMAIN index : index[i] = x.target}}

\* The targets of an index entry, in the order they were added.
Lookup(kind, what) ==
  SelectSeq(index, LAMBDA w : /\ TargetOf[w].kind = kind
                              /\ TargetOf[w].watched = what)

\* An address match is as strong as the target's classification allows; every
\* other match is direct.
Matches(kind, what, type, value) ==
  {Match(type, w,
         IF kind = "Address" THEN AddressStrength(TargetOf[w].classification)
                             ELSE "Direct",
         value) : w \in ToSet(Lookup(kind, what))}

Init ==
  /\ index = SetToSeq({w \in Targets : TargetOf[w].active})
  /\ tracked = <<>> /\ fifo = <<>> /\ enrolling = <<>>
  /\ call = NoCall
  /\ activities = <<>> /\ alerts = {}
  /\ confirmed = {} /\ spent = {}
  /\ observations = 0 /\ edits = 0

(***************************************************************************)
(* add_target and remove_target.                                           *)
(***************************************************************************)

AddTarget(w) ==
  /\ Idle /\ edits < MaxEdits
  /\ edits' = edits + 1
  /\ index' = IF TargetOf[w].active THEN Append(index, w) ELSE index
  /\ UNCHANGED <<registry, call, store, confirmed, spent, observations>>

RemoveTarget(w) ==
  /\ Idle /\ edits < MaxEdits
  /\ edits' = edits + 1
  /\ index' = SelectSeq(index, LAMBDA x : x # w)
  /\ UNCHANGED <<registry, call, store, confirmed, spent, observations>>

(***************************************************************************)
(* process_transaction.                                                    *)
(***************************************************************************)

\* The transaction itself may be watched.  known are the inputs whose previous
\* output the observation carries (from the source or the enricher).
ProcessTransaction(t, status, known) ==
  LET type == IF status = "Confirmed" THEN "WatchedTransactionConfirmed"
                                      ELSE "WatchedTransactionObserved"
      total == FoldSeq(LAMBDA out, sum : sum + out.value, 0, Outputs[t])
  IN /\ Idle /\ observations < MaxObservations
     /\ observations' = observations + 1
     /\ call' = [at |-> "outpoint", tx |-> t, status |-> status,
                 known |-> known, n |-> 1]
     /\ Save(Matches("Transaction", t, type, total), t, status)
     /\ confirmed' = IF status = "Confirmed" THEN confirmed \cup {t}
                                             ELSE confirmed
     /\ spent' = spent \cup {Inputs[t][i].prev : i \in DOMAIN Inputs[t]}
     /\ UNCHANGED <<index, registry, edits>>

InCall(place) == call.at = place /\ enrolling = <<>>
Continue(place) == call' = [call EXCEPT !.at = place]
Input == Inputs[call.tx][call.n]
InputValue == IF call.n \in call.known THEN Input.value ELSE 0
InputAddress == IF call.n \in call.known THEN Input.address ELSE None

\* enroll_descendants: the outputs that are not OP_RETURN, within the depth.
Enroll(t, target, depth, confidence) ==
  LET outs == Outputs[t]
      vouts == SelectSeq([n \in DOMAIN outs |-> n],
                         LAMBDA n : ~outs[n].op_return)
  IN IF depth > MaxDepth THEN <<>>
     ELSE [i \in DOMAIN vouts |->
             [key |-> <<t, vouts[i]>>, target |-> target, depth |-> depth,
              confidence |-> confidence]]

\* A) Watched outpoints: every target enrolls the outputs at depth 1.
SpendOutpoint ==
  /\ InCall("outpoint")
  /\ IF call.n > Len(Inputs[call.tx])
     THEN /\ call' = [call EXCEPT !.at = "output", !.n = 1]
          /\ UNCHANGED <<enrolling, store>>
     ELSE LET hits == Lookup("OutPoint", Input.prev)
          IN /\ Save(Matches("OutPoint", Input.prev, "WatchedOutpointSpent",
                             InputValue), call.tx, call.status)
             /\ enrolling' = FlattenSeq(
                  [i \in DOMAIN hits |->
                     Enroll(call.tx, hits[i], 1,
                            TargetOf[hits[i]].classification)])
             /\ Continue("descendant")
  /\ UNCHANGED <<index, tracked, fifo, confirmed, spent, observations, edits>>

\* One output: the oldest entry makes room, then the output is registered.
\* Mutant: the outpoint map is bounded, not the queue.
EnrollOneByMapSize ==
  LET e == Head(enrolling)
      full == Cardinality(DOMAIN tracked) >= MaxTracked
      kept == IF full THEN DOMAIN tracked \ {Head(fifo)} ELSE DOMAIN tracked
  IN /\ enrolling # <<>>
     /\ enrolling' = Tail(enrolling)
     /\ fifo' = Append(IF full THEN Tail(fifo) ELSE fifo, e.key)
     /\ tracked' = [o \in kept \cup {e.key} |->
          IF o = e.key THEN [target |-> e.target, depth |-> e.depth,
                             confidence |-> e.confidence]
                       ELSE tracked[o]]
     /\ UNCHANGED <<index, call, store, confirmed, spent, observations, edits>>

EnrollOne ==
  LET e == Head(enrolling)
      full == Len(fifo) >= MaxTracked
      kept == IF full THEN DOMAIN tracked \ {Head(fifo)} ELSE DOMAIN tracked
  IN /\ enrolling # <<>>
     /\ enrolling' = Tail(enrolling)
     /\ fifo' = Append(IF full THEN Tail(fifo) ELSE fifo, e.key)
     /\ tracked' = [o \in kept \cup {e.key} |->
          IF o = e.key THEN [target |-> e.target, depth |-> e.depth,
                             confidence |-> e.confidence]
                       ELSE tracked[o]]
     /\ UNCHANGED <<index, call, store, confirmed, spent, observations, edits>>

\* Mutant: the next generation is registered with its parent's depth.
SpendDescendantSameDepth ==
  /\ InCall("descendant") /\ Continue("address")
  /\ IF Input.prev \in DOMAIN tracked
     THEN LET d == tracked[Input.prev]
          IN /\ tracked' = [o \in DOMAIN tracked \ {Input.prev} |-> tracked[o]]
             /\ enrolling' = Enroll(call.tx, d.target, d.depth, d.confidence)
             /\ Save({Match("NewDescendantObserved", d.target, "Structural",
                            InputValue)}, call.tx, call.status)
     ELSE UNCHANGED <<tracked, enrolling, store>>
  /\ UNCHANGED <<index, fifo, confirmed, spent, observations, edits>>

\* B) A tracked descendant is spent: it leaves the map but not the queue, and
\* the outputs become the next generation.
SpendDescendant ==
  /\ InCall("descendant") /\ Continue("address")
  /\ IF Input.prev \in DOMAIN tracked
     THEN LET d == tracked[Input.prev]
          IN /\ tracked' = [o \in DOMAIN tracked \ {Input.prev} |-> tracked[o]]
             /\ enrolling' = IF d.depth < MaxDepth
                             THEN Enroll(call.tx, d.target, d.depth + 1,
                                         d.confidence)
                             ELSE <<>>
             /\ Save({Match("NewDescendantObserved", d.target, "Structural",
                            InputValue)}, call.tx, call.status)
     ELSE UNCHANGED <<tracked, enrolling, store>>
  /\ UNCHANGED <<index, fifo, confirmed, spent, observations, edits>>

\* C) A watched address is spent from, when the address is known.
SpendAddress ==
  /\ InCall("address")
  /\ call' = [call EXCEPT !.at = "outpoint", !.n = call.n + 1]
  /\ Save(Matches("Address", InputAddress, "WatchedAddressSpent",
                  InputValue), call.tx, call.status)
  /\ UNCHANGED <<index, registry, confirmed, spent, observations, edits>>

\* Outputs: watched scripts and addresses that receive.
ReceiveOutput ==
  /\ InCall("output")
  /\ IF call.n > Len(Outputs[call.tx])
     THEN call' = NoCall /\ UNCHANGED store
     ELSE LET out == Outputs[call.tx][call.n]
          IN /\ Save(Matches("ScriptPubKey", out.script, "WatchedScriptReceived",
                             out.value)
                       \cup Matches("Address", out.address,
                                    "WatchedAddressReceived", out.value), call.tx, call.status)
             /\ call' = [call EXCEPT !.n = call.n + 1]
  /\ UNCHANGED <<index, registry, confirmed, spent, observations, edits>>

\* process_replacement: the first target of the replacement, or else of the
\* first replaced transaction that is watched.
ProcessReplacement(t) ==
  LET watched == SelectSeq(<<t>> \o Replaces[t],
                           LAMBDA x : Lookup("Transaction", x) # <<>>)
  IN /\ Idle /\ observations < MaxObservations
     /\ Replaces[t] # <<>>
     /\ observations' = observations + 1
     /\ IF watched = <<>> THEN UNCHANGED store
        ELSE Save({Match("TransactionReplacement",
                         Head(Lookup("Transaction", Head(watched))),
                         "Structural", 0)}, t, "Mempool")
     /\ UNCHANGED <<index, registry, call, confirmed, spent, edits>>

Next ==
  \/ \E w \in Targets : AddTarget(w) \/ RemoveTarget(w)
  \/ \E t \in Txs, status \in {"Mempool", "Confirmed"} :
       \E known \in SUBSET DOMAIN Inputs[t] :
         ProcessTransaction(t, status, known)
  \/ SpendOutpoint \/ EnrollOne \/ SpendDescendant \/ SpendAddress
  \/ ReceiveOutput
  \/ \E t \in Txs : ProcessReplacement(t)

Spec == Init /\ [][Next]_vars

(***************************************************************************)
(* Properties.                                                             *)
(***************************************************************************)

Tracked == [target : Targets, depth : Nat, confidence : Classes]
Keys ==
  {"WatchedTransactionConfirmed", "WatchedTransactionObserved",
   "WatchedOutpointSpent", "NewDescendantObserved", "WatchedAddressSpent",
   "WatchedScriptReceived", "WatchedAddressReceived", "TransactionReplacement"}
    \X Txs \X Targets

\* Every variable holds a value of its Rust type.
TypeOK ==
  /\ index \in Seq(Targets)
  /\ \A o \in DOMAIN tracked : o \in Outpoints /\ tracked[o] \in Tracked
  /\ \A i \in DOMAIN fifo : fifo[i] \in Outpoints
  /\ call.at \in {"idle", "outpoint", "descendant", "address", "output"}
  /\ call.n \in Nat /\ call.tx \in Txs \cup {None}
  /\ DOMAIN activities \subseteq Keys
  /\ \A k \in DOMAIN activities : activities[k] \in {"Mempool", "Confirmed"}
  /\ \A a \in alerts : a.severity \in 1..4

\* descendant_outpoints and descendant_fifo, which the code keeps in step by
\* hand, stay bounded together: the queue never outgrows its limit and every
\* tracked outpoint is still in it, so that each will be evicted in its turn.
TrackingBounded ==
  Len(fifo) <= MaxTracked /\ DOMAIN tracked \subseteq ToSet(fifo)

\* The outpoints that are d transactions away from what w watches.
OutpointsOf(t) == {<<t, n>> : n \in DOMAIN Outputs[t]}
ChildrenOf(os) ==
  UNION {OutpointsOf(t) : t \in {x \in Txs : \E i \in DOMAIN Inputs[x] :
                                               Inputs[x][i].prev \in os}}
Generation(w) ==
  LET gen[d \in 1..MaxDepth] ==
        ChildrenOf(IF d = 1 THEN {TargetOf[w].watched} ELSE gen[d - 1])
  IN gen

\* The depth of a tracked descendant is a distance from the watched outpoint of
\* its origin in the transaction graph, and within the limit, whatever was
\* observed twice, out of order, evicted or enrolled again by another target.
DepthIsDistance ==
  \A o \in DOMAIN tracked :
    /\ tracked[o].depth \in 1..MaxDepth
    /\ o \in Generation(tracked[o].target)[tracked[o].depth]

\* An alert whose correlation is heuristic is at most Medium.
HeuristicStrengthCapped ==
  \A a \in alerts : a.strength = "Heuristic" => a.severity <= 2

(***************************************************************************)
(* What the documentation says and the code does not keep (see README.md). *)
(***************************************************************************)

\* An alert from a target whose classification is heuristic is at most Medium.
HeuristicTargetCapped ==
  \A a \in alerts :
    TargetOf[a.target].classification = "Heuristic" => a.severity <= 2

\* A tracked descendant is an unspent output, as far as the engine has seen.
TrackedIsUnspent == Idle => DOMAIN tracked \cap spent = {}

\* Once a transaction was observed in a block, the activities its spends
\* triggered are stored as confirmed.
ConfirmedIsStored ==
  LET ofSpends == {k \in DOMAIN activities :
        k[1] \in {"WatchedOutpointSpent", "NewDescendantObserved"}}
  IN Idle => \A k \in ofSpends :
               k[2] \in confirmed => activities[k] = "Confirmed"
============================================================================
