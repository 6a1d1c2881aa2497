------------------------ MODULE BitcoinCoordinator ------------------------
(***************************************************************************)
(* The Bitcoin Core ingest coordinator                                     *)
(* (crates/obschain-ingest/src/bitcoin_coordinator.rs): the task that      *)
(* handles ZMQ messages and the task that polls the node over RPC share    *)
(* last_tip_hash and last_tip_height, two cells that no lock joins.  A     *)
(* step is the code between two awaits or two accesses to a shared cell.   *)
(*                                                                         *)
(* The node is external: its active chain is a path in the tree of blocks  *)
(* (Blocks, Prev, HeightOf), it extends its tip or switches to a longer    *)
(* branch, and it publishes each new tip on the rawblock topic and each    *)
(* disconnected block on the sequence topic.  The subscriber in front of   *)
(* the coordinator (see ZmqSubscriber) puts a gap message before a block   *)
(* when it saw that notifications were lost since the previous block.      *)
(*                                                                         *)
(* Left out: transactions (they travel with their block), counters and     *)
(* health states, which nothing here reads back; and notifications that    *)
(* parse_raw_block refuses.                                                *)
(***************************************************************************)
EXTENDS Integers, Sequences, FiniteSets

CONSTANTS
  Blocks, NoBlock,    \* block hashes, and None or the empty hash
  Prev,               \* Prev[b]: the previous block hash of b, or NoBlock
  HeightOf,           \* HeightOf[b]: the height of b
  Bip34Height,        \* Bip34Height[b]: what parse_raw_block reads, 0 if none
  FirstTip,           \* the node's tip when the daemon starts
  ReconcileMax,       \* BitcoinCoordinatorConfig::reconcile_max_blocks
  TraceMax,           \* bound of the ancestor search (100 in the code)
  MaxLost,            \* bound: lost notifications the tracker can notice
  MaxEarly,           \* bound: notifications lost before the very first one
  MaxUnseen,          \* bound: the same, after a reconnection
  MaxSequenceGaps,    \* bound: gaps of the sequence topic
  MaxReconnects,      \* bound: reconnections of the ZMQ sockets
  MaxRpcFailures      \* bound: failing RPC calls

ASSUME TreeAssumption ==
  /\ NoBlock \notin Blocks /\ FirstTip \in Blocks
  /\ Prev \in [Blocks -> Blocks \cup {NoBlock}]
  /\ HeightOf \in [Blocks -> Nat \ {0}]
  /\ Bip34Height \in [Blocks -> Nat]
  /\ \A b \in Blocks : Bip34Height[b] \in {0, HeightOf[b]}
  /\ \A b \in Blocks : Prev[b] # NoBlock => HeightOf[b] = HeightOf[Prev[b]] + 1
ASSUME LimitsAssumption ==
  /\ ReconcileMax \in Nat /\ TraceMax \in Nat \ {0}
  /\ MaxLost \in Nat /\ MaxEarly \in Nat /\ MaxUnseen \in Nat
  /\ MaxSequenceGaps \in Nat /\ MaxReconnects \in Nat /\ MaxRpcFailures \in Nat

VARIABLES
  nodeTip,    \* the node's active tip
  queue,      \* the channel of ZMQ messages (2048 entries in the code)
  heard,      \* the rawblock tracker has seen a notification (last_seq # None)
  missed,     \* rawblock notifications were lost since then
  tipHash, tipHeight,   \* last_tip_hash and last_tip_height
  task,       \* task[t]: where task t is and the local variables it holds
  observed,   \* blocks sent as Observation::Block
  reorgs,     \* the ReorgObservation sent last, a set of at most one
  baseline,   \* the height the coordinator started from (history)
  lost, early, unseen, gaps, reconnects, failures

node == <<nodeTip, heard, missed>>
tip == <<tipHash, tipHeight>>
sent == <<observed, reorgs>>
budget == <<lost, early, unseen, gaps, reconnects, failures>>
vars == <<node, queue, tip, task, sent, baseline, budget>>

Tasks == {"zmq", "poll"}

\* goal is btc_info.blocks, at the height being reconciled, hash the block in
\* hand, known the tip the ZMQ task compares it with.
At(place) ==
  [pc |-> place, goal |-> 0, at |-> 0, hash |-> NoBlock, known |-> NoBlock]

\* The chain that ends in b, and its block at a height.
Chain[b \in Blocks] ==
  {b} \cup (IF Prev[b] = NoBlock THEN {} ELSE Chain[Prev[b]])
AtHeight(b, h) == CHOOSE a \in Chain[b] : HeightOf[a] = h

\* The block k steps behind b, or NoBlock.
Back[k \in 0..TraceMax] ==
  [b \in Blocks \cup {NoBlock} |->
     IF k = 0 \/ b = NoBlock THEN b ELSE Back[k - 1][Prev[b]]]

(***************************************************************************)
(* handle_potential_reorg: walk back from the old tip and from the new     *)
(* tip's previous block in lockstep.  The walk meets, or it stops: after   *)
(* the block at which a header is missing (the first block, an empty hash  *)
(* or the failing call), or after TraceMax steps.                          *)
(***************************************************************************)
Meets(old, prev, k) == Back[k][old] # NoBlock /\ Back[k][old] = Back[k][prev]
Breaks(old, prev, k, fails) ==
  k = fails \/ Back[k + 1][old] = NoBlock \/ Back[k + 1][prev] = NoBlock

StepsTaken(old, prev, fails) ==
  CHOOSE k \in 0..TraceMax :
    /\ k = TraceMax \/ Meets(old, prev, k) \/ Breaks(old, prev, k, fails)
    /\ \A i \in 0..(k - 1) : ~Meets(old, prev, i) /\ ~Breaks(old, prev, i, fails)

\* Mutants: both blocks are pushed before they are compared; the walk starts at
\* the new tip.
ReorgObservationPushFirst(old, new, height, prev, fails) ==
  LET k == StepsTaken(old, prev, fails)
      met == k < TraceMax /\ Meets(old, prev, k)
      pushed == IF k = TraceMax THEN k ELSE k + 1
  IN [old_tip |-> old, old_tip_height |-> tipHeight,
      new_tip |-> new, new_tip_height |-> height, depth |-> k + 1,
      common_ancestor |-> IF met THEN Back[k][old] ELSE NoBlock,
      disconnected |-> [i \in 1..pushed |-> Back[i - 1][old]],
      connected |-> <<new>> \o [i \in 1..pushed |-> Back[i - 1][prev]]]

ReorgObservationFromTip(old, new, height, prev, fails) ==
  LET k == StepsTaken(old, new, fails)
      met == k < TraceMax /\ Meets(old, new, k)
      pushed == IF met \/ k = TraceMax THEN k ELSE k + 1
  IN [old_tip |-> old, old_tip_height |-> tipHeight,
      new_tip |-> new, new_tip_height |-> height, depth |-> k + 1,
      common_ancestor |-> IF met THEN Back[k][old] ELSE NoBlock,
      disconnected |-> [i \in 1..pushed |-> Back[i - 1][old]],
      connected |-> <<new>> \o [i \in 1..pushed |-> Back[i - 1][new]]]

ReorgObservation(old, new, height, prev, fails) ==
  LET k == StepsTaken(old, prev, fails)
      met == k < TraceMax /\ Meets(old, prev, k)
      pushed == IF met \/ k = TraceMax THEN k ELSE k + 1
  IN [old_tip |-> old, old_tip_height |-> tipHeight,
      new_tip |-> new, new_tip_height |-> height, depth |-> k + 1,
      common_ancestor |-> IF met THEN Back[k][old] ELSE NoBlock,
      disconnected |-> [i \in 1..pushed |-> Back[i - 1][old]],
      connected |-> <<new>> \o [i \in 1..pushed |-> Back[i - 1][prev]]]

Init ==
  /\ nodeTip = FirstTip
  /\ queue = <<>>
  /\ heard = FALSE /\ missed = FALSE
  /\ tipHash = NoBlock /\ tipHeight = 0
  /\ task = [zmq |-> At("initialize"), poll |-> At("off")]
  /\ observed = {} /\ reorgs = {}
  /\ baseline = 0
  /\ lost = 0 /\ early = 0 /\ unseen = 0
  /\ gaps = 0 /\ reconnects = 0 /\ failures = 0

Is(t, place) == task[t].pc = place
Become(t, state) == task' = [task EXCEPT ![t] = state]
Goto(t, place) == Become(t, [task[t] EXCEPT !.pc = place])
Return(t) == Become(t, At("idle"))

\* An RPC call answers, or fails within the bound.
RpcAnswers == UNCHANGED budget
RpcFails ==
  /\ failures < MaxRpcFailures
  /\ failures' = failures + 1
  /\ UNCHANGED <<lost, early, unseen, gaps, reconnects>>

(***************************************************************************)
(* The node and the subscriber.                                            *)
(***************************************************************************)

Started == ~Is("poll", "off")

BlockMessages(b) ==
  (IF missed THEN <<[type |-> "gap", block |-> NoBlock]>> ELSE <<>>)
    \o <<[type |-> "block", block |-> b]>>

\* A rawblock notification of b arrives, with sequence messages around it.
Deliver(front, b, behind) ==
  /\ Started
  /\ queue' = queue \o front \o BlockMessages(b) \o behind
  /\ heard' = TRUE /\ missed' = FALSE
  /\ UNCHANGED budget

\* It is lost, and the tracker will notice with the next one; or nobody can
\* notice, because the tracker has seen none: not since the daemon started
\* (before that nobody is subscribed), or not since the last reconnection.
Lose(others) ==
  /\ queue' = IF Started THEN queue \o others ELSE queue
  /\ \/ /\ heard /\ lost < MaxLost
        /\ lost' = lost + 1 /\ UNCHANGED <<early, unseen>>
     \/ /\ ~heard /\ reconnects = 0 /\ early < MaxEarly
        /\ early' = early + 1 /\ UNCHANGED <<lost, unseen>>
     \/ /\ ~heard /\ reconnects > 0 /\ unseen < MaxUnseen
        /\ unseen' = unseen + 1 /\ UNCHANGED <<lost, early>>
  /\ missed' = heard
  /\ UNCHANGED <<heard, gaps, reconnects, failures>>

NodeExtends(b) ==
  /\ Prev[b] = nodeTip
  /\ nodeTip' = b
  /\ Deliver(<<>>, b, <<>>) \/ Lose(<<>>)
  /\ UNCHANGED <<tip, task, sent, baseline>>

\* The node switches to a longer branch: a 'D' per disconnected block.
NodeReorgs(b) ==
  LET gone == Cardinality(Chain[nodeTip] \ Chain[b])
      disc == [i \in 1..gone |-> [type |-> "disconnect", block |-> NoBlock]]
  IN /\ HeightOf[b] > HeightOf[nodeTip]
     /\ gone > 0
     /\ nodeTip' = b
     /\ \/ Deliver(disc, b, <<>>) \/ Deliver(<<>>, b, disc)
        \/ Lose(disc) \/ Lose(<<>>)
     /\ UNCHANGED <<tip, task, sent, baseline>>

\* Messages of the sequence topic, whose tracker is another one, are lost.
SequenceTopicGap ==
  /\ Started
  /\ gaps < MaxSequenceGaps
  /\ gaps' = gaps + 1
  /\ queue' = Append(queue, [type |-> "gap", block |-> NoBlock])
  /\ UNCHANGED <<node, tip, task, sent, baseline, lost, early, unseen,
                 reconnects, failures>>

\* run_topic_loop reconnects with a fresh ZmqSequenceTracker.
Reconnect ==
  /\ heard
  /\ reconnects < MaxReconnects
  /\ reconnects' = reconnects + 1
  /\ heard' = FALSE /\ missed' = FALSE
  /\ UNCHANGED <<nodeTip, queue, tip, task, sent, baseline, lost, early, unseen,
                 gaps, failures>>

(***************************************************************************)
(* initialize: the height is stored even when the hash cannot be fetched.  *)
(***************************************************************************)

\* Mutant: start two blocks back, without a floor.
InitializeHeightBack ==
  /\ Is("zmq", "initialize") /\ Goto("zmq", "initialize_hash")
  /\ tipHeight' = HeightOf[nodeTip] - 2
  /\ baseline' = HeightOf[nodeTip]
  /\ UNCHANGED <<node, queue, tipHash, sent, budget>>

InitializeHeight ==
  /\ Is("zmq", "initialize") /\ Goto("zmq", "initialize_hash")
  /\ tipHeight' = HeightOf[nodeTip]
  /\ baseline' = HeightOf[nodeTip]
  /\ UNCHANGED <<node, queue, tipHash, sent, budget>>

InitializeHash ==
  /\ Is("zmq", "initialize_hash")
  /\ task' = [t \in Tasks |-> At("idle")]
  /\ \/ RpcAnswers /\ tipHash' = AtHeight(nodeTip, tipHeight)
     \/ RpcFails /\ UNCHANGED tipHash
  /\ UNCHANGED <<node, queue, tipHeight, sent, baseline>>

(***************************************************************************)
(* reconcile_tip_and_gap, executed by either task.                         *)
(***************************************************************************)

PollTick ==
  /\ Is("poll", "idle") /\ Goto("poll", "get_info")
  /\ UNCHANGED <<node, queue, tip, sent, baseline, budget>>

GetInfo(t) ==
  /\ Is(t, "get_info")
  /\ \/ /\ RpcAnswers
        /\ Become(t, [At("compare") EXCEPT !.goal = HeightOf[nodeTip]])
     \/ RpcFails /\ Return(t)
  /\ UNCHANGED <<node, queue, tip, sent, baseline>>

Behind(t) == task[t].goal > tipHeight /\ tipHeight > 0
SmallGap(t) == task[t].goal - tipHeight <= ReconcileMax

\* Mutants: only the newest block is fetched; a large gap is ignored.
CompareNewestOnly(t) ==
  /\ Is(t, "compare")
  /\ \/ ~Behind(t) /\ Return(t)
     \/ /\ Behind(t) /\ SmallGap(t)
        /\ Become(t, [task[t] EXCEPT !.pc = "get_hash", !.at = task[t].goal])
     \/ Behind(t) /\ ~SmallGap(t) /\ Goto(t, "skip_height")
  /\ UNCHANGED <<node, queue, tip, sent, baseline, budget>>

CompareSmallOnly(t) ==
  /\ Is(t, "compare")
  /\ \/ (~Behind(t) \/ ~SmallGap(t)) /\ Return(t)
     \/ /\ Behind(t) /\ SmallGap(t)
        /\ Become(t, [task[t] EXCEPT !.pc = "get_hash", !.at = tipHeight + 1])
  /\ UNCHANGED <<node, queue, tip, sent, baseline, budget>>

Compare(t) ==
  /\ Is(t, "compare")
  /\ \/ ~Behind(t) /\ Return(t)
     \/ /\ Behind(t) /\ SmallGap(t)
        /\ Become(t, [task[t] EXCEPT !.pc = "get_hash", !.at = tipHeight + 1])
     \/ Behind(t) /\ ~SmallGap(t) /\ Goto(t, "skip_height")
  /\ UNCHANGED <<node, queue, tip, sent, baseline, budget>>

\* The loop goes on with the next height, or ends.
NextHeight(t) ==
  IF task[t].at < task[t].goal
  THEN Become(t, [task[t] EXCEPT !.pc = "get_hash", !.at = task[t].at + 1])
  ELSE Return(t)

GetHash(t) ==
  /\ Is(t, "get_hash")
  /\ \/ /\ RpcAnswers
        /\ Become(t, [task[t] EXCEPT !.pc = "get_raw",
                                     !.hash = AtHeight(nodeTip, task[t].at)])
     \/ RpcFails /\ NextHeight(t)
  /\ UNCHANGED <<node, queue, tip, sent, baseline>>

\* The block is sent when it can be fetched; the tip moves in either case.
GetRaw(t) ==
  /\ Is(t, "get_raw") /\ Goto(t, "step_hash")
  /\ \/ RpcAnswers /\ observed' = observed \cup {task[t].hash}
     \/ RpcFails /\ UNCHANGED observed
  /\ UNCHANGED <<node, queue, tip, reorgs, baseline>>

StepHash(t) ==
  /\ Is(t, "step_hash") /\ Goto(t, "step_height")
  /\ tipHash' = task[t].hash
  /\ UNCHANGED <<node, queue, tipHeight, sent, baseline, budget>>

StepHeight(t) ==
  /\ Is(t, "step_height") /\ NextHeight(t)
  /\ tipHeight' = task[t].at
  /\ UNCHANGED <<node, queue, tipHash, sent, baseline, budget>>

\* A gap above reconcile_max_blocks: move the baseline, replay nothing.
SkipHeight(t) ==
  /\ Is(t, "skip_height") /\ Goto(t, "skip_hash")
  /\ tipHeight' = task[t].goal
  /\ UNCHANGED <<node, queue, tipHash, sent, baseline, budget>>

SkipHash(t) ==
  /\ Is(t, "skip_hash") /\ Return(t)
  /\ \/ RpcAnswers /\ tipHash' = AtHeight(nodeTip, task[t].goal)
     \/ RpcFails /\ UNCHANGED tipHash
  /\ UNCHANGED <<node, queue, tipHeight, sent, baseline>>

(***************************************************************************)
(* The ZMQ message loop.                                                   *)
(***************************************************************************)

zmq == task["zmq"]

\* Mutant: a gap is counted and reported, nothing is reconciled.
ReceiveGapIgnored ==
  /\ Is("zmq", "idle")
  /\ queue # <<>>
  /\ queue' = Tail(queue)
  /\ LET place == CASE Head(queue).type = "gap" -> "idle"
                    [] Head(queue).type = "disconnect" -> "get_tips"
                    [] Head(queue).type = "block" -> "read_tip"
     IN Become("zmq", [At(place) EXCEPT !.hash = Head(queue).block])
  /\ UNCHANGED <<node, tip, sent, baseline, budget>>

\* handle_sequence_gap reconciles; BlockDisconnected investigates the tips;
\* a raw block is compared with the known tip.
Receive ==
  /\ Is("zmq", "idle")
  /\ queue # <<>>
  /\ queue' = Tail(queue)
  /\ LET place == CASE Head(queue).type = "gap" -> "get_info"
                    [] Head(queue).type = "disconnect" -> "get_tips"
                    [] Head(queue).type = "block" -> "read_tip"
     IN Become("zmq", [At(place) EXCEPT !.hash = Head(queue).block])
  /\ UNCHANGED <<node, tip, sent, baseline, budget>>

\* process_zmq_block: the first block, an extension of the tip, or a mismatch.
ReadTip ==
  /\ Is("zmq", "read_tip")
  /\ IF tipHash \in {NoBlock, Prev[zmq.hash]}
     THEN Goto("zmq", "set_hash")
     ELSE Become("zmq", [zmq EXCEPT !.pc = "trace", !.known = tipHash])
  /\ UNCHANGED <<node, queue, tip, sent, baseline, budget>>

\* handle_potential_reorg with its header calls, one of which may fail.
HandlePotentialReorg ==
  /\ Is("zmq", "trace")
  /\ Become("zmq", [zmq EXCEPT !.pc = "set_hash", !.known = NoBlock])
  /\ \E fails \in 0..TraceMax :
       /\ IF fails = TraceMax THEN RpcAnswers ELSE RpcFails
       /\ reorgs' =
            {ReorgObservation(zmq.known, zmq.hash, Bip34Height[zmq.hash],
                              Prev[zmq.hash], fails)}
  /\ UNCHANGED <<node, queue, tip, observed, baseline>>

SetHash ==
  /\ Is("zmq", "set_hash") /\ Goto("zmq", "set_height")
  /\ tipHash' = zmq.hash
  /\ UNCHANGED <<node, queue, tipHeight, sent, baseline, budget>>

\* The height is the one parse_raw_block found in the coinbase.
SetHeight ==
  /\ Is("zmq", "set_height") /\ Goto("zmq", "send")
  /\ tipHeight' = Bip34Height[zmq.hash]
  /\ UNCHANGED <<node, queue, tipHash, sent, baseline, budget>>

SendBlock ==
  /\ Is("zmq", "send") /\ Return("zmq")
  /\ observed' = observed \cup {zmq.hash}
  /\ UNCHANGED <<node, queue, tip, reorgs, baseline, budget>>

\* investigate_chain_tips: the active tip, and no previous hash to trace from.
GetChainTips ==
  /\ Is("zmq", "get_tips")
  /\ \/ RpcAnswers /\ Become("zmq", [At("compare_tip") EXCEPT !.hash = nodeTip])
     \/ RpcFails /\ Return("zmq")
  /\ UNCHANGED <<node, queue, tip, sent, baseline>>

CompareTip ==
  /\ Is("zmq", "compare_tip")
  /\ IF tipHash \in {NoBlock, zmq.hash}
     THEN Return("zmq")
     ELSE Become("zmq", [zmq EXCEPT !.pc = "investigate", !.known = tipHash])
  /\ UNCHANGED <<node, queue, tip, sent, baseline, budget>>

InvestigateReorg ==
  /\ Is("zmq", "investigate") /\ Goto("zmq", "move_hash")
  /\ reorgs' =
       {ReorgObservation(zmq.known, zmq.hash, HeightOf[zmq.hash], NoBlock,
                         TraceMax)}
  /\ UNCHANGED <<node, queue, tip, observed, baseline, budget>>

MoveHash ==
  /\ Is("zmq", "move_hash") /\ Goto("zmq", "move_height")
  /\ tipHash' = zmq.hash
  /\ UNCHANGED <<node, queue, tipHeight, sent, baseline, budget>>

MoveHeight ==
  /\ Is("zmq", "move_height") /\ Return("zmq")
  /\ tipHeight' = HeightOf[zmq.hash]
  /\ UNCHANGED <<node, queue, tipHash, sent, baseline, budget>>

ReconcileStep(t) ==
  \/ GetInfo(t) \/ Compare(t) \/ GetHash(t) \/ GetRaw(t) \/ StepHash(t)
  \/ StepHeight(t) \/ SkipHeight(t) \/ SkipHash(t)

ZmqStep ==
  \/ InitializeHeight \/ InitializeHash \/ Receive \/ ReconcileStep("zmq")
  \/ ReadTip \/ HandlePotentialReorg \/ SetHash \/ SetHeight \/ SendBlock
  \/ GetChainTips \/ CompareTip \/ InvestigateReorg \/ MoveHash \/ MoveHeight

PollStep == PollTick \/ ReconcileStep("poll")

Next ==
  \/ \E b \in Blocks : NodeExtends(b) \/ NodeReorgs(b)
  \/ SequenceTopicGap
  \/ Reconnect
  \/ ZmqStep
  \/ PollStep

Spec == Init /\ [][Next]_vars

\* The runtime schedules both tasks; the node need not produce blocks.
FairSpec == Spec /\ WF_vars(ZmqStep) /\ WF_vars(PollStep)

(***************************************************************************)
(* Properties.                                                             *)
(***************************************************************************)

\* Every variable holds a value of its Rust type.
TypeOK ==
  /\ nodeTip \in Blocks
  /\ \A i \in DOMAIN queue : queue[i].type \in {"gap", "disconnect", "block"}
                             /\ queue[i].block \in Blocks \cup {NoBlock}
  /\ tipHash \in Blocks \cup {NoBlock} /\ tipHeight \in Nat
  /\ task \in [Tasks -> [pc : STRING, goal : Nat, at : Nat,
                         hash : Blocks \cup {NoBlock},
                         known : Blocks \cup {NoBlock}]]
  /\ observed \subseteq Blocks /\ baseline \in Nat

\* The block the ZMQ task has made the tip but not yet sent.
InHand == IF zmq.pc = "send" THEN {zmq.hash} ELSE {}

\* last_tip_height never passes over a block: every block of the active chain
\* up to it, above the height initialize started from, has been sent to the
\* observation channel, by the ZMQ loop or by a reconciliation of either task.
\* It holds on a growing chain while the tracker notices every loss and every
\* height is decoded (Bip34Height = HeightOf), and fails over a reconnection.
NoBlockSkipped ==
  \A b \in Chain[nodeTip] :
    baseline < HeightOf[b] /\ HeightOf[b] <= tipHeight /\ tipHeight # 0 =>
      b \in observed \cup InHand

\* Every block of the active chain is eventually sent, lost notifications or
\* not: the periodic reconciliation makes up for them.  (The chain of an instance
\* is finite, so from some point on nothing is missing.)
EveryBlockObserved ==
  <>[](\A b \in Chain[nodeTip] : HeightOf[b] > baseline => b \in observed)

\* The coordinator's height catches up with the node's, whatever the two tasks
\* wrote over each other and whatever notification or call was lost, provided
\* that every height is decoded: a stored 0 switches the reconciliation off.
HeightCatchesUp == <>[](tipHeight = HeightOf[nodeTip])

\* The blocks of the branch from b down to, and without, its ancestor a.
Branch(b, a) ==
  [i \in 1..(HeightOf[b] - HeightOf[a]) |-> AtHeight(b, HeightOf[b] - i + 1)]

\* When the lockstep search of handle_potential_reorg finds an ancestor, it is
\* the point at which the two branches fork, and the two reported lists are the
\* two branches, newest block first, without the ancestor.
AncestorIsForkPoint ==
  \A r \in reorgs : r.common_ancestor # NoBlock =>
    /\ Chain[r.old_tip] \cap Chain[r.new_tip] = Chain[r.common_ancestor]
    /\ r.disconnected = Branch(r.old_tip, r.common_ancestor)
    /\ r.connected = Branch(r.new_tip, r.common_ancestor)

\* The new tip was received as a block, so its previous block is known, and the
\* branches fork less than TraceMax blocks below the old tip.
Traceable(r) ==
  /\ r.connected # <<r.new_tip, NoBlock>>
  /\ \E a \in Chain[r.old_tip] \cap Chain[r.new_tip] :
       HeightOf[r.old_tip] - HeightOf[a] < TraceMax

\* The search misses no fork of the usual kind, a new tip one above the old one:
\* if no call failed, and the fork is not too deep, the ancestor is reported.
AncestorIsFound ==
  failures = 0 =>
    \A r \in reorgs :
      Traceable(r) /\ HeightOf[r.new_tip] = HeightOf[r.old_tip] + 1 =>
        r.common_ancestor # NoBlock

(***************************************************************************)
(* What the documentation says and the code does not keep (see README.md). *)
(***************************************************************************)

\* A ReorgObservation is sent only when the old tip left the chain.
NoSpuriousReorg == \A r \in reorgs : r.old_tip \notin Chain[r.new_tip]

\* The same as AncestorIsFound for every fork.  The two walks are in lockstep, so
\* they never meet when the new tip is not exactly one above the old one.
EveryAncestorIsFound ==
  failures = 0 =>
    \A r \in reorgs : Traceable(r) => r.common_ancestor # NoBlock

\* The depth of a ReorgObservation is the number of blocks it disconnects.
DepthCountsDisconnected ==
  \A r \in reorgs :
    r.common_ancestor # NoBlock => r.depth = Len(r.disconnected)
============================================================================
