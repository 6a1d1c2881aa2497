--------------------------- MODULE ZmqSubscriber ---------------------------
(***************************************************************************)
(* One topic of the ZeroMQ subscriber                                      *)
(* (crates/obschain-ingest/src/bitcoin_zmq.rs): run_topic_loop connects,   *)
(* subscribes, checks the sequence number of every notification with a     *)
(* ZmqSequenceTracker and forwards it through a bounded channel; the       *)
(* coordinator takes the messages, and on a gap writes the topic's status  *)
(* too.  The publisher and its socket are external.                        *)
(*                                                                         *)
(* A notification is known by its position in the stream the node has      *)
(* published; the number it carries is that position modulo 2^32.  The     *)
(* payload is abstracted to whether it parses.                             *)
(***************************************************************************)
EXTENDS Integers, Sequences, SequencesExt

CONSTANTS
  Modulus,         \* 2^32 in the code: sequence numbers are u32
  InitialBackoff, MaxBackoff,   \* initial_reconnect_ms, max_reconnect_ms
  Capacity,        \* of the channel to the coordinator (2048 in the code)
  None,            \* Option::None
  FirstPublished,  \* what the node had published when the daemon started
  MaxPublished,    \* bound: notifications the node publishes
  MaxLossRun,      \* bound: notifications lost in a row
  MaxOutages,      \* bound: interruptions of the connection
  MaxFaults        \* bound: failing subscribes, malformed or repeated messages

Half == Modulus \div 2
Seq32 == 0..(Modulus - 1)

ASSUME ModulusAssumption == Modulus \in Nat /\ Modulus = 2 * Half /\ Half > 1
ASSUME BackoffAssumption ==
  /\ InitialBackoff \in Nat \ {0} /\ MaxBackoff \in Nat
  /\ InitialBackoff <= MaxBackoff
ASSUME CapacityAssumption == Capacity \in Nat \ {0}
ASSUME BoundsAssumption ==
  /\ MaxPublished \in Nat /\ FirstPublished \in 0..MaxPublished
  /\ MaxOutages \in Nat /\ MaxFaults \in Nat /\ MaxLossRun \in Nat
\* Fewer than 2^31 notifications in a row are lost or malformed.
ASSUME LossAssumption == (MaxLossRun + 1) * (MaxFaults + 1) < Half
ASSUME NoneAssumption == None \notin Nat

VARIABLES
  published,   \* how many notifications the node has published
  wire,        \* the positions of those that are in the socket
  lossRun,     \* how many were lost since the last one in the socket
  nodeUp,      \* the publisher runs: it publishes and accepts connections
  pc,          \* where run_topic_loop is
  status,      \* the topic's SourceHealthState
  backoff,
  last_seq,    \* ZmqSequenceTracker::last_seq
  lastPos,     \* the position of the notification last_seq belongs to
  inHand,      \* the message being sent
  channel,     \* mpsc channel of BitcoinZmqMessage
  open,        \* the coordinator still receives
  handling,    \* the gap message the coordinator is handling, or None
  estimate,    \* zmq_notifications_missed_estimate
  skipped,     \* history: positions jumped over by the trackers
  clean,       \* history: the present connection has jumped over none
  outages, faults

node == <<published, wire, lossRun, nodeUp>>
loop == <<pc, backoff, last_seq, lastPos, inHand>>
coordinator == <<open, handling, estimate>>
budget == <<outages, faults>>
history == <<skipped, clean>>
vars == <<node, loop, status, channel, coordinator, history, budget>>

States == {"Connected", "Connecting", "Degraded", "Disconnected"}

(***************************************************************************)
(* ZmqSequenceTracker::observe.                                            *)
(***************************************************************************)

\* Mutant: ordinary subtraction, which is wrong once the counter wraps.
NoWrapSub(a, b) == IF a >= b THEN a - b ELSE 0

WrappingSub(a, b) == (a - b + Modulus) % Modulus

\* SequenceCheckResult: the kind and, for a gap, the missed notifications.
Observe(prev, seq) ==
  IF prev = None THEN [kind |-> "Initial", missed |-> 0]
  ELSE LET diff == WrappingSub(seq, prev)
       IN IF diff = 0 THEN [kind |-> "Duplicate", missed |-> 0]
          ELSE IF diff = 1 THEN [kind |-> "Consecutive", missed |-> 0]
          ELSE IF diff < Half THEN [kind |-> "Gap", missed |-> diff - 1]
          ELSE [kind |-> "Stale", missed |-> 0]

\* A duplicate or a stale number leaves last_seq alone.
Advances(kind) == kind \in {"Initial", "Consecutive", "Gap"}

Init ==
  /\ published = FirstPublished /\ wire = <<>> /\ lossRun = 0 /\ nodeUp = TRUE
  /\ pc = "start" /\ status = "Disconnected" /\ backoff = InitialBackoff
  /\ last_seq = None /\ lastPos = 0 /\ inHand = None
  /\ channel = <<>> /\ open = TRUE /\ handling = None
  /\ estimate = 0 /\ skipped = 0 /\ clean = TRUE
  /\ outages = 0 /\ faults = 0

Subscribed == pc \in {"recv", "send_gap", "send"}

(***************************************************************************)
(* The node and its socket.                                                *)
(***************************************************************************)

Publish ==
  /\ nodeUp /\ published < MaxPublished
  /\ published' = published + 1
  /\ \/ /\ Subscribed
        /\ wire' = Append(wire, published) /\ lossRun' = 0
     \/ /\ Subscribed /\ lossRun < MaxLossRun
        /\ lossRun' = lossRun + 1 /\ UNCHANGED wire
     \/ ~Subscribed /\ UNCHANGED <<wire, lossRun>>
  /\ UNCHANGED <<nodeUp, loop, status, channel, coordinator, history, budget>>

\* The last notification of the socket arrives twice.
Redeliver ==
  /\ faults < MaxFaults /\ wire # <<>>
  /\ faults' = faults + 1
  /\ wire' = Append(wire, wire[Len(wire)])
  /\ UNCHANGED <<published, lossRun, nodeUp, loop, status, channel, coordinator,
                 history, outages>>

NodeGoesDown ==
  /\ nodeUp /\ outages < MaxOutages
  /\ nodeUp' = FALSE /\ outages' = outages + 1
  /\ UNCHANGED <<published, wire, lossRun, loop, status, channel, coordinator,
                 history, faults>>

NodeComesUp ==
  /\ ~nodeUp /\ nodeUp' = TRUE
  /\ UNCHANGED <<published, wire, lossRun, loop, status, channel, coordinator,
                 history, budget>>

(***************************************************************************)
(* run_topic_loop.                                                         *)
(***************************************************************************)

Goto(from, to) == pc = from /\ pc' = to
SetTopicStatus(state) == status' = state

StartConnecting ==
  /\ Goto("start", "connecting")
  /\ SetTopicStatus("Connecting")
  /\ UNCHANGED <<node, backoff, last_seq, lastPos, inHand, channel, coordinator,
                 history, budget>>

\* Connect, then subscribe; an error of either waits for a retry.
ConnectOk ==
  /\ Goto("connecting", "subscribing") /\ nodeUp
  /\ UNCHANGED <<node, status, backoff, last_seq, lastPos, inHand, channel,
                 coordinator, history, budget>>

ConnectFails ==
  /\ Goto("connecting", "lost") /\ ~nodeUp
  /\ UNCHANGED <<node, status, backoff, last_seq, lastPos, inHand, channel,
                 coordinator, history, budget>>

SubscribeFails ==
  /\ Goto("subscribing", "lost")
  /\ \/ ~nodeUp /\ UNCHANGED faults
     \/ faults < MaxFaults /\ faults' = faults + 1
  /\ UNCHANGED <<node, status, backoff, last_seq, lastPos, inHand, channel,
                 coordinator, history, outages>>

\* Mutant: the doubled delay is not capped.
BackoffUncapped(d) == 2 * d

NextBackoff(d) == IF 2 * d < MaxBackoff THEN 2 * d ELSE MaxBackoff

\* A new connection starts with the initial delay and a fresh tracker.
SubscribeOk ==
  /\ Goto("subscribing", "recv") /\ nodeUp
  /\ SetTopicStatus("Connected")
  /\ backoff' = InitialBackoff
  /\ last_seq' = None
  /\ clean' = TRUE
  /\ wire' = <<>> /\ lossRun' = 0
  /\ UNCHANGED <<published, nodeUp, lastPos, inHand, channel, coordinator,
                 skipped, budget>>

\* Mutant: the error is logged and the loop receives again.
RecvErrorIgnored ==
  pc = "recv" /\ ~nodeUp /\ wire = <<>> /\ UNCHANGED vars

\* socket.recv fails once the node is down and the socket is drained.
RecvError ==
  /\ Goto("recv", "lost") /\ ~nodeUp /\ wire = <<>>
  /\ UNCHANGED <<node, status, backoff, last_seq, lastPos, inHand, channel,
                 coordinator, history, budget>>

Disconnect ==
  /\ Goto("lost", "sleep")
  /\ SetTopicStatus("Disconnected")
  /\ UNCHANGED <<node, backoff, last_seq, lastPos, inHand, channel, coordinator,
                 history, budget>>

\* Mutant: a delay that is over ends the task.
WakeAndStop ==
  /\ Goto("sleep", "stopped")
  /\ backoff' = NextBackoff(backoff)
  /\ UNCHANGED <<node, status, last_seq, lastPos, inHand, channel, coordinator,
                 history, budget>>

Wake ==
  /\ Goto("sleep", "start")
  /\ backoff' = NextBackoff(backoff)
  /\ UNCHANGED <<node, status, last_seq, lastPos, inHand, channel, coordinator,
                 history, budget>>

\* A message with the wrong frames is dropped before the tracker sees it.
RejectMalformed ==
  /\ pc = "recv" /\ wire # <<>> /\ faults < MaxFaults
  /\ faults' = faults + 1
  /\ wire' = Tail(wire)
  /\ UNCHANGED <<published, lossRun, nodeUp, loop, status, channel, coordinator,
                 history, outages>>

\* observe; a gap is sent before the payload.
Check(pos) == Observe(last_seq, pos % Modulus)

Track(pos) ==
  /\ wire' = Tail(wire)
  /\ pc' = IF Check(pos).kind = "Gap" THEN "send_gap" ELSE "send"
  /\ inHand' = [pos |-> pos, missed |-> Check(pos).missed]
  /\ last_seq' = IF Advances(Check(pos).kind) THEN pos % Modulus ELSE last_seq
  /\ lastPos' = IF Advances(Check(pos).kind) THEN pos ELSE lastPos
  /\ LET jumped == IF last_seq = None \/ pos <= lastPos THEN 0
                   ELSE pos - lastPos - 1
     IN skipped' = skipped + jumped /\ clean' = (clean /\ jumped = 0)
  /\ UNCHANGED <<published, lossRun, nodeUp, backoff, channel, coordinator,
                 budget>>

\* Mutant: degrading the topic is left to the coordinator.
ReceiveUnmarked ==
  pc = "recv" /\ wire # <<>> /\ Track(Head(wire)) /\ UNCHANGED status

Receive ==
  /\ pc = "recv" /\ wire # <<>>
  /\ Track(Head(wire))
  /\ IF Check(Head(wire)).kind = "Gap" THEN SetTopicStatus("Degraded")
                                       ELSE UNCHANGED status

\* A send waits for room; when the receiver is gone the task returns.
SendOr(message, next) ==
  \/ /\ open /\ Len(channel) < Capacity
     /\ channel' = Append(channel, message)
     /\ pc' = next
  \/ ~open /\ pc' = "stopped" /\ UNCHANGED channel

SendGap ==
  /\ pc = "send_gap"
  /\ SendOr([type |-> "gap", pos |-> inHand.pos, missed |-> inHand.missed],
            "send")
  /\ inHand' = [inHand EXCEPT !.missed = 0]
  /\ UNCHANGED <<node, status, backoff, last_seq, lastPos, coordinator, history,
                 budget>>

\* The payload, whatever the tracker said of its number; or it does not parse.
Send ==
  /\ pc = "send"
  /\ inHand' = None
  /\ \/ /\ SendOr([type |-> "payload", pos |-> inHand.pos, missed |-> 0], "recv")
        /\ UNCHANGED faults
     \/ /\ faults < MaxFaults /\ faults' = faults + 1
        /\ pc' = "recv" /\ UNCHANGED channel
  /\ UNCHANGED <<node, status, backoff, last_seq, lastPos, coordinator, history,
                 outages>>

(***************************************************************************)
(* The coordinator's side.                                                 *)
(***************************************************************************)

Take ==
  /\ open /\ handling = None /\ channel # <<>>
  /\ channel' = Tail(channel)
  /\ handling' = IF Head(channel).type = "gap" THEN Head(channel) ELSE None
  /\ estimate' = estimate + Head(channel).missed
  /\ UNCHANGED <<node, loop, status, open, history, budget>>

\* handle_sequence_gap marks the topic Degraded once more, then reconciles.
HandleSequenceGap ==
  /\ handling # None
  /\ handling' = None
  /\ SetTopicStatus("Degraded")
  /\ UNCHANGED <<node, loop, channel, open, estimate, history, budget>>

\* The coordinator's loop ends at shutdown and drops the receiver.
Shutdown ==
  /\ open /\ handling = None
  /\ open' = FALSE
  /\ UNCHANGED <<node, loop, status, channel, handling, estimate, history,
                 budget>>

TopicStep ==
  \/ StartConnecting \/ ConnectOk \/ ConnectFails \/ SubscribeOk
  \/ SubscribeFails \/ RecvError \/ Disconnect \/ Wake \/ RejectMalformed
  \/ Receive \/ SendGap \/ Send

CoordinatorStep == Take \/ HandleSequenceGap

Next ==
  \/ Publish \/ Redeliver \/ NodeGoesDown \/ NodeComesUp
  \/ TopicStep \/ CoordinatorStep \/ Shutdown

Spec == Init /\ [][Next]_vars

\* The runtime schedules the tasks; the node may stay away after an outage.
FairSpec == Spec /\ WF_vars(TopicStep) /\ WF_vars(CoordinatorStep)

(***************************************************************************)
(* Properties.                                                             *)
(***************************************************************************)

Messages ==
  [type : {"gap", "payload"}, pos : 0..MaxPublished, missed : 0..MaxPublished]

\* Every variable holds a value of its Rust type; the reconnect delay stays
\* between its initial value and its cap, the channel within its capacity.
TypeOK ==
  /\ published \in 0..MaxPublished /\ lossRun \in 0..MaxLossRun
  /\ wire \in Seq(0..MaxPublished) /\ nodeUp \in BOOLEAN
  /\ pc \in {"start", "connecting", "subscribing", "recv", "send_gap", "send",
             "lost", "sleep", "stopped"}
  /\ status \in States
  /\ backoff \in InitialBackoff..MaxBackoff
  /\ last_seq \in Seq32 \cup {None} /\ lastPos \in Nat
  /\ inHand \in [pos : 0..MaxPublished, missed : 0..MaxPublished] \cup {None}
  /\ channel \in Seq(Messages) /\ Len(channel) <= Capacity
  /\ open \in BOOLEAN /\ handling \in Messages \cup {None}
  /\ estimate \in Nat /\ skipped \in Nat /\ outages \in Nat /\ faults \in Nat

Waiting ==
  FoldSeq(LAMBDA m, sum : sum + m.missed,
          IF inHand = None THEN 0 ELSE inHand.missed, channel)

\* The trackers' gaps add up to the notifications that never arrived between
\* the first and the last one of each connection, across the wrap-around of the
\* counter: the coordinator's estimate and what is still on its way to it.
MissedIsExact == pc # "stopped" => estimate + Waiting = skipped

\* The status says Connected only while the topic is subscribed and no gap was
\* seen on this connection, although two tasks write it: the loop at each of its
\* turns and the coordinator when it gets to a gap, maybe much later.
ConnectedMeansClean ==
  status = "Connected" =>
    clean /\ pc \notin {"start", "connecting", "subscribing", "sleep"}

\* Once the node stays up, a topic that an outage or a failing subscription left
\* Disconnected is connected again, unless the daemon shuts down.
ReconnectsAfterOutage ==
  <>[]nodeUp => ((status = "Disconnected") ~> (status = "Connected" \/ ~open))

\* A node that stays away is noticed, also when it goes while run_topic_loop
\* waits on the full channel or holds messages it has not sent: the subscription
\* is given up for good and the status is no longer Connected, unless the daemon
\* shuts down.
OutageIsNoticed ==
  <>[]~nodeUp => <>[](~open \/ (~Subscribed /\ status # "Connected"))

(***************************************************************************)
(* What the documentation says and the code does not keep (see README.md). *)
(***************************************************************************)

\* A topic that a gap degraded is reported as connected again while the node
\* stays up.
DegradedRecovers ==
  <>[]nodeUp => ((status = "Degraded") ~> (status = "Connected" \/ ~open))
============================================================================
