-------------------------- MODULE MCEventPipeline --------------------------
(* A finite instance of EventPipeline for TLC: a transaction seen in the     *)
(* mempool and again in its block, and a block of another source.            *)
EXTENDS EventPipeline

CONSTANTS k1, k2, a1, zmq

MCKeys == {k1, k2}
MCActivities == {a1}
MCSources == {zmq}
MCObservations ==
  {[matches |-> <<a1>>, events |-> <<k1>>, source |-> zmq, block |-> FALSE],
   [matches |-> <<a1>>, events |-> <<k1>>, source |-> zmq, block |-> TRUE],
   [matches |-> <<>>, events |-> <<k2, k1>>, source |-> None, block |-> TRUE]}
============================================================================
