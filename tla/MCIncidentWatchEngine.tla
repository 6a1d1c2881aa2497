----------------------- MODULE MCIncidentWatchEngine -----------------------
(* A finite instance of IncidentWatchEngine for TLC: t1 spends the watched   *)
(* outpoint of t0, t2 an output of t1 and a second watched outpoint, t3 an   *)
(* output of t1 and one of t2; t4 replaces t2.  a1 is a watched address.     *)
EXTENDS IncidentWatchEngine

CONSTANTS t0, t1, t2, t3, t4, w1, w2, w3, w4, w5, a1, s1

In(t, n, address, value) ==
  [prev |-> <<t, n>>, address |-> address, value |-> value]
Out(value) ==
  [op_return |-> FALSE, script |-> None, address |-> None, value |-> value]
Data == [op_return |-> TRUE, script |-> None, address |-> None, value |-> 0]

MCTxs == {t1, t2, t3, t4}
MCInputs ==
  [t \in MCTxs |->
     CASE t = t1 -> <<In(t0, 1, a1, 100)>>
       [] t = t2 -> <<In(t1, 1, None, 5), In(t0, 2, None, 10)>>
       [] t = t3 -> <<In(t1, 3, None, 0), In(t2, 1, None, 0)>>
       [] t = t4 -> <<In(t1, 1, None, 5)>>]
MCOutputs ==
  [t \in MCTxs |->
     CASE t = t1 -> <<Out(5), Data, [Out(10) EXCEPT !.script = s1]>>
       [] t = t2 -> <<Out(0), [Out(10) EXCEPT !.address = a1]>>
       [] t = t3 -> <<Out(0)>>
       [] t = t4 -> <<Out(0)>>]
MCReplaces == [t \in MCTxs |-> IF t = t4 THEN <<t2>> ELSE <<>>]

Watch(kind, watched, classification) ==
  [active |-> TRUE, kind |-> kind, watched |-> watched,
   classification |-> classification]
MCTargets == {w1, w2, w3, w4, w5}
MCTargetOf ==
  [w \in MCTargets |->
     CASE w = w1 -> Watch("OutPoint", <<t0, 1>>, "OnChainVerified")
       [] w = w2 -> Watch("OutPoint", <<t0, 2>>, "Heuristic")
       [] w = w3 -> Watch("Address", a1, "Heuristic")
       [] w = w4 -> Watch("Transaction", t2, "OfficiallyAttributed")
       [] w = w5 -> Watch("ScriptPubKey", s1, "OnChainVerified")]
============================================================================
