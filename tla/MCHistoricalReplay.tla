------------------------ MODULE MCHistoricalReplay ------------------------
(* Finite instances of HistoricalReplay for TLC. *)
EXTENDS HistoricalReplay, TLC

CONSTANTS r1, r2, e1, e2, e3

\* A node that has pruned block 0 and whose tip is at MaxHeight - 1: ranges
\* that start at 0 or end at MaxHeight are refused.
MCNode ==
  [initial_block_download |-> FALSE, regtest |-> FALSE, pruned |-> TRUE,
   prune_height |-> {1}, blocks |-> MaxHeight - 1]

\* Height 1 yields two events, one of which takes lookups that may fail: for the
\* previous block's time and for a spent output.  The other heights yield one.
MCEventsAt ==
  [h \in Heights |-> CASE h = 1 -> {e1, e2}
                       [] h = 2 -> {e3}
                       [] OTHER -> {e1}]

MCEvents == {e1, e2, e3}
MCIntervalEvents == {e2}
MCLookupEvents == {e2}

\* One event per height, for the liveness run.
MCEventAt == [h \in Heights |-> IF h = 1 THEN {e1} ELSE {e3}]

\* At most one crash or fault in a behaviour.
OneInterruption == crashes + faults <= 1

RunSymmetry == Permutations(Runs)
============================================================================
