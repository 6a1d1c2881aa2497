----------------------- MODULE MCBitcoinCoordinator -----------------------
(* Finite instances of BitcoinCoordinator for TLC. *)
EXTENDS BitcoinCoordinator, TLC

CONSTANTS a1, a2, a3, a4, b2, b3, b4

\* A chain without forks.
LineBlocks == {a1, a2, a3, a4}
LinePrev == a1 :> NoBlock @@ a2 :> a1 @@ a3 :> a2 @@ a4 :> a3
LineHeight == a1 :> 1 @@ a2 :> 2 @@ a3 :> 3 @@ a4 :> 4

\* Two branches from a1, of which the second one wins: by one block, from a2 to
\* b3 or from a3 to b4, or by two, from a2 to b4.
ForkBlocks == {a1, a2, a3, b2, b3, b4}
ForkPrev ==
  a1 :> NoBlock @@ a2 :> a1 @@ a3 :> a2 @@ b2 :> a1 @@ b3 :> b2 @@ b4 :> b3
ForkHeight ==
  a1 :> 1 @@ a2 :> 2 @@ a3 :> 3 @@ b2 :> 2 @@ b3 :> 3 @@ b4 :> 4
============================================================================
