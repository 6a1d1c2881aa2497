----------------------- MODULE HistoricalReplayBlocks ----------------------
(***************************************************************************)
(* The loop of run_job and process_block: what a run of HistoricalReplay   *)
(* knows of its block follows it from one await to the next.               *)
(***************************************************************************)
EXTENDS HistoricalReplayLemmas

USE HeightAssumption

\* Inside process_block the loop's knowledge does not change.
LEMMA InsideBlock ==
  ASSUME Grows, NEW r \in Runs, LoopKnows(r),
         pc[r] \in BlockAwaits, pc'[r] \in BlockAwaits,
         mine'[r] = mine[r], height'[r] = height[r]
  PROVE  LoopKnows(r)'
<1>1. CommittedUpTo(height[r] - 1) => CommittedUpTo(height[r] - 1)'
  BY UpToStays
<1> QED
  BY <1>1 DEF LoopKnows, BlockAwaits

\* The loop's own steps, up to the end of process_block: what the run knows of
\* its block follows it from one await to the next.
LEMMA BlockStepKnows ==
  ASSUME ReplayInv, NEW r \in Runs, Grows, mine[r] \in Jobs, CopyOfJob(mine[r]),
         \/ RunStartUpdate(r) \/ LoopEnd(r) \/ LoopBlock(r)
         \/ FetchAndDetect(r) \/ SaveEvent(r) \/ SaveObservation(r)
         \/ SaveCheckpoint(r) \/ CheckpointUpdate(r)
  PROVE  RunSound(r)'
<1>a. TaskTypes /\ LoopKnows(r) /\ BlockKnows(r)
  BY DEF ReplayInv, TypeOK, TaskTypes, RunSound
<1>b. mine' = mine /\ CopyOfJob(mine[r])'
  <2>1. mine' = mine
    BY DEF RunStartUpdate, LoopEnd, LoopBlock, FetchAndDetect, SaveEvent,
           SaveObservation, SaveCheckpoint, CheckpointUpdate
  <2> QED
    BY <2>1, CopyStays
<1>c. SUFFICES LoopKnows(r)' /\ BlockKnows(r)'
  BY <1>b DEF RunSound
<1>1. CASE RunStartUpdate(r)
  <2>1. /\ pc[r] = "start_update" /\ pc'[r] = "loop" /\ current' = current
        /\ height'[r] = mine[r].current_height
    BY <1>a, <1>1 DEF TaskTypes, RunStartUpdate, Goto
  <2>2. /\ \A n : n = mine[r].current_height - 1 => CommittedUpTo(n)'
        /\ mine[r].blocks_processed
             >= mine[r].current_height - mine[r].start_height
    BY UpToStays DEF CopyOfJob, Sound
  <2>3. LoopKnows(r)'
    BY <1>b, <2>1, <2>2 DEF LoopKnows, BlockAwaits
  <2> QED
    BY <1>a, <2>1, <2>3 DEF BlockKnows
<1>2. CASE LoopEnd(r)
  <2>1. /\ pc[r] = "loop" /\ pc'[r] = "finish" /\ current' = current
        /\ height' = height /\ height[r] > mine[r].end_height
    BY <1>a, <1>2 DEF TaskTypes, LoopEnd, Goto
  <2>2. LoopKnows(r)'
    BY <1>a, <1>b, <2>1, UpToStays DEF LoopKnows, BlockAwaits
  <2> QED
    BY <1>a, <2>1, <2>2 DEF BlockKnows
<1>3. CASE LoopBlock(r)
  <2>1. /\ pc[r] = "loop" /\ pc'[r] = "fetch" /\ current' = current
        /\ height' = height /\ height[r] <= mine[r].end_height
    BY <1>a, <1>3 DEF TaskTypes, LoopBlock, Goto
  <2>2. LoopKnows(r)'
    BY <1>a, <1>b, <2>1, UpToStays DEF LoopKnows, BlockAwaits
  <2> QED
    BY <1>a, <2>1, <2>2 DEF BlockKnows
<1>4. CASE FetchAndDetect(r)
  <2>1. PICK found \in Detected(r) :
          /\ pending'[r] = found
          /\ pc'[r] = IF found = {} THEN "watch" ELSE "save_event"
    BY <1>a, <1>4 DEF TaskTypes, FetchAndDetect, Goto
  <2>2. pc[r] = "fetch" /\ height' = height /\ current' = current
    BY <1>4 DEF FetchAndDetect
  <2>3. Certain(height[r]) \subseteq found
    BY <2>1 DEF Detected, Unsure, Certain
  <2>4. BlockKnows(r)'
    BY <1>a, <2>1, <2>2, <2>3 DEF BlockKnows
  <2> QED
    BY <1>a, <1>b, <2>1, <2>2, <2>4, InsideBlock DEF BlockAwaits
<1>5. CASE SaveEvent(r)
  <2>1. PICK e \in pending[r] :
          /\ events' = events \cup {e}
          /\ current'[r] = e /\ pending'[r] = pending[r] \ {e}
    BY <1>a, <1>5 DEF TaskTypes, SaveEvent
  <2>2. /\ pc[r] = "save_event" /\ pc'[r] = "save_observation"
        /\ height' = height /\ observations' = observations
    BY <1>a, <1>5 DEF TaskTypes, SaveEvent, Goto
  <2>3. LoopKnows(r)'
    BY <1>a, <1>b, <2>2, InsideBlock DEF BlockAwaits
  <2>4. EventsAt[height[r]] \subseteq Events /\ NoEvent \notin Events
    <3>1. height[r] \in Nat /\ height[r] <= mine[r].end_height
      BY <1>a, <2>2 DEF TaskTypes, LoopKnows, BlockAwaits
    <3>2. height[r] \in Heights
      BY <3>1, JobFields DEF Heights
    <3> QED
      BY <3>2, EventsAtAssumption, NullAssumption
  <2>5. Certain(height[r])
          \subseteq (events \cap observations) \cup pending[r]
    BY <1>a, <2>2, <2>4 DEF BlockKnows, Certain
  <2>6. BlockKnows(r)'
    BY <2>1, <2>2, <2>5 DEF BlockKnows
  <2> QED
    BY <2>3, <2>6
<1>6. CASE SaveObservation(r)
  <2>1. /\ pc[r] = "save_observation" /\ height' = height /\ events' = events
        /\ observations' = observations \cup {current[r]}
        /\ pending' = pending /\ current'[r] = NoEvent
        /\ pc'[r] = IF pending[r] = {} THEN "watch" ELSE "save_event"
    BY <1>a, <1>6 DEF TaskTypes, SaveObservation, Goto
  <2>2. LoopKnows(r)'
    BY <1>a, <1>b, <2>1, InsideBlock DEF BlockAwaits
  <2>3. /\ Certain(height[r])
             \subseteq (events \cap observations) \cup pending[r] \cup {current[r]}
        /\ current[r] \in events
    BY <1>a, <2>1 DEF BlockKnows
  <2>4. BlockKnows(r)'
    BY <2>1, <2>3 DEF BlockKnows
  <2> QED
    BY <2>2, <2>4
<1>7. CASE SaveCheckpoint(r)
  <2>1. /\ pc[r] = "save_checkpoint" /\ pc'[r] = "checkpoint_update"
        /\ current' = current /\ height' = height
    BY <1>a, <1>7 DEF TaskTypes, SaveCheckpoint, Goto
  <2>2. LoopKnows(r)'
    BY <1>a, <1>b, <2>1, UpToStays DEF LoopKnows, BlockAwaits
  <2> QED
    BY <1>a, <2>1, <2>2 DEF BlockKnows
<1>8. CASE CheckpointUpdate(r)
  <2>1. /\ pc[r] = "checkpoint_update" /\ pc'[r] = "loop"
        /\ current' = current /\ height'[r] = height[r] + 1 /\ height[r] \in Nat
    BY <1>a, <1>8 DEF TaskTypes, CheckpointUpdate, Goto
  <2>2. /\ \A n : n = height[r] => CommittedUpTo(n)'
        /\ mine[r].blocks_processed >= height[r] - mine[r].start_height + 1
    BY <1>a, <2>1, UpToStays DEF LoopKnows
  <2>3. mine[r].blocks_processed >= height'[r] - mine[r].start_height
    BY <2>1, <2>2, JobFields
  <2>4. LoopKnows(r)'
    <3>1. height'[r] - 1 = height[r]
      BY <2>1
    <3> QED
      BY <1>b, <2>1, <2>2, <2>3, <3>1 DEF LoopKnows, BlockAwaits
  <2> QED
    BY <1>a, <2>1, <2>4 DEF BlockKnows
<1> QED
  BY <1>1, <1>2, <1>3, <1>4, <1>5, <1>6, <1>7, <1>8
============================================================================
