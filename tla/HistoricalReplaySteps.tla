----------------------- MODULE HistoricalReplaySteps -----------------------
(***************************************************************************)
(* What a run of HistoricalReplay knows after its step: the copy of the    *)
(* job it holds is sound, and its loop vouches only for committed blocks.  *)
(***************************************************************************)
EXTENDS HistoricalReplayBlocks

USE HeightAssumption

\* The places in run_job at which the loop vouches for blocks or holds events.
InLoop ==
  {"loop", "finish", "save_checkpoint", "checkpoint_update"} \cup BlockAwaits

\* A run that is outside the loop need only hold a sound copy.
LEMMA OutsideLoop ==
  ASSUME ReplayInv, NEW r \in Runs, pc[r] # "save_observation",
         current'[r] = current[r], pc'[r] \notin InLoop, CopyOfJob(mine[r])'
  PROVE  RunSound(r)'
<1>1. current'[r] = NoEvent
  BY DEF ReplayInv, RunSound, BlockKnows
<1>2. LoopKnows(r)' /\ BlockKnows(r)'
  BY <1>1 DEF InLoop, LoopKnows, BlockKnows, BlockAwaits
<1> QED
  BY <1>2 DEF RunSound

\* A run that has returned holds nothing.
LEMMA Returned ==
  ASSUME ReplayInv, NEW r \in Runs, pc[r] # "save_observation",
         current'[r] = current[r], pc'[r] = "done"
  PROVE  RunSound(r)'
<1>1. current'[r] = NoEvent
  BY DEF ReplayInv, RunSound, BlockKnows
<1> QED
  BY <1>1 DEF RunSound, Holding, Idle, LoopKnows, BlockKnows, BlockAwaits

\* A copy whose status alone changes, to one other than Completed, stays sound.
LEMMA Restated ==
  ASSUME Grows, NEW j \in Jobs, CopyOfJob(j),
         NEW st \in Statuses \ {"Completed"},
         NEW k, k = [j EXCEPT !.status = st]
  PROVE  CopyOfJob(k)'
<1>1. /\ k # NoJob /\ k.status # "Completed"
      /\ k.start_height = j.start_height /\ k.end_height = j.end_height
      /\ k.current_height = j.current_height
      /\ k.blocks_processed = j.blocks_processed
  BY WithStatus
<1> QED
  BY <1>1, UpToStays DEF Grows, CopyOfJob, Sound

\* Resuming from a checkpoint gives a sound copy: the checkpoint vouches for
\* the blocks below the new height and for their number.
LEMMA ResumedIsSound ==
  ASSUME ReplayInv, Grows, NEW j \in Jobs, CopyOfJob(j), NEW cp \in checkpoints,
         NEW k, k = FromCheckpoint(j, cp)
  PROVE  CopyOfJob(k)'
<1>1. cp.completed_height \in Nat /\ cp.blocks_processed \in Nat
  BY DEF ReplayInv, TypeOK, Checkpoints, Heights
<1>2. k \in Jobs
  <2>1. cp.completed_height + 1 \in Nat
    BY <1>1
  <2> QED
    BY <1>1, <2>1, Zenon DEF FromCheckpoint, Jobs, Statuses
<1>3. k # NoJob
  BY <1>2, NullAssumption
<1>4. /\ k.status = "Running" /\ k.start_height = j.start_height
      /\ k.end_height = j.end_height
      /\ k.current_height = cp.completed_height + 1
      /\ k.blocks_processed = cp.blocks_processed
  BY DEF FromCheckpoint, Jobs
<1>5. /\ CommittedUpTo(cp.completed_height)'
      /\ cp.blocks_processed >= cp.completed_height - job.start_height + 1
  BY UpToStays DEF ReplayInv, CheckpointsSound
<1>6. j.start_height \in Nat /\ j.start_height = job.start_height
  BY JobFields DEF CopyOfJob
<1>7. k.blocks_processed >= k.current_height - k.start_height
  BY <1>1, <1>4, <1>5, <1>6
<1>8. CommittedUpTo(k.current_height - 1)'
  <2>1. k.current_height - 1 = cp.completed_height
    BY <1>1, <1>4
  <2> QED
    BY <1>5, <2>1
<1> QED
  BY <1>3, <1>4, <1>7, <1>8 DEF CopyOfJob, Sound, Grows

\* Counting the block in hand keeps the run's copy sound and lets the loop
\* vouch for one block more.
LEMMA FinishBlockKnows ==
  ASSUME ReplayInv, NEW r \in Runs, Grows, FinishBlock(r), mine[r] \in Jobs,
         CopyOfJob(mine[r])
  PROVE  RunSound(r)'
<1>1. TaskTypes /\ LoopKnows(r) /\ BlockKnows(r) /\ pc[r] = "watch"
  BY DEF ReplayInv, TypeOK, TaskTypes, RunSound, FinishBlock, Goto
<1>2. /\ mine'[r] = [mine[r] EXCEPT
                        !.current_height = height[r],
                        !.blocks_processed = mine[r].blocks_processed + 1]
      /\ current'[r] = current[r]
      /\ \/ pc'[r] = "loop" /\ height'[r] = height[r] + 1
         \/ pc'[r] = "save_checkpoint" /\ height'[r] = height[r]
  BY <1>1 DEF TaskTypes, FinishBlock, Goto
<1>3. /\ CommittedUpTo(height[r] - 1) /\ height[r] <= mine[r].end_height
      /\ mine[r].blocks_processed >= height[r] - mine[r].start_height
  BY <1>1 DEF LoopKnows, BlockAwaits
<1>4. /\ pending[r] = {} /\ current[r] = NoEvent
      /\ Certain(height[r])
           \subseteq (events \cap observations) \cup pending[r] \cup {current[r]}
  BY <1>1 DEF BlockKnows
<1>5. /\ mine[r].start_height \in Nat /\ mine[r].end_height \in Nat
      /\ mine[r].blocks_processed \in Nat /\ mine[r].end_height \in Heights
  BY JobFields
<1>6. height[r] \in Nat
  BY <1>1 DEF TaskTypes
<1>7. PICK k :
        /\ k \in Jobs /\ k = mine'[r] /\ k.current_height = height[r]
        /\ k.blocks_processed = mine[r].blocks_processed + 1
        /\ k.status = mine[r].status /\ k.start_height = mine[r].start_height
        /\ k.end_height = mine[r].end_height
  <2>1. mine[r].blocks_processed + 1 \in Nat
    BY <1>5
  <2>2. PICK k : k = mine'[r]
    OBVIOUS
  <2>3. /\ k \in Jobs /\ k.current_height = height[r]
        /\ k.blocks_processed = mine[r].blocks_processed + 1
        /\ k.status = mine[r].status /\ k.start_height = mine[r].start_height
        /\ k.end_height = mine[r].end_height
    BY <1>2, <1>6, <2>1, <2>2, Zenon DEF Jobs
  <2> QED
    BY <2>2, <2>3
<1>8. k # NoJob
  BY <1>7, NullAssumption
<1>9. Committed(height[r])
  <2>1. height[r] \in Heights
    BY <1>3, <1>5, <1>6 DEF Heights
  <2>2. EventsAt[height[r]] \subseteq Events /\ NoEvent \notin Events
    BY <2>1, EventsAtAssumption, NullAssumption
  <2> QED
    BY <1>4, <2>2 DEF Committed, Certain
<1>10. CommittedUpTo(height[r])
  BY <1>3, <1>6, <1>9 DEF CommittedUpTo, Heights
<1>11. k.blocks_processed >= height[r] - k.start_height + 1
  BY <1>3, <1>5, <1>6, <1>7
<1>12. CopyOfJob(mine[r])'
  <2>1. /\ k.start_height = job'.start_height
        /\ k.end_height = job'.end_height
    BY <1>7 DEF CopyOfJob, Grows
  <2>2. CommittedUpTo(k.current_height - 1)'
    BY <1>3, <1>7, UpToStays
  <2>3. k.blocks_processed >= k.current_height - k.start_height
    BY <1>5, <1>6, <1>7, <1>11
  <2>4. ASSUME k.status = "Completed"
        PROVE  /\ CommittedUpTo(k.end_height)'
               /\ k.blocks_processed >= k.end_height - k.start_height + 1
    <3>1. /\ CommittedUpTo(mine[r].end_height)
          /\ mine[r].blocks_processed
               >= mine[r].end_height - mine[r].start_height + 1
      BY <1>7, <2>4 DEF CopyOfJob, Sound
    <3>2. CommittedUpTo(k.end_height)'
      BY <1>7, <3>1, UpToStays
    <3> QED
      BY <1>5, <1>7, <3>1, <3>2
  <2>5. CopyOfJob(k)'
    BY <1>8, <2>1, <2>2, <2>3, <2>4 DEF CopyOfJob, Sound
  <2> QED
    BY <1>7, <2>5
<1>13. BlockKnows(r)'
  BY <1>2, <1>4 DEF BlockKnows
<1>14. CASE pc'[r] = "loop" /\ height'[r] = height[r] + 1
  <2>1. \A n : n = height[r] => CommittedUpTo(n)'
    BY <1>10, UpToStays
  <2>2. k.blocks_processed >= height'[r] - k.start_height
    BY <1>5, <1>6, <1>7, <1>11, <1>14
  <2>3. LoopKnows(r)'
    BY <1>6, <1>7, <1>14, <2>1, <2>2 DEF LoopKnows, BlockAwaits
  <2> QED
    BY <1>12, <1>13, <2>3 DEF RunSound
<1>15. CASE pc'[r] = "save_checkpoint" /\ height'[r] = height[r]
  <2>1. LoopKnows(r)'
    BY <1>3, <1>7, <1>10, <1>11, <1>15, UpToStays
       DEF LoopKnows, BlockAwaits
  <2> QED
    BY <1>12, <1>13, <2>1 DEF RunSound
<1> QED
  BY <1>2, <1>14, <1>15

\* The loop is left at its end: every block of the range is committed, so the
\* copy may be marked Completed.
LEMMA FinishKnows ==
  ASSUME ReplayInv, NEW r \in Runs, Grows, Finish(r), mine[r] \in Jobs,
         CopyOfJob(mine[r])
  PROVE  RunSound(r)'
<1>1. TaskTypes /\ LoopKnows(r) /\ pc[r] = "finish" /\ height[r] \in Nat
  BY DEF ReplayInv, TypeOK, TaskTypes, RunSound, Finish, Goto
<1>2. /\ \/ mine'[r] = [mine[r] EXCEPT !.status = "Completed"]
         \/ mine'[r] = mine[r]
      /\ pc'[r] \in {"complete_update", "cleanup"} /\ current'[r] = current[r]
  BY <1>1 DEF TaskTypes, Finish, Goto
<1>3. /\ CommittedUpTo(height[r] - 1) /\ height[r] > mine[r].end_height
      /\ mine[r].blocks_processed >= height[r] - mine[r].start_height
  BY <1>1 DEF LoopKnows
<1>4. /\ mine[r].start_height \in Nat /\ mine[r].end_height \in Nat
      /\ mine[r].blocks_processed \in Nat
  BY JobFields
<1>5. /\ CommittedUpTo(mine[r].end_height)
      /\ mine[r].blocks_processed
           >= mine[r].end_height - mine[r].start_height + 1
  BY <1>1, <1>3, <1>4 DEF CommittedUpTo, Heights
<1>6. PICK k : k = [mine[r] EXCEPT !.status = "Completed"]
  BY Zenon
<1>7. /\ k # NoJob /\ k.start_height = mine[r].start_height
      /\ k.end_height = mine[r].end_height
      /\ k.current_height = mine[r].current_height
      /\ k.blocks_processed = mine[r].blocks_processed
  BY <1>6, WithStatus, Zenon DEF Statuses
<1>8. CopyOfJob(k)'
  BY <1>5, <1>7, UpToStays DEF CopyOfJob, Sound, Grows
<1>9. CopyOfJob(mine[r])'
  BY <1>2, <1>6, <1>8, CopyStays
<1> QED
  BY <1>1, <1>2, <1>9, OutsideLoop DEF InLoop, BlockAwaits

\* After its step the run's copy is sound and its loop knows what is committed.
LEMMA StepKnows ==
  ASSUME ReplayInv, NEW r \in Runs, Step(r)
  PROVE  RunSound(r)'
<1> USE DEF TaskTypes, BlockAwaits, InLoop
<1>a. TaskTypes /\ Grows /\ CopyOfJob(job)
  BY StepGrows, StepHasJob DEF ReplayInv, TypeOK, StoredSound, CopyOfJob
<1>b. pc[r] \notin {"idle", "done", "resume_get", "get_job"}
        => mine[r] \in Jobs /\ CopyOfJob(mine[r])
  BY StepHasJob DEF Holding, Idle
<1>c. CASE \/ RunStartUpdate(r) \/ LoopEnd(r) \/ LoopBlock(r)
           \/ FetchAndDetect(r) \/ SaveEvent(r) \/ SaveObservation(r)
           \/ SaveCheckpoint(r) \/ CheckpointUpdate(r)
  <2>1. pc[r] \in InLoop \cup {"start_update"}
    BY <1>c DEF RunStartUpdate, LoopEnd, LoopBlock, FetchAndDetect, SaveEvent,
                SaveObservation, SaveCheckpoint, CheckpointUpdate, Goto
  <2> QED
    BY <1>a, <1>b, <1>c, <2>1, BlockStepKnows
<1>1. CASE ResumeGetJob(r) \/ RunGetJob(r)
  <2>1. /\ pc[r] \in {"resume_get", "get_job"} /\ mine'[r] = job
        /\ pc'[r] \in {"resume_checkpoint", "start"} /\ current' = current
    BY <1>a, <1>1 DEF ResumeGetJob, RunGetJob, Goto
  <2>2. CopyOfJob(mine[r])'
    BY <1>a, <2>1, CopyStays
  <2> QED
    BY <2>1, <2>2, OutsideLoop
<1>2. CASE ResumeRefused(r) \/ Cleanup(r) \/ FailUpdate(r) \/ JobFault(r)
  <2>1. /\ pc[r] # "save_observation" /\ pc'[r] = "done"
        /\ current' = current
    BY <1>a, <1>2 DEF ResumeRefused, Cleanup, FailUpdate, JobFault, JobAwaits,
                      Return
  <2> QED
    BY <2>1, Returned
<1>3. CASE ResumeUpdateJob(r) \/ StopUpdate(r) \/ CompleteUpdate(r)
  <2>1. /\ pc[r] \in {"resume_update", "stop_update", "complete_update"}
        /\ pc'[r] \in {"get_job", "cleanup"}
        /\ mine' = mine /\ current' = current
    BY <1>a, <1>3 DEF ResumeUpdateJob, StopUpdate, CompleteUpdate, Goto
  <2>2. CopyOfJob(mine[r])'
    BY <1>a, <1>b, <2>1, CopyStays
  <2> QED
    BY <2>1, <2>2, OutsideLoop
<1>4. CASE ResumeFromCheckpoint(r)
  <2>1. /\ pc[r] = "resume_checkpoint" /\ pc'[r] = "resume_update"
        /\ current' = current
    BY <1>a, <1>4 DEF ResumeFromCheckpoint, Goto
  <2>2. CASE mine' = [mine EXCEPT ![r].status = "Running"]
    <3>1. mine'[r] = [mine[r] EXCEPT !.status = "Running"]
      BY <1>a, <2>2
    <3>2. CopyOfJob(mine[r])'
      BY <1>a, <1>b, <2>1, <3>1, Restated DEF Statuses
    <3> QED
      BY <2>1, <3>2, OutsideLoop
  <2>3. ASSUME NEW cp \in LatestCheckpoints,
               mine' = [mine EXCEPT ![r] = FromCheckpoint(@, cp)]
        PROVE  RunSound(r)'
    <3>1. mine'[r] = FromCheckpoint(mine[r], cp) /\ cp \in checkpoints
      BY <1>a, <2>3 DEF LatestCheckpoints
    <3>2. CopyOfJob(mine[r])'
      BY <1>a, <1>b, <2>1, <3>1, ResumedIsSound
    <3> QED
      BY <2>1, <3>2, OutsideLoop
  <2> QED
    BY <1>4, <2>2, <2>3 DEF ResumeFromCheckpoint
<1>5. CASE RunStart(r) \/ LoopCancelled(r) \/ LoopPaused(r)
  <2>1. /\ pc[r] \in {"start", "loop"}
        /\ pc'[r] \in {"start_update", "stop_update"} /\ current' = current
        /\ \E st \in {"Running", "Cancelled", "Paused"} :
             mine'[r] = [mine[r] EXCEPT !.status = st]
    BY <1>a, <1>5 DEF RunStart, LoopCancelled, LoopPaused, StopWith, Goto
  <2>2. CopyOfJob(mine[r])'
    BY <1>a, <1>b, <2>1, Restated DEF Statuses
  <2> QED
    BY <2>1, <2>2, OutsideLoop
<1>6. CASE FinishBlock(r)
  <2>1. pc[r] = "watch"
    BY <1>6 DEF FinishBlock, Goto
  <2> QED
    BY <1>a, <1>b, <1>6, <2>1, FinishBlockKnows
<1>7. CASE Finish(r)
  <2>1. pc[r] = "finish"
    BY <1>7 DEF Finish, Goto
  <2> QED
    BY <1>a, <1>b, <1>7, <2>1, FinishKnows
<1>8. CASE BlockFault(r)
  <2>1. /\ pc[r] \in BlockAwaits /\ pc'[r] = "fail_update"
        /\ current'[r] = NoEvent
        /\ mine'[r] = [mine[r] EXCEPT !.status = "Failed"]
    BY <1>a, <1>8 DEF BlockFault
  <2>2. CopyOfJob(mine[r])'
    BY <1>a, <1>b, <2>1, Restated DEF Statuses
  <2>3. LoopKnows(r)' /\ BlockKnows(r)'
    BY <2>1 DEF LoopKnows, BlockKnows
  <2> QED
    BY <2>2, <2>3 DEF RunSound
<1> QED
  BY <1>c, <1>1, <1>2, <1>3, <1>4, <1>5, <1>6, <1>7, <1>8 DEF Step, RunStep
============================================================================
