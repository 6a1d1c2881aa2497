---------------------- MODULE HistoricalReplayLemmas ----------------------
(***************************************************************************)
(* Lemmas about HistoricalReplay: what a step of run_job, resume_replay or *)
(* a failing call does to the types, the stores and the other runs.        *)
(***************************************************************************)
EXTENDS HistoricalReplay, TLAPS

USE HeightAssumption

(***************************************************************************)
(* Events and observations are only added and the range of a created job   *)
(* never changes, so what is committed stays committed.                    *)
(***************************************************************************)
Grows ==
  /\ events \subseteq events' /\ observations \subseteq observations'
  /\ job # NoJob /\ job' # NoJob
  /\ job'.start_height = job.start_height /\ job'.end_height = job.end_height

\* A committed block stays committed when the stores only grow.
LEMMA CommittedStays ==
  Grows => \A h \in Heights : Committed(h) => Committed(h)'
BY DEF Grows, Committed

\* A committed prefix of the range stays committed.
LEMMA UpToStays ==
  Grows => \A n : CommittedUpTo(n) => CommittedUpTo(n)'
BY CommittedStays DEF Grows, CommittedUpTo

\* A sound copy of the job stays one.
LEMMA CopyStays ==
  ASSUME Grows, NEW j, CopyOfJob(j)
  PROVE  CopyOfJob(j)'
BY UpToStays DEF Grows, CopyOfJob, Sound

\* The parts of the invariant that a step does not touch are preserved.
LEMMA UntouchedStays ==
  ASSUME ReplayInv, Grows
  PROVE  /\ job' = job => StoredSound'
         /\ checkpoints' = checkpoints => CheckpointsSound'
         /\ api' = api => ApiSound'
<1>1. job' = job => StoredSound'
  BY UpToStays DEF ReplayInv, Grows, StoredSound, Sound
<1>2. checkpoints' = checkpoints => CheckpointsSound'
  BY UpToStays DEF ReplayInv, Grows, CheckpointsSound
<1>3. api' = api => ApiSound'
  BY CopyStays DEF ReplayInv, ApiSound
<1> QED
  BY <1>1, <1>2, <1>3

\* A run that takes no step keeps what it knows.
LEMMA OtherRunStays ==
  ASSUME ReplayInv, Grows, NEW q \in Runs,
         pc'[q] = pc[q], mine'[q] = mine[q], height'[q] = height[q],
         pending'[q] = pending[q], current'[q] = current[q]
  PROVE  RunSound(q)'
<1>1. RunSound(q)
  BY DEF ReplayInv
<1>2. (Holding(q) => CopyOfJob(mine[q]))'
  BY <1>1, CopyStays DEF RunSound, Holding
<1>3. LoopKnows(q)'
  BY <1>1, UpToStays DEF RunSound, LoopKnows
<1>4. BlockKnows(q)'
  BY <1>1 DEF Grows, RunSound, BlockKnows
<1> QED
  BY <1>2, <1>3, <1>4 DEF RunSound

(***************************************************************************)
(* A step of run r: what it needs of the other parts.                      *)
(***************************************************************************)

\* Run r takes a step of its own or loses a call.
Step(r) == RunStep(r) \/ BlockFault(r) \/ JobFault(r)

\* Where each task is and what it holds.
TaskTypes ==
  /\ pc \in [Runs -> JobAwaits \cup BlockAwaits \cup Locals \cup Idle]
  /\ mine \in [Runs -> Jobs \cup {NoJob}]
  /\ height \in [Runs -> Nat]
  /\ pending \in [Runs -> SUBSET Events]
  /\ current \in [Runs -> Events \cup {NoEvent}]

OthersStay(r) ==
  \A q \in Runs \ {r} :
    /\ pc'[q] = pc[q] /\ mine'[q] = mine[q] /\ height'[q] = height[q]
    /\ pending'[q] = pending[q] /\ current'[q] = current[q]

\* Before the job exists no run executes, so a step of a run finds a job, and
\* the copy it holds is one of that job.
LEMMA StepHasJob ==
  ASSUME ReplayInv, NEW r \in Runs, Step(r)
  PROVE  /\ job # NoJob /\ job \in Jobs
         /\ Holding(r) => mine[r] \in Jobs /\ CopyOfJob(mine[r])
<1>1. pc[r] # "idle"
  BY DEF Step, RunStep, Goto, BlockAwaits, JobAwaits,
         ResumeGetJob, ResumeRefused, ResumeFromCheckpoint, ResumeUpdateJob, RunGetJob,
         RunStart, RunStartUpdate, LoopEnd, LoopCancelled, LoopPaused, LoopBlock,
         FetchAndDetect, SaveEvent, SaveObservation, FinishBlock,
         SaveCheckpoint, CheckpointUpdate, StopUpdate, Finish,
         CompleteUpdate, Cleanup, FailUpdate, BlockFault, JobFault,
         StopWith
<1>2. job # NoJob
  BY <1>1 DEF ReplayInv, BeforeCreation
<1> QED
  BY <1>2 DEF ReplayInv, TypeOK, RunSound, CopyOfJob

\* The heights and the counter of a job are natural numbers.
LEMMA JobFields ==
  ASSUME NEW j \in Jobs
  PROVE  /\ j.start_height \in Nat /\ j.end_height \in Nat
         /\ j.blocks_processed \in Nat /\ j.end_height \in Heights
BY DEF Jobs, Heights

\* Setting the status of a job gives a job that differs in nothing else.
LEMMA WithStatus ==
  ASSUME NEW j \in Jobs, NEW st \in Statuses
  PROVE  LET k == [j EXCEPT !.status = st]
         IN  /\ k \in Jobs /\ k # NoJob /\ k.status = st
             /\ k.start_height = j.start_height /\ k.end_height = j.end_height
             /\ k.current_height = j.current_height
             /\ k.blocks_processed = j.blocks_processed
<1> DEFINE k == [j EXCEPT !.status = st]
<1>1. /\ k \in Jobs /\ k.status = st
      /\ k.start_height = j.start_height /\ k.end_height = j.end_height
      /\ k.current_height = j.current_height
      /\ k.blocks_processed = j.blocks_processed
  BY DEF Jobs
<1>2. k # NoJob
  BY <1>1, NullAssumption
<1> QED
  BY <1>1, <1>2

\* Every step of a run keeps the types.
LEMMA StepTypes ==
  ASSUME ReplayInv, NEW r \in Runs, Step(r)
  PROVE  TypeOK'
<1> USE DEF TypeOK, JobAwaits, BlockAwaits, Locals, Idle, storage, tokens,
            budget, Holding
<1>0. /\ TypeOK /\ job \in Jobs
      /\ Holding(r) => mine[r] \in Jobs
      /\ LoopKnows(r) /\ BlockKnows(r) /\ CheckpointsSound
  BY StepHasJob DEF ReplayInv, RunSound
<1>1. CASE ResumeGetJob(r)
  BY <1>0, <1>1 DEF ResumeGetJob, Goto
<1>2. CASE ResumeRefused(r)
  BY <1>0, <1>2 DEF ResumeRefused, Return
<1>3. CASE ResumeFromCheckpoint(r)
  <2>1. mine[r] \in Jobs
    BY <1>0, <1>3 DEF ResumeFromCheckpoint, Goto
  <2>2. \A cp \in LatestCheckpoints : FromCheckpoint(mine[r], cp) \in Jobs
    <3> SUFFICES ASSUME NEW cp \in LatestCheckpoints
                 PROVE  FromCheckpoint(mine[r], cp) \in Jobs
      OBVIOUS
    <3>1. cp.completed_height + 1 \in Nat /\ cp.blocks_processed \in Nat
      BY <1>0 DEF LatestCheckpoints, Checkpoints, Heights
    <3> QED
      BY <2>1, <3>1, Zenon DEF FromCheckpoint, Jobs, Statuses
  <2>3. [mine[r] EXCEPT !.status = "Running"] \in Jobs
    BY <2>1 DEF Jobs, Statuses
  <2>4. mine' \in [Runs -> Jobs \cup {NoJob}]
    BY <1>0, <1>3, <2>2, <2>3 DEF ResumeFromCheckpoint
  <2> QED
    BY <1>0, <1>3, <2>4 DEF ResumeFromCheckpoint, Goto
<1>4. CASE ResumeUpdateJob(r)
  BY <1>0, <1>4 DEF ResumeUpdateJob, UpdateJob, Goto
<1>5. CASE RunGetJob(r)
  BY <1>0, <1>5 DEF RunGetJob, Goto
<1>6. CASE RunStart(r)
  BY <1>0, <1>6 DEF RunStart, Goto, Jobs, Statuses
<1>7. CASE RunStartUpdate(r)
  BY <1>0, <1>7 DEF RunStartUpdate, UpdateJob, Goto, Jobs, Statuses
<1>8. CASE LoopEnd(r)
  BY <1>0, <1>8 DEF LoopEnd, Goto
<1>9. CASE LoopCancelled(r)
  BY <1>0, <1>9 DEF LoopCancelled, StopWith, Goto, Jobs, Statuses
<1>10. CASE LoopPaused(r)
  BY <1>0, <1>10 DEF LoopPaused, StopWith, Goto, Jobs, Statuses
<1>11. CASE LoopBlock(r)
  BY <1>0, <1>11 DEF LoopBlock, Goto
<1>12. CASE FetchAndDetect(r)
  <2>1. mine[r] \in Jobs /\ height[r] \in Nat /\ height[r] <= mine[r].end_height
    BY <1>0, <1>12 DEF FetchAndDetect, Goto, LoopKnows
  <2>2. height[r] \in Heights
    BY <2>1 DEF Jobs, Heights
  <2>3. Detected(r) \subseteq SUBSET Events
    BY <2>2, EventsAtAssumption DEF Detected
  <2> QED
    BY <1>0, <1>12, <2>3 DEF FetchAndDetect, Goto
<1>13. CASE SaveEvent(r)
  BY <1>0, <1>13 DEF SaveEvent, Goto
<1>14. CASE SaveObservation(r)
  BY <1>0, <1>14 DEF SaveObservation, Goto, BlockKnows
<1>15. CASE FinishBlock(r)
  <2>1. mine[r] \in Jobs /\ height[r] \in Nat
    BY <1>0, <1>15 DEF FinishBlock, Goto
  <2>2. [mine[r] EXCEPT !.current_height = height[r],
                        !.blocks_processed = mine[r].blocks_processed + 1]
          \in Jobs
    <3>1. mine[r].blocks_processed + 1 \in Nat
      BY <2>1 DEF Jobs
    <3> QED
      BY <2>1, <3>1, Zenon DEF Jobs
  <2> QED
    BY <1>0, <1>15, <2>2 DEF FinishBlock, Goto
<1>16. CASE SaveCheckpoint(r)
  <2>1. mine[r] \in Jobs /\ height[r] \in Nat /\ height[r] <= mine[r].end_height
    BY <1>0, <1>16 DEF SaveCheckpoint, Goto, LoopKnows
  <2>2. height[r] \in Heights /\ mine[r].blocks_processed \in Nat
    BY <2>1 DEF Jobs, Heights
  <2>3. checkpoints' \subseteq Checkpoints
    BY <1>0, <1>16, <2>2 DEF SaveCheckpoint, Checkpoints
  <2> QED
    BY <1>0, <1>16, <2>3 DEF SaveCheckpoint, Goto
<1>17. CASE CheckpointUpdate(r)
  BY <1>0, <1>17 DEF CheckpointUpdate, UpdateJob, Goto
<1>18. CASE StopUpdate(r)
  BY <1>0, <1>18 DEF StopUpdate, UpdateJob, Goto
<1>19. CASE Finish(r)
  BY <1>0, <1>19 DEF Finish, Goto, Jobs, Statuses
<1>20. CASE CompleteUpdate(r)
  BY <1>0, <1>20 DEF CompleteUpdate, UpdateJob, Goto
<1>21. CASE Cleanup(r)
  BY <1>0, <1>21 DEF Cleanup, Return
<1>22. CASE FailUpdate(r)
  BY <1>0, <1>22 DEF FailUpdate, UpdateJob, Return
<1>23. CASE BlockFault(r)
  BY <1>0, <1>23 DEF BlockFault, Jobs, Statuses
<1>24. CASE JobFault(r)
  BY <1>0, <1>24 DEF JobFault, Return
<1> HIDE DEF TypeOK
<1> QED
  BY <1>1, <1>2, <1>3, <1>4, <1>5, <1>6, <1>7, <1>8, <1>9, <1>10, <1>11, <1>12, <1>13,
     <1>14, <1>15, <1>16, <1>17, <1>18, <1>19, <1>20, <1>21, <1>22, <1>23,
     <1>24 DEF Step, RunStep
\* A step of a run only adds to the stores, keeps the range of the job, and
\* leaves the other runs and the operator's request alone.
LEMMA StepGrows ==
  ASSUME ReplayInv, NEW r \in Runs, Step(r)
  PROVE  Grows /\ OthersStay(r) /\ api' = api
<1> USE DEF Grows, OthersStay, storage, tokens, budget
<1>0. /\ TaskTypes /\ job # NoJob
      /\ Holding(r) => /\ mine[r] # NoJob
                       /\ mine[r].start_height = job.start_height
                       /\ mine[r].end_height = job.end_height
  BY StepHasJob DEF ReplayInv, TypeOK, TaskTypes, CopyOfJob
<1>1. CASE ResumeGetJob(r)
  BY <1>0, <1>1 DEF TaskTypes, ResumeGetJob, Goto
<1>2. CASE ResumeRefused(r)
  BY <1>0, <1>2 DEF TaskTypes, ResumeRefused, Return
<1>3. CASE ResumeFromCheckpoint(r)
  BY <1>0, <1>3 DEF TaskTypes, ResumeFromCheckpoint, Goto
<1>4. CASE ResumeUpdateJob(r)
  BY <1>0, <1>4 DEF TaskTypes, ResumeUpdateJob, UpdateJob, Goto, Holding, Idle
<1>5. CASE RunGetJob(r)
  BY <1>0, <1>5 DEF TaskTypes, RunGetJob, Goto
<1>6. CASE RunStart(r)
  BY <1>0, <1>6 DEF TaskTypes, RunStart, Goto
<1>7. CASE RunStartUpdate(r)
  BY <1>0, <1>7 DEF TaskTypes, RunStartUpdate, UpdateJob, Goto, Holding, Idle
<1>8. CASE LoopEnd(r)
  BY <1>0, <1>8 DEF TaskTypes, LoopEnd, Goto
<1>9. CASE LoopCancelled(r)
  BY <1>0, <1>9 DEF TaskTypes, LoopCancelled, StopWith, Goto
<1>10. CASE LoopPaused(r)
  BY <1>0, <1>10 DEF TaskTypes, LoopPaused, StopWith, Goto
<1>11. CASE LoopBlock(r)
  BY <1>0, <1>11 DEF TaskTypes, LoopBlock, Goto
<1>12. CASE FetchAndDetect(r)
  BY <1>0, <1>12 DEF TaskTypes, FetchAndDetect, Goto
<1>13. CASE SaveEvent(r)
  BY <1>0, <1>13 DEF TaskTypes, SaveEvent, Goto
<1>14. CASE SaveObservation(r)
  BY <1>0, <1>14 DEF TaskTypes, SaveObservation, Goto
<1>15. CASE FinishBlock(r)
  BY <1>0, <1>15 DEF TaskTypes, FinishBlock, Goto
<1>16. CASE SaveCheckpoint(r)
  BY <1>0, <1>16 DEF TaskTypes, SaveCheckpoint, Goto
<1>17. CASE CheckpointUpdate(r)
  BY <1>0, <1>17 DEF TaskTypes, CheckpointUpdate, UpdateJob, Goto, Holding, Idle
<1>18. CASE StopUpdate(r)
  BY <1>0, <1>18 DEF TaskTypes, StopUpdate, UpdateJob, Goto, Holding, Idle
<1>19. CASE Finish(r)
  BY <1>0, <1>19 DEF TaskTypes, Finish, Goto
<1>20. CASE CompleteUpdate(r)
  BY <1>0, <1>20 DEF TaskTypes, CompleteUpdate, UpdateJob, Goto, Holding, Idle
<1>21. CASE Cleanup(r)
  BY <1>0, <1>21 DEF TaskTypes, Cleanup, Return
<1>22. CASE FailUpdate(r)
  BY <1>0, <1>22 DEF TaskTypes, FailUpdate, UpdateJob, Return, Holding, Idle
<1>23. CASE BlockFault(r)
  BY <1>0, <1>23 DEF TaskTypes, BlockFault
<1>24. CASE JobFault(r)
  BY <1>0, <1>24 DEF TaskTypes, JobFault, Return
<1> HIDE DEF Grows, OthersStay
<1> QED
  BY <1>1, <1>2, <1>3, <1>4, <1>5, <1>6, <1>7, <1>8, <1>9, <1>10, <1>11, <1>12, <1>13,
     <1>14, <1>15, <1>16, <1>17, <1>18, <1>19, <1>20, <1>21, <1>22, <1>23,
     <1>24 DEF Step, RunStep

\* A step of a run keeps the stored job and the checkpoints sound: a write
\* stores a copy that is sound, a new checkpoint covers a committed prefix.
LEMMA StepStores ==
  ASSUME ReplayInv, NEW r \in Runs, Step(r)
  PROVE  StoredSound' /\ CheckpointsSound'
<1>0. Grows
  BY StepGrows
<1>1. \A h \in Heights : Committed(h) => Committed(h)'
  BY <1>0, CommittedStays
<1>2. CASE job' = mine[r] /\ checkpoints' = checkpoints /\ Holding(r)
  <2>1. CopyOfJob(mine[r])
    BY <1>2 DEF ReplayInv, RunSound
  <2>2. StoredSound'
    BY <1>0, <1>1, <1>2, <2>1 DEF Grows, StoredSound, CopyOfJob, Sound,
        CommittedUpTo
  <2> QED
    BY <1>0, <1>2, <2>2, UntouchedStays
<1>3. CASE SaveCheckpoint(r)
  <2> DEFINE cp == [completed_height |-> height[r],
                    blocks_processed |-> mine[r].blocks_processed]
  <2>1. job' = job /\ checkpoints' = checkpoints \cup {cp}
    BY <1>3 DEF SaveCheckpoint, Goto
  <2>2. /\ CommittedUpTo(height[r])
        /\ mine[r].blocks_processed >= height[r] - mine[r].start_height + 1
        /\ mine[r].start_height = job.start_height
    BY <1>3 DEF SaveCheckpoint, Goto, ReplayInv, RunSound, LoopKnows, CopyOfJob,
                Holding, Idle
  <2>3. CheckpointsSound'
    <3> SUFFICES ASSUME NEW c \in checkpoints \cup {cp}
                 PROVE  /\ CommittedUpTo(c.completed_height)'
                        /\ c.blocks_processed
                             >= c.completed_height - job.start_height + 1
      BY <2>1 DEF CheckpointsSound
    <3>1. /\ CommittedUpTo(c.completed_height)
          /\ c.blocks_processed >= c.completed_height - job.start_height + 1
      BY <2>2 DEF ReplayInv, CheckpointsSound
    <3> QED
      BY <1>1, <2>1, <3>1 DEF CommittedUpTo
  <2> QED
    BY <1>0, <2>1, <2>3, UntouchedStays
<1>4. CASE job' = job /\ checkpoints' = checkpoints
  BY <1>0, <1>4, UntouchedStays
<1>5. \/ job' = mine[r] /\ checkpoints' = checkpoints /\ Holding(r)
      \/ SaveCheckpoint(r)
      \/ job' = job /\ checkpoints' = checkpoints
  BY DEF Step, RunStep, storage, Holding, Idle, ResumeGetJob, Goto, ResumeRefused,
         Return, ResumeFromCheckpoint, ResumeUpdateJob, UpdateJob, RunGetJob, RunStart,
         RunStartUpdate, LoopEnd, LoopCancelled, StopWith, LoopPaused, LoopBlock,
         FetchAndDetect, SaveEvent, SaveObservation, FinishBlock,
         CheckpointUpdate, StopUpdate, Finish, CompleteUpdate, Cleanup,
         FailUpdate, BlockFault, JobFault
<1> QED
  BY <1>2, <1>3, <1>4, <1>5
============================================================================
