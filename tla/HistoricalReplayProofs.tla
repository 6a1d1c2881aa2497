---------------------- MODULE HistoricalReplayProofs ----------------------
(***************************************************************************)
(* Proofs about HistoricalReplay, for every range, number of runs, set of  *)
(* events, checkpoint interval and budget.                                 *)
(***************************************************************************)
EXTENDS HistoricalReplaySteps

USE HeightAssumption

\* In the initial state nothing is stored and no task holds a copy of a job.
LEMMA InitReplayInv == Init => ReplayInv
<1> SUFFICES ASSUME Init PROVE ReplayInv
  OBVIOUS
<1>1. TypeOK
  BY DEF Init, TypeOK, Idle
<1>2. BeforeCreation /\ StoredSound /\ CheckpointsSound /\ ApiSound
  BY DEF Init, BeforeCreation, StoredSound, CheckpointsSound, ApiSound
<1>3. \A r \in Runs : RunSound(r)
  BY DEF Init, RunSound, Holding, LoopKnows, BlockKnows, Idle, BlockAwaits
<1> QED
  BY <1>1, <1>2, <1>3 DEF ReplayInv

\* A step of a run preserves the invariant.
LEMMA StepKeepsInv ==
  ASSUME ReplayInv, NEW r \in Runs, Step(r)
  PROVE  ReplayInv'
<1>1. TypeOK' /\ StoredSound' /\ CheckpointsSound' /\ RunSound(r)'
  BY StepTypes, StepStores, StepKnows
<1>2. Grows /\ OthersStay(r) /\ api' = api
  BY StepGrows
<1>3. ApiSound'
  BY <1>2, UntouchedStays
<1>4. ASSUME NEW q \in Runs PROVE RunSound(q)'
  BY <1>1, <1>2, OtherRunStays DEF OthersStay
<1>5. BeforeCreation'
  BY <1>2 DEF Grows, BeforeCreation
<1> QED
  BY <1>1, <1>3, <1>4, <1>5 DEF ReplayInv

\* Creating the job preserves the invariant: nothing is vouched for yet.
LEMMA CreateKeepsInv ==
  ASSUME ReplayInv, NEW r \in Runs, NEW start \in Heights, NEW end \in Heights,
         CreateReplayJob(r, start, end)
  PROVE  ReplayInv'
<1> USE DEF storage, tokens, budget
<1>0. /\ TypeOK /\ checkpoints = {} /\ api.at = "idle"
      /\ \A q \in Runs : pc[q] = "idle" /\ RunSound(q)
  BY DEF ReplayInv, BeforeCreation, CreateReplayJob
<1>1. /\ job' \in Jobs /\ job'.start_height = start /\ job'.end_height = end
      /\ job'.current_height = start /\ job'.blocks_processed = 0
      /\ job'.status = "Pending" /\ start \in Nat
  BY DEF CreateReplayJob, NewJob, Jobs, Statuses, Heights
<1>2. TypeOK'
  <2>1. pc' \in [Runs -> JobAwaits \cup BlockAwaits \cup Locals \cup Idle]
    BY <1>0 DEF CreateReplayJob, Goto, TypeOK, JobAwaits
  <2> QED
    BY <1>0, <1>1, <2>1 DEF CreateReplayJob, TypeOK
<1>3. BeforeCreation' /\ CheckpointsSound' /\ ApiSound'
  <2>1. job' # NoJob
    BY <1>1, NullAssumption
  <2> QED
    BY <1>0, <2>1 DEF BeforeCreation, CheckpointsSound, ApiSound, CreateReplayJob
<1>4. StoredSound'
  BY <1>1 DEF StoredSound, Sound, CommittedUpTo, Heights
<1>5. ASSUME NEW q \in Runs PROVE RunSound(q)'
  BY <1>0 DEF TypeOK, CreateReplayJob, Goto, RunSound, Holding, LoopKnows,
              BlockKnows, BlockAwaits, Idle
<1> QED
  BY <1>2, <1>3, <1>4, <1>5 DEF ReplayInv

\* A resume request only starts a task.
LEMMA ResumeKeepsInv ==
  ASSUME ReplayInv, NEW r \in Runs, ResumeReplay(r)
  PROVE  ReplayInv'
<1> USE DEF storage, tokens, budget
<1>0. TypeOK /\ Grows
  BY DEF ReplayInv, ResumeReplay, Grows
<1>1. TypeOK'
  BY <1>0 DEF ResumeReplay, TypeOK, JobAwaits
<1>2. StoredSound' /\ CheckpointsSound' /\ ApiSound'
  BY <1>0, UntouchedStays DEF ResumeReplay
<1>3. BeforeCreation'
  BY <1>0 DEF Grows, BeforeCreation
<1>4. RunSound(r)'
  BY <1>0 DEF ReplayInv, TypeOK, ResumeReplay, Live, RunSound, Holding,
              LoopKnows, BlockKnows, BlockAwaits, Idle
<1>5. ASSUME NEW q \in Runs, q # r PROVE RunSound(q)'
  BY <1>0, <1>5, OtherRunStays DEF ResumeReplay, TypeOK
<1> QED
  BY <1>1, <1>2, <1>3, <1>4, <1>5 DEF ReplayInv

\* A crash forgets every copy but the stored one.
LEMMA CrashKeepsInv == ReplayInv /\ Crash => ReplayInv'
<1> SUFFICES ASSUME ReplayInv, Crash PROVE ReplayInv'
  OBVIOUS
<1> USE DEF storage
<1>0. TypeOK /\ Grows
  BY DEF ReplayInv, Crash, Grows
<1>1. TypeOK'
  BY <1>0 DEF Crash, TypeOK, Idle
<1>2. StoredSound' /\ CheckpointsSound'
  BY <1>0, UntouchedStays DEF Crash
<1>3. BeforeCreation' /\ ApiSound'
  BY <1>0 DEF Grows, BeforeCreation, ApiSound, Crash
<1>4. ASSUME NEW q \in Runs PROVE RunSound(q)'
  BY DEF Crash, RunSound, Holding, LoopKnows, BlockKnows, BlockAwaits, Idle
<1> QED
  BY <1>1, <1>2, <1>3, <1>4 DEF ReplayInv

\* A request of the operator.
Request ==
  CancelReplay \/ CancelGetJob \/ CancelUpdateJob \/ CancelFault \/ PauseReplay

\* The operator's requests preserve the invariant: what cancel_replay writes
\* back is a copy of the job, stale perhaps but sound.
LEMMA RequestKeepsInv == ReplayInv /\ Request => ReplayInv'
<1> SUFFICES ASSUME ReplayInv, Request PROVE ReplayInv'
  OBVIOUS
<1> USE DEF storage, tokens, budget
<1>0. TypeOK /\ BeforeCreation /\ StoredSound /\ ApiSound
  BY DEF ReplayInv
<1>1. job # NoJob
  BY <1>0 DEF Request, CancelReplay, CancelGetJob, CancelUpdateJob, CancelFault,
              PauseReplay, BeforeCreation
<1>2. UNCHANGED <<checkpoints, events, observations, pc, mine, height, pending,
                  current>>
  BY DEF Request, CancelReplay, CancelGetJob, CancelUpdateJob, CancelFault,
         PauseReplay
<1>3. CASE CancelUpdateJob
  <2> DEFINE k == [api.job EXCEPT !.status = "Cancelled"]
  <2>1. CopyOfJob(api.job) /\ api.job \in Jobs /\ job' = k /\ api'.at = "idle"
    BY <1>0, <1>3 DEF CancelUpdateJob, ApiSound, CopyOfJob, TypeOK
  <2>2. /\ k \in Jobs /\ k # NoJob /\ k.status = "Cancelled"
        /\ k.start_height = api.job.start_height
        /\ k.end_height = api.job.end_height
        /\ k.current_height = api.job.current_height
        /\ k.blocks_processed = api.job.blocks_processed
    BY <2>1, WithStatus, Zenon DEF Statuses
  <2> HIDE DEF k
  <2>3. Grows
    BY <1>1, <1>2, <2>1, <2>2 DEF Grows, CopyOfJob
  <2>4. \A h \in Heights : Committed(h) => Committed(h)'
    BY <2>3, CommittedStays
  <2>5. StoredSound'
    BY <2>1, <2>2, <2>3, <2>4 DEF StoredSound, CopyOfJob, Sound, CommittedUpTo,
        Grows
  <2>6. TypeOK'
    BY <1>0, <1>2, <1>3, <2>1, <2>2 DEF TypeOK, CancelUpdateJob
  <2>7. BeforeCreation' /\ ApiSound'
    BY <2>1, <2>3 DEF Grows, BeforeCreation, ApiSound
  <2>8. CheckpointsSound'
    BY <1>2, <2>3, UntouchedStays
  <2>9. ASSUME NEW q \in Runs PROVE RunSound(q)'
    BY <1>2, <2>3, OtherRunStays
  <2> QED
    BY <2>5, <2>6, <2>7, <2>8, <2>9 DEF ReplayInv
<1>4. CASE ~CancelUpdateJob
  <2>1. job' = job /\ Grows
    BY <1>1, <1>2, <1>4 DEF Grows, Request, CancelReplay, CancelGetJob,
                            CancelFault, PauseReplay
  <2>2. StoredSound' /\ CheckpointsSound'
    BY <1>2, <2>1, UntouchedStays
  <2>3. ASSUME NEW q \in Runs PROVE RunSound(q)'
    BY <1>2, <2>1, OtherRunStays
  <2>4. TypeOK'
    <3>1. api' \in [at : {"idle", "get_job", "update_job"},
                    job : Jobs \cup {NoJob}]
      BY <1>0, <1>4 DEF TypeOK, Request, CancelReplay, CancelGetJob,
                        CancelFault, PauseReplay
    <3>2. /\ active' = active
          /\ cancelTok' \in [Runs -> BOOLEAN] /\ pauseTok' \in [Runs -> BOOLEAN]
      BY <1>0, <1>4, Zenon DEF TypeOK, Request, CancelReplay, CancelGetJob,
                               CancelFault, PauseReplay, SetToken
    <3>3. crashes' \in Nat /\ faults' \in Nat /\ signals' \in Nat
          /\ overlaps' \in Nat
      BY <1>0, <1>4 DEF TypeOK, Request, CancelReplay, CancelGetJob,
                        CancelFault, PauseReplay
    <3> QED
      BY <1>0, <1>2, <2>1, <3>1, <3>2, <3>3 DEF TypeOK
  <2>5. ApiSound'
    <3>1. CASE CancelGetJob
      BY <1>0, <1>1, <1>2, <2>1, <3>1
         DEF CancelGetJob, StoredSound, ApiSound, CopyOfJob, Sound,
             CommittedUpTo, Committed
    <3>2. CASE ~CancelGetJob
      <4>1. api'.at # "update_job" \/ api' = api
        BY <1>0, <1>4, <3>2 DEF TypeOK, Request, CancelReplay, CancelFault,
            PauseReplay
      <4> QED
        BY <2>1, <4>1, UntouchedStays DEF ApiSound
    <3> QED
      BY <3>1, <3>2
  <2>6. BeforeCreation'
    BY <2>1 DEF Grows, BeforeCreation
  <2> QED
    BY <2>2, <2>3, <2>4, <2>5, <2>6 DEF ReplayInv
<1> QED
  BY <1>3, <1>4

\* A stuttering step changes nothing the invariant mentions.
LEMMA StutterKeepsInv == ReplayInv /\ UNCHANGED vars => ReplayInv'
<1> SUFFICES ASSUME ReplayInv, UNCHANGED vars PROVE ReplayInv'
  OBVIOUS
<1> USE DEF vars, storage, tokens, budget
<1>1. TypeOK'
  BY DEF ReplayInv, TypeOK
<1>2. BeforeCreation'
  BY DEF ReplayInv, BeforeCreation
<1>3. StoredSound' /\ CheckpointsSound'
  BY DEF ReplayInv, StoredSound, CheckpointsSound, Sound, CommittedUpTo, Committed
<1>4. ApiSound'
  BY DEF ReplayInv, ApiSound, CopyOfJob, Sound, CommittedUpTo, Committed
<1>5. ASSUME NEW r \in Runs PROVE RunSound(r)'
  <2>1. RunSound(r)
    BY DEF ReplayInv
  <2>2. Holding(r)' => CopyOfJob(mine[r])'
    BY <2>1 DEF RunSound, Holding, CopyOfJob, Sound, CommittedUpTo, Committed
  <2>3. LoopKnows(r)'
    BY <2>1 DEF RunSound, LoopKnows, CommittedUpTo, Committed
  <2>4. BlockKnows(r)'
    BY <2>1 DEF RunSound, BlockKnows
  <2> QED
    BY <2>2, <2>3, <2>4 DEF RunSound
<1> QED
  BY <1>1, <1>2, <1>3, <1>4, <1>5 DEF ReplayInv

(***************************************************************************)
(* The theorems.                                                           *)
(***************************************************************************)

\* ReplayInv is an invariant of the replay engine, its operator and crashes.
THEOREM ReplayInvariant == Spec => []ReplayInv
<1>1. Init => ReplayInv
  BY InitReplayInv
<1>2. ReplayInv /\ [Next]_vars => ReplayInv'
  <2> SUFFICES ASSUME ReplayInv, [Next]_vars PROVE ReplayInv'
    OBVIOUS
  <2>1. CASE \E r \in Runs, start, end \in Heights :
               CreateReplayJob(r, start, end)
    BY <2>1, CreateKeepsInv
  <2>2. CASE \E r \in Runs : ResumeReplay(r)
    BY <2>2, ResumeKeepsInv
  <2>3. CASE \E r \in Runs : Step(r)
    BY <2>3, StepKeepsInv
  <2>4. CASE Crash
    BY <2>4, CrashKeepsInv
  <2>5. CASE Request
    BY <2>5, RequestKeepsInv
  <2>6. CASE UNCHANGED vars
    BY <2>6, StutterKeepsInv
  <2> QED
    BY <2>1, <2>2, <2>3, <2>4, <2>5, <2>6 DEF Next, Step, Request, ApiStep
<1> QED
  BY <1>1, <1>2, PTL DEF Spec

\* Every variable of the replay engine keeps its type.
THEOREM TypeCorrect == Spec => []TypeOK
<1>1. ReplayInv => TypeOK
  BY DEF ReplayInv
<1> QED
  BY <1>1, ReplayInvariant, PTL

\* resume_replay never skips a block that is not stored and observed.
THEOREM ResumeIsSafe == Spec => []ResumePointSafe
<1>1. ReplayInv => ResumePointSafe
  BY DEF ReplayInv, CheckpointsSound, StoredSound, Sound, ResumePointSafe
<1> QED
  BY <1>1, ReplayInvariant, PTL

\* A Completed job has every block of its range stored and observed.
THEOREM CompletionIsSound == Spec => []CompletedMeansCommitted
<1>1. ReplayInv => CompletedMeansCommitted
  BY DEF ReplayInv, StoredSound, Sound, CompletedMeansCommitted
<1> QED
  BY <1>1, ReplayInvariant, PTL

\* The block counter of a checkpoint or a Completed job covers its range.
THEOREM CounterIsSound == Spec => []CounterCoversRange
<1>1. ReplayInv => CounterCoversRange
  BY DEF ReplayInv, CheckpointsSound, StoredSound, Sound, CounterCoversRange
<1> QED
  BY <1>1, ReplayInvariant, PTL
============================================================================
