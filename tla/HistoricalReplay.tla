------------------------- MODULE HistoricalReplay -------------------------
(***************************************************************************)
(* The life of one historical replay job                                   *)
(* (crates/obschain-ingest/src/historical_replay.rs): the tasks that       *)
(* execute run_job and resume_replay, the operator's cancel_replay and     *)
(* pause_replay calls, crashes of the daemon, and failing storage and RPC  *)
(* calls.  An action is the code between two awaits of a task; the storage *)
(* is the durable one (PostgreSQL), shared by all tasks.                   *)
(*                                                                         *)
(* Abstractions: a canonical event is a model value (its identifier is     *)
(* deterministic), the block at a height yields the set EventsAt[height]   *)
(* when every lookup succeeds, and the fields of ReplayJob that no         *)
(* decision reads (times, messages, transaction and event counters) are    *)
(* left out.                                                               *)
(***************************************************************************)
EXTENDS Integers, FiniteSets

CONSTANTS
  Runs,            \* slots for the tasks that execute run_job
  MaxHeight,       \* the heights an operator may ask for are 0..MaxHeight
  Node,            \* what inspect_capabilities reports of the Bitcoin node
  MaxRange,        \* ReplayConfig::max_range
  Interval,        \* ReplayConfig::checkpoint_interval
  Events,          \* canonical events
  EventsAt,        \* EventsAt[h]: the events the detectors report at height h
  IntervalEvents,  \* the events that need the previous block's timestamp
  LookupEvents,    \* the events that need an output fetched from the node
  NoRun, NoJob, NoEvent,  \* null values
  MaxCrashes,      \* bound: crashes of the daemon
  MaxFaults,       \* bound: failing storage or RPC calls
  MaxSignals,      \* bound: cancel and pause requests
  MaxOverlaps      \* bound: resumes asked for while a run is executing

Heights == 0..MaxHeight

ASSUME HeightAssumption == MaxHeight \in Nat
ASSUME IntervalAssumption == Interval \in Nat \ {0}
ASSUME EventsAtAssumption == EventsAt \in [Heights -> SUBSET Events]
ASSUME BoundsAssumption ==
  /\ MaxCrashes \in Nat /\ MaxFaults \in Nat
  /\ MaxSignals \in Nat /\ MaxOverlaps \in Nat

VARIABLES
  job,          \* the row of replay_jobs, or NoJob
  checkpoints,  \* the rows of replay_checkpoints
  events,       \* chain_events: the canonical events stored
  observations, \* event_observations of this job, by event
  pc,           \* pc[r]: the await (or local code) at which run r is
  mine,         \* mine[r]: the ReplayJob value run r holds in memory
  height,       \* height[r]: the loop variable of run_job
  pending,      \* pending[r]: detected events process_block has not stored
  current,      \* current[r]: the event it has stored but not yet observed
  active,       \* the run whose tokens are in active_{cancel,pause}_tokens
  cancelTok,    \* cancelTok[r]: the cancel_token of run r
  pauseTok,     \* pauseTok[r]: the pause_token of run r
  api,          \* an operator's cancel request: where it is, the job it read
  crashes, faults, signals, overlaps

storage == <<job, checkpoints, events, observations>>
tokens == <<active, cancelTok, pauseTok>>
budget == <<crashes, faults, signals, overlaps>>
vars == <<storage, pc, mine, height, pending, current, tokens, api, budget>>

Statuses == {"Pending", "Running", "Paused", "Completed", "Failed", "Cancelled"}
Jobs ==
  [status : Statuses, start_height : Heights, end_height : Heights,
   current_height : Nat, blocks_processed : Nat]
ASSUME NullAssumption ==
  NoEvent \notin Events /\ NoRun \notin Runs /\ NoJob \notin Jobs

IsTerminal(status) == status \in {"Completed", "Failed", "Cancelled"}

\* Awaits on the storage outside process_block: an error returns from run_job.
JobAwaits == {"resume_get", "resume_checkpoint", "resume_update", "get_job",
              "start_update", "stop_update", "save_checkpoint",
              "checkpoint_update", "complete_update", "fail_update"}
\* Awaits inside process_block: an error becomes the Failed status.
BlockAwaits == {"fetch", "save_event", "save_observation", "watch"}
\* Code between awaits, and the two places where a run is not executing.
Locals == {"start", "loop", "finish", "cleanup"}
Idle == {"idle", "done"}

Live(r) == pc[r] \notin Idle

\* ReplayJob::new.
NewJob(start, end) ==
  [status |-> "Pending", start_height |-> start, end_height |-> end,
   current_height |-> start, blocks_processed |-> 0]

\* validate_capabilities_and_range, the checks in the order of the code;
\* prune_height, an Option, is a set of at most one height.
ValidRange(start, end) ==
  /\ start <= end
  /\ end - start + 1 <= MaxRange
  /\ Node.initial_block_download => Node.regtest
  /\ Node.pruned => \A h \in Node.prune_height : start >= h
  /\ end <= Node.blocks

Init ==
  /\ job = NoJob
  /\ checkpoints = {}
  /\ events = {}
  /\ observations = {}
  /\ pc = [r \in Runs |-> "idle"]
  /\ mine = [r \in Runs |-> NoJob]
  /\ height = [r \in Runs |-> 0]
  /\ pending = [r \in Runs |-> {}]
  /\ current = [r \in Runs |-> NoEvent]
  /\ active = NoRun
  /\ cancelTok = [r \in Runs |-> FALSE]
  /\ pauseTok = [r \in Runs |-> FALSE]
  /\ api = [at |-> "idle", job |-> NoJob]
  /\ crashes = 0 /\ faults = 0 /\ signals = 0 /\ overlaps = 0

Goto(r, from, to) ==
  /\ pc[r] = from
  /\ pc' = [pc EXCEPT ![r] = to]

\* The task ends and drops what it holds.
Return(r) ==
  /\ pc' = [pc EXCEPT ![r] = "done"]
  /\ mine' = [mine EXCEPT ![r] = NoJob]
  /\ height' = [height EXCEPT ![r] = 0]

(***************************************************************************)
(* Creating and resuming the job.                                          *)
(***************************************************************************)

\* create_replay_job, then the handler spawns run_job.
CreateReplayJob(r, start, end) ==
  /\ job = NoJob
  /\ ValidRange(start, end)
  /\ job' = NewJob(start, end)
  /\ Goto(r, "idle", "get_job")
  /\ UNCHANGED <<checkpoints, events, observations, mine, height, pending,
                 current, tokens, api, budget>>

\* resume_replay_job_handler spawns resume_replay on a task of its own.
ResumeReplay(r) ==
  /\ job # NoJob
  /\ ~Live(r)
  /\ IF \E other \in Runs : Live(other)
     THEN overlaps < MaxOverlaps /\ overlaps' = overlaps + 1
     ELSE overlaps' = overlaps
  /\ pc' = [pc EXCEPT ![r] = "resume_get"]
  /\ UNCHANGED <<storage, mine, height, pending, current, tokens, api, crashes,
                 faults, signals>>

\* resume_replay reads the job and refuses it when Completed or Cancelled.
ResumeGetJob(r) ==
  /\ Goto(r, "resume_get", "resume_checkpoint")
  /\ job.status \notin {"Completed", "Cancelled"}
  /\ mine' = [mine EXCEPT ![r] = job]
  /\ UNCHANGED <<storage, height, pending, current, tokens, api, budget>>

ResumeRefused(r) ==
  /\ pc[r] = "resume_get"
  /\ job.status \in {"Completed", "Cancelled"}
  /\ Return(r)
  /\ UNCHANGED <<storage, pending, current, tokens, api, budget>>

\* get_latest_checkpoint orders by completed_height alone.
LatestCheckpoints ==
  {cp \in checkpoints : \A other \in checkpoints :
                           other.completed_height <= cp.completed_height}

\* Mutants: resuming one block too far, and without the counter.
FromCheckpointTooFar(j, cp) ==
  [j EXCEPT !.status = "Running",
            !.current_height = cp.completed_height + 2,
            !.blocks_processed = cp.blocks_processed]

FromCheckpointUncounted(j, cp) ==
  [j EXCEPT !.status = "Running",
            !.current_height = cp.completed_height + 1,
            !.blocks_processed = 0]

FromCheckpoint(j, cp) ==
  [j EXCEPT !.status = "Running",
            !.current_height = cp.completed_height + 1,
            !.blocks_processed = cp.blocks_processed]

ResumeFromCheckpoint(r) ==
  /\ Goto(r, "resume_checkpoint", "resume_update")
  /\ \/ /\ checkpoints = {}
        /\ mine' = [mine EXCEPT ![r].status = "Running"]
     \/ \E cp \in LatestCheckpoints :
          mine' = [mine EXCEPT ![r] = FromCheckpoint(@, cp)]
  /\ UNCHANGED <<storage, height, pending, current, tokens, api, budget>>

\* update_job writes the whole row from the task's copy.
UpdateJob(r) == job' = mine[r]

ResumeUpdateJob(r) ==
  /\ Goto(r, "resume_update", "get_job")
  /\ UpdateJob(r)
  /\ UNCHANGED <<checkpoints, events, observations, mine, height, pending,
                 current, tokens, api, budget>>

(***************************************************************************)
(* run_job.                                                                *)
(***************************************************************************)

RunGetJob(r) ==
  /\ Goto(r, "get_job", "start")
  /\ mine' = [mine EXCEPT ![r] = job]
  /\ UNCHANGED <<storage, height, pending, current, tokens, api, budget>>

\* Fresh tokens replace whatever the maps hold for this job.
RunStart(r) ==
  /\ Goto(r, "start", "start_update")
  /\ active' = r
  /\ cancelTok' = [cancelTok EXCEPT ![r] = FALSE]
  /\ pauseTok' = [pauseTok EXCEPT ![r] = FALSE]
  /\ mine' = [mine EXCEPT ![r].status = "Running"]
  /\ UNCHANGED <<storage, height, pending, current, api, budget>>

RunStartUpdate(r) ==
  /\ Goto(r, "start_update", "loop")
  /\ UpdateJob(r)
  /\ height' = [height EXCEPT ![r] = mine[r].current_height]
  /\ UNCHANGED <<checkpoints, events, observations, mine, pending, current,
                 tokens, api, budget>>

\* Mutant: the range excludes its last block.
LoopEndExclusive(r) ==
  /\ Goto(r, "loop", "finish")
  /\ height[r] >= mine[r].end_height
  /\ UNCHANGED <<storage, mine, height, pending, current, tokens, api, budget>>

\* The head of the loop: end of the range, cancellation, pause, next block.
LoopEnd(r) ==
  /\ Goto(r, "loop", "finish")
  /\ height[r] > mine[r].end_height
  /\ UNCHANGED <<storage, mine, height, pending, current, tokens, api, budget>>

StopWith(r, status) ==
  /\ Goto(r, "loop", "stop_update")
  /\ height[r] <= mine[r].end_height
  /\ mine' = [mine EXCEPT ![r].status = status]
  /\ UNCHANGED <<storage, height, pending, current, tokens, api, budget>>

LoopCancelled(r) == cancelTok[r] /\ StopWith(r, "Cancelled")
LoopPaused(r) == ~cancelTok[r] /\ pauseTok[r] /\ StopWith(r, "Paused")

LoopBlock(r) ==
  /\ Goto(r, "loop", "fetch")
  /\ height[r] <= mine[r].end_height
  /\ ~cancelTok[r] /\ ~pauseTok[r]
  /\ UNCHANGED <<storage, mine, height, pending, current, tokens, api, budget>>

\* Events for which the code may lack the data: the first block of a run needs
\* a header lookup for the previous block's time, any block may need lookups of
\* spent transactions.  A lookup that fails is ignored.
Unsure(r) ==
  LookupEvents
    \cup (IF mine[r].current_height = height[r] THEN IntervalEvents ELSE {})

Detected(r) ==
  LET all == EventsAt[height[r]]
  IN {all \ missing : missing \in SUBSET (all \cap Unsure(r))}

\* process_block: fetch, decode, enrich and detect.
FetchAndDetect(r) ==
  /\ pc[r] = "fetch"
  /\ \E found \in Detected(r) :
       /\ pending' = [pending EXCEPT ![r] = found]
       /\ Goto(r, "fetch", IF found = {} THEN "watch" ELSE "save_event")
  /\ UNCHANGED <<storage, mine, height, current, tokens, api, budget>>

\* save_event for the next detected event (an upsert by identifier).
SaveEvent(r) ==
  /\ Goto(r, "save_event", "save_observation")
  /\ \E e \in pending[r] :
       /\ events' = events \cup {e}
       /\ current' = [current EXCEPT ![r] = e]
       /\ pending' = [pending EXCEPT ![r] = @ \ {e}]
  /\ UNCHANGED <<job, checkpoints, observations, mine, height, tokens, api,
                 budget>>

\* Mutant: the event in hand is dropped before it is attributed.
SaveObservationTooLate(r) ==
  /\ Goto(r, "save_observation",
           IF pending[r] = {} THEN "watch" ELSE "save_event")
  /\ current' = [current EXCEPT ![r] = NoEvent]
  /\ observations' = observations \cup {current'[r]}
  /\ UNCHANGED <<job, checkpoints, events, mine, height, pending, tokens, api,
                 budget>>

\* save_event_observation: one row per event and job.
SaveObservation(r) ==
  /\ Goto(r, "save_observation",
           IF pending[r] = {} THEN "watch" ELSE "save_event")
  /\ observations' = observations \cup {current[r]}
  /\ current' = [current EXCEPT ![r] = NoEvent]
  /\ UNCHANGED <<job, checkpoints, events, mine, height, pending, tokens, api,
                 budget>>

IsCheckpoint(j, h) == j.blocks_processed % Interval = 0 \/ h = j.end_height

\* The watch engine's results are saved, process_block returns Ok and run_job
\* counts the block.
FinishBlock(r) ==
  LET counted ==
        [mine[r] EXCEPT !.current_height = height[r],
                        !.blocks_processed = mine[r].blocks_processed + 1]
      due == IsCheckpoint(counted, height[r])
  IN /\ Goto(r, "watch", IF due THEN "save_checkpoint" ELSE "loop")
     /\ mine' = [mine EXCEPT ![r] = counted]
     /\ height' = IF due THEN height ELSE [height EXCEPT ![r] = @ + 1]
     /\ UNCHANGED <<storage, pending, current, tokens, api, budget>>

SaveCheckpoint(r) ==
  /\ Goto(r, "save_checkpoint", "checkpoint_update")
  /\ checkpoints' = checkpoints \cup
       {[completed_height |-> height[r],
         blocks_processed |-> mine[r].blocks_processed]}
  /\ UNCHANGED <<job, events, observations, mine, height, pending, current,
                 tokens, api, budget>>

CheckpointUpdate(r) ==
  /\ Goto(r, "checkpoint_update", "loop")
  /\ UpdateJob(r)
  /\ height' = [height EXCEPT ![r] = @ + 1]
  /\ UNCHANGED <<checkpoints, events, observations, mine, pending, current,
                 tokens, api, budget>>

\* Mutant: the loop is left without storing the status.
StopUnstored(r) ==
  /\ Goto(r, "stop_update", "cleanup")
  /\ UNCHANGED <<storage, mine, height, pending, current, tokens, api, budget>>

\* A stop requested by a token is written, then run_job leaves the loop.
StopUpdate(r) ==
  /\ Goto(r, "stop_update", "cleanup")
  /\ UpdateJob(r)
  /\ UNCHANGED <<checkpoints, events, observations, mine, height, pending,
                 current, tokens, api, budget>>

\* After the loop: Completed only when the last block counted is the last one.
Finish(r) ==
  LET all == mine[r].status = "Running"
             /\ mine[r].current_height = mine[r].end_height
  IN /\ Goto(r, "finish", IF all THEN "complete_update" ELSE "cleanup")
     /\ mine' = IF all THEN [mine EXCEPT ![r].status = "Completed"] ELSE mine
     /\ UNCHANGED <<storage, height, pending, current, tokens, api, budget>>

CompleteUpdate(r) ==
  /\ Goto(r, "complete_update", "cleanup")
  /\ UpdateJob(r)
  /\ UNCHANGED <<checkpoints, events, observations, mine, height, pending,
                 current, tokens, api, budget>>

\* The tokens are removed by job, whichever run put them there.
Cleanup(r) ==
  /\ pc[r] = "cleanup"
  /\ Return(r)
  /\ active' = NoRun
  /\ UNCHANGED <<storage, pending, current, cancelTok, pauseTok, api, budget>>

(***************************************************************************)
(* Failures: of an RPC or storage call, and of the whole daemon.           *)
(***************************************************************************)

\* Mutant: a block that fails is skipped.
BlockSkipped(r) ==
  /\ faults < MaxFaults
  /\ pc[r] \in BlockAwaits
  /\ pc' = [pc EXCEPT ![r] = "loop"]
  /\ height' = [height EXCEPT ![r] = @ + 1]
  /\ pending' = [pending EXCEPT ![r] = {}]
  /\ current' = [current EXCEPT ![r] = NoEvent]
  /\ faults' = faults + 1
  /\ UNCHANGED <<storage, mine, tokens, api, crashes, signals, overlaps>>

\* An error inside process_block: the block is given up, the job is Failed.
BlockFault(r) ==
  /\ faults < MaxFaults
  /\ pc[r] \in BlockAwaits
  /\ pc' = [pc EXCEPT ![r] = "fail_update"]
  /\ mine' = [mine EXCEPT ![r].status = "Failed"]
  /\ pending' = [pending EXCEPT ![r] = {}]
  /\ current' = [current EXCEPT ![r] = NoEvent]
  /\ faults' = faults + 1
  /\ UNCHANGED <<storage, height, tokens, api, crashes, signals,
                 overlaps>>

\* run_job returns the block's error without removing its tokens.
FailUpdate(r) ==
  /\ pc[r] = "fail_update"
  /\ UpdateJob(r)
  /\ Return(r)
  /\ UNCHANGED <<checkpoints, events, observations, pending, current, tokens,
                 api, budget>>

\* Any other storage error returns at once and keeps the tokens.
JobFault(r) ==
  /\ faults < MaxFaults
  /\ pc[r] \in JobAwaits
  /\ Return(r)
  /\ faults' = faults + 1
  /\ UNCHANGED <<storage, pending, current, tokens, api, crashes, signals,
                 overlaps>>

\* A crash takes every task, token and request; the storage stays.
Crash ==
  /\ crashes < MaxCrashes
  /\ job # NoJob
  /\ crashes' = crashes + 1
  /\ pc' = [r \in Runs |-> "done"]
  /\ mine' = [r \in Runs |-> NoJob]
  /\ height' = [r \in Runs |-> 0]
  /\ pending' = [r \in Runs |-> {}]
  /\ current' = [r \in Runs |-> NoEvent]
  /\ active' = NoRun
  /\ api' = [at |-> "idle", job |-> NoJob]
  /\ cancelTok' = [r \in Runs |-> FALSE]
  /\ pauseTok' = [r \in Runs |-> FALSE]
  /\ UNCHANGED <<storage, faults, signals, overlaps>>

(***************************************************************************)
(* The operator's requests.                                                *)
(***************************************************************************)

SetToken(tok) == IF active = NoRun THEN tok ELSE [tok EXCEPT ![active] = TRUE]

\* cancel_replay: set the token when there is one, then read the job ...
CancelReplay ==
  /\ job # NoJob
  /\ api.at = "idle"
  /\ signals < MaxSignals
  /\ signals' = signals + 1
  /\ cancelTok' = SetToken(cancelTok)
  /\ api' = [api EXCEPT !.at = "get_job"]
  /\ UNCHANGED <<storage, pc, mine, height, pending, current, active, pauseTok,
                 crashes, faults, overlaps>>

CancelGetJob ==
  /\ api.at = "get_job"
  /\ api' = IF IsTerminal(job.status) THEN [at |-> "idle", job |-> NoJob]
                                      ELSE [at |-> "update_job", job |-> job]
  /\ UNCHANGED <<storage, pc, mine, height, pending, current, tokens, budget>>

\* ... and write back the whole job it read, with the status Cancelled.
CancelUpdateJob ==
  /\ api.at = "update_job"
  /\ job' = [api.job EXCEPT !.status = "Cancelled"]
  /\ api' = [at |-> "idle", job |-> NoJob]
  /\ UNCHANGED <<checkpoints, events, observations, pc, mine, height, pending,
                 current, tokens, budget>>

CancelFault ==
  /\ faults < MaxFaults
  /\ api.at # "idle"
  /\ faults' = faults + 1
  /\ api' = [at |-> "idle", job |-> NoJob]
  /\ UNCHANGED <<storage, pc, mine, height, pending, current, tokens, crashes,
                 signals, overlaps>>

\* pause_replay only sets the token, when there is one.
PauseReplay ==
  /\ job # NoJob
  /\ signals < MaxSignals
  /\ signals' = signals + 1
  /\ pauseTok' = SetToken(pauseTok)
  /\ UNCHANGED <<storage, pc, mine, height, pending, current, active, cancelTok,
                 api, crashes, faults, overlaps>>

(***************************************************************************)
(* The specification.                                                      *)
(***************************************************************************)

RunStep(r) ==
  \/ ResumeGetJob(r) \/ ResumeRefused(r) \/ ResumeFromCheckpoint(r)
  \/ ResumeUpdateJob(r) \/ RunGetJob(r) \/ RunStart(r) \/ RunStartUpdate(r)
  \/ LoopEnd(r) \/ LoopCancelled(r) \/ LoopPaused(r) \/ LoopBlock(r)
  \/ FetchAndDetect(r) \/ SaveEvent(r) \/ SaveObservation(r) \/ FinishBlock(r)
  \/ SaveCheckpoint(r) \/ CheckpointUpdate(r) \/ StopUpdate(r)
  \/ Finish(r) \/ CompleteUpdate(r) \/ Cleanup(r) \/ FailUpdate(r)

ApiStep == CancelGetJob \/ CancelUpdateJob

Next ==
  \/ \E r \in Runs, start, end \in Heights : CreateReplayJob(r, start, end)
  \/ \E r \in Runs : ResumeReplay(r)
  \/ \E r \in Runs : RunStep(r)
  \/ \E r \in Runs : BlockFault(r) \/ JobFault(r)
  \/ Crash
  \/ CancelReplay \/ ApiStep \/ CancelFault
  \/ PauseReplay

Spec == Init /\ [][Next]_vars

\* The runtime schedules every task that can take a step.
FairSpec ==
  /\ Spec
  /\ \A r \in Runs : WF_vars(RunStep(r))
  /\ WF_vars(ApiStep)

\* An operator who, once a crash or a failing call may have interrupted the
\* job, keeps asking for it to be resumed.
Interrupted == crashes + faults > 0
OperatedSpec ==
  FairSpec /\ \A r \in Runs : WF_vars(Interrupted /\ ResumeReplay(r))

(***************************************************************************)
(* Properties.                                                             *)
(***************************************************************************)

Checkpoints == [completed_height : Heights, blocks_processed : Nat]

\* Every variable holds a value of its Rust type.
TypeOK ==
  /\ job \in Jobs \cup {NoJob}
  /\ checkpoints \subseteq Checkpoints
  /\ events \subseteq Events /\ observations \subseteq Events
  /\ pc \in [Runs -> JobAwaits \cup BlockAwaits \cup Locals \cup Idle]
  /\ mine \in [Runs -> Jobs \cup {NoJob}]
  /\ height \in [Runs -> Nat]
  /\ pending \in [Runs -> SUBSET Events]
  /\ current \in [Runs -> Events \cup {NoEvent}]
  /\ active \in Runs \cup {NoRun}
  /\ cancelTok \in [Runs -> BOOLEAN] /\ pauseTok \in [Runs -> BOOLEAN]
  /\ api \in [at : {"idle", "get_job", "update_job"}, job : Jobs \cup {NoJob}]
  /\ crashes \in Nat /\ faults \in Nat /\ signals \in Nat /\ overlaps \in Nat

\* The events that no ignored lookup failure can hide (see Detected).
Certain(h) == EventsAt[h] \ (IntervalEvents \cup LookupEvents)

\* The certain events of the block at height h are stored and attributed to
\* this job.
Committed(h) == Certain(h) \subseteq events \cap observations

CommittedUpTo(last) ==
  \A h \in Heights : job.start_height <= h /\ h <= last => Committed(h)

\* A crash, a fault or a second run never makes resume_replay skip a block:
\* every height before the point from which the job would continue, be it a
\* checkpoint or the stored current_height, has its events stored and observed.
ResumePointSafe ==
  /\ \A cp \in checkpoints : CommittedUpTo(cp.completed_height)
  /\ job # NoJob => CommittedUpTo(job.current_height - 1)

\* run_job writes Completed only when every block of the range is stored and
\* observed, whatever was cancelled, paused, resumed, failed or crashed before,
\* and however many runs of the job were executing at once.
CompletedMeansCommitted ==
  job # NoJob /\ job.status = "Completed" => CommittedUpTo(job.end_height)

\* blocks_processed never understates the range: reprocessing after a resume
\* may count a block twice, but no block goes uncounted.
CounterCoversRange ==
  /\ \A cp \in checkpoints :
       cp.blocks_processed >= cp.completed_height - job.start_height + 1
  /\ job # NoJob /\ job.status = "Completed" =>
       job.blocks_processed >= job.end_height - job.start_height + 1

(***************************************************************************)
(* The inductive invariant behind ResumePointSafe, CompletedMeansCommitted *)
(* and CounterCoversRange.                                                 *)
(***************************************************************************)

\* What any copy of the job vouches for, stored or in a task's memory.
Sound(j) ==
  /\ CommittedUpTo(j.current_height - 1)
  /\ j.blocks_processed >= j.current_height - j.start_height
  /\ j.status = "Completed" =>
       /\ CommittedUpTo(j.end_height)
       /\ j.blocks_processed >= j.end_height - j.start_height + 1

CopyOfJob(j) ==
  /\ j # NoJob
  /\ j.start_height = job.start_height /\ j.end_height = job.end_height
  /\ Sound(j)

Holding(r) == pc[r] \notin Idle \cup {"resume_get", "get_job"}

\* What the loop of run_job knows at each await about blocks start..height.
LoopKnows(r) ==
  /\ pc[r] \in {"loop", "finish"} \cup BlockAwaits =>
       /\ CommittedUpTo(height[r] - 1)
       /\ mine[r].blocks_processed >= height[r] - mine[r].start_height
  /\ pc[r] = "finish" => height[r] > mine[r].end_height
  /\ pc[r] \in BlockAwaits \cup {"save_checkpoint", "checkpoint_update"} =>
       height[r] <= mine[r].end_height
  /\ pc[r] \in {"save_checkpoint", "checkpoint_update"} =>
       /\ CommittedUpTo(height[r])
       /\ mine[r].blocks_processed >= height[r] - mine[r].start_height + 1

\* Every event of the block is stored and observed, waiting, or in between.
BlockKnows(r) ==
  /\ pc[r] \in {"save_event", "save_observation", "watch"} =>
       Certain(height[r])
         \subseteq (events \cap observations) \cup pending[r] \cup {current[r]}
  /\ pc[r] = "watch" => pending[r] = {}
  /\ pc[r] = "save_observation" => current[r] \in events
  /\ pc[r] # "save_observation" => current[r] = NoEvent

BeforeCreation ==
  job = NoJob =>
    checkpoints = {} /\ api.at = "idle" /\ \A r \in Runs : pc[r] = "idle"

StoredSound == job # NoJob => Sound(job)

CheckpointsSound ==
  \A cp \in checkpoints :
    /\ CommittedUpTo(cp.completed_height)
    /\ cp.blocks_processed >= cp.completed_height - job.start_height + 1

ApiSound == api.at = "update_job" => CopyOfJob(api.job)

RunSound(r) ==
  (Holding(r) => CopyOfJob(mine[r])) /\ LoopKnows(r) /\ BlockKnows(r)

\* The inductive invariant of run_job, resume_replay and cancel_replay: every
\* copy of the job, in the storage or in a task, vouches only for blocks whose
\* events are stored and observed, at every await and under every interleaving.
ReplayInv ==
  /\ TypeOK /\ BeforeCreation
  /\ StoredSound /\ CheckpointsSound /\ ApiSound
  /\ \A r \in Runs : RunSound(r)

Running == job # NoJob /\ job.status = "Running"

\* resume_replay found a checkpoint at the last block of the range.
PastEnd == job # NoJob /\ job.current_height > job.end_height

\* A job keeps the status Running for good only when it was resumed behind its
\* last block, where run_job has nothing left to do and its final test fails.
\* In every other case it is Completed, Paused, Failed or Cancelled again and
\* again, whatever is cancelled, paused and resumed, also while a run executes,
\* and whatever fails or crashes, provided that the operator then resumes it.
RunningOnlyPastEnd == <>[]Running => <>[]PastEnd

(***************************************************************************)
(* What the documentation says and the code does not keep (see README.md). *)
(***************************************************************************)

\* A job that run_job marked Running is eventually Completed, Paused, Failed or
\* Cancelled, if need be by resuming it after the daemon restarted.
JobSettles == Running ~> ~Running

\* Once cancel_replay has stored Cancelled, the job stays cancelled.
CancelledIsFinal ==
  [][job # NoJob /\ job.status = "Cancelled" => job'.status = "Cancelled"]_job
============================================================================
