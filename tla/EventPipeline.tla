--------------------------- MODULE EventPipeline ---------------------------
(***************************************************************************)
(* The pipeline worker of the daemon (src/main.rs): it takes an            *)
(* observation from the bounded channel, saves and broadcasts the incident *)
(* matches, runs the detectors, filters their events, and saves and        *)
(* broadcasts those that are fresh.  Saves are retried; a save that keeps  *)
(* failing is counted and skipped.  The tables are the Postgres ones and   *)
(* survive a crash; the deduplicator, the channel and the metrics do not.  *)
(*                                                                         *)
(* An observation carries what the watch engine and the detectors make of  *)
(* it: the dedup_keys of its activities and the keys of its events.        *)
(***************************************************************************)
EXTENDS EventDeduplicator

CONSTANTS
  Activities,    \* dedup_keys of incident activities
  Observations,  \* [matches : Seq(Activities), events : Seq(Keys),
                 \*  source : Sources \cup {None}, block : BOOLEAN]
  ChannelBound,  \* capacity of the observation channel
  MaxAttempts,   \* max_attempts of the save_*_with_retry functions
  MaxSent,       \* bound: observations sent
  MaxFaults,     \* bound: transient storage errors
  MaxCrashes     \* bound: crashes

ASSUME PipelineAssumption ==
  /\ ChannelBound \in Nat \ {0} /\ MaxAttempts \in Nat \ {0}
  /\ MaxSent \in Nat /\ MaxFaults \in Nat /\ MaxCrashes \in Nat
  /\ \A o \in Observations : /\ o.matches \in Seq(Activities)
                             /\ o.events \in Seq(Keys)
                             /\ o.source \in Sources \cup {None}
                             /\ o.block \in BOOLEAN

VARIABLES
  queue,        \* the observation channel
  worker,       \* where the worker is, and what it has still to do
  shutdown,     \* the shutdown watch channel
  chain_events, \* key -> whether the row has a block hash
  event_observations, \* rows [event, source, kind, block]
  incident_activities, \* dedup_key -> id of the row
  incident_alerts,     \* activity ids of the alert rows
  write_errors, \* metrics.storage_write_errors
  counted,      \* history: write_errors, and those of earlier lives
  earlier,      \* history: how many of the passes belong to earlier lives
  broadcasts,   \* history: what was sent to the clients
  processed,    \* history: keys of events whose observation was in a block
  next_id,      \* ids handed out so far (Uuid::new_v4)
  sent, faults, crashes

tables ==
  <<chain_events, event_observations, incident_activities, incident_alerts>>
errors == <<write_errors, counted>>
lives == <<crashes, earlier>>
budgets == <<sent, faults, lives>>
dedup == <<inner, history>>
pipelineVars == <<dedup, clock, queue, worker, shutdown, tables, errors,
                  broadcasts, processed, next_id, budgets>>

\* batch are the events still to filter, todo the items still to save.
Resting(place) == [at |-> place, obs |-> None, batch |-> <<>>, todo |-> <<>>,
                   attempts |-> 0]

PipelineInit ==
  /\ DedupInit
  /\ queue = <<>> /\ worker = Resting("idle") /\ shutdown = FALSE
  /\ chain_events = <<>> /\ event_observations = {}
  /\ incident_activities = <<>> /\ incident_alerts = {}
  /\ write_errors = 0 /\ counted = 0 /\ broadcasts = {} /\ processed = {}
  /\ next_id = 0
  /\ sent = 0 /\ faults = 0 /\ crashes = 0 /\ earlier = 0

\* Any of the sources sends; a full channel makes it wait.
Send(o) ==
  /\ sent < MaxSent /\ Len(queue) < ChannelBound
  /\ sent' = sent + 1
  /\ queue' = Append(queue, o)
  /\ UNCHANGED <<dedup, clock, worker, shutdown, tables, errors,
                 broadcasts, processed, next_id, faults, lives>>

\* Each match is an activity with a new id and an alert that refers to it.
Items(o) ==
  FlattenSeq([i \in DOMAIN o.matches |->
    <<[kind |-> "activity", key |-> o.matches[i], id |-> next_id + i],
      [kind |-> "alert", key |-> o.matches[i], id |-> next_id + i]>>])

Receive ==
  /\ worker.at = "idle" /\ queue # <<>>
  /\ queue' = Tail(queue)
  /\ worker' = [at |-> "matches", obs |-> Head(queue),
                batch |-> Head(queue).events, todo |-> Items(Head(queue)),
                attempts |-> 0]
  /\ next_id' = next_id + Len(Head(queue).matches)
  /\ UNCHANGED <<dedup, clock, shutdown, tables, errors, broadcasts,
                 processed, budgets>>

\* select! sees the shutdown signal between two observations.
Stop ==
  /\ worker.at = "idle" /\ shutdown
  /\ worker' = Resting("stopped")
  /\ UNCHANGED <<dedup, clock, queue, shutdown, tables, errors,
                 broadcasts, processed, next_id, budgets>>

Shutdown ==
  /\ ~shutdown /\ shutdown' = TRUE
  /\ UNCHANGED <<dedup, clock, queue, worker, tables, errors, broadcasts,
                 processed, next_id, budgets>>

\* process_observation, then the filter, event by event under its lock.
Detect ==
  /\ worker.at = "matches" /\ worker.todo = <<>>
  /\ worker' = [worker EXCEPT !.at = "filter"]
  /\ UNCHANGED <<dedup, clock, queue, shutdown, tables, errors,
                 broadcasts, processed, next_id, budgets>>

FilterEvent ==
  LET key == Head(worker.batch)
  IN /\ worker.at = "filter" /\ worker.batch # <<>>
     /\ Offer(key, worker.obs.source)
     /\ worker' = [worker EXCEPT !.batch = Tail(@),
          !.todo = IF IsDuplicate(key) THEN @
                   ELSE Append(@, [kind |-> "event", key |-> key, id |-> 0])]
     /\ processed' = IF worker.obs.block THEN processed \cup {key}
                                         ELSE processed
     /\ UNCHANGED <<queue, shutdown, tables, errors, broadcasts, next_id,
                    budgets>>

Filtered ==
  /\ worker.at = "filter" /\ worker.batch = <<>>
  /\ worker' = [worker EXCEPT !.at = "events"]
  /\ UNCHANGED <<dedup, clock, queue, shutdown, tables, errors,
                 broadcasts, processed, next_id, budgets>>

Done ==
  /\ worker.at = "events" /\ worker.todo = <<>>
  /\ worker' = Resting("idle")
  /\ UNCHANGED <<dedup, clock, queue, shutdown, tables, errors,
                 broadcasts, processed, next_id, budgets>>

(***************************************************************************)
(* save_activity_with_retry, save_alert_with_retry, save_event_with_retry. *)
(***************************************************************************)

Saving == worker.at \in {"matches", "events"} /\ worker.todo # <<>>
Item == Head(worker.todo)

\* An alert row references an existing activity row.
Storable == Item.kind = "alert" => \E k \in DOMAIN incident_activities :
                                     incident_activities[k] = Item.id

\* The item is broadcast, whatever became of its save.
Finish ==
  /\ broadcasts' = broadcasts \cup {Item}
  /\ worker' = [worker EXCEPT !.todo = Tail(@), !.attempts = 0]

Put(f, k, v) == [x \in DOMAIN f \cup {k} |-> IF x = k THEN v ELSE f[x]]

\* The upsert keeps the id of the row that is there.
SaveActivity ==
  /\ Saving /\ Item.kind = "activity"
  /\ incident_activities' =
       IF Item.key \in DOMAIN incident_activities THEN incident_activities
       ELSE Put(incident_activities, Item.key, Item.id)
  /\ Finish
  /\ UNCHANGED <<chain_events, event_observations, incident_alerts>>

SaveAlert ==
  /\ Saving /\ Item.kind = "alert" /\ Storable
  /\ incident_alerts' = incident_alerts \cup {Item.id}
  /\ Finish
  /\ UNCHANGED <<chain_events, event_observations, incident_activities>>

\* The upsert of a canonical event leaves its block alone; its observation
\* comes next.
SaveEvent ==
  /\ Saving /\ Item.kind = "event"
  /\ chain_events' = IF Item.key \in DOMAIN chain_events THEN chain_events
                     ELSE Put(chain_events, Item.key, worker.obs.block)
  /\ worker' = [worker EXCEPT !.todo[1].kind = "observation", !.attempts = 0]
  /\ UNCHANGED <<event_observations, incident_activities, incident_alerts,
                 broadcasts>>

\* The row of the event's only witness, or of the default source without one.
ObservationOf(key, o) ==
  [event |-> key, source |-> o.source, block |-> o.block,
   kind |-> IF o.source # None THEN "Witnessed"
            ELSE IF o.block THEN "Confirmed" ELSE "MempoolSeen"]

SaveObservation ==
  /\ Saving /\ Item.kind = "observation"
  /\ event_observations' = event_observations
                             \cup {ObservationOf(Item.key, worker.obs)}
  /\ Finish
  /\ UNCHANGED <<chain_events, incident_activities, incident_alerts>>

Save ==
  /\ SaveActivity \/ SaveAlert \/ SaveEvent \/ SaveObservation
  /\ UNCHANGED <<dedup, clock, queue, shutdown, errors, processed,
                 next_id, budgets>>

\* A save fails for a transient reason, or because its row cannot be stored.
Fault == IF Storable THEN faults < MaxFaults /\ faults' = faults + 1
                     ELSE UNCHANGED faults

\* The result of the observation's save is ignored.
ObservationLost ==
  /\ Saving /\ Item.kind = "observation"
  /\ Fault /\ Finish
  /\ UNCHANGED <<dedup, clock, queue, shutdown, tables, errors,
                 processed, next_id, sent, lives>>

\* Mutant: the attempts are not counted.
RetryForever ==
  /\ Saving /\ Item.kind # "observation"
  /\ worker.attempts + 1 < MaxAttempts
  /\ Fault
  /\ worker' = [worker EXCEPT !.attempts = 0]
  /\ UNCHANGED <<dedup, clock, queue, shutdown, tables, errors,
                 broadcasts, processed, next_id, sent, lives>>

\* Mutant: one attempt more than max_attempts.
RetryOnceMore ==
  /\ Saving /\ Item.kind # "observation"
  /\ worker.attempts + 1 <= MaxAttempts
  /\ Fault
  /\ worker' = [worker EXCEPT !.attempts = @ + 1]
  /\ UNCHANGED <<dedup, clock, queue, shutdown, tables, errors,
                 broadcasts, processed, next_id, sent, lives>>

\* Sleep, then the next attempt.
Retry ==
  /\ Saving /\ Item.kind # "observation"
  /\ worker.attempts + 1 < MaxAttempts
  /\ Fault
  /\ worker' = [worker EXCEPT !.attempts = @ + 1]
  /\ UNCHANGED <<dedup, clock, queue, shutdown, tables, errors,
                 broadcasts, processed, next_id, sent, lives>>

\* Mutant: the error is not counted.
GiveUpSilently ==
  /\ Saving /\ Item.kind # "observation"
  /\ worker.attempts + 1 >= MaxAttempts
  /\ Fault /\ Finish
  /\ UNCHANGED <<dedup, clock, queue, shutdown, tables, errors,
                 processed, next_id, sent, lives>>

GiveUp ==
  /\ Saving /\ Item.kind # "observation"
  /\ worker.attempts + 1 >= MaxAttempts
  /\ Fault /\ Finish
  /\ write_errors' = write_errors + 1 /\ counted' = counted + 1
  /\ UNCHANGED <<dedup, clock, queue, shutdown, tables, processed, next_id,
                 sent, lives>>

\* The process dies and starts again with an empty filter.
Crash ==
  /\ crashes < MaxCrashes
  /\ crashes' = crashes + 1
  /\ queue' = <<>> /\ worker' = Resting("idle") /\ shutdown' = FALSE
  /\ seen' = <<>> /\ witnesses' = <<>> /\ order' = <<>>
  /\ write_errors' = 0 /\ earlier' = Len(passed)
  /\ UNCHANGED <<history, clock, tables, counted, broadcasts, processed, next_id,
                 sent, faults>>

\* filter reads the time once, before its loop.
TimePasses ==
  /\ worker.at # "filter"
  /\ Tick
  /\ UNCHANGED <<queue, worker, shutdown, tables, errors, broadcasts,
                 processed, next_id, budgets>>

WorkerStep == \/ Receive \/ Detect \/ FilterEvent \/ Filtered \/ Done \/ Stop
              \/ Save \/ ObservationLost \/ Retry \/ GiveUp

PipelineNext ==
  \/ \E o \in Observations : Send(o)
  \/ WorkerStep
  \/ Shutdown \/ Crash \/ TimePasses

PipelineSpec == PipelineInit /\ [][PipelineNext]_pipelineVars

\* The runtime polls the worker's task whenever it can go on.
FairPipelineSpec == PipelineSpec /\ WF_pipelineVars(WorkerStep)

(***************************************************************************)
(* Properties.                                                             *)
(***************************************************************************)

ItemKinds == {"activity", "alert", "event", "observation"}
ItemType == [kind : ItemKinds, key : Keys \cup Activities, id : 0..next_id]

\* Every variable holds a value of its Rust or column type.
PipelineTypeOK ==
  /\ DedupTypeOK
  /\ queue \in Seq(Observations) /\ Len(queue) <= ChannelBound
  /\ worker.at \in {"idle", "matches", "filter", "events", "stopped"}
  /\ worker.obs \in Observations \cup {None}
  /\ worker.batch \in Seq(Keys) /\ worker.todo \in Seq(ItemType)
  /\ worker.attempts \in 0..(MaxAttempts - 1)
  /\ DOMAIN chain_events \subseteq Keys
  /\ \A r \in event_observations : r.event \in DOMAIN chain_events
  /\ DOMAIN incident_activities \subseteq Activities
  /\ incident_alerts \subseteq 1..next_id
  /\ write_errors \in 0..counted /\ earlier \in 0..Len(passed)
  /\ broadcasts \subseteq ItemType

IsStored(item) ==
  CASE item.kind = "activity" -> item.key \in DOMAIN incident_activities
    [] item.kind = "alert" -> item.id \in incident_alerts
    [] OTHER -> item.key \in DOMAIN chain_events

IsPending(key) ==
  \E n \in DOMAIN worker.todo :
    worker.todo[n].kind = "event" /\ worker.todo[n].key = key

\* While no life of the daemon counted a storage_write_error, nothing was lost on
\* the way to the tables: all that the clients were ever sent is stored, and an
\* event that passed the filter is stored or about to be.  A crash in between
\* loses the event, and with it the filter's memory of it: what an earlier life
\* passed is stored, or its repetition is not suppressed.
LossIsCounted ==
  counted = 0 =>
    /\ \A item \in broadcasts : IsStored(item)
    /\ \A i \in DOMAIN passed :
         LET key == passed[i].key
         IN \/ key \in DOMAIN chain_events
            \/ IsPending(key)
            \/ i <= earlier /\ key \notin DOMAIN seen

\* A channel with observations in it is emptied, unless the worker was told to
\* stop: no failing save keeps the worker for good.
QueueServed == queue # <<>> ~> (queue = <<>> \/ worker.at = "stopped")

(***************************************************************************)
(* What the documentation says and the code does not keep (see README.md). *)
(***************************************************************************)

\* Every alert that was emitted is stored, as long as storage itself works.
AlertsStored ==
  faults = 0 => \A item \in broadcasts :
                  item.kind = "alert" => item.id \in incident_alerts

\* An event that was observed in a block is stored with its confirmation: in
\* the event's row or in one of its observations.
ConfirmationStored ==
  worker.at = "idle" /\ faults = 0 /\ crashes = 0 =>
    \A k \in processed :
      \/ k \in DOMAIN chain_events /\ chain_events[k]
      \/ \E r \in event_observations : r.event = k /\ r.block

\* When the worker stops, the observations in the channel were processed.
QueueDrained == worker.at = "stopped" => queue = <<>>
============================================================================
