---------------------------- MODULE TaskManager ----------------------------
(***************************************************************************)
(* The background-job manager of src/tasks/mod.rs: one task that owns the  *)
(* map of jobs, takes commands from a bounded channel, ticks once a second *)
(* and starts jobs on the blocking pool; the request handlers that await   *)
(* enqueue_trigger; and the shutdown that main.rs waits for before it      *)
(* closes the databases.                                                   *)
(*                                                                         *)
(* The manager task owns its state, so one command is one step.  A tick is *)
(* several: it computes its requests and applies them one by one, and each *)
(* apply_trigger loads the global flag TASK_MANAGER_SHUTTING_DOWN again.   *)
(***************************************************************************)
EXTENDS Naturals, Sequences, FiniteSets

CONSTANTS
    AppKeys,        \* JobKey::App of the registered static jobs
    MonitorKeys,    \* JobKey::User of UserTransactionMonitor, one per user
    PriceKeys,      \* JobKey::User of PriceHistoryReconciliation, one per user
    Accounts,       \* TransactionSyncScope::Account and ::Address
    Callers,        \* handlers that call enqueue_trigger
    Ids,            \* identities of requests in flight (run ids); a bound
    Capacity,       \* MANAGER_CHANNEL_CAPACITY
    NoRequest       \* None of Option<TriggerRequest>

NoId      == "noId"          \* requests of app jobs have no run id
UserScope == "user"          \* TransactionSyncScope::User

Keys   == AppKeys \cup MonitorKeys \cup PriceKeys
Scopes == Accounts \cup {UserScope}
ScheduledKeys == AppKeys \cup MonitorKeys

ASSUME CapacityAssumption == Capacity \in Nat \ {0}
ASSUME KeysAssumption ==
    /\ AppKeys \cap MonitorKeys = {} /\ AppKeys \cap PriceKeys = {}
    /\ MonitorKeys \cap PriceKeys = {}
ASSUME IdsAssumption == NoId \notin Ids /\ UserScope \notin Accounts

\* TriggerRequest: source and job parameters other than run id and scope are
\* only logged.
Requests == [key : Keys, id : Ids \cup {NoId}, scope : Scopes]
ASSUME NoRequestAssumption == NoRequest \notin Requests

\* ManagerCommand
EnqueueCommands   == [type : {"Enqueue"}, caller : Callers, request : Requests]
CompletedCommands == [type : {"JobCompleted"}, key : Keys, hint : BOOLEAN]
ShutdownCommand   == [type |-> "Shutdown"]
Commands == EnqueueCommands \cup CompletedCommands \cup {ShutdownCommand}

VARIABLES
    \* TaskManager
    registered,      \* keys of the jobs map
    running,         \* keys whose JobState.running is true
    pending,         \* JobState.pending
    due,             \* keys whose next_due_at has passed
    refresh,         \* EligibilityRefresh
    shutting_down,
    phase, agenda,   \* where the manager is in handle_schedule_tick
    stopped,         \* run() has returned, the receiver is dropped
    \* shared
    channel,         \* the mpsc channel
    flag,            \* TASK_MANAGER_SHUTTING_DOWN
    executing,       \* tasks spawned by start_job_run that have not reported
    \* callers of enqueue_trigger and shutdown
    call, asked, shutdown,
    \* history: <<run id the caller was told, scope it asked for>> of each
    \* request accepted as queued whose rerun has not started
    owed

jobs    == <<registered, running, pending, due>>
manager == <<refresh, shutting_down, phase, agenda, stopped>>
callers == <<call, asked>>
vars    == <<jobs, manager, channel, flag, executing, callers, shutdown, owed>>

\* Every variable ranges over the values the code can store in it.
TypeOK ==
    /\ registered \subseteq Keys
    /\ running \subseteq registered
    /\ pending \in [Keys -> Requests \cup {NoRequest}]
    /\ due \subseteq registered
    /\ refresh \in {"none", "cooling", "elapsed"}
    /\ shutting_down \in BOOLEAN
    /\ phase \in {"select", "automatic", "scheduled"}
    /\ agenda \subseteq Requests
    /\ stopped \in BOOLEAN
    /\ channel \in Seq(Commands) /\ Len(channel) <= Capacity
    /\ flag \in BOOLEAN
    /\ executing \in [Keys -> Nat]
    /\ call \in [Callers -> {"idle", "sending", "waiting"}]
    /\ asked \in [Callers -> Requests \cup {NoRequest}]
    /\ shutdown \in {"none", "sending", "waiting", "done", "timedOut"}
    /\ owed \in [Keys -> SUBSET ((Ids \cup {NoId}) \X Scopes)]

\* TaskManager::new registers the static jobs, not yet due.
Init ==
    /\ registered = AppKeys
    /\ running = {}
    /\ pending = [k \in Keys |-> NoRequest]
    /\ due = {}
    /\ refresh = "none"
    /\ shutting_down = FALSE
    /\ phase = "select" /\ agenda = {}
    /\ stopped = FALSE
    /\ channel = <<>>
    /\ flag = FALSE
    /\ executing = [k \in Keys |-> 0]
    /\ call = [c \in Callers |-> "idle"]
    /\ asked = [c \in Callers |-> NoRequest]
    /\ shutdown = "none"
    /\ owed = [k \in Keys |-> {}]

-----------------------------------------------------------------------------
(* Requests *)

\* Run ids are random: a new one differs from those in use.
IdsInUse ==
    {pending[k].id : k \in {j \in Keys : pending[j] # NoRequest}}
    \cup {asked[c].id : c \in {d \in Callers : asked[d] # NoRequest}}
    \cup {r.id : r \in agenda}
    \cup {channel[i].request.id : i \in {j \in DOMAIN channel : channel[j].type = "Enqueue"}}

FreshIds == Ids \ IdsInUse

\* Slip: a pending rerun keeps the scope of the request that created it.
KeepPendingScope(r) == r

\* A queued monitor request is widened to the whole user; app and price
\* requests carry no scope.
canonicalize_pending_request(r) ==
    IF r.key \in MonitorKeys THEN [r EXCEPT !.scope = UserScope] ELSE r

Covers(scope, s) == scope = UserScope \/ scope = s

\* Slip: the flags are not consulted before a run starts.
AcceptingAlways == TRUE

Accepting == ~shutting_down /\ ~flag

\* start_job_run spawns the task that runs the job and reports.
start_job_run(r) == executing' = [executing EXCEPT ![r.key] = @ + 1]

\* compute_trigger_transition of a running job: the request joins the pending
\* rerun, if there is one, and is told its run id.
QueueTrigger(r) ==
    LET rerun == canonicalize_pending_request(
                     IF pending[r.key] = NoRequest THEN r ELSE pending[r.key])
    IN  /\ pending' = [pending EXCEPT ![r.key] = rerun]
        /\ owed' = [owed EXCEPT ![r.key] = @ \cup {<<rerun.id, r.scope>>}]
        /\ UNCHANGED <<running, executing>>

\* ... and of an idle one.
StartTrigger(r) ==
    /\ running' = running \cup {r.key}
    /\ pending' = [pending EXCEPT ![r.key] = NoRequest]
    /\ start_job_run(r)
    /\ UNCHANGED owed

\* Slip: the job of a user without an entry is started all the same.
apply_trigger_Unregistered(r) ==
    IF Accepting
    THEN /\ IF r.key \in running THEN QueueTrigger(r) ELSE StartTrigger(r)
         /\ UNCHANGED <<registered, due>>
    ELSE UNCHANGED <<jobs, executing, owed>>

\* ensure_dynamic_job_exists registers a missing user job; a request for an
\* app job only ever comes from its own entry.
apply_trigger(r) ==
    IF Accepting
    THEN /\ registered' = registered \cup {r.key}
         /\ IF r.key \in running THEN QueueTrigger(r) ELSE StartTrigger(r)
         /\ UNCHANGED due
    ELSE UNCHANGED <<jobs, executing, owed>>

-----------------------------------------------------------------------------
(* handle_schedule_tick *)

TickEnabled == phase = "select" /\ ~stopped /\ ~shutting_down /\ ~flag

\* Requests for the keys of K, each with a run id of its own.
AutomaticRequests(K) ==
    {{[key |-> k, id |-> f[k], scope |-> UserScope] : k \in K} :
        f \in {g \in [K -> FreshIds] : \A j, k \in K : g[j] = g[k] => j = k}}

\* Slip: only the eligibility of the user keeps an entry.
RetainedIgnoresRunning(eligible) ==
    {k \in registered \cup eligible : k \in MonitorKeys => k \in eligible}

\* jobs.retain
Retained(eligible) ==
    {k \in registered \cup eligible :
        k \in MonitorKeys => k \in eligible \/ k \in running \/ pending[k] # NoRequest}

\* sync_user_transaction_jobs: the users with an open database and a live
\* session get an entry, and a request if the decision is EnqueueNow; the
\* other decisions only move next_due_at ahead.
RefreshMonitors ==
    /\ TickEnabled /\ refresh # "cooling"
    /\ \E eligible \in SUBSET MonitorKeys :
       \E stale \in SUBSET (eligible \ registered) :
        /\ agenda' \in AutomaticRequests(stale)
        /\ registered' = Retained(eligible)
        /\ running' = running \cap registered'
        /\ pending' = [k \in Keys |-> IF k \in registered' THEN pending[k] ELSE NoRequest]
        /\ due' = due \cap registered'
    /\ refresh' = "none"
    /\ phase' = "automatic"
    /\ UNCHANGED <<shutting_down, stopped, channel, flag, executing, callers, shutdown,
                   owed>>

\* The lists could not be loaded (retry in 30 s), or that is not over yet.
RefreshSkipped ==
    /\ TickEnabled
    /\ refresh' = "cooling"
    /\ phase' = "automatic"
    /\ UNCHANGED <<jobs, shutting_down, agenda, stopped, channel, flag, executing,
                   callers, shutdown, owed>>

\* apply_trigger of one of the tick's requests.
ApplyAgenda ==
    /\ \E r \in agenda : apply_trigger(r) /\ agenda' = agenda \ {r}
    /\ UNCHANGED <<refresh, shutting_down, phase, stopped, channel, flag, callers,
                   shutdown>>

\* The due entries are rescheduled; an app job gets a request, a monitor if
\* the decision is EnqueueNow.
CollectDue ==
    /\ phase = "automatic" /\ agenda = {}
    /\ LET app == {[key |-> k, id |-> NoId, scope |-> UserScope] : k \in due \cap AppKeys}
       IN \E stale \in SUBSET (due \cap MonitorKeys) :
          \E requests \in AutomaticRequests(stale) : agenda' = app \cup requests
    /\ due' = {}
    /\ phase' = "scheduled"
    /\ UNCHANGED <<registered, running, pending, refresh, shutting_down, stopped, channel,
                   flag, executing, callers, shutdown, owed>>

TickDone ==
    /\ phase = "scheduled" /\ agenda = {}
    /\ phase' = "select"
    /\ UNCHANGED <<jobs, refresh, shutting_down, agenda, stopped, channel, flag, executing,
                   callers, shutdown, owed>>

-----------------------------------------------------------------------------
(* handle_command *)

Receive(type) ==
    /\ phase = "select" /\ ~stopped /\ channel # <<>>
    /\ Head(channel).type = type
    /\ channel' = Tail(channel)

\* Slip: only a request that started its job is answered.
HandleEnqueueForgetsQueued ==
    /\ Receive("Enqueue")
    /\ LET r == Head(channel).request
           c == Head(channel).caller
       IN  /\ apply_trigger(r)
           /\ IF call[c] = "waiting" /\ asked[c].id = r.id /\ r.key \notin running
              THEN /\ call' = [call EXCEPT ![c] = "idle"]
                   /\ asked' = [asked EXCEPT ![c] = NoRequest]
              ELSE UNCHANGED callers
    /\ UNCHANGED <<manager, flag, shutdown>>

\* The answer goes to the call that is still waiting for it.
HandleEnqueue ==
    /\ Receive("Enqueue")
    /\ LET r == Head(channel).request
           c == Head(channel).caller
       IN  /\ apply_trigger(r)
           /\ IF call[c] = "waiting" /\ asked[c].id = r.id
              THEN /\ call' = [call EXCEPT ![c] = "idle"]
                   /\ asked' = [asked EXCEPT ![c] = NoRequest]
              ELSE UNCHANGED callers
    /\ UNCHANGED <<manager, flag, shutdown>>

\* Slip: a run that failed takes its pending rerun with it.
HandleCompletionDropsRerun ==
    /\ Receive("JobCompleted")
    /\ LET k == Head(channel).key
           rerun == k \in registered /\ pending[k] # NoRequest /\ Accepting
                    /\ Head(channel).hint
       IN  /\ due' = IF Head(channel).hint THEN due \ {k} ELSE due
           /\ running' = IF rerun THEN running ELSE running \ {k}
           /\ pending' = [pending EXCEPT ![k] = NoRequest]
           /\ IF rerun THEN start_job_run(pending[k]) /\ owed' = [owed EXCEPT ![k] = {}]
                       ELSE UNCHANGED <<executing, owed>>
    /\ UNCHANGED <<registered, manager, flag, callers, shutdown>>

\* handle_job_completion: a success of the monitor moves next_due_at, and the
\* pending rerun starts at once unless the manager is shutting down.
HandleJobCompletion ==
    /\ Receive("JobCompleted")
    /\ LET k == Head(channel).key
           rerun == k \in registered /\ pending[k] # NoRequest /\ Accepting
       IN  /\ due' = IF Head(channel).hint THEN due \ {k} ELSE due
           /\ running' = IF rerun THEN running ELSE running \ {k}
           /\ pending' = [pending EXCEPT ![k] = NoRequest]
           /\ IF rerun
              THEN /\ start_job_run(pending[k])
                   /\ owed' = [owed EXCEPT ![k] =
                                 {o \in @ : ~(o[1] = pending[k].id
                                              /\ Covers(pending[k].scope, o[2]))}]
              ELSE UNCHANGED <<executing, owed>>
    /\ UNCHANGED <<registered, manager, flag, callers, shutdown>>

HandleShutdown ==
    /\ Receive("Shutdown")
    /\ shutting_down' = TRUE
    /\ pending' = [k \in Keys |-> NoRequest]
    /\ UNCHANGED <<registered, running, due, refresh, phase, agenda, stopped, flag,
                   executing, callers, shutdown, owed>>

\* Slip: the loop ends as soon as it was told to.
StopAtOnce ==
    /\ phase = "select" /\ ~stopped /\ shutting_down
    /\ stopped' = TRUE
    /\ channel' = <<>>
    /\ shutdown' = IF shutdown = "waiting" THEN "done" ELSE shutdown
    /\ UNCHANGED <<jobs, refresh, shutting_down, phase, agenda, flag, executing, callers,
                   owed>>

\* The head of run's loop: with no job running the shutdown is answered and
\* the receiver dropped, with the commands still in it.
Stop ==
    /\ phase = "select" /\ ~stopped /\ shutting_down /\ running = {}
    /\ stopped' = TRUE
    /\ channel' = <<>>
    /\ shutdown' = IF shutdown = "waiting" THEN "done" ELSE shutdown
    /\ UNCHANGED <<jobs, refresh, shutting_down, phase, agenda, flag, executing, callers,
                   owed>>

-----------------------------------------------------------------------------
(* run_job_and_report_completion *)

\* Slip: try_send, which gives up when the channel is full.
TryReportCompletion(k) ==
    /\ executing[k] > 0
    /\ executing' = [executing EXCEPT ![k] = @ - 1]
    /\ IF stopped \/ Len(channel) = Capacity THEN UNCHANGED channel
       ELSE \E hint \in BOOLEAN :
                /\ hint => k \in MonitorKeys
                /\ channel' = Append(channel, [type |-> "JobCompleted", key |-> k, hint |-> hint])
    /\ UNCHANGED <<jobs, manager, flag, callers, shutdown, owed>>

\* The job is over (a panic is a failure too) and the completion is sent,
\* once there is room; only a successful monitor run carries a hint.
ReportCompletion(k) ==
    /\ executing[k] > 0
    /\ executing' = [executing EXCEPT ![k] = @ - 1]
    /\ IF stopped THEN UNCHANGED channel
       ELSE /\ Len(channel) < Capacity
            /\ \E hint \in BOOLEAN :
                /\ hint => k \in MonitorKeys
                /\ channel' = Append(channel, [type |-> "JobCompleted", key |-> k, hint |-> hint])
    /\ UNCHANGED <<jobs, manager, flag, callers, shutdown, owed>>

-----------------------------------------------------------------------------
(* enqueue_trigger, by the handlers of a user *)

\* The flag is loaded before the command is sent.
Call(c, k, s) ==
    /\ call[c] = "idle" /\ ~flag
    /\ k \in MonitorKeys \/ s = UserScope
    /\ \E id \in FreshIds : asked' = [asked EXCEPT ![c] = [key |-> k, id |-> id, scope |-> s]]
    /\ call' = [call EXCEPT ![c] = "sending"]
    /\ UNCHANGED <<jobs, manager, channel, flag, executing, shutdown, owed>>

Send(c) ==
    /\ call[c] = "sending" /\ ~stopped /\ Len(channel) < Capacity
    /\ channel' = Append(channel, [type |-> "Enqueue", caller |-> c, request |-> asked[c]])
    /\ call' = [call EXCEPT ![c] = "waiting"]
    /\ UNCHANGED <<jobs, manager, flag, executing, asked, shutdown, owed>>

\* RejectedShuttingDown: the receiver or the answer's sender is gone.
CallDropped(c) ==
    /\ call[c] # "idle" /\ stopped
    /\ call' = [call EXCEPT ![c] = "idle"]
    /\ asked' = [asked EXCEPT ![c] = NoRequest]
    /\ UNCHANGED <<jobs, manager, channel, flag, executing, shutdown, owed>>

\* The client disconnects and the handler's future is dropped.
CallCancelled(c) ==
    /\ call[c] # "idle"
    /\ call' = [call EXCEPT ![c] = "idle"]
    /\ asked' = [asked EXCEPT ![c] = NoRequest]
    /\ UNCHANGED <<jobs, manager, channel, flag, executing, shutdown, owed>>

-----------------------------------------------------------------------------
(* shutdown, called once, by main.rs, with a deadline *)

BeginShutdown ==
    /\ shutdown = "none"
    /\ flag' = TRUE
    /\ shutdown' = "sending"
    /\ UNCHANGED <<jobs, manager, channel, executing, callers, owed>>

SendShutdown ==
    /\ shutdown = "sending" /\ ~stopped /\ Len(channel) < Capacity
    /\ channel' = Append(channel, ShutdownCommand)
    /\ shutdown' = "waiting"
    /\ UNCHANGED <<jobs, manager, flag, executing, callers, owed>>

ShutdownTimesOut ==
    /\ shutdown \in {"sending", "waiting"}
    /\ shutdown' = "timedOut"
    /\ UNCHANGED <<jobs, manager, channel, flag, executing, callers, owed>>

\* The process exits.
Exit == shutdown \in {"done", "timedOut"} /\ UNCHANGED vars

-----------------------------------------------------------------------------
(* Time *)

\* A tick has read the clock at its start, so time passes between ticks.
BecomesDue(k) ==
    /\ phase = "select" /\ k \in registered \ due /\ k \in ScheduledKeys
    /\ due' = due \cup {k}
    /\ UNCHANGED <<registered, running, pending, manager, channel, flag, executing,
                   callers, shutdown, owed>>

CooldownElapses ==
    /\ phase = "select" /\ refresh = "cooling"
    /\ refresh' = "elapsed"
    /\ UNCHANGED <<jobs, shutting_down, phase, agenda, stopped, channel, flag, executing,
                   callers, shutdown, owed>>

-----------------------------------------------------------------------------
(* Specification *)

Tick == RefreshMonitors \/ RefreshSkipped
Command == HandleEnqueue \/ HandleJobCompletion \/ HandleShutdown
ManagerStep == Tick \/ ApplyAgenda \/ CollectDue \/ TickDone \/ Command \/ Stop

CallerStep(c) ==
    \/ \E k \in MonitorKeys \cup PriceKeys, s \in Scopes : Call(c, k, s)
    \/ Send(c) \/ CallDropped(c) \/ CallCancelled(c)

Next ==
    \/ ManagerStep
    \/ \E k \in Keys : ReportCompletion(k) \/ BecomesDue(k)
    \/ \E c \in Callers : CallerStep(c)
    \/ BeginShutdown \/ SendShutdown \/ ShutdownTimesOut \/ Exit
    \/ CooldownElapses

Spec == Init /\ [][Next]_vars

\* The manager's loop runs; select! picks at random among a due tick and a
\* command, so neither starves the other; the channel serves its waiting
\* senders in turn; a job returns (its HTTP calls have timeouts).  Nobody has
\* to call, and the deadline of a shutdown need not pass.
FairSpec ==
    /\ Spec
    /\ WF_vars(ApplyAgenda) /\ WF_vars(CollectDue) /\ WF_vars(TickDone)
    /\ SF_vars(Command) /\ WF_vars(Stop)
    /\ \A k \in Keys : SF_vars(ReportCompletion(k))
    /\ \A c \in Callers : SF_vars(Send(c)) /\ WF_vars(CallDropped(c))
    /\ SF_vars(SendShutdown)

-----------------------------------------------------------------------------
(* Safety *)

CompletesAt(i, k) == channel[i].type = "JobCompleted" /\ channel[i].key = k

\* A job that is marked running has exactly one task, still executing or with
\* its one completion in the channel, and a job that is not has none: no two
\* runs of a job overlap, and no completion arrives for an entry that retain
\* removed.
SingleFlight ==
    \A k \in Keys :
        LET completions == {i \in DOMAIN channel : CompletesAt(i, k)}
        IN  executing[k] + Cardinality(completions) = IF k \in running THEN 1 ELSE 0

\* Every request that was accepted as queued is represented by the pending
\* rerun of its job, with the run id its caller was told and a scope that
\* covers what it asked for, until that rerun starts or a shutdown drops it.
QueuedWorkIsPending ==
    \A k \in Keys : \A o \in owed[k] :
        \/ pending[k] # NoRequest /\ pending[k].id = o[1] /\ Covers(pending[k].scope, o[2])
        \/ flag

\* When shutdown() returns Ok no job is executing, and none starts later: only
\* then does main.rs close the databases.
DrainedMeansQuiet == shutdown = "done" => stopped /\ \A k \in Keys : executing[k] = 0

-----------------------------------------------------------------------------
(* Action properties *)

\* Once shutdown has stored the flag, the manager starts no run: neither the
\* rest of a tick, nor a queued command, nor a pending rerun.
NothingStartsAfterFlag == [][flag => \A k \in Keys : executing'[k] <= executing[k]]_vars

-----------------------------------------------------------------------------
(* Liveness *)

\* A request accepted as queued gets its run, unless a shutdown comes first.
QueuedEventuallyStarts == \A k \in Keys : owed[k] # {} ~> owed[k] = {} \/ flag

\* enqueue_trigger returns, also when the manager stops with the call's
\* command still in the channel.
CallEventuallyReturns == \A c \in Callers : call[c] # "idle" ~> call[c] = "idle" \/ shutdown = "timedOut"

\* A shutdown that reached the manager drains the jobs and is answered.
ShutdownEventuallyAnswered == shutdown = "sending" ~> shutdown \in {"done", "timedOut"}

-----------------------------------------------------------------------------
(* The inductive invariant behind the safety properties *)

\* A running job has one task: it executes, or its completion is on its way.
OneTask ==
    \A k \in Keys :
        /\ executing[k] \in {0, 1}
        /\ executing[k] = 1 => k \in running
        /\ k \in running => executing[k] = 1 \/ \E i \in DOMAIN channel : CompletesAt(i, k)
        /\ \A i \in DOMAIN channel : CompletesAt(i, k) => k \in running /\ executing[k] = 0
        /\ \A i, j \in DOMAIN channel : CompletesAt(i, k) /\ CompletesAt(j, k) => i = j

\* Only a monitor request can ask for less than the user.
WellFormed(r) == r.key \notin MonitorKeys => r.scope = UserScope

RequestsWellFormed ==
    /\ \A r \in agenda : WellFormed(r)
    /\ \A c \in Callers : (call[c] # "idle" => asked[c] # NoRequest)
                           /\ (asked[c] # NoRequest => WellFormed(asked[c]))
    /\ \A i \in DOMAIN channel : channel[i].type = "Enqueue" => WellFormed(channel[i].request)

\* Only a running job has a pending rerun, of its own.
PendingOfRunning ==
    \A k \in Keys : pending[k] # NoRequest =>
        k \in running /\ pending[k].key = k /\ WellFormed(pending[k])

\* The flag is stored before the manager learns of the shutdown.
FlagFirst ==
    /\ shutting_down \/ shutdown # "none" => flag
    /\ \A i \in DOMAIN channel : channel[i].type = "Shutdown" => flag

\* A manager that stopped has nothing left to do.
StoppedIsIdle ==
    /\ phase = "select" => agenda = {}
    /\ stopped => phase = "select" /\ running = {} /\ channel = <<>> /\ shutting_down
    /\ shutdown = "done" => stopped

IndInv ==
    /\ TypeOK
    /\ OneTask
    /\ RequestsWellFormed
    /\ PendingOfRunning
    /\ QueuedWorkIsPending
    /\ FlagFirst
    /\ StoppedIsIdle
=============================================================================
