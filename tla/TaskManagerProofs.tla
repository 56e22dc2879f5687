------------------------- MODULE TaskManagerProofs -------------------------
(***************************************************************************)
(* TaskManager's safety properties, for any jobs, callers, run ids and     *)
(* channel capacity.                                                       *)
(***************************************************************************)
EXTENDS TaskManager, FiniteSetTheorems, TLAPS

-----------------------------------------------------------------------------
(* The channel *)

\* Appending a command leaves the ones before it in their place.
LEMMA AppendCommand ==
    ASSUME NEW ch \in Seq(Commands), NEW x \in Commands
    PROVE  /\ Append(ch, x) \in Seq(Commands)
           /\ Len(Append(ch, x)) = Len(ch) + 1
           /\ \A i \in DOMAIN ch : i \in DOMAIN Append(ch, x) /\ Append(ch, x)[i] = ch[i]
           /\ \A i \in DOMAIN Append(ch, x) : i \in DOMAIN ch \/ i = Len(ch) + 1
           /\ Len(ch) + 1 \in DOMAIN Append(ch, x) /\ Len(ch) + 1 \notin DOMAIN ch
           /\ Append(ch, x)[Len(ch) + 1] = x
  OBVIOUS

\* Receiving a command shifts the others by one.
LEMMA ReceiveCommand ==
    ASSUME NEW ch \in Seq(Commands), ch # <<>>
    PROVE  /\ Head(ch) \in Commands /\ Tail(ch) \in Seq(Commands)
           /\ Len(Tail(ch)) = Len(ch) - 1
           /\ 1 \in DOMAIN ch /\ ch[1] = Head(ch)
           /\ \A i \in DOMAIN Tail(ch) : /\ i + 1 \in DOMAIN ch /\ i + 1 # 1
                                        /\ Tail(ch)[i] = ch[i + 1]
           /\ \A i \in DOMAIN ch : i = 1 \/ (i - 1 \in DOMAIN Tail(ch)
                                            /\ Tail(ch)[i - 1] = ch[i])
  OBVIOUS

\* The commands by type.
LEMMA CommandTypes ==
    ASSUME NEW x \in Commands
    PROVE  /\ x.type \in {"Enqueue", "JobCompleted", "Shutdown"}
           /\ x.type = "Enqueue" => x.caller \in Callers /\ x.request \in Requests
           /\ x.type = "JobCompleted" => x.key \in Keys /\ x.hint \in BOOLEAN
  BY DEF Commands, EnqueueCommands, CompletedCommands, ShutdownCommand

-----------------------------------------------------------------------------
(* apply_trigger *)

\* A trigger starts an idle job or leaves every task alone.
LEMMA TriggerTasks ==
    ASSUME IndInv, NEW r \in Requests, apply_trigger(r)
    PROVE  \/ running' = running /\ executing' = executing
           \/ /\ Accepting /\ r.key \in Keys \ running
              /\ running' = running \cup {r.key}
              /\ executing' = [executing EXCEPT ![r.key] = @ + 1]
  BY DEF IndInv, apply_trigger, QueueTrigger, StartTrigger, start_job_run, jobs, Requests

\* Its effect on the jobs is well typed.
LEMMA TriggerTypes ==
    ASSUME IndInv, NEW r \in Requests, apply_trigger(r)
    PROVE  /\ registered' \subseteq Keys /\ running' \subseteq registered'
           /\ pending' \in [Keys -> Requests \cup {NoRequest}]
           /\ due' \subseteq registered'
           /\ executing' \in [Keys -> Nat]
           /\ owed' \in [Keys -> SUBSET ((Ids \cup {NoId}) \X Scopes)]
<1> USE DEF IndInv, TypeOK
<1>1. CASE ~Accepting
  BY <1>1 DEF apply_trigger, jobs
<1>2. CASE Accepting /\ r.key \in running
  <2>1. PICK rerun \in Requests :
           /\ pending' = [pending EXCEPT ![r.key] = rerun]
           /\ owed' = [owed EXCEPT ![r.key] = @ \cup {<<rerun.id, r.scope>>}]
    <3>1. (IF pending[r.key] = NoRequest THEN r ELSE pending[r.key]) \in Requests
      BY DEF Requests
    <3>2. ASSUME NEW q \in Requests PROVE canonicalize_pending_request(q) \in Requests
      BY DEF Requests, canonicalize_pending_request, Scopes
    <3> QED BY <1>2, <3>1, <3>2 DEF apply_trigger, QueueTrigger
  <2> QED BY <1>2, <2>1 DEF apply_trigger, QueueTrigger, Requests
<1>3. CASE Accepting /\ r.key \notin running
  <2>1. /\ r.key \in Keys
        /\ registered' = registered \cup {r.key} /\ running' = running \cup {r.key}
        /\ pending' = [pending EXCEPT ![r.key] = NoRequest]
        /\ due' = due /\ owed' = owed
        /\ executing' = [executing EXCEPT ![r.key] = @ + 1]
    BY <1>3 DEF apply_trigger, StartTrigger, start_job_run, Requests
  <2> QED BY <2>1
<1> QED BY <1>1, <1>2, <1>3

\* It keeps a pending rerun that stands for everything queued behind it.
LEMMA TriggerPending ==
    ASSUME IndInv, NEW r \in Requests, WellFormed(r), apply_trigger(r), flag' = flag
    PROVE  PendingOfRunning' /\ QueuedWorkIsPending'
<1> USE DEF IndInv, TypeOK, PendingOfRunning, QueuedWorkIsPending
<1>1. CASE ~Accepting
  BY <1>1 DEF apply_trigger, jobs
<1>2. CASE Accepting /\ r.key \in running
  <2> DEFINE first == IF pending[r.key] = NoRequest THEN r ELSE pending[r.key]
             rerun == canonicalize_pending_request(first)
  <2>1. first \in Requests /\ first.key = r.key
    BY DEF Requests
  <2>2. /\ rerun \in Requests /\ rerun.key = r.key /\ rerun.id = first.id
        /\ rerun.scope = first.scope \/ rerun.scope = UserScope
        /\ r.key \in MonitorKeys => rerun.scope = UserScope
    BY <2>1 DEF Requests, canonicalize_pending_request, Scopes
  <2>3. /\ pending' = [pending EXCEPT ![r.key] = rerun]
        /\ owed' = [owed EXCEPT ![r.key] = @ \cup {<<rerun.id, r.scope>>}]
        /\ running' = running
    BY <1>2 DEF apply_trigger, QueueTrigger
  <2>4. rerun # NoRequest
    BY <2>2, NoRequestAssumption
  <2>5. r.key \in Keys /\ r.scope \in Scopes
    BY DEF Requests
  <2>6. PendingOfRunning'
    BY <1>2, <2>2, <2>3, <2>5 DEF WellFormed
  <2>7. Covers(rerun.scope, r.scope)
    <3>1. CASE r.key \in MonitorKeys
      BY <2>2, <3>1 DEF Covers
    <3>2. CASE r.key \notin MonitorKeys /\ pending[r.key] = NoRequest
      BY <2>2, <3>2 DEF Covers
    <3>3. CASE r.key \notin MonitorKeys /\ pending[r.key] # NoRequest
      BY <3>3, <2>2, <2>5 DEF Covers, WellFormed
    <3> QED BY <3>1, <3>2, <3>3
  <2>8. QueuedWorkIsPending'
    <3> SUFFICES ASSUME NEW k \in Keys, NEW o \in owed'[k], ~flag
                 PROVE  /\ pending'[k] # NoRequest /\ pending'[k].id = o[1]
                        /\ Covers(pending'[k].scope, o[2])
      OBVIOUS
    <3>1. CASE k # r.key
      BY <3>1, <2>3, <2>5
    <3>2. CASE k = r.key /\ o \in owed[k]
      BY <3>2, <2>2, <2>3, <2>4 DEF Covers
    <3>3. CASE k = r.key /\ o = <<rerun.id, r.scope>>
      BY <3>3, <2>3, <2>4, <2>7
    <3> QED BY <2>3, <3>1, <3>2, <3>3
  <2> QED BY <2>6, <2>8
<1>3. CASE Accepting /\ r.key \notin running
  <2>1. /\ pending[r.key] = NoRequest
        /\ pending' = [pending EXCEPT ![r.key] = NoRequest]
        /\ owed' = owed /\ running' = running \cup {r.key} /\ r.key \in Keys
    BY <1>3 DEF apply_trigger, StartTrigger, Requests
  <2> QED BY <2>1
<1> QED BY <1>1, <1>2, <1>3

-----------------------------------------------------------------------------
(* One task per running job *)

\* One more idle job started, or none, while the channel stands still ...
LEMMA TasksStarted ==
    ASSUME IndInv, channel' = channel,
           \/ running' = running /\ executing' = executing
           \/ \E k \in Keys \ running :
                 /\ running' = running \cup {k}
                 /\ executing' = [executing EXCEPT ![k] = @ + 1]
    PROVE  OneTask'
<1> USE DEF IndInv, TypeOK, OneTask, CompletesAt
<1>1. CASE running' = running /\ executing' = executing
  BY <1>1
<1>2. ASSUME NEW k \in Keys \ running, running' = running \cup {k},
             executing' = [executing EXCEPT ![k] = @ + 1]
      PROVE  OneTask'
  <2>1. executing[k] = 0 /\ \A i \in DOMAIN channel : ~CompletesAt(i, k)
    BY <1>2
  <2>2. executing'[k] = 1 /\ \A j \in Keys \ {k} : executing'[j] = executing[j]
    BY <1>2, <2>1
  <2> QED BY <1>2, <2>1, <2>2
<1> QED BY <1>1, <1>2

\* ... while a command that is no completion is received ...
LEMMA TasksReceived ==
    ASSUME IndInv, channel # <<>>, channel' = Tail(channel),
           Head(channel).type # "JobCompleted",
           \/ running' = running /\ executing' = executing
           \/ \E k \in Keys \ running :
                 /\ running' = running \cup {k}
                 /\ executing' = [executing EXCEPT ![k] = @ + 1]
    PROVE  OneTask'
<1> DEFINE Completing(ch, k) == {i \in DOMAIN ch : ch[i].type = "JobCompleted" /\ ch[i].key = k}
<1>1. channel \in Seq(Commands)
  BY DEF IndInv, TypeOK
<1>2. /\ \A i \in DOMAIN channel' : i + 1 \in DOMAIN channel /\ channel'[i] = channel[i + 1]
      /\ \A i \in DOMAIN channel : \/ i = 1 /\ channel[1].type # "JobCompleted"
                                   \/ i - 1 \in DOMAIN channel' /\ channel'[i - 1] = channel[i]
      /\ DOMAIN channel \subseteq Nat /\ DOMAIN channel' \subseteq Nat
  BY <1>1, ReceiveCommand
<1>3. \A k \in Keys :
        /\ \A i \in DOMAIN channel' : CompletesAt(i, k)' => CompletesAt(i + 1, k)
        /\ \A i \in DOMAIN channel : CompletesAt(i, k) =>
              i - 1 \in DOMAIN channel' /\ CompletesAt(i - 1, k)'
  BY <1>2 DEF CompletesAt
<1>4. ASSUME NEW k \in Keys
      PROVE  /\ (\E i \in DOMAIN channel : CompletesAt(i, k))
                   <=> \E i \in DOMAIN channel' : CompletesAt(i, k)'
             /\ \A i, j \in DOMAIN channel' : CompletesAt(i, k)' /\ CompletesAt(j, k)' => i = j
  <2>1. \A i, j \in DOMAIN channel : CompletesAt(i, k) /\ CompletesAt(j, k) => i = j
    BY DEF IndInv, OneTask
  <2>2. ASSUME NEW i \in DOMAIN channel', NEW j \in DOMAIN channel',
               CompletesAt(i, k)', CompletesAt(j, k)'
        PROVE  i = j
    <3>1. i + 1 = j + 1
      BY <1>2, <1>3, <2>1, <2>2
    <3> QED BY <1>2, <3>1
  <2>3. (\E i \in DOMAIN channel : CompletesAt(i, k)) <=> \E i \in DOMAIN channel' : CompletesAt(i, k)'
    BY <1>2, <1>3
  <2> QED BY <2>2, <2>3
<1>5. CASE running' = running /\ executing' = executing
  BY <1>4, <1>5 DEF IndInv, OneTask
<1>6. ASSUME NEW k \in Keys \ running, running' = running \cup {k},
             executing' = [executing EXCEPT ![k] = @ + 1]
      PROVE  OneTask'
  <2>1. executing[k] = 0 /\ \A i \in DOMAIN channel : ~CompletesAt(i, k)
    BY <1>6 DEF IndInv, OneTask
  <2>2. executing'[k] = 1 /\ \A j \in Keys \ {k} : executing'[j] = executing[j]
    BY <1>6, <2>1 DEF IndInv, TypeOK
  <2> QED BY <1>4, <1>6, <2>1, <2>2 DEF IndInv, OneTask
<1> QED BY <1>5, <1>6

\* ... or while a command that is no completion is sent.
LEMMA TasksSent ==
    ASSUME IndInv, NEW x \in Commands, channel' = Append(channel, x),
           x.type # "JobCompleted", running' = running, executing' = executing
    PROVE  OneTask'
<1>1. channel \in Seq(Commands)
  BY DEF IndInv, TypeOK
<1>2. /\ \A i \in DOMAIN channel : i \in DOMAIN channel' /\ channel'[i] = channel[i]
      /\ \A i \in DOMAIN channel' : i \in DOMAIN channel \/ channel'[i] = x
  BY <1>1, AppendCommand
<1>3. \A k \in Keys :
        /\ \A i \in DOMAIN channel' : CompletesAt(i, k)' => i \in DOMAIN channel /\ CompletesAt(i, k)
        /\ \A i \in DOMAIN channel : CompletesAt(i, k) => i \in DOMAIN channel' /\ CompletesAt(i, k)'
  BY <1>2 DEF CompletesAt
<1> QED BY <1>3 DEF IndInv, OneTask

\* A task that ends leaves its completion in the channel.
LEMMA TasksReported ==
    ASSUME IndInv, NEW k \in Keys, ReportCompletion(k)
    PROVE  OneTask'
<1>0. channel \in Seq(Commands) /\ executing \in [Keys -> Nat]
  BY DEF IndInv, TypeOK
<1>1. /\ executing[k] = 1 /\ k \in running
      /\ \A i \in DOMAIN channel : ~CompletesAt(i, k)
  BY <1>0 DEF IndInv, OneTask, ReportCompletion
<1>2. ~stopped
  BY <1>1 DEF IndInv, StoppedIsIdle
<1>3. PICK x \in Commands : /\ channel' = Append(channel, x)
                            /\ x.type = "JobCompleted" /\ x.key = k
  <2>1. PICK hint \in BOOLEAN :
            channel' = Append(channel, [type |-> "JobCompleted", key |-> k, hint |-> hint])
    BY <1>2 DEF ReportCompletion
  <2>2. [type |-> "JobCompleted", key |-> k, hint |-> hint] \in Commands
    BY DEF Commands, CompletedCommands
  <2> QED BY <2>1, <2>2
<1>4. /\ running' = running /\ executing'[k] = 0
      /\ \A j \in Keys \ {k} : executing'[j] = executing[j]
  BY <1>0, <1>1 DEF ReportCompletion, jobs
<1>5. PICK n \in Nat :
      /\ \A i \in DOMAIN channel : i \in DOMAIN channel' /\ channel'[i] = channel[i]
      /\ \A i \in DOMAIN channel' : i \in DOMAIN channel \/ i = n
      /\ n \in DOMAIN channel' /\ channel'[n] = x /\ n \notin DOMAIN channel
  <2>1. Len(channel) + 1 \in Nat
    BY <1>0
  <2> QED BY <1>0, <1>3, <2>1, AppendCommand
<1>6. \A j \in Keys : \A i \in DOMAIN channel :
         i \in DOMAIN channel' /\ (CompletesAt(i, j)' <=> CompletesAt(i, j))
  BY <1>5 DEF CompletesAt
<1>7. CompletesAt(n, k)' /\ \A j \in Keys \ {k} : ~CompletesAt(n, j)'
  BY <1>3, <1>5 DEF CompletesAt
<1>8. ASSUME NEW j \in Keys \ {k}
      PROVE  \A i \in DOMAIN channel' : CompletesAt(i, j)' => i \in DOMAIN channel /\ CompletesAt(i, j)
  BY <1>5, <1>6, <1>7
<1>9. \A i \in DOMAIN channel' : CompletesAt(i, k)' => i = n
  BY <1>1, <1>5, <1>6
<1>10. ASSUME NEW j \in Keys
       PROVE  /\ executing'[j] \in {0, 1}
              /\ executing'[j] = 1 => j \in running'
              /\ j \in running' => executing'[j] = 1 \/ \E i \in DOMAIN channel' : CompletesAt(i, j)'
              /\ \A i \in DOMAIN channel' : CompletesAt(i, j)' => j \in running' /\ executing'[j] = 0
              /\ \A i, m \in DOMAIN channel' : CompletesAt(i, j)' /\ CompletesAt(m, j)' => i = m
  <2>1. CASE j = k
    BY <1>1, <1>4, <1>5, <1>7, <1>9, <2>1
  <2>2. CASE j # k
    BY <1>4, <1>6, <1>8, <2>2 DEF IndInv, OneTask
  <2> QED BY <2>1, <2>2
<1> QED BY <1>10 DEF OneTask

\* A completion that is handled ends its job's task, or is followed by the
\* task of the pending rerun.
LEMMA TasksCompleted ==
    ASSUME IndInv, HandleJobCompletion
    PROVE  OneTask'
<1>0. channel \in Seq(Commands) /\ executing \in [Keys -> Nat] /\ channel # <<>>
  BY DEF IndInv, TypeOK, HandleJobCompletion, Receive
<1>k. PICK k \in Keys : k = Head(channel).key
  BY <1>0, ReceiveCommand, CommandTypes DEF HandleJobCompletion, Receive
<1>1. 1 \in DOMAIN channel /\ channel[1] = Head(channel) /\ k \in Keys /\ CompletesAt(1, k)
  BY <1>0, ReceiveCommand, <1>k DEF HandleJobCompletion, Receive, CompletesAt
<1>2. /\ k \in running /\ executing[k] = 0
      /\ \A i \in DOMAIN channel : CompletesAt(i, k) => i = 1
  BY <1>1 DEF IndInv, OneTask
<1>3. /\ \A i \in DOMAIN channel' : i + 1 \in DOMAIN channel /\ i + 1 # 1 /\ channel'[i] = channel[i + 1]
      /\ \A i \in DOMAIN channel : i = 1 \/ (i - 1 \in DOMAIN channel' /\ channel'[i - 1] = channel[i])
      /\ DOMAIN channel \subseteq Nat /\ DOMAIN channel' \subseteq Nat
  BY <1>0, ReceiveCommand DEF HandleJobCompletion, Receive
<1>4. \A i \in DOMAIN channel' : ~CompletesAt(i, k)'
  BY <1>2, <1>3 DEF CompletesAt
<1>5. ASSUME NEW j \in Keys \ {k}
      PROVE  /\ \A i \in DOMAIN channel' : CompletesAt(i, j)' => CompletesAt(i + 1, j)
             /\ \A i \in DOMAIN channel : CompletesAt(i, j) =>
                   i - 1 \in DOMAIN channel' /\ CompletesAt(i - 1, j)'
  BY <1>1, <1>3 DEF CompletesAt
<1>6. ASSUME NEW j \in Keys \ {k}
      PROVE  /\ (\E i \in DOMAIN channel : CompletesAt(i, j))
                   <=> \E i \in DOMAIN channel' : CompletesAt(i, j)'
             /\ \A i, m \in DOMAIN channel' : CompletesAt(i, j)' /\ CompletesAt(m, j)' => i = m
  <2>1. \A i, m \in DOMAIN channel : CompletesAt(i, j) /\ CompletesAt(m, j) => i = m
    BY DEF IndInv, OneTask
  <2>2. ASSUME NEW i \in DOMAIN channel', NEW m \in DOMAIN channel',
               CompletesAt(i, j)', CompletesAt(m, j)'
        PROVE  i = m
    <3>1. i + 1 = m + 1
      BY <1>3, <1>5, <2>1, <2>2
    <3> QED BY <1>3, <3>1
  <2>3. (\E i \in DOMAIN channel : CompletesAt(i, j)) <=> \E i \in DOMAIN channel' : CompletesAt(i, j)'
    BY <1>3, <1>5
  <2> QED BY <2>2, <2>3
<1>7. \/ running' = running /\ executing' = [executing EXCEPT ![k] = @ + 1]
      \/ running' = running \ {k} /\ executing' = executing
  <2>1. pending[k] # NoRequest => pending[k].key = k
    BY <1>1 DEF IndInv, PendingOfRunning
  <2> QED BY <1>k, <2>1 DEF HandleJobCompletion, start_job_run
<1>8. CASE running' = running /\ executing' = [executing EXCEPT ![k] = @ + 1]
  <2>1. executing'[k] = 1 /\ \A j \in Keys \ {k} : executing'[j] = executing[j]
    BY <1>0, <1>1, <1>2, <1>8
  <2> QED BY <1>2, <1>4, <1>6, <1>8, <2>1 DEF IndInv, OneTask
<1>9. CASE running' = running \ {k} /\ executing' = executing
  BY <1>2, <1>4, <1>6, <1>9 DEF IndInv, OneTask
<1> QED BY <1>7, <1>8, <1>9

-----------------------------------------------------------------------------
(* The invariant is inductive *)

LEMMA InitIndInv == Init => IndInv
<1> SUFFICES ASSUME Init PROVE IndInv
  OBVIOUS
<1>1. TypeOK
  <2>1. channel \in Seq(Commands) /\ Len(channel) <= Capacity
    BY CapacityAssumption DEF Init
  <2>2. /\ pending \in [Keys -> Requests \cup {NoRequest}]
        /\ asked \in [Callers -> Requests \cup {NoRequest}]
    BY DEF Init
  <2>3. /\ executing \in [Keys -> Nat]
        /\ owed \in [Keys -> SUBSET ((Ids \cup {NoId}) \X Scopes)]
        /\ call \in [Callers -> {"idle", "sending", "waiting"}]
    BY DEF Init
  <2> QED BY <2>1, <2>2, <2>3 DEF Init, TypeOK, Keys
<1>2. OneTask
  BY DEF Init, OneTask
<1>3. RequestsWellFormed /\ PendingOfRunning /\ QueuedWorkIsPending
  BY DEF Init, RequestsWellFormed, PendingOfRunning, QueuedWorkIsPending
<1>4. FlagFirst /\ StoppedIsIdle
  BY DEF Init, FlagFirst, StoppedIsIdle
<1> QED BY <1>1, <1>2, <1>3, <1>4 DEF IndInv

\* Received commands leave only commands that were there before.
LEMMA ReceivedChannel ==
    ASSUME IndInv, NEW type, Receive(type)
    PROVE  /\ channel' \in Seq(Commands) /\ Len(channel') <= Capacity
           /\ Head(channel) \in Commands
           /\ Head(channel).type = "Enqueue" => WellFormed(Head(channel).request)
           /\ Head(channel).type = "Shutdown" => flag
           /\ \A i \in DOMAIN channel' : i + 1 \in DOMAIN channel /\ channel'[i] = channel[i + 1]
<1>1. channel \in Seq(Commands) /\ Len(channel) <= Capacity /\ channel # <<>>
      /\ channel' = Tail(channel)
  BY DEF IndInv, TypeOK, Receive
<1>2. 1 \in DOMAIN channel /\ channel[1] = Head(channel)
  BY <1>1, ReceiveCommand
<1>3. Len(channel') = Len(channel) - 1 /\ channel' \in Seq(Commands) /\ Head(channel) \in Commands
  BY <1>1, ReceiveCommand
<1>4. Len(channel') <= Capacity
  BY <1>1, <1>3, CapacityAssumption
<1>5. \A i \in DOMAIN channel' : i + 1 \in DOMAIN channel /\ channel'[i] = channel[i + 1]
  BY <1>1, ReceiveCommand
<1> QED BY <1>2, <1>3, <1>4, <1>5 DEF IndInv, RequestsWellFormed, FlagFirst

\* A sent command is the only new one.
LEMMA SentChannel ==
    ASSUME IndInv, NEW x \in Commands, Len(channel) < Capacity, channel' = Append(channel, x)
    PROVE  /\ channel' \in Seq(Commands) /\ Len(channel') <= Capacity
           /\ \A i \in DOMAIN channel' : channel'[i] = x \/ (i \in DOMAIN channel /\ channel'[i] = channel[i])
<1>1. channel \in Seq(Commands)
  BY DEF IndInv, TypeOK
<1>2. channel' \in Seq(Commands) /\ Len(channel') = Len(channel) + 1 /\ Len(channel) \in Nat
  BY <1>1, AppendCommand
<1>3. Len(channel') <= Capacity
  BY <1>2, CapacityAssumption
<1>4. \A i \in DOMAIN channel' : channel'[i] = x \/ (i \in DOMAIN channel /\ channel'[i] = channel[i])
  BY <1>1, AppendCommand
<1> QED BY <1>2, <1>3, <1>4

\* The requests of a tick are well formed.
LEMMA AutomaticRequestTypes ==
    ASSUME NEW K \in SUBSET MonitorKeys, NEW R \in AutomaticRequests(K)
    PROVE  R \subseteq Requests /\ \A r \in R : WellFormed(r)
<1>1. ASSUME NEW r \in R PROVE r \in Requests /\ WellFormed(r)
  <2>1. PICK f \in [K -> FreshIds] :
           R = {[key |-> k, id |-> f[k], scope |-> UserScope] : k \in K}
    BY DEF AutomaticRequests
  <2>2. PICK k \in K : r = [key |-> k, id |-> f[k], scope |-> UserScope]
    BY <2>1
  <2>3. k \in Keys /\ f[k] \in Ids \cup {NoId} /\ UserScope \in Scopes
    BY <2>1 DEF Keys, FreshIds, Scopes
  <2> QED BY <2>2, <2>3 DEF Requests, WellFormed
<1> QED BY <1>1

LEMMA NextIndInv == IndInv /\ [Next]_vars => IndInv'
<1> SUFFICES ASSUME IndInv, [Next]_vars PROVE IndInv'
  OBVIOUS
<1> USE DEF manager, callers, jobs
<1>1. ASSUME RefreshMonitors PROVE IndInv'
  <2>a. PICK eligible \in SUBSET MonitorKeys, stale \in SUBSET MonitorKeys :
           /\ agenda' \in AutomaticRequests(stale)
           /\ registered' = Retained(eligible)
           /\ running' = running \cap registered'
           /\ pending' = [k \in Keys |-> IF k \in registered' THEN pending[k] ELSE NoRequest]
           /\ due' = due \cap registered'
    BY <1>1 DEF RefreshMonitors
  <2>b. agenda' \subseteq Requests /\ \A r \in agenda' : WellFormed(r)
    BY <2>a, AutomaticRequestTypes
  <2>c. registered' \subseteq Keys /\ running' = running
    BY <2>a DEF Retained, IndInv, TypeOK, Keys
  <2>d. pending' = pending
    <3>1. ASSUME NEW k \in Keys, k \notin registered' PROVE pending[k] = NoRequest
      BY <3>1, <2>a DEF Retained, IndInv, TypeOK, PendingOfRunning
    <3> QED BY <2>a, <3>1 DEF IndInv, TypeOK
  <2>e. /\ refresh' = "none" /\ phase' = "automatic" /\ ~stopped
        /\ UNCHANGED <<shutting_down, stopped, channel, flag, executing, callers, shutdown, owed>>
    BY <1>1 DEF RefreshMonitors, TickEnabled
  <2>1. TypeOK'
    BY <2>a, <2>b, <2>c, <2>d, <2>e DEF IndInv, TypeOK
  <2>2. OneTask'
    BY <2>c, <2>e, TasksStarted
  <2>3. RequestsWellFormed'
    BY <2>b, <2>e DEF IndInv, RequestsWellFormed
  <2>4. PendingOfRunning'
    BY <2>c, <2>d DEF IndInv, PendingOfRunning
  <2>5. QueuedWorkIsPending'
    BY <2>d, <2>e DEF IndInv, QueuedWorkIsPending
  <2>6. FlagFirst'
    BY <2>e DEF IndInv, FlagFirst
  <2>7. StoppedIsIdle'
    BY <2>e DEF IndInv, StoppedIsIdle
  <2> QED BY <2>1, <2>2, <2>3, <2>4, <2>5, <2>6, <2>7 DEF IndInv
<1>2. ASSUME RefreshSkipped PROVE IndInv'
  <2>1. TypeOK'
    BY <1>2 DEF IndInv, TypeOK, RefreshSkipped
  <2>2. OneTask'
    BY <1>2, TasksStarted DEF RefreshSkipped
  <2>3. RequestsWellFormed'
    BY <1>2 DEF IndInv, TypeOK, RequestsWellFormed, RefreshSkipped
  <2>4. PendingOfRunning'
    BY <1>2 DEF IndInv, PendingOfRunning, RefreshSkipped
  <2>5. QueuedWorkIsPending'
    BY <1>2 DEF IndInv, QueuedWorkIsPending, RefreshSkipped
  <2>6. FlagFirst'
    BY <1>2 DEF IndInv, FlagFirst, RefreshSkipped
  <2>7. StoppedIsIdle'
    BY <1>2 DEF IndInv, StoppedIsIdle, RefreshSkipped, TickEnabled
  <2> QED BY <2>1, <2>2, <2>3, <2>4, <2>5, <2>6, <2>7 DEF IndInv
<1>3. ASSUME ApplyAgenda PROVE IndInv'
  <2>a. PICK r \in agenda : apply_trigger(r) /\ agenda' = agenda \ {r}
    BY <1>3 DEF ApplyAgenda
  <2>b. r \in Requests /\ WellFormed(r)
    BY DEF IndInv, TypeOK, RequestsWellFormed
  <2>c. UNCHANGED <<refresh, shutting_down, phase, stopped, channel, flag, callers, shutdown>>
    BY <1>3 DEF ApplyAgenda
  <2>d. phase # "select" /\ ~stopped
    BY <2>a DEF IndInv, StoppedIsIdle
  <2>1. TypeOK'
    BY <2>a, <2>b, <2>c, TriggerTypes DEF IndInv, TypeOK
  <2>2. OneTask'
    BY <2>a, <2>b, <2>c, TriggerTasks, TasksStarted
  <2>3. RequestsWellFormed'
    BY <2>a, <2>c DEF IndInv, RequestsWellFormed
  <2>4. PendingOfRunning'
    BY <2>a, <2>b, <2>c, TriggerPending
  <2>5. QueuedWorkIsPending'
    BY <2>a, <2>b, <2>c, TriggerPending
  <2>6. FlagFirst'
    BY <1>3 DEF IndInv, FlagFirst, ApplyAgenda
  <2>7. StoppedIsIdle'
    BY <2>c, <2>d DEF IndInv, StoppedIsIdle
  <2> QED BY <2>1, <2>2, <2>3, <2>4, <2>5, <2>6, <2>7 DEF IndInv
<1>4. ASSUME CollectDue PROVE IndInv'
  <2>a. agenda' \subseteq Requests /\ \A r \in agenda' : WellFormed(r)
    <3> DEFINE app == {[key |-> k, id |-> NoId, scope |-> UserScope] : k \in due \cap AppKeys}
    <3>1. PICK stale \in SUBSET MonitorKeys :
             \E R \in AutomaticRequests(stale) : agenda' = app \cup R
      BY <1>4 DEF CollectDue
    <3>2. PICK R : /\ agenda' = app \cup R
                   /\ R \subseteq Requests /\ \A r \in R : WellFormed(r)
      BY <3>1, AutomaticRequestTypes
    <3>3. app \subseteq Requests /\ \A r \in app : WellFormed(r)
      BY DEF Requests, WellFormed, Keys, Scopes
    <3> QED BY <3>1, <3>2, <3>3
  <2>1. TypeOK'
    BY <1>4, <2>a DEF IndInv, TypeOK, CollectDue
  <2>2. OneTask'
    BY <1>4, TasksStarted DEF CollectDue
  <2>3. RequestsWellFormed'
    BY <1>4, <2>a DEF IndInv, RequestsWellFormed, CollectDue
  <2>4. PendingOfRunning'
    BY <1>4 DEF IndInv, PendingOfRunning, CollectDue
  <2>5. QueuedWorkIsPending'
    BY <1>4 DEF IndInv, QueuedWorkIsPending, CollectDue
  <2>6. FlagFirst'
    BY <1>4 DEF IndInv, FlagFirst, CollectDue
  <2>7. StoppedIsIdle'
    BY <1>4 DEF IndInv, StoppedIsIdle, CollectDue
  <2> QED BY <2>1, <2>2, <2>3, <2>4, <2>5, <2>6, <2>7 DEF IndInv
<1>5. ASSUME TickDone PROVE IndInv'
  <2>1. TypeOK'
    BY <1>5 DEF IndInv, TypeOK, TickDone
  <2>2. OneTask'
    BY <1>5, TasksStarted DEF TickDone
  <2>3. RequestsWellFormed'
    BY <1>5 DEF IndInv, TypeOK, RequestsWellFormed, TickDone
  <2>4. PendingOfRunning'
    BY <1>5 DEF IndInv, PendingOfRunning, TickDone
  <2>5. QueuedWorkIsPending'
    BY <1>5 DEF IndInv, QueuedWorkIsPending, TickDone
  <2>6. FlagFirst'
    BY <1>5 DEF IndInv, FlagFirst, TickDone
  <2>7. StoppedIsIdle'
    BY <1>5 DEF IndInv, StoppedIsIdle, TickDone
  <2> QED BY <2>1, <2>2, <2>3, <2>4, <2>5, <2>6, <2>7 DEF IndInv
<1>6. ASSUME HandleEnqueue PROVE IndInv'
  <2>a. /\ Receive("Enqueue") /\ ~stopped /\ channel # <<>> /\ channel' = Tail(channel)
        /\ Head(channel).type = "Enqueue"
        /\ UNCHANGED <<manager, flag, shutdown>>
    BY <1>6 DEF HandleEnqueue, Receive
  <2>b. PICK r \in Requests, c \in Callers :
           /\ WellFormed(r) /\ apply_trigger(r)
           /\ \/ /\ call' = [call EXCEPT ![c] = "idle"]
                 /\ asked' = [asked EXCEPT ![c] = NoRequest]
              \/ UNCHANGED callers
    <3>1. /\ Head(channel).request \in Requests /\ WellFormed(Head(channel).request)
          /\ Head(channel).caller \in Callers
      BY <2>a, ReceivedChannel, CommandTypes
    <3> QED BY <1>6, <3>1 DEF HandleEnqueue
  <2>c. /\ channel' \in Seq(Commands) /\ Len(channel') <= Capacity
        /\ \A i \in DOMAIN channel' : i + 1 \in DOMAIN channel /\ channel'[i] = channel[i + 1]
    BY <2>a, ReceivedChannel
  <2>d. call' \in [Callers -> {"idle", "sending", "waiting"}]
        /\ asked' \in [Callers -> Requests \cup {NoRequest}]
    BY <2>b DEF IndInv, TypeOK
  <2>1. TypeOK'
    BY <2>a, <2>b, <2>c, <2>d, TriggerTypes DEF IndInv, TypeOK
  <2>2. OneTask'
    BY <2>a, <2>b, TriggerTasks, TasksReceived
  <2>3. RequestsWellFormed'
    <3>1. \A i \in DOMAIN channel' :
             channel'[i].type = "Enqueue" => WellFormed(channel'[i].request)
      BY <2>c DEF IndInv, RequestsWellFormed
    <3>2. \A d \in Callers : (call'[d] # "idle" => asked'[d] # NoRequest)
                            /\ (asked'[d] # NoRequest => WellFormed(asked'[d]))
      BY <2>b DEF IndInv, TypeOK, RequestsWellFormed
    <3> QED BY <2>a, <3>1, <3>2 DEF IndInv, RequestsWellFormed
  <2>4. PendingOfRunning'
    BY <2>a, <2>b, TriggerPending
  <2>5. QueuedWorkIsPending'
    BY <2>a, <2>b, TriggerPending
  <2>6. FlagFirst'
    BY <2>a, <2>c DEF IndInv, FlagFirst
  <2>7. StoppedIsIdle'
    BY <2>a DEF IndInv, StoppedIsIdle
  <2> QED BY <2>1, <2>2, <2>3, <2>4, <2>5, <2>6, <2>7 DEF IndInv
<1>7. ASSUME HandleJobCompletion PROVE IndInv'
  <2>a. /\ Receive("JobCompleted") /\ ~stopped
        /\ UNCHANGED <<registered, manager, flag, callers, shutdown>>
    BY <1>7 DEF HandleJobCompletion, Receive
  <2>b. PICK k \in Keys : k = Head(channel).key
    BY <2>a, ReceivedChannel, CommandTypes DEF Receive
  <2>c. /\ channel' \in Seq(Commands) /\ Len(channel') <= Capacity
        /\ \A i \in DOMAIN channel' : i + 1 \in DOMAIN channel /\ channel'[i] = channel[i + 1]
    BY <2>a, ReceivedChannel
  <2>d. /\ pending[k] # NoRequest => pending[k].key = k
        /\ due' \subseteq due
        /\ pending' = [pending EXCEPT ![k] = NoRequest]
    BY <1>7, <2>b DEF HandleJobCompletion, IndInv, PendingOfRunning
  <2>e. \/ /\ pending[k] # NoRequest /\ running' = running
           /\ executing' = [executing EXCEPT ![k] = @ + 1]
           /\ owed' = [owed EXCEPT ![k] = {o \in @ : ~(o[1] = pending[k].id
                                              /\ Covers(pending[k].scope, o[2]))}]
        \/ /\ pending[k] = NoRequest \/ ~Accepting \/ k \notin registered
           /\ running' = running \ {k} /\ executing' = executing /\ owed' = owed
    BY <1>7, <2>b, <2>d DEF HandleJobCompletion, start_job_run
  <2>f. k \in registered
    BY <1>7, TasksCompleted, <2>a, <2>b, ReceiveCommand
       DEF IndInv, TypeOK, OneTask, CompletesAt, Receive
  <2>1. TypeOK'
    <3>1. owed' \in [Keys -> SUBSET ((Ids \cup {NoId}) \X Scopes)]
      BY SMTT(40), <2>e DEF IndInv, TypeOK
    <3>2. executing' \in [Keys -> Nat]
      <4>1. executing' = executing \/ executing' = [executing EXCEPT ![k] = @ + 1]
        BY <2>e
      <4>2. executing \in [Keys -> Nat]
        BY DEF IndInv, TypeOK
      <4> QED BY <4>1, <4>2
    <3>3. pending' \in [Keys -> Requests \cup {NoRequest}]
      BY <2>d DEF IndInv, TypeOK
    <3> QED BY <2>a, <2>c, <2>d, <2>e, <3>1, <3>2, <3>3 DEF IndInv, TypeOK
  <2>2. OneTask'
    BY <1>7, TasksCompleted
  <2>3. RequestsWellFormed'
    BY <2>a, <2>c DEF IndInv, RequestsWellFormed
  <2>4. PendingOfRunning'
    BY <2>d, <2>e DEF IndInv, TypeOK, PendingOfRunning
  <2>5. QueuedWorkIsPending'
    <3> SUFFICES ASSUME NEW j \in Keys, NEW o \in owed'[j], ~flag
                 PROVE  /\ pending'[j] # NoRequest /\ pending'[j].id = o[1]
                        /\ Covers(pending'[j].scope, o[2])
      BY <2>a DEF QueuedWorkIsPending
    <3>1. Accepting
      BY DEF Accepting, IndInv, FlagFirst
    <3>2. o \in owed[j]
      BY SMTT(40), <2>e DEF IndInv, TypeOK
    <3>3. pending[j] # NoRequest /\ pending[j].id = o[1] /\ Covers(pending[j].scope, o[2])
      BY <3>2 DEF IndInv, QueuedWorkIsPending
    <3>4. j # k
      BY <2>e, <2>f, <3>1, <3>3 DEF IndInv, TypeOK
    <3> QED BY <2>d, <3>3, <3>4 DEF IndInv, TypeOK
  <2>6. FlagFirst'
    BY <2>a, <2>c DEF IndInv, FlagFirst
  <2>7. StoppedIsIdle'
    BY <2>a DEF IndInv, StoppedIsIdle
  <2> QED BY <2>1, <2>2, <2>3, <2>4, <2>5, <2>6, <2>7 DEF IndInv
<1>8. ASSUME HandleShutdown PROVE IndInv'
  <2>a. /\ Receive("Shutdown") /\ ~stopped /\ channel # <<>> /\ channel' = Tail(channel)
        /\ Head(channel).type = "Shutdown"
    BY <1>8 DEF HandleShutdown, Receive
  <2>b. /\ channel' \in Seq(Commands) /\ Len(channel') <= Capacity /\ flag
        /\ \A i \in DOMAIN channel' : i + 1 \in DOMAIN channel /\ channel'[i] = channel[i + 1]
    BY <2>a, ReceivedChannel
  <2>c. /\ shutting_down' = TRUE /\ pending' = [k \in Keys |-> NoRequest]
        /\ UNCHANGED <<registered, running, due, refresh, phase, agenda, stopped, flag,
                       executing, callers, shutdown, owed>>
    BY <1>8 DEF HandleShutdown
  <2>1. TypeOK'
    BY <2>b, <2>c DEF IndInv, TypeOK
  <2>2. OneTask'
    BY <2>a, <2>c, TasksReceived
  <2>3. RequestsWellFormed'
    BY <2>b, <2>c DEF IndInv, RequestsWellFormed
  <2>4. PendingOfRunning'
    BY <2>c DEF PendingOfRunning
  <2>5. QueuedWorkIsPending'
    BY <2>b, <2>c DEF QueuedWorkIsPending
  <2>6. FlagFirst'
    BY <2>b, <2>c DEF IndInv, FlagFirst
  <2>7. StoppedIsIdle'
    BY <2>a, <2>c DEF IndInv, StoppedIsIdle
  <2> QED BY <2>1, <2>2, <2>3, <2>4, <2>5, <2>6, <2>7 DEF IndInv
<1>9. ASSUME Stop PROVE IndInv'
  <2>1. TypeOK'
    BY <1>9, CapacityAssumption DEF IndInv, TypeOK, Stop
  <2>2. OneTask'
    <3>1. \A k \in Keys : executing[k] = 0
      BY <1>9 DEF IndInv, OneTask, Stop
    <3>2. running' = {} /\ executing' = executing /\ channel' = <<>>
      BY <1>9 DEF Stop
    <3> QED BY <3>1, <3>2 DEF OneTask
  <2>3. RequestsWellFormed'
    BY <1>9 DEF IndInv, TypeOK, RequestsWellFormed, Stop
  <2>4. PendingOfRunning'
    BY <1>9 DEF IndInv, PendingOfRunning, Stop
  <2>5. QueuedWorkIsPending'
    BY <1>9 DEF IndInv, QueuedWorkIsPending, Stop
  <2>6. FlagFirst'
    BY <1>9 DEF IndInv, FlagFirst, Stop
  <2>7. StoppedIsIdle'
    BY <1>9 DEF IndInv, StoppedIsIdle, Stop
  <2> QED BY <2>1, <2>2, <2>3, <2>4, <2>5, <2>6, <2>7 DEF IndInv
<1>10. ASSUME NEW k \in Keys, ReportCompletion(k) PROVE IndInv'
  <2>a. k \in running /\ ~stopped
    BY <1>10 DEF ReportCompletion, IndInv, OneTask, TypeOK, StoppedIsIdle
  <2>b. PICK hint \in BOOLEAN :
           /\ channel' = Append(channel, [type |-> "JobCompleted", key |-> k, hint |-> hint])
           /\ Len(channel) < Capacity
    BY <1>10, <2>a DEF ReportCompletion
  <2>c. [type |-> "JobCompleted", key |-> k, hint |-> hint] \in Commands
    BY DEF Commands, CompletedCommands
  <2>d. /\ channel' \in Seq(Commands) /\ Len(channel') <= Capacity
        /\ \A i \in DOMAIN channel' : \/ channel'[i].type = "JobCompleted"
                                      \/ i \in DOMAIN channel /\ channel'[i] = channel[i]
    BY <2>b, <2>c, SentChannel
  <2>e. /\ executing[k] > 0 /\ executing' = [executing EXCEPT ![k] = @ - 1]
        /\ UNCHANGED <<jobs, manager, flag, callers, shutdown, owed>>
    BY <1>10 DEF ReportCompletion
  <2>1. TypeOK'
    BY <2>d, <2>e DEF IndInv, TypeOK
  <2>2. OneTask'
    BY <1>10, TasksReported
  <2>3. RequestsWellFormed'
    BY <2>d, <2>e DEF IndInv, RequestsWellFormed
  <2>4. PendingOfRunning'
    BY <1>10 DEF IndInv, PendingOfRunning, ReportCompletion
  <2>5. QueuedWorkIsPending'
    BY <1>10 DEF IndInv, QueuedWorkIsPending, ReportCompletion
  <2>6. FlagFirst'
    BY <2>d, <2>e DEF IndInv, FlagFirst
  <2>7. StoppedIsIdle'
    BY <2>a, <2>e DEF IndInv, StoppedIsIdle
  <2> QED BY <2>1, <2>2, <2>3, <2>4, <2>5, <2>6, <2>7 DEF IndInv
<1>11. ASSUME NEW c \in Callers, NEW k \in MonitorKeys \cup PriceKeys, NEW s \in Scopes, Call(c, k, s) PROVE IndInv'
  <2>a. PICK id \in FreshIds : asked' = [asked EXCEPT ![c] = [key |-> k, id |-> id, scope |-> s]]
    BY <1>11 DEF Call
  <2>b. /\ [key |-> k, id |-> id, scope |-> s] \in Requests
        /\ WellFormed([key |-> k, id |-> id, scope |-> s])
        /\ [key |-> k, id |-> id, scope |-> s] # NoRequest
    <3>1. id \in Ids \cup {NoId} /\ k \in Keys
      BY DEF FreshIds, Keys
    <3>2. [key |-> k, id |-> id, scope |-> s] \in Requests
      BY <3>1 DEF Requests
    <3> QED BY <1>11, <3>2, NoRequestAssumption DEF Call, WellFormed
  <2>1. TypeOK'
    BY <1>11, <2>a, <2>b DEF IndInv, TypeOK, Call
  <2>2. OneTask'
    BY <1>11, TasksStarted DEF Call
  <2>3. RequestsWellFormed'
    <3>1. \A d \in Callers : (call'[d] # "idle" => asked'[d] # NoRequest)
                            /\ (asked'[d] # NoRequest => WellFormed(asked'[d]))
      BY <1>11, <2>a, <2>b DEF IndInv, TypeOK, RequestsWellFormed, Call
    <3> QED BY <1>11, <3>1 DEF IndInv, RequestsWellFormed, Call
  <2>4. PendingOfRunning'
    BY <1>11 DEF IndInv, PendingOfRunning, Call
  <2>5. QueuedWorkIsPending'
    BY <1>11 DEF IndInv, QueuedWorkIsPending, Call
  <2>6. FlagFirst'
    BY <1>11 DEF IndInv, FlagFirst, Call
  <2>7. StoppedIsIdle'
    BY <1>11 DEF IndInv, StoppedIsIdle, Call
  <2> QED BY <2>1, <2>2, <2>3, <2>4, <2>5, <2>6, <2>7 DEF IndInv
<1>12. ASSUME NEW c \in Callers, Send(c) PROVE IndInv'
  <2>a. asked[c] \in Requests /\ WellFormed(asked[c])
    BY <1>12 DEF Send, IndInv, TypeOK, RequestsWellFormed
  <2>b. [type |-> "Enqueue", caller |-> c, request |-> asked[c]] \in Commands
    BY <2>a DEF Commands, EnqueueCommands
  <2>c. /\ channel' = Append(channel, [type |-> "Enqueue", caller |-> c, request |-> asked[c]])
        /\ Len(channel) < Capacity /\ ~stopped
        /\ UNCHANGED <<jobs, manager, flag, executing, asked, shutdown, owed>>
        /\ call[c] = "sending" /\ call' = [call EXCEPT ![c] = "waiting"]
    BY <1>12 DEF Send
  <2>d. /\ channel' \in Seq(Commands) /\ Len(channel') <= Capacity
        /\ \A i \in DOMAIN channel' :
              \/ channel'[i].type = "Enqueue" /\ channel'[i].request = asked[c]
              \/ i \in DOMAIN channel /\ channel'[i] = channel[i]
    BY <2>b, <2>c, SentChannel
  <2>1. TypeOK'
    BY <2>c, <2>d DEF IndInv, TypeOK
  <2>2. OneTask'
    BY <2>b, <2>c, TasksSent
  <2>3. RequestsWellFormed'
    BY <2>a, <2>c, <2>d DEF IndInv, TypeOK, RequestsWellFormed
  <2>4. PendingOfRunning'
    BY <1>12 DEF IndInv, PendingOfRunning, Send
  <2>5. QueuedWorkIsPending'
    BY <1>12 DEF IndInv, QueuedWorkIsPending, Send
  <2>6. FlagFirst'
    BY <2>c, <2>d DEF IndInv, FlagFirst
  <2>7. StoppedIsIdle'
    BY <2>c DEF IndInv, StoppedIsIdle
  <2> QED BY <2>1, <2>2, <2>3, <2>4, <2>5, <2>6, <2>7 DEF IndInv
<1>13. ASSUME NEW c \in Callers, CallDropped(c) \/ CallCancelled(c) PROVE IndInv'
  <2>1. TypeOK'
    BY ZenonT(40), <1>13 DEF IndInv, TypeOK, CallDropped, CallCancelled
  <2>2. OneTask'
    BY <1>13, TasksStarted DEF CallDropped, CallCancelled
  <2>3. RequestsWellFormed'
    BY <1>13 DEF IndInv, TypeOK, RequestsWellFormed, CallDropped, CallCancelled
  <2>4. PendingOfRunning'
    BY <1>13 DEF IndInv, PendingOfRunning, CallDropped, CallCancelled
  <2>5. QueuedWorkIsPending'
    BY <1>13 DEF IndInv, QueuedWorkIsPending, CallDropped, CallCancelled
  <2>6. FlagFirst'
    BY <1>13 DEF IndInv, FlagFirst, CallDropped, CallCancelled
  <2>7. StoppedIsIdle'
    BY <1>13 DEF IndInv, StoppedIsIdle, CallDropped, CallCancelled
  <2> QED BY <2>1, <2>2, <2>3, <2>4, <2>5, <2>6, <2>7 DEF IndInv
<1>14. ASSUME BeginShutdown PROVE IndInv'
  <2>1. TypeOK'
    BY <1>14 DEF IndInv, TypeOK, BeginShutdown
  <2>2. OneTask'
    BY <1>14, TasksStarted DEF BeginShutdown
  <2>3. RequestsWellFormed'
    BY <1>14 DEF IndInv, TypeOK, RequestsWellFormed, BeginShutdown
  <2>4. PendingOfRunning'
    BY <1>14 DEF IndInv, PendingOfRunning, BeginShutdown
  <2>5. QueuedWorkIsPending'
    BY <1>14 DEF IndInv, QueuedWorkIsPending, BeginShutdown
  <2>6. FlagFirst'
    BY <1>14 DEF IndInv, FlagFirst, BeginShutdown
  <2>7. StoppedIsIdle'
    BY <1>14 DEF IndInv, StoppedIsIdle, BeginShutdown
  <2> QED BY <2>1, <2>2, <2>3, <2>4, <2>5, <2>6, <2>7 DEF IndInv
<1>15. ASSUME SendShutdown PROVE IndInv'
  <2>a. /\ channel' = Append(channel, ShutdownCommand)
        /\ Len(channel) < Capacity /\ ~stopped /\ flag
        /\ shutdown' = "waiting"
        /\ UNCHANGED <<jobs, manager, flag, executing, callers, owed>>
    BY <1>15 DEF SendShutdown, IndInv, FlagFirst
  <2>b. ShutdownCommand \in Commands /\ ShutdownCommand.type = "Shutdown"
    BY DEF Commands, ShutdownCommand
  <2>c. /\ channel' \in Seq(Commands) /\ Len(channel') <= Capacity
        /\ \A i \in DOMAIN channel' : \/ channel'[i].type = "Shutdown"
                                      \/ i \in DOMAIN channel /\ channel'[i] = channel[i]
    BY <2>a, <2>b, SentChannel
  <2>1. TypeOK'
    BY <2>a, <2>c DEF IndInv, TypeOK
  <2>2. OneTask'
    BY <2>a, <2>b, TasksSent
  <2>3. RequestsWellFormed'
    BY <2>a, <2>c DEF IndInv, RequestsWellFormed
  <2>4. PendingOfRunning'
    BY <1>15 DEF IndInv, PendingOfRunning, SendShutdown
  <2>5. QueuedWorkIsPending'
    BY <1>15 DEF IndInv, QueuedWorkIsPending, SendShutdown
  <2>6. FlagFirst'
    BY <2>a DEF FlagFirst
  <2>7. StoppedIsIdle'
    BY <2>a DEF IndInv, StoppedIsIdle
  <2> QED BY <2>1, <2>2, <2>3, <2>4, <2>5, <2>6, <2>7 DEF IndInv
<1>16. ASSUME ShutdownTimesOut PROVE IndInv'
  <2>1. TypeOK'
    BY <1>16 DEF IndInv, TypeOK, ShutdownTimesOut
  <2>2. OneTask'
    BY <1>16, TasksStarted DEF ShutdownTimesOut
  <2>3. RequestsWellFormed'
    BY <1>16 DEF IndInv, TypeOK, RequestsWellFormed, ShutdownTimesOut
  <2>4. PendingOfRunning'
    BY <1>16 DEF IndInv, PendingOfRunning, ShutdownTimesOut
  <2>5. QueuedWorkIsPending'
    BY <1>16 DEF IndInv, QueuedWorkIsPending, ShutdownTimesOut
  <2>6. FlagFirst'
    BY <1>16 DEF IndInv, FlagFirst, ShutdownTimesOut
  <2>7. StoppedIsIdle'
    BY <1>16 DEF IndInv, StoppedIsIdle, ShutdownTimesOut
  <2> QED BY <2>1, <2>2, <2>3, <2>4, <2>5, <2>6, <2>7 DEF IndInv
<1>17. ASSUME NEW k \in Keys, BecomesDue(k) PROVE IndInv'
  <2>1. TypeOK'
    BY <1>17 DEF IndInv, TypeOK, BecomesDue
  <2>2. OneTask'
    BY <1>17, TasksStarted DEF BecomesDue
  <2>3. RequestsWellFormed'
    BY <1>17 DEF IndInv, TypeOK, RequestsWellFormed, BecomesDue
  <2>4. PendingOfRunning'
    BY <1>17 DEF IndInv, PendingOfRunning, BecomesDue
  <2>5. QueuedWorkIsPending'
    BY <1>17 DEF IndInv, QueuedWorkIsPending, BecomesDue
  <2>6. FlagFirst'
    BY <1>17 DEF IndInv, FlagFirst, BecomesDue
  <2>7. StoppedIsIdle'
    BY <1>17 DEF IndInv, StoppedIsIdle, BecomesDue
  <2> QED BY <2>1, <2>2, <2>3, <2>4, <2>5, <2>6, <2>7 DEF IndInv
<1>18. ASSUME CooldownElapses PROVE IndInv'
  <2>1. TypeOK'
    BY <1>18 DEF IndInv, TypeOK, CooldownElapses
  <2>2. OneTask'
    BY <1>18, TasksStarted DEF CooldownElapses
  <2>3. RequestsWellFormed'
    BY <1>18 DEF IndInv, TypeOK, RequestsWellFormed, CooldownElapses
  <2>4. PendingOfRunning'
    BY <1>18 DEF IndInv, PendingOfRunning, CooldownElapses
  <2>5. QueuedWorkIsPending'
    BY <1>18 DEF IndInv, QueuedWorkIsPending, CooldownElapses
  <2>6. FlagFirst'
    BY <1>18 DEF IndInv, FlagFirst, CooldownElapses
  <2>7. StoppedIsIdle'
    BY <1>18 DEF IndInv, StoppedIsIdle, CooldownElapses
  <2> QED BY <2>1, <2>2, <2>3, <2>4, <2>5, <2>6, <2>7 DEF IndInv
<1>19. ASSUME Exit \/ UNCHANGED vars PROVE IndInv'
  <2>1. TypeOK'
    BY <1>19 DEF IndInv, TypeOK, vars, Exit
  <2>2. OneTask'
    BY <1>19, TasksStarted DEF vars, Exit
  <2>3. RequestsWellFormed'
    BY <1>19 DEF IndInv, TypeOK, RequestsWellFormed, vars, Exit
  <2>4. PendingOfRunning'
    BY <1>19 DEF IndInv, PendingOfRunning, vars, Exit
  <2>5. QueuedWorkIsPending'
    BY <1>19 DEF IndInv, QueuedWorkIsPending, vars, Exit
  <2>6. FlagFirst'
    BY <1>19 DEF IndInv, FlagFirst, vars, Exit
  <2>7. StoppedIsIdle'
    BY <1>19 DEF IndInv, StoppedIsIdle, vars, Exit
  <2> QED BY <2>1, <2>2, <2>3, <2>4, <2>5, <2>6, <2>7 DEF IndInv
<1> QED
  BY <1>1, <1>2, <1>3, <1>4, <1>5, <1>6, <1>7, <1>8, <1>9, <1>10, <1>11, <1>12, <1>13, <1>14, <1>15, <1>16, <1>17, <1>18, <1>19
  DEF Next, ManagerStep, Tick, Command, CallerStep

-----------------------------------------------------------------------------
(* Theorems *)

\* IndInv holds in every reachable state of the task manager.
THEOREM TasksInductive == Spec => []IndInv
  BY InitIndInv, NextIndInv, PTL DEF Spec

\* The variables stay within their types: in particular the map of jobs has an
\* entry for every running job, and the channel its capacity.
THEOREM TasksTypeCorrect == Spec => []TypeOK
<1>1. IndInv => TypeOK
  BY DEF IndInv
<1> QED BY <1>1, TasksInductive, PTL

\* No two runs of a job overlap: start_job_run is only reached for a job
\* without a task, whatever ticks, commands and completions interleave.
THEOREM RunsNeverOverlap == Spec => []SingleFlight
<1>1. IndInv => SingleFlight
  <2> SUFFICES ASSUME IndInv, NEW k \in Keys
               PROVE  executing[k] + Cardinality({i \in DOMAIN channel : CompletesAt(i, k)})
                        = IF k \in running THEN 1 ELSE 0
    BY DEF SingleFlight
  <2> DEFINE completions == {i \in DOMAIN channel : CompletesAt(i, k)}
  <2>1. CASE completions = {}
    <3>1. Cardinality(completions) = 0
      BY <2>1, FS_EmptySet
    <3>2. executing[k] = IF k \in running THEN 1 ELSE 0
      BY <2>1 DEF IndInv, OneTask
    <3> QED BY <3>1, <3>2
  <2>2. CASE completions # {}
    <3>1. PICK i \in DOMAIN channel : completions = {i}
      BY <2>2 DEF IndInv, OneTask
    <3>2. Cardinality(completions) = 1
      BY <3>1, FS_Singleton
    <3>3. executing[k] = 0 /\ k \in running
      BY <3>1 DEF IndInv, OneTask
    <3> QED BY <3>2, <3>3
  <2> QED BY <2>1, <2>2
<1> QED BY <1>1, TasksInductive, PTL

\* Coalescing loses nothing: the pending rerun of compute_trigger_transition has
\* the run id and covers the scope of every request answered AcceptedQueued.
THEOREM CoalescingKeepsWork == Spec => []QueuedWorkIsPending
<1>1. IndInv => QueuedWorkIsPending
  BY DEF IndInv
<1> QED BY <1>1, TasksInductive, PTL

\* main.rs closes the databases with no job executing.
THEOREM DrainIsComplete == Spec => []DrainedMeansQuiet
<1>1. IndInv => DrainedMeansQuiet
  BY DEF IndInv, StoppedIsIdle, OneTask, DrainedMeansQuiet
<1> QED BY <1>1, TasksInductive, PTL

\* After TASK_MANAGER_SHUTTING_DOWN is stored no job starts.
THEOREM FlagStopsStarts == Spec => NothingStartsAfterFlag
<1>1. IndInv /\ [Next]_vars => [flag => \A k \in Keys : executing'[k] <= executing[k]]_vars
  <2> SUFFICES ASSUME IndInv, Next, flag, NEW k \in Keys
               PROVE  executing'[k] <= executing[k]
    OBVIOUS
  <2>0. executing \in [Keys -> Nat] /\ ~Accepting
    BY DEF IndInv, TypeOK, Accepting
  <2>1. ASSUME NEW j \in Keys, ReportCompletion(j) PROVE executing'[k] <= executing[k]
    BY <2>0, <2>1 DEF ReportCompletion
  <2>2. ASSUME executing' = executing PROVE executing'[k] <= executing[k]
    BY <2>0, <2>2
  <2>3. CASE ManagerStep
    BY <2>0, <2>2, <2>3 DEF ManagerStep, Tick, Command, RefreshMonitors, RefreshSkipped,
       ApplyAgenda, CollectDue, TickDone, HandleEnqueue, HandleJobCompletion, HandleShutdown,
       Stop, apply_trigger
  <2>4. ASSUME NEW c \in Callers, CallerStep(c) PROVE executing' = executing
    BY <2>4 DEF CallerStep, Call, Send, CallDropped, CallCancelled
  <2>5. CASE BeginShutdown \/ SendShutdown \/ ShutdownTimesOut \/ Exit \/ CooldownElapses
    BY <2>2, <2>5 DEF BeginShutdown, SendShutdown, ShutdownTimesOut, Exit, CooldownElapses, vars
  <2>6. ASSUME NEW j \in Keys, BecomesDue(j) PROVE executing' = executing
    BY <2>6 DEF BecomesDue
  <2> QED BY <2>1, <2>2, <2>3, <2>4, <2>5, <2>6 DEF Next
<1> QED BY <1>1, TasksInductive, PTL DEF Spec, NothingStartsAfterFlag
=============================================================================
