--------------------------- MODULE TaskLifecycle ---------------------------
(***************************************************************************)
(* A task of the gateway from its message to its record on disk:           *)
(* QueueingAgentExecutor (slots and queue), OpenClawAgentExecutor (what it *)
(* publishes), FileTaskStore, recoverStaleTasks at start and               *)
(* runTaskCleanup, with crashes.  HTTP listens before the recovery runs.   *)
(*                                                                         *)
(* The request handler of the A2A SDK is external: it has one event bus    *)
(* per task, saves the published events in order, drops what is published  *)
(* after finished(), and refuses to cancel a task whose record is          *)
(* terminal.  Every message opens a task of its own.                       *)
(***************************************************************************)
EXTENDS Naturals, Sequences, FiniteSets

CONSTANTS
    Tasks,
    Limits,         \* the values of config.limits that are tried
    MaxEvents,      \* bound: events of a task that wait to be saved when a heartbeat is added
    MaxCrashes,     \* bound: crashes of the gateway
    Expiring,       \* bound: the tasks whose TTL may pass
    None

ASSUME TaskConstants ==
    /\ IsFiniteSet(Tasks) /\ None \notin Tasks
    /\ Limits \subseteq [maxConcurrentTasks : Nat \ {0}, maxQueuedTasks : Nat]
    /\ MaxEvents \in Nat /\ MaxCrashes \in Nat

VARIABLES
    limits,
    up,         \* "down", "listening" (recovery not finished) or "ready"
    exec,       \* where the executor has the task
    queue,      \* the queued tasks, oldest first
    activeTasks,
    bus,        \* per task: events to be saved, and whether finished() is still to come
    context,    \* taskContextByTaskId
    rec,        \* disk: the state in the task's file and whether its TTL is over
    scan,       \* the recovery or clean-up that is running
    early,      \* history: tasks that peers touched before the recovery was finished
    crashes

executor == <<exec, queue, activeTasks, bus, context>>
vars == <<limits, up, executor, rec, scan, early, crashes>>

TerminalStates == {"completed", "failed", "canceled", "rejected"}
States == TerminalStates \cup {"submitted", "working"}
Records == [state : States, old : BOOLEAN]

ASSUME NoneIsNoRecord == None \notin Records

(* todo: what is left of listAll(); got: the task loaded and about to be      *)
(* changed.                                                                   *)
NoScan == [job |-> "none", todo |-> {}, got |-> None]

TypeOK ==
    /\ limits \in Limits
    /\ up \in {"down", "listening", "ready"}
    /\ exec \in [Tasks -> {"new", "queued", "running", "over"}]
    /\ queue \in Seq(Tasks)
    /\ activeTasks \in 0..limits.maxConcurrentTasks
    /\ bus \in [Tasks -> [events : Seq(States), open : BOOLEAN]]
    /\ context \subseteq Tasks
    /\ rec \in [Tasks -> Records \cup {None}]
    /\ scan \in [job : {"none", "recover", "clean"}, todo : SUBSET Tasks,
                 got : Tasks \cup {None}]
    /\ early \subseteq Tasks
    /\ crashes \in 0..MaxCrashes

Closed == [events |-> <<>>, open |-> FALSE]

Init ==
    /\ limits \in Limits
    /\ up = "down"
    /\ exec = [t \in Tasks |-> "new"]
    /\ queue = <<>> /\ activeTasks = 0
    /\ bus = [t \in Tasks |-> Closed]
    /\ context = {}
    /\ rec = [t \in Tasks |-> None]
    /\ scan = NoScan
    /\ early = {} /\ crashes = 0

Terminal(t) == rec[t] # None /\ rec[t].state \in TerminalStates
Stored == {t \in Tasks : rec[t] # None}
Old == {t \in Stored : rec[t].old}
Live(t) == exec[t] \in {"queued", "running"}

-----------------------------------------------------------------------------
(* The executor                                                             *)

(* publish(): nobody listens once finished() was called.                     *)
Published(b, s) == IF b.open THEN [b EXCEPT !.events = Append(@, s)] ELSE b
Finished(b, s) == [Published(b, s) EXCEPT !.open = FALSE]

Touch(t) == early' = IF up = "listening" THEN early \cup {t} ELSE early

(* runEntry up to the dispatch to the agent: a slot, and "working".          *)
Run(t) ==
    /\ exec' = [exec EXCEPT ![t] = "running"]
    /\ activeTasks' = activeTasks + 1
    /\ bus' = [bus EXCEPT ![t] = [events |-> <<"working">>, open |-> TRUE]]
    /\ context' = context \cup {t}
    /\ UNCHANGED queue

Reject(t) ==
    /\ exec' = [exec EXCEPT ![t] = "over"]
    /\ bus' = [bus EXCEPT ![t] = [events |-> <<"rejected">>, open |-> FALSE]]
    /\ UNCHANGED <<queue, activeTasks, context>>

Enqueue(t) ==
    /\ exec' = [exec EXCEPT ![t] = "queued"]
    /\ queue' = Append(queue, t)
    /\ bus' = [bus EXCEPT ![t] = [events |-> <<"submitted">>, open |-> TRUE]]
    /\ UNCHANGED <<activeTasks, context>>

Execute(t) ==
    /\ up # "down" /\ exec[t] = "new"
    /\ Touch(t)
    /\ IF activeTasks < limits.maxConcurrentTasks THEN Run(t)
       ELSE IF Len(queue) >= limits.maxQueuedTasks THEN Reject(t) ELSE Enqueue(t)
    /\ UNCHANGED <<up, rec, scan, crashes, limits>>

(* Slip: the queue is not drained.                                           *)
SettleWithoutDrain(t, s) ==
    /\ exec[t] = "running"
    /\ exec' = [exec EXCEPT ![t] = "over"]
    /\ bus' = [bus EXCEPT ![t] = Finished(bus[t], s)]
    /\ activeTasks' = activeTasks - 1
    /\ UNCHANGED <<queue, context>>
    /\ UNCHANGED <<up, rec, scan, early, crashes, limits>>

(* The dispatch returns: the last event, finished(), the slot, drainQueue.   *)
(* Tasks are queued only while all slots are taken (SlotsExact), so its loop *)
(* starts at most the oldest of them.                                        *)
Settle(t, s) ==
    /\ exec[t] = "running"
    /\ IF queue = <<>>
       THEN /\ exec' = [exec EXCEPT ![t] = "over"]
            /\ bus' = [bus EXCEPT ![t] = Finished(bus[t], s)]
            /\ activeTasks' = activeTasks - 1
            /\ UNCHANGED <<queue, context>>
       ELSE /\ exec' = [exec EXCEPT ![t] = "over", ![Head(queue)] = "running"]
            /\ bus' = [bus EXCEPT ![t] = Finished(bus[t], s),
                                  ![Head(queue)] = Published(bus[Head(queue)], "working")]
            /\ queue' = Tail(queue)
            /\ context' = context \cup {Head(queue)}
            /\ UNCHANGED activeTasks
    /\ UNCHANGED <<up, rec, scan, early, crashes, limits>>

Heartbeat(t) ==
    /\ exec[t] = "running" /\ bus[t].open /\ Len(bus[t].events) < MaxEvents
    /\ bus' = [bus EXCEPT ![t] = Published(bus[t], "working")]
    /\ UNCHANGED <<exec, queue, activeTasks, context>>
    /\ UNCHANGED <<up, rec, scan, early, crashes, limits>>

(* queue.splice(i, 1)                                                        *)
Splice(q, i) == [j \in 1..(Len(q) - 1) |-> IF j < i THEN q[j] ELSE q[j + 1]]

CancelQueued(t) ==
    /\ exec[t] = "queued"
    /\ \E i \in 1..Len(queue) : queue[i] = t /\ queue' = Splice(queue, i)
    /\ exec' = [exec EXCEPT ![t] = "over"]
    /\ bus' = [bus EXCEPT ![t] = Finished(bus[t], "canceled")]
    /\ UNCHANGED <<activeTasks, context, rec>>

(* Slip: canceling a running task frees its slot, and so does its end.       *)
CancelRunningFreesSlot(t) ==
    /\ exec[t] # "queued" /\ (bus[t].open \/ bus[t].events # <<>>)
    /\ bus' = [bus EXCEPT ![t] = IF t \in context THEN Finished(bus[t], "canceled")
                                 ELSE [bus[t] EXCEPT !.open = FALSE]]
    /\ context' = context \ {t}
    /\ activeTasks' = IF exec[t] = "running" /\ activeTasks > 0 THEN activeTasks - 1 ELSE activeTasks
    /\ UNCHANGED <<exec, queue, rec>>

(* OpenClawAgentExecutor.cancelTask: the agent is not stopped and the run    *)
(* keeps its slot until it returns.                                          *)
CancelRunning(t) ==
    /\ exec[t] # "queued" /\ (bus[t].open \/ bus[t].events # <<>>)
    /\ bus' = [bus EXCEPT ![t] = IF t \in context THEN Finished(bus[t], "canceled")
                                 ELSE [bus[t] EXCEPT !.open = FALSE]]
    /\ context' = context \ {t}
    /\ UNCHANGED <<exec, queue, activeTasks, rec>>

(* The SDK finds no event bus, as for a task of a previous run.              *)
CancelStored(t) ==
    /\ exec[t] # "queued" /\ ~bus[t].open /\ bus[t].events = <<>>
    /\ rec' = [rec EXCEPT ![t] = [state |-> "canceled", old |-> FALSE]]
    /\ UNCHANGED executor

Cancel(t) ==
    /\ up # "down" /\ rec[t] # None /\ ~Terminal(t)
    /\ Touch(t)
    /\ CancelQueued(t) \/ CancelRunning(t) \/ CancelStored(t)
    /\ UNCHANGED <<up, scan, crashes, limits>>

(* The SDK's consumer and FileTaskStore.save: rename makes it one step.      *)
Save(t) ==
    /\ bus[t].events # <<>>
    /\ rec' = [rec EXCEPT ![t] = [state |-> Head(bus[t].events), old |-> FALSE]]
    /\ bus' = [bus EXCEPT ![t].events = Tail(@)]
    /\ UNCHANGED <<exec, queue, activeTasks, context>>
    /\ UNCHANGED <<up, scan, early, crashes, limits>>

-----------------------------------------------------------------------------
(* Start, recovery, clean-up                                                *)

Rest == UNCHANGED <<executor, crashes, limits>>

(* HTTP listens, and then recoverStaleTasks calls listAll.                   *)
Listen ==
    /\ up = "down" /\ up' = "listening"
    /\ UNCHANGED <<rec, scan, early>> /\ Rest

RecoverList ==
    /\ up = "listening" /\ scan.job = "none"
    /\ scan' = [NoScan EXCEPT !.job = "recover", !.todo = Stored]
    /\ UNCHANGED <<up, rec, early>> /\ Rest

Loads(job, t) == scan.job = job /\ scan.got = None /\ t \in scan.todo

(* Slip: the recovery takes only running tasks for stale.                    *)
RecoverLoadWorking(t) ==
    /\ Loads("recover", t)
    /\ scan' = [scan EXCEPT !.todo = @ \ {t},
                            !.got = IF rec[t] # None /\ rec[t].state = "working" THEN t ELSE None]
    /\ UNCHANGED <<up, rec, early>> /\ Rest

RecoverLoad(t) ==
    /\ Loads("recover", t)
    /\ scan' = [scan EXCEPT !.todo = @ \ {t},
                            !.got = IF rec[t] = None \/ Terminal(t) THEN None ELSE t]
    /\ UNCHANGED <<up, rec, early>> /\ Rest

RecoverSave ==
    /\ scan.job = "recover" /\ scan.got # None
    /\ rec' = [rec EXCEPT ![scan.got] = [state |-> "failed", old |-> FALSE]]
    /\ scan' = [scan EXCEPT !.got = None]
    /\ UNCHANGED <<up, early>> /\ Rest

(* doCleanup: Date.now() is read first, and only one clean-up runs.  Records  *)
(* that are not old by then are loaded for nothing and left out here.        *)
Cleanup == scan' = [NoScan EXCEPT !.job = "clean", !.todo = Old]

RecoverDone ==
    /\ scan.job = "recover" /\ scan.got = None /\ scan.todo = {}
    /\ up' = "ready" /\ Cleanup
    /\ UNCHANGED <<rec, early>> /\ Rest

CleanupTimer ==
    /\ up = "ready" /\ scan.job = "none" /\ Old # {}
    /\ Cleanup
    /\ UNCHANGED <<up, rec, early>> /\ Rest

(* Slip: the clean-up forgets to leave running tasks alone.                  *)
CleanupLoadAny(t) ==
    /\ Loads("clean", t)
    /\ scan' = [scan EXCEPT !.todo = @ \ {t}, !.got = IF t \in Old THEN t ELSE None]
    /\ UNCHANGED <<up, rec, early>> /\ Rest

CleanupLoad(t) ==
    /\ Loads("clean", t)
    /\ scan' = [scan EXCEPT !.todo = @ \ {t},
                            !.got = IF Terminal(t) /\ t \in Old THEN t ELSE None]
    /\ UNCHANGED <<up, rec, early>> /\ Rest

CleanupDelete ==
    /\ scan.job = "clean" /\ scan.got # None
    /\ rec' = [rec EXCEPT ![scan.got] = None]
    /\ scan' = [scan EXCEPT !.got = None]
    /\ UNCHANGED <<up, early>> /\ Rest

CleanupDone ==
    /\ scan.job = "clean" /\ scan.got = None /\ scan.todo = {}
    /\ scan' = NoScan
    /\ UNCHANGED <<up, rec, early>> /\ Rest

-----------------------------------------------------------------------------
(* Environment                                                              *)

(* The TTL of a record passes.                                               *)
Age(t) ==
    /\ t \in Expiring /\ rec[t] # None /\ ~rec[t].old
    /\ rec' = [rec EXCEPT ![t].old = TRUE]
    /\ UNCHANGED <<up, scan, early>> /\ Rest

(* The memory of the process is lost, the tasks it held are over.            *)
Crash ==
    /\ up # "down" /\ crashes < MaxCrashes
    /\ up' = "down" /\ crashes' = crashes + 1
    /\ exec' = [t \in Tasks |-> IF exec[t] = "new" THEN "new" ELSE "over"]
    /\ queue' = <<>> /\ activeTasks' = 0
    /\ bus' = [t \in Tasks |-> Closed]
    /\ context' = {} /\ scan' = NoScan /\ early' = {}
    /\ UNCHANGED <<rec, limits>>

RecoverStep == RecoverList \/ RecoverSave \/ RecoverDone \/ \E t \in Tasks : RecoverLoad(t)
CleanupStep == CleanupDelete \/ CleanupDone \/ \E t \in Tasks : CleanupLoad(t)
SettleTask(t) == \E s \in {"completed", "failed"} : Settle(t, s)

Next ==
    \/ \E t \in Tasks : Execute(t) \/ SettleTask(t) \/ Heartbeat(t) \/ Cancel(t) \/ Save(t) \/ Age(t)
    \/ Listen \/ RecoverStep \/ CleanupTimer \/ CleanupStep \/ Crash

Spec == Init /\ [][Next]_vars

(* Disk operations return, a dispatch to the agent ends (it has a timeout),  *)
(* and a gateway that is down is started again.                              *)
FairSpec ==
    /\ Spec
    /\ \A t \in Tasks : WF_vars(SettleTask(t)) /\ WF_vars(Save(t))
    /\ WF_vars(Listen) /\ WF_vars(RecoverStep) /\ WF_vars(CleanupStep)

-----------------------------------------------------------------------------
(* Properties                                                               *)

(* The slot counter is the number of running tasks after any sequence of     *)
(* ends, cancels and crashes; tasks wait only while every slot is taken,     *)
(* each of them once, and never more than the limit.                         *)
SlotsExact ==
    /\ activeTasks = Cardinality({t \in Tasks : exec[t] = "running"})
    /\ queue # <<>> => activeTasks = limits.maxConcurrentTasks
    /\ Len(queue) <= limits.maxQueuedTasks
    /\ \A t \in Tasks : exec[t] = "queued" <=> \E i \in 1..Len(queue) : queue[i] = t
    /\ \A i, j \in 1..Len(queue) : queue[i] = queue[j] => i = j

(* Once the gateway is ready no record is left hanging: a record that is not *)
(* terminal belongs to a task that this process still runs or queues, or     *)
(* whose last event is being saved.  Crashes may have happened anywhere.     *)
NoStaleTask ==
    up = "ready" => \A t \in Tasks : rec[t] # None /\ ~Terminal(t) =>
        Live(t) \/ bus[t].events # <<>>

(* The outcome of a task is final: apart from tasks that peers touched while *)
(* the recovery was running, a terminal record changes only by expiring, and *)
(* only a terminal record is deleted.                                        *)
RecordsFinal ==
    [][\A t \in Tasks \ early :
        /\ rec[t] # None /\ rec'[t] = None => Terminal(t) /\ rec[t].old
        /\ Terminal(t) /\ rec'[t] # None => rec'[t].state = rec[t].state]_vars

(* Every task ends: sooner or later its record is terminal or gone, for      *)
(* good, whatever is queued, canceled or lost in crashes.                    *)
TasksDecided == \A t \in Tasks : <>[](exec[t] # "new" /\ rec[t] # None => Terminal(t))

(* index.ts: "Recover tasks stuck in non-terminal states from a previous     *)
(* run": the recovery fails no task that this process is running.            *)
RecoveryOfPreviousRun == [][RecoverSave => ~Live(scan.got)]_vars
=============================================================================
