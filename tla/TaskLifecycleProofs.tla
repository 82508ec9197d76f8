------------------------ MODULE TaskLifecycleProofs ------------------------
(***************************************************************************)
(* Safety of TaskLifecycle for any number of tasks, any limits and any     *)
(* number of crashes: the slots are exact, no record is left hanging once  *)
(* the gateway is ready, and outcomes are final.                           *)
(***************************************************************************)
EXTENDS TaskLifecycle, FiniteSetTheorems, SequenceTheorems, TLAPS

(***************************************************************************)
(* The type, in the parts that actions change together                     *)
(***************************************************************************)
ExecStates == {"new", "queued", "running", "over"}
BusRecord == [events : Seq(States), open : BOOLEAN]
Files == Records \cup {None}

SlotType ==
    /\ limits \in Limits
    /\ exec \in [Tasks -> ExecStates]
    /\ queue \in Seq(Tasks)
    /\ activeTasks \in 0..limits.maxConcurrentTasks
BusType == bus \in [Tasks -> BusRecord] /\ context \subseteq Tasks
DiskType ==
    /\ rec \in [Tasks -> Files]
    /\ scan \in [job : {"none", "recover", "clean"}, todo : SUBSET Tasks, got : Tasks \cup {None}]
ProcessType ==
    /\ up \in {"down", "listening", "ready"}
    /\ early \subseteq Tasks
    /\ crashes \in 0..MaxCrashes

LEMMA TypeParts == TypeOK <=> SlotType /\ BusType /\ DiskType /\ ProcessType
BY DEF TypeOK, SlotType, BusType, DiskType, ProcessType, ExecStates, BusRecord, Files

(***************************************************************************)
(* Slots and queue                                                         *)
(***************************************************************************)
Running == {t \in Tasks : exec[t] = "running"}
SlotInv == SlotType /\ SlotsExact

LEMMA LimitsType ==
    ASSUME limits \in Limits
    PROVE  limits.maxConcurrentTasks \in Nat \ {0} /\ limits.maxQueuedTasks \in Nat
BY TaskConstants

LEMMA RunningFinite ==
    /\ IsFiniteSet(Running) /\ Cardinality(Running) \in Nat
    /\ \A t \in Running : Cardinality(Running) > 0
<1>1. IsFiniteSet(Running)
  BY TaskConstants, FS_Subset DEF Running
<1>2. Cardinality(Running) \in Nat
  BY <1>1, FS_CardinalityType
<1>3. \A t \in Running : Cardinality(Running) > 0
  BY <1>1, <1>2, FS_EmptySet
<1> QED BY <1>1, <1>2, <1>3

(* What SlotsExact says, with the set of running tasks named.                *)
LEMMA SlotsParts ==
    SlotsExact <=>
        /\ activeTasks = Cardinality(Running)
        /\ queue # <<>> => activeTasks = limits.maxConcurrentTasks
        /\ Len(queue) <= limits.maxQueuedTasks
        /\ \A t \in Tasks : exec[t] = "queued" <=> \E i \in 1..Len(queue) : queue[i] = t
        /\ \A i, j \in 1..Len(queue) : queue[i] = queue[j] => i = j
BY DEF SlotsExact, Running

(* Slots and queue are left alone.                                           *)
LEMMA SlotsKept ==
    ASSUME SlotInv, UNCHANGED <<limits, exec, queue, activeTasks>>
    PROVE  SlotInv'
BY DEF SlotInv, SlotType, SlotsExact

(* A task gets a slot that is free.                                          *)
LEMMA SlotsRun ==
    ASSUME SlotInv, NEW t \in Tasks, exec[t] = "new", limits' = limits,
           activeTasks < limits.maxConcurrentTasks, Run(t)
    PROVE  SlotInv'
<1>1. queue = <<>> /\ queue' = <<>> /\ activeTasks' = activeTasks + 1
  BY LimitsType DEF SlotInv, SlotType, SlotsExact, Run
<1>2. exec' = [exec EXCEPT ![t] = "running"]
  BY DEF Run
<1>3. SlotType'
  BY <1>1, <1>2, LimitsType DEF SlotInv, SlotType, ExecStates
<1>4. Running' = Running \cup {t} /\ t \notin Running
  BY <1>2 DEF Running, SlotInv, SlotType
<1>5. activeTasks' = Cardinality(Running')
  <2>1. Cardinality(Running \cup {t}) = Cardinality(Running) + 1
    BY <1>4, RunningFinite, FS_AddElement
  <2>2. activeTasks = Cardinality(Running)
    BY SlotsParts DEF SlotInv
  <2> QED BY <1>1, <1>4, <2>1, <2>2
<1>6. \A u \in Tasks : exec'[u] # "queued"
  BY <1>1, <1>2 DEF SlotInv, SlotType, SlotsExact
<1>7. SlotsExact'
  <2>1. Len(queue') <= limits'.maxQueuedTasks /\ 1..Len(queue') = {}
    BY <1>1, LimitsType DEF SlotInv, SlotType
  <2> QED BY <1>1, <1>5, <1>6, <2>1, SlotsParts DEF SlotsExact, Running
<1> QED BY <1>3, <1>7 DEF SlotInv

(* A task is refused: it never had a slot.                                   *)
LEMMA SlotsReject ==
    ASSUME SlotInv, NEW t \in Tasks, exec[t] = "new", limits' = limits, Reject(t)
    PROVE  SlotInv'
<1>1. exec' = [exec EXCEPT ![t] = "over"] /\ UNCHANGED <<queue, activeTasks>>
  BY DEF Reject
<1>2. SlotType'
  BY <1>1 DEF SlotInv, SlotType, ExecStates
<1>3. \A u \in Tasks : /\ exec'[u] = "running" <=> exec[u] = "running"
                       /\ exec'[u] = "queued" <=> exec[u] = "queued"
  BY <1>1 DEF SlotInv, SlotType
<1>4. Running' = Running
  BY <1>3 DEF Running
<1>5. SlotsExact'
  <2>1. activeTasks' = Cardinality(Running')
    BY <1>1, <1>4, SlotsParts DEF SlotInv
  <2> QED BY <1>1, <1>3, <2>1 DEF SlotInv, SlotsExact, Running
<1> QED BY <1>2, <1>5 DEF SlotInv

(* A task is queued behind the others.                                       *)
LEMMA SlotsEnqueue ==
    ASSUME SlotInv, NEW t \in Tasks, exec[t] = "new", limits' = limits,
           ~(activeTasks < limits.maxConcurrentTasks), Len(queue) < limits.maxQueuedTasks,
           Enqueue(t)
    PROVE  SlotInv'
<1>1. /\ exec' = [exec EXCEPT ![t] = "queued"] /\ queue' = Append(queue, t)
      /\ activeTasks' = activeTasks
  BY DEF Enqueue
<1>2. SlotType'
  BY <1>1 DEF SlotInv, SlotType, ExecStates
<1>3. /\ Len(queue') = Len(queue) + 1 /\ queue'[Len(queue) + 1] = t
      /\ \A i \in 1..Len(queue) : queue'[i] = queue[i]
  BY <1>1 DEF SlotInv, SlotType
<1>4. \A i \in 1..Len(queue) : queue[i] # t
  BY DEF SlotInv, SlotsExact
<1>5. Running' = Running
  BY <1>1 DEF Running, SlotInv, SlotType
<1>6. activeTasks' = limits'.maxConcurrentTasks /\ Len(queue') <= limits'.maxQueuedTasks
  BY <1>1, <1>3, LimitsType DEF SlotInv, SlotType
<1>7. \A u \in Tasks : exec'[u] = "queued" <=> \E i \in 1..Len(queue') : queue'[i] = u
  <2> SUFFICES ASSUME NEW u \in Tasks
               PROVE  exec'[u] = "queued" <=> \E i \in 1..Len(queue') : queue'[i] = u
    OBVIOUS
  <2>1. CASE u = t
    BY <2>1, <1>1, <1>3 DEF SlotInv, SlotType
  <2>2. CASE u # t
    <3>1. exec'[u] = exec[u]
      BY <2>2, <1>1 DEF SlotInv, SlotType
    <3>2. (\E i \in 1..Len(queue') : queue'[i] = u) <=> \E i \in 1..Len(queue) : queue[i] = u
      BY <2>2, <1>3 DEF SlotInv, SlotType
    <3> QED BY <3>1, <3>2 DEF SlotInv, SlotsExact
  <2> QED BY <2>1, <2>2
<1>8. \A i, j \in 1..Len(queue') : queue'[i] = queue'[j] => i = j
  BY <1>3, <1>4 DEF SlotInv, SlotType, SlotsExact
<1>9. SlotsExact'
  BY <1>1, <1>5, <1>6, <1>7, <1>8, SlotsParts DEF SlotInv, SlotsExact, Running
<1> QED BY <1>2, <1>9 DEF SlotInv

(* A run ends and nobody waits.                                              *)
LEMMA SlotsFree ==
    ASSUME SlotInv, NEW t \in Tasks, exec[t] = "running", limits' = limits, queue = <<>>,
           exec' = [exec EXCEPT ![t] = "over"], queue' = queue, activeTasks' = activeTasks - 1
    PROVE  SlotInv'
<1>1. Running' = Running \ {t} /\ t \in Running
  BY DEF Running, SlotInv, SlotType
<1>2. activeTasks' = Cardinality(Running') /\ activeTasks > 0
  BY <1>1, RunningFinite, FS_RemoveElement, SlotsParts DEF SlotInv
<1>3. SlotType'
  BY <1>2, LimitsType DEF SlotInv, SlotType, ExecStates
<1>4. \A u \in Tasks : exec'[u] # "queued"
  BY DEF SlotInv, SlotType, SlotsExact
<1>5. SlotsExact'
  BY <1>2, <1>4, LimitsType DEF SlotsExact, Running, SlotInv, SlotType
<1> QED BY <1>3, <1>5 DEF SlotInv

(* A run ends and the oldest queued task takes its slot.                     *)
LEMMA SlotsDrain ==
    ASSUME SlotInv, NEW t \in Tasks, exec[t] = "running", limits' = limits, queue # <<>>,
           exec' = [exec EXCEPT ![t] = "over", ![Head(queue)] = "running"],
           queue' = Tail(queue), activeTasks' = activeTasks
    PROVE  SlotInv' /\ Head(queue) \in Tasks \ {t} /\ exec[Head(queue)] = "queued"
<1>1. /\ Len(queue) \in Nat /\ Len(queue) > 0 /\ Head(queue) = queue[1] /\ Head(queue) \in Tasks
      /\ queue' \in Seq(Tasks) /\ Len(queue') = Len(queue) - 1
      /\ \A i \in 1..Len(queue') : queue'[i] = queue[i + 1]
  BY DEF SlotInv, SlotType
<1>2. exec[Head(queue)] = "queued" /\ Head(queue) # t
  BY <1>1 DEF SlotInv, SlotsExact
<1>3. SlotType'
  BY <1>1 DEF SlotInv, SlotType, ExecStates
<1>4. /\ Running' = (Running \ {t}) \cup {Head(queue)}
      /\ t \in Running /\ Head(queue) \notin Running \ {t}
  BY <1>1, <1>2 DEF Running, SlotInv, SlotType
<1>5. activeTasks' = Cardinality(Running')
  <2>1. IsFiniteSet(Running \ {t}) /\ Cardinality(Running \ {t}) = Cardinality(Running) - 1
    BY <1>4, RunningFinite, FS_RemoveElement
  <2>2. Cardinality(Running') = Cardinality(Running)
    <3>1. Cardinality((Running \ {t}) \cup {Head(queue)}) = Cardinality(Running \ {t}) + 1
      BY <1>4, <2>1, FS_AddElement
    <3> QED BY <1>4, <2>1, <3>1, RunningFinite
  <2> QED BY <2>2, SlotsParts DEF SlotInv
<1>6. activeTasks' = limits'.maxConcurrentTasks /\ Len(queue') <= limits'.maxQueuedTasks
  BY <1>1, LimitsType DEF SlotInv, SlotType, SlotsExact
<1>7. \A i, j \in 1..Len(queue') : queue'[i] = queue'[j] => i = j
  <2> SUFFICES ASSUME NEW i \in 1..Len(queue'), NEW j \in 1..Len(queue'), queue'[i] = queue'[j]
               PROVE  i = j
    OBVIOUS
  <2>1. i + 1 \in 1..Len(queue) /\ j + 1 \in 1..Len(queue) /\ queue[i + 1] = queue[j + 1]
    BY <1>1
  <2>2. i + 1 = j + 1
    BY <2>1 DEF SlotInv, SlotsExact
  <2> QED BY <1>1, <2>2
<1>8. \A u \in Tasks : exec'[u] = "queued" <=> \E i \in 1..Len(queue') : queue'[i] = u
  <2> SUFFICES ASSUME NEW u \in Tasks
               PROVE  exec'[u] = "queued" <=> \E i \in 1..Len(queue') : queue'[i] = u
    OBVIOUS
  <2>1. CASE u = t
    <3>1. exec'[u] # "queued"
      BY <2>1, <1>2 DEF SlotInv, SlotType
    <3>2. \A i \in 1..Len(queue) : queue[i] # u
      BY <2>1 DEF SlotInv, SlotsExact
    <3>3. \A i \in 1..Len(queue') : i + 1 \in 1..Len(queue)
      BY <1>1
    <3> QED BY <1>1, <3>1, <3>2, <3>3
  <2>2. CASE u = Head(queue)
    <3>1. exec'[u] # "queued"
      BY <2>2, <1>1 DEF SlotInv, SlotType
    <3>2. ASSUME NEW i \in 1..Len(queue'), queue'[i] = u PROVE FALSE
      <4>1. queue[i + 1] = queue[1] /\ i + 1 \in 1..Len(queue) /\ 1 \in 1..Len(queue)
        BY <1>1, <2>2, <3>2
      <4>2. i + 1 = 1
        BY <4>1 DEF SlotInv, SlotsExact
      <4> QED BY <1>1, <4>2
    <3> QED BY <3>1, <3>2
  <2>3. CASE u # t /\ u # Head(queue)
    <3>1. exec'[u] = exec[u]
      BY <2>3 DEF SlotInv, SlotType
    <3>2. ASSUME NEW i \in 1..Len(queue), queue[i] = u
          PROVE  \E j \in 1..Len(queue') : queue'[j] = u
      <4>1. i # 1
        BY <1>1, <2>3, <3>2
      <4>2. i - 1 \in 1..Len(queue') /\ (i - 1) + 1 = i
        BY <1>1, <4>1
      <4> QED BY <1>1, <3>2, <4>2
    <3>3. ASSUME NEW j \in 1..Len(queue'), queue'[j] = u
          PROVE  \E i \in 1..Len(queue) : queue[i] = u
      BY <1>1, <3>3
    <3> QED BY <3>1, <3>2, <3>3 DEF SlotInv, SlotsExact
  <2> QED BY <2>1, <2>2, <2>3
<1>9. SlotsExact'
  BY <1>5, <1>6, <1>7, <1>8 DEF SlotsExact, Running
<1> QED BY <1>1, <1>2, <1>3, <1>9 DEF SlotInv

(* queue.splice(i, 1) takes out one entry and keeps the order of the others. *)
LEMMA SpliceOK ==
    ASSUME NEW q \in Seq(Tasks), NEW i \in 1..Len(q)
    PROVE  /\ Splice(q, i) \in Seq(Tasks) /\ Len(Splice(q, i)) = Len(q) - 1
           /\ \A j \in 1..(Len(q) - 1) : Splice(q, i)[j] = IF j < i THEN q[j] ELSE q[j + 1]
<1>1. Len(q) - 1 \in Nat
  OBVIOUS
<1>2. \A j \in 1..(Len(q) - 1) : (IF j < i THEN q[j] ELSE q[j + 1]) \in Tasks
  OBVIOUS
<1>3. Splice(q, i) \in [1..(Len(q) - 1) -> Tasks]
  BY <1>2 DEF Splice
<1>4. Splice(q, i) \in Seq(Tasks) /\ Len(Splice(q, i)) = Len(q) - 1
  BY <1>1, <1>3
<1> QED BY <1>4 DEF Splice

(* A queued task is canceled.                                                *)
LEMMA SlotsCancel ==
    ASSUME SlotInv, NEW t \in Tasks, limits' = limits, CancelQueued(t)
    PROVE  SlotInv'
<1>1. PICK k \in 1..Len(queue) : queue[k] = t /\ queue' = Splice(queue, k)
  BY DEF CancelQueued
<1>2. exec[t] = "queued" /\ exec' = [exec EXCEPT ![t] = "over"] /\ activeTasks' = activeTasks
  BY DEF CancelQueued
<1>3. /\ Len(queue) \in Nat /\ queue' \in Seq(Tasks) /\ Len(queue') = Len(queue) - 1
      /\ \A j \in 1..Len(queue') : queue'[j] = IF j < k THEN queue[j] ELSE queue[j + 1]
  <2>1. queue \in Seq(Tasks)
    BY DEF SlotInv, SlotType
  <2>2. /\ Splice(queue, k) \in Seq(Tasks) /\ Len(Splice(queue, k)) = Len(queue) - 1
        /\ \A j \in 1..(Len(queue) - 1) :
              Splice(queue, k)[j] = IF j < k THEN queue[j] ELSE queue[j + 1]
    BY <1>1, <2>1, SpliceOK
  <2> QED BY <1>1, <2>1, <2>2
<1>4. SlotType'
  BY <1>2, <1>3 DEF SlotInv, SlotType, ExecStates
<1>5. Running' = Running
  BY <1>2 DEF Running, SlotInv, SlotType
<1>6. activeTasks' = limits'.maxConcurrentTasks /\ Len(queue') <= limits'.maxQueuedTasks
  BY <1>1, <1>2, <1>3, LimitsType DEF SlotInv, SlotType, SlotsExact
<1>7. \A i, j \in 1..Len(queue') : queue'[i] = queue'[j] => i = j
  <2> SUFFICES ASSUME NEW i \in 1..Len(queue'), NEW j \in 1..Len(queue'), queue'[i] = queue'[j]
               PROVE  i = j
    OBVIOUS
  <2> DEFINE old(n) == IF n < k THEN n ELSE n + 1
  <2>1. old(i) \in 1..Len(queue) /\ old(j) \in 1..Len(queue) /\ queue[old(i)] = queue[old(j)]
    BY <1>3
  <2>2. old(i) = old(j)
    BY <2>1 DEF SlotInv, SlotsExact
  <2> QED BY <1>3, <2>2
<1>8. \A u \in Tasks : exec'[u] = "queued" <=> \E i \in 1..Len(queue') : queue'[i] = u
  <2> SUFFICES ASSUME NEW u \in Tasks
               PROVE  exec'[u] = "queued" <=> \E i \in 1..Len(queue') : queue'[i] = u
    OBVIOUS
  <2>1. CASE u = t
    <3>1. exec'[u] # "queued"
      BY <2>1, <1>2 DEF SlotInv, SlotType
    <3>2. ASSUME NEW i \in 1..Len(queue'), queue'[i] = u PROVE FALSE
      <4> DEFINE n == IF i < k THEN i ELSE i + 1
      <4>1. n \in 1..Len(queue) /\ queue[n] = queue[k] /\ n # k
        BY <1>1, <1>3, <2>1, <3>2
      <4>2. n = k
        BY <4>1 DEF SlotInv, SlotsExact
      <4> QED BY <4>1, <4>2
    <3> QED BY <3>1, <3>2
  <2>2. CASE u # t
    <3>1. exec'[u] = exec[u]
      BY <2>2, <1>2 DEF SlotInv, SlotType
    <3>2. ASSUME NEW i \in 1..Len(queue), queue[i] = u
          PROVE  \E j \in 1..Len(queue') : queue'[j] = u
      <4>1. i # k
        BY <1>1, <2>2, <3>2
      <4>2. CASE i < k
        BY <1>3, <3>2, <4>2
      <4>3. CASE i > k
        <5>1. i - 1 \in 1..Len(queue') /\ ~(i - 1 < k) /\ (i - 1) + 1 = i
          BY <1>3, <4>3
        <5> QED BY <1>3, <3>2, <5>1
      <4> QED BY <4>1, <4>2, <4>3
    <3>3. ASSUME NEW j \in 1..Len(queue'), queue'[j] = u
          PROVE  \E i \in 1..Len(queue) : queue[i] = u
      BY <1>3, <3>3
    <3> QED BY <3>1, <3>2, <3>3 DEF SlotInv, SlotsExact
  <2> QED BY <2>1, <2>2
<1>9. activeTasks' = Cardinality(Running')
  BY <1>2, <1>5, SlotsParts DEF SlotInv
<1> QED BY <1>4, <1>6, <1>7, <1>8, <1>9 DEF SlotInv, SlotsExact, Running

(* A new process starts without slots and queue.                             *)
LEMMA SlotsEmpty ==
    ASSUME limits' \in Limits, exec' \in [Tasks -> {"new", "over"}],
           queue' = <<>>, activeTasks' = 0
    PROVE  SlotInv'
<1>1. Running' = {}
  BY DEF Running
<1>2. activeTasks' = Cardinality(Running')
  BY <1>1, FS_EmptySet
<1>3. limits'.maxConcurrentTasks \in Nat /\ limits'.maxQueuedTasks \in Nat
  BY TaskConstants
<1>4. SlotType'
  BY <1>3 DEF SlotType, ExecStates
<1>5. \A t \in Tasks : exec'[t] # "queued"
  OBVIOUS
<1>6. SlotsExact'
  <2>1. 1..Len(queue') = {} /\ Len(queue') <= limits'.maxQueuedTasks
    BY <1>3
  <2> QED BY <1>2, <1>5, <2>1 DEF SlotsExact, Running
<1> QED BY <1>4, <1>6 DEF SlotInv

(***************************************************************************)
(* Event buses                                                             *)
(***************************************************************************)

(* A terminal event is the last one and closes the bus, and a bus that is    *)
(* closed with events ends in one.                                           *)
BusOK(b) ==
    /\ \A i \in 1..Len(b.events) : b.events[i] \in TerminalStates => i = Len(b.events) /\ ~b.open
    /\ ~b.open /\ b.events # <<>> => b.events[Len(b.events)] \in TerminalStates

LEMMA PublishedOK ==
    ASSUME NEW b \in BusRecord, BusOK(b), NEW s \in States \ TerminalStates
    PROVE  /\ Published(b, s) \in BusRecord /\ BusOK(Published(b, s))
           /\ Published(b, s).open = b.open
           /\ b.open => Published(b, s).events # <<>>
           /\ ~b.open => Published(b, s) = b
<1>1. CASE b.open
  <2> DEFINE p == [b EXCEPT !.events = Append(b.events, s)]
  <2>1. Published(b, s) = p
    BY <1>1 DEF Published
  <2>2. p \in BusRecord /\ p.open = b.open /\ p.events = Append(b.events, s)
    BY DEF BusRecord
  <2>3. /\ Len(p.events) = Len(b.events) + 1 /\ p.events[Len(b.events) + 1] = s
        /\ \A i \in 1..Len(b.events) : p.events[i] = b.events[i]
        /\ p.events # <<>> /\ Len(b.events) \in Nat
    BY <2>2 DEF BusRecord
  <2>4. BusOK(p)
    BY <1>1, <2>2, <2>3 DEF BusOK
  <2> QED BY <1>1, <2>1, <2>2, <2>3, <2>4
<1>2. CASE ~b.open
  BY <1>2 DEF Published
<1> QED BY <1>1, <1>2

LEMMA CloseRecord ==
    ASSUME NEW q \in BusRecord, NEW o
    PROVE  [q EXCEPT !.open = o] = [events |-> q.events, open |-> o]
BY DEF BusRecord

LEMMA FinishedOK ==
    ASSUME NEW b \in BusRecord, BusOK(b), NEW s \in TerminalStates
    PROVE  /\ Finished(b, s) \in BusRecord /\ BusOK(Finished(b, s))
           /\ ~Finished(b, s).open
           /\ b.open => Finished(b, s).events # <<>>
           /\ ~b.open => Finished(b, s) = b
<1>1. CASE b.open
  <2> DEFINE p == [events |-> Append(b.events, s), open |-> FALSE]
  <2>1. Finished(b, s) = p
    <3> DEFINE q == [b EXCEPT !.events = Append(b.events, s)]
    <3>1. Published(b, s) = q
      BY <1>1 DEF Published
    <3>2. q \in BusRecord /\ q.events = Append(b.events, s)
      BY DEF BusRecord, States
    <3>3. [q EXCEPT !.open = FALSE] = p
      BY <3>2, CloseRecord
    <3> QED BY <3>1, <3>3 DEF Finished
  <2>2. p \in BusRecord
    BY DEF BusRecord, States
  <2>3. /\ Len(p.events) = Len(b.events) + 1 /\ p.events[Len(b.events) + 1] = s
        /\ \A i \in 1..Len(b.events) : p.events[i] = b.events[i]
        /\ p.events # <<>> /\ Len(b.events) \in Nat
    BY DEF BusRecord
  <2>4. BusOK(p)
    BY <1>1, <2>3 DEF BusOK
  <2> QED BY <1>1, <2>1, <2>2, <2>3, <2>4
<1>2. CASE ~b.open
  BY <1>2 DEF Finished, Published, BusRecord
<1> QED BY <1>1, <1>2

(* The first event of a sequence and what is left after it.                  *)
LEMMA NextOf ==
    ASSUME NEW S, NEW e \in Seq(S), e # <<>>
    PROVE  /\ Tail(e) \in Seq(S) /\ Len(e) \in Nat /\ Len(e) > 0
           /\ Head(e) = e[1] /\ Head(e) \in S
           /\ Len(Tail(e)) = Len(e) - 1
           /\ \A i \in 1..Len(Tail(e)) : Tail(e)[i] = e[i + 1]
           /\ Tail(e) = <<>> <=> Len(e) = 1
<1>1. Len(e) \in Nat /\ Len(e) > 0
  OBVIOUS
<1>2. Head(e) = e[1] /\ Head(e) \in S
  BY <1>1
<1>3. /\ Tail(e) \in Seq(S) /\ Len(Tail(e)) = Len(e) - 1
      /\ \A i \in 1..Len(Tail(e)) : Tail(e)[i] = e[i + 1]
  BY HeadTailProperties
<1>4. Tail(e) = <<>> <=> Len(e) = 1
  <2>1. Tail(e) = <<>> <=> Len(Tail(e)) = 0
    BY <1>3, EmptySeq
  <2> QED BY <1>1, <1>3, <2>1
<1> QED BY <1>1, <1>2, <1>3, <1>4

(* The oldest event is taken from the bus.                                   *)
LEMMA SavedOK ==
    ASSUME NEW b \in BusRecord, BusOK(b), b.events # <<>>,
           NEW r, r = [b EXCEPT !.events = Tail(b.events)]
    PROVE  /\ r \in BusRecord /\ BusOK(r) /\ r.open = b.open
           /\ Head(b.events) \in States
           /\ Head(b.events) \in TerminalStates => ~r.open /\ r.events = <<>>
           /\ r.events = <<>> /\ ~r.open => Head(b.events) \in TerminalStates
<1>1. r \in BusRecord /\ r.open = b.open /\ r.events = Tail(b.events)
  <2>1. b.events \in Seq(States) /\ b.open \in BOOLEAN /\ Tail(b.events) \in Seq(States)
    BY DEF BusRecord
  <2>2. r = [events |-> Tail(b.events), open |-> b.open]
    BY DEF BusRecord
  <2> QED BY <2>1, <2>2 DEF BusRecord
<1>2. /\ Len(b.events) \in Nat /\ Len(b.events) > 0 /\ Head(b.events) = b.events[1]
      /\ Len(r.events) = Len(b.events) - 1
      /\ \A i \in 1..Len(r.events) : r.events[i] = b.events[i + 1]
      /\ r.events = <<>> <=> Len(b.events) = 1
      /\ Head(b.events) \in States
  BY <1>1, NextOf DEF BusRecord
<1>3. \A i \in 1..Len(r.events) : r.events[i] \in TerminalStates => i = Len(r.events) /\ ~r.open
  <2> SUFFICES ASSUME NEW i \in 1..Len(r.events), r.events[i] \in TerminalStates
               PROVE  i = Len(r.events) /\ ~r.open
    OBVIOUS
  <2>1. i + 1 \in 1..Len(b.events) /\ b.events[i + 1] \in TerminalStates
    BY <1>2
  <2>2. i + 1 = Len(b.events) /\ ~b.open
    BY <2>1 DEF BusOK
  <2> QED BY <1>1, <1>2, <2>2
<1>4. ~r.open /\ r.events # <<>> => r.events[Len(r.events)] \in TerminalStates
  <2> SUFFICES ASSUME ~r.open, r.events # <<>> PROVE r.events[Len(r.events)] \in TerminalStates
    OBVIOUS
  <2>1. Len(r.events) \in 1..Len(r.events) /\ Len(r.events) + 1 = Len(b.events)
    BY <1>2
  <2>2. r.events[Len(r.events)] = b.events[Len(b.events)]
    BY <1>2, <2>1
  <2> QED BY <1>1, <2>2 DEF BusOK
<1>5. Head(b.events) \in TerminalStates => ~r.open /\ r.events = <<>>
  BY <1>1, <1>2 DEF BusOK
<1>6. r.events = <<>> /\ ~r.open => Head(b.events) \in TerminalStates
  BY <1>1, <1>2 DEF BusOK
<1> QED BY <1>1, <1>2, <1>3, <1>4, <1>5, <1>6 DEF BusOK

(***************************************************************************)
(* The inductive invariant                                                 *)
(***************************************************************************)

(* No consumer of the task's events is left.                                 *)
Silent(t) == ~bus[t].open /\ bus[t].events = <<>>

(* How the executor, the bus and the record of a task agree: only tasks that *)
(* run or are queued publish, a run whose events are all saved was decided   *)
(* (by a cancel), and unless a peer touched the task during the recovery, it *)
(* is not in this process before the recovery is over, and it publishes      *)
(* nothing once its record is terminal.                                      *)
TaskOK(t) ==
    /\ BusOK(bus[t])
    /\ exec[t] = "new" => Silent(t) /\ rec[t] = None
    /\ bus[t].open => Live(t)
    /\ exec[t] = "queued" => bus[t].open
    /\ exec[t] = "running" /\ bus[t].open => t \in context
    /\ exec[t] = "running" /\ Silent(t) => rec[t] = None \/ Terminal(t)
    /\ up # "ready" /\ t \notin early => Silent(t) /\ ~Live(t)
    /\ t \notin early /\ Terminal(t) => Silent(t)

(* A record that nobody in this process is going to change.                  *)
Stuck(t) == rec[t] # None /\ ~Terminal(t) /\ ~Live(t) /\ bus[t].events = <<>>

(* What the running scan still has to do covers every stuck record, and what *)
(* it loaded is still as it was loaded, unless peers touched the task.       *)
ScanOK ==
    /\ scan.job = "recover" => up = "listening"
    /\ scan.job = "clean" => up = "ready"
    /\ up = "down" => early = {}
    /\ up = "ready" => \A t \in Tasks : ~Stuck(t)
    /\ scan.job = "recover" => \A t \in Tasks : Stuck(t) => t \in scan.todo \/ t = scan.got
    /\ scan.job = "recover" => \A t \in Tasks : t = scan.got => exec[t] # "new"
    /\ \A t \in Tasks \ early : t = scan.got =>
        /\ scan.job = "recover" => ~Terminal(t)
        /\ scan.job = "clean" => Terminal(t) /\ rec[t].old

TasksOK == \A t \in Tasks : TaskOK(t)
IndInv == TypeOK /\ SlotsExact /\ TasksOK /\ ScanOK

LEMMA IndParts ==
    IndInv <=> SlotInv /\ BusType /\ DiskType /\ ProcessType /\ TasksOK /\ ScanOK
BY TypeParts DEF IndInv, SlotInv

LEMMA IndNext ==
    ASSUME SlotInv', BusType', DiskType', ProcessType', TasksOK', ScanOK'
    PROVE  IndInv'
BY DEF IndInv, SlotInv, TypeOK, SlotType, BusType, DiskType, ProcessType, ExecStates, BusRecord,
       Files

(* A step that does not touch a task keeps what is known of it.              *)
LEMMA TaskKept ==
    ASSUME NEW t \in Tasks, TaskOK(t), exec'[t] = exec[t], bus'[t] = bus[t], rec'[t] = rec[t],
           t \in context => t \in context', t \in early => t \in early',
           up' # "ready" => up # "ready"
    PROVE  TaskOK(t)'
BY DEF TaskOK, Silent, Live, Terminal, BusOK

(* A step of the executor or of the request handler leaves the scan sound if *)
(* it leaves no record stuck and spoils no record that the scan has loaded.  *)
LEMMA ScanKept ==
    ASSUME ScanOK, UNCHANGED <<up, scan>>, up # "down" \/ early' = early, early \subseteq early',
           \A t \in Tasks : Stuck(t)' => Stuck(t),
           \A t \in Tasks : exec[t] # "new" => exec'[t] # "new",
           \A t \in Tasks \ early' :
               t = scan.got => /\ scan.job = "recover" /\ ~Terminal(t) => ~Terminal(t)'
                               /\ scan.job = "clean" /\ Terminal(t) /\ rec[t].old =>
                                      Terminal(t)' /\ rec'[t].old
    PROVE  ScanOK'
<1>1. \A t \in Tasks : ~Stuck(t) => ~Stuck(t)'
  OBVIOUS
<1>2. Tasks \ early' \subseteq Tasks \ early
  OBVIOUS
<1>3. (scan.job = "recover" => up = "listening")' /\ (scan.job = "clean" => up = "ready")'
  BY DEF ScanOK
<1>4. (up = "down" => early = {})'
  BY DEF ScanOK
<1>5. (up = "ready" => \A t \in Tasks : ~Stuck(t))'
  BY <1>1 DEF ScanOK
<1>6. (scan.job = "recover" => \A t \in Tasks : Stuck(t) => t \in scan.todo \/ t = scan.got)'
  BY DEF ScanOK
<1>7. (scan.job = "recover" => \A t \in Tasks : t = scan.got => exec[t] # "new")'
  BY DEF ScanOK
<1>8. (\A t \in Tasks \ early : t = scan.got =>
        /\ scan.job = "recover" => ~Terminal(t)
        /\ scan.job = "clean" => Terminal(t) /\ rec[t].old)'
  BY <1>2 DEF ScanOK
<1> QED BY <1>3, <1>4, <1>5, <1>6, <1>7, <1>8 DEF ScanOK

(***************************************************************************)
(* One lemma per step                                                      *)
(***************************************************************************)

(* What IndInv says of the variables, for the steps below.                   *)
LEMMA IndTypes ==
    ASSUME IndInv
    PROVE  /\ exec \in [Tasks -> ExecStates] /\ bus \in [Tasks -> BusRecord]
           /\ rec \in [Tasks -> Files] /\ context \subseteq Tasks /\ early \subseteq Tasks
           /\ scan \in [job : {"none", "recover", "clean"}, todo : SUBSET Tasks,
                        got : Tasks \cup {None}]
           /\ None \notin Tasks
BY IndParts, TaskConstants DEF SlotType, SlotInv, BusType, DiskType, ProcessType

LEMMA TouchType ==
    ASSUME ProcessType, NEW t \in Tasks, Touch(t), UNCHANGED <<up, crashes>>
    PROVE  ProcessType' /\ early \subseteq early' /\ early' \subseteq early \cup {t}
           /\ (up = "listening" => t \in early')
BY DEF ProcessType, Touch

(* The buses <<"working">>, <<"submitted">> and <<"rejected">> of a new task. *)
LEMMA FirstEvent ==
    ASSUME NEW s \in States, NEW o \in BOOLEAN, o <=> s \notin TerminalStates
    PROVE  /\ [events |-> <<s>>, open |-> o] \in BusRecord
           /\ BusOK([events |-> <<s>>, open |-> o])
<1> DEFINE b == [events |-> <<s>>, open |-> o]
<1>1. b.events = <<s>> /\ b.open = o /\ <<s>> \in Seq(States) /\ Len(<<s>>) = 1 /\ <<s>>[1] = s
  OBVIOUS
<1>2. b \in BusRecord
  BY DEF BusRecord
<1>3. \A i \in 1..Len(b.events) : b.events[i] \in TerminalStates => i = Len(b.events) /\ ~b.open
  BY <1>1
<1>4. ~b.open /\ b.events # <<>> => b.events[Len(b.events)] \in TerminalStates
  BY <1>1
<1> QED BY <1>2, <1>3, <1>4 DEF BusOK

(* A task enters the executor with its first event.                          *)
LEMMA NewTask ==
    ASSUME IndInv, NEW t \in Tasks, up # "down", exec[t] = "new", Touch(t),
           UNCHANGED <<up, rec, scan, crashes, limits>>, SlotInv',
           NEW e \in {"queued", "running", "over"}, exec' = [exec EXCEPT ![t] = e],
           NEW b \in BusRecord, bus' = [bus EXCEPT ![t] = b],
           BusOK(b), b.events # <<>>, b.open <=> e # "over",
           context' \in SUBSET Tasks, context \subseteq context', e = "running" => t \in context'
    PROVE  IndInv'
<1>1. SlotInv /\ BusType /\ DiskType /\ ProcessType /\ TasksOK /\ ScanOK
  BY IndParts
<1>2. ProcessType' /\ early \subseteq early' /\ (up = "listening" => t \in early')
  BY <1>1, TouchType
<1>3. BusType' /\ DiskType'
  BY <1>1 DEF BusType, DiskType
<1>4. exec'[t] = e /\ bus'[t] = b /\ rec'[t] = rec[t]
  BY IndTypes
<1>5. \A u \in Tasks \ {t} : exec'[u] = exec[u] /\ bus'[u] = bus[u] /\ rec'[u] = rec[u]
  BY IndTypes
<1>6. TaskOK(t)'
  <2>1. BusOK(b) /\ (b.open <=> e # "over") /\ b.events # <<>> /\ rec'[t] = None
    BY <1>1, <1>4 DEF TasksOK, TaskOK
  <2>2. up' # "ready" => t \in early'
    BY <1>1, <1>2 DEF ProcessType
  <2>3. BusOK(bus[t])' /\ (bus'[t].open <=> e # "over") /\ bus'[t].events # <<>>
    BY <1>4, <2>1
  <2>4. Live(t)' <=> e # "over"
    BY <1>4 DEF Live
  <2>5. ~Silent(t)' /\ ~Terminal(t)' /\ exec'[t] # "new"
    BY <1>4, <2>1, <2>3 DEF Silent, Terminal
  <2> QED BY <1>4, <2>1, <2>2, <2>3, <2>4, <2>5 DEF TaskOK
<1>7. TasksOK'
  <2>1. ASSUME NEW u \in Tasks \ {t} PROVE TaskOK(u)'
    BY <1>1, <1>2, <1>5, TaskKept DEF TasksOK
  <2> QED BY <1>6, <2>1 DEF TasksOK
<1>8. \A u \in Tasks : /\ Stuck(u)' => Stuck(u)
                       /\ exec[u] # "new" => exec'[u] # "new"
                       /\ Terminal(u)' <=> Terminal(u)
  BY <1>4, <1>5 DEF Stuck, Live, Terminal
<1>9. ScanOK'
  BY <1>1, <1>2, <1>8, ScanKept
<1> QED BY <1>2, <1>3, <1>7, <1>9, IndNext

LEMMA ExecuteStep ==
    ASSUME IndInv, NEW t \in Tasks, Execute(t)
    PROVE  IndInv'
<1>1. /\ up # "down" /\ exec[t] = "new" /\ Touch(t)
      /\ UNCHANGED <<up, rec, scan, crashes, limits>>
  BY DEF Execute
<1>2. SlotInv /\ context \subseteq Tasks
  BY IndParts, IndTypes
<1>3. limits.maxConcurrentTasks \in Nat /\ limits.maxQueuedTasks \in Nat /\ Len(queue) \in Nat
  BY <1>2, LimitsType DEF SlotInv, SlotType
<1>4. CASE activeTasks < limits.maxConcurrentTasks /\ Run(t)
  <2> DEFINE b == [events |-> <<"working">>, open |-> TRUE]
  <2>1. SlotInv'
    BY <1>1, <1>2, <1>4, SlotsRun
  <2>2. /\ exec' = [exec EXCEPT ![t] = "running"] /\ context' = context \cup {t}
        /\ bus' = [bus EXCEPT ![t] = b]
    BY <1>4 DEF Run
  <2>3. b \in BusRecord /\ BusOK(b)
    BY FirstEvent DEF States, TerminalStates
  <2>4. b.events # <<>> /\ (b.open <=> "running" # "over")
    OBVIOUS
  <2> HIDE DEF b
  <2> QED BY <1>1, <1>2, <2>1, <2>2, <2>3, <2>4, NewTask
<1>5. CASE Len(queue) >= limits.maxQueuedTasks /\ Reject(t)
  <2> DEFINE b == [events |-> <<"rejected">>, open |-> FALSE]
  <2>1. SlotInv'
    BY <1>1, <1>2, <1>5, SlotsReject
  <2>2. exec' = [exec EXCEPT ![t] = "over"] /\ context' = context /\ bus' = [bus EXCEPT ![t] = b]
    BY <1>5 DEF Reject
  <2>3. b \in BusRecord /\ BusOK(b)
    BY FirstEvent DEF States, TerminalStates
  <2>4. b.events # <<>> /\ (b.open <=> "over" # "over")
    OBVIOUS
  <2> HIDE DEF b
  <2> QED BY <1>1, <1>2, <2>1, <2>2, <2>3, <2>4, NewTask
<1>6. CASE /\ ~(activeTasks < limits.maxConcurrentTasks) /\ Len(queue) < limits.maxQueuedTasks
           /\ Enqueue(t)
  <2> DEFINE b == [events |-> <<"submitted">>, open |-> TRUE]
  <2>1. SlotInv'
    BY <1>1, <1>2, <1>6, SlotsEnqueue
  <2>2. exec' = [exec EXCEPT ![t] = "queued"] /\ context' = context /\ bus' = [bus EXCEPT ![t] = b]
    BY <1>6 DEF Enqueue
  <2>3. b \in BusRecord /\ BusOK(b)
    BY FirstEvent DEF States, TerminalStates
  <2>4. b.events # <<>> /\ (b.open <=> "queued" # "over")
    OBVIOUS
  <2> HIDE DEF b
  <2> QED BY <1>1, <1>2, <2>1, <2>2, <2>3, <2>4, NewTask
<1> QED BY <1>3, <1>4, <1>5, <1>6 DEF Execute

(* A step of the executor or of the request handler concerns one task, or    *)
(* two when the queue is drained.                                            *)
Untouched(u) ==
    /\ exec'[u] = exec[u] /\ bus'[u] = bus[u] /\ rec'[u] = rec[u]
    /\ u \in context => u \in context'
Handled(t) ==
    /\ TaskOK(t)' /\ ~Stuck(t)' /\ exec'[t] # "new"
    /\ t \notin early' /\ Terminal(t) => Terminal(t)' /\ rec'[t].old = rec[t].old
    /\ t \notin early' /\ t = scan.got /\ scan.job = "recover" => ~Terminal(t)'

LEMMA TasksStep ==
    ASSUME IndInv, NEW T \in SUBSET Tasks, UNCHANGED <<up, scan>>,
           up # "down" \/ early' = early, early \subseteq early',
           SlotInv', BusType', DiskType', ProcessType',
           \A u \in Tasks \ T : Untouched(u), \A t \in T : Handled(t)
    PROVE  IndInv'
<1>1. TasksOK /\ ScanOK
  BY IndParts
<1>2. TasksOK'
  <2>1. ASSUME NEW u \in Tasks \ T PROVE TaskOK(u)'
    BY <1>1, TaskKept DEF TasksOK, Untouched
  <2> QED BY <2>1 DEF TasksOK, Handled
<1>3. \A u \in Tasks \ T : /\ Stuck(u)' => Stuck(u)
                           /\ Terminal(u)' <=> Terminal(u)
                           /\ exec'[u] = exec[u] /\ rec'[u] = rec[u]
  BY DEF Stuck, Live, Terminal, Untouched
<1>4. \A t \in Tasks : (Stuck(t)' => Stuck(t)) /\ (exec[t] # "new" => exec'[t] # "new")
  BY <1>3 DEF Handled
<1>5. \A t \in Tasks \ early' :
         t = scan.got => /\ scan.job = "recover" /\ ~Terminal(t) => ~Terminal(t)'
                         /\ scan.job = "clean" /\ Terminal(t) /\ rec[t].old =>
                                Terminal(t)' /\ rec'[t].old
  BY <1>3 DEF Handled
<1>6. ScanOK'
  BY <1>1, <1>4, <1>5, ScanKept
<1> QED BY <1>2, <1>6, IndNext

LEMMA OneTaskStep ==
    ASSUME IndInv, NEW t \in Tasks, UNCHANGED <<up, scan>>,
           up # "down" \/ early' = early, early \subseteq early',
           SlotInv', BusType', DiskType', ProcessType',
           \A u \in Tasks \ {t} : Untouched(u), Handled(t)
    PROVE  IndInv'
<1>1. {t} \in SUBSET Tasks /\ \A u \in {t} : Handled(u)
  OBVIOUS
<1> QED BY <1>1, TasksStep

(* The bus of a task after its last event.                                   *)
LEMMA FinishedBus ==
    ASSUME IndInv, NEW t \in Tasks, NEW s \in TerminalStates
    PROVE  /\ Finished(bus[t], s) \in BusRecord /\ BusOK(Finished(bus[t], s))
           /\ ~Finished(bus[t], s).open
           /\ bus[t].open => Finished(bus[t], s).events # <<>>
           /\ ~bus[t].open => Finished(bus[t], s) = bus[t]
<1>1. bus[t] \in BusRecord /\ BusOK(bus[t])
  BY IndParts, IndTypes DEF TasksOK, TaskOK
<1> QED BY <1>1, FinishedOK

(* A step that leaves the record of a task as it is does not disturb a scan  *)
(* that has loaded it.                                                       *)
LEMMA HandledKept ==
    ASSUME IndInv, NEW t \in Tasks, early \subseteq early', rec'[t] = rec[t], TaskOK(t)',
           ~Stuck(t)', exec'[t] # "new"
    PROVE  Handled(t)
<1>1. Terminal(t)' <=> Terminal(t)
  BY DEF Terminal
<1>2. t \notin early' /\ t = scan.got /\ scan.job = "recover" => ~Terminal(t)
  BY IndParts DEF ScanOK
<1> QED BY <1>1, <1>2 DEF Handled

(* The dispatch of a running task has returned.                              *)
LEMMA Ended ==
    ASSUME IndInv, NEW t \in Tasks, NEW s \in TerminalStates, exec[t] = "running",
           UNCHANGED <<up, rec, early>>, exec'[t] = "over", bus'[t] = Finished(bus[t], s)
    PROVE  Handled(t)
<1> DEFINE f == Finished(bus[t], s)
<1>1. /\ BusOK(f) /\ ~f.open
      /\ bus[t].open => f.events # <<>>
      /\ ~bus[t].open => f = bus[t]
  BY FinishedBus
<1> HIDE DEF f
<1>2. bus'[t] = f
  BY DEF f
<1>3. TaskOK(t) /\ up \in {"down", "listening", "ready"}
  BY IndParts DEF TasksOK, ProcessType
<1>4. Terminal(t)' <=> Terminal(t)
  BY DEF Terminal
<1>5. t \notin early => up = "ready"
  BY <1>3 DEF TaskOK, Live
<1>6. Silent(t)' => Silent(t)
  BY <1>1, <1>2 DEF Silent
<1>7. Silent(t) => Silent(t)' /\ (rec[t] = None \/ Terminal(t))
  BY <1>1, <1>2, <1>3 DEF Silent, TaskOK
<1>8. TaskOK(t)'
  BY <1>1, <1>2, <1>3, <1>4, <1>5, <1>7 DEF TaskOK, Live
<1>9. ~Stuck(t)'
  BY <1>1, <1>2, <1>4, <1>6, <1>7 DEF Stuck, Silent
<1> QED BY <1>8, <1>9, HandledKept

LEMMA SettleStep ==
    ASSUME IndInv, NEW t \in Tasks, SettleTask(t)
    PROVE  IndInv'
<1>1. PICK s \in {"completed", "failed"} : Settle(t, s)
  BY DEF SettleTask
<1>2. exec[t] = "running" /\ UNCHANGED <<up, rec, scan, early, crashes, limits>>
  BY <1>1 DEF Settle
<1>3. SlotInv /\ BusType /\ DiskType /\ ProcessType /\ queue \in Seq(Tasks)
  BY IndParts DEF SlotInv, SlotType
<1>4. DiskType' /\ ProcessType'
  BY <1>2, <1>3 DEF DiskType, ProcessType
<1> DEFINE f == Finished(bus[t], s)
<1>5. s \in TerminalStates /\ f \in BusRecord
  <2>1. s \in TerminalStates
    BY DEF TerminalStates
  <2> QED BY <2>1, FinishedBus
<1>6. ASSUME exec'[t] = "over", bus'[t] = f PROVE Handled(t)
  BY <1>2, <1>5, <1>6, Ended
<1> HIDE DEF f
<1>7. CASE queue = <<>>
  <2>1. /\ exec' = [exec EXCEPT ![t] = "over"] /\ bus' = [bus EXCEPT ![t] = f]
        /\ activeTasks' = activeTasks - 1 /\ UNCHANGED <<queue, context>>
    BY <1>1, <1>7 DEF Settle, f
  <2>2. SlotInv'
    BY <1>2, <1>3, <1>7, <2>1, SlotsFree
  <2>3. BusType' /\ exec'[t] = "over" /\ bus'[t] = f
    BY <1>3, <1>5, <2>1, IndTypes DEF BusType
  <2>4. \A u \in Tasks \ {t} : Untouched(u)
    BY <1>2, <2>1, IndTypes DEF Untouched
  <2> QED BY <1>2, <1>4, <1>6, <2>2, <2>3, <2>4, OneTaskStep
<1>8. CASE queue # <<>>
  <2>. PICK h \in Tasks : h = Head(queue)
    BY <1>3, <1>8
  <2> DEFINE p == Published(bus[h], "working")
  <2>1. /\ exec' = [exec EXCEPT ![t] = "over", ![h] = "running"]
        /\ bus' = [bus EXCEPT ![t] = f, ![h] = p]
        /\ queue' = Tail(queue) /\ context' = context \cup {h} /\ activeTasks' = activeTasks
    BY <1>1, <1>8 DEF Settle, f
  <2>2. SlotInv' /\ h \in Tasks /\ h # t /\ exec[h] = "queued"
    BY <1>2, <1>3, <1>8, <2>1, SlotsDrain
  <2>3. TaskOK(h) /\ bus[h] \in BusRecord
    BY <2>2, IndTypes, IndParts DEF TasksOK
  <2>4. /\ p \in BusRecord /\ BusOK(p) /\ p.events # <<>> /\ p.open
        /\ h \notin early => up = "ready"
    <3>1. BusOK(bus[h]) /\ bus[h].open /\ "working" \in States \ TerminalStates
      BY <2>2, <2>3 DEF TaskOK, States, TerminalStates
    <3>2. h \notin early => up = "ready"
      BY <2>2, <2>3 DEF TaskOK, Live
    <3> QED BY <2>3, <3>1, <3>2, PublishedOK
  <2> HIDE DEF p
  <2>5. /\ exec'[t] = "over" /\ bus'[t] = f /\ exec'[h] = "running" /\ bus'[h] = p
        /\ h \in context'
    BY <2>1, <2>2, IndTypes
  <2>6. BusType'
    BY <1>3, <1>5, <2>1, <2>2, <2>4, IndTypes DEF BusType
  <2>7. \A u \in Tasks \ {t, h} : Untouched(u)
    BY <1>2, <2>1, IndTypes DEF Untouched
  <2>8. Handled(h)
    <3>1. /\ rec'[h] = rec[h] /\ BusOK(bus[h])' /\ bus'[h].open
          /\ exec'[h] # "new" /\ exec'[h] # "queued"
      BY <1>2, <2>4, <2>5
    <3>2. Live(h)'
      BY <2>5 DEF Live
    <3>3. ~Silent(h)' /\ ~Stuck(h)'
      BY <3>1, <3>2 DEF Silent, Stuck
    <3>4. Terminal(h)' <=> Terminal(h)
      BY <3>1 DEF Terminal
    <3>5. Terminal(h) => h \in early
      BY <2>2, <2>3 DEF TaskOK, Silent
    <3>6. TaskOK(h)'
      BY <1>2, <2>4, <2>5, <3>1, <3>2, <3>3, <3>4, <3>5 DEF TaskOK
    <3> QED BY <1>2, <2>2, <3>1, <3>3, <3>6, HandledKept
  <2>9. {t, h} \in SUBSET Tasks /\ \A u \in {t, h} : Handled(u)
    BY <1>6, <2>2, <2>5, <2>8
  <2> QED BY <1>2, <1>4, <2>2, <2>6, <2>7, <2>9, TasksStep
<1> QED BY <1>7, <1>8

LEMMA HeartbeatStep ==
    ASSUME IndInv, NEW t \in Tasks, Heartbeat(t)
    PROVE  IndInv'
<1> DEFINE p == Published(bus[t], "working")
<1>1. /\ exec[t] = "running" /\ bus[t].open /\ bus' = [bus EXCEPT ![t] = p]
      /\ UNCHANGED <<exec, queue, activeTasks, context>>
      /\ UNCHANGED <<up, rec, scan, early, crashes, limits>>
  BY DEF Heartbeat
<1>2. SlotInv /\ BusType /\ DiskType /\ ProcessType /\ TaskOK(t)
  BY IndParts DEF TasksOK
<1>3. SlotInv' /\ DiskType' /\ ProcessType'
  BY <1>1, <1>2, SlotsKept DEF DiskType, ProcessType
<1>4. p \in BusRecord /\ BusOK(p) /\ p.events # <<>> /\ p.open
  <2>1. bus[t] \in BusRecord /\ BusOK(bus[t]) /\ "working" \in States \ TerminalStates
    BY <1>2, IndTypes DEF TaskOK, States, TerminalStates
  <2> QED BY <1>1, <2>1, PublishedOK
<1> HIDE DEF p
<1>5. BusType' /\ bus'[t] = p
  BY <1>1, <1>2, <1>4, IndTypes DEF BusType
<1>6. \A u \in Tasks \ {t} : Untouched(u)
  BY <1>1, IndTypes DEF Untouched
<1>7. ~Silent(t)' /\ ~Stuck(t)' /\ (Terminal(t)' <=> Terminal(t)) /\ (Live(t)' <=> Live(t))
  BY <1>1, <1>4, <1>5 DEF Silent, Stuck, Terminal, Live
<1>8. ~Silent(t)
  BY <1>1 DEF Silent
<1>9. TaskOK(t)'
  BY <1>1, <1>2, <1>4, <1>5, <1>7, <1>8 DEF TaskOK
<1>10. Handled(t)
  BY <1>1, <1>7, <1>9, HandledKept
<1> QED BY <1>1, <1>3, <1>5, <1>6, <1>10, OneTaskStep

(* A cancel closes the bus of a task that this process has.                  *)
LEMMA CancelQueuedStep ==
    ASSUME IndInv, NEW t \in Tasks, Touch(t), CancelQueued(t), up # "down",
           UNCHANGED <<up, scan, crashes, limits>>
    PROVE  IndInv'
<1> DEFINE f == Finished(bus[t], "canceled")
<1>1. /\ exec[t] = "queued" /\ exec' = [exec EXCEPT ![t] = "over"]
      /\ bus' = [bus EXCEPT ![t] = f] /\ UNCHANGED <<activeTasks, context, rec>>
  BY DEF CancelQueued
<1>2. SlotInv /\ BusType /\ DiskType /\ ProcessType /\ TaskOK(t)
  BY IndParts DEF TasksOK
<1>3. ProcessType' /\ early \subseteq early' /\ (up = "listening" => t \in early')
  BY <1>2, TouchType
<1>4. SlotInv' /\ DiskType'
  BY <1>1, <1>2, SlotsCancel DEF DiskType
<1>5. f \in BusRecord /\ BusOK(f) /\ ~f.open /\ f.events # <<>>
  <2>1. bus[t].open /\ "canceled" \in TerminalStates
    BY <1>1, <1>2 DEF TaskOK, TerminalStates
  <2> QED BY <2>1, FinishedBus
<1> HIDE DEF f
<1>6. BusType' /\ bus'[t] = f /\ exec'[t] = "over"
  BY <1>1, <1>2, <1>5, IndTypes DEF BusType
<1>7. \A u \in Tasks \ {t} : Untouched(u)
  BY <1>1, IndTypes DEF Untouched
<1>8. ~Silent(t)' /\ ~Stuck(t)' /\ (Terminal(t)' <=> Terminal(t))
  BY <1>1, <1>5, <1>6 DEF Silent, Stuck, Terminal
<1>9. (up # "ready" => t \in early') /\ (Terminal(t) => t \in early)
  BY <1>1, <1>2, <1>3 DEF ProcessType, TaskOK, Silent
<1>10. TaskOK(t)'
  BY <1>3, <1>5, <1>6, <1>8, <1>9 DEF TaskOK
<1>11. Handled(t)
  BY <1>1, <1>3, <1>6, <1>8, <1>10, HandledKept
<1> QED BY <1>3, <1>4, <1>6, <1>7, <1>11, OneTaskStep

LEMMA CancelRunningStep ==
    ASSUME IndInv, NEW t \in Tasks, Touch(t), CancelRunning(t), up # "down", rec[t] # None,
           UNCHANGED <<up, scan, crashes, limits>>
    PROVE  IndInv'
<1> DEFINE f == IF t \in context THEN Finished(bus[t], "canceled")
                ELSE [bus[t] EXCEPT !.open = FALSE]
<1>1. /\ exec[t] # "queued" /\ (bus[t].open \/ bus[t].events # <<>>)
      /\ bus' = [bus EXCEPT ![t] = f] /\ context' = context \ {t}
      /\ UNCHANGED <<exec, queue, activeTasks, rec>>
  BY DEF CancelRunning
<1>2. SlotInv /\ BusType /\ DiskType /\ ProcessType /\ TaskOK(t)
  BY IndParts DEF TasksOK
<1>3. ProcessType' /\ early \subseteq early' /\ (up = "listening" => t \in early')
  BY <1>2, TouchType
<1>4. SlotInv' /\ DiskType'
  BY <1>1, <1>2, SlotsKept DEF DiskType
<1>5. bus[t].open => t \in context
  BY <1>1, <1>2 DEF TaskOK, Live
<1>6. f \in BusRecord /\ BusOK(f) /\ ~f.open /\ f.events # <<>>
  <2>1. CASE t \in context
    <3>1. /\ Finished(bus[t], "canceled") \in BusRecord /\ BusOK(Finished(bus[t], "canceled"))
          /\ ~Finished(bus[t], "canceled").open
          /\ bus[t].open => Finished(bus[t], "canceled").events # <<>>
          /\ ~bus[t].open => Finished(bus[t], "canceled") = bus[t]
      <4>1. "canceled" \in TerminalStates
        BY DEF TerminalStates
      <4> QED BY <4>1, FinishedBus
    <3> QED BY <1>1, <2>1, <3>1
  <2>2. CASE t \notin context
    <3>1. [bus[t] EXCEPT !.open = FALSE] = bus[t]
      <4>1. bus[t] \in BusRecord /\ bus[t].open = FALSE
        BY <1>5, <2>2, IndTypes DEF BusRecord
      <4>2. /\ [bus[t] EXCEPT !.open = FALSE] = [events |-> bus[t].events, open |-> FALSE]
            /\ bus[t] = [events |-> bus[t].events, open |-> bus[t].open]
        BY <4>1, CloseRecord DEF BusRecord
      <4> QED BY <4>1, <4>2
    <3>2. f = bus[t]
      BY <2>2, <3>1
    <3>3. bus[t] \in BusRecord /\ BusOK(bus[t])
      BY <1>2, IndTypes DEF TaskOK
    <3>4. ~bus[t].open /\ bus[t].events # <<>>
      BY <1>1, <1>5, <2>2
    <3> HIDE DEF f
    <3> QED BY <3>2, <3>3, <3>4
  <2> QED BY <2>1, <2>2
<1> HIDE DEF f
<1>7. BusType' /\ bus'[t] = f
  BY <1>1, <1>2, <1>6, IndTypes DEF BusType
<1>8. \A u \in Tasks \ {t} : Untouched(u)
  BY <1>1, IndTypes DEF Untouched
<1>9. /\ ~Silent(t)' /\ ~Stuck(t)' /\ (Terminal(t)' <=> Terminal(t))
      /\ exec'[t] = exec[t] /\ exec[t] # "new" /\ ~Silent(t)
  BY <1>1, <1>2, <1>6, <1>7 DEF Silent, Stuck, Terminal, TaskOK
<1>10. (up # "ready" => t \in early') /\ (Terminal(t) => t \in early)
  BY <1>2, <1>3, <1>9 DEF ProcessType, TaskOK
<1>11. TaskOK(t)'
  BY <1>1, <1>3, <1>6, <1>7, <1>9, <1>10 DEF TaskOK
<1>12. Handled(t)
  BY <1>1, <1>3, <1>9, <1>11, HandledKept
<1> QED BY <1>3, <1>4, <1>7, <1>8, <1>12, OneTaskStep

(* The cancel of a task that this process does not have decides its record.  *)
LEMMA CancelStoredStep ==
    ASSUME IndInv, NEW t \in Tasks, Touch(t), CancelStored(t), up # "down", rec[t] # None,
           ~Terminal(t), UNCHANGED <<up, scan, crashes, limits>>
    PROVE  IndInv'
<1> DEFINE r == [state |-> "canceled", old |-> FALSE]
<1>1. /\ Silent(t) /\ rec' = [rec EXCEPT ![t] = r]
      /\ UNCHANGED <<exec, queue, activeTasks, bus, context>>
  BY DEF CancelStored, executor, Silent
<1>2. SlotInv /\ BusType /\ DiskType /\ ProcessType /\ TaskOK(t) /\ ScanOK
  BY IndParts DEF TasksOK
<1>3. ProcessType' /\ early \subseteq early' /\ (up = "listening" => t \in early')
  BY <1>2, TouchType
<1>4. SlotInv' /\ BusType'
  BY <1>1, <1>2, SlotsKept DEF BusType
<1>5. r \in Files /\ r.state \in TerminalStates
  BY DEF Files, Records, States, TerminalStates
<1> HIDE DEF r
<1>6. DiskType' /\ rec'[t] = r
  BY <1>1, <1>2, <1>5, IndTypes DEF DiskType
<1>7. \A u \in Tasks \ {t} : Untouched(u)
  BY <1>1, IndTypes DEF Untouched
<1>8. Silent(t)' /\ ~Stuck(t)' /\ (rec'[t] = None \/ Terminal(t)')
  BY <1>1, <1>5, <1>6 DEF Silent, Stuck, Terminal
<1>9. exec[t] # "new" /\ ~bus[t].open
  BY <1>1, <1>2 DEF TaskOK, Silent
<1>10. t \notin early' => up = "ready" /\ scan.job # "recover"
  BY <1>2, <1>3 DEF ProcessType, ScanOK
<1>11. TaskOK(t)'
  BY <1>1, <1>2, <1>8, <1>9, <1>10 DEF TaskOK
<1>12. Handled(t)
  BY <1>1, <1>8, <1>9, <1>10, <1>11 DEF Handled
<1> QED BY <1>3, <1>4, <1>6, <1>7, <1>12, OneTaskStep

LEMMA CancelStep ==
    ASSUME IndInv, NEW t \in Tasks, Cancel(t)
    PROVE  IndInv'
BY CancelQueuedStep, CancelRunningStep, CancelStoredStep DEF Cancel

LEMMA SaveStep ==
    ASSUME IndInv, NEW t \in Tasks, Save(t)
    PROVE  IndInv'
<1> DEFINE r == [state |-> Head(bus[t].events), old |-> FALSE]
           b == [bus[t] EXCEPT !.events = Tail(bus[t].events)]
<1>1. /\ bus[t].events # <<>> /\ rec' = [rec EXCEPT ![t] = r] /\ bus' = [bus EXCEPT ![t] = b]
      /\ UNCHANGED <<exec, queue, activeTasks, context>>
      /\ UNCHANGED <<up, scan, early, crashes, limits>>
  BY DEF Save
<1>2. SlotInv /\ BusType /\ DiskType /\ ProcessType /\ TaskOK(t)
  BY IndParts DEF TasksOK
<1>3. SlotInv' /\ ProcessType'
  BY <1>1, <1>2, SlotsKept DEF ProcessType
<1>4. /\ b \in BusRecord /\ BusOK(b) /\ b.open = bus[t].open
      /\ Head(bus[t].events) \in States
      /\ Head(bus[t].events) \in TerminalStates => ~b.open /\ b.events = <<>>
      /\ b.events = <<>> /\ ~b.open => Head(bus[t].events) \in TerminalStates
  <2>1. bus[t] \in BusRecord /\ BusOK(bus[t])
    BY <1>2, IndTypes DEF TaskOK
  <2> QED BY <1>1, <2>1, SavedOK
<1>5. r \in Files /\ r.state = Head(bus[t].events)
  BY <1>4 DEF Files, Records
<1> HIDE DEF r, b
<1>6. DiskType' /\ BusType' /\ rec'[t] = r /\ bus'[t] = b
  BY <1>1, <1>2, <1>4, <1>5, IndTypes DEF DiskType, BusType
<1>7. \A u \in Tasks \ {t} : Untouched(u)
  BY <1>1, IndTypes DEF Untouched
<1>8. exec'[t] = exec[t] /\ exec[t] # "new" /\ ~Silent(t)
  BY <1>1, <1>2 DEF Silent, TaskOK
<1>9. t \notin early => up = "ready" /\ ~Terminal(t)
  BY <1>2, <1>8 DEF ProcessType, TaskOK
<1>10. /\ Silent(t)' <=> ~b.open /\ b.events = <<>>
       /\ Terminal(t)' => b.events = <<>> /\ ~b.open
       /\ ~b.open /\ b.events = <<>> => rec'[t] = None \/ Terminal(t)'
  BY <1>4, <1>5, <1>6 DEF Silent, Terminal
<1>11. TaskOK(t)'
  BY <1>1, <1>2, <1>4, <1>6, <1>8, <1>9, <1>10 DEF TaskOK, Live
<1>12. ~Stuck(t)'
  BY <1>1, <1>2, <1>4, <1>6, <1>8, <1>10 DEF Stuck, TaskOK, Live
<1>13. t \notin early => scan.job # "recover"
  BY <1>9, IndParts DEF ScanOK
<1>14. Handled(t)
  BY <1>1, <1>8, <1>9, <1>11, <1>12, <1>13 DEF Handled
<1> QED BY <1>1, <1>3, <1>6, <1>7, <1>14, OneTaskStep

LEMMA AgeStep ==
    ASSUME IndInv, NEW t \in Tasks, Age(t)
    PROVE  IndInv'
<1> DEFINE r == [rec[t] EXCEPT !.old = TRUE]
<1>1. /\ rec[t] # None /\ ~rec[t].old /\ rec' = [rec EXCEPT ![t] = r]
      /\ UNCHANGED <<limits, exec, queue, activeTasks, bus, context>>
      /\ UNCHANGED <<up, scan, early, crashes>>
  BY DEF Age, Rest, executor
<1>2. SlotInv /\ BusType /\ DiskType /\ ProcessType /\ TasksOK /\ ScanOK
  BY IndParts
<1>3. SlotInv' /\ BusType' /\ ProcessType'
  BY <1>1, <1>2, SlotsKept DEF BusType, ProcessType
<1>4. r \in Files /\ r.state = rec[t].state
  <2>1. rec[t] \in [state : States, old : BOOLEAN]
    BY <1>1, IndTypes DEF Files, Records
  <2> QED BY <2>1 DEF Files, Records
<1> HIDE DEF r
<1>5. DiskType' /\ rec'[t] = r /\ \A u \in Tasks \ {t} : rec'[u] = rec[u]
  BY <1>1, <1>2, <1>4, IndTypes DEF DiskType
<1>6. \A u \in Tasks : /\ Terminal(u)' => Terminal(u)
                       /\ Stuck(u)' => Stuck(u)
  BY <1>1, <1>4, <1>5 DEF Terminal, Stuck, Live
<1>7. TasksOK'
  <2>1. ASSUME NEW u \in Tasks \ {t} PROVE TaskOK(u)'
    BY <1>1, <1>2, <1>5, TaskKept DEF TasksOK
  <2>2. TaskOK(t)'
    <3>1. TaskOK(t)
      BY <1>2 DEF TasksOK
    <3>2. (rec'[t] = None \/ Terminal(t)') <=> (rec'[t] = None \/ Terminal(t))
      BY <1>1, <1>4, <1>5 DEF Terminal
    <3>3. exec[t] # "new"
      BY <1>1, <3>1 DEF TaskOK
    <3> QED BY <1>1, <1>6, <3>1, <3>2, <3>3 DEF TaskOK, Silent, Live, BusOK
  <2> QED BY <2>1, <2>2 DEF TasksOK
<1>8. \A u \in Tasks \ early' :
         u = scan.got => /\ scan.job = "recover" /\ ~Terminal(u) => ~Terminal(u)'
                         /\ scan.job = "clean" /\ Terminal(u) /\ rec[u].old =>
                                Terminal(u)' /\ rec'[u].old
  BY <1>1, <1>5, <1>6 DEF Terminal
<1>9. ScanOK'
  BY <1>1, <1>2, <1>6, <1>8, ScanKept
<1> QED BY <1>3, <1>5, <1>7, <1>9, IndNext

(* The executor is not concerned by the scans.                               *)
LEMMA ScanStep ==
    ASSUME IndInv, Rest, up' \in {"listening", "ready"}, up' # "ready" => up # "ready",
           early' = early, DiskType', \A t \in Tasks : TaskOK(t) => TaskOK(t)', ScanOK'
    PROVE  IndInv'
<1>1. SlotInv /\ BusType /\ ProcessType /\ TasksOK
  BY IndParts
<1>2. UNCHANGED <<exec, queue, activeTasks, bus, context, crashes, limits>>
  BY DEF Rest, executor
<1>3. SlotInv' /\ BusType' /\ ProcessType'
  BY <1>1, <1>2, SlotsKept DEF BusType, ProcessType
<1> QED BY <1>1, <1>3, IndNext DEF TasksOK

(* A scan step that writes nothing.                                          *)
LEMMA LoadStep ==
    ASSUME IndInv, Rest, up' \in {"listening", "ready"}, up' # "ready" => up # "ready",
           UNCHANGED <<rec, early>>, ScanOK',
           scan' \in [job : {"none", "recover", "clean"}, todo : SUBSET Tasks,
                      got : Tasks \cup {None}]
    PROVE  IndInv'
<1>1. DiskType'
  BY IndTypes DEF DiskType
<1>2. \A t \in Tasks : TaskOK(t) => TaskOK(t)'
  BY TaskKept DEF Rest, executor
<1> QED BY <1>1, <1>2, ScanStep

LEMMA SameTasks ==
    ASSUME Rest, UNCHANGED rec
    PROVE  \A t \in Tasks : (Stuck(t)' <=> Stuck(t)) /\ (Terminal(t)' <=> Terminal(t))
BY DEF Stuck, Live, Terminal, Rest, executor

LEMMA ListenStep == ASSUME IndInv, Listen PROVE IndInv'
<1>1. up = "down" /\ up' = "listening" /\ UNCHANGED <<rec, scan, early>> /\ Rest /\ ScanOK
  BY IndParts DEF Listen
<1>2. ScanOK'
  BY <1>1 DEF ScanOK
<1> QED BY <1>1, <1>2, IndTypes, LoadStep

LEMMA RecoverListStep == ASSUME IndInv, RecoverList PROVE IndInv'
<1>1. /\ up = "listening" /\ scan' = [job |-> "recover", todo |-> Stored, got |-> None]
      /\ UNCHANGED <<up, rec, early>> /\ Rest
  BY DEF RecoverList, NoScan
<1>2. Stored \in SUBSET Tasks /\ None \notin Tasks
  BY TaskConstants DEF Stored
<1>3. \A t \in Tasks : Stuck(t)' => t \in Stored
  BY <1>1, SameTasks DEF Stuck, Stored
<1>4. ScanOK'
  BY <1>1, <1>2, <1>3, IndParts DEF ScanOK
<1> QED BY <1>1, <1>2, <1>4, LoadStep

LEMMA RecoverLoadStep == ASSUME IndInv, NEW t \in Tasks, RecoverLoad(t) PROVE IndInv'
<1> DEFINE g == IF rec[t] = None \/ Terminal(t) THEN None ELSE t
<1>1. /\ scan.job = "recover" /\ scan.got = None /\ t \in scan.todo
      /\ UNCHANGED <<up, rec, early>> /\ Rest
      /\ scan' = [scan EXCEPT !.todo = scan.todo \ {t}, !.got = g]
  BY DEF RecoverLoad, Loads
<1>2. g \in {t, None} /\ (g = t => rec[t] # None /\ ~Terminal(t)) /\ (Stuck(t) => g = t)
  BY TaskConstants DEF Stuck
<1> HIDE DEF g
<1>3. /\ scan'.job = "recover" /\ scan'.todo = scan.todo \ {t} /\ scan'.got = g
      /\ scan' \in [job : {"none", "recover", "clean"}, todo : SUBSET Tasks,
                    got : Tasks \cup {None}]
  BY <1>1, <1>2, IndTypes
<1>4. ScanOK /\ TaskOK(t) /\ up = "listening" /\ up' = "listening" /\ early' = early
  BY <1>1, IndParts DEF TasksOK, ScanOK
<1>5. \A u \in Tasks : Stuck(u)' => u \in scan'.todo \/ u = scan'.got
  BY <1>1, <1>2, <1>3, <1>4, SameTasks, TaskConstants DEF ScanOK
<1>6. \A u \in Tasks : u = scan'.got => exec'[u] # "new" /\ ~Terminal(u)'
  <2>1. exec' = exec
    BY <1>1 DEF Rest, executor
  <2> QED BY <1>1, <1>2, <1>3, <1>4, <2>1, SameTasks, TaskConstants DEF TaskOK
<1>7. ScanOK'
  BY <1>3, <1>4, <1>5, <1>6 DEF ScanOK
<1> QED BY <1>1, <1>3, <1>4, <1>7, LoadStep

(* A stale task is failed.                                                   *)
LEMMA RecoverSaveStep == ASSUME IndInv, RecoverSave PROVE IndInv'
<1>1. PICK t \in Tasks : t = scan.got
  BY IndTypes DEF RecoverSave
<1> DEFINE r == [state |-> "failed", old |-> FALSE]
<1>2. /\ scan.job = "recover" /\ rec' = [rec EXCEPT ![t] = r] /\ scan' = [scan EXCEPT !.got = None]
      /\ UNCHANGED <<up, early>> /\ Rest
  BY <1>1 DEF RecoverSave
<1>3. ScanOK /\ TaskOK(t) /\ up = "listening" /\ exec[t] # "new"
  BY <1>1, <1>2, IndParts DEF ScanOK, TasksOK
<1>4. r \in Files /\ r.state \in TerminalStates
  BY DEF Files, Records, States, TerminalStates
<1> HIDE DEF r
<1>5. DiskType' /\ rec'[t] = r /\ \A u \in Tasks \ {t} : rec'[u] = rec[u]
  BY <1>2, <1>4, IndTypes DEF DiskType
<1>6. scan'.job = "recover" /\ scan'.todo = scan.todo /\ scan'.got = None /\ None \notin Tasks
  BY <1>2, IndTypes
<1>7. UNCHANGED <<exec, bus, context>>
  BY <1>2 DEF Rest, executor
<1>8. ~Stuck(t)' /\ (rec'[t] = None \/ Terminal(t)')
  BY <1>4, <1>5 DEF Stuck, Terminal
<1>9. \A u \in Tasks \ {t} : Stuck(u)' <=> Stuck(u)
  BY <1>5, <1>7 DEF Stuck, Live, Terminal
<1>10. \A u \in Tasks : TaskOK(u) => TaskOK(u)'
  <2>1. ASSUME NEW u \in Tasks \ {t}, TaskOK(u) PROVE TaskOK(u)'
    BY <1>2, <1>5, <1>7, <2>1, TaskKept
  <2>2. TaskOK(t)'
    BY <1>2, <1>3, <1>7, <1>8 DEF TaskOK, Silent, Live, BusOK
  <2> QED BY <2>1, <2>2
<1>11. ScanOK'
  BY <1>1, <1>2, <1>3, <1>6, <1>8, <1>9 DEF ScanOK
<1> QED BY <1>2, <1>3, <1>5, <1>10, <1>11, ScanStep

LEMMA CleanupType ==
    ASSUME Cleanup
    PROVE  /\ scan'.job = "clean" /\ scan'.got = None /\ None \notin Tasks
           /\ scan' \in [job : {"none", "recover", "clean"}, todo : SUBSET Tasks,
                         got : Tasks \cup {None}]
<1>1. scan' = [job |-> "clean", todo |-> Old, got |-> None] /\ Old \in SUBSET Tasks
  BY DEF Cleanup, NoScan, Old, Stored
<1> QED BY <1>1, TaskConstants

LEMMA RecoverDoneStep == ASSUME IndInv, RecoverDone PROVE IndInv'
<1>1. /\ scan.job = "recover" /\ scan.got = None /\ scan.todo = {} /\ up' = "ready" /\ Cleanup
      /\ UNCHANGED <<rec, early>> /\ Rest
  BY DEF RecoverDone
<1>2. \A t \in Tasks : ~Stuck(t)'
  BY <1>1, SameTasks, TaskConstants, IndParts DEF ScanOK
<1>3. ScanOK'
  BY <1>1, <1>2, CleanupType DEF ScanOK
<1> QED BY <1>1, <1>3, CleanupType, LoadStep

LEMMA CleanupTimerStep == ASSUME IndInv, CleanupTimer PROVE IndInv'
<1>1. up = "ready" /\ Cleanup /\ UNCHANGED <<up, rec, early>> /\ Rest
  BY DEF CleanupTimer
<1>2. \A t \in Tasks : ~Stuck(t)'
  BY <1>1, SameTasks, IndParts DEF ScanOK
<1>3. ScanOK'
  BY <1>1, <1>2, CleanupType DEF ScanOK
<1> QED BY <1>1, <1>3, CleanupType, LoadStep

LEMMA CleanupLoadStep == ASSUME IndInv, NEW t \in Tasks, CleanupLoad(t) PROVE IndInv'
<1> DEFINE g == IF Terminal(t) /\ t \in Old THEN t ELSE None
<1>1. /\ scan.job = "clean" /\ UNCHANGED <<up, rec, early>> /\ Rest
      /\ scan' = [scan EXCEPT !.todo = scan.todo \ {t}, !.got = g]
  BY DEF CleanupLoad, Loads
<1>2. g \in {t, None} /\ (g = t => Terminal(t) /\ rec[t].old)
  BY TaskConstants DEF Old
<1> HIDE DEF g
<1>3. /\ scan'.job = "clean" /\ scan'.got = g
      /\ scan' \in [job : {"none", "recover", "clean"}, todo : SUBSET Tasks,
                    got : Tasks \cup {None}]
  BY <1>1, <1>2, IndTypes
<1>4. up = "ready" /\ \A u \in Tasks : ~Stuck(u)'
  BY <1>1, SameTasks, IndParts DEF ScanOK
<1>5. \A u \in Tasks : u = scan'.got => Terminal(u)' /\ rec'[u].old
  BY <1>1, <1>2, <1>3, SameTasks, TaskConstants
<1>6. ScanOK'
  BY <1>1, <1>3, <1>4, <1>5 DEF ScanOK
<1> QED BY <1>1, <1>3, <1>4, <1>6, LoadStep

(* An old record is deleted.                                                 *)
LEMMA CleanupDeleteStep == ASSUME IndInv, CleanupDelete PROVE IndInv'
<1>1. PICK t \in Tasks : t = scan.got
  BY IndTypes DEF CleanupDelete
<1>2. /\ scan.job = "clean" /\ rec' = [rec EXCEPT ![t] = None] /\ scan' = [scan EXCEPT !.got = None]
      /\ UNCHANGED <<up, early>> /\ Rest
  BY <1>1 DEF CleanupDelete
<1>3. ScanOK /\ up = "ready"
  BY <1>2, IndParts DEF ScanOK
<1>4. DiskType' /\ rec'[t] = None /\ \A u \in Tasks \ {t} : rec'[u] = rec[u]
  BY <1>2, IndTypes DEF DiskType, Files
<1>5. scan'.job = "clean" /\ scan'.got = None /\ None \notin Tasks
  BY <1>2, IndTypes
<1>6. UNCHANGED <<exec, bus, context>>
  BY <1>2 DEF Rest, executor
<1>7. ~Stuck(t)' /\ \A u \in Tasks \ {t} : Stuck(u)' <=> Stuck(u)
  BY <1>4, <1>6 DEF Stuck, Live, Terminal
<1>8. \A u \in Tasks : TaskOK(u) => TaskOK(u)'
  <2>1. ASSUME NEW u \in Tasks \ {t}, TaskOK(u) PROVE TaskOK(u)'
    BY <1>2, <1>4, <1>6, <2>1, TaskKept
  <2>2. TaskOK(t) => TaskOK(t)'
    BY <1>2, <1>3, <1>4, <1>6 DEF TaskOK, Silent, Live, BusOK, Terminal
  <2> QED BY <2>1, <2>2
<1>9. ScanOK'
  BY <1>2, <1>3, <1>5, <1>7 DEF ScanOK
<1> QED BY <1>2, <1>3, <1>4, <1>8, <1>9, ScanStep

LEMMA CleanupDoneStep == ASSUME IndInv, CleanupDone PROVE IndInv'
<1>1. scan' = NoScan /\ scan.job = "clean" /\ UNCHANGED <<up, rec, early>> /\ Rest
  BY DEF CleanupDone
<1>2. /\ scan'.job = "none"
      /\ scan' \in [job : {"none", "recover", "clean"}, todo : SUBSET Tasks,
                    got : Tasks \cup {None}]
  BY <1>1 DEF NoScan
<1>3. up = "ready" /\ \A u \in Tasks : ~Stuck(u)'
  BY <1>1, SameTasks, IndParts DEF ScanOK
<1>4. ScanOK'
  BY <1>1, <1>2, <1>3 DEF ScanOK
<1> QED BY <1>1, <1>2, <1>3, <1>4, LoadStep

LEMMA ClosedOK == Closed \in BusRecord /\ BusOK(Closed) /\ Closed.events = <<>> /\ ~Closed.open
<1>1. Closed \in BusRecord /\ Closed.events = <<>> /\ ~Closed.open
  BY DEF Closed, BusRecord
<1>2. 1..Len(<<>>) = {}
  OBVIOUS
<1> QED BY <1>1, <1>2 DEF BusOK

LEMMA CrashStep == ASSUME IndInv, Crash PROVE IndInv'
<1>1. /\ up' = "down" /\ crashes' = crashes + 1 /\ crashes < MaxCrashes
      /\ exec' = [t \in Tasks |-> IF exec[t] = "new" THEN "new" ELSE "over"]
      /\ queue' = <<>> /\ activeTasks' = 0 /\ bus' = [t \in Tasks |-> Closed]
      /\ context' = {} /\ scan' = NoScan /\ early' = {} /\ rec' = rec /\ limits' = limits
  BY DEF Crash
<1>2. SlotInv /\ DiskType /\ ProcessType /\ TasksOK
  BY IndParts
<1>3. SlotInv'
  BY <1>1, <1>2, SlotsEmpty DEF SlotInv, SlotType
<1>4. BusType'
  BY <1>1, ClosedOK DEF BusType
<1>5. DiskType'
  BY <1>1, <1>2 DEF DiskType, NoScan
<1>6. ProcessType'
  BY <1>1, <1>2, TaskConstants DEF ProcessType
<1>7. TasksOK'
  <2> SUFFICES ASSUME NEW t \in Tasks PROVE TaskOK(t)'
    BY DEF TasksOK
  <2>1. bus'[t] = Closed /\ rec'[t] = rec[t] /\ exec'[t] \in {"new", "over"}
    BY <1>1
  <2>2. exec'[t] = "new" => rec[t] = None
    BY <1>1, <1>2 DEF TasksOK, TaskOK
  <2>3. BusOK(bus[t])' /\ ~bus'[t].open /\ Silent(t)'
    BY <2>1, ClosedOK DEF Silent
  <2> QED BY <2>1, <2>2, <2>3 DEF TaskOK, Live
<1>8. ScanOK'
  BY <1>1 DEF ScanOK, NoScan
<1> QED BY <1>3, <1>4, <1>5, <1>6, <1>7, <1>8, IndNext

LEMMA StutterStep == ASSUME IndInv, UNCHANGED vars PROVE IndInv'
<1>1. UNCHANGED <<limits, up, exec, queue, activeTasks, bus, context, rec, scan, early, crashes>>
  BY DEF vars, executor
<1>2. SlotInv /\ BusType /\ DiskType /\ ProcessType /\ TasksOK /\ ScanOK
  BY IndParts
<1>3. SlotInv' /\ BusType' /\ DiskType' /\ ProcessType'
  BY <1>1, <1>2, SlotsKept DEF BusType, DiskType, ProcessType
<1>4. TasksOK'
  BY <1>1, <1>2, TaskKept DEF TasksOK
<1>5. ScanOK'
  BY <1>1, <1>2 DEF ScanOK, Stuck, Live, Terminal
<1> QED BY <1>3, <1>4, <1>5, IndNext

(***************************************************************************)
(* The theorems                                                            *)
(***************************************************************************)
LEMMA IndInit == ASSUME Init PROVE IndInv
<1>1. /\ limits \in Limits /\ up = "down" /\ exec = [t \in Tasks |-> "new"] /\ queue = <<>>
      /\ activeTasks = 0 /\ bus = [t \in Tasks |-> Closed] /\ context = {}
      /\ rec = [t \in Tasks |-> None] /\ scan = NoScan /\ early = {} /\ crashes = 0
  BY DEF Init
<1>2. limits.maxConcurrentTasks \in Nat /\ limits.maxQueuedTasks \in Nat
  BY <1>1, LimitsType
<1>3. SlotType
  BY <1>1, <1>2 DEF SlotType, ExecStates
<1>4. Running = {}
  BY <1>1 DEF Running
<1>5. \A t \in Tasks : exec[t] # "queued"
  BY <1>1
<1>6. SlotsExact
  <2>1. 1..Len(queue) = {} /\ Len(queue) <= limits.maxQueuedTasks
    BY <1>1, <1>2
  <2> QED BY <1>1, <1>4, <1>5, <2>1, SlotsParts, FS_EmptySet
<1>7. BusType /\ DiskType /\ ProcessType
  BY <1>1, ClosedOK, TaskConstants DEF BusType, DiskType, ProcessType, Files, NoScan
<1>8. TasksOK
  <2> SUFFICES ASSUME NEW t \in Tasks PROVE TaskOK(t)
    BY DEF TasksOK
  <2>1. bus[t] = Closed /\ rec[t] = None /\ exec[t] = "new"
    BY <1>1
  <2> QED BY <2>1, ClosedOK DEF TaskOK, Live, Silent, Terminal
<1>9. ScanOK
  BY <1>1 DEF ScanOK, NoScan
<1> QED BY <1>3, <1>6, <1>7, <1>8, <1>9, IndParts DEF SlotInv

LEMMA IndStep == ASSUME IndInv, [Next]_vars PROVE IndInv'
<1>1. CASE \E t \in Tasks : \/ Execute(t) \/ SettleTask(t) \/ Heartbeat(t) \/ Cancel(t)
                            \/ Save(t) \/ Age(t)
  BY <1>1, ExecuteStep, SettleStep, HeartbeatStep, CancelStep, SaveStep, AgeStep
<1>2. CASE Listen \/ CleanupTimer \/ Crash
  BY <1>2, ListenStep, CleanupTimerStep, CrashStep
<1>3. CASE RecoverStep
  BY <1>3, RecoverListStep, RecoverLoadStep, RecoverSaveStep, RecoverDoneStep DEF RecoverStep
<1>4. CASE CleanupStep
  BY <1>4, CleanupLoadStep, CleanupDeleteStep, CleanupDoneStep DEF CleanupStep
<1>5. CASE UNCHANGED vars
  BY <1>5, StutterStep
<1> QED BY <1>1, <1>2, <1>3, <1>4, <1>5 DEF Next

LEMMA IndAlways == Spec => []IndInv
BY IndInit, IndStep, PTL DEF Spec

(* Every variable keeps its type: the queue, the buses, the records and the  *)
(* scans of QueueingAgentExecutor, the request handler and FileTaskStore.    *)
THEOREM TaskTypeCorrect == Spec => []TypeOK
<1>1. IndInv => TypeOK
  BY DEF IndInv
<1> QED BY <1>1, IndAlways, PTL

(* activeTasks is the number of running tasks, a task waits exactly once and *)
(* only while all slots are taken, whatever ends, is canceled or crashes     *)
(* (QueueingAgentExecutor).                                                  *)
THEOREM TaskSlotsExact == Spec => []SlotsExact
<1>1. IndInv => SlotsExact
  BY DEF IndInv
<1> QED BY <1>1, IndAlways, PTL

(* Once recoverStaleTasks is over, a record that is not terminal belongs to  *)
(* a task of this process.                                                   *)
THEOREM TaskNoStale == Spec => []NoStaleTask
<1>1. IndInv => NoStaleTask
  BY DEF IndInv, ScanOK, Stuck, NoStaleTask
<1> QED BY <1>1, IndAlways, PTL

(* What a step does to a record that peers did not touch during the recovery. *)
Final(t) ==
    /\ rec[t] # None /\ rec'[t] = None => Terminal(t) /\ rec[t].old
    /\ Terminal(t) /\ rec'[t] # None => rec'[t].state = rec[t].state

LEMMA FinalStep ==
    ASSUME IndInv, Next, NEW t \in Tasks \ early
    PROVE  Final(t)
<1>1. TaskOK(t) /\ ScanOK /\ t \in Tasks /\ rec \in [Tasks -> Files]
  BY IndParts, IndTypes DEF TasksOK
<1>2. ASSUME rec'[t] = rec[t] PROVE Final(t)
  BY <1>2 DEF Final
<1>3. ASSUME NEW u \in Tasks, Execute(u) \/ SettleTask(u) \/ Heartbeat(u) PROVE Final(t)
  BY <1>2, <1>3 DEF Execute, SettleTask, Settle, Heartbeat
<1>4. ASSUME NEW u \in Tasks, Cancel(u) PROVE Final(t)
  <2>1. CASE CancelQueued(u) \/ CancelRunning(u)
    BY <1>2, <2>1 DEF CancelQueued, CancelRunning
  <2>2. CASE CancelStored(u)
    <3>1. rec[u] # None /\ ~Terminal(u)
      BY <1>4 DEF Cancel
    <3>2. rec' = [rec EXCEPT ![u] = [state |-> "canceled", old |-> FALSE]]
      BY <2>2 DEF CancelStored
    <3>3. CASE u = t
      <4>1. [state |-> "canceled", old |-> FALSE] \in Records
        BY DEF Records, States, TerminalStates
      <4>2. rec'[t] # None
        BY <1>1, <3>2, <3>3, <4>1, NoneIsNoRecord
      <4> QED BY <3>1, <3>3, <4>2 DEF Final
    <3>4. CASE u # t
      BY <1>1, <1>2, <3>2, <3>4
    <3> QED BY <3>3, <3>4
  <2> QED BY <1>4, <2>1, <2>2 DEF Cancel
<1>5. ASSUME NEW u \in Tasks, Save(u) PROVE Final(t)
  <2>1. /\ bus[u].events # <<>>
        /\ rec' = [rec EXCEPT ![u] = [state |-> Head(bus[u].events), old |-> FALSE]]
    BY <1>5 DEF Save
  <2>2. CASE u = t
    <3>1. ~Terminal(t)
      BY <1>1, <2>1, <2>2 DEF TaskOK, Silent
    <3>2. rec'[t] # None
      <4>1. bus[t].events \in Seq(States)
        BY <1>1, IndTypes DEF BusRecord
      <4>2. Head(bus[t].events) \in States
        BY <2>1, <2>2, <4>1, HeadTailProperties
      <4>3. [state |-> Head(bus[t].events), old |-> FALSE] \in Records
        BY <4>2 DEF Records
      <4> QED BY <1>1, <2>1, <2>2, <4>3, NoneIsNoRecord
    <3> QED BY <3>1, <3>2 DEF Final
  <2>3. CASE u # t
    BY <1>1, <1>2, <2>1, <2>3
  <2> QED BY <2>2, <2>3
(* The TTL passes: the state stays.                                          *)
<1>6. ASSUME NEW u \in Tasks, Age(u) PROVE Final(t)
  <2>1. rec[u] # None /\ rec' = [rec EXCEPT ![u] = [rec[u] EXCEPT !.old = TRUE]]
    BY <1>6 DEF Age
  <2>2. CASE u = t
    <3>1. rec[t] \in Records
      BY <1>1, <2>1, <2>2 DEF Files
    <3>2. /\ [rec[t] EXCEPT !.old = TRUE] \in Records
          /\ [rec[t] EXCEPT !.old = TRUE].state = rec[t].state
      BY <3>1 DEF Records
    <3>3. rec'[t] = [rec[t] EXCEPT !.old = TRUE]
      BY <1>1, <2>1, <2>2
    <3>4. rec'[t] # None /\ rec'[t].state = rec[t].state
      BY <3>2, <3>3, NoneIsNoRecord
    <3> QED BY <3>4 DEF Final
  <2>3. CASE u # t
    BY <1>1, <1>2, <2>1, <2>3
  <2> QED BY <2>2, <2>3
<1>7. ASSUME Listen \/ CleanupTimer \/ Crash PROVE Final(t)
  BY <1>2, <1>7 DEF Listen, CleanupTimer, Crash
<1>8. ASSUME RecoverStep PROVE Final(t)
  <2>1. CASE RecoverSave
    <3>1. /\ scan.job = "recover"
          /\ rec' = [rec EXCEPT ![scan.got] = [state |-> "failed", old |-> FALSE]]
      BY <2>1 DEF RecoverSave
    <3>2. CASE t = scan.got
      <4>1. [state |-> "failed", old |-> FALSE] \in Records
        BY DEF Records, States, TerminalStates
      <4>2. rec'[t] # None /\ ~Terminal(t)
        BY <1>1, <3>1, <3>2, <4>1, NoneIsNoRecord DEF ScanOK
      <4> QED BY <4>2 DEF Final
    <3>3. CASE t # scan.got
      BY <1>1, <1>2, <3>1, <3>3
    <3> QED BY <3>2, <3>3
  <2>2. CASE RecoverList \/ RecoverDone \/ \E u \in Tasks : RecoverLoad(u)
    BY <1>2, <2>2 DEF RecoverList, RecoverDone, RecoverLoad
  <2> QED BY <1>8, <2>1, <2>2 DEF RecoverStep
<1>9. ASSUME CleanupStep PROVE Final(t)
  <2>1. CASE CleanupDelete
    <3>1. scan.job = "clean" /\ rec' = [rec EXCEPT ![scan.got] = None]
      BY <2>1 DEF CleanupDelete
    <3>2. CASE t = scan.got
      <4>1. Terminal(t) /\ rec[t].old /\ rec'[t] = None
        BY <1>1, <3>1, <3>2 DEF ScanOK
      <4> QED BY <4>1 DEF Final
    <3>3. CASE t # scan.got
      BY <1>1, <1>2, <3>1, <3>3
    <3> QED BY <3>2, <3>3
  <2>2. CASE CleanupDone \/ \E u \in Tasks : CleanupLoad(u)
    BY <1>2, <2>2 DEF CleanupDone, CleanupLoad
  <2> QED BY <1>9, <2>1, <2>2 DEF CleanupStep
<1> QED BY <1>3, <1>4, <1>5, <1>6, <1>7, <1>8, <1>9 DEF Next

(* An outcome is final: a terminal record of FileTaskStore keeps its state   *)
(* until it has expired, and only then the clean-up deletes it, except for   *)
(* tasks that peers touched while the recovery was running.                  *)
THEOREM TaskRecordsFinal == Spec => RecordsFinal
<1>1. IndInv /\ [Next]_vars =>
        [\A t \in Tasks \ early :
            /\ rec[t] # None /\ rec'[t] = None => Terminal(t) /\ rec[t].old
            /\ Terminal(t) /\ rec'[t] # None => rec'[t].state = rec[t].state]_vars
  BY FinalStep DEF Final
<1> QED BY <1>1, IndAlways, PTL DEF Spec, RecordsFinal
=============================================================================
