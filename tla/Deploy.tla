------------------------------- MODULE Deploy -------------------------------
(***************************************************************************)
(* Deployment of containers on the private hosts of one pod: the API       *)
(* handler (create_private in eru/api/deploy.py with the schedulers of     *)
(* eru/helpers/scheduler.py), the Celery workers it sends tasks to         *)
(* (create_containers and remove_containers in eru/async/task.py) and the  *)
(* two stores they share: the Redis ledger of free cores (eru:host:%s:cores*)
(* and eru:container:%s:cores) and the SQL rows of hosts and containers.   *)
(*                                                                         *)
(* Each step is what one process does between two calls another process    *)
(* can get in between: one Redis command or transaction, one SQL commit,   *)
(* one call of a Docker daemon or of a host's agent.  Reads of several     *)
(* hosts inside one call of the scheduler are one step.                    *)
(***************************************************************************)
EXTENDS HostCores

CONSTANTS Hosts,        \* the pod's private, living hosts
          CoresOf,      \* the cores a host was registered with
          Requests,     \* deployment requests, numbered in the order they arrive
          Removers,     \* executions of remove_containers, for one container each
          Asks,         \* what a request may ask for
          MaxInFlight,  \* bound: requests the API serves at the same time
          Overlapping,  \* whether two removals of one container may run at once
          Faults,       \* what may fail, out of FaultKinds
          Crashable,    \* jobs whose worker process may die
          MaxCrashes,   \* bound: worker processes that die
          AnyHost,      \* the request names no host
          Nobody,       \* the scheduler lock is free
          NoBox         \* a job holds no container

FaultKinds == {"broker", "sql", "docker", "network", "health", "removal", "cleaning"}

TaskIds == Requests \X Hosts      \* a request creates at most one task per host
Jobs == TaskIds \cup Removers

ASSUME DeployAssumption ==
    /\ CoresOf \in [Hosts -> SUBSET Cores]
    /\ IsFiniteSet(Hosts) /\ Requests \subseteq Nat /\ IsFiniteSet(Requests)
    /\ Asks \subseteq [n : Int, ncore : Nat, nshare : 0 .. CoreShare - 1,
                       strategy : {"average", "centralized"}, on : Hosts \cup {AnyHost}]
    /\ MaxInFlight \in Nat \ {0} /\ MaxCrashes \in Nat /\ Overlapping \in BOOLEAN
    /\ Faults \subseteq FaultKinds
    /\ Crashable \subseteq Jobs
    /\ AnyHost \notin Hosts /\ Nobody \notin Requests
    /\ NoBox \notin Requests \X Hosts \X Nat /\ Removers \cap TaskIds = {}

VARIABLES remain,   \* remain[h][c]: score of core c in the sorted set of host h
          count,    \* Host.count of the SQL row, in fragments
          lock,     \* holder of the Redis lock 'scheduler:<pod>'
          req,      \* the handlers of the requests
          job,      \* the workers
          box       \* the containers, by <<request, host, number>>
vars == <<remain, count, lock, req, job, box>>

-----------------------------------------------------------------------------
(* Types and states.                                                       *)

RequestEnded == {"done", "rejected", "raised"}
JobEnded == {"done", "unfinished", "failed", "raised", "crashed"}
RequestStates == {"new", "lock", "check", "share", "spin", "measure", "take", "enqueue",
                  "occupy"} \cup RequestEnded
JobStates == {"none", "queued", "create", "record", "save", "network", "clean",
              "stop", "read", "release", "drop"} \cup JobEnded

NoAsk == [n |-> 0, ncore |-> 0, nshare |-> 0, strategy |-> "average", on |-> AnyHost]
NoPlan == [h \in {} |-> NoCores]
NewRequest == [pc |-> "new", ask |-> NoAsk, todo |-> {}, quota |-> [h \in Hosts |-> 0],
               need |-> 0, limit |-> 0, at |-> AnyHost, plan |-> NoPlan]
NewJob == [pc |-> "none", next |-> 1, box |-> NoBox, cores |-> NoCores]

NShare(b) == req[b[1]].ask.nshare
HostOf(b) == b[2]
Serving(q) == req[q].pc \notin RequestEnded \cup {"new"}
Scheduling(q) == req[q].pc \in {"check", "share", "spin", "measure", "take"}
Working(j) == job[j].pc \notin JobEnded \cup {"none"}

\* The message of a task carries the plan for its host.
Message(t) == req[t[1]].plan[t[2]]
Chunks(t) == IterCores(Message(t).cores, Message(t).count)

TypeOK ==
    /\ remain \in [Hosts -> [Cores -> Int]]
    /\ count \in [Hosts -> Int]
    /\ lock \in Requests \cup {Nobody}
    /\ \A q \in Requests : lock = q <=> Scheduling(q)
    /\ \A q \in Requests :
          /\ req[q].pc \in RequestStates
          /\ req[q].ask \in Asks \cup {NoAsk}
          /\ req[q].todo \subseteq Hosts
          /\ req[q].at \in Hosts \cup {AnyHost}
          /\ \A h \in DOMAIN req[q].plan : h \in Hosts /\ req[q].plan[h].cores \in AllocationType
    /\ \A j \in Jobs :
          /\ job[j].pc \in JobStates
          /\ job[j].box \in DOMAIN box \cup {NoBox}
          /\ job[j].cores \in AllocationType
    /\ \A b \in DOMAIN box :
          /\ b \in Requests \X Hosts \X (Nat \ {0})
          /\ box[b] \in [docker : BOOLEAN, row : BOOLEAN, key : BOOLEAN, cores : AllocationType]

Init ==
    /\ remain = [h \in Hosts |-> [c \in Cores |-> IF c \in CoresOf[h] THEN CoreShare ELSE 0]]
    /\ count = [h \in Hosts |-> Cardinality(CoresOf[h]) * CoreShare]
    /\ lock = Nobody
    /\ req = [q \in Requests |-> NewRequest]
    /\ job = [j \in Jobs |-> NewJob]
    /\ box = [b \in {} |-> NoBox]

-----------------------------------------------------------------------------
(* The handler of a request: scheduling, under the pod's lock.             *)

Capacity(q, h) == MaxContainerCount(remain[h], req[q].ask.ncore, req[q].ask.nshare)
CapacityDefined(q) ==
    \A h \in Hosts : CountDefined(remain[h], req[q].ask.ncore, req[q].ask.nshare)
PodCapacity(q) == SumFunction([h \in Hosts |-> Capacity(q, h)])

Pinned(q) == req[q].ask.on # AnyHost
ByQuota(q) == ~Pinned(q) /\ req[q].ask.strategy = "average"

\* The handler leaves the scheduler, by return or by exception: the lock and
\* the local variables go.
Left(q, state, plan) ==
    [req EXCEPT ![q] = [NewRequest EXCEPT !.pc = state, !.ask = req[q].ask,
                                          !.plan = plan, !.todo = DOMAIN plan]]

\* Mutant: the lock stays.
MutantLeave(q, state) ==
    /\ req' = Left(q, state, NoPlan)
    /\ UNCHANGED lock

Leave(q, state) ==
    /\ req' = Left(q, state, NoPlan)
    /\ lock' = Nobody

Submit(q) ==
    /\ req[q].pc = "new"
    /\ \A r \in Requests : r < q => req[r].pc # "new"
    /\ Cardinality({r \in Requests : Serving(r)}) < MaxInFlight
    /\ \E a \in Asks : req' = [req EXCEPT ![q].pc = "lock", ![q].ask = a]
    /\ UNCHANGED <<remain, count, lock, job, box>>

AcquireLock(q) ==
    /\ req[q].pc = "lock"
    /\ lock = Nobody
    /\ lock' = q
    /\ req' = [req EXCEPT ![q].pc = "check"]
    /\ UNCHANGED <<remain, count, job, box>>

\* The early returns of average_schedule and centralized_schedule, and the
\* exception get_max_container_count may raise.
Sharable(q) == req[q].ask.nshare = 0 \/ MaxShareCore # 0

Refuse(q) ==
    /\ req[q].pc = "check"
    /\ \/ ~Sharable(q)
       \/ /\ Sharable(q) /\ ~Pinned(q) /\ CapacityDefined(q)
          /\ req[q].ask.n > PodCapacity(q)
    /\ Leave(q, "rejected")
    /\ UNCHANGED <<remain, count, job, box>>

CountRaises(q) ==
    /\ \/ req[q].pc = "check" /\ Sharable(q) /\ ~Pinned(q)
       \/ req[q].pc = "share"
    /\ ~CapacityDefined(q)
    /\ Leave(q, "raised")
    /\ UNCHANGED <<remain, count, job, box>>

\* Mutant: the pod's capacity is not compared with the request.
MutantAccept(q) ==
    /\ req[q].pc = "check"
    /\ Sharable(q)
    /\ ~Pinned(q) => CapacityDefined(q)
    /\ req' = [req EXCEPT ![q].pc = IF ByQuota(q) THEN "share" ELSE "measure",
                          ![q].todo = IF Pinned(q) THEN {req[q].ask.on} ELSE Hosts,
                          ![q].need = req[q].ask.n]
    /\ UNCHANGED <<remain, count, lock, job, box>>

Accept(q) ==
    /\ req[q].pc = "check"
    /\ Sharable(q)
    /\ ~Pinned(q) => CapacityDefined(q) /\ req[q].ask.n <= PodCapacity(q)
    /\ req' = [req EXCEPT ![q].pc = IF ByQuota(q) THEN "share" ELSE "measure",
                          ![q].todo = IF Pinned(q) THEN {req[q].ask.on} ELSE Hosts,
                          ![q].need = req[q].ask.n]
    /\ UNCHANGED <<remain, count, lock, job, box>>

\* Dealing n containers one at a time to the hosts that have room, round and
\* round; a negative room is taken for endless (it is never counted down to 0).
RoundRobin(room, n) ==
    LET open(u, h) == room[h] < 0 \/ u[h] < room[h]
    IN  {u \in [Hosts -> 0 .. n] :
            /\ SumFunction(u) = n
            /\ \A h \in Hosts : room[h] < 0 \/ u[h] <= room[h]
            /\ \A g, h \in Hosts : open(u, g) => u[h] <= u[g] + 1}

\* average_schedule reads the hosts' capacities a second time.  When they are
\* used up before all containers are dealt, its while loop never ends.
ShareOut(q) ==
    /\ req[q].pc = "share"
    /\ CapacityDefined(q)
    /\ LET n == IF req[q].need > 0 THEN req[q].need ELSE 0
           deals == RoundRobin([h \in Hosts |-> Capacity(q, h)], n)
           chosen(u) == {h \in Hosts : u[h] > 0}
       IN  \/ n = 0 /\ Leave(q, "rejected")
           \/ \E u \in deals :
                /\ n > 0
                /\ req' = [req EXCEPT ![q].pc = "measure", ![q].quota = u, ![q].todo = chosen(u)]
                /\ UNCHANGED lock
           \/ /\ deals = {}
              /\ req' = [req EXCEPT ![q].pc = "spin"]
              /\ UNCHANGED lock
    /\ UNCHANGED <<remain, count, job, box>>

\* Host.get_container_cores reads the ledger twice: for the count ...
MeasureHost(q, h) ==
    /\ req[q].pc = "measure"
    /\ h \in req[q].todo
    /\ IF CountDefined(remain[h], req[q].ask.ncore, req[q].ask.nshare)
       THEN /\ req' = [req EXCEPT ![q].pc = "take", ![q].at = h,
                                  ![q].limit = Capacity(q, h)]
            /\ UNCHANGED lock
       ELSE Leave(q, "raised")
    /\ UNCHANGED <<remain, count, job, box>>

\* Mutant: a host is asked again until it has given enough.
MutantHostsLeft(q, need) == IF need <= 0 THEN {} ELSE req[q].todo

\* The hosts still to be asked when need containers are not placed yet.
HostsLeft(q, need) == IF need <= 0 THEN {} ELSE req[q].todo \ {req[q].at}

Wanted(q) == IF ByQuota(q) THEN req[q].quota[req[q].at] ELSE req[q].need

\* ... and for the cores.  average_schedule keeps the count it dealt, whatever
\* the host found; otherwise the count found is what the task will deploy, and
\* a host that found none is passed over.  When no host is left, the lock goes.
TakeCores(q) ==
    /\ req[q].pc = "take"
    /\ LET h == req[q].at
           ask == req[q].ask
           total == Smaller(Wanted(q), req[q].limit)
           found == IF ByQuota(q) THEN req[q].quota[h] ELSE total
           cores == ContainerCores(remain[h], total, ask.ncore, ask.nshare)
           plan == IF found = 0 THEN req[q].plan
                   ELSE [g \in DOMAIN req[q].plan \cup {h} |->
                           IF g = h THEN [count |-> found, cores |-> cores] ELSE req[q].plan[g]]
           need == req[q].need - found
           todo == HostsLeft(q, need)
       IN  IF ~CoresDefined(remain[h], total, ask.ncore, ask.nshare) THEN Leave(q, "raised")
           ELSE IF todo # {}
           THEN /\ req' = [req EXCEPT ![q].pc = "measure", ![q].plan = plan,
                                      ![q].need = need, ![q].todo = todo]
                /\ UNCHANGED lock
           ELSE /\ req' = Left(q, IF DOMAIN plan = {} THEN "rejected" ELSE "enqueue", plan)
                /\ lock' = Nobody
    /\ UNCHANGED <<remain, count, job, box>>

\* The loop that deals containers to hosts without room goes on, with the lock.
Spin(q) == req[q].pc = "spin" /\ UNCHANGED vars

-----------------------------------------------------------------------------
(* The handler of a request: one task for each host of the plan, without   *)
(* the lock.                                                               *)

\* The state after the task of host h has been dealt with.
NextHost(q, h) ==
    [req EXCEPT ![q].todo = @ \ {h}, ![q].at = AnyHost,
                ![q].pc = IF req[q].todo = {h} THEN "done" ELSE "enqueue"]

\* _create_task: the message is with the broker before the cores are occupied.
CreateTask(q, h) ==
    /\ req[q].pc = "enqueue"
    /\ h \in req[q].todo
    /\ job' = [job EXCEPT ![<<q, h>>].pc = "queued"]
    /\ req' = [req EXCEPT ![q].pc = "occupy", ![q].at = h]
    /\ UNCHANGED <<remain, count, lock, box>>

\* Task.create returned None: the host is skipped.
CreateTaskFails(q, h) ==
    /\ "sql" \in Faults
    /\ req[q].pc = "enqueue"
    /\ h \in req[q].todo
    /\ req' = NextHost(q, h)
    /\ UNCHANGED <<remain, count, lock, job, box>>

\* apply_async raised; host.release_cores(cores) lacks an argument and raises
\* in the except clause, so the handler ends and the other hosts get no task.
EnqueueFails(q, h) ==
    /\ "broker" \in Faults
    /\ req[q].pc = "enqueue"
    /\ h \in req[q].todo
    /\ req' = [req EXCEPT ![q].pc = "raised"]
    /\ UNCHANGED <<remain, count, lock, job, box>>

OccupyCores(q) ==
    /\ req[q].pc = "occupy"
    /\ LET h == req[q].at
       IN  /\ remain' = [remain EXCEPT ![h] =
                            Occupied(@, req[q].plan[h].cores, req[q].ask.nshare)]
           /\ req' = NextHost(q, h)
    /\ UNCHANGED <<count, lock, job, box>>

-----------------------------------------------------------------------------
(* create_containers: the worker of a task.                                *)

StartTask(t) ==
    /\ job[t].pc = "queued"
    /\ job' = [job EXCEPT ![t].pc =
                 IF IterDefined(Message(t).cores, Message(t).count) THEN "create" ELSE "raised"]
    /\ UNCHANGED <<remain, count, lock, req, box>>

HasNext(t) == job[t].pc = "create" /\ job[t].next <= Len(Chunks(t))
NextBox(t) == <<t[1], t[2], job[t].next>>

\* dockerjob.create_one_container created and started a container.
CreateContainer(t) ==
    /\ HasNext(t)
    /\ box' = [b \in DOMAIN box \cup {NextBox(t)} |->
                 IF b = NextBox(t)
                 THEN [docker |-> TRUE, row |-> FALSE, key |-> FALSE,
                       cores |-> Chunks(t)[job[t].next]]
                 ELSE box[b]]
    /\ job' = [job EXCEPT ![t].pc = "record", ![t].box = NextBox(t)]
    /\ UNCHANGED <<remain, count, lock, req>>

\* Mutant: the cores go back, and the same container is tried again.
MutantCreateContainerFails(t) ==
    /\ "docker" \in Faults
    /\ HasNext(t)
    /\ remain' = [remain EXCEPT ![t[2]] =
                     Released(@, Chunks(t)[job[t].next], req[t[1]].ask.nshare)]
    /\ UNCHANGED <<count, lock, req, job, box>>

\* It raised: the cores go back and the loop continues.
CreateContainerFails(t) ==
    /\ "docker" \in Faults
    /\ HasNext(t)
    /\ remain' = [remain EXCEPT ![t[2]] =
                     Released(@, Chunks(t)[job[t].next], req[t[1]].ask.nshare)]
    /\ job' = [job EXCEPT ![t].next = @ + 1]
    /\ UNCHANGED <<count, lock, req, box>>

\* The host's count is in cores; nshare fragments are counted once, however
\* many entries of 'part' the container has.
CountedCores(cores, nshare) == CoreShare * Len(cores.full) + nshare

\* Container.create commits the row and the count, then stores the cores.
RecordContainer(t) ==
    /\ job[t].pc = "record"
    /\ LET b == job[t].box
       IN  /\ box' = [box EXCEPT ![b].row = TRUE]
           /\ count' = [count EXCEPT ![t[2]] = @ - CountedCores(box[b].cores, NShare(b))]
    /\ job' = [job EXCEPT ![t].pc = "save"]
    /\ UNCHANGED <<remain, lock, req>>

SaveCores(t) ==
    /\ job[t].pc = "save"
    /\ box' = [box EXCEPT ![job[t].box].key = TRUE]
    /\ job' = [job EXCEPT ![t].pc = "network"]
    /\ UNCHANGED <<remain, count, lock, req>>

\* ipam.allocate_ips returned True: the next container.
AllocateIPs(t) ==
    /\ job[t].pc = "network"
    /\ job' = [job EXCEPT ![t].pc = "create", ![t].next = @ + 1, ![t].box = NoBox]
    /\ UNCHANGED <<remain, count, lock, req, box>>

\* Mutant: the cores are released here and again when the container is cleaned.
MutantAllocateIPsFails(t) ==
    /\ "network" \in Faults
    /\ job[t].pc = "network"
    /\ remain' = [remain EXCEPT ![t[2]] = Released(@, box[job[t].box].cores, NShare(job[t].box))]
    /\ job' = [job EXCEPT ![t].pc = "clean"]
    /\ UNCHANGED <<count, lock, req, box>>

AllocateIPsFails(t) ==
    /\ "network" \in Faults
    /\ job[t].pc = "network"
    /\ job' = [job EXCEPT ![t].pc = "clean"]
    /\ UNCHANGED <<remain, count, lock, req, box>>

\* No container is left to create.  When the health check fails the task
\* returns without being finished.
FinishTask(t) ==
    /\ job[t].pc = "create"
    /\ job[t].next > Len(Chunks(t))
    /\ \E end \in {"done"} \cup (IF "health" \in Faults THEN {"unfinished"} ELSE {}) :
          job' = [job EXCEPT ![t].pc = end]
    /\ UNCHANGED <<remain, count, lock, req, box>>

-----------------------------------------------------------------------------
(* Removal of a container, by remove_containers or by the cleaning of a    *)
(* container that got no address (_clean_failed_containers).               *)

Holds(j, b) == Working(j) /\ job[j].box = b

BeginRemoval(r, b) ==
    /\ job[r].pc = "none"
    /\ box[b].row
    /\ \A t \in TaskIds : ~Holds(t, b)
    /\ Overlapping \/ \A x \in Removers : ~Holds(x, b)
    /\ job' = [job EXCEPT ![r].pc = "stop", ![r].box = b]
    /\ UNCHANGED <<remain, count, lock, req, box>>

\* Mutant: the addresses of a cleaned container are tried again.
MutantRemoveFromDocker(j) ==
    /\ job[j].pc \in {"stop", "clean"}
    /\ box' = [box EXCEPT ![job[j].box].docker = FALSE]
    /\ job' = [job EXCEPT ![j].pc = IF @ = "clean" THEN "network" ELSE "read"]
    /\ UNCHANGED <<remain, count, lock, req>>

\* The Docker daemon removed the container, or does not know it any more.
RemoveFromDocker(j) ==
    /\ job[j].pc \in {"stop", "clean"}
    /\ box' = [box EXCEPT ![job[j].box].docker = FALSE]
    /\ job' = [job EXCEPT ![j].pc = "read"]
    /\ UNCHANGED <<remain, count, lock, req>>

\* Docker answered the stop with a 500: it is sent again, at once, and there is
\* no limit to how often.
StopAgain(j) ==
    /\ job[j].pc \in {"stop", "clean"}
    /\ UNCHANGED vars

\* Any other error of the stop or the removal: remove_containers finishes the
\* task as failed, the exception ends create_containers.
RemoveFromDockerFails(j) ==
    /\ \/ "removal" \in Faults /\ job[j].pc = "stop"
       \/ "cleaning" \in Faults /\ job[j].pc = "clean"
    /\ job' = [job EXCEPT ![j].pc = IF @ = "stop" THEN "failed" ELSE "raised"]
    /\ UNCHANGED <<remain, count, lock, req, box>>

\* Container.delete, in the order of the code: read the stored cores, release
\* them on the host, then count, stored cores and row.  nshare and ncore are
\* read again from the stored cores each time they are used.
ReadCores(j) ==
    /\ job[j].pc = "read"
    /\ job' = [job EXCEPT ![j].pc = "release",
                          ![j].cores = IF box[job[j].box].key THEN box[job[j].box].cores
                                       ELSE NoCores]
    /\ UNCHANGED <<remain, count, lock, req, box>>

\* Mutant: the fragments are forgotten.
MutantReleaseCores(j) ==
    /\ job[j].pc = "release"
    /\ remain' = [remain EXCEPT ![HostOf(job[j].box)] = Released(@, job[j].cores, 0)]
    /\ job' = [job EXCEPT ![j].pc = "drop"]
    /\ UNCHANGED <<count, lock, req, box>>

ReleaseCores(j) ==
    /\ job[j].pc = "release"
    /\ LET b == job[j].box
           nshare == IF box[b].key THEN NShare(b) ELSE 0
       IN  remain' = [remain EXCEPT ![HostOf(b)] = Released(@, job[j].cores, nshare)]
    /\ job' = [job EXCEPT ![j].pc = "drop"]
    /\ UNCHANGED <<count, lock, req, box>>

\* Mutant: the cores are counted after they were deleted.
MutantDropRecord(j) ==
    /\ job[j].pc = "drop"
    /\ box' = [box EXCEPT ![job[j].box].row = FALSE, ![job[j].box].key = FALSE]
    /\ job' = [job EXCEPT ![j] = [pc |-> IF j \in Removers THEN "done" ELSE "create",
                                  next |-> @.next + 1, box |-> NoBox, cores |-> NoCores]]
    /\ UNCHANGED <<remain, count, lock, req>>

DropRecord(j) ==
    /\ job[j].pc = "drop"
    /\ LET b == job[j].box
           ncore == IF box[b].key THEN CountedCores(box[b].cores, NShare(b)) ELSE 0
       IN  /\ count' = [count EXCEPT ![HostOf(b)] = @ + ncore]
           /\ box' = [box EXCEPT ![b].row = FALSE, ![b].key = FALSE]
    /\ job' = [job EXCEPT ![j] = [pc |-> IF j \in Removers THEN "done" ELSE "create",
                                  next |-> @.next + 1, box |-> NoBox, cores |-> NoCores]]
    /\ UNCHANGED <<remain, lock, req>>

\* A worker process dies; the broker does not deliver its message again.  It
\* does not die between releasing a container's cores and deleting the row:
\* the next removal of the container would release them again.
Crash(j) ==
    /\ j \in Crashable
    /\ Working(j) /\ job[j].pc \notin {"queued", "drop"}
    /\ Cardinality({k \in Jobs : job[k].pc = "crashed"}) < MaxCrashes
    /\ job' = [job EXCEPT ![j].pc = "crashed"]
    /\ UNCHANGED <<remain, count, lock, req, box>>

-----------------------------------------------------------------------------
(* The specification.                                                      *)

Schedule(q) ==
    \/ AcquireLock(q) \/ Refuse(q) \/ CountRaises(q) \/ Accept(q) \/ ShareOut(q)
    \/ \E h \in Hosts : MeasureHost(q, h)
    \/ TakeCores(q) \/ Spin(q)

Answer(q) ==
    \/ \E h \in Hosts : CreateTask(q, h) \/ CreateTaskFails(q, h) \/ EnqueueFails(q, h)
    \/ OccupyCores(q)

Handler(q) == Schedule(q) \/ Answer(q)

Create(t) ==
    \/ StartTask(t)
    \/ CreateContainer(t) \/ CreateContainerFails(t)
    \/ RecordContainer(t) \/ SaveCores(t)
    \/ AllocateIPs(t) \/ AllocateIPsFails(t)
    \/ FinishTask(t)

Delete(j) == ReadCores(j) \/ ReleaseCores(j) \/ DropRecord(j)
Removal(j) == RemoveFromDocker(j) \/ RemoveFromDockerFails(j) \/ Delete(j)

\* Nothing is left to do; no other state may be without a successor.
AllDone ==
    /\ \A q \in Requests : ~Serving(q)
    /\ \A j \in Jobs : ~Working(j)
    /\ UNCHANGED vars

Next ==
    \/ \E q \in Requests : Submit(q) \/ Handler(q)
    \/ \E t \in TaskIds : Create(t)
    \/ \E j \in Jobs : Removal(j) \/ Crash(j)
    \/ \E r \in Removers : \E b \in DOMAIN box : BeginRemoval(r, b)
    \/ \E j \in Jobs : StopAgain(j)
    \/ AllDone

Spec == Init /\ [][Next]_vars

\* Handlers and workers are scheduled as long as they can move; clients need
\* not send requests, nothing need fail, and a Docker daemon may answer every
\* stop with a 500, for ever.
FairSpec ==
    /\ Spec
    /\ \A q \in Requests : WF_vars(Handler(q))
    /\ \A t \in TaskIds : WF_vars(Create(t))
    /\ \A j \in Jobs : WF_vars(Delete(j))

-----------------------------------------------------------------------------
(* Properties.                                                             *)

\* Fragments of core c that existing containers were started on.
InUse(h, c) ==
    SumFunction([b \in {b \in DOMAIN box : HostOf(b) = h /\ box[b].docker} |->
                    Draw(box[b].cores, NShare(b), c)])

\* docs/API.md: core_share is "how many fragments every core can divided": the
\* containers of a host never use more of a core than there is of it.
CoresNotOvercommitted ==
    \A h \in Hosts, c \in Cores : InUse(h, c) <= CoreShare

\* Between the message of a task and occupy_cores its cores are nobody's.
Unclaimed(h, c) ==
    SumFunction([q \in {q \in Requests : req[q].pc = "occupy" /\ req[q].at = h} |->
                    Draw(req[q].plan[h].cores, req[q].ask.nshare, c)])

\* The ledger never shows more free than is free: whatever fails or dies, and
\* however many requests run, cores are credited only after they were debited
\* and given up by their container, and once.
LedgerNeverOverstates ==
    \A h \in Hosts, c \in Cores :
        remain[h][c] + InUse(h, c) <= CoreShare + Unclaimed(h, c)

Settled ==
    /\ \A q \in Requests : ~Serving(q)
    /\ \A j \in Jobs : ~Working(j) /\ job[j].pc # "crashed"

\* Fragments of core c in the stored cores of recorded containers.
Recorded(h, c) ==
    SumFunction([b \in {b \in DOMAIN box : HostOf(b) = h /\ box[b].row /\ box[b].key} |->
                    Draw(box[b].cores, NShare(b), c)])

\* When everything has come to rest the Redis ledger is what the stored cores
\* of the recorded containers say it should be: no failure on the way leaks a
\* core or credits one twice.
LedgerBalanced ==
    Settled =>
        \A h \in Hosts, c \in Cores :
            remain[h][c] = CoreShare - Recorded(h, c)

\* models/host.py: count "is the number of free cores": the SQL column, kept
\* by Container.create and delete, agrees with the Redis ledger, kept by the
\* handler and the worker, when whole cores are asked for (fragments of two
\* cores in one container are counted once).
StoresAgree ==
    Settled => \A h \in Hosts : count[h] = SumFunction(remain[h])

\* A request that names no host and is accepted is planned in full: the hosts'
\* counts add up to n, and each task has exactly the cores for its count.
PlannedInFull ==
    \A q \in Requests :
        req[q].pc \in {"enqueue", "occupy", "done"} /\ ~Pinned(q) =>
            /\ SumFunction([h \in DOMAIN req[q].plan |-> req[q].plan[h].count]) = req[q].ask.n
            /\ \A h \in DOMAIN req[q].plan :
                  Len(Chunks(<<q, h>>)) = req[q].plan[h].count

\* A handler is answered, whatever fails on the way.
RequestsAnswered ==
    \A q \in Requests : req[q].pc = "lock" ~> req[q].pc \in RequestEnded

\* A task ends, whatever fails on the way, unless it waits for ever for Docker
\* to stop a container that got no address: it never goes round its containers,
\* or back and forth between one's addresses and its removal, without an end.
TasksEnd ==
    \A t \in TaskIds :
        job[t].pc = "queued" ~> job[t].pc \in JobEnded \/ [](job[t].pc = "clean")

\* api/deploy.py answers "Not enough core resources" when there are too few:
\* no handler keeps looking for them.
ShortageIsReported == \A q \in Requests : req[q].pc # "spin"

-----------------------------------------------------------------------------
(* What a deployment comes to when only the fragments of cores are looked  *)
(* at: where those are that are not free, and the book of them.            *)

HasTask(t) == job[t].pc # "none"

\* Chunks of a task that were handed to containers or given back.
Taken(t) == IF job[t].box = NoBox THEN job[t].next - 1 ELSE job[t].next

\* Of core c of host h, what task t has not handed to a container yet.
Owed(t, h, c) ==
    IF t[2] # h \/ ~HasTask(t) THEN 0
    ELSE IF Taken(t) = 0 THEN Draw(Message(t).cores, req[t[1]].ask.nshare, c)
    ELSE LeftOver(Message(t).cores, Message(t).count, Taken(t), req[t[1]].ask.nshare, c)

\* What container b has, until it is released by what was stored of it.
Dropped(b) == \E j \in Jobs : job[j].pc = "drop" /\ job[j].box = b
Charged(b) == box[b].docker \/ (box[b].key /\ ~Dropped(b))
Charge(b, h, c) ==
    IF HostOf(b) = h /\ Charged(b) THEN Draw(box[b].cores, NShare(b), c) ELSE 0

Free == [h \in Hosts |-> [c \in Cores |-> remain[h][c] - Unclaimed(h, c)]]
Owes == [t \in TaskIds |-> [c \in Cores |-> Owed(t, t[2], c)]]
Uses == [b \in DOMAIN box |-> [c \in Cores |-> Charge(b, HostOf(b), c)]]
Died == \E j \in Jobs : job[j].pc = "crashed"

Book == INSTANCE CoreBook WITH free <- Free, owed <- Owes, used <- Uses, died <- Died

\* The steps of handlers, workers and removals, however they interleave, fail
\* or die, come to moving whole amounts of fragments as CoreBook has it: a task
\* gets only what is free, a container only what its task was given and has
\* not handed out or back, and a container gives back all it has, once.
KeepsCoreBook == Book!Spec

=============================================================================
