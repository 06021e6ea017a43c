# eru-core in TLA+

A TLA+ model of eru-core, the core of a container platform: a Flask API and
Celery workers that schedule containers on hosts, hand out cores and addresses,
and talk to Docker daemons and host agents. The modules model the parts that
share state between processes; TLC checks them on small instances, and TLAPS
proves what it can for every instance.

Source paths below are relative to `src/`.

## 1. The system

Three kinds of process work on the same data:

- the **API** (`eru/app.py`, gevent): one greenlet per HTTP request;
- the **Celery workers** (`eru/async/task.py`): one process per task, a message is
  acknowledged before the task runs, so a task whose worker dies is not run again;
- the **agent** on each host, which configures addresses and reports the death and
  recovery of containers through the API.

They share a SQL database (rows of pods, hosts, containers, addresses, tasks),
Redis (free cores, free addresses, stored cores and properties of containers,
task logs, locks) and etcd (published backends). No operation spans two of the
stores in one transaction.

| Component | State | Operations | Interacts with | What makes it correct |
|---|---|---|---|---|
| Core arithmetic of a host (`models/host.py`, `_iter_cores` of `async/task.py`) | sorted set `eru:host:%s:cores`: free fragments of each core | `get_free_cores`, `get_max_container_count`, `get_container_cores`, `occupy_cores`, `release_cores`, `_iter_cores` | scheduler, workers | as many containers as fit, only free cores given, nothing lost between plan and containers |
| Scheduling and deployment (`api/deploy.py`, `helpers/scheduler.py`, `create_containers`) | the plan of a request, the pod's lock, the tasks | `create_private`, `average_schedule`, `centralized_schedule`, `_create_task`, `create_containers` | Redis ledger, SQL, broker, Docker, IPAM | no core given twice, cores of failed containers given back once, every request answered |
| Container record (`models/container.py`) | SQL row, stored cores, `Host.count` | `create`, `delete`, `kill`, `cure` | both ledgers, IPAM, discovery | the SQL count and the Redis ledger agree; a removal credits once |
| Removal (`remove_containers`, `async/dockerjob.py`) | `in_removal`, Docker's containers | stop and remove in Docker, then `Container.delete` | agent, Docker, discovery | what is removed is gone everywhere, what is not is still there |
| Addresses (`models/network.py`, `ipam/macvlan.py`, `helpers/network.py`) | Redis set of free addresses per network, unique SQL rows, the agent's interfaces | `acquire_ip`, `acquire_specific_ip`, `release_ip`, `allocate_ips`, `reallocate_ips` | deployment, removal, cure and start | an address is in one place, never configured twice, never leaked |
| Migration (`migrate_container`) | as deployment and removal | schedule, remove, create with the same addresses | both | the container runs once, with its addresses; the ledger is debited |
| Life cycle and discovery (`api/container.py`, `api/host.py`, `publish.py`) | `is_alive`, `in_removal`, Redis backends, etcd node of the app | kill, cure, start, stop; a host's down and cure; `publish_app` | agent reports, migration, removal | what is published becomes what runs |
| Calico IPAM (`ipam/calico.py`) | pools, profiles, assigned addresses and endpoints in Calico's datastore; names of pools in Redis | `add_ip_pool`, `allocate_ips`, `reallocate_ips`, `release_ip_by_container` | agent, which assigns | what an endpoint has is assigned, and to nobody else; nothing stays assigned to nobody |
| Elastic IPs (`models/eip_pool.py`, `Host.bind_eip`, `Container.bind_eip`) | Redis set, list in the host's properties, `eip:%s:container` | bind and release on host and container | agent, removal | one container per address, none lost |
| Gateways (`VLanGateway`, `Network.acquire_gateway_ip`) | Redis set, SQL rows unique for a network and a host | acquire and release for a host | macvlan requests | an address in the set or in one row |
| Image builds and task logs (`build_docker_image`, `utils/notify.py`, `api/websockets.py`) | task row, image row, directories; Redis list and channel | `build_image`, `store_and_broadcast`, `pub_build_finish`, `task_log` | Docker, builder, viewers | every line is shown, in order, and the viewer ends; an image row means an image |
| Applications and configuration (`models/app.py`, `models/appconfig.py`, `storage/redis.py`) | rows, one YAML value per version and per environment | register, set and remove variables, look up for a deployment | API, workers | what is registered can be deployed |
| Pods, clients, utilities | rows; none of their own | one query or write each | | |

The hard behaviours, each at its line, are the `hazards` of `PROJECT.json`.

## 2. The modules

### HostCores, HostCoresCheck, MCHostCores, HostCoresProofs, HostCoresCheckProofs

`HostCores` is the arithmetic as operators over `remain \in [Cores -> Int]`, the
sorted set of a host: `FullCores` and `Fragments` (`get_free_cores`),
`MaxContainerCount`, `ContainerCores`, `Occupied`, `Released`, `IterCores`. Where
Python raises there is a `...Defined` companion (a division by zero, the `max`
of an empty generator, an index past the end). `Deploy` uses the same operators.

`HostCoresCheck` applies them to every ledger and every request and compares the
result with a definition of its own: `Fits(k)` says that some choice of cores to
share leaves room for `k` containers, without the code's formula. The sorted set is listed in the order Redis returns it
(`InOrder` with `ByLabel` or `ByScore`), and sums are folds, so that nothing is
recursive and everything can be proved about.

### CoreBook, Deploy, MCDeploy, DeployProofs

| Code | Model |
|---|---|
| greenlet in `create_private` | `req[q]`: `pc` and the handler's local variables |
| `redis_lock('scheduler:{pod.id}')` | `lock`, `AcquireLock`, given up by `Leave` and the last `TakeCores` |
| checks and early returns of the schedulers | `Refuse`, `CountRaises`, `Accept` |
| `average_schedule`: second capacity read and the dealing loop | `ShareOut` (a set of possible deals, `RoundRobin`), `Spin` when it does not end |
| `get_container_cores`: two reads of the ledger | `MeasureHost`, `TakeCores` |
| `_create_task` and `host.occupy_cores`, in this order | `CreateTask`, `CreateTaskFails`, `EnqueueFails`, `OccupyCores` |
| `create_containers` | `job[t]`: `StartTask` ... `FinishTask` |
| `Container.create` (row and count, then stored cores) | `RecordContainer`, `SaveCores` |
| `_clean_failed_containers`, `remove_containers` | `StopAgain` (the stop is sent again for ever while Docker answers with a server error), `RemoveFromDocker`, `RemoveFromDockerFails`, then the four steps of `Container.delete`: `ReadCores`, `ReleaseCores`, `DropRecord` |
| a worker process that dies | `Crash` |

The two ledgers are `remain` (Redis) and `count` (SQL, in fragments). `box` is
what exists of a container: in Docker, its row, its stored cores. `Faults` names
what may fail in a run: the broker, the insertion of a task, Docker creating or
removing, the network, the health check.

`CoreBook` says what all this is for: on each host a fragment of a core is free, owed to
a task or used by one container, and whole amounts move from one to the next. A task is
granted what is free on its host, once; a container is started with part of what its
task still has, or that part goes back; a container that is removed gives back all
it has. `Deploy` implements it (`KeepsCoreBook`, with `Book == INSTANCE CoreBook WITH
free <- Free, owed <- Owes, used <- Uses, died <- Died`). The mapping is where the order of
the calls matters: `Free` is the ledger without what a queued task has been given
and its handler has not occupied yet, so that the grant is at `CreateTask` and
`OccupyCores` is no step of the book; a container has its cores until its stored cores
have been released, though Docker no longer knows it; and a removal that finds no stored cores, because
the worker died before it stored them, loses them (`Lose`, the one step that needs a death).

### AddressBook, IPPool, Calico, IPAM, MCIPAM, IPAMProofs

The program uses one of two IPAMs, chosen when a process starts (`NETWORK_PROVIDER`,
`eru/ipam/__init__.py`). `IPPool` is the macvlan one with the pools of
`models/network.py`, `Calico` the other, and `IPAM` runs one or the other
(`provider`); `Calico` is instantiated there, `IPPool` extended.

In `IPPool`, `pool` is the Redis sets, `row` the SQL table `ip`, `wire` what agents
have configured. A worker runs one job (`deploy`, `bind`, `rebind`, `remove`) through
the places of `allocate_ips`, `reallocate_ips` and `IP.release`. `Pop`, `Find`
and `Claim`, `CreateRow` are the two forms of acquisition with the network's
lock held across them, `GiveBack` and `Erase` are the two halves of
`IP.release`, of which only the first is under the lock. `Retry` and `GiveUp` are
`retrying.retry` in `helpers/network.py`. A job that an exception ends is
`dead`: what it held is forgotten, as in the code. A rebind looks at the record only,
which may call a container dead that runs (`Host.kill`, a report that comes late): such
a container is `stale` from then on, because `reallocate_ips` releases addresses it has
configured.

`AddressBook` says what all this is for: an address is free, taken by one job or
one container's, and is acquired, assigned and released in one step each.
`IPPool` implements it (`KeepsTheBook`, with `Book == INSTANCE AddressBook WITH
holders <- ...`). The mapping `Holders` is where the locks and the order of the
commands matter: an address counts as free from the moment it is back in the pool,
although its row is still there, and as a job's from the moment it left the pool,
although it has no row.

In `Calico`, `held` is what the datastore counts as assigned and `endpoint` what the
containers have. `AgentOk` and `AgentFails` are the agent's call: it assigns, for
each CIDR any free address of it or the addresses named, and may stop half way
(`stray` remembers the addresses a failed call asked for). `AddPool`, `CreateProfile`,
`ReadRules`, `WriteRules` and `NamePool` are `add_ip_pool` (`again` remembers that another
network had the name when the creation began); `FreeAddress` and `RemoveEndpoint` are
`release_ip_by_container`.

### Lifecycle, MCLifecycle, LifecycleProofs

The containers of one application, each with what every store says of it: Docker,
the SQL row (`row`, `alive`), its properties in Redis (`removal`), its address, the
Redis set of backends, the agent's flag, the published etcd node.

| Code | Model |
|---|---|
| `kill_container`: `Container.kill`, the OOM mark, the message to migrate | `Report`, `Down`, `Unlist`, `Read`, `Write`, `Reset`, `Enqueue` |
| `cure_container` | `Report`, `Test`, `Unbind`, `Rebind`, `Up`, `List`, `Read`, `Write` |
| `start_container` | `Start`, `Test`, `Up`, `List`, `Read`, `Write`, `Launch`, `Unbind`, `Rebind` |
| `stop_container` | `Stop`, `Down`, `Unlist`, `Read`, `Write`, `Halt` |
| `remove_containers` | `Remove`, `Mark`, `SetFlag`, `Unlist`, `Read`, `Write`, `DockerRemoves` or `DockerRemovesNot`, `Release`, `Forget`, `Erase`, `ClearFlag` |
| `create_containers` | `Deploy`, `DockerCreates` or `DockerCreatesNot`, `DockerStarts` or `DockerStartsNot`, `Record`, `Network`, `List`, `Health`, `Read`, `Write` |
| `migrate_container` | `Migrate`, `Plan`, the steps of a removal, then those of a creation (`RemovalOver`) |
| `publish_app` | `Read`, `Write`: what is written is what was read, or nothing when etcd fails, which the job does not notice (`missed`) |
| exceptions for a row that is gone | `Raises` |
| Docker and the agent | `Die`, `Restart`, `Delete`, `report` |

A publication reads the rows of the transaction it runs in (MySQL's repeatable
read): `Begin` takes that view at the last commit before the publication, and `Read`
adds the properties, and Calico's addresses, which are in other stores.
Creation and removal concern one container, an address stands for all addresses
of a container, and the cores are left to `Deploy`.

A host that is taken down (`set_status`, `Host.kill`) is `HostStatus`, `HostBackends`
for each container, `HostCommit`, a publication, and `HostMigrations`, one message
each to copy the containers elsewhere (`Copy`, then `Plan` and a creation, without
a removal); `Host.cure` is the same without the messages. SQLAlchemy writes the row of
a container when the addresses of the next are read, so the rows it has passed are
locked until the commit (`Locked`), and one that is gone by then fails the request.

### HostNet, MCHostNet, HostNetProofs

| Code | Model |
|---|---|
| `EIPPool.add_eip`, `delete_eip` | `AddEip`, `DeleteEip` |
| `Host.bind_eip`: the pool, the agent, the list read and written | `TakeEip`, `Configure` or `ConfigureFails`, `ReadList`, `StoreList` |
| `Host.release_eip` | `BeginRelease`, `ReadRest`, `Unconfigure` or `UnconfigureFails`, `FreeEip`, `StoreRest` |
| `bind_eip` of a container | `PickEip`, `Publish`, `Own`, `MarkBound` |
| `release_eip` of a container, and `Container.delete` | `BeginUnbind` or `BeginDelete`, `Unpublish`, `Unmark`, `Disown`, `Forget` |
| `kill_container` of a container that ran out of memory: its properties are replaced | `Reset` |
| `macvlan` of a host, `acquire_gateway_ip`, `VLanGateway.release` | `BeginGateway`, `PopGate`, `InsertGate` or `InsertGateFails`; `BeginDrop`, `PushGate`, `EraseGate` |

`nat` is what agents have been asked to publish, and is there for one property: the
backends of a container that is being deleted are computed from addresses it has
given back already.

### TaskLog, MCTaskLog, TaskLogProofs

`job[b]` is a build from the request of the API to the end of its log, `view[v]` the
handler of a websocket. Lines are numbers; `StoreLine` is the `rpush` and `BroadcastLine`
the `publish` of `store_and_broadcast`, and a viewer subscribes, reads the stored
lines and follows the channel in three steps (`Subscribe`, `SendStored`, `Follow`).
`scratch` is the directory of the code, `images` the table. Any stream of Docker may
raise (`Raise`), a worker may die.

### Registry, MCRegistry, RegistryProofs

The steps of `register_app_version` (`Register`, `FindApp`, `CreateApp`, `FindVersion`,
`CreateVersion`, `Load`, `Save`), of the variables of an environment (`SetEnv`, `DropEnv`)
and of a deployment's look at the configuration (`Deploy`, `FindDeployed`,
`CheckEntrypoint` of the entrypoint it names, and `UseConfig` in the worker, which
falls over a name that is gone). A configuration is a map from keys to the file
that put them, so that a key left from an older file can be told. `Verify` is `verify_appconfig`, over files that differ in what it tests.
A version is found by the beginning of its sha (`Extends`) and its configuration by
the first seven characters (`Short`), which is never the path of an environment's
variables (`RegistryAssumption`: `resource/prod` is longer).

## 3. The runs

| Run | Question | Result |
|---|---|---|
| `HostCoresPlan` | Does the arithmetic of one host, over every ledger of four cores of four fragments and every request for up to four containers, find the best count, use free cores only, and reach the containers undamaged? | holds |
| `DeploySharing` | Three requests one at a time (whole cores, fragments, both) beside a removal, with failures: are cores never overcommitted, and does the ledger balance at rest? | holds |
| `DeployRace` | Two requests in flight, a removal, every failure and a crash: does the ledger ever show more free than there is? | holds |
| `DeployWholeCores` | Over two hosts of unequal size, both strategies and named hosts: is every request answered and planned in full, does every task end that does not stop a container in vain for ever, do the SQL count and the ledger agree at rest, is every step one of the core book? | holds |
| `IPAMJobs` | Two containers, two workers, two networks, agents that fail, under either IPAM: are addresses conserved and none leaked, is none configured twice, does macvlan implement the address book, does calico keep its endpoints apart and nothing for nobody, is a network with a name whole? | holds |
| `LifecycleJobs` | Two workers, three containers on two hosts, three requests or deaths and all they lead to: is a container that was started ever unrecorded, is one that a single job at a time worked on ever replaced twice, and at rest are the backends, and what jobs one after another published last, those of the living? | holds |
| `TaskLogViewers` | Two builds, one from an archive, failures, a crash, a viewer that comes and goes: is the log shown without a gap, is the viewer let go, does an image row mean an image, are directories removed? | holds |
| `HostNetJobs` | Two hosts, three containers; two requests at a time for two elastic IPs that are not about the same host or container, and a container that loses its properties, or three requests for two gateways: is no elastic IP lost or owned twice, do marks and properties agree, is no gateway address lost or given to two hosts? | holds |
| `RegistryRequests` | Three requests at once for two versions and a prefix, and a process that dies: does every configuration hold all that one file says, can what was acknowledged be deployed, and does what was accepted find its configuration? | holds |
| `DeployOvercommit` | Cores are not overcommitted with two requests in flight | violated |
| `DeploySpin` | A shortage is answered | violated |
| `HostNetDelete` | A deleted container is published nowhere | violated |

### Bounds

- `Cores`, `CoreShare`, `MaxShareCore`: two cores of two fragments in `Deploy` are
  the least with a whole and a shared core beside each other; four cores of four
  fragments in `HostCoresPlan` let `nshare` not divide `CoreShare` and a request
  need several opened cores. `HostCoresPlan` starts from every ledger, also one with more
  shared cores than `MaxShareCore`, which removals lead to (section 5): 42,500 states.
- `MaxInFlight`: handlers at once, one (no race between requests) or two (every
  race between two).
- `Requests`, `Removers`: each is one execution. A request over two hosts makes
  two tasks; a third request follows removal and reuse of cores.
- `MaxCrashes = 1`: one process may die, at any step; in `Deploy` at any step
  but between the credit of a container's cores and the deletion of its row.
- `Asks` of `DeployWholeCores` have a request for less than one fragment (`TooLittle`),
  on which the code divides by zero (`CountRaises`).
- `MaxTries = 2` for the code's five: the second try is the first retry, and
  every later one starts from the same local state.
- `NetworkOf`: two networks, one with two addresses and one with one, so that a
  job holds addresses of both and a pool runs dry. Under calico both networks may be
  created under one name (`Names`), one creation at a time. At most one job works
  on a container at a time, and `PartialAgent = FALSE`: macvlan's agent configures all
  it was asked for or nothing; calico's may stop half way.
- `MaxEvents = 3` in `LifecycleJobs`: requests and deaths; what they cause (reports,
  messages, restarts, migrations) is not bounded. Three are a creation, a death and a
  second death or request; three containers are one, its replacement and a second one.
  Two live on one host, so that a host that goes down concerns two. Requests about
  one host follow one another.
- `Faults` of `LifecycleJobs`: Docker refusing to create, to start what it created, to remove
  or to start again, networks and an etcd that fail: 5.8 million states. Not in it: `health`, `migration` and `rebind`, see section 5.
- `MaxLines = 2`, two builds and one viewer: a line of the past and one that is
  stored and not yet broadcast. Viewers do not meet; builds do, on the image.
- `HostNetJobs`: two elastic IPs of which one is new to the pool, two gateways, one
  container that is on its host's network, one that may run out of memory (`Starved`).
  Requests about the elastic IPs of one host, or of one container, follow one another
  (`Overlapping = FALSE`), and so do the DELETEs of gateways, for the reasons in section 5.
  No step reads both the gateways and the elastic IPs, so the run explores each while
  the others rest (`Apart`, a state constraint): two requests at a time about elastic IPs; three
  about gateways, of which one takes an address while another releases it and a third asks for the
  same host.
- `RegistryRequests`: three requests, for a version, the beginning of its sha and another
  version, two names of entrypoints, and five files: two that are accepted, of which one
  lacks an entrypoint and the volumes of the other, and three that fail each a check of
  its own.

Symmetry is used where workers, containers, addresses of one network or requests are
interchangeable, never where liveness is checked. In `LifecycleJobs` only the
two containers on one host are.

### Fairness

`FairSpec` of `Deploy` has weak fairness of each handler, each worker and each
`Delete` (the steps of `Container.delete`): greenlets and Celery processes are scheduled as
long as they can move. It has none of Docker's answer to a stop, because the code sends one that
failed with a server error again without end: `TasksEnd` says that a task ends or stays
in that place for ever.
Clients need not send requests, nothing need fail, and no removal need be
asked for. Fairness of `Handler(q)` includes the lock: with one request in
flight nobody else holds it. `FairSpec` of `TaskLog` has it of the worker of each
build and of the handler of each viewer; that a build ends at all is that Docker's
streams do (`MaxLines`). Deadlock is checked in every run but `HostCoresPlan`, where a
state after the one decision is final; the other modules state their final
states as `AllDone`, or have none.

## 4. What is proved

`IPAMProofs`, about `IPPool` for every value of the constants that satisfies
`IPPoolAssumption`:

- `TypeCorrect`: `Spec => []TypeOK`. `TypeOK` alone is not inductive: an address in a
  hand is written into tables, so `TypeInv` adds that a job in progress has a
  container (`Manned`) and that `claim` and `create` have an address (`Handed`).
- `Conservation`: `Spec => []AddressesConserved`. The inductive invariant `PlaceInv` says
  where an address can be. A hand is protected by the lock of its network
  (`HandLocked`), so two hands differ; a row that a job made or has to release is its
  own (`GotRows`, `DropRows`), which needs that one job works on a container at a time;
  and between the two halves of `IP.release` the address stays in the pool or in
  the hand of the job that will find the row (`BackKept`). That job dies with the address
  (`Lost`, section 5): the hands of the others have their network locked. `PlaceInv` was
  checked with TLC on the instance of `IPAMJobs` before it was proved.
- `Refinement`: `Spec => KeepsTheBook`, that is `IPPool` implements `AddressBook` under
  `Holders`. The lemmas: an address that is not in the hand of a job
  is held as its row says (`NotInHand`), it has at most one holder
  (`OneHolder`, from `PlaceInv`), what a job releases is its own (`OwnRow`). `BookStep`
  takes each action in turn: most leave pool, rows and hands such that the holders
  are the same (`SameHolders`, `SameBook`), and `Pop`, `Find`, `CreateRow` and the two
  halves of a release are one step of the book each, or none.

`HostNetProofs`, for every value of the constants that satisfies
`HostNetAssumption`. That requests about the elastic IPs of one host or container
follow one another is the premise `~Overlapping` of `EipsKept`, `OneOwnerKept` and
`MarksKept`; the code does not see to it, and with requests that overlap they are false
(section 5). That the DELETEs of a gateway do is a guard of `BeginDrop`, which only `GatesKept`
and `TypeCorrect` rest on.

- `TypeCorrect`: `Spec => []TypeOK`, by `TypeInv`, which adds what a request holds at
  each of its steps (`Held`): it is about a host or a container, and has an address
  when it is about to write one.
- `GatesKept`: `Spec => []GatesConserved`. `GateInv` says where a gateway address
  can be: who popped one holds the lock, and the address is then not in the pool and in
  no row but one that is about to be erased (`PoppedLocked`, `PoppedFree`); a request
  that releases a gateway releases the one its host has (`DropsRow`). Between the push
  and the erasure another host may take the address; two requests for one host meet on the unique key of network and host.
- `EipsKept`: `~Overlapping => (Spec => []EipsConserved)`. `EipInv` needs that what a request read of the
  list of a host is still what the list holds when it is written back (`ListsKnown`), and
  that follows from there being one request about the host (`OneRequest`).
- `OneOwnerKept` and `MarksKept`: `Spec => []OneOwner` and `Spec => []MarksAgree`, likewise. `ConInv`
  follows a binding from the look at the key to the mark: meanwhile the address stays
  on the list of the container's host, its key stays empty and no other container
  is given it (`Bindings`, `BindsAlone`); a key names a container that has the address or
  has lost its properties (`Marked`), and the address of a container has its key unless a request of that container
  is half way (`Owned`). The lists are
  what ties the two together, so `ConInv` rests on `EipInv`: an address can be bound
  on two hosts at once only if it is on the lists of both.

`IPAMProofs` further has, of `IPPool`,

- `Settlement`: `Spec => []NothingLeaked`. `RowInv` says whose a row without a recorded
  container is: that of the job that made it or is going to release it, so at rest,
  when no job is left and none died, there is none.
- `OneContainerPerAddress`: `~PartialAgent => (Spec => []NoAddressTwice)`. `WireInv` ties the
  interfaces to the rows: the row of an address that is configured names its container,
  or is about to, and a container whose rows are being released has no interface, unless it
  is `stale`: one that was rebound while it ran keeps addresses that are released, and is
  what `NoAddressTwice` leaves out. With an agent that stops half way it is false (section 5),
  hence the premise.

and of the choice between the two, for constants that satisfy `IPAMAssumption` (no network
is named `NoName`) too. `ProviderIsIPPool` is `ProviderSpec => Spec`: whoever runs calico lets the
variables of `IPPool` alone, so that what is proved above holds of the specification that
the two runs check.

- `EndpointsStayHeld`: `ProviderSpec => []EndpointsHeld`. `CalicoInv` has the types and what
  a job has at each of its places (`JobHas`): a container that is recorded (`JobsOnRecorded`)
  and that no other job works on (`Alone`), and, while it detaches, exactly the endpoints the
  container still has as its list (`Listed`). By `OnOne`, two containers' endpoints share an
  address only if a failed call had asked for it by name; that it is then assigned, too, is what
  makes the agent's next assignment, of addresses that are not, keep it.
- `NothingHeldForNobody`: `ProviderSpec => []HeldForSomebody`. `HeldIsOn` holds at every step,
  not only at rest: an address that is assigned is on an endpoint that nobody is about to
  remove, so that a failed allocation of CIDRs may release nothing. That the container is recorded
  is `EndpointsRecorded`: one is forgotten only when its list is empty.
- `NamesComeLast`: `ProviderSpec => []NamedIsWhole`. `Added` follows the rules through
  `profile_rule_add_remove`: what a job has still to add and what the profile has make up all
  rules, and what it has read is still there when it writes, because nobody else creates a network of
  that name meanwhile; `Named` is that a profile that has lost its rules has the job that will
  add them, and `First` that this job came when the name was taken: the first creation under a
  name sets it when every rule is there.

That one job at a time works on a container and one creates networks of a name are guards of
`Calico` (section 5), so they are premises of these theorems.

`HostCoresProofs` is about the operators of `HostCores`, for any number of cores, any
`CoreShare` and any limit. Its lemmas are what the other proofs need of sums, of lists in an
order and of the slots of a plan; `SumRemove` says that a fold over a set does not
depend on the order. What takes induction over the size of a set or the length of a
sequence is proved by a least counterexample (`LeastNat`): the induction theorems of the
library cannot be instantiated, but that a set of naturals has a least member can
be used. `PlanFits` is the fact that matters most: whatever the ledger and the
count, the plan takes no more of a core than is free, because the slots of the opened
cores begin where the whole cores of the plan end.

`HostCoresCheckProofs`, from `Decided` (the plan is the one the code computes from the cores):

- `TypeCorrect`, `NothingPromisedTwice`, `NothingLostBetween`, `AllServed` and `BestServed`, that is
  `Spec => []P` for `TypeOK`, `PlanFitsCores`, `ChunksLoseNothing`, `EveryContainerIsServed` and
  `ServesAsManyAsFit` (`TypeOK` of this module is proved and not run). The third needs that each of the two lists of a plan is empty or
  has something for each container (`Divisible`), since a quotient of zero drops a list, and
  that the extra chunks a remainder makes are counted too; the last is an exchange argument: opening the `i`
  cores the code tries serves as many containers as any `i` cores, since all
  unopened cores are alike, and more than the limit leaves are never allowed.

`DeployProofs`, for any hosts, cores, requests, removers, faults and bounds that satisfy
`DeployAssumption` (names of requests, removers and containers differ):

- `Structure`: `Spec => []IInv`, types and the structure of the state: which plans a request
  has at each of its steps, which task a worker runs, that a box is made by its own
  task only, who holds the lock. `TypeCorrect` (`TypeOK`) follows.
- `Accounting`: `~Overlapping => (Spec => []Accounted)`. A fragment of a core is free, claimed (a
  task is queued whose cores the handler has not occupied), owed (to a task, which has
  not handed it to a container), or charged to a container. `Slack`, what none of
  these accounts for, is zero, and not negative when a worker died. The proof goes
  through every action and shows which of the sums it moves a fragment between.
- `NeverOverstates`: `~Overlapping => (Spec => []LedgerNeverOverstates)`, with any number of
  requests at once, every fault and any number of deaths.
- `PlansStayFree`: `MaxInFlight = 1 => (Spec => []PlansFit)`: what is planned is still free when
  it is occupied, by `PlanFits` and because only the request being served takes from the ledger.
- `NotOvercommitted`: `~Overlapping /\ MaxInFlight = 1 => (Spec => []CoresNotOvercommitted)`, from
  the two before.
- `PlansStayExact` and `Balanced`: `LedgerBalanced` at rest, when moreover Docker does not refuse to
  remove what is being cleaned, all cores of the hosts are registered, and the asks
  are orderly (`OrderlyAsks`): fragments are asked for together with a whole core, and then
  by the strategy whose count is the one the host found. Without the last the plan
  of a host may have slots that no container gets (section 5), or a negative count.
  `PlansExact` says that each list of a plan is empty or has something for each container,
  and what the handler knew of the host meanwhile; `NoTaskFails` that no worker raises outside
  its tries.

- `CountFollowsRows`: `~Overlapping => (Spec => [](RowsMarked /\ CountKept))`. The SQL count of
  a host and its containers with a row change in one commit, but a row may be there
  before its stored cores are. `RowsMarked` says that the task that is to store
  them is then at that step, or dead, so that a removal that finds no stored cores does
  not hide a difference.
- `StoresFollow`: `OnlyWholeCores /\ ~Overlapping /\ MaxInFlight = 1 /\ "cleaning" \notin Faults =>
  (Spec => []StoresAgree)`. At rest `Slack` is zero core by core and `CountKept` host by host;
  the two are compared by exchanging the sums over cores and over containers (`SumExchange`),
  and a list of whole cores counts as many fragments core by core as its length does
  (`DrawTotal`). With fragments a container with two entries of `part` tells them apart
  (section 5), hence `OnlyWholeCores`.
- `PlansComplete`: `OnlyWholeCores /\ ~Overlapping /\ MaxInFlight = 1 => (Spec => []PlannedInFull)`.
  `Placing` is the invariant of the loop over the hosts: what is planned and what is still
  needed make up the request, the hosts ahead have room for what is needed (`Room`) or, by the
  average strategy, their quotas add up to it (`Quotas`), and no host is planned twice. `CutWhole`
  is that a host is taken for no more containers than it has sets of whole cores, so that
  the worker cuts one for each (`WholePlan`). The workers move between any two readings of the
  ledger; what they give back makes no capacity smaller (`RoomGrows`), because a core that is
  whole stays so. That needs `AtMostWhole`, no score above a whole core, which follows from
  `Accounted`.
- `BookIsKept`: `~Overlapping /\ MaxInFlight = 1 => (Spec => KeepsCoreBook)`, that is `Deploy`
  implements `CoreBook`. The invariant is `Kept`, the three above: `IInv`, `Accounted` and
  `PlansFit`. It bounds the entries of the book (`ColumnsTyped`): what is free is not negative, by `PlansFit`,
  and what a task is owed is no more than a core has, by `Accounted`. The lemmas of
  `Accounting` say for each action which claim, debt or charge it changes and how; `BookMoves` turns
  them into changes of the columns. The premises are needed: with two requests in flight a
  task is granted what is not free (`DeployOvercommit`), and of two removals of one
  container the second gives back what it has not. It says more than the invariants:
  that no step moves cores from one task or container to another, or gives back only
  part of what a container had.

The premises are what the runs have as constants: two requests in flight do overcommit
(`DeployOvercommit`), and two removals of one container credit it twice (section 5).
`DeploySharing` checks `LedgerBalanced` for asks that are not orderly too.

`RegistryProofs`, for any shas, files, requests and deaths: `TypeCorrect`, `LastFileIsWhole`
(`ConfigsAreWhole`), `Acknowledged` (`AcknowledgedIsDeployable`) and `WholeWhenUsed`
(`DeployedIsWhole`). The inductive invariant adds what each step of a request knows (`StepKnows`: that
a registration which loads has a version that its sha finds, so that versions, once
there, are found again by all others) and what the acknowledged and accepted rely on (`Served`).
That what is started and what is built are of one file rests on `Verify`: a file that
is accepted has both keys, and saves them with one write. Of the optional keys the
theorem says only that those the last file has are its own (section 5).

`TaskLogProofs`, for any builds, versions, viewers, length of a log and number of
deaths: `TypeCorrect`, `Recorded` (`ImagesAreBuilt`), `NothingMissed` (`ShownInFull`) and `OneSeam`
(`ShownWithOneSeam`). `Awaits(v, x)` says that the inbox of a viewer goes on after line
`x` to the last line broadcast, and to the end when that was published; `Seamed(v, m, x)` that
what is shown is the first `m` lines and then those from the seam to line `x`. A
subscription starts with `Awaits` at the last line broadcast; the stored lines then
reach at least to it, so the seam leaves no gap. When the first message is the
end, `x` is the last line of the log and everything was shown.

`LifecycleProofs`, for any containers, hosts and workers, any number of events and any
of the failures:

- `Invariant`: `Spec => []IInv`. The two parts that matter are about who knows of a container:
  `Known(c)` is that it was created and that its creator has recorded it. A job is on a
  container that is known, or is its creator and the only one who will ever name it until
  then (`Sole`); what is not known is blank in every store (`ConFacts`). With
  what each job has done by the step it is at (`ComeTo`, `JobFacts`) and one request of a
  host at a time this is inductive. `NobodyForgotten` is `Spec => []NoOrphan`, about
  every container that Docker started.
- `TypeCorrect`: `Spec => []TypeOK`. The bounds on messages are the part that is not
  obvious: `Counted` says that each message to migrate a container, the job that will send it
  and the report that will start that job go back to an event of their own, and so does
  each message to copy it.
- `OneReplacement`: `"migration" \notin Faults => (Spec => []ReplacedOnce)`. By `Replacement`, who
  replaces a container is made by the only job that works on it, and that job ends with the
  row gone, so that whoever comes later finds nothing to migrate. Containers that two jobs
  worked on at once (`mixed`) are left out: they may be replaced twice.
- `BackendsFollow`: `"rebind" \notin Faults => (Spec => []BackendsAgree)`. `Fits(p, k, c)` is what
  a job of kind `k` knows at step `p` of a container that nobody else works on: that its backends
  are right, but for the steps between a change of the row and that of the backends
  (`Settling`), and what the next steps need for them to stay so. A request of a host has
  changed the backends of some containers and no row until it commits (`Flipped`).
- `PublicationFollows`: `"rebind" \notin Faults /\ "health" \notin Faults => (Spec => []PublishedAgrees)`.
  `Shows` is what a job that is alone knows of the node: that it is right, or that
  what the job has read of the rows is (`Late`), or that etcd refused what
  was written last (`missed`). `Shown` rests on `Served`: alone, a job does
  not find its row gone, and what it takes away from the record at the end was not listed.

The premises on `Faults` are those of section 5: with each of them `LifecycleJobs` finds the
property violated. None is needed for the first two.

Only model-checked: liveness under fairness (`RequestsAnswered`, `TasksEnd`, `ViewersLetGo`),
which is out of the prover's reach. Every invariant the passing runs check is stated by a
theorem, and so are the two refinements; but some for narrower asks than the runs allow:
`LedgerBalanced` for orderly ones (`Balanced`).

## 5. Known disagreements

Shown by a run (see `findings` of `PROJECT.json`): two requests in flight given the
same cores; the dealing loop that never ends; an elastic IP that stays published
for a container that is deleted.

Not shown by a run of its own, and left out of the properties that hold by the
restriction named:

**Cores and deployment**

- `max_share_core = -1` counts too few containers when cores are already shared
  (`eru/models/host.py:180`, docstring at 197); requests for fragments only are
  counted as if cores were cut without remainder (line 184). `OrdinaryAsk`.
- Nothing stops a second `remove_containers` for a container whose removal is under
  way, and each credits its cores and addresses (`eru/models/container.py:185`, docstring
  at 176). `Overlapping = FALSE` in the runs of `Deploy`; with TRUE, two removers and
  one request, TLC finds `LedgerNeverOverstates` violated. In `IPPool` the guard of
  `Begin`.
- The part list holds every free slot of shared cores, not one per container
  (`eru/models/host.py:209`, `tests/test_scheduler.py:79`), and may open more cores than
  `max_share_core`. When they outnumber the containers, `_iter_cores` makes more
  chunks than there are containers to deploy (`eru/async/task.py:139`, `docs/API.md:60`),
  and one container is created for each. `EveryContainerIsServed` speaks of the
  planned containers.
- A shared core without a free fragment is not counted against `max_share_core`
  (`eru/models/host.py:164`, `docs/API.md:216`). No property claims the limit. When a removal
  gives such a core a fragment back, more cores are shared than the limit, and for
  requests of fragments only the count is negative (line 184). Neither
  `get_container_cores` nor the scheduler refuses a negative count
  (`eru/helpers/scheduler.py:59`): a request that names its host is given it as a plan with the free
  slots as cores, which are occupied; the worker raises on it, and nobody gives them
  back. `OrderlyAsks` in `Balanced`.
- The dealing loop also spins when the `occupy_cores` of another request falls
  between the two capacity reads (`eru/helpers/scheduler.py:39`). `MaxInFlight = 1`
  and whole cores in `DeployWholeCores`.
- A worker that dies between the credit of a container's cores and the deletion of
  its row makes the next removal credit again (`eru/models/container.py:185`).
  The guard of `Crash`.
- Docker refusing to remove a container that is being cleaned ends the task with
  the cores of its other containers occupied (`eru/async/task.py:218`).
  `CleanableFaults`.
- A negative `ncontainer` passes the check of `eru/api/deploy.py:70`. The requests of
  the runs ask for one container or more.
- A container with two entries of `part` takes two portions from the ledger and
  one from the SQL count (`eru/models/container.py:66`). `StoresAgree` is checked for whole
  cores.
- The cores planned for a migration are not occupied, and the new container
  releases them (`eru/async/task.py:246`). `Lifecycle` has no cores.
- A stop that Docker answers with a server error is sent again at once and without end
  (`eru/async/dockerjob.py:217`): the task that cleans, or the removal, hangs in it.
  `StopAgain`; `TasksEnd` leaves such a task out.
- The row of a container is committed (`eru/models/container.py:68`) while its task still
  works on it, and nothing keeps a request from removing it then (`eru/api/deploy.py:231`): before
  the cores are stored the removal finds none and returns none, and while the task cleans
  the container, both do. `BeginRemoval` takes only containers whose task is done with them.
- `remove_containers` removes several containers from Docker before it deletes the first record;
  when one is refused the others are gone and recorded (`eru/async/task.py:112`).
  A removal of the model has one container.
- Registering a host that has no containers writes its cores anew, also when a
  deployment that is under way has occupied some (`eru/models/host.py:84`). Hosts are
  registered once.
- One Redis pipeline object serves all greenlets of a process (`eru/models/host.py:15`):
  commands of two calls may be executed together. The ledger's commands are atomic here.

**Addresses**

- `allocate_ips` returns True without an address of an empty network
  (`eru/ipam/macvlan.py:69`, docstring at 43); `PopNothing` does so. A rebind whose address
  another job was given in between likewise reports success without it (lines 65
  and 104), and with calico a rebind without endpoints.
- `acquire_ip` may pop an address whose row is not deleted yet and raises
  (`eru/models/network.py:85`); the address is then in no pool until the other job
  deletes its row, and lost after that. `AddressesConserved` names these addresses
  (`Lost`), and `NothingLeaked` speaks of states in which no job died.
- A container may be recorded as dead while it runs: `Host.kill` (`eru/models/host.py:267`)
  takes a host to be down, and a report may arrive late. `cure_container` and
  `start_container` look at the record only (`eru/models/container.py:71` and 87), and
  `reallocate_ips` then releases addresses that are still configured; until the container has
  them back another one may get them, and what it does not get back stays on its
  interface. `NoAddressTwice` leaves such a container out (`stale`).
- An agent that fails half way leaves the address on the interface although it
  goes back to the pool (`eru/ipam/macvlan.py:81`). `PartialAgent = FALSE`.
- Calico: a failed call for addresses by name releases them even when another
  container has them (`eru/ipam/calico.py:140`), which happens when a deployment names
  them for several containers and when a container is copied from a host that
  is down (`stray`). A release frees an address before it removes the endpoint (line 196), so that
  in between two endpoints may have it (`Detaching`). A failed call for CIDRs releases nothing, and its retry
  assigns more. `get_pool` of an address outside every pool raises (`AskFails`).
  Two creations of networks with one name at once may lose rules of both, and the model has them one after
  the other; a second one under a name resets the profile that is in use, and `NamedIsWhole`
  leaves the network out until that is over (`again`).

**Life cycle**, each visible when its fault or value is added to `LifecycleJobs`

- With macvlan a migrated container is given its old addresses as names of
  networks; `get_pool` finds none, and the exception (`eru/async/task.py:216`,
  docstring at 160) leaves the new container recorded, without address and
  unpublished (`Calico = FALSE`).
- A removal that fails during a migration is ignored, and the new container is
  created beside the old one, once per report (`migration`: `ReplacedOnce` fails).
- Docker may create a container and fail to start it (`eru/async/dockerjob.py:199`): the task
  gives its cores back (`eru/async/task.py:207`), records nothing, and nobody removes the
  container (`DockerStartsNot`). `NoOrphan` is about containers that were started. An error is taken to mean
  that Docker did nothing; that it did and the answer was lost is not modelled.
- Two messages to migrate a container that are taken by two workers before either has removed
  it both replace it (`eru/async/task.py:250` looks for the row, and nothing marks it). `ReplacedOnce`
  leaves out the containers that two jobs worked on at once (`mixed`).
- An error of etcd is swallowed (`eru/publish.py:27`): the node stays as it was, and stale until
  the next publication of the application. `PublishedAgrees` is claimed when etcd took the last one
  (`missed`).
- A failed health check ends the task without publication, and the task is never
  finished (`eru/async/task.py:232`; `health`: `PublishedAgrees` fails).
- `start_container` publishes before it rebinds: when the rebind fails the backends
  keep an address the container has lost (`rebind`).
- A removal that fails leaves `in_removal` and the agent's flag set: the container
  runs, unpublished and unreported. `PublishedAgrees` counts it as not to be served.
- A container stopped through the API dies for the agent, which calls kill, and so
  it is migrated.
- Of two publications at once the one with the older list may write last
  (`eru/publish.py:109`). `PublishedAgrees` is claimed of jobs that do not overlap.
- A host's down or cure request fails when one of its containers is removed
  meanwhile, after it has changed the backends of the others (`eru/models/host.py:270`):
  backends are written before the commit. `mixed` in `Lifecycle`.
- Containers of a host that went down are copied, not moved: after the cure both
  run. `ReplacedOnce` leaves copies out.

**Elastic IPs and gateways**

- The addresses of a host are read, extended and written back
  (`eru/models/host.py:308`): two binds of one host lose one, and an address that is
  bound to a container can be released by its host. `EipsConserved` is claimed of requests
  about one host that follow one another.
- Nothing keeps two requests about one host or container apart: two binds may find one
  address unbound and both bind it (`eru/models/container.py:262`, against `api/container.py:141`,
  "EIP already been taken"; with `Overlapping = TRUE` TLC finds `OneOwner` violated), and a deletion may
  overtake a bind of the same container, which then marks the address for a container that
  is gone (`Untouched`). `OneOwner` and `MarksAgree` are claimed of requests that do not
  overlap.
- A container that runs out of memory loses its property `eip` and stays marked
  (`eru/api/container.py:55`), also after it is deleted: the address is not bound again. `MarksAgree` leaves
  such containers out (`wiped`).
- `delete_eip` of an address that is bound takes nothing out of the pool, and reports
  success (`eru/api/network.py:54`). `DeleteEip` does so.
- Two DELETEs of one gateway both give the address back, and one of them after a third
  host was given it (`eru/models/network.py:132`). `GatesConserved` is claimed of one
  at a time.

**Builds and logs**

- A viewer that reads the task before the end and subscribes after it waits for ever
  (`eru/api/websockets.py:35`), and a viewer of any task but a build (line 38): no other
  task sends the end message. `ViewersLetGo` speaks of builds and of those who
  subscribed in time.
- `build_image` tags `<registry>/<app>`, `push_image` pushes `<registry>/eru/<app>`
  (`eru/async/dockerjob.py:74` and 84), so that a registry without a rule of its
  own is asked for another image than was built; and the failure of `remove_image`
  after a successful push fails the task (`Raise`).
- A broker that is away leaves a task that is never finished, a worker that dies too
  (`lost`, `crashed`). The archive of a build stays on disk when the pull fails.

**Applications and configuration**

- `AppConfig.update` merges a new `app.yaml` into the old one: keys the new file
  dropped stay, beside new entrypoints (line 164), so that the stored configuration may have a bind
  without its volume although `verify_appconfig` asks that they be 1 to 1 (line 119). `ConfigsAreWhole` allows it: it
  claims the keys the last file has. Of two registrations that load before either
  saves, the optional keys of the first are lost. No property claims that they stay.
- A registration between a deployment's check of its entrypoint (`eru/api/deploy.py:78`) and
  the worker may take the entrypoint away: the worker raises `KeyError`
  (`eru/async/task.py:188`), outside any try, the task is never finished and the cores
  it was given stay occupied. `DeployedIsWhole` allows the exception when another file
  was saved in between; `Deploy` has no configurations, and no such end of a task.
- Two versions with the same first seven characters of the sha share one
  configuration (`Short`).
- `get_or_create` returns None to one of two creations at once, and the handler
  raises.
- PUT of an environment's variables loads, updates and saves (`eru/models/appconfig.py:170`):
  of two one is lost. `ConfigsAreWhole` is about the files of versions.

## 6. Plan

Left, in this order:

1. Migration in `Deploy`: the plan of a migration is never occupied and is released
   with the container. Public hosts and the removal of a version.
2. `Network.add_ip`, the deletion of a network, and containers on the host's network
   in `Lifecycle`.

Not planned: HTTP clients, the text of Dockerfiles and commands, argument checks,
listing endpoints, `remove_ip_pool` (nothing calls it).
