----------------------------- MODULE Lifecycle -----------------------------
(***************************************************************************)
(* The containers of one application from creation to removal: what        *)
(* Docker, the SQL row, the properties and the backends in Redis, the      *)
(* agent's flag and the published etcd node say of them.  The jobs are the *)
(* requests of the API (kill, cure, start, stop of eru/api/container.py)   *)
(* and the Celery tasks (create_containers for one container,              *)
(* remove_containers and migrate_container of eru/async/task.py), with     *)
(* Container.kill, cure and delete (eru/models/container.py) and           *)
(* publish_app (eru/publish.py), each step one call of one of the stores.  *)
(* A host is taken down or cured with all its containers (eru/api/host.py, *)
(* Host.kill and cure).                                                    *)
(* Cores are in Deploy, the steps of an allocation of addresses in IPPool. *)
(***************************************************************************)
EXTENDS Naturals, FiniteSets

CONSTANTS Containers,      \* of one application; an id is used once
          Hosts,
          HostOf,          \* the host a container is, or will be, created on
          Workers,         \* Celery workers and handlers of the API
          Calico,          \* the ipam: Calico, else MacVLAN
          Faults,          \* what may fail, out of FaultKinds
          MaxEvents,       \* bound: requests of users and ends of processes
          NoContainer, NoHost

FaultKinds == {"create", "boot", "network", "health", "removal", "migration", "launch",
               "rebind", "etcd"}

ASSUME LifecycleAssumption ==
    /\ NoContainer \notin Containers
    /\ HostOf \in [Containers -> Hosts]
    /\ NoHost \notin Hosts
    /\ Calico \in BOOLEAN
    /\ Faults \subseteq FaultKinds
    /\ MaxEvents \in Nat \ {0}

VARIABLES down,       \* hosts that are not alive
          con,        \* Docker, row and properties of each container
          backends,   \* containers whose backends are in the entrypoint's set
          published,  \* containers in /eru/service-nodes/<app>
          flag,       \* containers the agent shall not report
          report,     \* what the agent has to report of a container
          queue,      \* messages to migrate a container ...
          copies,     \* ... and those to migrate it without removing it
          job,        \* the workers
          events,     \* history, and bound: requests and ends of processes
          mixed,      \* history: containers two jobs have worked on at once, or
                      \* a request of their host that failed half way
          overlap,    \* history: whether two jobs have been at work at once
          missed      \* history: whether etcd refused the last publication
stores == <<down, con, backends, published, flag, report, queue, copies>>
history == <<mixed, overlap, missed>>
vars == <<stores, job, events, history>>

Kinds == {"none", "create", "kill", "cure", "start", "stop", "remove", "migrate", "copy",
          "hostkill", "hostcure"}
Places == {"idle", "docker", "boot", "row", "network", "list", "health", "down", "unlist", "test",
           "unbind", "rebind", "up", "read", "write", "reset", "enqueue", "launch", "halt",
           "plan", "mark", "flag", "stop", "release", "forget", "erase", "unflag",
           "backends", "commit", "migrations"}

\* "created": it was never started; "died": the process ended by itself;
\* "stopped": it was told to.
New == [docker |-> "new", row |-> FALSE, alive |-> FALSE, removal |-> FALSE,
        asked |-> FALSE, ip |-> FALSE, of |-> NoContainer, copy |-> FALSE]
Idle == [pc |-> "idle", kind |-> "none", con |-> NoContainer, seen |-> {},
         next |-> NoContainer, host |-> NoHost, rest |-> {}]

TypeOK ==
    /\ con \in [Containers ->
                  [docker : {"new", "created", "running", "died", "stopped", "removed"},
                   row : BOOLEAN, alive : BOOLEAN, removal : BOOLEAN,
                   asked : BOOLEAN, ip : BOOLEAN, of : Containers \cup {NoContainer},
                   copy : BOOLEAN]]
    /\ down \subseteq Hosts /\ copies \in [Containers -> 0 .. MaxEvents]
    /\ backends \subseteq Containers /\ published \subseteq Containers
    /\ flag \subseteq Containers /\ mixed \subseteq Containers
    /\ report \in [Containers -> {"none", "die", "start"}]
    /\ queue \in [Containers -> 0 .. MaxEvents]
    /\ job \in [Workers -> [pc : Places, kind : Kinds, con : Containers \cup {NoContainer},
                            seen : SUBSET Containers, next : Containers \cup {NoContainer},
                            host : Hosts \cup {NoHost}, rest : SUBSET Containers]]
    /\ events \in 0 .. MaxEvents /\ overlap \in BOOLEAN /\ missed \in BOOLEAN
    /\ \A w \in Workers :
          job[w].con = NoContainer <=> job[w].kind \in {"none", "hostkill", "hostcure"}

Init ==
    /\ down = {}
    /\ con = [c \in Containers |-> New]
    /\ backends = {} /\ published = {} /\ flag = {} /\ mixed = {}
    /\ report = [c \in Containers |-> "none"]
    /\ queue = [c \in Containers |-> 0] /\ copies = [c \in Containers |-> 0]
    /\ job = [w \in Workers |-> Idle]
    /\ events = 0 /\ overlap = FALSE /\ missed = FALSE

-----------------------------------------------------------------------------
(* Jobs.                                                                   *)

Started(c) == con[c].docker \in {"running", "died", "stopped"}

\* What the node should list: a container without an address adds nothing.
Eligible == {c \in Containers : con[c].row /\ con[c].alive /\ ~con[c].removal /\ con[c].ip}

\* What publish_app can find, in a transaction that begins when k is the state:
\* the rows, and with MacVLAN the addresses, are read as they were then.
Rows(k) == {c \in Containers : k[c].row /\ k[c].alive /\ (Calico \/ k[c].ip)}

At(w, place) == job[w].pc = place
Goto(w, place) == job' = [job EXCEPT ![w].pc = place]
End(w) == job' = [job EXCEPT ![w] = Idle]
Outcomes(fault) == IF fault \in Faults THEN BOOLEAN ELSE {TRUE}
Unused(c) ==
    /\ con[c].docker = "new"
    /\ \A w \in Workers : c \notin {job[w].con, job[w].next}

Take(w, kind, c, place) ==
    /\ At(w, "idle")
    /\ overlap' = (overlap \/ \E v \in Workers : ~At(v, "idle"))
    /\ mixed' = IF \E v \in Workers : job[v].con = c \/ (con[c].row /\ job[v].host = HostOf[c])
                THEN mixed \cup {c} ELSE mixed
    /\ job' = [job EXCEPT ![w] = [Idle EXCEPT !.pc = place, !.kind = kind, !.con = c,
                                              !.seen = IF kind = "remove" THEN Rows(con) ELSE {}]]
    /\ UNCHANGED missed

\* The agent sees what happens to a container, unless it is flagged.
Seen(c, event) == report' = IF c \in flag THEN report ELSE [report EXCEPT ![c] = event]

\* create_private with a host that has room, for a container on a network or none.
Deploy(w, c) ==
    /\ Unused(c)
    /\ Take(w, "create", c, "docker")
    /\ \E asked \in BOOLEAN : con' = [con EXCEPT ![c].asked = asked]
    /\ UNCHANGED <<down, backends, published, flag, report, queue, copies>>

Start(w, c) ==
    /\ con[c].row
    /\ Take(w, "start", c, "test")
    /\ UNCHANGED <<down, con, backends, published, flag, report, queue, copies>>

Stop(w, c) ==
    /\ con[c].row
    /\ Take(w, "stop", c, "down")
    /\ UNCHANGED <<down, con, backends, published, flag, report, queue, copies>>

Remove(w, c) ==
    /\ con[c].row
    /\ Take(w, "remove", c, "mark")
    /\ UNCHANGED <<down, con, backends, published, flag, report, queue, copies>>

\* The agent calls kill or cure.
Report(w, c) ==
    /\ report[c] # "none"
    /\ con[c].row
    /\ \/ report[c] = "die" /\ Take(w, "kill", c, "down")
       \/ report[c] = "start" /\ Take(w, "cure", c, "test")
    /\ report' = [report EXCEPT ![c] = "none"]
    /\ UNCHANGED <<down, con, backends, published, flag, queue, copies>>

\* 404: the container is not recorded.
ReportUnknown(c) ==
    /\ report[c] # "none"
    /\ ~con[c].row
    /\ report' = [report EXCEPT ![c] = "none"]
    /\ UNCHANGED <<down, con, backends, published, flag, queue, copies, job, history>>

\* Down, kill or cure of a host; two such requests about one host follow one
\* another.  Rows whose is_alive the request does not change are not written.
HostStatus(w, h, kind) ==
    /\ At(w, "idle")
    /\ \A v \in Workers : job[v].host # h
    /\ overlap' = (overlap \/ \E v \in Workers : ~At(v, "idle"))
    /\ LET here == {c \in Containers : con[c].row /\ HostOf[c] = h} IN
       /\ mixed' = mixed \cup {c \in here : \E v \in Workers : job[v].con = c}
       /\ job' = [job EXCEPT ![w] = [Idle EXCEPT !.pc = "backends", !.kind = kind, !.host = h,
                    !.seen = {c \in here : con[c].alive = (kind = "hostkill")}, !.rest = here]]
    /\ UNCHANGED <<stores, missed>>

\* Mutant: a message can be taken once more than it was sent.
MutantMigrateMore(w, c) ==
    /\ IF con[c].row THEN Take(w, "migrate", c, "plan") ELSE UNCHANGED <<job, history>>
    /\ queue' = [queue EXCEPT ![c] = @ - 1]
    /\ UNCHANGED <<down, con, backends, published, flag, report, copies>>

\* Mutant: nobody looks for the row.
MutantMigrateAny(w, c) ==
    /\ queue[c] > 0
    /\ Take(w, "migrate", c, "plan")
    /\ queue' = [queue EXCEPT ![c] = @ - 1]
    /\ UNCHANGED <<down, con, backends, published, flag, report, copies>>

\* A container that is not recorded any more is not migrated.
Migrate(w, c) ==
    /\ queue[c] > 0
    /\ IF con[c].row THEN Take(w, "migrate", c, "plan") ELSE UNCHANGED <<job, history>>
    /\ queue' = [queue EXCEPT ![c] = @ - 1]
    /\ UNCHANGED <<down, con, backends, published, flag, report, copies>>

\* migrate_container without need_to_remove.
Copy(w, c) ==
    /\ copies[c] > 0
    /\ IF con[c].row THEN Take(w, "copy", c, "plan") ELSE UNCHANGED <<job, history>>
    /\ copies' = [copies EXCEPT ![c] = @ - 1]
    /\ UNCHANGED <<down, con, backends, published, flag, report, queue>>

\* The process of a container ends; Docker may start it again (Restart).
Die(c) ==
    /\ con[c].docker = "running"
    /\ con' = [con EXCEPT ![c].docker = "died"]
    /\ Seen(c, "die")
    /\ UNCHANGED <<down, backends, published, flag, queue, copies, job, history>>

\* DELETE of a container: it is removed from Docker alone.
Delete(c) ==
    /\ con[c].row
    /\ Started(c)
    /\ con' = [con EXCEPT ![c].docker = "removed"]
    /\ IF con[c].docker = "running" THEN Seen(c, "die") ELSE UNCHANGED report
    /\ UNCHANGED <<down, backends, published, flag, queue, copies, job, history>>

Restart(c) ==
    /\ con[c].docker = "died"
    /\ con' = [con EXCEPT ![c].docker = "running"]
    /\ Seen(c, "start")
    /\ UNCHANGED <<down, backends, published, flag, queue, copies, job, history>>

\* What follows a removal, finished or failed: migrate_container runs it to
\* its end (apply) and then creates the new container whatever came of it.
RemovalOver(w) ==
    IF job[w].kind = "migrate"
    THEN job' = [job EXCEPT ![w] = [Idle EXCEPT !.pc = "docker", !.kind = "create",
                                                !.con = job[w].next]]
    ELSE End(w)

-----------------------------------------------------------------------------
(* The steps of jobs that change what is known of a container.             *)

\* The row is gone: StaleDataError or ObjectDeletedError ends the job.
Raises(w) ==
    /\ \/ job[w].pc \in {"network", "down", "unbind", "rebind", "up", "mark", "erase"}
    /\ ~con[job[w].con].row
    /\ RemovalOver(w)
    /\ UNCHANGED <<down, con, backends, published, flag, report, queue, copies, history>>

\* Rows a host's request has written and not committed wait for it.
Locked(c) ==
    \E v \in Workers : job[v].pc \in {"backends", "commit"} /\ c \in job[v].seen \ job[v].rest

\* Move on, in a transaction that begins now.
Begin(w, place) == job' = [job EXCEPT ![w].pc = place, ![w].seen = Rows(con')]

\* Container.kill: the row, then the backends.
Down(w) ==
    /\ At(w, "down")
    /\ con[job[w].con].row /\ ~Locked(job[w].con)
    /\ con' = [con EXCEPT ![job[w].con].alive = FALSE]
    /\ Begin(w, "unlist")
    /\ UNCHANGED <<down, backends, published, flag, report, queue, copies, history>>

\* Mutant: the backends stay.
MutantUnlist(w) ==
    /\ At(w, "unlist")
    /\ Goto(w, "read")
    /\ UNCHANGED <<down, con, backends, published, flag, report, queue, copies, history>>

\* remove_container_backends: by the addresses the container has now.
Unlist(w) ==
    /\ At(w, "unlist")
    /\ backends' = IF con[job[w].con].ip THEN backends \ {job[w].con} ELSE backends
    /\ Goto(w, "read")
    /\ UNCHANGED <<down, con, published, flag, report, queue, copies, history>>

\* cure_container and start_container do nothing for a container that is alive.
Test(w) ==
    /\ At(w, "test")
    /\ IF con[job[w].con].alive THEN End(w)
       ELSE Goto(w, IF job[w].kind = "cure" THEN "unbind" ELSE "up")
    /\ UNCHANGED <<down, con, backends, published, flag, report, queue, copies, history>>

\* Container.cure: the row, then the backends.
Up(w) ==
    /\ At(w, "up")
    /\ con[job[w].con].row /\ ~Locked(job[w].con)
    /\ con' = [con EXCEPT ![job[w].con].alive = TRUE]
    /\ Begin(w, "list")
    /\ UNCHANGED <<down, backends, published, flag, report, queue, copies, history>>

List(w) ==
    /\ At(w, "list")
    /\ backends' = IF con[job[w].con].ip THEN backends \cup {job[w].con} ELSE backends
    /\ Goto(w, IF job[w].kind = "create" THEN "health" ELSE "read")
    /\ UNCHANGED <<down, con, published, flag, report, queue, copies, history>>

\* Mutant: containers in removal are listed.
MutantRead(w) ==
    /\ At(w, "read")
    /\ job' = [job EXCEPT ![w].pc = "write",
                          ![w].seen = {c \in @ : Calico => con[c].ip}]
    /\ UNCHANGED <<down, con, backends, published, flag, report, queue, copies, history>>

\* publish_app reads the containers of the application: the properties, and
\* with Calico the addresses, are in other stores and as they are now ...
Read(w) ==
    /\ At(w, "read")
    /\ job' = [job EXCEPT ![w].pc = "write",
                          ![w].seen = {c \in @ : ~con[c].removal /\ (Calico => con[c].ip)}]
    /\ UNCHANGED <<down, con, backends, published, flag, report, queue, copies, history>>

AfterWrite(kind) ==
    CASE kind = "kill"  -> "reset"
      [] kind = "start" -> "launch"
      [] kind = "stop"  -> "halt"
      [] kind = "hostkill" -> "migrations"
      [] kind \in {"remove", "migrate"} -> "stop"
      [] OTHER -> "idle"

\* ... and writes what it read.  An error of etcd is swallowed: the node stays
\* as it was, and the job goes on as if it had been written.
Write(w) ==
    /\ At(w, "write")
    /\ \E ok \in Outcomes("etcd") :
          /\ published' = IF ok THEN job[w].seen ELSE published
          /\ missed' = ~ok
    /\ IF AfterWrite(job[w].kind) = "idle" THEN End(w)
       ELSE job' = [job EXCEPT ![w].pc = AfterWrite(job[w].kind), ![w].seen = {}]
    /\ UNCHANGED <<down, con, backends, flag, report, queue, copies, mixed, overlap>>

\* kill_container, when memory ran out: set_props replaces every property.
Reset(w) ==
    /\ At(w, "reset")
    /\ \E oom \in BOOLEAN : con' = [con EXCEPT ![job[w].con].removal = @ /\ ~oom]
    /\ Goto(w, "enqueue")
    /\ UNCHANGED <<down, backends, published, flag, report, queue, copies, history>>

Enqueue(w) ==
    /\ At(w, "enqueue")
    /\ queue' = [queue EXCEPT ![job[w].con] = @ + 1]
    /\ End(w)
    /\ UNCHANGED <<down, con, backends, published, flag, report, copies, history>>

\* dockerjob.start_containers, or an error of Docker.
Launch(w) ==
    /\ At(w, "launch")
    /\ LET c == job[w].con IN
       \E ok \in Outcomes("launch") :
          IF ok /\ con[c].docker \in {"died", "stopped"}
          THEN con' = [con EXCEPT ![c].docker = "running"] /\ Seen(c, "start") /\ Goto(w, "unbind")
          ELSE /\ IF ok /\ con[c].docker = "running" THEN Goto(w, "unbind") ELSE End(w)
               /\ UNCHANGED <<con, report>>
    /\ UNCHANGED <<down, backends, published, flag, queue, copies, history>>

\* rebind_container_ip: a container's addresses are released and asked for again,
\* before a cure and after a start; a container without any keeps none.
AfterRebind(w) == IF job[w].kind = "cure" THEN Goto(w, "up") ELSE End(w)

Unbind(w) ==
    /\ At(w, "unbind")
    /\ con[job[w].con].row
    /\ con' = [con EXCEPT ![job[w].con].ip = FALSE]
    /\ IF con[job[w].con].ip THEN Goto(w, "rebind") ELSE AfterRebind(w)
    /\ UNCHANGED <<down, backends, published, flag, report, queue, copies, history>>

Rebind(w) ==
    /\ At(w, "rebind")
    /\ con[job[w].con].row
    /\ \E ok \in Outcomes("rebind") : con' = [con EXCEPT ![job[w].con].ip = ok]
    /\ AfterRebind(w)
    /\ UNCHANGED <<down, backends, published, flag, report, queue, copies, history>>

Halt(w) ==
    /\ At(w, "halt")
    /\ LET c == job[w].con IN
       IF con[c].docker = "running"
       THEN con' = [con EXCEPT ![c].docker = "stopped"] /\ Seen(c, "die")
       ELSE /\ con' = IF con[c].docker = "died" THEN [con EXCEPT ![c].docker = "stopped"] ELSE con
            /\ UNCHANGED report
    /\ End(w)
    /\ UNCHANGED <<down, backends, published, flag, queue, copies, history>>

-----------------------------------------------------------------------------
(* Host.kill and cure.                                                     *)

\* The query for the addresses of a container flushes what was set before it;
\* the row is locked from then on, or it is gone and the request fails, the
\* backends of the containers before it already changed.
HostBackends(w) ==
    /\ At(w, "backends")
    /\ \E c \in job[w].rest :
          IF c \in job[w].seen /\ ~con[c].row
          THEN End(w) /\ mixed' = mixed \cup (job[w].seen \ job[w].rest) /\ UNCHANGED backends
          ELSE /\ UNCHANGED mixed
               /\ job' = [job EXCEPT ![w].rest = @ \ {c},
                                     ![w].pc = IF job[w].rest = {c} THEN "commit" ELSE @]
               /\ backends' = IF ~con[c].ip THEN backends
                              ELSE IF job[w].kind = "hostkill" THEN backends \ {c}
                              ELSE backends \cup {c}
    /\ UNCHANGED <<down, con, published, flag, report, queue, copies, overlap, missed>>

\* A host without containers has nothing to publish and nothing to migrate.
HostCommit(w) ==
    /\ job[w].pc \in {"backends", "commit"}
    /\ At(w, "backends") => job[w].rest = {}
    /\ LET dies == job[w].kind = "hostkill" IN
       /\ down' = IF dies THEN down \cup {job[w].host} ELSE down \ {job[w].host}
       /\ con' = [c \in Containers |-> IF c \in job[w].seen THEN [con[c] EXCEPT !.alive = ~dies]
                                       ELSE con[c]]
       /\ IF At(w, "backends") THEN End(w)
          ELSE job' = [job EXCEPT ![w].pc = "read", ![w].seen = Rows(con'),
                         ![w].rest = {c \in Containers : dies /\ con[c].row
                                                            /\ HostOf[c] = job[w].host}]
    /\ UNCHANGED <<backends, published, flag, report, queue, copies, history>>

\* A copy is to be made of every container of the host that was taken down.
HostMigrations(w) ==
    /\ At(w, "migrations")
    /\ \/ job[w].rest = {} /\ End(w) /\ UNCHANGED copies
       \/ \E c \in job[w].rest :
             /\ copies' = [copies EXCEPT ![c] = @ + 1]
             /\ job' = [job EXCEPT ![w].rest = @ \ {c}]
    /\ UNCHANGED <<down, con, backends, published, flag, report, queue, history>>

-----------------------------------------------------------------------------
(* create_containers, for one container.                                   *)

DockerCreates(w) ==
    /\ At(w, "docker")
    /\ con' = [con EXCEPT ![job[w].con].docker = "created"]
    /\ Goto(w, "boot")
    /\ UNCHANGED <<down, backends, published, flag, report, queue, copies, history>>

\* The task goes on with the containers it has, none, and publishes.
DockerCreatesNot(w) ==
    /\ "create" \in Faults
    /\ At(w, "docker")
    /\ con' = [con EXCEPT ![job[w].con] = New]
    /\ Begin(w, "read")
    /\ UNCHANGED <<down, backends, published, flag, report, queue, copies, history>>

DockerStarts(w) ==
    /\ At(w, "boot")
    /\ con' = [con EXCEPT ![job[w].con].docker = "running"]
    /\ Goto(w, "row")
    /\ UNCHANGED <<down, backends, published, flag, report, queue, copies, history>>

\* Nobody removes what was created: it stays in Docker, and is not recorded.
DockerStartsNot(w) ==
    /\ "boot" \in Faults
    /\ At(w, "boot")
    /\ UNCHANGED con
    /\ Begin(w, "read")
    /\ UNCHANGED <<down, backends, published, flag, report, queue, copies, history>>

\* Container.create.
Record(w) ==
    /\ At(w, "row")
    /\ con' = [con EXCEPT ![job[w].con].row = TRUE, ![job[w].con].alive = TRUE]
    /\ Goto(w, "network")
    /\ UNCHANGED <<down, backends, published, flag, report, queue, copies, history>>

\* A migrated container is given its addresses as the networks to join; an
\* ipam that knows no pool by an address yields None, which has no netspace.
NoSuchPool(c) == con[c].of # NoContainer /\ con[c].asked /\ ~Calico

Network(w) ==
    /\ At(w, "network")
    /\ LET c == job[w].con IN
       /\ con[c].row
       /\ ~NoSuchPool(c)
       /\ con' = [con EXCEPT ![c].ip = con[c].asked]
    /\ Begin(w, "list")
    /\ UNCHANGED <<down, backends, published, flag, report, queue, copies, history>>

\* The container is cleaned away, or the exception ends the task.
NetworkNot(w) ==
    /\ At(w, "network")
    /\ LET c == job[w].con IN
       /\ con[c].row
       /\ con[c].asked
       /\ IF NoSuchPool(c) THEN End(w) ELSE "network" \in Faults /\ Goto(w, "stop")
    /\ UNCHANGED <<down, con, backends, published, flag, report, queue, copies, history>>

\* When the health check of its backends fails, the task returns without publication.
Health(w) ==
    /\ At(w, "health")
    /\ \E ok \in Outcomes("health") :
          IF ok \/ ~con[job[w].con].ip THEN Goto(w, "read") ELSE End(w)
    /\ UNCHANGED <<down, con, backends, published, flag, report, queue, copies, history>>

-----------------------------------------------------------------------------
(* remove_containers, migrate_container and the cleaning of a container.   *)

\* average_schedule finds a living host for the new container, or migration
\* ends; the old one's addresses are read before it is removed.
Plan(w) ==
    /\ At(w, "plan")
    /\ LET c == job[w].con IN
       \/ End(w) /\ UNCHANGED con
       \/ \E n \in Containers :
             /\ Unused(n) /\ HostOf[n] \notin down
             /\ con' = [con EXCEPT ![n].of = c, ![n].asked = con[c].ip,
                                   ![n].copy = job[w].kind = "copy"]
             /\ job' = [job EXCEPT ![w] =
                    IF @.kind = "copy" THEN [Idle EXCEPT !.pc = "docker", !.kind = "create", !.con = n]
                    ELSE [@ EXCEPT !.pc = "mark", !.next = n, !.seen = Rows(con)]]
    /\ UNCHANGED <<down, backends, published, flag, report, queue, copies, history>>

Mark(w) ==
    /\ At(w, "mark")
    /\ con[job[w].con].row
    /\ con' = [con EXCEPT ![job[w].con].removal = TRUE]
    /\ Goto(w, "flag")
    /\ UNCHANGED <<down, backends, published, flag, report, queue, copies, history>>

SetFlag(w) ==
    /\ At(w, "flag")
    /\ flag' = flag \cup {job[w].con}
    /\ Goto(w, "unlist")
    /\ UNCHANGED <<down, con, backends, published, report, queue, copies, history>>

\* Removed, or not there any more.
DockerRemoves(w) ==
    /\ At(w, "stop")
    /\ con' = [con EXCEPT ![job[w].con].docker = "removed"]
    /\ Goto(w, "release")
    /\ UNCHANGED <<down, backends, published, flag, report, queue, copies, history>>

\* Mutant: the error is ignored, and the record is deleted.
MutantDockerRemovesNot(w) ==
    /\ "removal" \in Faults
    /\ At(w, "stop")
    /\ Started(job[w].con)
    /\ Goto(w, "release")
    /\ UNCHANGED <<down, con, backends, published, flag, report, queue, copies, history>>

\* Docker fails, before or after it stopped the container: the task ends, and
\* in_removal and the flag stay.
DockerRemovesNot(w) ==
    /\ (IF job[w].kind = "migrate" THEN "migration" ELSE "removal") \in Faults
    /\ At(w, "stop")
    /\ LET c == job[w].con IN
       /\ Started(c)
       /\ \E d \in {con[c].docker, "stopped"} : con' = [con EXCEPT ![c].docker = d]
    /\ RemovalOver(w)
    /\ UNCHANGED <<down, backends, published, flag, report, queue, copies, history>>

\* Container.delete, in the order of the code.
Release(w) ==
    /\ At(w, "release")
    /\ con' = [con EXCEPT ![job[w].con].ip = FALSE]
    /\ Goto(w, "forget")
    /\ UNCHANGED <<down, backends, published, flag, report, queue, copies, history>>

Forget(w) ==
    /\ At(w, "forget")
    /\ con' = [con EXCEPT ![job[w].con].removal = FALSE]
    /\ Goto(w, "erase")
    /\ UNCHANGED <<down, backends, published, flag, report, queue, copies, history>>

Erase(w) ==
    /\ At(w, "erase")
    /\ con[job[w].con].row /\ ~Locked(job[w].con)
    /\ con' = [con EXCEPT ![job[w].con].row = FALSE]
    /\ IF job[w].kind = "create" THEN Begin(w, "read") ELSE Goto(w, "unflag")
    /\ UNCHANGED <<down, backends, published, flag, report, queue, copies, history>>

ClearFlag(w) ==
    /\ At(w, "unflag")
    /\ flag' = flag \ {job[w].con}
    /\ RemovalOver(w)
    /\ UNCHANGED <<down, con, backends, published, report, queue, copies, history>>

-----------------------------------------------------------------------------
\* What users and Docker do of their own accord, MaxEvents times.
Event ==
    /\ events < MaxEvents /\ events' = events + 1
    /\ \E c \in Containers :
          \/ Die(c) \/ Delete(c)
          \/ \E w \in Workers : Deploy(w, c) \/ Start(w, c) \/ Stop(w, c) \/ Remove(w, c)
             \/ HostStatus(w, HostOf[c], "hostkill") \/ HostStatus(w, HostOf[c], "hostcure")

Work(w) ==
    \/ Raises(w) \/ Down(w) \/ Unlist(w) \/ Test(w) \/ Up(w) \/ List(w) \/ Read(w) \/ Write(w)
    \/ Reset(w) \/ Enqueue(w) \/ Launch(w) \/ Unbind(w) \/ Rebind(w) \/ Halt(w)
    \/ DockerCreates(w) \/ DockerCreatesNot(w) \/ DockerStarts(w) \/ DockerStartsNot(w)
    \/ Record(w) \/ Network(w) \/ NetworkNot(w) \/ Health(w) \/ Plan(w) \/ Mark(w)
    \/ SetFlag(w) \/ DockerRemoves(w) \/ DockerRemovesNot(w)
    \/ Release(w) \/ Forget(w) \/ Erase(w) \/ ClearFlag(w)
    \/ HostBackends(w) \/ HostCommit(w) \/ HostMigrations(w)

Consequence ==
    /\ \/ \E w \in Workers : Work(w) \/ \E c \in Containers : Report(w, c) \/ Migrate(w, c) \/ Copy(w, c)
       \/ \E c \in Containers : Restart(c) \/ ReportUnknown(c)
    /\ UNCHANGED events

\* Nothing is left to do, whether or not more will be asked.
AllDone ==
    /\ \A w \in Workers : At(w, "idle")
    /\ \A c \in Containers : report[c] = "none" /\ queue[c] = 0 /\ copies[c] = 0 /\ con[c].docker # "died"
    /\ UNCHANGED vars

Next == Event \/ Consequence \/ AllDone

Spec == Init /\ [][Next]_vars

-----------------------------------------------------------------------------
Settled == \A w \in Workers : At(w, "idle")

(* A container that Docker started is recorded, or a task is about to      *)
(* record it: neither a refusal of Docker nor any overlap of removals,     *)
(* migrations and reports leaves one running that nobody knows of.  (One   *)
(* that was created and whose start failed is there, and is not recorded.) *)
NoOrphan ==
    \A c \in Containers : Started(c) =>
        con[c].row \/ \E w \in Workers : job[w].con = c /\ At(w, "row")

(* At rest the entrypoint's set of backends has every container that       *)
(* should be served and none that is dead, removed or without address,     *)
(* when no two jobs worked on the container at once (add_container_backends *)
(* and remove_container_backends are called from five places).             *)
BackendsAgree ==
    Settled => \A c \in Containers \ mixed :
        /\ c \in Eligible => c \in backends
        /\ c \in backends => con[c].row /\ con[c].alive /\ con[c].ip

(* Jobs that follow one another leave the living containers in the         *)
(* published node, no more and no fewer, if etcd took what was written     *)
(* last: every job that changes what publish_app reads writes it after     *)
(* that, and one publication makes good for all that etcd refused before.  *)
(* (A failed health check ends a task before its publication, and so does  *)
(* an address that start cannot have again: the faults "health" and        *)
(* "rebind" are left out where this is claimed.)                           *)
PublishedAgrees == Settled /\ ~overlap /\ ~missed => published = Eligible

(* A container is replaced by one other, however often it is reported dead *)
(* and migrated (migrate_container looks for the row first), apart from    *)
(* the copies made of it when its host is taken down.  It is not said of a *)
(* container two jobs worked on at once: two messages taken by two workers *)
(* before either removed it replace it twice.                              *)
ReplacedOnce ==
    \A c \in Containers \ mixed : \A m, n \in Containers :
        con[m].row /\ con[n].row /\ con[m].of = c /\ con[n].of = c
            /\ ~con[m].copy /\ ~con[n].copy => m = n

=============================================================================
