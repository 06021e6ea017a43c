-------------------------- MODULE LifecycleProofs --------------------------
(***************************************************************************)
(* The life of containers, for any number of containers, hosts and         *)
(* workers, any requests and any of the failures.  The invariant says what *)
(* a job knows at each of its steps and which containers nobody but their  *)
(* creator knows of; on it rest four others: for the messages under way    *)
(* (Counted), for migrations (Replacement), for the backends (Served) and, *)
(* on the last, for the published node (Shown).                            *)
(***************************************************************************)
EXTENDS Lifecycle, FiniteSetTheorems, TLAPS

-----------------------------------------------------------------------------
(* The invariant.                                                          *)

ConType == [docker : {"new", "created", "running", "died", "stopped", "removed"},
            row : BOOLEAN, alive : BOOLEAN, removal : BOOLEAN,
            asked : BOOLEAN, ip : BOOLEAN, of : Containers \cup {NoContainer},
            copy : BOOLEAN]
JobType == [pc : Places, kind : Kinds, con : Containers \cup {NoContainer},
            seen : SUBSET Containers, next : Containers \cup {NoContainer},
            host : Hosts \cup {NoHost}, rest : SUBSET Containers]

\* The types, but for the bounds.
Types ==
    /\ con \in [Containers -> ConType]
    /\ job \in [Workers -> JobType]
    /\ down \subseteq Hosts
    /\ backends \subseteq Containers /\ published \subseteq Containers
    /\ flag \subseteq Containers /\ mixed \subseteq Containers
    /\ report \in [Containers -> {"none", "die", "start"}]
    /\ queue \in [Containers -> Nat] /\ copies \in [Containers -> Nat]
    /\ overlap \in BOOLEAN /\ missed \in BOOLEAN

HostKinds == {"hostkill", "hostcure"}

\* The jobs that come to a place.
ComeTo(p, k) ==
    /\ p = "idle" <=> k = "none"
    /\ p \in {"docker", "boot", "row", "network", "health"} => k = "create"
    /\ p \in {"down", "halt", "reset", "enqueue"} => k \in {"kill", "stop"}
    /\ p = "halt" => k = "stop"
    /\ p \in {"reset", "enqueue"} => k = "kill"
    /\ p = "list" => k \in {"create", "cure", "start"}
    /\ p = "unlist" => k \in {"kill", "stop", "remove", "migrate"}
    /\ p \in {"test", "unbind", "rebind", "up"} => k \in {"cure", "start"}
    /\ p = "launch" => k = "start"
    /\ p = "plan" => k \in {"migrate", "copy"}
    /\ k = "copy" => p = "plan"
    /\ p \in {"mark", "flag", "unflag"} => k \in {"remove", "migrate"}
    /\ p \in {"stop", "release", "forget", "erase"} => k \in {"create", "remove", "migrate"}
    /\ p \in {"backends", "commit"} => k \in HostKinds
    /\ p = "migrations" => k = "hostkill"

JobShape(w) ==
    /\ ComeTo(job[w].pc, job[w].kind)
    /\ job[w].con = NoContainer <=> job[w].kind \in {"none", "hostkill", "hostcure"}
    /\ job[w].host = NoHost <=> job[w].kind \notin HostKinds
    /\ job[w].next = NoContainer <=> ~(job[w].kind = "migrate" /\ job[w].pc # "plan")

\* A container that was created, and that its creator has recorded.
Known(c) ==
    /\ con[c].docker # "new"
    /\ \A w \in Workers : job[w].pc \in {"boot", "row"} => job[w].con # c

\* The container a job creates, or will create.
Making(w) == IF job[w].pc \in {"docker", "boot", "row"} THEN job[w].con ELSE job[w].next

\* The request of a host is between its query and its commit.
Open(w) == job[w].pc \in {"backends", "commit"}

JobFacts(w) ==
    /\ At(w, "docker") => con[job[w].con].docker = "new"
    /\ job[w].next # NoContainer => con[job[w].next].docker = "new"
    /\ job[w].pc \in {"boot", "row"} => con[job[w].con].docker # "new"
    /\ job[w].pc \in {"release", "forget", "erase", "unflag"}
          => con[job[w].con].docker = "removed"
    /\ job[w].con # NoContainer
          /\ ~(job[w].kind = "create" /\ job[w].pc \in {"docker", "boot", "row", "read", "write"})
          => Known(job[w].con)
    /\ Open(w) => \A c \in job[w].seen \cup job[w].rest : Known(c) /\ HostOf[c] = job[w].host

Blank(c) ==
    /\ ~con[c].row /\ ~con[c].alive /\ ~con[c].ip /\ ~con[c].removal
    /\ c \notin backends

ConFacts(c) ==
    /\ Known(c) \/ Blank(c)
    /\ con[c].of # NoContainer => Known(con[c].of)

\* A container that is being made is the concern of one job.
Sole ==
    \A v, w \in Workers :
        v # w /\ Making(w) # NoContainer => Making(w) \notin {job[v].con, job[v].next}

OneRequest ==
    \A v, w \in Workers : job[v].host = job[w].host /\ job[v].host # NoHost => v = w

IInv ==
    /\ Types
    /\ \A w \in Workers : JobShape(w) /\ JobFacts(w)
    /\ \A c \in Containers : ConFacts(c)
    /\ Sole
    /\ OneRequest
    /\ NoOrphan

-----------------------------------------------------------------------------
(* What a step does to one job.                                            *)

\* The other jobs stay.
Others(w) == \A v \in Workers \ {w} : job'[v] = job[v]

\* A job goes on to p, whatever it has seen.
Moved(w, p) ==
    /\ Others(w)
    /\ job'[w].pc = p /\ job'[w].kind = job[w].kind /\ job'[w].con = job[w].con
    /\ job'[w].next = job[w].next /\ job'[w].host = job[w].host

Ended(w) == Others(w) /\ job'[w] = Idle

\* A migration creates the new container.
Turned(w) ==
    /\ Others(w)
    /\ job'[w] = [Idle EXCEPT !.pc = "docker", !.kind = "create", !.con = job[w].next]

LEMMA IdleType == Idle \in JobType
BY DEF Idle, JobType, Places, Kinds

LEMMA GoneTo ==
  ASSUME job \in [Workers -> JobType], NEW w \in Workers, NEW p \in Places, Goto(w, p)
  PROVE  /\ job' \in [Workers -> JobType] /\ Moved(w, p)
         /\ job'[w].seen = job[w].seen /\ job'[w].rest = job[w].rest
BY DEF Goto, Moved, Others, JobType

LEMMA Begun ==
  ASSUME job \in [Workers -> JobType], NEW w \in Workers, NEW p \in Places, Begin(w, p)
  PROVE  /\ job' \in [Workers -> JobType] /\ Moved(w, p)
         /\ job'[w].seen = Rows(con') /\ job'[w].rest = job[w].rest
<1>1. Rows(con') \in SUBSET Containers
  BY DEF Rows
<1> DEFINE S == Rows(con')
<1>2. job' = [job EXCEPT ![w].pc = p, ![w].seen = S]
  BY DEF Begin
<1> HIDE DEF S
<1>3. S \in SUBSET Containers
  BY <1>1 DEF S
<1>4. /\ job' \in [Workers -> JobType] /\ Moved(w, p)
      /\ job'[w].seen = S /\ job'[w].rest = job[w].rest
  BY <1>2, <1>3 DEF Moved, Others, JobType
<1> QED
  BY <1>4 DEF S

LEMMA Finished ==
  ASSUME job \in [Workers -> JobType], NEW w \in Workers, End(w)
  PROVE  job' \in [Workers -> JobType] /\ Ended(w)
BY IdleType DEF End, Ended, Others

LEMMA Over ==
  ASSUME job \in [Workers -> JobType], NEW w \in Workers, RemovalOver(w)
  PROVE  /\ job' \in [Workers -> JobType]
         /\ job[w].kind = "migrate" => Turned(w)
         /\ job[w].kind # "migrate" => Ended(w)
<1>1. CASE job[w].kind = "migrate"
  <2> DEFINE j == [Idle EXCEPT !.pc = "docker", !.kind = "create", !.con = job[w].next]
  <2>1. j \in JobType
    BY IdleType DEF JobType, Places, Kinds
  <2>2. job' = [job EXCEPT ![w] = j]
    BY <1>1 DEF RemovalOver
  <2> HIDE DEF j
  <2>3. job' \in [Workers -> JobType] /\ Others(w) /\ job'[w] = j
    BY <2>1, <2>2 DEF Others
  <2> QED
    BY <1>1, <2>3 DEF j, Turned
<1>2. CASE job[w].kind # "migrate"
  BY <1>2, Finished DEF RemovalOver
<1> QED
  BY <1>1, <1>2

-----------------------------------------------------------------------------
(* What keeps the invariant.                                               *)

\* What almost every step respects: nothing is made, and nothing happens to a
\* container that only its creator knows of.
Tame ==
    /\ \A x \in Containers :
        /\ con'[x].of # con[x].of /\ con'[x].of # NoContainer =>
              con'[x].of \in Containers /\ Known(con'[x].of)
        /\ con'[x].docker = "new" <=> con[x].docker = "new"
        /\ con[x].docker = "removed" => con'[x].docker = "removed"
        /\ Started(x)' => Started(x) /\ (con[x].row => con'[x].row)
    /\ \A x \in Containers : ~Known(x) =>
        /\ con'[x].row = con[x].row /\ con'[x].alive = con[x].alive
        /\ con'[x].ip = con[x].ip /\ con'[x].removal = con[x].removal
        /\ x \in backends' => x \in backends

LEMMA KnownKept ==
  ASSUME NEW w \in Workers, Others(w), Tame, job[w].pc \notin {"boot", "row"},
         job'[w].pc \notin {"boot", "row"}
  PROVE  \A x \in Containers : Known(x)' <=> Known(x)
<1> SUFFICES ASSUME NEW x \in Containers PROVE Known(x)' <=> Known(x)
  OBVIOUS
<1>1. con'[x].docker = "new" <=> con[x].docker = "new"
  BY DEF Tame
<1>2. \A v \in Workers : job'[v].pc \in {"boot", "row"} /\ job'[v].con = x
                             <=> job[v].pc \in {"boot", "row"} /\ job[v].con = x
  BY DEF Others, At
<1> QED
  BY <1>1, <1>2 DEF Known, At

LEMMA Unshared ==
  ASSUME IInv, NEW w \in Workers, Others(w),
         \A v \in Workers \ {w} :
            /\ Making(w)' # NoContainer => Making(w)' \notin {job[v].con, job[v].next}
            /\ Making(v) # NoContainer => Making(v) \notin {job'[w].con, job'[w].next}
  PROVE  Sole'
<1>1. Sole
  BY DEF IInv
<1>2. \A v \in Workers \ {w} : job'[v] = job[v] /\ Making(v)' = Making(v)
  BY DEF Others, Making
<1> SUFFICES ASSUME NEW u \in Workers, NEW v \in Workers, u # v, Making(v)' # NoContainer
             PROVE  Making(v)' \notin {job'[u].con, job'[u].next}
  BY DEF Sole
<1>3. CASE v = w
  BY <1>2, <1>3
<1>4. CASE u = w
  BY <1>2, <1>4
<1>5. CASE v # w /\ u # w
  BY <1>1, <1>2, <1>5 DEF Sole
<1> QED
  BY <1>3, <1>4, <1>5

LEMMA OtherJobs ==
  ASSUME IInv, NEW w \in Workers, Others(w),
         \A x \in Containers : Known(x) => Known(x)',
         \A x \in Containers :
            Known(x) /\ con[x].docker = "removed" => con'[x].docker = "removed",
         \A v \in Workers \ {w} : Making(v) # NoContainer =>
            (con'[Making(v)].docker = "new" <=> con[Making(v)].docker = "new")
  PROVE  \A v \in Workers \ {w} : JobShape(v)' /\ JobFacts(v)'
<1> SUFFICES ASSUME NEW v \in Workers \ {w} PROVE JobShape(v)' /\ JobFacts(v)'
  OBVIOUS
<1>1. JobShape(v) /\ JobFacts(v) /\ Types /\ job[v] \in JobType /\ job'[v] = job[v]
  BY DEF IInv, Types, Others
<1>2. JobShape(v)'
  BY <1>1 DEF JobShape
<1>3. job[v].pc \in {"docker", "boot", "row"} =>
        job[v].con \in Containers /\ Making(v) = job[v].con /\ job[v].next = NoContainer
  BY <1>1 DEF JobShape, ComeTo, Making, JobType
<1>4. job[v].next # NoContainer => Making(v) = job[v].next /\ job[v].next \in Containers
  BY <1>1, <1>3 DEF Making, JobType
<1>5. /\ At(v, "docker") => con'[job[v].con].docker = "new"
      /\ job[v].pc \in {"boot", "row"} => con'[job[v].con].docker # "new"
      /\ job[v].next # NoContainer => con'[job[v].next].docker = "new"
  BY <1>1, <1>3, <1>4, LifecycleAssumption DEF JobFacts, At
<1>6. job[v].pc \in {"release", "forget", "erase", "unflag"} => con'[job[v].con].docker = "removed"
  <2> SUFFICES ASSUME job[v].pc \in {"release", "forget", "erase", "unflag"}
               PROVE  con'[job[v].con].docker = "removed"
    OBVIOUS
  <2>1. job[v].con \in Containers
    BY <1>1 DEF JobShape, ComeTo, JobType, HostKinds
  <2>2. PICK c \in Containers : c = job[v].con
    BY <2>1
  <2>3. Known(c) /\ con[c].docker = "removed"
    BY <1>1, <2>2, LifecycleAssumption DEF JobFacts
  <2> QED
    BY <2>2, <2>3
<1>7. job[v].con # NoContainer
         /\ ~(job[v].kind = "create" /\ job[v].pc \in {"docker", "boot", "row", "read", "write"})
         => Known(job[v].con)'
  <2> SUFFICES ASSUME job[v].con # NoContainer, Known(job[v].con) PROVE Known(job[v].con)'
    BY <1>1 DEF JobFacts
  <2>1. job[v].con \in Containers
    BY <1>1 DEF JobType
  <2>2. PICK c \in Containers : c = job[v].con
    BY <2>1
  <2>3. Known(c)'
    BY <2>2
  <2> QED
    BY <1>1, <2>2, <2>3
<1>8. Open(v) => \A c \in job[v].seen \cup job[v].rest : Known(c)' /\ HostOf[c] = job[v].host
  BY <1>1 DEF JobFacts, JobType
<1>9. JobFacts(v)'
  BY <1>1, <1>5, <1>6, <1>7, <1>8 DEF JobFacts, At, Open
<1> QED
  BY <1>2, <1>9

LEMMA TameContainers ==
  ASSUME IInv, Types', NEW w \in Workers, Others(w), Tame, job[w].pc \notin {"boot", "row"},
         job'[w].pc \notin {"boot", "row"}
  PROVE  /\ \A c \in Containers : ConFacts(c)'
         /\ NoOrphan'
         /\ \A c \in Containers : Known(c)' <=> Known(c)
<1>1. \A c \in Containers : Known(c)' <=> Known(c)
  BY KnownKept
<1>2. ASSUME NEW c \in Containers PROVE ConFacts(c)'
  <2>1. ConFacts(c) /\ con[c] \in ConType
    BY DEF IInv, Types
  <2>2. (Known(c) \/ Blank(c))'
    BY <1>1, <2>1 DEF ConFacts, Blank, Tame
  <2>3. (con[c].of # NoContainer => Known(con[c].of))'
    <3> SUFFICES ASSUME con'[c].of # NoContainer PROVE Known(con[c].of)'
      OBVIOUS
    <3>1. con'[c].of # con[c].of => con'[c].of \in Containers /\ Known(con'[c].of)
      BY DEF Tame
    <3>2. con'[c].of \in Containers /\ Known(con'[c].of)
      BY <2>1, <3>1 DEF ConType, ConFacts
    <3>3. PICK d \in Containers : d = con'[c].of
      BY <3>2
    <3>4. Known(d)'
      BY <1>1, <3>2, <3>3
    <3> QED
      BY <3>3, <3>4
  <2> QED
    BY <2>2, <2>3 DEF ConFacts
<1>3. NoOrphan'
  <2> SUFFICES ASSUME NEW c \in Containers, Started(c)'
               PROVE  (con[c].row \/ \E v \in Workers : job[v].con = c /\ At(v, "row"))'
    BY DEF NoOrphan
  <2>1. Started(c) /\ (con[c].row => con'[c].row)
    BY DEF Tame
  <2>2. con[c].row \/ \E v \in Workers : job[v].con = c /\ At(v, "row")
    BY <2>1 DEF IInv, NoOrphan
  <2>3. ASSUME NEW v \in Workers, job[v].con = c, At(v, "row")
        PROVE  job'[v].con = c /\ At(v, "row")'
    <3>1. v # w /\ job'[v] = job[v]
      BY <2>3 DEF Others, At
    <3> QED
      BY <2>3, <3>1 DEF At
  <2> QED
    BY <2>1, <2>2, <2>3
<1> QED
  BY <1>1, <1>2, <1>3

\* One request of a host at a time.
LEMMA OneRequestKept ==
  ASSUME IInv, NEW w \in Workers, Others(w),
         job'[w].host # NoHost => \A v \in Workers \ {w} : job[v].host # job'[w].host
  PROVE  OneRequest'
<1>1. OneRequest /\ \A v \in Workers \ {w} : job'[v] = job[v]
  BY DEF IInv, Others
<1> QED
  BY <1>1 DEF OneRequest

LEMMA TameKeeps ==
  ASSUME IInv, Types', NEW w \in Workers, Others(w), Tame, job[w].pc \notin {"boot", "row"},
         job'[w].pc \notin {"boot", "row"},
         JobShape(w)', JobFacts(w)', Sole', OneRequest'
  PROVE  IInv'
<1>1. /\ \A c \in Containers : ConFacts(c)'
      /\ NoOrphan'
      /\ \A c \in Containers : Known(c)' <=> Known(c)
  BY TameContainers
<1>2. ASSUME NEW v \in Workers \ {w}, Making(v) # NoContainer
      PROVE  con'[Making(v)].docker = "new" <=> con[Making(v)].docker = "new"
  <2>1. Making(v) \in Containers
    BY <1>2 DEF IInv, Types, JobType, Making
  <2>2. PICK c \in Containers : c = Making(v)
    BY <2>1
  <2> QED
    BY <2>2 DEF Tame
<1>3. \A x \in Containers : con[x].docker = "removed" => con'[x].docker = "removed"
  BY DEF Tame
<1>4. \A v \in Workers \ {w} : JobShape(v)' /\ JobFacts(v)'
  BY <1>1, <1>2, <1>3, OtherJobs
<1>5. \A v \in Workers : JobShape(v)' /\ JobFacts(v)'
  BY <1>4
<1> QED
  BY <1>1, <1>5 DEF IInv

\* Where the steps of a job on a container lead from and to.
Walk == Places \ {"idle", "docker", "boot", "row", "plan", "backends", "commit"}

LEMMA MoveKeeps ==
  ASSUME IInv, Types', NEW w \in Workers, NEW p \in Walk, Moved(w, p), Tame,
         job[w].pc \in Walk \cup {"commit", "backends"},
         ComeTo(p, job[w].kind),
         p \in {"release", "forget", "erase", "unflag"} => con'[job[w].con].docker = "removed",
         p \in {"read", "write"} \/ job[w].pc \notin {"read", "write"} \/ job[w].kind # "create"
  PROVE  IInv'
<1>1. /\ Others(w) /\ job[w] \in JobType /\ JobShape(w) /\ JobFacts(w) /\ Sole /\ OneRequest
      /\ job'[w].pc = p /\ job'[w].kind = job[w].kind /\ job'[w].con = job[w].con
      /\ job'[w].next = job[w].next /\ job'[w].host = job[w].host
  BY DEF IInv, Types, Moved
<1>2. /\ job[w].pc \notin {"boot", "row"} /\ job'[w].pc \notin {"boot", "row"}
      /\ p \notin {"idle", "docker", "boot", "row", "plan", "backends", "commit"}
      /\ job[w].pc \notin {"idle", "docker", "boot", "row", "plan"}
  BY <1>1 DEF At, Walk
<1>3. JobShape(w)'
  BY <1>1, <1>2 DEF JobShape
<1>4. Making(w)' = job[w].next /\ Making(w) = job[w].next
  BY <1>1, <1>2 DEF Making
<1>5. Sole'
  BY <1>1, <1>4, Unshared DEF Sole
<1>6. OneRequest'
  BY <1>1, OneRequestKept DEF OneRequest
<1>7. \A c \in Containers : Known(c)' <=> Known(c)
  BY <1>1, <1>2, TameContainers
<1>8. job'[w].next # NoContainer => con'[job'[w].next].docker = "new"
  <2> SUFFICES ASSUME job[w].next # NoContainer PROVE con'[job[w].next].docker = "new"
    BY <1>1
  <2>1. PICK n \in Containers : n = job[w].next
    BY <1>1 DEF JobType
  <2> QED
    BY <1>1, <2>1 DEF JobFacts, Tame
<1>9. job'[w].con # NoContainer
         /\ ~(job'[w].kind = "create" /\ job'[w].pc \in {"docker", "boot", "row", "read", "write"})
         => Known(job[w].con)'
  <2> SUFFICES ASSUME job[w].con # NoContainer,
                      ~(job[w].kind = "create" /\ p \in {"docker", "boot", "row", "read", "write"})
               PROVE  Known(job[w].con)'
    BY <1>1
  <2>1. PICK c \in Containers : c = job[w].con
    BY <1>1 DEF JobType
  <2>2. Known(c)
    BY <1>1, <1>2, <2>1 DEF JobFacts
  <2>3. Known(c)'
    BY <1>7, <2>2
  <2> QED
    BY <1>1, <2>1, <2>3
<1>10. JobFacts(w)'
  BY <1>1, <1>2, <1>8, <1>9 DEF JobFacts, At, Open
<1> QED
  BY <1>1, <1>2, <1>3, <1>5, <1>6, <1>10, TameKeeps

LEMMA EndKeeps ==
  ASSUME IInv, Types', NEW w \in Workers, Ended(w), Tame, job[w].pc \notin {"boot", "row"}
  PROVE  IInv'
<1>1. /\ Others(w) /\ job'[w].pc = "idle" /\ job'[w].kind = "none" /\ job'[w].con = NoContainer
      /\ job'[w].next = NoContainer /\ job'[w].host = NoHost
  BY DEF Ended, Idle
<1>2. JobShape(w)' /\ JobFacts(w)'
  BY <1>1 DEF JobShape, JobFacts, ComeTo, HostKinds, At, Open
<1>3. Making(w)' = NoContainer
  BY <1>1 DEF Making
<1>4. Sole'
  BY <1>1, <1>3, Unshared
<1>5. OneRequest'
  BY <1>1, OneRequestKept
<1> QED
  BY <1>1, <1>2, <1>4, <1>5, TameKeeps

LEMMA TurnKeeps ==
  ASSUME IInv, Types', NEW w \in Workers, Turned(w), Tame, job[w].pc # "plan",
         job[w].kind = "migrate"
  PROVE  IInv'
<1>1. /\ Others(w) /\ job'[w].pc = "docker" /\ job'[w].kind = "create"
      /\ job'[w].con = job[w].next /\ job'[w].next = NoContainer /\ job'[w].host = NoHost
      /\ job[w] \in JobType /\ JobShape(w) /\ JobFacts(w) /\ Sole
  BY DEF Turned, Idle, IInv, Types
<1>2. job[w].next \in Containers /\ job[w].next # NoContainer /\ job[w].pc \notin {"docker", "boot", "row"}
  BY <1>1 DEF JobShape, ComeTo, JobType
<1>3. JobShape(w)'
  BY <1>1, <1>2 DEF JobShape, ComeTo, HostKinds
<1>4. con'[job[w].next].docker = "new"
  BY <1>1, <1>2 DEF JobFacts, Tame
<1>5. JobFacts(w)'
  BY <1>1, <1>4 DEF JobFacts, At, Open
<1>6. Making(w) = job[w].next /\ Making(w)' = job[w].next
  BY <1>1, <1>2 DEF Making
<1>7. Sole'
  BY <1>1, <1>6, Unshared DEF Sole
<1>8. OneRequest'
  BY <1>1, OneRequestKept
<1> QED
  BY <1>1, <1>2, <1>3, <1>5, <1>7, <1>8, TameKeeps DEF At

LEMMA OverKeeps ==
  ASSUME IInv, Types', NEW w \in Workers, RemovalOver(w), Tame,
         job[w].pc \notin {"plan", "boot", "row"}
  PROVE  IInv'
<1>1. job \in [Workers -> JobType]
  BY DEF IInv, Types
<1> QED
  BY <1>1, Over, TurnKeeps, EndKeeps DEF At

\* No job moves.
LEMMA RestKeeps ==
  ASSUME IInv, Types', job' = job, Tame
  PROVE  IInv'
<1>1. ASSUME NEW x \in Containers PROVE Known(x)' <=> Known(x)
  BY DEF Tame, Known, At
<1>2. ASSUME NEW v \in Workers PROVE JobShape(v)' /\ JobFacts(v)'
  <2>1. JobShape(v) /\ JobFacts(v) /\ Types /\ job[v] \in JobType
    BY DEF IInv, Types
  <2>2. JobShape(v)'
    BY <2>1 DEF JobShape
  <2>3. job[v].con = NoContainer \/ \E c \in Containers : c = job[v].con
    BY <2>1 DEF JobType
  <2>4. job[v].next = NoContainer \/ \E c \in Containers : c = job[v].next
    BY <2>1 DEF JobType
  <2>5. job[v].pc \in {"docker", "boot", "row", "release", "forget", "erase", "unflag"}
         => job[v].con # NoContainer
    BY <2>1 DEF JobShape, ComeTo
  <2>6. /\ At(v, "docker") => con'[job[v].con].docker = "new"
        /\ job[v].pc \in {"boot", "row"} => con'[job[v].con].docker # "new"
        /\ job[v].next # NoContainer => con'[job[v].next].docker = "new"
        /\ job[v].pc \in {"release", "forget", "erase", "unflag"}
              => con'[job[v].con].docker = "removed"
    BY <2>1, <2>3, <2>4, <2>5 DEF JobFacts, At, Tame
  <2>7. job[v].con # NoContainer
           /\ ~(job[v].kind = "create" /\ job[v].pc \in {"docker", "boot", "row", "read", "write"})
           => Known(job[v].con)'
    <3> SUFFICES ASSUME job[v].con # NoContainer, Known(job[v].con) PROVE Known(job[v].con)'
      BY <2>1 DEF JobFacts
    <3>1. PICK c \in Containers : c = job[v].con
      BY <2>3
    <3> QED
      BY <1>1, <3>1
  <2>8. Open(v) => \A c \in job[v].seen \cup job[v].rest : Known(c)' /\ HostOf[c] = job[v].host
    BY <1>1, <2>1 DEF JobFacts, JobType
  <2>9. JobFacts(v)'
    BY <2>6, <2>7, <2>8 DEF JobFacts, At, Open
  <2> QED
    BY <2>2, <2>9
<1>3. ASSUME NEW c \in Containers PROVE ConFacts(c)'
  <2>1. ConFacts(c) /\ con[c] \in ConType
    BY DEF IInv, Types
  <2>2. (Known(c) \/ Blank(c))'
    BY <1>1, <2>1 DEF ConFacts, Blank, Tame
  <2>3. con'[c].of # NoContainer => con'[c].of \in Containers /\ Known(con'[c].of)
    BY <2>1 DEF Tame, ConType, ConFacts
  <2>4. (con[c].of # NoContainer => Known(con[c].of))'
    <3> SUFFICES ASSUME con'[c].of # NoContainer PROVE Known(con[c].of)'
      OBVIOUS
    <3>1. PICK d \in Containers : d = con'[c].of
      BY <2>3
    <3>2. Known(d)'
      BY <1>1, <2>3, <3>1
    <3> QED
      BY <3>1, <3>2
  <2> QED
    BY <2>2, <2>4 DEF ConFacts
<1>4. NoOrphan'
  BY DEF IInv, NoOrphan, Tame, At
<1>5. Sole' /\ OneRequest'
  BY DEF IInv, Sole, Making, OneRequest
<1> QED
  BY <1>2, <1>3, <1>4, <1>5 DEF IInv

-----------------------------------------------------------------------------
(* The steps of a job on a container.                                      *)

LEMMA TameSame ==
  ASSUME con' = con, \A x \in Containers : ~Known(x) => (x \in backends' => x \in backends)
  PROVE  Tame
BY DEF Tame, Started

LEMMA TameAt ==
  ASSUME NEW c \in Containers, Known(c),
         \A x \in Containers \ {c} : con'[x] = con[x] /\ (x \in backends' => x \in backends),
         con'[c].of = con[c].of, con'[c].docker # "new",
         con[c].docker = "removed" => con'[c].docker = "removed",
         Started(c)' => Started(c) /\ (con[c].row => con'[c].row)
  PROVE  Tame
BY DEF Tame, Started, Known

\* The container of a job, at the steps at which it is known.
LEMMA OwnKnown ==
  ASSUME IInv, NEW w \in Workers,
         job[w].pc \notin {"idle", "docker", "boot", "row", "read", "write", "backends", "commit",
                           "migrations"}
  PROVE  /\ job[w].con \in Containers /\ Known(job[w].con)
         /\ con[job[w].con] \in ConType /\ con[job[w].con].docker # "new"
<1>1. JobShape(w) /\ JobFacts(w) /\ job[w] \in JobType /\ con \in [Containers -> ConType]
  BY DEF IInv, Types
<1>2. job[w].con # NoContainer
  BY <1>1 DEF JobShape, ComeTo, JobType, Places
<1> QED
  BY <1>1, <1>2 DEF JobFacts, JobType, Known

LEMMA RaisesKeeps ==
  ASSUME IInv, NEW w \in Workers, Raises(w)
  PROVE  IInv'
<1>1. Types /\ job \in [Workers -> JobType] /\ RemovalOver(w) /\ con' = con /\ backends' = backends
  BY DEF IInv, Types, Raises
<1>2. job' \in [Workers -> JobType]
  BY <1>1, Over
<1>3. Types'
  BY <1>1, <1>2 DEF Types, Raises, history
<1>4. Tame
  BY <1>1, TameSame
<1>5. job[w].pc \notin {"plan", "boot", "row"}
  BY DEF Raises
<1> QED
  BY <1>1, <1>3, <1>4, <1>5, OverKeeps

\* A step to p that changes at most the job's own container and its backends.
LEMMA OwnKeeps ==
  ASSUME IInv, NEW w \in Workers, NEW p \in Walk, NEW d \in ConType,
         job[w].pc \in Walk \ {"read", "write", "migrations"},
         con' = [con EXCEPT ![job[w].con] = d],
         d.of = con[job[w].con].of, d.docker # "new",
         con[job[w].con].docker = "removed" => d.docker = "removed",
         d.docker \in {"running", "died", "stopped"} =>
            /\ con[job[w].con].docker \in {"running", "died", "stopped"}
            /\ con[job[w].con].row => d.row,
         p \in {"release", "forget", "erase", "unflag"} => d.docker = "removed",
         backends' \subseteq backends \cup {job[w].con},
         job' \in [Workers -> JobType], Moved(w, p), ComeTo(p, job[w].kind),
         down' = down, published' = published, mixed' = mixed, overlap' = overlap, missed' = missed,
         report' \in [Containers -> {"none", "die", "start"}], flag' \subseteq Containers,
         queue' = queue, copies' = copies
  PROVE  IInv'
<1> DEFINE c == job[w].con
<1>1. /\ Types /\ con \in [Containers -> ConType]
      /\ job[w].pc \notin {"idle", "docker", "boot", "row", "read", "write",
                           "backends", "commit", "migrations"}
  BY DEF IInv, Types, Walk
<1>2. c \in Containers /\ Known(c)
  BY <1>1, OwnKnown
<1> HIDE DEF c
<1>3. /\ con' \in [Containers -> ConType] /\ con'[c] = d
      /\ \A x \in Containers \ {c} : con'[x] = con[x]
  BY <1>1, <1>2 DEF c
<1>4. backends' \subseteq Containers
  BY <1>1, <1>2 DEF Types, c
<1>5. Types'
  BY <1>1, <1>3, <1>4 DEF Types
<1>6. Tame
  BY <1>2, <1>3, TameAt DEF Started, c
<1> QED
  BY <1>1, <1>2, <1>3, <1>5, <1>6, MoveKeeps DEF c

\* ... and that ends the job.
LEMMA OwnEnds ==
  ASSUME IInv, NEW w \in Workers, NEW d \in ConType,
         job[w].pc \in Walk \ {"read", "write", "migrations"},
         con' = [con EXCEPT ![job[w].con] = d],
         d.of = con[job[w].con].of, d.docker # "new",
         con[job[w].con].docker = "removed" => d.docker = "removed",
         d.docker \in {"running", "died", "stopped"} =>
            /\ con[job[w].con].docker \in {"running", "died", "stopped"}
            /\ con[job[w].con].row => d.row,
         backends' = backends, RemovalOver(w) \/ End(w),
         down' = down, published' = published, mixed' = mixed, overlap' = overlap, missed' = missed,
         report' \in [Containers -> {"none", "die", "start"}], flag' \subseteq Containers,
         queue' \in [Containers -> Nat], copies' = copies
  PROVE  IInv'
<1> DEFINE c == job[w].con
<1>1. /\ Types /\ con \in [Containers -> ConType] /\ job \in [Workers -> JobType]
      /\ job[w].pc \notin {"idle", "docker", "boot", "row", "read", "write",
                           "backends", "commit", "migrations",
                          "plan"}
  BY DEF IInv, Types, Walk
<1>2. c \in Containers /\ Known(c)
  BY <1>1, OwnKnown
<1> HIDE DEF c
<1>3. /\ con' \in [Containers -> ConType] /\ con'[c] = d
      /\ \A x \in Containers \ {c} : con'[x] = con[x]
  BY <1>1, <1>2 DEF c
<1>4. job' \in [Workers -> JobType]
  BY <1>1, Over, Finished
<1>5. Types'
  BY <1>1, <1>3, <1>4 DEF Types
<1>6. Tame
  BY <1>2, <1>3, TameAt DEF Started, c
<1>7. CASE RemovalOver(w)
  BY <1>1, <1>5, <1>6, <1>7, OverKeeps
<1>8. CASE End(w)
  BY <1>1, <1>5, <1>6, <1>8, Finished, EndKeeps DEF At
<1> QED
  BY <1>7, <1>8


LEMMA DownKeeps ==
  ASSUME IInv, NEW w \in Workers, Down(w)
  PROVE  IInv'
<1> DEFINE c == job[w].con
<1>1. /\ Types /\ JobShape(w) /\ job \in [Workers -> JobType] /\ con \in [Containers -> ConType]
      /\ job[w].pc = "down" /\ JobFacts(w)
  BY DEF IInv, Types, Down, At
<1>2. c \in Containers /\ con[c] \in ConType /\ con[c].docker # "new"
  BY <1>1, OwnKnown
<1>3. "unlist" \in Walk /\ "unlist" \in Places /\ "down" \in Walk \ {"read", "write", "migrations"}
  BY DEF Walk, Places
<1>4. Begin(w, "unlist")
  BY DEF Down
<1>5. job' \in [Workers -> JobType] /\ Moved(w, "unlist")
  BY <1>1, <1>3, <1>4, Begun
<1>6. ComeTo("unlist", job[w].kind)
  BY <1>1 DEF JobShape, ComeTo
<1>7. PICK d : d = [con[c] EXCEPT !.alive = FALSE]
  OBVIOUS
<1>8. con' = [con EXCEPT ![c] = d]
  BY <1>1, <1>2, <1>7 DEF Down
<1>9. /\ d \in ConType /\ d.of = con[c].of /\ d.row = con[c].row
      /\ d.docker = con[c].docker
  BY <1>2, <1>7 DEF ConType
<1>10. /\ down' = down /\ published' = published /\ mixed' = mixed /\ overlap' = overlap /\ missed' = missed
       /\ report' \in [Containers -> {"none", "die", "start"}] /\ flag' \subseteq Containers
       /\ queue' = queue /\ copies' = copies /\ backends' = backends
  BY <1>1 DEF Down, Types, history
<1> QED
  BY <1>1, <1>2, <1>3, <1>5, <1>6, <1>8, <1>9, <1>10, OwnKeeps

LEMMA UpKeeps ==
  ASSUME IInv, NEW w \in Workers, Up(w)
  PROVE  IInv'
<1> DEFINE c == job[w].con
<1>1. /\ Types /\ JobShape(w) /\ job \in [Workers -> JobType] /\ con \in [Containers -> ConType]
      /\ job[w].pc = "up" /\ JobFacts(w)
  BY DEF IInv, Types, Up, At
<1>2. c \in Containers /\ con[c] \in ConType /\ con[c].docker # "new"
  BY <1>1, OwnKnown
<1>3. "list" \in Walk /\ "list" \in Places /\ "up" \in Walk \ {"read", "write", "migrations"}
  BY DEF Walk, Places
<1>4. Begin(w, "list")
  BY DEF Up
<1>5. job' \in [Workers -> JobType] /\ Moved(w, "list")
  BY <1>1, <1>3, <1>4, Begun
<1>6. ComeTo("list", job[w].kind)
  BY <1>1 DEF JobShape, ComeTo
<1>7. PICK d : d = [con[c] EXCEPT !.alive = TRUE]
  OBVIOUS
<1>8. con' = [con EXCEPT ![c] = d]
  BY <1>1, <1>2, <1>7 DEF Up
<1>9. /\ d \in ConType /\ d.of = con[c].of /\ d.row = con[c].row
      /\ d.docker = con[c].docker
  BY <1>2, <1>7 DEF ConType
<1>10. /\ down' = down /\ published' = published /\ mixed' = mixed /\ overlap' = overlap /\ missed' = missed
       /\ report' \in [Containers -> {"none", "die", "start"}] /\ flag' \subseteq Containers
       /\ queue' = queue /\ copies' = copies /\ backends' = backends
  BY <1>1 DEF Up, Types, history
<1> QED
  BY <1>1, <1>2, <1>3, <1>5, <1>6, <1>8, <1>9, <1>10, OwnKeeps

LEMMA MarkKeeps ==
  ASSUME IInv, NEW w \in Workers, Mark(w)
  PROVE  IInv'
<1> DEFINE c == job[w].con
<1>1. /\ Types /\ JobShape(w) /\ job \in [Workers -> JobType] /\ con \in [Containers -> ConType]
      /\ job[w].pc = "mark" /\ JobFacts(w)
  BY DEF IInv, Types, Mark, At
<1>2. c \in Containers /\ con[c] \in ConType /\ con[c].docker # "new"
  BY <1>1, OwnKnown
<1>3. "flag" \in Walk /\ "flag" \in Places /\ "mark" \in Walk \ {"read", "write", "migrations"}
  BY DEF Walk, Places
<1>4. Goto(w, "flag")
  BY DEF Mark
<1>5. job' \in [Workers -> JobType] /\ Moved(w, "flag")
  BY <1>1, <1>3, <1>4, GoneTo
<1>6. ComeTo("flag", job[w].kind)
  BY <1>1 DEF JobShape, ComeTo
<1>7. PICK d : d = [con[c] EXCEPT !.removal = TRUE]
  OBVIOUS
<1>8. con' = [con EXCEPT ![c] = d]
  BY <1>1, <1>2, <1>7 DEF Mark
<1>9. /\ d \in ConType /\ d.of = con[c].of /\ d.row = con[c].row
      /\ d.docker = con[c].docker
  BY <1>2, <1>7 DEF ConType
<1>10. /\ down' = down /\ published' = published /\ mixed' = mixed /\ overlap' = overlap /\ missed' = missed
       /\ report' \in [Containers -> {"none", "die", "start"}] /\ flag' \subseteq Containers
       /\ queue' = queue /\ copies' = copies /\ backends' = backends
  BY <1>1 DEF Mark, Types, history
<1> QED
  BY <1>1, <1>2, <1>3, <1>5, <1>6, <1>8, <1>9, <1>10, OwnKeeps

LEMMA ReleaseKeeps ==
  ASSUME IInv, NEW w \in Workers, Release(w)
  PROVE  IInv'
<1> DEFINE c == job[w].con
<1>1. /\ Types /\ JobShape(w) /\ job \in [Workers -> JobType] /\ con \in [Containers -> ConType]
      /\ job[w].pc = "release" /\ JobFacts(w)
  BY DEF IInv, Types, Release, At
<1>2. c \in Containers /\ con[c] \in ConType /\ con[c].docker # "new"
  BY <1>1, OwnKnown
<1>3. "forget" \in Walk /\ "forget" \in Places /\ "release" \in Walk \ {"read", "write", "migrations"}
  BY DEF Walk, Places
<1>4. Goto(w, "forget")
  BY DEF Release
<1>5. job' \in [Workers -> JobType] /\ Moved(w, "forget")
  BY <1>1, <1>3, <1>4, GoneTo
<1>6. ComeTo("forget", job[w].kind)
  BY <1>1 DEF JobShape, ComeTo
<1>7. PICK d : d = [con[c] EXCEPT !.ip = FALSE]
  OBVIOUS
<1>8. con' = [con EXCEPT ![c] = d]
  BY <1>1, <1>2, <1>7 DEF Release
<1>9. /\ d \in ConType /\ d.of = con[c].of /\ d.row = con[c].row
      /\ d.docker = con[c].docker
  BY <1>2, <1>7 DEF ConType
<1>10. /\ down' = down /\ published' = published /\ mixed' = mixed /\ overlap' = overlap /\ missed' = missed
       /\ report' \in [Containers -> {"none", "die", "start"}] /\ flag' \subseteq Containers
       /\ queue' = queue /\ copies' = copies /\ backends' = backends
  BY <1>1 DEF Release, Types, history
<1> QED
  BY <1>1, <1>2, <1>3, <1>5, <1>6, <1>8, <1>9, <1>10, OwnKeeps DEF JobFacts

LEMMA ForgetKeeps ==
  ASSUME IInv, NEW w \in Workers, Forget(w)
  PROVE  IInv'
<1> DEFINE c == job[w].con
<1>1. /\ Types /\ JobShape(w) /\ job \in [Workers -> JobType] /\ con \in [Containers -> ConType]
      /\ job[w].pc = "forget" /\ JobFacts(w)
  BY DEF IInv, Types, Forget, At
<1>2. c \in Containers /\ con[c] \in ConType /\ con[c].docker # "new"
  BY <1>1, OwnKnown
<1>3. "erase" \in Walk /\ "erase" \in Places /\ "forget" \in Walk \ {"read", "write", "migrations"}
  BY DEF Walk, Places
<1>4. Goto(w, "erase")
  BY DEF Forget
<1>5. job' \in [Workers -> JobType] /\ Moved(w, "erase")
  BY <1>1, <1>3, <1>4, GoneTo
<1>6. ComeTo("erase", job[w].kind)
  BY <1>1 DEF JobShape, ComeTo
<1>7. PICK d : d = [con[c] EXCEPT !.removal = FALSE]
  OBVIOUS
<1>8. con' = [con EXCEPT ![c] = d]
  BY <1>1, <1>2, <1>7 DEF Forget
<1>9. /\ d \in ConType /\ d.of = con[c].of /\ d.row = con[c].row
      /\ d.docker = con[c].docker
  BY <1>2, <1>7 DEF ConType
<1>10. /\ down' = down /\ published' = published /\ mixed' = mixed /\ overlap' = overlap /\ missed' = missed
       /\ report' \in [Containers -> {"none", "die", "start"}] /\ flag' \subseteq Containers
       /\ queue' = queue /\ copies' = copies /\ backends' = backends
  BY <1>1 DEF Forget, Types, history
<1> QED
  BY <1>1, <1>2, <1>3, <1>5, <1>6, <1>8, <1>9, <1>10, OwnKeeps DEF JobFacts

LEMMA ResetKeeps ==
  ASSUME IInv, NEW w \in Workers, Reset(w)
  PROVE  IInv'
<1> DEFINE c == job[w].con
<1>1. /\ Types /\ JobShape(w) /\ job \in [Workers -> JobType] /\ con \in [Containers -> ConType]
      /\ job[w].pc = "reset" /\ JobFacts(w)
  BY DEF IInv, Types, Reset, At
<1>2. c \in Containers /\ con[c] \in ConType /\ con[c].docker # "new"
  BY <1>1, OwnKnown
<1>3. "enqueue" \in Walk /\ "enqueue" \in Places /\ "reset" \in Walk \ {"read", "write", "migrations"}
  BY DEF Walk, Places
<1>4. Goto(w, "enqueue")
  BY DEF Reset
<1>5. job' \in [Workers -> JobType] /\ Moved(w, "enqueue")
  BY <1>1, <1>3, <1>4, GoneTo
<1>6. ComeTo("enqueue", job[w].kind)
  BY <1>1 DEF JobShape, ComeTo
<1>0. PICK oom \in BOOLEAN : con' = [con EXCEPT ![c].removal = @ /\ ~oom]
  BY DEF Reset
<1>7. PICK d : d = [con[c] EXCEPT !.removal = @ /\ ~oom]
  OBVIOUS
<1>8. con' = [con EXCEPT ![c] = d]
  BY <1>0, <1>1, <1>2, <1>7
<1>9. /\ d \in ConType /\ d.of = con[c].of /\ d.row = con[c].row
      /\ d.docker = con[c].docker
  BY <1>2, <1>7 DEF ConType
<1>10. /\ down' = down /\ published' = published /\ mixed' = mixed /\ overlap' = overlap /\ missed' = missed
       /\ report' \in [Containers -> {"none", "die", "start"}] /\ flag' \subseteq Containers
       /\ queue' = queue /\ copies' = copies /\ backends' = backends
  BY <1>1 DEF Reset, Types, history
<1> QED
  BY <1>1, <1>2, <1>3, <1>5, <1>6, <1>8, <1>9, <1>10, OwnKeeps

LEMMA DockerRemovesKeeps ==
  ASSUME IInv, NEW w \in Workers, DockerRemoves(w)
  PROVE  IInv'
<1> DEFINE c == job[w].con
<1>1. /\ Types /\ JobShape(w) /\ job \in [Workers -> JobType] /\ con \in [Containers -> ConType]
      /\ job[w].pc = "stop" /\ JobFacts(w)
  BY DEF IInv, Types, DockerRemoves, At
<1>2. c \in Containers /\ con[c] \in ConType /\ con[c].docker # "new"
  BY <1>1, OwnKnown
<1>3. "release" \in Walk /\ "release" \in Places /\ "stop" \in Walk \ {"read", "write", "migrations"}
  BY DEF Walk, Places
<1>4. Goto(w, "release")
  BY DEF DockerRemoves
<1>5. job' \in [Workers -> JobType] /\ Moved(w, "release")
  BY <1>1, <1>3, <1>4, GoneTo
<1>6. ComeTo("release", job[w].kind)
  BY <1>1 DEF JobShape, ComeTo
<1>7. PICK d : d = [con[c] EXCEPT !.docker = "removed"]
  OBVIOUS
<1>8. con' = [con EXCEPT ![c] = d]
  BY <1>1, <1>2, <1>7 DEF DockerRemoves
<1>9. /\ d \in ConType /\ d.of = con[c].of /\ d.row = con[c].row
      /\ d.docker = "removed"
  BY <1>2, <1>7 DEF ConType
<1>10. /\ down' = down /\ published' = published /\ mixed' = mixed /\ overlap' = overlap /\ missed' = missed
       /\ report' \in [Containers -> {"none", "die", "start"}] /\ flag' \subseteq Containers
       /\ queue' = queue /\ copies' = copies /\ backends' = backends
  BY <1>1 DEF DockerRemoves, Types, history
<1> QED
  BY <1>1, <1>2, <1>3, <1>5, <1>6, <1>8, <1>9, <1>10, OwnKeeps

LEMMA NetworkKeeps ==
  ASSUME IInv, NEW w \in Workers, Network(w)
  PROVE  IInv'
<1> DEFINE c == job[w].con
<1>1. /\ Types /\ JobShape(w) /\ job \in [Workers -> JobType] /\ con \in [Containers -> ConType]
      /\ job[w].pc = "network" /\ JobFacts(w)
  BY DEF IInv, Types, Network, At
<1>2. c \in Containers /\ con[c] \in ConType /\ con[c].docker # "new"
  BY <1>1, OwnKnown
<1>3. "list" \in Walk /\ "list" \in Places /\ "network" \in Walk \ {"read", "write", "migrations"}
  BY DEF Walk, Places
<1>4. Begin(w, "list")
  BY DEF Network
<1>5. job' \in [Workers -> JobType] /\ Moved(w, "list")
  BY <1>1, <1>3, <1>4, Begun
<1>6. ComeTo("list", job[w].kind)
  BY <1>1 DEF JobShape, ComeTo
<1>7. PICK d : d = [con[c] EXCEPT !.ip = con[c].asked]
  OBVIOUS
<1>8. con' = [con EXCEPT ![c] = d]
  BY <1>1, <1>2, <1>7 DEF Network
<1>9. /\ d \in ConType /\ d.of = con[c].of /\ d.row = con[c].row
      /\ d.docker = con[c].docker
  BY <1>2, <1>7 DEF ConType
<1>10. /\ down' = down /\ published' = published /\ mixed' = mixed /\ overlap' = overlap /\ missed' = missed
       /\ report' \in [Containers -> {"none", "die", "start"}] /\ flag' \subseteq Containers
       /\ queue' = queue /\ copies' = copies /\ backends' = backends
  BY <1>1 DEF Network, Types, history
<1> QED
  BY <1>1, <1>2, <1>3, <1>5, <1>6, <1>8, <1>9, <1>10, OwnKeeps

\* Steps that leave every container alone.
LEMMA StayKeeps ==
  ASSUME IInv, NEW w \in Workers, NEW p \in Walk, job[w].pc \in Walk \ {"read", "write", "migrations"},
         con' = con, p \notin {"release", "forget", "erase", "unflag"},
         backends' \subseteq backends \cup {job[w].con},
         job' \in [Workers -> JobType], Moved(w, p), ComeTo(p, job[w].kind),
         down' = down, published' = published, mixed' = mixed, overlap' = overlap, missed' = missed,
         report' \in [Containers -> {"none", "die", "start"}], flag' \subseteq Containers,
         queue' = queue, copies' = copies
  PROVE  IInv'
<1> DEFINE c == job[w].con
<1>1. job[w].pc \notin {"idle", "docker", "boot", "row", "read", "write", "backends", "commit", "migrations"}
  BY DEF Walk
<1>2. /\ c \in Containers /\ con[c] \in ConType /\ con[c].docker # "new"
      /\ con \in [Containers -> ConType]
  BY <1>1, OwnKnown DEF IInv, Types
<1>3. con' = [con EXCEPT ![c] = con[c]]
  BY <1>2
<1> QED
  BY <1>2, <1>3, OwnKeeps

LEMMA StayEnds ==
  ASSUME IInv, NEW w \in Workers, job[w].pc \in Walk \ {"read", "write", "migrations"},
         con' = con, backends' = backends, RemovalOver(w) \/ End(w),
         down' = down, published' = published, mixed' = mixed, overlap' = overlap, missed' = missed,
         report' \in [Containers -> {"none", "die", "start"}], flag' \subseteq Containers,
         queue' \in [Containers -> Nat], copies' = copies
  PROVE  IInv'
<1> DEFINE c == job[w].con
<1>1. job[w].pc \notin {"idle", "docker", "boot", "row", "read", "write", "backends", "commit", "migrations"}
  BY DEF Walk
<1>2. /\ c \in Containers /\ con[c] \in ConType /\ con[c].docker # "new"
      /\ con \in [Containers -> ConType]
  BY <1>1, OwnKnown DEF IInv, Types
<1>3. con' = [con EXCEPT ![c] = con[c]]
  BY <1>2
<1> QED
  BY <1>2, <1>3, OwnEnds


LEMMA UnlistKeeps ==
  ASSUME IInv, NEW w \in Workers, Unlist(w)
  PROVE  IInv'
<1> DEFINE c == job[w].con
<1>1. /\ Types /\ JobShape(w) /\ job \in [Workers -> JobType] /\ con \in [Containers -> ConType]
      /\ job[w].pc = "unlist" /\ JobFacts(w)
  BY DEF IInv, Types, Unlist, At
<1>2. c \in Containers /\ con[c] \in ConType /\ con[c].docker # "new"
  BY <1>1, OwnKnown
<1>3. /\ {"read"} \subseteq Walk \cap Places
      /\ "unlist" \in Walk \ {"read", "write", "migrations"}
  BY DEF Walk, Places
<1>4. /\ down' = down /\ published' = published /\ mixed' = mixed /\ overlap' = overlap /\ missed' = missed
      /\ report' \in [Containers -> {"none", "die", "start"}] /\ flag' \subseteq Containers
      /\ queue' = queue /\ copies' = copies
  BY <1>1, <1>2 DEF Unlist, Types, history
<1>5. Goto(w, "read") /\ con' = con /\ backends' \subseteq backends \cup {c}
  BY DEF Unlist
<1>6. job' \in [Workers -> JobType] /\ Moved(w, "read")
  BY <1>1, <1>3, <1>5, GoneTo
<1>7. ComeTo("read", job[w].kind)
  BY <1>1 DEF JobShape, ComeTo
<1> QED
  BY <1>1, <1>3, <1>4, <1>5, <1>6, <1>7, StayKeeps

LEMMA SetFlagKeeps ==
  ASSUME IInv, NEW w \in Workers, SetFlag(w)
  PROVE  IInv'
<1> DEFINE c == job[w].con
<1>1. /\ Types /\ JobShape(w) /\ job \in [Workers -> JobType] /\ con \in [Containers -> ConType]
      /\ job[w].pc = "flag" /\ JobFacts(w)
  BY DEF IInv, Types, SetFlag, At
<1>2. c \in Containers /\ con[c] \in ConType /\ con[c].docker # "new"
  BY <1>1, OwnKnown
<1>3. /\ {"unlist"} \subseteq Walk \cap Places
      /\ "flag" \in Walk \ {"read", "write", "migrations"}
  BY DEF Walk, Places
<1>4. /\ down' = down /\ published' = published /\ mixed' = mixed /\ overlap' = overlap /\ missed' = missed
      /\ report' \in [Containers -> {"none", "die", "start"}] /\ flag' \subseteq Containers
      /\ queue' = queue /\ copies' = copies
  BY <1>1, <1>2 DEF SetFlag, Types, history
<1>5. Goto(w, "unlist") /\ con' = con /\ backends' = backends
  BY DEF SetFlag
<1>6. job' \in [Workers -> JobType] /\ Moved(w, "unlist")
  BY <1>1, <1>3, <1>5, GoneTo
<1>7. ComeTo("unlist", job[w].kind)
  BY <1>1 DEF JobShape, ComeTo
<1> QED
  BY <1>1, <1>3, <1>4, <1>5, <1>6, <1>7, StayKeeps

LEMMA ClearFlagKeeps ==
  ASSUME IInv, NEW w \in Workers, ClearFlag(w)
  PROVE  IInv'
<1> DEFINE c == job[w].con
<1>1. /\ Types /\ JobShape(w) /\ job \in [Workers -> JobType] /\ con \in [Containers -> ConType]
      /\ job[w].pc = "unflag" /\ JobFacts(w)
  BY DEF IInv, Types, ClearFlag, At
<1>2. c \in Containers /\ con[c] \in ConType /\ con[c].docker # "new"
  BY <1>1, OwnKnown
<1>3. "unflag" \in Walk \ {"read", "write", "migrations"}
  BY DEF Walk, Places
<1>4. /\ down' = down /\ published' = published /\ mixed' = mixed /\ overlap' = overlap /\ missed' = missed
      /\ report' \in [Containers -> {"none", "die", "start"}] /\ flag' \subseteq Containers
      /\ queue' = queue /\ copies' = copies
  BY <1>1, <1>2 DEF ClearFlag, Types, history
<1>5. RemovalOver(w) /\ con' = con /\ backends' = backends
  BY DEF ClearFlag
<1> QED
  BY <1>1, <1>3, <1>4, <1>5, StayEnds DEF Types

LEMMA EnqueueKeeps ==
  ASSUME IInv, NEW w \in Workers, Enqueue(w)
  PROVE  IInv'
<1>1. /\ Types /\ job[w].pc = "enqueue" /\ "enqueue" \in Walk \ {"read", "write", "migrations"}
      /\ End(w) /\ con' = con /\ backends' = backends
      /\ queue' = [queue EXCEPT ![job[w].con] = @ + 1] /\ queue \in [Containers -> Nat]
  BY DEF IInv, Types, Enqueue, At, Walk, Places
<1>2. job[w].con \in Containers
  BY <1>1, OwnKnown
<1>3. queue' \in [Containers -> Nat]
  BY <1>1, <1>2
<1>4. /\ down' = down /\ published' = published /\ mixed' = mixed /\ overlap' = overlap /\ missed' = missed
      /\ report' \in [Containers -> {"none", "die", "start"}] /\ flag' \subseteq Containers
      /\ copies' = copies
  BY <1>1 DEF Enqueue, Types, history
<1> QED
  BY <1>1, <1>3, <1>4, StayEnds

LEMMA TestKeeps ==
  ASSUME IInv, NEW w \in Workers, Test(w)
  PROVE  IInv'
<1> DEFINE c == job[w].con
<1>1. /\ Types /\ JobShape(w) /\ job \in [Workers -> JobType] /\ con \in [Containers -> ConType]
      /\ job[w].pc = "test" /\ JobFacts(w)
  BY DEF IInv, Types, Test, At
<1>2. c \in Containers /\ con[c] \in ConType /\ con[c].docker # "new"
  BY <1>1, OwnKnown
<1>3. /\ {"unbind", "up"} \subseteq Walk \cap Places
      /\ "test" \in Walk \ {"read", "write", "migrations"}
  BY DEF Walk, Places
<1>4. /\ down' = down /\ published' = published /\ mixed' = mixed /\ overlap' = overlap /\ missed' = missed
      /\ report' \in [Containers -> {"none", "die", "start"}] /\ flag' \subseteq Containers
      /\ queue' = queue /\ copies' = copies
  BY <1>1, <1>2 DEF Test, Types, history
<1>5. con' = con /\ backends' = backends
  BY DEF Test
<1>6. CASE con[c].alive
  <2>1. End(w)
    BY <1>6 DEF Test
  <2> QED
    BY <1>1, <1>3, <1>4, <1>5, <2>1, StayEnds DEF Types
<1>7. CASE ~con[c].alive
  <2>1. PICK p \in {"unbind", "up"} : Goto(w, p)
    BY <1>7 DEF Test
  <2>2. job' \in [Workers -> JobType] /\ Moved(w, p)
    BY <1>1, <1>3, <2>1, GoneTo
  <2>3. ComeTo(p, job[w].kind)
    BY <1>1, <2>1 DEF JobShape, ComeTo
  <2> QED
    BY <1>1, <1>3, <1>4, <1>5, <2>1, <2>2, <2>3, StayKeeps
<1> QED
  BY <1>6, <1>7

LEMMA ListKeeps ==
  ASSUME IInv, NEW w \in Workers, List(w)
  PROVE  IInv'
<1> DEFINE c == job[w].con
<1>1. /\ Types /\ JobShape(w) /\ job \in [Workers -> JobType] /\ con \in [Containers -> ConType]
      /\ job[w].pc = "list" /\ JobFacts(w)
  BY DEF IInv, Types, List, At
<1>2. c \in Containers /\ con[c] \in ConType /\ con[c].docker # "new"
  BY <1>1, OwnKnown
<1>3. /\ {"health", "read"} \subseteq Walk \cap Places
      /\ "list" \in Walk \ {"read", "write", "migrations"}
  BY DEF Walk, Places
<1>4. /\ down' = down /\ published' = published /\ mixed' = mixed /\ overlap' = overlap /\ missed' = missed
      /\ report' \in [Containers -> {"none", "die", "start"}] /\ flag' \subseteq Containers
      /\ queue' = queue /\ copies' = copies
  BY <1>1, <1>2 DEF List, Types, history
<1>5. con' = con /\ backends' \subseteq backends \cup {c}
  BY DEF List
<1>6. PICK p \in {"health", "read"} : Goto(w, p) /\ (p = "health" => job[w].kind = "create")
  BY DEF List
<1>7. job' \in [Workers -> JobType] /\ Moved(w, p)
  BY <1>1, <1>3, <1>6, GoneTo
<1>8. ComeTo(p, job[w].kind)
  BY <1>1, <1>6 DEF JobShape, ComeTo
<1> QED
  BY <1>1, <1>3, <1>4, <1>5, <1>6, <1>7, <1>8, StayKeeps

LEMMA HealthKeeps ==
  ASSUME IInv, NEW w \in Workers, Health(w)
  PROVE  IInv'
<1> DEFINE c == job[w].con
<1>1. /\ Types /\ JobShape(w) /\ job \in [Workers -> JobType] /\ con \in [Containers -> ConType]
      /\ job[w].pc = "health" /\ JobFacts(w)
  BY DEF IInv, Types, Health, At
<1>2. c \in Containers /\ con[c] \in ConType /\ con[c].docker # "new"
  BY <1>1, OwnKnown
<1>3. /\ {"read"} \subseteq Walk \cap Places
      /\ "health" \in Walk \ {"read", "write", "migrations"}
  BY DEF Walk, Places
<1>4. /\ down' = down /\ published' = published /\ mixed' = mixed /\ overlap' = overlap /\ missed' = missed
      /\ report' \in [Containers -> {"none", "die", "start"}] /\ flag' \subseteq Containers
      /\ queue' = queue /\ copies' = copies
  BY <1>1, <1>2 DEF Health, Types, history
<1>5. con' = con /\ backends' = backends /\ (End(w) \/ Goto(w, "read"))
  BY DEF Health
<1>6. CASE End(w)
  BY <1>1, <1>3, <1>4, <1>5, <1>6, StayEnds DEF Types
<1>7. CASE Goto(w, "read")
  <2>1. job' \in [Workers -> JobType] /\ Moved(w, "read")
    BY <1>1, <1>3, <1>7, GoneTo
  <2>2. ComeTo("read", job[w].kind)
    BY <1>1 DEF JobShape, ComeTo
  <2> QED
    BY <1>1, <1>3, <1>4, <1>5, <2>1, <2>2, StayKeeps
<1> QED
  BY <1>5, <1>6, <1>7

LEMMA NetworkNotKeeps ==
  ASSUME IInv, NEW w \in Workers, NetworkNot(w)
  PROVE  IInv'
<1> DEFINE c == job[w].con
<1>1. /\ Types /\ JobShape(w) /\ job \in [Workers -> JobType] /\ con \in [Containers -> ConType]
      /\ job[w].pc = "network" /\ JobFacts(w)
  BY DEF IInv, Types, NetworkNot, At
<1>2. c \in Containers /\ con[c] \in ConType /\ con[c].docker # "new"
  BY <1>1, OwnKnown
<1>3. /\ {"stop"} \subseteq Walk \cap Places
      /\ "network" \in Walk \ {"read", "write", "migrations"}
  BY DEF Walk, Places
<1>4. /\ down' = down /\ published' = published /\ mixed' = mixed /\ overlap' = overlap /\ missed' = missed
      /\ report' \in [Containers -> {"none", "die", "start"}] /\ flag' \subseteq Containers
      /\ queue' = queue /\ copies' = copies
  BY <1>1, <1>2 DEF NetworkNot, Types, history
<1>5. con' = con /\ backends' = backends /\ (End(w) \/ Goto(w, "stop"))
  BY DEF NetworkNot
<1>6. CASE End(w)
  BY <1>1, <1>3, <1>4, <1>5, <1>6, StayEnds DEF Types
<1>7. CASE Goto(w, "stop")
  <2>1. job' \in [Workers -> JobType] /\ Moved(w, "stop")
    BY <1>1, <1>3, <1>7, GoneTo
  <2>2. ComeTo("stop", job[w].kind)
    BY <1>1 DEF JobShape, ComeTo
  <2> QED
    BY <1>1, <1>3, <1>4, <1>5, <2>1, <2>2, StayKeeps
<1> QED
  BY <1>5, <1>6, <1>7

LEMMA EraseKeeps ==
  ASSUME IInv, NEW w \in Workers, Erase(w)
  PROVE  IInv'
<1> DEFINE c == job[w].con
<1>1. /\ Types /\ JobShape(w) /\ job \in [Workers -> JobType] /\ con \in [Containers -> ConType]
      /\ job[w].pc = "erase" /\ JobFacts(w)
  BY DEF IInv, Types, Erase, At
<1>2. c \in Containers /\ con[c] \in ConType /\ con[c].docker # "new"
  BY <1>1, OwnKnown
<1>3. /\ {"read", "unflag"} \subseteq Walk \cap Places
      /\ "erase" \in Walk \ {"read", "write", "migrations"}
  BY DEF Walk, Places
<1>4. /\ down' = down /\ published' = published /\ mixed' = mixed /\ overlap' = overlap /\ missed' = missed
      /\ report' \in [Containers -> {"none", "die", "start"}] /\ flag' \subseteq Containers
      /\ queue' = queue /\ copies' = copies
  BY <1>1, <1>2 DEF Erase, Types, history
<1>5. PICK d : d = [con[c] EXCEPT !.row = FALSE]
  OBVIOUS
<1>6. con' = [con EXCEPT ![c] = d] /\ backends' = backends
  BY <1>1, <1>2, <1>5 DEF Erase
<1>7. d \in ConType /\ d.of = con[c].of /\ d.docker = con[c].docker /\ d.docker = "removed"
  BY <1>1, <1>2, <1>5 DEF ConType, JobFacts
<1>8. /\ job[w].kind = "create" => Begin(w, "read")
      /\ job[w].kind # "create" => Goto(w, "unflag")
  BY DEF Erase
<1>9. PICK p \in {"read", "unflag"} : /\ job' \in [Workers -> JobType] /\ Moved(w, p)
                                     /\ (p = "unflag" => job[w].kind # "create")
  BY <1>1, <1>3, <1>8, GoneTo, Begun
<1>10. ComeTo(p, job[w].kind)
  BY <1>1, <1>9 DEF JobShape, ComeTo
<1> QED
  BY <1>1, <1>2, <1>3, <1>4, <1>6, <1>7, <1>9, <1>10, OwnKeeps

LEMMA UnbindKeeps ==
  ASSUME IInv, NEW w \in Workers, Unbind(w)
  PROVE  IInv'
<1> DEFINE c == job[w].con
<1>1. /\ Types /\ JobShape(w) /\ job \in [Workers -> JobType] /\ con \in [Containers -> ConType]
      /\ job[w].pc = "unbind" /\ JobFacts(w)
  BY DEF IInv, Types, Unbind, At
<1>2. c \in Containers /\ con[c] \in ConType /\ con[c].docker # "new"
  BY <1>1, OwnKnown
<1>3. /\ {"rebind", "up"} \subseteq Walk \cap Places
      /\ "unbind" \in Walk \ {"read", "write", "migrations"}
  BY DEF Walk, Places
<1>4. /\ down' = down /\ published' = published /\ mixed' = mixed /\ overlap' = overlap /\ missed' = missed
      /\ report' \in [Containers -> {"none", "die", "start"}] /\ flag' \subseteq Containers
      /\ queue' = queue /\ copies' = copies
  BY <1>1, <1>2 DEF Unbind, Types, history
<1>5. PICK x \in BOOLEAN : con' = [con EXCEPT ![c].ip = x] /\ backends' = backends
  BY DEF Unbind, Outcomes
<1>6. PICK d : d = [con[c] EXCEPT !.ip = x]
  OBVIOUS
<1>7. con' = [con EXCEPT ![c] = d] /\ backends' = backends
  BY <1>1, <1>2, <1>5, <1>6
<1>8. d \in ConType /\ d.of = con[c].of /\ d.docker = con[c].docker /\ d.row = con[c].row
  BY <1>2, <1>6 DEF ConType
<1>9. CASE End(w)
  BY <1>1, <1>2, <1>3, <1>4, <1>7, <1>8, <1>9, OwnEnds DEF Types
<1>10. CASE \E p \in {"rebind", "up"} : Goto(w, p)
  <2>1. PICK p \in {"rebind", "up"} : Goto(w, p)
    BY <1>10
  <2>2. job' \in [Workers -> JobType] /\ Moved(w, p)
    BY <1>1, <1>3, <2>1, GoneTo
  <2>3. ComeTo(p, job[w].kind)
    BY <1>1, <2>1 DEF JobShape, ComeTo
  <2> QED
    BY <1>1, <1>2, <1>3, <1>4, <1>7, <1>8, <2>1, <2>2, <2>3, OwnKeeps
<1> QED
  BY <1>9, <1>10 DEF Unbind, AfterRebind

LEMMA RebindKeeps ==
  ASSUME IInv, NEW w \in Workers, Rebind(w)
  PROVE  IInv'
<1> DEFINE c == job[w].con
<1>1. /\ Types /\ JobShape(w) /\ job \in [Workers -> JobType] /\ con \in [Containers -> ConType]
      /\ job[w].pc = "rebind" /\ JobFacts(w)
  BY DEF IInv, Types, Rebind, At
<1>2. c \in Containers /\ con[c] \in ConType /\ con[c].docker # "new"
  BY <1>1, OwnKnown
<1>3. /\ {"up"} \subseteq Walk \cap Places
      /\ "rebind" \in Walk \ {"read", "write", "migrations"}
  BY DEF Walk, Places
<1>4. /\ down' = down /\ published' = published /\ mixed' = mixed /\ overlap' = overlap /\ missed' = missed
      /\ report' \in [Containers -> {"none", "die", "start"}] /\ flag' \subseteq Containers
      /\ queue' = queue /\ copies' = copies
  BY <1>1, <1>2 DEF Rebind, Types, history
<1>5. PICK x \in BOOLEAN : con' = [con EXCEPT ![c].ip = x] /\ backends' = backends
  BY DEF Rebind, Outcomes
<1>6. PICK d : d = [con[c] EXCEPT !.ip = x]
  OBVIOUS
<1>7. con' = [con EXCEPT ![c] = d] /\ backends' = backends
  BY <1>1, <1>2, <1>5, <1>6
<1>8. d \in ConType /\ d.of = con[c].of /\ d.docker = con[c].docker /\ d.row = con[c].row
  BY <1>2, <1>6 DEF ConType
<1>9. CASE End(w)
  BY <1>1, <1>2, <1>3, <1>4, <1>7, <1>8, <1>9, OwnEnds DEF Types
<1>10. CASE \E p \in {"up"} : Goto(w, p)
  <2>1. PICK p \in {"up"} : Goto(w, p)
    BY <1>10
  <2>2. job' \in [Workers -> JobType] /\ Moved(w, p)
    BY <1>1, <1>3, <2>1, GoneTo
  <2>3. ComeTo(p, job[w].kind)
    BY <1>1, <2>1 DEF JobShape, ComeTo
  <2> QED
    BY <1>1, <1>2, <1>3, <1>4, <1>7, <1>8, <2>1, <2>2, <2>3, OwnKeeps
<1> QED
  BY <1>9, <1>10 DEF Rebind, AfterRebind

LEMMA HaltKeeps ==
  ASSUME IInv, NEW w \in Workers, Halt(w)
  PROVE  IInv'
<1> DEFINE c == job[w].con
<1>1. /\ Types /\ JobShape(w) /\ job \in [Workers -> JobType] /\ con \in [Containers -> ConType]
      /\ job[w].pc = "halt" /\ JobFacts(w)
  BY DEF IInv, Types, Halt, At
<1>2. c \in Containers /\ con[c] \in ConType /\ con[c].docker # "new"
  BY <1>1, OwnKnown
<1>3. "halt" \in Walk \ {"read", "write", "migrations"}
  BY DEF Walk, Places
<1>4. /\ down' = down /\ published' = published /\ mixed' = mixed /\ overlap' = overlap /\ missed' = missed
      /\ report' \in [Containers -> {"none", "die", "start"}] /\ flag' \subseteq Containers
      /\ queue' = queue /\ copies' = copies
  BY <1>1, <1>2 DEF Halt, Types, history, Seen
<1>5. End(w) /\ backends' = backends
  BY DEF Halt
<1>6. CASE con[c].docker \in {"running", "died"}
  <2>1. PICK d : d = [con[c] EXCEPT !.docker = "stopped"]
    OBVIOUS
  <2>2. con' = [con EXCEPT ![c] = d]
    BY <1>1, <1>2, <1>6, <2>1 DEF Halt
  <2>3. d \in ConType /\ d.of = con[c].of /\ d.docker = "stopped" /\ d.row = con[c].row
    BY <1>2, <2>1 DEF ConType
  <2> QED
    BY <1>1, <1>2, <1>3, <1>4, <1>5, <1>6, <2>2, <2>3, OwnEnds DEF Types
<1>7. CASE con[c].docker \notin {"running", "died"}
  <2>1. con' = con
    BY <1>7 DEF Halt
  <2> QED
    BY <1>1, <1>3, <1>4, <1>5, <2>1, StayEnds DEF Types
<1> QED
  BY <1>6, <1>7

LEMMA LaunchKeeps ==
  ASSUME IInv, NEW w \in Workers, Launch(w)
  PROVE  IInv'
<1> DEFINE c == job[w].con
<1>1. /\ Types /\ JobShape(w) /\ job \in [Workers -> JobType] /\ con \in [Containers -> ConType]
      /\ job[w].pc = "launch" /\ JobFacts(w)
  BY DEF IInv, Types, Launch, At
<1>2. c \in Containers /\ con[c] \in ConType /\ con[c].docker # "new"
  BY <1>1, OwnKnown
<1>3. /\ {"unbind"} \subseteq Walk \cap Places
      /\ "launch" \in Walk \ {"read", "write", "migrations"}
  BY DEF Walk, Places
<1>4. /\ down' = down /\ published' = published /\ mixed' = mixed /\ overlap' = overlap /\ missed' = missed
      /\ report' \in [Containers -> {"none", "die", "start"}] /\ flag' \subseteq Containers
      /\ queue' = queue /\ copies' = copies
  BY <1>1, <1>2 DEF Launch, Types, history, Seen
<1>5. backends' = backends
  BY DEF Launch
<1>6. CASE con' = [con EXCEPT ![c].docker = "running"] /\ Goto(w, "unbind")
           /\ con[c].docker \in {"died", "stopped"}
  <2>1. PICK d : d = [con[c] EXCEPT !.docker = "running"]
    OBVIOUS
  <2>2. con' = [con EXCEPT ![c] = d]
    BY <1>1, <1>2, <1>6, <2>1
  <2>3. d \in ConType /\ d.of = con[c].of /\ d.docker = "running" /\ d.row = con[c].row
    BY <1>2, <2>1 DEF ConType
  <2>4. job' \in [Workers -> JobType] /\ Moved(w, "unbind")
    BY <1>1, <1>3, <1>6, GoneTo
  <2>5. ComeTo("unbind", job[w].kind)
    BY <1>1 DEF JobShape, ComeTo
  <2> QED
    BY <1>1, <1>2, <1>3, <1>4, <1>5, <1>6, <2>2, <2>3, <2>4, <2>5, OwnKeeps
<1>7. CASE con' = con /\ Goto(w, "unbind")
  <2>1. job' \in [Workers -> JobType] /\ Moved(w, "unbind")
    BY <1>1, <1>3, <1>7, GoneTo
  <2>2. ComeTo("unbind", job[w].kind)
    BY <1>1 DEF JobShape, ComeTo
  <2> QED
    BY <1>1, <1>3, <1>4, <1>5, <1>7, <2>1, <2>2, StayKeeps
<1>8. CASE con' = con /\ End(w)
  BY <1>1, <1>3, <1>4, <1>5, <1>8, StayEnds DEF Types
<1> QED
  BY <1>6, <1>7, <1>8 DEF Launch

LEMMA DockerRemovesNotKeeps ==
  ASSUME IInv, NEW w \in Workers, DockerRemovesNot(w)
  PROVE  IInv'
<1> DEFINE c == job[w].con
<1>1. /\ Types /\ JobShape(w) /\ job \in [Workers -> JobType] /\ con \in [Containers -> ConType]
      /\ job[w].pc = "stop" /\ JobFacts(w)
  BY DEF IInv, Types, DockerRemovesNot, At
<1>2. c \in Containers /\ con[c] \in ConType /\ con[c].docker # "new"
  BY <1>1, OwnKnown
<1>3. "stop" \in Walk \ {"read", "write", "migrations"}
  BY DEF Walk, Places
<1>4. /\ down' = down /\ published' = published /\ mixed' = mixed /\ overlap' = overlap /\ missed' = missed
      /\ report' \in [Containers -> {"none", "die", "start"}] /\ flag' \subseteq Containers
      /\ queue' = queue /\ copies' = copies
  BY <1>1, <1>2 DEF DockerRemovesNot, Types, history
<1>5. PICK y \in {con[c].docker, "stopped"} : con' = [con EXCEPT ![c].docker = y]
  BY DEF DockerRemovesNot
<1>6. Started(c) /\ RemovalOver(w) /\ backends' = backends
  BY DEF DockerRemovesNot
<1>7. PICK d : d = [con[c] EXCEPT !.docker = y]
  OBVIOUS
<1>8. con' = [con EXCEPT ![c] = d]
  BY <1>1, <1>2, <1>5, <1>7
<1>9. d \in ConType /\ d.of = con[c].of /\ d.row = con[c].row /\ d.docker = y
  BY <1>2, <1>5, <1>7 DEF ConType
<1> QED
  BY <1>1, <1>2, <1>3, <1>4, <1>5, <1>6, <1>8, <1>9, OwnEnds DEF Types, Started

\* publish_app.
LEMMA ReadKeeps ==
  ASSUME IInv, NEW w \in Workers, Read(w)
  PROVE  IInv'
<1>1. /\ Types /\ JobShape(w) /\ job[w].pc = "read" /\ job[w] \in JobType
      /\ job \in [Workers -> JobType] /\ con' = con /\ backends' = backends
  BY DEF IInv, Types, Read, At
<1> DEFINE S == {c \in job[w].seen : ~con[c].removal /\ (Calico => con[c].ip)}
<1>2. job' = [job EXCEPT ![w].pc = "write", ![w].seen = S]
  BY DEF Read
<1>3. S \in SUBSET Containers /\ "write" \in Places /\ {"read", "write"} \subseteq Walk
  BY <1>1 DEF JobType, Places, Walk
<1> HIDE DEF S
<1>4. job' \in [Workers -> JobType] /\ Moved(w, "write")
  BY <1>1, <1>2, <1>3 DEF Moved, Others, JobType
<1>5. Types'
  BY <1>1, <1>4 DEF Types, Read, history
<1>6. Tame
  BY <1>1, TameSame
<1>7. ComeTo("write", job[w].kind)
  BY <1>1 DEF JobShape, ComeTo
<1> QED
  BY <1>1, <1>3, <1>4, <1>5, <1>6, <1>7, MoveKeeps

LEMMA AfterWriting ==
  ASSUME NEW k \in Kinds, ComeTo("write", k)
  PROVE  /\ AfterWrite(k) \in {"reset", "launch", "halt", "migrations", "stop", "idle"}
         /\ k = "create" => AfterWrite(k) = "idle"
         /\ AfterWrite(k) # "idle" => ComeTo(AfterWrite(k), k)
<1>1. /\ k = "kill" => AfterWrite(k) = "reset"
      /\ k = "start" => AfterWrite(k) = "launch"
      /\ k = "stop" => AfterWrite(k) = "halt"
      /\ k = "hostkill" => AfterWrite(k) = "migrations"
      /\ k \in {"remove", "migrate"} => AfterWrite(k) = "stop"
      /\ k \notin {"kill", "start", "stop", "hostkill", "remove", "migrate"} => AfterWrite(k) = "idle"
  BY DEF AfterWrite
<1> QED
  BY <1>1 DEF ComeTo

LEMMA WriteKeeps ==
  ASSUME IInv, NEW w \in Workers, Write(w)
  PROVE  IInv'
<1>1. /\ Types /\ JobShape(w) /\ job[w].pc = "write" /\ job[w] \in JobType
      /\ job \in [Workers -> JobType] /\ con' = con /\ backends' = backends
  BY DEF IInv, Types, Write, At
<1>2. published' \subseteq Containers /\ missed' \in BOOLEAN
  <2>1. PICK ok \in Outcomes("etcd") :
          published' = (IF ok THEN job[w].seen ELSE published) /\ missed' = ~ok
    BY DEF Write
  <2>2. ok \in BOOLEAN
    BY DEF Outcomes
  <2> QED
    BY <1>1, <2>1, <2>2 DEF Types, JobType
<1>3. Tame
  BY <1>1, TameSame
<1>4. job[w].kind \in Kinds /\ ComeTo("write", job[w].kind)
  BY <1>1 DEF JobShape, JobType
<1> DEFINE p == AfterWrite(job[w].kind)
<1>5. /\ p \in {"reset", "launch", "halt", "migrations", "stop", "idle"}
      /\ p # "idle" => ComeTo(p, job[w].kind) /\ job[w].kind # "create"
  BY <1>4, AfterWriting
<1>6. CASE p = "idle"
  <2>1. End(w)
    BY <1>6 DEF Write
  <2>2. job' \in [Workers -> JobType] /\ Ended(w)
    BY <1>1, <2>1, Finished
  <2>3. Types'
    BY <1>1, <1>2, <2>2 DEF Types, Write
  <2> QED
    BY <1>1, <1>3, <2>2, <2>3, EndKeeps DEF At
<1>7. CASE p # "idle"
  <2>1. job' = [job EXCEPT ![w].pc = p, ![w].seen = {}]
    BY <1>7 DEF Write
  <2> HIDE DEF p
  <2>2. p \in Places /\ p \in Walk /\ "write" \in Walk
    BY <1>5, <1>7 DEF Places, Walk
  <2>3. job' \in [Workers -> JobType] /\ Moved(w, p)
    BY <1>1, <2>1, <2>2 DEF Moved, Others, JobType
  <2>4. Types'
    BY <1>1, <1>2, <2>3 DEF Types, Write
  <2> QED
    BY <1>1, <1>3, <1>5, <1>7, <2>2, <2>3, <2>4, MoveKeeps
<1> QED
  BY <1>6, <1>7

-----------------------------------------------------------------------------
(* The steps that make a container.                                        *)

LEMMA AtMaking ==
  ASSUME IInv, NEW w \in Workers, job[w].pc \in {"docker", "boot", "row"}
  PROVE  /\ Types /\ JobShape(w) /\ JobFacts(w) /\ job[w] \in JobType /\ Sole
         /\ job \in [Workers -> JobType] /\ con \in [Containers -> ConType]
         /\ job[w].con \in Containers /\ con[job[w].con] \in ConType
         /\ job[w].kind = "create" /\ job[w].next = NoContainer /\ job[w].host = NoHost
         /\ Making(w) = job[w].con /\ Blank(job[w].con) /\ ~Known(job[w].con)
         /\ \A v \in Workers \ {w} :
               job[w].con \notin {job[v].con, job[v].next} /\ Making(v) # job[w].con
<1>1. /\ Types /\ JobShape(w) /\ JobFacts(w) /\ job[w] \in JobType /\ Sole
      /\ job \in [Workers -> JobType] /\ con \in [Containers -> ConType]
  BY DEF IInv, Types
<1>2. /\ job[w].kind = "create" /\ job[w].next = NoContainer /\ job[w].host = NoHost
      /\ job[w].con # NoContainer /\ Making(w) = job[w].con
  BY <1>1 DEF JobShape, ComeTo, HostKinds, Making
<1>3. job[w].con \in Containers
  BY <1>1, <1>2 DEF JobType
<1>4. PICK c \in Containers : c = job[w].con
  BY <1>3
<1>5. ~Known(c) /\ ConFacts(c) /\ con[c] \in ConType
  BY <1>1, <1>4 DEF JobFacts, At, Known, IInv
<1>6. \A v \in Workers \ {w} :
        job[w].con \notin {job[v].con, job[v].next} /\ Making(v) # job[w].con
  BY <1>1, <1>2 DEF Sole, Making
<1> QED
  BY <1>1, <1>2, <1>3, <1>4, <1>5, <1>6 DEF ConFacts

LEMMA DockerCreatesKeeps ==
  ASSUME IInv, NEW w \in Workers, DockerCreates(w)
  PROVE  IInv'
<1>0. PICK c : c = job[w].con
  OBVIOUS
<1>1. job[w].pc = "docker" /\ con' = [con EXCEPT ![c].docker = "created"] /\ Goto(w, "boot")
      /\ backends' = backends
  BY <1>0 DEF DockerCreates, At
<1>2. /\ Types /\ JobShape(w) /\ JobFacts(w) /\ job[w] \in JobType /\ Sole
      /\ job \in [Workers -> JobType] /\ con \in [Containers -> ConType]
      /\ c \in Containers /\ con[c] \in ConType
      /\ job[w].kind = "create" /\ job[w].next = NoContainer /\ job[w].host = NoHost
      /\ Making(w) = c /\ Blank(c) /\ ~Known(c)
      /\ \A v \in Workers \ {w} : c \notin {job[v].con, job[v].next} /\ Making(v) # c
  BY <1>0, <1>1, AtMaking
<1>3. con[c].docker = "new"
  BY <1>0, <1>1, <1>2 DEF JobFacts, At
<1>4. /\ con' \in [Containers -> ConType] /\ \A x \in Containers \ {c} : con'[x] = con[x]
      /\ con'[c].docker = "created" /\ con'[c].row = con[c].row /\ con'[c].alive = con[c].alive
      /\ con'[c].ip = con[c].ip /\ con'[c].removal = con[c].removal /\ con'[c].of = con[c].of
  BY <1>1, <1>2 DEF ConType
<1>5. "boot" \in Places
  BY DEF Places
<1>6. job' \in [Workers -> JobType] /\ Moved(w, "boot")
  BY <1>1, <1>2, <1>5, GoneTo
<1>7. Types'
  BY <1>2, <1>4, <1>6 DEF Types, DockerCreates, history
<1>8. /\ Others(w) /\ job'[w].pc = "boot" /\ job'[w].kind = "create" /\ job'[w].con = c
      /\ job'[w].next = NoContainer /\ job'[w].host = NoHost
  BY <1>0, <1>2, <1>6 DEF Moved
<1>9. ASSUME NEW x \in Containers PROVE Known(x)' <=> Known(x)
  <2>1. CASE x = c
    BY <1>2, <1>8, <2>1 DEF Known, At
  <2>2. CASE x # c
    <3>1. con'[x] = con[x]
      BY <1>4, <2>2
    <3>2. \A v \in Workers : job'[v].pc \in {"boot", "row"} /\ job'[v].con = x
                             <=> job[v].pc \in {"boot", "row"} /\ job[v].con = x
      BY <1>0, <1>8, <2>2 DEF Others, At
    <3> QED
      BY <3>1, <3>2 DEF Known, At
  <2> QED
    BY <2>1, <2>2
<1>10. \A v \in Workers \ {w} : JobShape(v)' /\ JobFacts(v)'
  <2>1. ASSUME NEW v \in Workers \ {w}, Making(v) # NoContainer
        PROVE  con'[Making(v)].docker = "new" <=> con[Making(v)].docker = "new"
    <3>1. Making(v) \in Containers /\ Making(v) # c
      BY <1>2, <2>1 DEF Types, JobType, Making
    <3> QED
      BY <1>4, <3>1
  <2>2. \A x \in Containers : con[x].docker = "removed" => con'[x].docker = "removed"
    BY <1>3, <1>4
  <2> QED
    BY <1>8, <1>9, <2>1, <2>2, OtherJobs
<1>11. JobShape(w)' /\ JobFacts(w)'
  BY <1>2, <1>4, <1>8, LifecycleAssumption
     DEF JobShape, ComeTo, HostKinds, JobFacts, At, Open
<1>12. Sole'
  <2>1. Making(w)' = c
    BY <1>8 DEF Making
  <2> QED
    BY <1>2, <1>8, <2>1, LifecycleAssumption, Unshared
<1>13. OneRequest'
  BY <1>8, OneRequestKept
<1>14. ASSUME NEW x \in Containers PROVE ConFacts(x)'
  <2>1. ConFacts(x) /\ con[x] \in ConType /\ con'[x].of = con[x].of
    BY <1>2, <1>4 DEF IInv
  <2>2. (Known(x) \/ Blank(x))'
    BY <1>1, <1>4, <1>9, <2>1 DEF ConFacts, Blank
  <2>3. con[x].of = NoContainer \/ \E d \in Containers : d = con[x].of
    BY <2>1 DEF ConType
  <2>4. (con[x].of # NoContainer => Known(con[x].of))'
    BY <1>9, <2>1, <2>3 DEF ConFacts
  <2> QED
    BY <2>2, <2>4 DEF ConFacts
<1>15. NoOrphan'
  <2> SUFFICES ASSUME NEW x \in Containers, Started(x)'
               PROVE  (con[x].row \/ \E v \in Workers : job[v].con = x /\ At(v, "row"))'
    BY DEF NoOrphan
  <2>1. CASE x = c
    BY <1>4, <2>1 DEF Started
  <2>2. CASE x # c
    <3>1. con'[x] = con[x] /\ Started(x)
      BY <1>4, <2>2 DEF Started
    <3>2. con[x].row \/ \E v \in Workers : job[v].con = x /\ At(v, "row")
      BY <3>1 DEF IInv, NoOrphan
    <3> QED
      BY <1>0, <1>8, <2>2, <3>1, <3>2 DEF Others, At
  <2> QED
    BY <2>1, <2>2
<1> QED
  BY <1>7, <1>10, <1>11, <1>12, <1>13, <1>14, <1>15 DEF IInv

LEMMA DockerStartsKeeps ==
  ASSUME IInv, NEW w \in Workers, DockerStarts(w)
  PROVE  IInv'
<1>0. PICK c : c = job[w].con
  OBVIOUS
<1>1. job[w].pc = "boot" /\ con' = [con EXCEPT ![c].docker = "running"] /\ Goto(w, "row")
      /\ backends' = backends
  BY <1>0 DEF DockerStarts, At
<1>2. /\ Types /\ JobShape(w) /\ JobFacts(w) /\ job[w] \in JobType /\ Sole
      /\ job \in [Workers -> JobType] /\ con \in [Containers -> ConType]
      /\ c \in Containers /\ con[c] \in ConType
      /\ job[w].kind = "create" /\ job[w].next = NoContainer /\ job[w].host = NoHost
      /\ Making(w) = c /\ Blank(c) /\ ~Known(c)
      /\ \A v \in Workers \ {w} : c \notin {job[v].con, job[v].next} /\ Making(v) # c
  BY <1>0, <1>1, AtMaking
<1>3. con[c].docker # "new"
  BY <1>0, <1>1, <1>2 DEF JobFacts, At
<1>4. /\ con' \in [Containers -> ConType] /\ \A x \in Containers \ {c} : con'[x] = con[x]
      /\ con'[c].docker = "running" /\ con'[c].row = con[c].row /\ con'[c].alive = con[c].alive
      /\ con'[c].ip = con[c].ip /\ con'[c].removal = con[c].removal /\ con'[c].of = con[c].of
  BY <1>1, <1>2 DEF ConType
<1>5. "row" \in Places
  BY DEF Places
<1>6. job' \in [Workers -> JobType] /\ Moved(w, "row")
  BY <1>1, <1>2, <1>5, GoneTo
<1>7. Types'
  BY <1>2, <1>4, <1>6 DEF Types, DockerStarts, history
<1>8. /\ Others(w) /\ job'[w].pc = "row" /\ job'[w].kind = "create" /\ job'[w].con = c
      /\ job'[w].next = NoContainer /\ job'[w].host = NoHost
  BY <1>0, <1>2, <1>6 DEF Moved
<1>9. ASSUME NEW x \in Containers PROVE Known(x)' <=> Known(x)
  <2>1. CASE x = c
    BY <1>2, <1>8, <2>1 DEF Known, At
  <2>2. CASE x # c
    <3>1. con'[x] = con[x]
      BY <1>4, <2>2
    <3>2. \A v \in Workers : job'[v].pc \in {"boot", "row"} /\ job'[v].con = x
                             <=> job[v].pc \in {"boot", "row"} /\ job[v].con = x
      BY <1>0, <1>8, <2>2 DEF Others, At
    <3> QED
      BY <3>1, <3>2 DEF Known, At
  <2> QED
    BY <2>1, <2>2
<1>10. \A v \in Workers \ {w} : JobShape(v)' /\ JobFacts(v)'
  <2>1. ASSUME NEW v \in Workers \ {w}, Making(v) # NoContainer
        PROVE  con'[Making(v)].docker = "new" <=> con[Making(v)].docker = "new"
    <3>1. Making(v) \in Containers /\ Making(v) # c
      BY <1>2, <2>1 DEF Types, JobType, Making
    <3> QED
      BY <1>4, <3>1
  <2>2. \A x \in Containers : Known(x) /\ con[x].docker = "removed" => con'[x].docker = "removed"
    BY <1>2, <1>4
  <2> QED
    BY <1>8, <1>9, <2>1, <2>2, OtherJobs
<1>11. JobShape(w)' /\ JobFacts(w)'
  BY <1>2, <1>4, <1>8, LifecycleAssumption
     DEF JobShape, ComeTo, HostKinds, JobFacts, At, Open
<1>12. Sole'
  <2>1. Making(w)' = c
    BY <1>8 DEF Making
  <2> QED
    BY <1>2, <1>8, <2>1, LifecycleAssumption, Unshared
<1>13. OneRequest'
  BY <1>8, OneRequestKept
<1>14. ASSUME NEW x \in Containers PROVE ConFacts(x)'
  <2>1. ConFacts(x) /\ con[x] \in ConType /\ con'[x].of = con[x].of
    BY <1>2, <1>4 DEF IInv
  <2>2. (Known(x) \/ Blank(x))'
    BY <1>1, <1>4, <1>9, <2>1 DEF ConFacts, Blank
  <2>3. con[x].of = NoContainer \/ \E d \in Containers : d = con[x].of
    BY <2>1 DEF ConType
  <2>4. (con[x].of # NoContainer => Known(con[x].of))'
    BY <1>9, <2>1, <2>3 DEF ConFacts
  <2> QED
    BY <2>2, <2>4 DEF ConFacts
<1>15. NoOrphan'
  <2> SUFFICES ASSUME NEW x \in Containers, Started(x)'
               PROVE  (con[x].row \/ \E v \in Workers : job[v].con = x /\ At(v, "row"))'
    BY DEF NoOrphan
  <2>1. CASE x = c
    BY <1>8, <2>1 DEF At
  <2>2. CASE x # c
    <3>1. con'[x] = con[x] /\ Started(x)
      BY <1>4, <2>2 DEF Started
    <3>2. con[x].row \/ \E v \in Workers : job[v].con = x /\ At(v, "row")
      BY <3>1 DEF IInv, NoOrphan
    <3> QED
      BY <1>0, <1>8, <2>2, <3>1, <3>2 DEF Others, At
  <2> QED
    BY <2>1, <2>2
<1> QED
  BY <1>7, <1>10, <1>11, <1>12, <1>13, <1>14, <1>15 DEF IInv

\* It was created and not started: its creator leaves it.
LEMMA DockerStartsNotKeeps ==
  ASSUME IInv, NEW w \in Workers, DockerStartsNot(w)
  PROVE  IInv'
<1>0. PICK c : c = job[w].con
  OBVIOUS
<1>1. job[w].pc = "boot" /\ Begin(w, "read") /\ backends' = backends /\ con' = con
  BY <1>0 DEF DockerStartsNot, At
<1>2. /\ Types /\ JobShape(w) /\ JobFacts(w) /\ job[w] \in JobType /\ Sole
      /\ job \in [Workers -> JobType] /\ con \in [Containers -> ConType]
      /\ c \in Containers /\ con[c] \in ConType
      /\ job[w].kind = "create" /\ job[w].next = NoContainer /\ job[w].host = NoHost
      /\ Making(w) = c /\ Blank(c) /\ ~Known(c)
      /\ \A v \in Workers \ {w} : c \notin {job[v].con, job[v].next} /\ Making(v) # c
  BY <1>0, <1>1, AtMaking
<1>3. con[c].docker # "new"
  BY <1>0, <1>1, <1>2 DEF JobFacts, At
<1>4. /\ con' \in [Containers -> ConType] /\ \A x \in Containers \ {c} : con'[x] = con[x]
      /\ con'[c].docker = con[c].docker /\ con'[c].of = con[c].of
  BY <1>1, <1>2 DEF ConType
<1>5. "read" \in Places
  BY DEF Places
<1>6. job' \in [Workers -> JobType] /\ Moved(w, "read")
  BY <1>1, <1>2, <1>5, Begun
<1>7. Types'
  BY <1>2, <1>4, <1>6 DEF Types, DockerStartsNot, history
<1>8. /\ Others(w) /\ job'[w].pc = "read" /\ job'[w].kind = "create" /\ job'[w].con = c
      /\ job'[w].next = NoContainer /\ job'[w].host = NoHost
  BY <1>0, <1>2, <1>6 DEF Moved
<1>9. Known(c)'
  BY <1>2, <1>3, <1>4, <1>8 DEF Known, At, Others
<1>10. ASSUME NEW x \in Containers, Known(x) PROVE Known(x)'
  <2>1. con'[x].docker = con[x].docker
    BY <1>4
  <2> QED
    BY <1>8, <1>10, <2>1 DEF Known, At, Others
<1>11. \A v \in Workers \ {w} : JobShape(v)' /\ JobFacts(v)'
  <2>1. ASSUME NEW v \in Workers \ {w}, Making(v) # NoContainer
        PROVE  con'[Making(v)].docker = "new" <=> con[Making(v)].docker = "new"
    <3>1. Making(v) \in Containers
      BY <1>2, <2>1 DEF Types, JobType, Making
    <3> QED
      BY <1>4, <3>1
  <2>2. \A x \in Containers : con[x].docker = "removed" => con'[x].docker = "removed"
    BY <1>4
  <2> QED
    BY <1>8, <1>10, <2>1, <2>2, OtherJobs
<1>12. JobShape(w)' /\ JobFacts(w)'
  <2>1. Known(job[w].con)'
    BY <1>8, <1>9
  <2> QED
    BY <1>8, <2>1, LifecycleAssumption, <1>2 DEF JobShape, ComeTo, HostKinds, JobFacts, At, Open
<1>13. Sole'
  <2>1. Making(w)' = NoContainer
    BY <1>8 DEF Making
  <2> QED
    BY <1>2, <1>8, <2>1, LifecycleAssumption, Unshared
<1>14. OneRequest'
  BY <1>8, OneRequestKept
<1>15. ASSUME NEW x \in Containers PROVE ConFacts(x)'
  <2>1. ConFacts(x) /\ con[x] \in ConType /\ con'[x].of = con[x].of
    BY <1>2, <1>4 DEF IInv
  <2>2. (Known(x) \/ Blank(x))'
    BY <1>1, <1>4, <1>9, <1>10, <2>1 DEF ConFacts, Blank
  <2>3. con[x].of = NoContainer \/ \E d \in Containers : d = con[x].of
    BY <2>1 DEF ConType
  <2>4. (con[x].of # NoContainer => Known(con[x].of))'
    BY <1>10, <2>1, <2>3 DEF ConFacts
  <2> QED
    BY <2>2, <2>4 DEF ConFacts
<1>16. NoOrphan'
  <2> SUFFICES ASSUME NEW x \in Containers, Started(x)'
               PROVE  (con[x].row \/ \E v \in Workers : job[v].con = x /\ At(v, "row"))'
    BY DEF NoOrphan
  <2>1. CASE x = c
    <3>1. Started(c) /\ ~con[c].row
      BY <1>2, <1>4, <2>1 DEF Started, Blank
    <3>2. PICK v \in Workers : job[v].con = c /\ At(v, "row")
      BY <1>2, <3>1 DEF IInv, NoOrphan
    <3> QED
      BY <1>1, <1>2, <3>2 DEF At
  <2>2. CASE x # c
    <3>1. con'[x] = con[x] /\ Started(x)
      BY <1>4, <2>2 DEF Started
    <3>2. con[x].row \/ \E v \in Workers : job[v].con = x /\ At(v, "row")
      BY <3>1 DEF IInv, NoOrphan
    <3> QED
      BY <1>0, <1>8, <2>2, <3>1, <3>2 DEF Others, At
  <2> QED
    BY <2>1, <2>2
<1> QED
  BY <1>7, <1>11, <1>12, <1>13, <1>14, <1>15, <1>16 DEF IInv

\* The creator records the container: from now on it is known.
LEMMA RecordKeeps ==
  ASSUME IInv, NEW w \in Workers, Record(w)
  PROVE  IInv'
<1>0. PICK c : c = job[w].con
  OBVIOUS
<1>1. /\ job[w].pc = "row" /\ Goto(w, "network") /\ backends' = backends
      /\ con' = [con EXCEPT ![c].row = TRUE, ![c].alive = TRUE]
  BY <1>0 DEF Record, At
<1>2. /\ Types /\ JobShape(w) /\ JobFacts(w) /\ job[w] \in JobType /\ Sole
      /\ job \in [Workers -> JobType] /\ con \in [Containers -> ConType]
      /\ c \in Containers /\ con[c] \in ConType
      /\ job[w].kind = "create" /\ job[w].next = NoContainer /\ job[w].host = NoHost
      /\ Making(w) = c /\ Blank(c) /\ ~Known(c)
      /\ \A v \in Workers \ {w} : c \notin {job[v].con, job[v].next} /\ Making(v) # c
  BY <1>0, <1>1, AtMaking
<1>3. con[c].docker # "new"
  BY <1>0, <1>1, <1>2 DEF JobFacts, At
<1>4. /\ con' \in [Containers -> ConType] /\ \A x \in Containers \ {c} : con'[x] = con[x]
      /\ con'[c].docker = con[c].docker /\ con'[c].row /\ con'[c].of = con[c].of
  BY <1>1, <1>2 DEF ConType
<1>5. "network" \in Places
  BY DEF Places
<1>6. job' \in [Workers -> JobType] /\ Moved(w, "network")
  BY <1>1, <1>2, <1>5, GoneTo
<1>7. Types'
  BY <1>2, <1>4, <1>6 DEF Types, Record, history
<1>8. /\ Others(w) /\ job'[w].pc = "network" /\ job'[w].kind = "create" /\ job'[w].con = c
      /\ job'[w].next = NoContainer /\ job'[w].host = NoHost
  BY <1>0, <1>2, <1>6 DEF Moved
<1>9. Known(c)'
  BY <1>2, <1>3, <1>4, <1>8 DEF Known, At, Others
<1>10. ASSUME NEW x \in Containers, Known(x) PROVE Known(x)'
  <2>1. con'[x].docker = con[x].docker
    BY <1>4
  <2> QED
    BY <1>8, <1>10, <2>1 DEF Known, At, Others
<1>11. \A v \in Workers \ {w} : JobShape(v)' /\ JobFacts(v)'
  <2>1. ASSUME NEW v \in Workers \ {w}, Making(v) # NoContainer
        PROVE  con'[Making(v)].docker = "new" <=> con[Making(v)].docker = "new"
    <3>1. Making(v) \in Containers
      BY <1>2, <2>1 DEF Types, JobType, Making
    <3> QED
      BY <1>4, <3>1
  <2>2. \A x \in Containers : con[x].docker = "removed" => con'[x].docker = "removed"
    BY <1>4
  <2> QED
    BY <1>8, <1>10, <2>1, <2>2, OtherJobs
<1>12. JobShape(w)' /\ JobFacts(w)'
  <2>1. Known(job[w].con)'
    BY <1>8, <1>9
  <2> QED
    BY <1>8, <2>1, LifecycleAssumption, <1>2 DEF JobShape, ComeTo, HostKinds, JobFacts, At, Open
<1>13. Sole'
  <2>1. Making(w)' = NoContainer
    BY <1>8 DEF Making
  <2> QED
    BY <1>2, <1>8, <2>1, LifecycleAssumption, Unshared
<1>14. OneRequest'
  BY <1>8, OneRequestKept
<1>15. ASSUME NEW x \in Containers PROVE ConFacts(x)'
  <2>1. ConFacts(x) /\ con[x] \in ConType /\ con'[x].of = con[x].of
    BY <1>2, <1>4 DEF IInv
  <2>2. (Known(x) \/ Blank(x))'
    BY <1>1, <1>4, <1>9, <1>10, <2>1 DEF ConFacts, Blank
  <2>3. con[x].of = NoContainer \/ \E d \in Containers : d = con[x].of
    BY <2>1 DEF ConType
  <2>4. (con[x].of # NoContainer => Known(con[x].of))'
    BY <1>10, <2>1, <2>3 DEF ConFacts
  <2> QED
    BY <2>2, <2>4 DEF ConFacts
<1>16. NoOrphan'
  <2> SUFFICES ASSUME NEW x \in Containers, Started(x)'
               PROVE  (con[x].row \/ \E v \in Workers : job[v].con = x /\ At(v, "row"))'
    BY DEF NoOrphan
  <2>1. CASE x = c
    BY <1>4, <2>1
  <2>2. CASE x # c
    <3>1. con'[x] = con[x] /\ Started(x)
      BY <1>4, <2>2 DEF Started
    <3>2. con[x].row \/ \E v \in Workers : job[v].con = x /\ At(v, "row")
      BY <3>1 DEF IInv, NoOrphan
    <3> QED
      BY <1>0, <1>8, <2>2, <3>1, <3>2 DEF Others, At
  <2> QED
    BY <2>1, <2>2
<1> QED
  BY <1>7, <1>11, <1>12, <1>13, <1>14, <1>15, <1>16 DEF IInv

\* Docker refuses: nothing was made.
LEMMA DockerCreatesNotKeeps ==
  ASSUME IInv, NEW w \in Workers, DockerCreatesNot(w)
  PROVE  IInv'
<1>0. PICK c : c = job[w].con
  OBVIOUS
<1>1. /\ job[w].pc = "docker" /\ con' = [con EXCEPT ![c] = New] /\ Begin(w, "read")
      /\ backends' = backends
  BY <1>0 DEF DockerCreatesNot, At
<1>2. /\ Types /\ JobFacts(w) /\ job[w] \in JobType /\ Sole
      /\ job \in [Workers -> JobType] /\ con \in [Containers -> ConType]
      /\ c \in Containers /\ con[c] \in ConType
      /\ job[w].kind = "create" /\ job[w].next = NoContainer /\ job[w].host = NoHost
      /\ Blank(c) /\ ~Known(c)
      /\ \A v \in Workers \ {w} : c \notin {job[v].con, job[v].next} /\ Making(v) # c
  BY <1>0, <1>1, AtMaking
<1>3. con[c].docker = "new"
  BY <1>0, <1>1, <1>2 DEF JobFacts, At
<1>4. /\ con' \in [Containers -> ConType] /\ \A x \in Containers \ {c} : con'[x] = con[x]
      /\ con'[c] = New
  BY <1>1, <1>2 DEF ConType, New
<1>5. "read" \in Places
  BY DEF Places
<1>6. job' \in [Workers -> JobType] /\ Moved(w, "read")
  BY <1>1, <1>2, <1>5, Begun
<1>7. Types'
  BY <1>2, <1>4, <1>6 DEF Types, DockerCreatesNot, history
<1>8. /\ Others(w) /\ job'[w].pc = "read" /\ job'[w].kind = "create" /\ job'[w].con = c
      /\ job'[w].next = NoContainer /\ job'[w].host = NoHost
  BY <1>0, <1>2, <1>6 DEF Moved
<1>9. /\ New.docker = "new" /\ New.of = NoContainer
      /\ ~New.row /\ ~New.alive /\ ~New.ip /\ ~New.removal
  BY DEF New
<1>10. Tame
  BY <1>1, <1>2, <1>3, <1>4, <1>9 DEF Tame, Started, Blank, ConType
<1>11. JobShape(w)' /\ JobFacts(w)'
  BY <1>2, <1>8, LifecycleAssumption
     DEF JobShape, ComeTo, HostKinds, JobFacts, At, Open
<1>12. Sole'
  <2>1. Making(w)' = NoContainer
    BY <1>8 DEF Making
  <2> QED
    BY <1>2, <1>8, <2>1, LifecycleAssumption, Unshared
<1>13. OneRequest'
  BY <1>8, OneRequestKept
<1> QED
  BY <1>1, <1>7, <1>8, <1>10, <1>11, <1>12, <1>13, TameKeeps DEF At

LEMMA PlanKeeps ==
  ASSUME IInv, NEW w \in Workers, Plan(w)
  PROVE  IInv'
<1>0. PICK c : c = job[w].con
  OBVIOUS
<1>1. /\ Types /\ JobShape(w) /\ JobFacts(w) /\ job[w] \in JobType /\ Sole
      /\ job \in [Workers -> JobType] /\ con \in [Containers -> ConType]
      /\ job[w].pc = "plan" /\ backends' = backends
  BY DEF IInv, Types, Plan, At
<1>2. c \in Containers /\ Known(c)
  BY <1>0, <1>1, OwnKnown
<1>3. CASE End(w) /\ con' = con
  <2>1. job' \in [Workers -> JobType] /\ Ended(w)
    BY <1>1, <1>3, Finished
  <2>2. Types'
    BY <1>1, <1>3, <2>1 DEF Types, Plan, history
  <2>3. Tame
    BY <1>1, <1>3, TameSame
  <2> QED
    BY <1>1, <2>1, <2>2, <2>3, EndKeeps DEF At
<1>4. ASSUME NEW n \in Containers, Unused(n),
             con' = [con EXCEPT ![n].of = c, ![n].asked = con[c].ip,
                                ![n].copy = job[w].kind = "copy"],
             job' = [job EXCEPT ![w] =
                    IF @.kind = "copy" THEN [Idle EXCEPT !.pc = "docker", !.kind = "create", !.con = n]
                    ELSE [@ EXCEPT !.pc = "mark", !.next = n, !.seen = Rows(con)]]
      PROVE  IInv'
  <2>1. /\ con[n].docker = "new" /\ ~Known(n) /\ n # c
        /\ \A v \in Workers : n \notin {job[v].con, job[v].next}
    BY <1>0, <1>4 DEF Unused, Known
  <2>2. con[n] \in ConType /\ con[c] \in ConType
    BY <1>1, <1>2
  <2>3. PICK y \in BOOLEAN : y = (job[w].kind = "copy")
    OBVIOUS
  <2>4. /\ con' \in [Containers -> ConType] /\ \A x \in Containers \ {n} : con'[x] = con[x]
        /\ con'[n].docker = con[n].docker /\ con'[n].of = c /\ con'[n].row = con[n].row
        /\ con'[n].alive = con[n].alive /\ con'[n].ip = con[n].ip
        /\ con'[n].removal = con[n].removal
    <3>1. con' = [con EXCEPT ![n].of = c, ![n].asked = con[c].ip, ![n].copy = y]
      BY <1>4, <2>3
    <3> QED
      BY <1>1, <1>2, <2>2, <3>1 DEF ConType
  <2>5. Tame
    BY <1>1, <1>2, <2>1, <2>4 DEF Tame, Started
  <2>6. CASE job[w].kind = "copy"
    <3> DEFINE j == [Idle EXCEPT !.pc = "docker", !.kind = "create", !.con = n]
    <3>1. j \in JobType
      BY IdleType DEF JobType, Places, Kinds
    <3>2. job' = [job EXCEPT ![w] = j]
      BY <1>1, <1>4, <2>6
    <3>3. /\ j.pc = "docker" /\ j.kind = "create" /\ j.con = n /\ j.next = NoContainer
          /\ j.host = NoHost
      BY DEF Idle
    <3> HIDE DEF j
    <3>4. job' \in [Workers -> JobType] /\ Others(w) /\ job'[w] = j
      BY <1>1, <3>1, <3>2 DEF Others
    <3>5. Types'
      BY <1>1, <2>4, <3>4 DEF Types, Plan, history
    <3>6. JobShape(w)' /\ JobFacts(w)'
      BY <2>1, <2>4, <3>3, <3>4, LifecycleAssumption
         DEF JobShape, ComeTo, HostKinds, JobFacts, At, Open
    <3>7. Sole'
      <4>1. Making(w)' = n
        BY <3>3, <3>4 DEF Making
      <4>2. \A v \in Workers : Making(v) # n
        BY <2>1 DEF Making
      <4> QED
        BY <2>1, <3>3, <3>4, <4>1, <4>2, Unshared
    <3>8. OneRequest'
      BY <3>3, <3>4, OneRequestKept
    <3> QED
      BY <1>1, <2>5, <3>3, <3>4, <3>5, <3>6, <3>7, <3>8, TameKeeps DEF At
  <2>7. CASE job[w].kind # "copy"
    <3>1. job[w].kind = "migrate" /\ job[w].host = NoHost
      BY <1>1, <2>7 DEF JobShape, ComeTo, HostKinds
    <3> DEFINE S == Rows(con)
    <3>2. S \in SUBSET Containers /\ "mark" \in Places
      BY DEF Rows, Places
    <3>3. job' = [job EXCEPT ![w].pc = "mark", ![w].next = n, ![w].seen = S]
      BY <1>1, <1>4, <2>7
    <3> HIDE DEF S
    <3>4. /\ job' \in [Workers -> JobType] /\ Others(w) /\ job'[w].pc = "mark"
          /\ job'[w].kind = "migrate" /\ job'[w].con = c /\ job'[w].next = n
          /\ job'[w].host = NoHost
      BY <1>0, <1>1, <3>1, <3>2, <3>3 DEF JobType, Others
    <3>5. Types'
      BY <1>1, <2>4, <3>4 DEF Types, Plan, history
    <3>6. Known(c)'
      BY <1>1, <1>2, <2>5, <3>4, <3>5, TameContainers DEF At
    <3>7. JobShape(w)' /\ JobFacts(w)'
      <4>1. Known(job[w].con)'
        BY <3>4, <3>6
      <4> QED
        BY <1>2, <2>1, <2>4, <3>4, <4>1, LifecycleAssumption
           DEF JobShape, ComeTo, HostKinds, JobFacts, At, Open
    <3>8. Sole'
      <4>1. Making(w)' = n
        BY <3>4 DEF Making
      <4>2. \A v \in Workers : Making(v) # n
        BY <2>1 DEF Making
      <4>3. \A v \in Workers \ {w} : Making(v) # NoContainer => Making(v) # c
        BY <1>0, <1>1 DEF Sole
      <4> QED
        BY <2>1, <3>4, <4>1, <4>2, <4>3, Unshared
    <3>9. OneRequest'
      BY <3>4, OneRequestKept
    <3> QED
      BY <1>1, <2>5, <3>4, <3>5, <3>7, <3>8, <3>9, TameKeeps DEF At
  <2> QED
    BY <2>6, <2>7
<1> QED
  BY <1>0, <1>3, <1>4 DEF Plan

-----------------------------------------------------------------------------
(* Jobs that are taken.                                                    *)

LEMMA Taken ==
  ASSUME Types, NEW w \in Workers, NEW k \in Kinds, NEW c \in Containers, NEW p \in Places,
         Take(w, k, c, p)
  PROVE  /\ job' \in [Workers -> JobType] /\ Others(w) /\ At(w, "idle")
         /\ job'[w].pc = p /\ job'[w].kind = k /\ job'[w].con = c
         /\ job'[w].next = NoContainer /\ job'[w].host = NoHost
         /\ job'[w].seen = IF k = "remove" THEN Rows(con) ELSE {}
         /\ job'[w].rest = {}
         /\ mixed' \subseteq Containers /\ mixed \subseteq mixed'
         /\ overlap' \in BOOLEAN /\ missed' \in BOOLEAN
<1> DEFINE S == IF k = "remove" THEN Rows(con) ELSE {}
           j == [Idle EXCEPT !.pc = p, !.kind = k, !.con = c, !.seen = S]
<1>1. job \in [Workers -> JobType] /\ mixed \subseteq Containers /\ overlap \in BOOLEAN /\ missed \in BOOLEAN
  BY DEF Types
<1>2. S \in SUBSET Containers
  BY DEF Rows
<1>3. /\ job' = [job EXCEPT ![w] = j] /\ At(w, "idle")
      /\ overlap' = (overlap \/ \E v \in Workers : ~At(v, "idle"))
      /\ mixed' = IF \E v \in Workers : job[v].con = c \/ (con[c].row /\ job[v].host = HostOf[c])
                  THEN mixed \cup {c} ELSE mixed
  BY DEF Take
<1>4. /\ j.pc = p /\ j.kind = k /\ j.con = c /\ j.next = NoContainer /\ j.host = NoHost
      /\ j.seen = S /\ j.rest = {}
  BY DEF Idle
<1> HIDE DEF S
<1>5. j \in JobType
  BY <1>2, IdleType DEF JobType
<1> HIDE DEF j
<1>6. job' \in [Workers -> JobType] /\ Others(w) /\ job'[w] = j
  BY <1>1, <1>3, <1>5 DEF Others
<1>7. mixed' \subseteq Containers /\ mixed \subseteq mixed' /\ overlap' \in BOOLEAN /\ missed' \in BOOLEAN
  BY <1>1, <1>3 DEF Take
<1> QED
  BY <1>3, <1>4, <1>6, <1>7 DEF S

LEMMA RowKnown ==
  ASSUME IInv, NEW c \in Containers, con[c].row
  PROVE  Known(c)
BY DEF IInv, ConFacts, Blank

LEMMA Idles ==
  ASSUME IInv, NEW w \in Workers, At(w, "idle")
  PROVE  /\ job[w].kind = "none" /\ job[w].con = NoContainer /\ job[w].next = NoContainer
         /\ job[w].host = NoHost /\ Making(w) = NoContainer
BY DEF IInv, JobShape, ComeTo, At, HostKinds, Making

LEMMA TakeKeeps ==
  ASSUME IInv, NEW w \in Workers, NEW k \in Kinds, NEW c \in Containers, NEW p \in Walk \cup {"plan"},
         con[c].row, Take(w, k, c, p), ComeTo(p, k), k \notin {"none", "create", "hostkill", "hostcure"},
         k = "migrate" => p = "plan", p \notin {"release", "forget", "erase", "unflag"},
         UNCHANGED <<down, con, backends, published, flag>>,
         report' \in [Containers -> {"none", "die", "start"}],
         queue' \in [Containers -> Nat], copies' \in [Containers -> Nat]
  PROVE  IInv'
<1>1. Types /\ p \in Places /\ p \notin {"idle", "docker", "boot", "row", "backends", "commit"}
  BY DEF IInv, Walk, Places
<1>2. /\ job' \in [Workers -> JobType] /\ Others(w) /\ At(w, "idle")
      /\ job'[w].pc = p /\ job'[w].kind = k /\ job'[w].con = c
      /\ job'[w].next = NoContainer /\ job'[w].host = NoHost
      /\ mixed' \subseteq Containers /\ overlap' \in BOOLEAN /\ missed' \in BOOLEAN
  BY <1>1, Taken
<1>3. Types'
  BY <1>1, <1>2 DEF Types
<1>4. Tame
  BY TameSame
<1>5. Known(c)
  BY RowKnown
<1>6. Known(c)'
  BY <1>1, <1>2, <1>3, <1>4, <1>5, TameContainers DEF At
<1>7. JobShape(w)'
  BY <1>1, <1>2, LifecycleAssumption DEF JobShape, HostKinds
<1>8. JobFacts(w)'
  <2>1. Known(job[w].con)'
    BY <1>2, <1>6
  <2> QED
    BY <1>1, <1>2, <2>1 DEF JobFacts, At, Open
<1>9. Sole'
  <2>1. Making(w)' = NoContainer
    BY <1>1, <1>2 DEF Making
  <2>2. ASSUME NEW v \in Workers \ {w}, Making(v) # NoContainer PROVE Making(v) # c
    <3>1. JobShape(v) /\ JobFacts(v)
      BY DEF IInv
    <3> QED
      BY <1>5, <2>2, <3>1 DEF Making, JobFacts, Known, At
  <2> QED
    BY <1>2, <2>1, <2>2, Unshared
<1>10. OneRequest'
  BY <1>2, OneRequestKept
<1> QED
  BY <1>1, <1>2, <1>3, <1>4, <1>7, <1>8, <1>9, <1>10, TameKeeps DEF At

LEMMA DeployKeeps ==
  ASSUME IInv, NEW w \in Workers, NEW c \in Containers, Deploy(w, c)
  PROVE  IInv'
<1>1. /\ Types /\ con \in [Containers -> ConType] /\ con[c] \in ConType
      /\ con[c].docker = "new" /\ \A v \in Workers : c \notin {job[v].con, job[v].next}
      /\ Take(w, "create", c, "docker")
      /\ UNCHANGED <<down, backends, published, flag, report, queue, copies>>
  BY DEF IInv, Types, Deploy, Unused
<1>2. "create" \in Kinds /\ "docker" \in Places
  BY DEF Kinds, Places
<1>3. /\ job' \in [Workers -> JobType] /\ Others(w) /\ At(w, "idle")
      /\ job'[w].pc = "docker" /\ job'[w].kind = "create" /\ job'[w].con = c
      /\ job'[w].next = NoContainer /\ job'[w].host = NoHost
      /\ mixed' \subseteq Containers /\ overlap' \in BOOLEAN /\ missed' \in BOOLEAN
  BY <1>1, <1>2, Taken
<1>4. PICK asked \in BOOLEAN : con' = [con EXCEPT ![c].asked = asked]
  BY DEF Deploy
<1>5. /\ con' \in [Containers -> ConType] /\ \A x \in Containers \ {c} : con'[x] = con[x]
      /\ con'[c].docker = con[c].docker /\ con'[c].of = con[c].of /\ con'[c].row = con[c].row
      /\ con'[c].alive = con[c].alive /\ con'[c].ip = con[c].ip
      /\ con'[c].removal = con[c].removal
  BY <1>1, <1>4 DEF ConType
<1>6. Types'
  BY <1>1, <1>3, <1>5 DEF Types
<1>7. Tame
  BY <1>1, <1>5 DEF Tame, Started
<1>8. JobShape(w)' /\ JobFacts(w)'
  BY <1>1, <1>3, <1>5, LifecycleAssumption
     DEF JobShape, ComeTo, HostKinds, JobFacts, At, Open
<1>9. Sole'
  <2>1. Making(w)' = c /\ \A v \in Workers : Making(v) # c
    BY <1>1, <1>3 DEF Making
  <2> QED
    BY <1>1, <1>3, <2>1, Unshared
<1>10. OneRequest'
  BY <1>3, OneRequestKept
<1> QED
  BY <1>3, <1>6, <1>7, <1>8, <1>9, <1>10, TameKeeps DEF At

LEMMA RequestsKeep ==
  ASSUME IInv, NEW w \in Workers, NEW c \in Containers,
         Start(w, c) \/ Stop(w, c) \/ Remove(w, c) \/ Report(w, c)
  PROVE  IInv'
<1>1. /\ report \in [Containers -> {"none", "die", "start"}]
      /\ queue \in [Containers -> Nat] /\ copies \in [Containers -> Nat]
  BY DEF IInv, Types
<1>2. /\ con[c].row /\ UNCHANGED <<down, con, backends, published, flag, queue, copies>>
      /\ report' \in [Containers -> {"none", "die", "start"}]
  BY <1>1 DEF Start, Stop, Remove, Report
<1>3. PICK k \in {"start", "stop", "remove", "kill", "cure"} :
        \E p \in {"test", "down", "mark"} : Take(w, k, c, p) /\ ComeTo(p, k)
  BY DEF Start, Stop, Remove, Report, ComeTo, HostKinds
<1>4. PICK p \in {"test", "down", "mark"} : Take(w, k, c, p) /\ ComeTo(p, k)
  BY <1>3
<1>5. k \in Kinds /\ p \in Walk
  BY DEF Kinds, Walk, Places
<1> QED
  BY <1>1, <1>2, <1>4, <1>5, TakeKeeps

\* A message that is taken, whether or not it leads to a job.
LEMMA MessageKeeps ==
  ASSUME IInv, NEW w \in Workers, NEW c \in Containers, Migrate(w, c) \/ Copy(w, c)
  PROVE  IInv'
<1>1. /\ Types /\ queue \in [Containers -> Nat] /\ copies \in [Containers -> Nat]
  BY DEF IInv, Types
<1>2. /\ UNCHANGED <<down, con, backends, published, flag, report>>
      /\ queue' \in [Containers -> Nat] /\ copies' \in [Containers -> Nat]
  BY <1>1 DEF Migrate, Copy
<1>3. CASE con[c].row
  <2>1. PICK k \in {"migrate", "copy"} : Take(w, k, c, "plan")
    BY <1>3 DEF Migrate, Copy
  <2>2. k \in Kinds /\ "plan" \in Walk \cup {"plan"} /\ ComeTo("plan", k)
    BY DEF Kinds, ComeTo
  <2>3. report' \in [Containers -> {"none", "die", "start"}]
    BY <1>1, <1>2 DEF Types
  <2> QED
    BY <1>2, <1>3, <2>1, <2>2, <2>3, TakeKeeps
<1>4. CASE ~con[c].row
  <2>1. job' = job /\ mixed' = mixed /\ overlap' = overlap /\ missed' = missed
    BY <1>4 DEF Migrate, Copy, history
  <2>2. Types'
    BY <1>1, <1>2, <2>1 DEF Types
  <2>3. Tame
    BY <1>2, TameSame
  <2> QED
    BY <2>1, <2>2, <2>3, RestKeeps
<1> QED
  BY <1>3, <1>4

-----------------------------------------------------------------------------
(* What happens to a container without a job.                              *)

LEMMA EventKeeps ==
  ASSUME IInv, NEW c \in Containers, Die(c) \/ Delete(c) \/ Restart(c) \/ ReportUnknown(c)
  PROVE  IInv'
<1>1. /\ Types /\ con \in [Containers -> ConType] /\ con[c] \in ConType
      /\ report \in [Containers -> {"none", "die", "start"}]
  BY DEF IInv, Types
<1>2. /\ UNCHANGED <<down, backends, published, flag, queue, copies, job, history>>
      /\ report' \in [Containers -> {"none", "die", "start"}]
  BY <1>1 DEF Die, Delete, Restart, ReportUnknown, Seen
<1>3. \/ con' = con
      \/ \E d \in {"died", "removed", "running"} :
            con' = [con EXCEPT ![c].docker = d] /\ Started(c)
  BY DEF Die, Delete, Restart, ReportUnknown, Started
<1>4. CASE con' = con
  <2>1. Types'
    BY <1>1, <1>2, <1>4 DEF Types, history
  <2> QED
    BY <1>2, <1>4, <2>1, TameSame, RestKeeps
<1>5. ASSUME NEW d \in {"died", "removed", "running"},
             con' = [con EXCEPT ![c].docker = d], Started(c)
      PROVE  IInv'
  <2>1. /\ con' \in [Containers -> ConType] /\ \A x \in Containers \ {c} : con'[x] = con[x]
        /\ con'[c].docker = d /\ con'[c].of = con[c].of /\ con'[c].row = con[c].row
        /\ con'[c].alive = con[c].alive /\ con'[c].ip = con[c].ip
        /\ con'[c].removal = con[c].removal
    BY <1>1, <1>5 DEF ConType
  <2>2. Types'
    BY <1>1, <1>2, <2>1 DEF Types, history
  <2>3. Tame
    BY <1>2, <1>5, <2>1 DEF Tame, Started
  <2> QED
    BY <1>2, <2>2, <2>3, RestKeeps
<1> QED
  BY <1>3, <1>4, <1>5

-----------------------------------------------------------------------------
(* Requests about a host.                                                  *)

LEMMA HostJob ==
  ASSUME IInv, NEW w \in Workers, job[w].kind \in HostKinds
  PROVE  /\ job[w].con = NoContainer /\ job[w].next = NoContainer /\ Making(w) = NoContainer
         /\ job[w].host \in Hosts /\ job[w].host # NoHost
         /\ job[w].pc \in {"backends", "commit", "read", "write", "migrations"}
<1>1. JobShape(w) /\ job[w] \in JobType
  BY DEF IInv, Types
<1>2. job[w].kind \in {"hostkill", "hostcure"}
  BY DEF HostKinds
<1> QED
  BY <1>1, <1>2 DEF JobShape, ComeTo, JobType, HostKinds, Making, Places

LEMMA HostStatusKeeps ==
  ASSUME IInv, NEW w \in Workers, NEW h \in Hosts, NEW k \in HostKinds, HostStatus(w, h, k)
  PROVE  IInv'
<1> DEFINE here == {c \in Containers : con[c].row /\ HostOf[c] = h}
           S == {c \in here : con[c].alive = (k = "hostkill")}
           j == [Idle EXCEPT !.pc = "backends", !.kind = k, !.host = h, !.seen = S, !.rest = here]
<1>1. /\ Types /\ job \in [Workers -> JobType] /\ At(w, "idle")
      /\ \A v \in Workers : job[v].host # h
      /\ job' = [job EXCEPT ![w] = j]
      /\ mixed' = mixed \cup {c \in here : \E v \in Workers : job[v].con = c}
      /\ overlap' \in BOOLEAN /\ missed' \in BOOLEAN /\ UNCHANGED stores
  BY DEF IInv, Types, HostStatus
<1>2. here \in SUBSET Containers /\ S \in SUBSET here
  OBVIOUS
<1>3. /\ j.pc = "backends" /\ j.kind = k /\ j.host = h /\ j.seen = S /\ j.rest = here
      /\ j.con = NoContainer /\ j.next = NoContainer
  BY DEF Idle
<1>4. \A c \in here : Known(c) /\ HostOf[c] = h
  BY RowKnown
<1> HIDE DEF S, here
<1>5. j \in JobType
  BY <1>2, IdleType DEF JobType, Places, Kinds, HostKinds
<1> HIDE DEF j
<1>6. job' \in [Workers -> JobType] /\ Others(w) /\ job'[w] = j
  BY <1>1, <1>5 DEF Others
<1>7. mixed' \subseteq Containers
  BY <1>1, <1>2 DEF Types
<1>8. Types'
  BY <1>1, <1>6, <1>7 DEF Types, stores
<1>9. con' = con /\ backends' = backends
  BY <1>1 DEF stores
<1>10. Tame
  BY <1>9, TameSame
<1>11. \A c \in Containers : Known(c)' <=> Known(c)
  BY <1>1, <1>3, <1>6, <1>8, <1>10, TameContainers DEF At
<1>12. JobShape(w)'
  BY <1>3, <1>6, LifecycleAssumption DEF JobShape, ComeTo, HostKinds
<1>13. JobFacts(w)'
  <2>1. \A c \in S \cup here : Known(c)' /\ HostOf[c] = h
    BY <1>2, <1>4, <1>11
  <2> QED
    BY <1>3, <1>6, <2>1 DEF JobFacts, At, Open
<1>14. Making(w)' = NoContainer
  BY <1>3, <1>6 DEF Making
<1>15. Sole'
  BY <1>3, <1>6, <1>14, Unshared
<1>16. OneRequest'
  BY <1>1, <1>3, <1>6, OneRequestKept
<1> QED
  BY <1>1, <1>3, <1>6, <1>8, <1>10, <1>12, <1>13, <1>15, <1>16, TameKeeps DEF At

LEMMA HostBackendsKeeps ==
  ASSUME IInv, NEW w \in Workers, HostBackends(w)
  PROVE  IInv'
<1>1. /\ Types /\ JobShape(w) /\ JobFacts(w) /\ job[w].pc = "backends" /\ job[w] \in JobType
      /\ job \in [Workers -> JobType] /\ con' = con /\ Sole /\ OneRequest
      /\ backends \subseteq Containers /\ mixed \subseteq Containers
  BY DEF IInv, Types, HostBackends, At
<1>2. job[w].kind \in HostKinds
  BY <1>1 DEF JobShape, ComeTo
<1>3. \A c \in job[w].seen \cup job[w].rest : Known(c) /\ c \in Containers /\ HostOf[c] = job[w].host
  BY <1>1 DEF JobFacts, Open, JobType
<1>4. UNCHANGED <<down, con, published, flag, report, queue, copies, overlap, missed>>
  BY DEF HostBackends
<1>5. PICK c \in job[w].rest :
          IF c \in job[w].seen /\ ~con[c].row
          THEN End(w) /\ mixed' = mixed \cup (job[w].seen \ job[w].rest) /\ UNCHANGED backends
          ELSE /\ UNCHANGED mixed
               /\ job' = [job EXCEPT ![w].rest = @ \ {c},
                                     ![w].pc = IF job[w].rest = {c} THEN "commit" ELSE @]
               /\ backends' = IF ~con[c].ip THEN backends
                              ELSE IF job[w].kind = "hostkill" THEN backends \ {c}
                              ELSE backends \cup {c}
  BY DEF HostBackends
<1>6. CASE c \in job[w].seen /\ ~con[c].row
  <2>1. job' \in [Workers -> JobType] /\ Ended(w)
    BY <1>1, <1>5, <1>6, Finished
  <2>2. mixed' \subseteq Containers /\ backends' = backends
    BY <1>1, <1>5, <1>6 DEF JobType
  <2>3. Types'
    BY <1>1, <1>4, <2>1, <2>2 DEF Types
  <2>4. Tame
    BY <1>1, <2>2, TameSame
  <2> QED
    BY <1>1, <2>1, <2>3, <2>4, EndKeeps DEF At
<1>7. CASE ~(c \in job[w].seen /\ ~con[c].row)
  <2>1. PICK p : p = IF job[w].rest = {c} THEN "commit" ELSE "backends"
    OBVIOUS
  <2>2. PICK R : R = job[w].rest \ {c}
    OBVIOUS
  <2>3. p \in Places /\ p \in {"backends", "commit"} /\ R \subseteq job[w].rest /\ R \in SUBSET Containers
    BY <1>1, <2>1, <2>2 DEF Places, JobType
  <2>4. job' = [job EXCEPT ![w].rest = R, ![w].pc = p]
    BY <1>1, <1>5, <1>7, <2>1, <2>2
  <2>5. /\ job' \in [Workers -> JobType] /\ Moved(w, p)
        /\ job'[w].rest = R /\ job'[w].seen = job[w].seen
    BY <1>1, <2>3, <2>4 DEF Moved, Others, JobType
  <2>6. backends' \subseteq backends \cup {c} /\ mixed' = mixed /\ c \in Containers /\ Known(c)
    BY <1>3, <1>5, <1>7
  <2>7. Types'
    BY <1>1, <1>4, <2>5, <2>6 DEF Types
  <2>8. Tame
    BY <1>1, <2>6, TameSame
  <2>9. /\ Others(w) /\ job'[w].pc = p /\ job'[w].kind = job[w].kind /\ job'[w].con = NoContainer
        /\ job'[w].next = NoContainer /\ job'[w].host = job[w].host /\ job[w].host # NoHost
    BY <1>2, <2>5, HostJob DEF Moved
  <2>10. \A x \in Containers : Known(x)' <=> Known(x)
    BY <1>1, <2>3, <2>7, <2>8, <2>9, TameContainers DEF At
  <2>11. JobShape(w)'
    BY <1>2, <2>3, <2>9 DEF JobShape, ComeTo, HostKinds
  <2>12. JobFacts(w)'
    <3>1. \A x \in job[w].seen \cup R : Known(x)' /\ HostOf[x] = job[w].host
      BY <1>3, <2>3, <2>10
    <3> QED
      BY <2>3, <2>5, <2>9, <3>1 DEF JobFacts, At, Open
  <2>13. Making(w)' = NoContainer
    BY <2>3, <2>9 DEF Making
  <2>14. Sole'
    BY <2>9, <2>13, Unshared
  <2>15. OneRequest'
    BY <1>1, <2>9, OneRequestKept DEF OneRequest
  <2> QED
    BY <1>1, <2>3, <2>7, <2>8, <2>9, <2>11, <2>12, <2>14, <2>15, TameKeeps DEF At
<1> QED
  BY <1>6, <1>7

LEMMA HostCommitKeeps ==
  ASSUME IInv, NEW w \in Workers, HostCommit(w)
  PROVE  IInv'
<1>1. /\ Types /\ JobShape(w) /\ JobFacts(w) /\ job[w].pc \in {"backends", "commit"}
      /\ job[w] \in JobType /\ job \in [Workers -> JobType] /\ con \in [Containers -> ConType]
      /\ UNCHANGED <<backends, published, flag, report, queue, copies, history>>
  BY DEF IInv, Types, HostCommit
<1>2. job[w].kind \in HostKinds /\ job[w].host \in Hosts
  BY <1>1, HostJob DEF JobShape, ComeTo
<1>3. \A c \in job[w].seen : Known(c) /\ c \in Containers
  BY <1>1 DEF JobFacts, Open, JobType
<1>4. PICK a \in BOOLEAN : a = (job[w].kind # "hostkill")
  OBVIOUS
<1>5. con' = [c \in Containers |-> IF c \in job[w].seen THEN [con[c] EXCEPT !.alive = a] ELSE con[c]]
  BY <1>4 DEF HostCommit
<1>6. \A x \in Containers :
        /\ con'[x] \in ConType
        /\ con'[x].docker = con[x].docker /\ con'[x].of = con[x].of /\ con'[x].row = con[x].row
        /\ con'[x].ip = con[x].ip /\ con'[x].removal = con[x].removal
        /\ x \notin job[w].seen => con'[x] = con[x]
  <2> SUFFICES ASSUME NEW x \in Containers
               PROVE  /\ con'[x] \in ConType
                      /\ con'[x].docker = con[x].docker /\ con'[x].of = con[x].of
                      /\ con'[x].row = con[x].row
                      /\ con'[x].ip = con[x].ip /\ con'[x].removal = con[x].removal
                      /\ x \notin job[w].seen => con'[x] = con[x]
    OBVIOUS
  <2>1. con[x] \in ConType /\ con'[x] = IF x \in job[w].seen THEN [con[x] EXCEPT !.alive = a] ELSE con[x]
    BY <1>1, <1>5
  <2> QED
    BY <2>1 DEF ConType
<1>7. con' \in [Containers -> ConType]
  BY <1>5, <1>6
<1>8. Tame
  BY <1>1, <1>3, <1>6 DEF Tame, Started
<1>9. down' \subseteq Hosts
  BY <1>1, <1>2 DEF HostCommit, Types
<1>10. CASE End(w)
  <2>1. job' \in [Workers -> JobType] /\ Ended(w)
    BY <1>1, <1>10, Finished
  <2>2. Types'
    BY <1>1, <1>7, <1>9, <2>1 DEF Types, history
  <2> QED
    BY <1>1, <1>8, <2>1, <2>2, EndKeeps DEF At
<1>11. CASE ~End(w)
  <2> DEFINE R == {c \in Containers : job[w].kind = "hostkill" /\ con[c].row /\ HostOf[c] = job[w].host}
             S == Rows(con')
  <2>1. job' = [job EXCEPT ![w].pc = "read", ![w].seen = S, ![w].rest = R]
    BY <1>11 DEF HostCommit
  <2>2. R \in SUBSET Containers /\ S \in SUBSET Containers /\ "read" \in Places /\ "read" \in Walk
    BY DEF Rows, Places, Walk
  <2> HIDE DEF R, S
  <2>3. job' \in [Workers -> JobType] /\ Moved(w, "read")
    BY <1>1, <2>1, <2>2 DEF Moved, Others, JobType
  <2>4. Types'
    BY <1>1, <1>7, <1>9, <2>3 DEF Types, history
  <2>5. ComeTo("read", job[w].kind)
    BY <1>2 DEF ComeTo, HostKinds
  <2> QED
    BY <1>1, <1>8, <2>2, <2>3, <2>4, <2>5, MoveKeeps
<1> QED
  BY <1>10, <1>11

LEMMA HostMigrationsKeeps ==
  ASSUME IInv, NEW w \in Workers, HostMigrations(w)
  PROVE  IInv'
<1>1. /\ Types /\ JobShape(w) /\ job[w].pc = "migrations" /\ job[w] \in JobType
      /\ job \in [Workers -> JobType] /\ copies \in [Containers -> Nat]
      /\ UNCHANGED <<down, con, backends, published, flag, report, queue, history>>
  BY DEF IInv, Types, HostMigrations, At
<1>2. Tame
  BY <1>1, TameSame
<1>3. CASE End(w) /\ UNCHANGED copies
  <2>1. job' \in [Workers -> JobType] /\ Ended(w)
    BY <1>1, <1>3, Finished
  <2>2. Types'
    BY <1>1, <1>3, <2>1 DEF Types, history
  <2> QED
    BY <1>1, <1>2, <2>1, <2>2, EndKeeps DEF At
<1>4. ASSUME NEW c \in job[w].rest, copies' = [copies EXCEPT ![c] = @ + 1],
             job' = [job EXCEPT ![w].rest = @ \ {c}]
      PROVE  IInv'
  <2>1. c \in Containers
    BY <1>1 DEF JobType
  <2>2. copies' \in [Containers -> Nat]
    BY <1>1, <1>4, <2>1
  <2>3. job' \in [Workers -> JobType] /\ Moved(w, "migrations") /\ "migrations" \in Walk
    BY <1>1, <1>4 DEF Moved, Others, JobType, Walk, Places
  <2>4. Types'
    BY <1>1, <2>2, <2>3 DEF Types, history
  <2>5. ComeTo("migrations", job[w].kind)
    BY <1>1 DEF JobShape
  <2> QED
    BY <1>1, <1>2, <2>3, <2>4, <2>5, MoveKeeps
<1> QED
  BY <1>3, <1>4 DEF HostMigrations

-----------------------------------------------------------------------------
(* The invariant holds.                                                    *)

LEMMA InitOK == Init => IInv
<1> SUFFICES ASSUME Init PROVE IInv
  OBVIOUS
<1>1. New \in ConType
  BY DEF New, ConType
<1>2. /\ con = [c \in Containers |-> New] /\ job = [w \in Workers |-> Idle]
      /\ down = {} /\ backends = {} /\ published = {} /\ flag = {} /\ mixed = {}
      /\ report = [c \in Containers |-> "none"]
      /\ queue = [c \in Containers |-> 0] /\ copies = [c \in Containers |-> 0]
      /\ overlap = FALSE /\ missed = FALSE
  BY DEF Init
<1>3. Types
  BY <1>1, <1>2, IdleType DEF Types
<1>4. \A w \in Workers :
        /\ job[w].pc = "idle" /\ job[w].kind = "none" /\ job[w].con = NoContainer
        /\ job[w].next = NoContainer /\ job[w].host = NoHost
  BY <1>2 DEF Idle
<1>5. \A c \in Containers :
        /\ con[c].docker = "new" /\ ~con[c].row /\ ~con[c].alive /\ ~con[c].ip
        /\ ~con[c].removal /\ con[c].of = NoContainer /\ c \notin backends
  BY <1>2 DEF New
<1>6. \A w \in Workers : JobShape(w) /\ JobFacts(w)
  BY <1>4 DEF JobShape, ComeTo, HostKinds, JobFacts, At, Open
<1>7. \A c \in Containers : ConFacts(c)
  BY <1>5 DEF ConFacts, Blank
<1>8. Sole /\ OneRequest
  BY <1>4 DEF Sole, OneRequest, Making
<1>9. NoOrphan
  BY <1>5 DEF NoOrphan, Started
<1> QED
  BY <1>3, <1>6, <1>7, <1>8, <1>9 DEF IInv

LEMMA WorkKeeps ==
  ASSUME IInv, NEW w \in Workers, Work(w)
  PROVE  IInv'
BY RaisesKeeps, DownKeeps, UnlistKeeps, TestKeeps, UpKeeps, ListKeeps, ReadKeeps, WriteKeeps,
   ResetKeeps, EnqueueKeeps, LaunchKeeps, UnbindKeeps, RebindKeeps, HaltKeeps,
   DockerCreatesKeeps, DockerCreatesNotKeeps, DockerStartsKeeps, DockerStartsNotKeeps, RecordKeeps,
   NetworkKeeps, NetworkNotKeeps,
   HealthKeeps, PlanKeeps, MarkKeeps, SetFlagKeeps, DockerRemovesKeeps, DockerRemovesNotKeeps,
   ReleaseKeeps, ForgetKeeps, EraseKeeps, ClearFlagKeeps,
   HostBackendsKeeps, HostCommitKeeps, HostMigrationsKeeps, Zenon DEF Work

LEMMA StutterKeeps ==
  ASSUME IInv, UNCHANGED vars
  PROVE  IInv'
<1>1. UNCHANGED <<down, con, backends, published, flag, report, queue, copies, job, mixed, overlap,
                 missed>>
  BY DEF vars, stores, history
<1>2. Types'
  BY <1>1 DEF IInv, Types
<1> QED
  BY <1>1, <1>2, TameSame, RestKeeps

LEMMA NextKeeps ==
  ASSUME IInv, [Next]_vars
  PROVE  IInv'
<1>1. CASE Event
  <2>1. PICK c \in Containers :
          \/ Die(c) \/ Delete(c)
          \/ \E w \in Workers : Deploy(w, c) \/ Start(w, c) \/ Stop(w, c) \/ Remove(w, c)
             \/ HostStatus(w, HostOf[c], "hostkill") \/ HostStatus(w, HostOf[c], "hostcure")
    BY <1>1 DEF Event
  <2>2. HostOf[c] \in Hosts /\ "hostkill" \in HostKinds /\ "hostcure" \in HostKinds
    BY LifecycleAssumption DEF HostKinds
  <2> QED
    BY <2>1, <2>2, EventKeeps, DeployKeeps, RequestsKeep, HostStatusKeeps, Zenon
<1>2. CASE Consequence
  BY <1>2, WorkKeeps, RequestsKeep, MessageKeeps, EventKeeps, Zenon DEF Consequence
<1>3. CASE AllDone \/ UNCHANGED vars
  BY <1>3, StutterKeeps DEF AllDone
<1> QED
  BY <1>1, <1>2, <1>3 DEF Next

(* What a job knows at each of its steps, and who knows of a container,    *)
(* whatever fails and however the jobs interleave.                         *)
THEOREM Invariant == Spec => []IInv
<1>1. IInv /\ [Next]_vars => IInv'
  BY NextKeeps
<1> QED
  BY <1>1, InitOK, PTL DEF Spec

(* No container was started in Docker that is not recorded, or about to be *)
(* recorded by the task that started it: of all the steps of               *)
(* create_containers, remove_containers and migrate_container only         *)
(* Container.delete unmakes a record, when Docker has removed the          *)
(* container for good.                                                     *)
THEOREM NobodyForgotten == Spec => []NoOrphan
<1>1. IInv => NoOrphan
  BY DEF IInv
<1> QED
  BY <1>1, Invariant, PTL

-----------------------------------------------------------------------------
(* The messages under way.                                                 *)

\* A step of a job is a step of this job, or its end.
Stays(w) ==
    /\ Others(w)
    /\ \/ /\ job'[w].kind = job[w].kind /\ job'[w].con = job[w].con
          /\ job'[w].host = job[w].host
          /\ \A c \in job'[w].rest : c \in job[w].rest \/ HostOf[c] = job[w].host
       \/ job'[w].kind \in {"none", "create"} /\ job'[w].host = NoHost /\ job'[w].rest = {}

LEMMA GotoStays ==
  ASSUME job \in [Workers -> JobType], NEW w \in Workers, NEW p, Goto(w, p) \/ Begin(w, p)
  PROVE  Stays(w) /\ job'[w].pc = p /\ job'[w].next = job[w].next /\ job'[w].con = job[w].con
         /\ job'[w].kind = job[w].kind /\ job'[w].host = job[w].host
BY DEF Goto, Begin, Stays, Others, JobType

LEMMA OverStays ==
  ASSUME job \in [Workers -> JobType], NEW w \in Workers, RemovalOver(w) \/ End(w)
  PROVE  Stays(w) /\ job'[w].kind \in {"none", "create"} /\ job'[w].host = NoHost
<1>1. Ended(w) \/ Turned(w)
  BY Over, Finished
<1>2. CASE Ended(w)
  <2>1. job'[w].kind = "none" /\ job'[w].host = NoHost /\ job'[w].rest = {} /\ Others(w)
    BY <1>2 DEF Ended, Idle
  <2> QED
    BY <2>1 DEF Stays
<1>3. CASE Turned(w)
  <2>1. job'[w].kind = "create" /\ job'[w].host = NoHost /\ job'[w].rest = {} /\ Others(w)
    BY <1>3 DEF Turned, Idle
  <2> QED
    BY <2>1 DEF Stays
<1> QED
  BY <1>1, <1>2, <1>3

LEMMA WorkStays ==
  ASSUME IInv, NEW w \in Workers, Work(w)
  PROVE  Stays(w)
<1>1. job \in [Workers -> JobType]
  BY DEF IInv, Types
<1>2. CASE \E p : Goto(w, p) \/ Begin(w, p)
  BY <1>1, <1>2, GotoStays
<1>3. CASE RemovalOver(w) \/ End(w)
  BY <1>1, <1>3, OverStays
<1>4. CASE Down(w) \/ Up(w) \/ Network(w) \/ DockerCreatesNot(w) \/ DockerStartsNot(w)
  BY <1>2, <1>4 DEF Down, Up, Network, DockerCreatesNot, DockerStartsNot
<1>5. CASE Unlist(w) \/ List(w) \/ Reset(w) \/ DockerCreates(w) \/ DockerStarts(w) \/ Record(w)
           \/ Mark(w) \/ SetFlag(w) \/ DockerRemoves(w) \/ Release(w) \/ Forget(w)
  BY <1>2, <1>5 DEF Unlist, List, Reset, DockerCreates, DockerStarts, Record, Mark, SetFlag,
                    DockerRemoves, Release, Forget
<1>6. CASE Raises(w) \/ Enqueue(w) \/ Halt(w) \/ DockerRemovesNot(w) \/ ClearFlag(w)
  BY <1>3, <1>6 DEF Raises, Enqueue, Halt, DockerRemovesNot, ClearFlag
<1>7. CASE Test(w) \/ Launch(w) \/ Health(w) \/ NetworkNot(w)
  BY <1>2, <1>3, <1>7 DEF Test, Launch, Health, NetworkNot
<1>8. CASE Unbind(w) \/ Rebind(w) \/ Erase(w)
  BY <1>2, <1>3, <1>8 DEF Unbind, Rebind, AfterRebind, Erase
<1>9. CASE Read(w) \/ Write(w)
  BY <1>1, <1>3, <1>9 DEF Read, Write, Stays, Others, JobType
<1>10. CASE Plan(w)
  <2>1. CASE End(w)
    BY <1>3, <2>1
  <2>2. ASSUME NEW n \in Containers,
               job' = [job EXCEPT ![w] =
                    IF @.kind = "copy" THEN [Idle EXCEPT !.pc = "docker", !.kind = "create", !.con = n]
                    ELSE [@ EXCEPT !.pc = "mark", !.next = n, !.seen = Rows(con)]]
        PROVE  Stays(w)
    BY <1>1, <2>2 DEF Stays, Others, JobType, Idle
  <2> QED
    BY <1>10, <2>1, <2>2 DEF Plan
<1>11. CASE HostBackends(w) \/ HostCommit(w) \/ HostMigrations(w)
  <2>1. CASE End(w)
    BY <1>3, <2>1
  <2>2. CASE HostBackends(w) /\ ~End(w)
    <3>1. PICK c \in job[w].rest :
             job' = [job EXCEPT ![w].rest = @ \ {c},
                                ![w].pc = IF job[w].rest = {c} THEN "commit" ELSE @]
      BY <2>2 DEF HostBackends
    <3> QED
      BY <1>1, <3>1 DEF Stays, Others, JobType
  <2>3. CASE HostCommit(w) /\ ~End(w)
    <3> DEFINE R == {c \in Containers : job[w].kind = "hostkill" /\ con[c].row
                                          /\ HostOf[c] = job[w].host}
               S == Rows(con')
    <3>1. job' = [job EXCEPT ![w].pc = "read", ![w].seen = S, ![w].rest = R]
      BY <2>3 DEF HostCommit
    <3>2. \A c \in R : HostOf[c] = job[w].host
      OBVIOUS
    <3> HIDE DEF R, S
    <3> QED
      BY <1>1, <3>1, <3>2 DEF Stays, Others, JobType
  <2>4. CASE HostMigrations(w) /\ ~End(w)
    <3>1. PICK c \in job[w].rest : job' = [job EXCEPT ![w].rest = @ \ {c}]
      BY <2>4 DEF HostMigrations
    <3> QED
      BY <1>1, <3>1 DEF Stays, Others, JobType
  <2> QED
    BY <1>11, <2>1, <2>2, <2>3, <2>4
<1> QED
  BY <1>4, <1>5, <1>6, <1>7, <1>8, <1>9, <1>10, <1>11 DEF Work

\* Jobs that lead to a message to migrate c.
Task(w, c) == job[w].con = c /\ job[w].kind \in {"kill", "stop"}
Tasks(c) == {w \in Workers : Task(w, c)}

\* A request of the host of c that is still to ask for a copy of it.
Takes(w, c) ==
    /\ job[w].kind = "hostkill" /\ job[w].host = HostOf[c]
    /\ At(w, "migrations") => c \in job[w].rest
Taking(c) == \E w \in Workers : Takes(w, c)

One(b) == IF b THEN 1 ELSE 0

\* Every message goes back to an event, and no event leads to two of them.
Counted ==
    /\ events \in 0 .. MaxEvents
    /\ \A w \in Workers : \A c \in job[w].rest : HostOf[c] = job[w].host
    /\ \A c \in Containers :
        /\ IsFiniteSet(Tasks(c))
        /\ queue[c] + Cardinality(Tasks(c)) + One(report[c] = "die") <= events
        /\ copies[c] + One(Taking(c)) <= events

LEMMA TasksStep ==
  ASSUME NEW w \in Workers, NEW c \in Containers, Others(w), IsFiniteSet(Tasks(c))
  PROVE  /\ IsFiniteSet(Tasks(c)') /\ Cardinality(Tasks(c)) \in Nat
         /\ Cardinality(Tasks(c)') \in Nat
         /\ Cardinality(Tasks(c)') + One(Task(w, c)) = Cardinality(Tasks(c)) + One(Task(w, c)')
<1> DEFINE T == Tasks(c)
           U == Tasks(c)'
           R == T \ {w}
<1>1. /\ w \in T <=> Task(w, c)
      /\ w \in U <=> Task(w, c)'
      /\ \A v \in Workers \ {w} : v \in U <=> v \in T
      /\ T \subseteq Workers /\ U \subseteq Workers
  BY DEF Tasks, Task, Others
<1> HIDE DEF T, U
<1>2. IsFiniteSet(T)
  BY DEF T
<1>3. IsFiniteSet(R) /\ w \notin R
  BY <1>2, FS_RemoveElement
<1>4. T = IF w \in T THEN R \cup {w} ELSE R
  OBVIOUS
<1>5. U = IF w \in U THEN R \cup {w} ELSE R
  BY <1>1
<1> HIDE DEF R
<1>6. /\ IsFiniteSet(R \cup {w}) /\ Cardinality(R \cup {w}) = Cardinality(R) + 1
      /\ Cardinality(R) \in Nat
  BY <1>3, FS_AddElement, FS_CardinalityType
<1>7. Cardinality(T) = Cardinality(R) + One(w \in T)
  BY <1>4, <1>6 DEF One
<1>8. IsFiniteSet(U) /\ Cardinality(U) = Cardinality(R) + One(w \in U)
  <2>1. CASE w \in U
    <3>1. U = R \cup {w}
      BY <1>5, <2>1
    <3> QED
      BY <1>6, <2>1, <3>1 DEF One
  <2>2. CASE w \notin U
    <3>1. U = R
      BY <1>5, <2>2
    <3> QED
      BY <1>3, <1>6, <2>2, <3>1 DEF One
  <2> QED
    BY <2>1, <2>2
<1>9. One(w \in T) \in {0, 1} /\ One(w \in U) \in {0, 1}
  BY DEF One
<1>10. One(w \in T) = One(Task(w, c)) /\ One(w \in U) = One(Task(w, c)')
  BY <1>1 DEF One
<1>11. /\ IsFiniteSet(U) /\ Cardinality(T) \in Nat /\ Cardinality(U) \in Nat
       /\ Cardinality(U) + One(Task(w, c)) = Cardinality(T) + One(Task(w, c)')
  BY <1>6, <1>7, <1>8, <1>9, <1>10
<1> QED
  BY <1>11 DEF T, U

LEMMA TakingStep ==
  ASSUME IInv, IInv', NEW w \in Workers, NEW c \in Containers, Others(w)
  PROVE  One(Taking(c)') + One(Takes(w, c)) = One(Taking(c)) + One(Takes(w, c)')
<1>1. OneRequest /\ OneRequest' /\ HostOf[c] # NoHost
  BY LifecycleAssumption DEF IInv
<1>2. \A v \in Workers \ {w} : Takes(v, c)' <=> Takes(v, c)
  BY DEF Others, Takes, At
<1>3. ASSUME NEW v \in Workers \ {w}, Takes(v, c)
      PROVE  ~Takes(w, c) /\ ~Takes(w, c)'
  BY <1>1, <1>2, <1>3 DEF OneRequest, Takes
<1>4. CASE \E v \in Workers \ {w} : Takes(v, c)
  <2>1. Taking(c) /\ Taking(c)' /\ ~Takes(w, c) /\ ~Takes(w, c)'
    BY <1>2, <1>3, <1>4 DEF Taking
  <2> QED
    BY <2>1 DEF One
<1>5. CASE ~ \E v \in Workers \ {w} : Takes(v, c)
  <2>1. (Taking(c) <=> Takes(w, c)) /\ (Taking(c)' <=> Takes(w, c)')
    BY <1>2, <1>5 DEF Taking
  <2> QED
    BY <2>1 DEF One
<1> QED
  BY <1>4, <1>5

LEMMA CountStep ==
  ASSUME IInv, IInv', Counted, NEW w \in Workers, Others(w),
         events' \in 0 .. MaxEvents,
         \A c \in job'[w].rest : HostOf[c] = job'[w].host,
         \A c \in Containers :
            /\ queue'[c] + One(report'[c] = "die") + One(Task(w, c)') + events
                  <= queue[c] + One(report[c] = "die") + One(Task(w, c)) + events'
            /\ copies'[c] + One(Takes(w, c)') + events
                  <= copies[c] + One(Takes(w, c)) + events'
  PROVE  Counted'
<1>1. events \in Nat /\ events' \in Nat /\ Types /\ Types'
  BY LifecycleAssumption DEF Counted, IInv
<1>0. \A v \in Workers : \A c \in job'[v].rest : HostOf[c] = job'[v].host
  BY DEF Counted, Others
<1> SUFFICES ASSUME NEW c \in Containers
             PROVE  /\ IsFiniteSet(Tasks(c)')
                    /\ queue'[c] + Cardinality(Tasks(c)') + One(report'[c] = "die") <= events'
                    /\ copies'[c] + One(Taking(c)') <= events'
  BY <1>0 DEF Counted
<1>2. /\ IsFiniteSet(Tasks(c)') /\ Cardinality(Tasks(c)) \in Nat
      /\ Cardinality(Tasks(c)') \in Nat
      /\ Cardinality(Tasks(c)') + One(Task(w, c)) = Cardinality(Tasks(c)) + One(Task(w, c)')
  BY TasksStep DEF Counted
<1>3. One(Taking(c)') + One(Takes(w, c)) = One(Taking(c)) + One(Takes(w, c)')
  BY TakingStep
<1>4. /\ queue[c] \in Nat /\ queue'[c] \in Nat /\ copies[c] \in Nat /\ copies'[c] \in Nat
  BY <1>1 DEF Types
<1>5. \A b : One(b) \in Nat
  BY DEF One
<1>6. /\ queue[c] + Cardinality(Tasks(c)) + One(report[c] = "die") <= events
      /\ copies[c] + One(Taking(c)) <= events
  BY DEF Counted
<1>7. /\ queue'[c] + One(report'[c] = "die") + One(Task(w, c)') + events
            <= queue[c] + One(report[c] = "die") + One(Task(w, c)) + events'
      /\ copies'[c] + One(Takes(w, c)') + events
            <= copies[c] + One(Takes(w, c)) + events'
  OBVIOUS
<1>8. queue'[c] + Cardinality(Tasks(c)') + One(report'[c] = "die") <= events'
  <2>1. PICK o1 \in Nat, o2 \in Nat, o3 \in Nat, o4 \in Nat :
          /\ o1 = One(report'[c] = "die") /\ o2 = One(Task(w, c)')
          /\ o3 = One(report[c] = "die") /\ o4 = One(Task(w, c))
    BY <1>5
  <2>2. PICK t1 \in Nat, t2 \in Nat, q1 \in Nat, q2 \in Nat, e1 \in Nat, e2 \in Nat :
          /\ t1 = Cardinality(Tasks(c)) /\ t2 = Cardinality(Tasks(c)')
          /\ q1 = queue[c] /\ q2 = queue'[c] /\ e1 = events /\ e2 = events'
    BY <1>1, <1>2, <1>4
  <2>3. /\ t2 + o4 = t1 + o2 /\ q1 + t1 + o3 <= e1
        /\ q2 + o1 + o2 + e1 <= q1 + o3 + o4 + e2
    BY <1>2, <1>6, <1>7, <2>1, <2>2, Zenon
  <2>4. q2 + t2 + o1 <= e2
    BY ONLY <2>3
  <2> QED
    BY <2>1, <2>2, <2>4, Zenon
<1>9. copies'[c] + One(Taking(c)') <= events'
  <2>1. PICK o5 \in Nat, o6 \in Nat, o7 \in Nat, o8 \in Nat :
          /\ o5 = One(Takes(w, c)') /\ o6 = One(Takes(w, c))
          /\ o7 = One(Taking(c)) /\ o8 = One(Taking(c)')
    BY <1>5
  <2>2. PICK p1 \in Nat, p2 \in Nat, e1 \in Nat, e2 \in Nat :
          p1 = copies[c] /\ p2 = copies'[c] /\ e1 = events /\ e2 = events'
    BY <1>1, <1>4
  <2>3. /\ o8 + o6 = o7 + o5 /\ p1 + o7 <= e1
        /\ p2 + o5 + e1 <= p1 + o6 + e2
    BY <1>3, <1>6, <1>7, <2>1, <2>2, Zenon
  <2>4. p2 + o8 <= e2
    BY ONLY <2>3
  <2> QED
    BY <2>1, <2>2, <2>4, Zenon
<1> QED
  BY <1>2, <1>8, <1>9

LEMMA OneIs == One(TRUE) = 1 /\ One(FALSE) = 0 /\ \A b : One(b) \in {0, 1}
BY DEF One

\* A step that makes no message, no report of a death and no job that would.
LEMMA QuietStep ==
  ASSUME IInv, IInv', Counted, NEW w \in Workers, Others(w),
         events' \in 0 .. MaxEvents, events <= events',
         queue' = queue, copies' = copies,
         \A c \in Containers : report'[c] = "die" => report[c] = "die",
         \A c \in Containers : Task(w, c)' => Task(w, c),
         \A c \in Containers : Takes(w, c)' => Takes(w, c),
         \A c \in job'[w].rest : HostOf[c] = job'[w].host
  PROVE  Counted'
<1>1. queue \in [Containers -> Nat] /\ copies \in [Containers -> Nat]
  BY DEF IInv, Types
<1>2. events \in Nat /\ events' \in Nat
  BY LifecycleAssumption DEF Counted
<1>3. ASSUME NEW c \in Containers
      PROVE  /\ queue'[c] + One(report'[c] = "die") + One(Task(w, c)') + events
                   <= queue[c] + One(report[c] = "die") + One(Task(w, c)) + events'
             /\ copies'[c] + One(Takes(w, c)') + events
                   <= copies[c] + One(Takes(w, c)) + events'
  <2>1. /\ One(report'[c] = "die") <= One(report[c] = "die")
        /\ One(Task(w, c)') <= One(Task(w, c))
        /\ One(Takes(w, c)') <= One(Takes(w, c))
    BY DEF One
  <2>2. /\ One(report'[c] = "die") \in Nat /\ One(report[c] = "die") \in Nat
        /\ One(Task(w, c)') \in Nat /\ One(Task(w, c)) \in Nat
        /\ One(Takes(w, c)') \in Nat /\ One(Takes(w, c)) \in Nat
    BY DEF One
  <2>3. queue[c] \in Nat /\ copies[c] \in Nat
    BY <1>1
  <2> QED
    BY <1>2, <2>1, <2>2, <2>3
<1> QED
  BY <1>2, <1>3, CountStep

\* A step of no job.
LEMMA StillStep ==
  ASSUME IInv, IInv', Counted, job' = job, events' \in 0 .. MaxEvents,
         \A c \in Containers :
            /\ queue'[c] + One(report'[c] = "die") + events
                  <= queue[c] + One(report[c] = "die") + events'
            /\ copies'[c] + events <= copies[c] + events'
  PROVE  Counted'
<1>1. events \in Nat /\ events' \in Nat /\ Types /\ Types'
  BY LifecycleAssumption DEF Counted, IInv
<1> SUFFICES ASSUME NEW c \in Containers
             PROVE  /\ IsFiniteSet(Tasks(c)')
                    /\ queue'[c] + Cardinality(Tasks(c)') + One(report'[c] = "die") <= events'
                    /\ copies'[c] + One(Taking(c)') <= events'
  BY DEF Counted
<1>2. Tasks(c)' = Tasks(c) /\ IsFiniteSet(Tasks(c)) /\ Cardinality(Tasks(c)) \in Nat
  BY FS_CardinalityType DEF Tasks, Task, Counted
<1>3. Taking(c)' <=> Taking(c)
  BY DEF Taking, Takes, At
<1>4. One(Taking(c)') = One(Taking(c)) /\ One(Taking(c)) \in Nat
  BY <1>3 DEF One
<1>5. /\ queue[c] \in Nat /\ queue'[c] \in Nat /\ copies[c] \in Nat /\ copies'[c] \in Nat
      /\ One(report'[c] = "die") \in Nat /\ One(report[c] = "die") \in Nat
  BY <1>1 DEF Types, One
<1>6. /\ queue[c] + Cardinality(Tasks(c)) + One(report[c] = "die") <= events
      /\ copies[c] + One(Taking(c)) <= events
      /\ queue'[c] + One(report'[c] = "die") + events <= queue[c] + One(report[c] = "die") + events'
      /\ copies'[c] + events <= copies[c] + events'
  BY DEF Counted
<1>7. /\ queue'[c] + Cardinality(Tasks(c)) + One(report'[c] = "die") <= events'
      /\ copies'[c] + One(Taking(c)) <= events'
  BY <1>1, <1>2, <1>4, <1>5, <1>6
<1> QED
  BY <1>2, <1>4, <1>7

LEMMA StaysTasks ==
  ASSUME IInv, Counted, NEW w \in Workers, Stays(w)
  PROVE  /\ Others(w) /\ \A c \in Containers : Task(w, c)' => Task(w, c)
         /\ ~At(w, "migrations") => \A c \in Containers : Takes(w, c)' => Takes(w, c)
         /\ \A c \in job'[w].rest : HostOf[c] = job'[w].host
<1>1. \A c \in job'[w].rest : HostOf[c] = job'[w].host
  BY DEF Stays, Counted
<1> QED
  BY <1>1 DEF Stays, Task, Takes, At

LEMMA EnqueueCounts ==
  ASSUME IInv, IInv', Counted, NEW w \in Workers, Enqueue(w), events' = events
  PROVE  Counted'
<1>0. PICK d : d = job[w].con
  OBVIOUS
<1>1. /\ Types /\ job[w].pc = "enqueue" /\ JobShape(w) /\ End(w) /\ job \in [Workers -> JobType]
      /\ queue' = [queue EXCEPT ![d] = @ + 1] /\ queue \in [Containers -> Nat]
      /\ copies' = copies /\ copies \in [Containers -> Nat] /\ report' = report
  BY <1>0 DEF IInv, Types, Enqueue, At
<1>2. /\ job[w].kind = "kill" /\ Task(w, d) /\ job'[w].kind = "none" /\ Others(w)
      /\ job'[w].rest = {}
  BY <1>0, <1>1, Finished DEF JobShape, ComeTo, Task, Ended, Idle
<1>3. events' \in 0 .. MaxEvents /\ events \in Nat
  BY LifecycleAssumption DEF Counted
<1>4. ASSUME NEW c \in Containers
      PROVE  /\ queue'[c] + One(report'[c] = "die") + One(Task(w, c)') + events
                   <= queue[c] + One(report[c] = "die") + One(Task(w, c)) + events'
             /\ copies'[c] + One(Takes(w, c)') + events
                   <= copies[c] + One(Takes(w, c)) + events'
  <2>1. One(Task(w, c)') = 0 /\ One(Takes(w, c)') = 0
    BY <1>2 DEF Task, Takes, One
  <2>2. /\ One(report[c] = "die") \in Nat /\ One(report'[c] = "die") = One(report[c] = "die")
        /\ One(Task(w, c)) \in Nat /\ One(Takes(w, c)) \in Nat
    BY <1>1 DEF One
  <2>3. queue[c] \in Nat /\ copies[c] \in Nat /\ queue'[c] <= queue[c] + One(Task(w, c))
        /\ queue'[c] \in Nat
    BY <1>1, <1>2 DEF One
  <2> QED
    BY <1>1, <1>3, <2>1, <2>2, <2>3
<1> QED
  BY <1>2, <1>3, <1>4, CountStep

LEMMA HaltCounts ==
  ASSUME IInv, IInv', Counted, NEW w \in Workers, Halt(w), events' = events
  PROVE  Counted'
<1>0. PICK d : d = job[w].con
  OBVIOUS
<1>1. /\ Types /\ job[w].pc = "halt" /\ JobShape(w) /\ End(w) /\ job \in [Workers -> JobType]
      /\ queue' = queue /\ queue \in [Containers -> Nat]
      /\ copies' = copies /\ copies \in [Containers -> Nat]
      /\ report \in [Containers -> {"none", "die", "start"}]
      /\ report' = report \/ report' = [report EXCEPT ![d] = "die"]
  BY <1>0 DEF IInv, Types, Halt, At, Seen
<1>2. /\ job[w].kind = "stop" /\ Task(w, d) /\ job'[w].kind = "none" /\ Others(w)
      /\ job'[w].rest = {}
  BY <1>0, <1>1, Finished DEF JobShape, ComeTo, Task, Ended, Idle
<1>3. events' \in 0 .. MaxEvents /\ events \in Nat
  BY LifecycleAssumption DEF Counted
<1>4. ASSUME NEW c \in Containers
      PROVE  /\ queue'[c] + One(report'[c] = "die") + One(Task(w, c)') + events
                   <= queue[c] + One(report[c] = "die") + One(Task(w, c)) + events'
             /\ copies'[c] + One(Takes(w, c)') + events
                   <= copies[c] + One(Takes(w, c)) + events'
  <2>1. One(Task(w, c)') = 0 /\ One(Takes(w, c)') = 0
    BY <1>2 DEF Task, Takes, One
  <2>2. /\ One(report[c] = "die") \in Nat /\ One(report'[c] = "die") \in Nat
        /\ One(report'[c] = "die") <= One(report[c] = "die") + One(Task(w, c))
        /\ One(Task(w, c)) \in Nat /\ One(Takes(w, c)) \in Nat
    BY <1>1, <1>2 DEF One
  <2>3. queue[c] \in Nat /\ copies[c] \in Nat
    BY <1>1
  <2> QED
    BY <1>1, <1>3, <2>1, <2>2, <2>3
<1> QED
  BY <1>2, <1>3, <1>4, CountStep

LEMMA HostMigrationsCounts ==
  ASSUME IInv, IInv', Counted, NEW w \in Workers, HostMigrations(w), events' = events
  PROVE  Counted'
<1>1. /\ Types /\ job[w].pc = "migrations" /\ JobShape(w) /\ JobFacts(w)
      /\ job \in [Workers -> JobType] /\ job[w] \in JobType
      /\ queue' = queue /\ queue \in [Containers -> Nat] /\ copies \in [Containers -> Nat]
      /\ report' = report
  BY DEF IInv, Types, HostMigrations, At
<1>2. Stays(w)
  BY WorkStays DEF Work
<1>3. /\ Others(w) /\ \A c \in Containers : Task(w, c)' => Task(w, c)
      /\ \A c \in job'[w].rest : HostOf[c] = job'[w].host
  BY <1>2, StaysTasks
<1>4. events' \in 0 .. MaxEvents /\ events \in Nat
  BY LifecycleAssumption DEF Counted
<1>5. CASE End(w) /\ UNCHANGED copies
  <2>1. job'[w].kind = "none"
    BY <1>1, <1>5, Finished DEF Ended, Idle
  <2>2. \A c \in Containers : ~Takes(w, c)'
    BY <2>1 DEF Takes
  <2> QED
    BY <1>1, <1>3, <1>4, <1>5, <2>2, QuietStep
<1>6. ASSUME NEW d \in job[w].rest, copies' = [copies EXCEPT ![d] = @ + 1],
             job' = [job EXCEPT ![w].rest = @ \ {d}]
      PROVE  Counted'
  <2>1. /\ job'[w].rest = job[w].rest \ {d} /\ job'[w].kind = job[w].kind
        /\ job'[w].host = job[w].host /\ job'[w].pc = "migrations" /\ d \in Containers
    BY <1>1, <1>6 DEF JobType
  <2>2. job[w].kind = "hostkill" /\ HostOf[d] = job[w].host
    BY <1>1 DEF JobShape, ComeTo, Counted
  <2>3. ASSUME NEW c \in Containers
        PROVE  /\ queue'[c] + One(report'[c] = "die") + One(Task(w, c)') + events
                     <= queue[c] + One(report[c] = "die") + One(Task(w, c)) + events'
               /\ copies'[c] + One(Takes(w, c)') + events
                     <= copies[c] + One(Takes(w, c)) + events'
    <3>1. /\ One(Task(w, c)') <= One(Task(w, c)) /\ One(report'[c] = "die") = One(report[c] = "die")
          /\ One(Task(w, c)') \in Nat /\ One(Task(w, c)) \in Nat /\ One(report[c] = "die") \in Nat
      BY <1>1, <1>3 DEF One
    <3>2. queue[c] \in Nat /\ copies[c] \in Nat
      BY <1>1
    <3>3. copies'[c] + One(Takes(w, c)') <= copies[c] + One(Takes(w, c))
      <4>1. CASE c = d
        <5>1. Takes(w, c) /\ ~Takes(w, c)'
          BY <1>1, <2>1, <2>2, <4>1 DEF Takes, At
        <5> QED
          BY <1>1, <1>6, <3>2, <4>1, <5>1 DEF One
      <4>2. CASE c # d
        <5>1. Takes(w, c)' <=> Takes(w, c)
          BY <1>1, <2>1, <4>2 DEF Takes, At
        <5>2. copies'[c] = copies[c]
          BY <1>1, <1>6, <4>2
        <5> QED
          BY <3>2, <5>1, <5>2 DEF One
      <4> QED
        BY <4>1, <4>2
    <3>4. /\ One(Takes(w, c)') \in Nat /\ One(Takes(w, c)) \in Nat /\ copies'[c] \in Nat
      BY DEF One, IInv, Types
    <3> QED
      BY <1>1, <1>4, <3>1, <3>2, <3>3, <3>4
  <2> QED
    BY <1>3, <1>4, <2>3, CountStep
<1> QED
  BY <1>1, <1>5, <1>6 DEF HostMigrations

LEMMA WorkCounts ==
  ASSUME IInv, IInv', Counted, NEW w \in Workers, Work(w), events' = events
  PROVE  Counted'
<1>1. /\ Stays(w) /\ events' \in 0 .. MaxEvents /\ events \in Nat /\ events <= events'
      /\ report \in [Containers -> {"none", "die", "start"}]
      /\ job[w] \in JobType
  BY WorkStays, LifecycleAssumption DEF Counted, IInv, Types
<1>2. CASE Enqueue(w) \/ Halt(w) \/ HostMigrations(w)
  BY <1>2, EnqueueCounts, HaltCounts, HostMigrationsCounts
<1>3. CASE ~(Enqueue(w) \/ Halt(w) \/ HostMigrations(w))
  <2>1. /\ queue' = queue /\ copies' = copies /\ ~At(w, "migrations")
        /\ report' = report \/ \E c : report' = [report EXCEPT ![c] = "start"]
    <3>1. CASE Raises(w) \/ Down(w) \/ Unlist(w) \/ Test(w) \/ Up(w) \/ List(w) \/ Read(w) \/ Write(w)
      BY <3>1 DEF Raises, Down, Unlist, Test, Up, List, Read, Write, At
    <3>2. CASE Reset(w) \/ Unbind(w) \/ Rebind(w) \/ Plan(w) \/ Mark(w) \/ SetFlag(w)
      BY <3>2 DEF Reset, Unbind, Rebind, Plan, Mark, SetFlag, At
    <3>3. CASE Launch(w)
      BY <3>3 DEF Launch, Seen, At
    <3>4. CASE DockerCreates(w) \/ DockerCreatesNot(w) \/ DockerStarts(w) \/ DockerStartsNot(w)
               \/ Record(w) \/ Network(w) \/ NetworkNot(w) \/ Health(w)
      BY <3>4 DEF DockerCreates, DockerCreatesNot, DockerStarts, DockerStartsNot, Record, Network,
                  NetworkNot, Health, At
    <3>5. CASE DockerRemoves(w) \/ DockerRemovesNot(w) \/ Release(w) \/ Forget(w) \/ Erase(w)
               \/ ClearFlag(w)
      BY <3>5 DEF DockerRemoves, DockerRemovesNot, Release, Forget, Erase, ClearFlag, At
    <3>6. CASE HostBackends(w) \/ HostCommit(w)
      BY <3>6 DEF HostBackends, HostCommit, At
    <3> QED
      BY <1>3, <3>1, <3>2, <3>3, <3>4, <3>5, <3>6 DEF Work
  <2>2. \A c \in Containers : report'[c] = "die" => report[c] = "die"
    BY <1>1, <2>1
  <2> QED
    BY <1>1, <2>1, <2>2, StaysTasks, QuietStep
<1> QED
  BY <1>2, <1>3

\* A job that is taken: what it adds is paid for by the event, or by the
\* report or the message it was taken from.
LEMMA TakeCounts ==
  ASSUME IInv, IInv', Counted, NEW w \in Workers, NEW k \in Kinds, NEW c \in Containers,
         NEW p \in Places, Take(w, k, c, p), k \notin HostKinds,
         events' \in 0 .. MaxEvents, events <= events',
         \A x \in Containers : report'[x] = "die" => report[x] = "die",
         \A x \in Containers : queue'[x] <= queue[x] /\ copies'[x] <= copies[x],
         k \in {"kill", "stop"} =>
            events < events' \/ (report[c] = "die" /\ report'[c] # "die")
  PROVE  Counted'
<1>1. Types /\ Types' /\ events \in Nat /\ events' \in Nat
  BY LifecycleAssumption DEF IInv, Counted
<1>2. /\ Others(w) /\ At(w, "idle") /\ job'[w].kind = k /\ job'[w].con = c /\ job'[w].rest = {}
  BY <1>1, Taken
<1>3. job[w].kind = "none"
  BY <1>2, Idles
<1>4. ASSUME NEW x \in Containers
      PROVE  /\ queue'[x] + One(report'[x] = "die") + One(Task(w, x)') + events
                   <= queue[x] + One(report[x] = "die") + One(Task(w, x)) + events'
             /\ copies'[x] + One(Takes(w, x)') + events
                   <= copies[x] + One(Takes(w, x)) + events'
  <2>1. ~Task(w, x) /\ ~Takes(w, x) /\ ~Takes(w, x)'
    BY <1>2, <1>3 DEF Task, Takes, HostKinds
  <2>2. One(Task(w, x)) = 0 /\ One(Takes(w, x)) = 0 /\ One(Takes(w, x)') = 0
    BY <2>1 DEF One
  <2>3. /\ queue[x] \in Nat /\ queue'[x] \in Nat /\ copies[x] \in Nat /\ copies'[x] \in Nat
        /\ One(report'[x] = "die") \in Nat /\ One(report[x] = "die") \in Nat
        /\ One(Task(w, x)') \in Nat
        /\ One(report'[x] = "die") <= One(report[x] = "die") /\ One(Task(w, x)') <= 1
    BY <1>1 DEF Types, One
  <2>4. CASE Task(w, x)'
    <3>1. x = c /\ k \in {"kill", "stop"}
      BY <1>2, <2>4 DEF Task
    <3>2. events + 1 <= events' \/ One(report'[x] = "die") + 1 <= One(report[x] = "die")
      BY <1>1, <3>1 DEF One
    <3> QED
      BY <1>1, <2>2, <2>3, <3>2
  <2>5. CASE ~Task(w, x)'
    <3>1. One(Task(w, x)') = 0
      BY <2>5 DEF One
    <3> QED
      BY <1>1, <2>2, <2>3, <3>1
  <2> QED
    BY <2>4, <2>5
<1> QED
  BY <1>2, <1>4, CountStep

LEMMA HostStatusCounts ==
  ASSUME IInv, IInv', Counted, NEW w \in Workers, NEW h \in Hosts, NEW k \in HostKinds,
         HostStatus(w, h, k), events' \in 0 .. MaxEvents, events < events'
  PROVE  Counted'
<1> DEFINE here == {c \in Containers : con[c].row /\ HostOf[c] = h}
           S == {c \in here : con[c].alive = (k = "hostkill")}
           j == [Idle EXCEPT !.pc = "backends", !.kind = k, !.host = h, !.seen = S, !.rest = here]
<1>1. /\ Types /\ Types' /\ job \in [Workers -> JobType] /\ At(w, "idle")
      /\ job' = [job EXCEPT ![w] = j] /\ UNCHANGED stores
      /\ events \in Nat /\ events' \in Nat
  BY LifecycleAssumption DEF IInv, Types, HostStatus, Counted
<1>2. j.kind = k /\ j.host = h /\ j.rest = here
  BY DEF Idle
<1>3. \A c \in here : HostOf[c] = h
  OBVIOUS
<1> HIDE DEF here, S
<1>4. job'[w] = j /\ Others(w)
  BY <1>1 DEF Others
<1> HIDE DEF j
<1>5. job[w].kind = "none"
  BY <1>1, Idles
<1>6. ASSUME NEW x \in Containers
      PROVE  /\ queue'[x] + One(report'[x] = "die") + One(Task(w, x)') + events
                   <= queue[x] + One(report[x] = "die") + One(Task(w, x)) + events'
             /\ copies'[x] + One(Takes(w, x)') + events
                   <= copies[x] + One(Takes(w, x)) + events'
  <2>1. ~Task(w, x) /\ ~Task(w, x)' /\ ~Takes(w, x)
    BY <1>2, <1>4, <1>5 DEF Task, Takes, HostKinds
  <2>2. One(Task(w, x)) = 0 /\ One(Task(w, x)') = 0 /\ One(Takes(w, x)) = 0
    BY <2>1 DEF One
  <2>3. /\ queue[x] \in Nat /\ queue'[x] = queue[x] /\ copies[x] \in Nat /\ copies'[x] = copies[x]
        /\ One(report'[x] = "die") = One(report[x] = "die") /\ One(report[x] = "die") \in Nat
        /\ One(Takes(w, x)') \in Nat /\ One(Takes(w, x)') <= 1
    BY <1>1 DEF Types, One, stores
  <2> QED
    BY <1>1, <2>2, <2>3
<1> QED
  BY <1>2, <1>3, <1>4, <1>6, CountStep

LEMMA EventCounts ==
  ASSUME IInv, IInv', Counted, NEW c \in Containers,
         \/ (Die(c) \/ Delete(c)) /\ events' = events + 1 /\ events' \in 0 .. MaxEvents
         \/ (Restart(c) \/ ReportUnknown(c)) /\ events' = events
  PROVE  Counted'
<1>1. /\ Types /\ Types' /\ events \in Nat /\ events' \in Nat /\ events' \in 0 .. MaxEvents
      /\ events <= events' /\ (events' = events \/ events' = events + 1)
  BY LifecycleAssumption DEF IInv, Counted
<1>2. job' = job /\ queue' = queue /\ copies' = copies
  BY DEF Die, Delete, Restart, ReportUnknown
<1>3. report \in [Containers -> {"none", "die", "start"}]
  BY <1>1 DEF Types
<1>4. \A x \in Containers : report'[x] = "die" => report[x] = "die" \/ events' = events + 1
  BY <1>3 DEF Die, Delete, Restart, ReportUnknown, Seen
<1>5. ASSUME NEW x \in Containers
      PROVE  /\ queue'[x] + One(report'[x] = "die") + events
                   <= queue[x] + One(report[x] = "die") + events'
             /\ copies'[x] + events <= copies[x] + events'
  <2>1. queue[x] \in Nat /\ copies[x] \in Nat
    BY <1>1 DEF Types
  <2>2. /\ One(report'[x] = "die") \in Nat /\ One(report[x] = "die") \in Nat
        /\ \/ One(report'[x] = "die") <= One(report[x] = "die")
           \/ events' = events + 1 /\ One(report'[x] = "die") <= 1
    BY <1>4 DEF One
  <2> QED
    BY <1>1, <1>2, <2>1, <2>2
<1> QED
  BY <1>1, <1>2, <1>5, StillStep

LEMMA MessageCounts ==
  ASSUME IInv, IInv', Counted, NEW w \in Workers, NEW c \in Containers,
         Migrate(w, c) \/ Copy(w, c), events' = events
  PROVE  Counted'
<1>1. /\ Types /\ Types' /\ events \in Nat /\ events' \in 0 .. MaxEvents
      /\ queue \in [Containers -> Nat] /\ copies \in [Containers -> Nat]
  BY LifecycleAssumption DEF IInv, Counted, Types
<1>2. report' = report
  BY DEF Migrate, Copy
<1>3. \A x \in Containers : queue'[x] <= queue[x] /\ copies'[x] <= copies[x]
  <2> SUFFICES ASSUME NEW x \in Containers PROVE queue'[x] <= queue[x] /\ copies'[x] <= copies[x]
    OBVIOUS
  <2>1. /\ queue' = queue \/ queue' = [queue EXCEPT ![c] = @ - 1]
        /\ copies' = copies \/ copies' = [copies EXCEPT ![c] = @ - 1]
    BY DEF Migrate, Copy
  <2>2. queue[x] \in Nat /\ copies[x] \in Nat
    BY <1>1
  <2> QED
    BY <1>1, <2>1, <2>2
<1>4. CASE con[c].row
  <2>1. PICK k \in {"migrate", "copy"} : Take(w, k, c, "plan")
    BY <1>4 DEF Migrate, Copy
  <2>2. k \in Kinds /\ k \notin HostKinds /\ k \notin {"kill", "stop"} /\ "plan" \in Places
    BY <2>1 DEF Kinds, HostKinds, Places
  <2> QED
    BY <1>1, <1>2, <1>3, <2>1, <2>2, TakeCounts
<1>5. CASE ~con[c].row
  <2>1. job' = job
    BY <1>5 DEF Migrate, Copy
  <2>2. ASSUME NEW x \in Containers
        PROVE  /\ queue'[x] + One(report'[x] = "die") + events
                     <= queue[x] + One(report[x] = "die") + events'
               /\ copies'[x] + events <= copies[x] + events'
    <3>1. /\ queue[x] \in Nat /\ copies[x] \in Nat /\ queue'[x] \in Nat /\ copies'[x] \in Nat
          /\ One(report[x] = "die") \in Nat /\ One(report'[x] = "die") = One(report[x] = "die")
      BY <1>1, <1>2 DEF Types, One
    <3> QED
      BY <1>1, <1>3, <3>1
  <2> QED
    BY <1>1, <2>1, <2>2, StillStep
<1> QED
  BY <1>4, <1>5

LEMMA RequestCounts ==
  ASSUME IInv, IInv', Counted, NEW w \in Workers, NEW c \in Containers,
         \/ /\ Deploy(w, c) \/ Start(w, c) \/ Stop(w, c) \/ Remove(w, c)
            /\ events' = events + 1 /\ events' \in 0 .. MaxEvents
         \/ Report(w, c) /\ events' = events
  PROVE  Counted'
<1>1. /\ Types /\ Types' /\ events \in Nat /\ events' \in Nat /\ events' \in 0 .. MaxEvents
      /\ events <= events' /\ queue \in [Containers -> Nat] /\ copies \in [Containers -> Nat]
      /\ report \in [Containers -> {"none", "die", "start"}]
  BY LifecycleAssumption DEF IInv, Counted, Types
<1>2. queue' = queue /\ copies' = copies
  BY DEF Deploy, Start, Stop, Remove, Report
<1>3. \A x \in Containers : queue'[x] <= queue[x] /\ copies'[x] <= copies[x]
  BY <1>1, <1>2
<1>4. \A x \in Containers : report'[x] = "die" => report[x] = "die"
  BY <1>1 DEF Deploy, Start, Stop, Remove, Report
<1>5. PICK k \in {"create", "start", "stop", "remove", "kill", "cure"} :
        \E p \in {"docker", "test", "down", "mark"} : Take(w, k, c, p)
             /\ (k \in {"kill", "stop"} =>
                   events < events' \/ (report[c] = "die" /\ report'[c] # "die"))
  BY <1>1 DEF Deploy, Start, Stop, Remove, Report
<1>6. PICK p \in {"docker", "test", "down", "mark"} : Take(w, k, c, p)
             /\ (k \in {"kill", "stop"} =>
                   events < events' \/ (report[c] = "die" /\ report'[c] # "die"))
  BY <1>5
<1>7. k \in Kinds /\ p \in Places /\ k \notin HostKinds
  BY DEF Kinds, HostKinds, Places
<1> QED
  BY <1>1, <1>3, <1>4, <1>6, <1>7, TakeCounts

LEMMA InitCounts == Init => Counted
<1> SUFFICES ASSUME Init PROVE Counted
  OBVIOUS
<1>1. \A w \in Workers : job[w].con = NoContainer /\ job[w].kind = "none" /\ job[w].rest = {}
  BY DEF Init, Idle
<1>2. \A c \in Containers : Tasks(c) = {} /\ ~Taking(c)
  BY <1>1 DEF Tasks, Task, Taking, Takes
<1>3. IsFiniteSet({}) /\ Cardinality({}) = 0
  BY FS_EmptySet
<1>4. \A c \in Containers : queue[c] = 0 /\ copies[c] = 0 /\ report[c] # "die"
  BY DEF Init
<1>5. events = 0 /\ 0 \in 0 .. MaxEvents
  BY LifecycleAssumption DEF Init
<1>6. \A c \in Containers : One(report[c] = "die") = 0 /\ One(Taking(c)) = 0
  BY <1>2, <1>4 DEF One
<1>7. ASSUME NEW c \in Containers
      PROVE  /\ IsFiniteSet(Tasks(c))
             /\ queue[c] + Cardinality(Tasks(c)) + One(report[c] = "die") <= events
             /\ copies[c] + One(Taking(c)) <= events
  <2>1. IsFiniteSet(Tasks(c)) /\ Cardinality(Tasks(c)) = 0
    BY <1>2, <1>3
  <2> QED
    BY <1>4, <1>5, <1>6, <2>1
<1> QED
  BY <1>1, <1>5, <1>7 DEF Counted

LEMMA NextCounts ==
  ASSUME IInv, IInv', Counted, [Next]_vars
  PROVE  Counted'
<1>1. CASE Event
  <2>1. PICK c \in Containers :
          \/ Die(c) \/ Delete(c)
          \/ \E w \in Workers : Deploy(w, c) \/ Start(w, c) \/ Stop(w, c) \/ Remove(w, c)
             \/ HostStatus(w, HostOf[c], "hostkill") \/ HostStatus(w, HostOf[c], "hostcure")
    BY <1>1 DEF Event
  <2>2. HostOf[c] \in Hosts /\ "hostkill" \in HostKinds /\ "hostcure" \in HostKinds
    BY LifecycleAssumption DEF HostKinds
  <2>3. events' = events + 1 /\ events' \in 0 .. MaxEvents /\ events < events'
    BY <1>1, LifecycleAssumption DEF Event, Counted
  <2>4. CASE Die(c) \/ Delete(c)
    BY <2>3, <2>4, EventCounts
  <2>5. ASSUME NEW w \in Workers, Deploy(w, c) \/ Start(w, c) \/ Stop(w, c) \/ Remove(w, c)
        PROVE  Counted'
    BY <2>3, <2>5, RequestCounts
  <2>6. ASSUME NEW w \in Workers,
               HostStatus(w, HostOf[c], "hostkill") \/ HostStatus(w, HostOf[c], "hostcure")
        PROVE  Counted'
    BY <2>2, <2>3, <2>6, HostStatusCounts
  <2> QED
    BY <2>1, <2>4, <2>5, <2>6
<1>2. CASE Consequence
  <2>1. events' = events
    BY <1>2 DEF Consequence
  <2>2. ASSUME NEW w \in Workers, Work(w) PROVE Counted'
    BY <2>1, <2>2, WorkCounts
  <2>3. ASSUME NEW w \in Workers, NEW c \in Containers, Report(w, c) PROVE Counted'
    BY <2>1, <2>3, RequestCounts
  <2>4. ASSUME NEW w \in Workers, NEW c \in Containers, Migrate(w, c) \/ Copy(w, c)
        PROVE  Counted'
    BY <2>1, <2>4, MessageCounts
  <2>5. ASSUME NEW c \in Containers, Restart(c) \/ ReportUnknown(c) PROVE Counted'
    BY <2>1, <2>5, EventCounts
  <2> QED
    BY <1>2, <2>2, <2>3, <2>4, <2>5 DEF Consequence
<1>3. CASE UNCHANGED vars
  <2>1. UNCHANGED <<queue, copies, report, job, events>>
    BY <1>3 DEF vars, stores
  <2> QED
    BY <2>1 DEF Counted, Tasks, Task, Taking, Takes, At
<1> QED
  BY <1>1, <1>2, <1>3 DEF Next, AllDone

(* No message, report or job is made but by a request or the end of a      *)
(* process.                                                                *)
THEOREM Accounted == Spec => [](IInv /\ Counted)
<1>1. Init => IInv /\ Counted
  BY InitOK, InitCounts
<1>2. IInv /\ Counted /\ [Next]_vars => (IInv /\ Counted)'
  BY NextKeeps, NextCounts
<1> QED
  BY <1>1, <1>2, PTL DEF Spec

(* The types of the variables, with their bounds: a container has at most  *)
(* one migration under way for every event, although kill_container sends  *)
(* one each time and Host.kill one for each of its containers.             *)
THEOREM TypeCorrect == Spec => []TypeOK
<1>1. IInv /\ Counted => TypeOK
  <2> SUFFICES ASSUME IInv, Counted PROVE TypeOK
    OBVIOUS
  <2>1. Types /\ events \in 0 .. MaxEvents /\ events \in Nat /\ MaxEvents \in Nat
    BY LifecycleAssumption DEF IInv, Counted
  <2>2. ASSUME NEW c \in Containers PROVE queue[c] \in 0 .. MaxEvents /\ copies[c] \in 0 .. MaxEvents
    <3>1. queue[c] \in Nat /\ copies[c] \in Nat
      BY <2>1 DEF Types
    <3>2. /\ Cardinality(Tasks(c)) \in Nat /\ One(report[c] = "die") \in Nat
          /\ One(Taking(c)) \in Nat
      BY FS_CardinalityType DEF Counted, One
    <3>3. /\ queue[c] + Cardinality(Tasks(c)) + One(report[c] = "die") <= events
          /\ copies[c] + One(Taking(c)) <= events
      BY DEF Counted
    <3> QED
      BY <2>1, <3>1, <3>2, <3>3
  <2>3. queue \in [Containers -> 0 .. MaxEvents] /\ copies \in [Containers -> 0 .. MaxEvents]
    BY <2>1, <2>2 DEF Types
  <2>4. \A w \in Workers :
          job[w].con = NoContainer <=> job[w].kind \in {"none", "hostkill", "hostcure"}
    BY DEF IInv, JobShape
  <2> QED
    BY <2>1, <2>3, <2>4 DEF Types, TypeOK, ConType, JobType
<1> QED
  BY <1>1, Accounted, PTL

-----------------------------------------------------------------------------
(* What the steps of a job do to its container.                            *)

Replaces(n, c) == con[n].of = c /\ ~con[n].copy

\* A step of a job on its own container.
Own(w) ==
    /\ Others(w)
    /\ con' \in [Containers -> ConType]
    /\ \A x \in Containers \ {job[w].con} : con'[x] = con[x] /\ (x \in backends' <=> x \in backends)
    /\ \A n, x \in Containers : Replaces(n, x)' => Replaces(n, x)
    /\ mixed' = mixed /\ overlap' = overlap

\* What is known of a container after the step.
Now(c, row, alive, removal, ip) ==
    /\ con'[c].row = row /\ con'[c].alive = alive
    /\ con'[c].removal = removal /\ con'[c].ip = ip
Same(c) == Now(c, con[c].row, con[c].alive, con[c].removal, con[c].ip)

LEMMA OwnCon ==
  ASSUME IInv, NEW w \in Workers, NEW c \in Containers, c = job[w].con, Others(w),
         NEW d \in ConType, con' = [con EXCEPT ![c] = d],
         (d.of = con[c].of /\ d.copy = con[c].copy) \/ d.of = NoContainer,
         backends' = backends, mixed' = mixed, overlap' = overlap
  PROVE  Own(w) /\ con'[c] = d
<1>1. con \in [Containers -> ConType]
  BY DEF IInv, Types
<1>2. /\ con' \in [Containers -> ConType] /\ con'[c] = d
      /\ \A x \in Containers \ {c} : con'[x] = con[x]
  BY <1>1
<1>3. ASSUME NEW n \in Containers, NEW x \in Containers, Replaces(n, x)' PROVE Replaces(n, x)
  BY <1>2, <1>3, LifecycleAssumption DEF Replaces
<1> QED
  BY <1>2, <1>3 DEF Own

LEMMA OwnStill ==
  ASSUME IInv, NEW w \in Workers, Others(w), con' = con,
         \A x \in Containers \ {job[w].con} : x \in backends' <=> x \in backends,
         mixed' = mixed, overlap' = overlap
  PROVE  Own(w) /\ Same(job[w].con)
<1>1. con \in [Containers -> ConType]
  BY DEF IInv, Types
<1> QED
  BY <1>1 DEF Own, Now, Same, Replaces

\* The container of a job, at every step but those at which there may be none.
LEMMA Mine ==
  ASSUME IInv, NEW w \in Workers,
         job[w].pc \notin {"idle", "read", "write", "backends", "commit", "migrations"}
  PROVE  /\ job[w].con \in Containers /\ con[job[w].con] \in ConType
         /\ job \in [Workers -> JobType] /\ con \in [Containers -> ConType] /\ JobShape(w)
<1>1. job \in [Workers -> JobType] /\ con \in [Containers -> ConType] /\ JobShape(w)
  BY DEF IInv, Types
<1>2. CASE job[w].pc \in {"docker", "boot", "row"}
  BY <1>1, <1>2, AtMaking
<1>3. CASE job[w].pc \notin {"docker", "boot", "row"}
  BY <1>1, <1>3, OwnKnown
<1> QED
  BY <1>1, <1>2, <1>3

LEMMA DownDoes ==
  ASSUME IInv, NEW w \in Workers, NEW c, c = job[w].con, Down(w)
  PROVE  /\ job[w].pc = "down" /\ con[c].row /\ c \in Containers /\ Own(w)
         /\ Now(c, con[c].row, FALSE, con[c].removal, con[c].ip)
         /\ backends' = backends /\ Moved(w, "unlist") /\ job'[w].seen = Rows(con')
<1>1. job[w].pc = "down" /\ Begin(w, "unlist") /\ UNCHANGED <<backends, mixed, overlap>>
      /\ con[c].row
  BY DEF Down, At, history
<1>2. /\ c \in Containers /\ con[c] \in ConType
      /\ job \in [Workers -> JobType] /\ con \in [Containers -> ConType]
  BY <1>1, Mine
<1>3. PICK d : d = [con[c] EXCEPT !.alive = FALSE]
  OBVIOUS
<1>4. con' = [con EXCEPT ![c] = d]
  BY <1>2, <1>3 DEF Down
<1>5. /\ d \in ConType /\ d.of = con[c].of /\ d.copy = con[c].copy
      /\ d.row = con[c].row /\ d.alive = FALSE
      /\ d.removal = con[c].removal /\ d.ip = con[c].ip
  BY <1>2, <1>3 DEF ConType
<1>6. "unlist" \in Places
  BY DEF Places
<1>7. Moved(w, "unlist") /\ job'[w].seen = Rows(con') /\ Others(w)
  BY <1>1, <1>2, <1>6, Begun DEF Moved
<1>8. Own(w) /\ con'[c] = d
  BY <1>1, <1>2, <1>4, <1>5, <1>7, OwnCon
<1> QED
  BY <1>1, <1>2, <1>5, <1>7, <1>8 DEF Now

LEMMA UpDoes ==
  ASSUME IInv, NEW w \in Workers, NEW c, c = job[w].con, Up(w)
  PROVE  /\ job[w].pc = "up" /\ con[c].row /\ c \in Containers /\ Own(w)
         /\ Now(c, con[c].row, TRUE, con[c].removal, con[c].ip)
         /\ backends' = backends /\ Moved(w, "list") /\ job'[w].seen = Rows(con')
<1>1. job[w].pc = "up" /\ Begin(w, "list") /\ UNCHANGED <<backends, mixed, overlap>>
      /\ con[c].row
  BY DEF Up, At, history
<1>2. /\ c \in Containers /\ con[c] \in ConType
      /\ job \in [Workers -> JobType] /\ con \in [Containers -> ConType]
  BY <1>1, Mine
<1>3. PICK d : d = [con[c] EXCEPT !.alive = TRUE]
  OBVIOUS
<1>4. con' = [con EXCEPT ![c] = d]
  BY <1>2, <1>3 DEF Up
<1>5. /\ d \in ConType /\ d.of = con[c].of /\ d.copy = con[c].copy
      /\ d.row = con[c].row /\ d.alive = TRUE
      /\ d.removal = con[c].removal /\ d.ip = con[c].ip
  BY <1>2, <1>3 DEF ConType
<1>6. "list" \in Places
  BY DEF Places
<1>7. Moved(w, "list") /\ job'[w].seen = Rows(con') /\ Others(w)
  BY <1>1, <1>2, <1>6, Begun DEF Moved
<1>8. Own(w) /\ con'[c] = d
  BY <1>1, <1>2, <1>4, <1>5, <1>7, OwnCon
<1> QED
  BY <1>1, <1>2, <1>5, <1>7, <1>8 DEF Now

LEMMA MarkDoes ==
  ASSUME IInv, NEW w \in Workers, NEW c, c = job[w].con, Mark(w)
  PROVE  /\ job[w].pc = "mark" /\ con[c].row /\ c \in Containers /\ Own(w)
         /\ Now(c, con[c].row, con[c].alive, TRUE, con[c].ip)
         /\ backends' = backends /\ Moved(w, "flag") /\ job'[w].seen = job[w].seen
<1>1. job[w].pc = "mark" /\ Goto(w, "flag") /\ UNCHANGED <<backends, mixed, overlap>>
      /\ con[c].row
  BY DEF Mark, At, history
<1>2. /\ c \in Containers /\ con[c] \in ConType
      /\ job \in [Workers -> JobType] /\ con \in [Containers -> ConType]
  BY <1>1, Mine
<1>3. PICK d : d = [con[c] EXCEPT !.removal = TRUE]
  OBVIOUS
<1>4. con' = [con EXCEPT ![c] = d]
  BY <1>2, <1>3 DEF Mark
<1>5. /\ d \in ConType /\ d.of = con[c].of /\ d.copy = con[c].copy
      /\ d.row = con[c].row /\ d.alive = con[c].alive
      /\ d.removal = TRUE /\ d.ip = con[c].ip
  BY <1>2, <1>3 DEF ConType
<1>6. "flag" \in Places
  BY DEF Places
<1>7. Moved(w, "flag") /\ job'[w].seen = job[w].seen /\ Others(w)
  BY <1>1, <1>2, <1>6, GoneTo DEF Moved
<1>8. Own(w) /\ con'[c] = d
  BY <1>1, <1>2, <1>4, <1>5, <1>7, OwnCon
<1> QED
  BY <1>1, <1>2, <1>5, <1>7, <1>8 DEF Now

LEMMA ReleaseDoes ==
  ASSUME IInv, NEW w \in Workers, NEW c, c = job[w].con, Release(w)
  PROVE  /\ job[w].pc = "release" /\ c \in Containers /\ Own(w)
         /\ Now(c, con[c].row, con[c].alive, con[c].removal, FALSE)
         /\ backends' = backends /\ Moved(w, "forget") /\ job'[w].seen = job[w].seen
<1>1. job[w].pc = "release" /\ Goto(w, "forget") /\ UNCHANGED <<backends, mixed, overlap>>
  BY DEF Release, At, history
<1>2. /\ c \in Containers /\ con[c] \in ConType
      /\ job \in [Workers -> JobType] /\ con \in [Containers -> ConType]
  BY <1>1, Mine
<1>3. PICK d : d = [con[c] EXCEPT !.ip = FALSE]
  OBVIOUS
<1>4. con' = [con EXCEPT ![c] = d]
  BY <1>2, <1>3 DEF Release
<1>5. /\ d \in ConType /\ d.of = con[c].of /\ d.copy = con[c].copy
      /\ d.row = con[c].row /\ d.alive = con[c].alive
      /\ d.removal = con[c].removal /\ d.ip = FALSE
  BY <1>2, <1>3 DEF ConType
<1>6. "forget" \in Places
  BY DEF Places
<1>7. Moved(w, "forget") /\ job'[w].seen = job[w].seen /\ Others(w)
  BY <1>1, <1>2, <1>6, GoneTo DEF Moved
<1>8. Own(w) /\ con'[c] = d
  BY <1>1, <1>2, <1>4, <1>5, <1>7, OwnCon
<1> QED
  BY <1>1, <1>2, <1>5, <1>7, <1>8 DEF Now

LEMMA ForgetDoes ==
  ASSUME IInv, NEW w \in Workers, NEW c, c = job[w].con, Forget(w)
  PROVE  /\ job[w].pc = "forget" /\ c \in Containers /\ Own(w)
         /\ Now(c, con[c].row, con[c].alive, FALSE, con[c].ip)
         /\ backends' = backends /\ Moved(w, "erase") /\ job'[w].seen = job[w].seen
<1>1. job[w].pc = "forget" /\ Goto(w, "erase") /\ UNCHANGED <<backends, mixed, overlap>>
  BY DEF Forget, At, history
<1>2. /\ c \in Containers /\ con[c] \in ConType
      /\ job \in [Workers -> JobType] /\ con \in [Containers -> ConType]
  BY <1>1, Mine
<1>3. PICK d : d = [con[c] EXCEPT !.removal = FALSE]
  OBVIOUS
<1>4. con' = [con EXCEPT ![c] = d]
  BY <1>2, <1>3 DEF Forget
<1>5. /\ d \in ConType /\ d.of = con[c].of /\ d.copy = con[c].copy
      /\ d.row = con[c].row /\ d.alive = con[c].alive
      /\ d.removal = FALSE /\ d.ip = con[c].ip
  BY <1>2, <1>3 DEF ConType
<1>6. "erase" \in Places
  BY DEF Places
<1>7. Moved(w, "erase") /\ job'[w].seen = job[w].seen /\ Others(w)
  BY <1>1, <1>2, <1>6, GoneTo DEF Moved
<1>8. Own(w) /\ con'[c] = d
  BY <1>1, <1>2, <1>4, <1>5, <1>7, OwnCon
<1> QED
  BY <1>1, <1>2, <1>5, <1>7, <1>8 DEF Now

LEMMA NetworkDoes ==
  ASSUME IInv, NEW w \in Workers, NEW c, c = job[w].con, Network(w)
  PROVE  /\ job[w].pc = "network" /\ con[c].row /\ c \in Containers /\ Own(w)
         /\ Now(c, con[c].row, con[c].alive, con[c].removal, con[c].asked)
         /\ backends' = backends /\ Moved(w, "list") /\ job'[w].seen = Rows(con')
<1>1. job[w].pc = "network" /\ Begin(w, "list") /\ UNCHANGED <<backends, mixed, overlap>>
      /\ con[c].row
  BY DEF Network, At, history
<1>2. /\ c \in Containers /\ con[c] \in ConType
      /\ job \in [Workers -> JobType] /\ con \in [Containers -> ConType]
  BY <1>1, Mine
<1>3. PICK d : d = [con[c] EXCEPT !.ip = con[c].asked]
  OBVIOUS
<1>4. con' = [con EXCEPT ![c] = d]
  BY <1>2, <1>3 DEF Network
<1>5. /\ d \in ConType /\ d.of = con[c].of /\ d.copy = con[c].copy
      /\ d.row = con[c].row /\ d.alive = con[c].alive
      /\ d.removal = con[c].removal /\ d.ip = con[c].asked
  BY <1>2, <1>3 DEF ConType
<1>6. "list" \in Places
  BY DEF Places
<1>7. Moved(w, "list") /\ job'[w].seen = Rows(con') /\ Others(w)
  BY <1>1, <1>2, <1>6, Begun DEF Moved
<1>8. Own(w) /\ con'[c] = d
  BY <1>1, <1>2, <1>4, <1>5, <1>7, OwnCon
<1> QED
  BY <1>1, <1>2, <1>5, <1>7, <1>8 DEF Now

LEMMA DockerRemovesDoes ==
  ASSUME IInv, NEW w \in Workers, NEW c, c = job[w].con, DockerRemoves(w)
  PROVE  /\ job[w].pc = "stop" /\ c \in Containers /\ Own(w)
         /\ Now(c, con[c].row, con[c].alive, con[c].removal, con[c].ip)
         /\ backends' = backends /\ Moved(w, "release") /\ job'[w].seen = job[w].seen
<1>1. job[w].pc = "stop" /\ Goto(w, "release") /\ UNCHANGED <<backends, mixed, overlap>>
  BY DEF DockerRemoves, At, history
<1>2. /\ c \in Containers /\ con[c] \in ConType
      /\ job \in [Workers -> JobType] /\ con \in [Containers -> ConType]
  BY <1>1, Mine
<1>3. PICK d : d = [con[c] EXCEPT !.docker = "removed"]
  OBVIOUS
<1>4. con' = [con EXCEPT ![c] = d]
  BY <1>2, <1>3 DEF DockerRemoves
<1>5. /\ d \in ConType /\ d.of = con[c].of /\ d.copy = con[c].copy
      /\ d.row = con[c].row /\ d.alive = con[c].alive
      /\ d.removal = con[c].removal /\ d.ip = con[c].ip
  BY <1>2, <1>3 DEF ConType
<1>6. "release" \in Places
  BY DEF Places
<1>7. Moved(w, "release") /\ job'[w].seen = job[w].seen /\ Others(w)
  BY <1>1, <1>2, <1>6, GoneTo DEF Moved
<1>8. Own(w) /\ con'[c] = d
  BY <1>1, <1>2, <1>4, <1>5, <1>7, OwnCon
<1> QED
  BY <1>1, <1>2, <1>5, <1>7, <1>8 DEF Now

LEMMA DockerCreatesDoes ==
  ASSUME IInv, NEW w \in Workers, NEW c, c = job[w].con, DockerCreates(w)
  PROVE  /\ job[w].pc = "docker" /\ c \in Containers /\ Own(w)
         /\ Now(c, con[c].row, con[c].alive, con[c].removal, con[c].ip)
         /\ backends' = backends /\ Moved(w, "boot") /\ job'[w].seen = job[w].seen
<1>1. job[w].pc = "docker" /\ Goto(w, "boot") /\ UNCHANGED <<backends, mixed, overlap>>
  BY DEF DockerCreates, At, history
<1>2. /\ c \in Containers /\ con[c] \in ConType
      /\ job \in [Workers -> JobType] /\ con \in [Containers -> ConType]
  BY <1>1, Mine
<1>3. PICK d : d = [con[c] EXCEPT !.docker = "created"]
  OBVIOUS
<1>4. con' = [con EXCEPT ![c] = d]
  BY <1>2, <1>3 DEF DockerCreates
<1>5. /\ d \in ConType /\ d.of = con[c].of /\ d.copy = con[c].copy
      /\ d.row = con[c].row /\ d.alive = con[c].alive
      /\ d.removal = con[c].removal /\ d.ip = con[c].ip
  BY <1>2, <1>3 DEF ConType
<1>6. "boot" \in Places
  BY DEF Places
<1>7. Moved(w, "boot") /\ job'[w].seen = job[w].seen /\ Others(w)
  BY <1>1, <1>2, <1>6, GoneTo DEF Moved
<1>8. Own(w) /\ con'[c] = d
  BY <1>1, <1>2, <1>4, <1>5, <1>7, OwnCon
<1> QED
  BY <1>1, <1>2, <1>5, <1>7, <1>8 DEF Now

LEMMA DockerStartsDoes ==
  ASSUME IInv, NEW w \in Workers, NEW c, c = job[w].con, DockerStarts(w)
  PROVE  /\ job[w].pc = "boot" /\ c \in Containers /\ Own(w)
         /\ Now(c, con[c].row, con[c].alive, con[c].removal, con[c].ip)
         /\ backends' = backends /\ Moved(w, "row") /\ job'[w].seen = job[w].seen
<1>1. job[w].pc = "boot" /\ Goto(w, "row") /\ UNCHANGED <<backends, mixed, overlap>>
  BY DEF DockerStarts, At, history
<1>2. /\ c \in Containers /\ con[c] \in ConType
      /\ job \in [Workers -> JobType] /\ con \in [Containers -> ConType]
  BY <1>1, Mine
<1>3. PICK d : d = [con[c] EXCEPT !.docker = "running"]
  OBVIOUS
<1>4. con' = [con EXCEPT ![c] = d]
  BY <1>2, <1>3 DEF DockerStarts
<1>5. /\ d \in ConType /\ d.of = con[c].of /\ d.copy = con[c].copy
      /\ d.row = con[c].row /\ d.alive = con[c].alive
      /\ d.removal = con[c].removal /\ d.ip = con[c].ip
  BY <1>2, <1>3 DEF ConType
<1>6. "row" \in Places
  BY DEF Places
<1>7. Moved(w, "row") /\ job'[w].seen = job[w].seen /\ Others(w)
  BY <1>1, <1>2, <1>6, GoneTo DEF Moved
<1>8. Own(w) /\ con'[c] = d
  BY <1>1, <1>2, <1>4, <1>5, <1>7, OwnCon
<1> QED
  BY <1>1, <1>2, <1>5, <1>7, <1>8 DEF Now

LEMMA RecordDoes ==
  ASSUME IInv, NEW w \in Workers, NEW c, c = job[w].con, Record(w)
  PROVE  /\ job[w].pc = "row" /\ c \in Containers /\ Own(w)
         /\ Now(c, TRUE, TRUE, con[c].removal, con[c].ip)
         /\ backends' = backends /\ Moved(w, "network") /\ job'[w].seen = job[w].seen
<1>1. job[w].pc = "row" /\ Goto(w, "network") /\ UNCHANGED <<backends, mixed, overlap>>
  BY DEF Record, At, history
<1>2. /\ c \in Containers /\ con[c] \in ConType
      /\ job \in [Workers -> JobType] /\ con \in [Containers -> ConType]
  BY <1>1, Mine
<1>3. PICK d : d = [con[c] EXCEPT !.row = TRUE, !.alive = TRUE]
  OBVIOUS
<1>4. con' = [con EXCEPT ![c] = d]
  BY <1>2, <1>3 DEF Record
<1>5. /\ d \in ConType /\ d.of = con[c].of /\ d.copy = con[c].copy
      /\ d.row = TRUE /\ d.alive = TRUE
      /\ d.removal = con[c].removal /\ d.ip = con[c].ip
  BY <1>2, <1>3 DEF ConType
<1>6. "network" \in Places
  BY DEF Places
<1>7. Moved(w, "network") /\ job'[w].seen = job[w].seen /\ Others(w)
  BY <1>1, <1>2, <1>6, GoneTo DEF Moved
<1>8. Own(w) /\ con'[c] = d
  BY <1>1, <1>2, <1>4, <1>5, <1>7, OwnCon
<1> QED
  BY <1>1, <1>2, <1>5, <1>7, <1>8 DEF Now

\* The job ends, but for a migration, which creates the new container.
Leaves(w) == IF job[w].kind = "migrate" THEN Turned(w) ELSE Ended(w)

LEMMA OverLeaves ==
  ASSUME IInv, NEW w \in Workers, RemovalOver(w) \/ (End(w) /\ job[w].kind # "migrate")
  PROVE  Leaves(w) /\ Others(w)
<1>1. job \in [Workers -> JobType]
  BY DEF IInv, Types
<1> QED
  BY <1>1, Over, Finished DEF Leaves, Turned, Ended

\* A step that touches neither Docker nor the records.
LEMMA RaisesDoes ==
  ASSUME IInv, NEW w \in Workers, NEW c, c = job[w].con, Raises(w)
  PROVE  /\ job[w].pc \in {"network", "down", "unbind", "rebind", "up", "mark", "erase"}
         /\ c \in Containers /\ ~con[c].row /\ Own(w) /\ Same(c) /\ Leaves(w)
         /\ UNCHANGED <<con, backends>>
<1>1. /\ job[w].pc \in {"network", "down", "unbind", "rebind", "up", "mark", "erase"}
      /\ ~con[c].row /\ UNCHANGED <<con, backends, mixed, overlap>>
  BY DEF Raises, history
<1>2. Leaves(w) /\ Others(w)
  BY OverLeaves DEF Raises
<1>3. c \in Containers
  BY <1>1, Mine
<1> QED
  BY <1>1, <1>2, <1>3, OwnStill

LEMMA UnlistDoes ==
  ASSUME IInv, NEW w \in Workers, NEW c, c = job[w].con, Unlist(w)
  PROVE  /\ job[w].pc = "unlist" /\ c \in Containers /\ Own(w) /\ Same(c) /\ con' = con
         /\ c \in backends' <=> ~con[c].ip /\ c \in backends
         /\ Moved(w, "read") /\ job'[w].seen = job[w].seen
<1>1. /\ job[w].pc = "unlist" /\ Goto(w, "read") /\ UNCHANGED <<con, mixed, overlap>>
      /\ backends' = IF con[c].ip THEN backends \ {c} ELSE backends
  BY DEF Unlist, At, history
<1>2. c \in Containers /\ job \in [Workers -> JobType]
  BY <1>1, Mine
<1>3. "read" \in Places
  BY DEF Places
<1>4. Moved(w, "read") /\ job'[w].seen = job[w].seen /\ Others(w)
  BY <1>1, <1>2, <1>3, GoneTo DEF Moved
<1>5. /\ \A x \in Containers \ {c} : x \in backends' <=> x \in backends
      /\ c \in backends' <=> ~con[c].ip /\ c \in backends
  BY <1>1
<1> QED
  BY <1>1, <1>2, <1>4, <1>5, OwnStill

LEMMA ListDoes ==
  ASSUME IInv, NEW w \in Workers, NEW c, c = job[w].con, List(w)
  PROVE  /\ job[w].pc = "list" /\ c \in Containers /\ Own(w) /\ Same(c) /\ con' = con
         /\ c \in backends' <=> con[c].ip \/ c \in backends
         /\ Moved(w, IF job[w].kind = "create" THEN "health" ELSE "read")
         /\ job'[w].seen = job[w].seen
<1>0. PICK p : p = IF job[w].kind = "create" THEN "health" ELSE "read"
  OBVIOUS
<1>1. /\ job[w].pc = "list" /\ Goto(w, p) /\ UNCHANGED <<con, mixed, overlap>>
      /\ backends' = IF con[c].ip THEN backends \cup {c} ELSE backends
  BY <1>0 DEF List, At, history
<1>2. c \in Containers /\ job \in [Workers -> JobType]
  BY <1>1, Mine
<1>3. p \in Places
  BY <1>0 DEF Places
<1>4. Moved(w, p) /\ job'[w].seen = job[w].seen /\ Others(w)
  BY <1>1, <1>2, <1>3, GoneTo DEF Moved
<1>5. /\ \A x \in Containers \ {c} : x \in backends' <=> x \in backends
      /\ c \in backends' <=> con[c].ip \/ c \in backends
  BY <1>1
<1> QED
  BY <1>0, <1>1, <1>2, <1>4, <1>5, OwnStill

LEMMA SetFlagDoes ==
  ASSUME IInv, NEW w \in Workers, NEW c, c = job[w].con, SetFlag(w)
  PROVE  /\ job[w].pc = "flag" /\ c \in Containers /\ Own(w) /\ Same(c)
         /\ UNCHANGED <<con, backends>> /\ Moved(w, "unlist") /\ job'[w].seen = job[w].seen
<1>1. job[w].pc = "flag" /\ Goto(w, "unlist") /\ UNCHANGED <<con, backends, mixed, overlap>>
  BY DEF SetFlag, At, history
<1>2. c \in Containers /\ job \in [Workers -> JobType]
  BY <1>1, Mine
<1>3. "unlist" \in Places
  BY DEF Places
<1>4. Moved(w, "unlist") /\ job'[w].seen = job[w].seen /\ Others(w)
  BY <1>1, <1>2, <1>3, GoneTo DEF Moved
<1> QED
  BY <1>1, <1>2, <1>4, OwnStill

LEMMA ClearFlagDoes ==
  ASSUME IInv, NEW w \in Workers, NEW c, c = job[w].con, ClearFlag(w)
  PROVE  /\ job[w].pc = "unflag" /\ c \in Containers /\ Own(w) /\ Same(c)
         /\ UNCHANGED <<con, backends>> /\ Leaves(w)
<1>1. job[w].pc = "unflag" /\ RemovalOver(w) /\ UNCHANGED <<con, backends, mixed, overlap>>
  BY DEF ClearFlag, At, history
<1>2. c \in Containers
  BY <1>1, Mine
<1>3. Leaves(w) /\ Others(w)
  BY <1>1, OverLeaves
<1> QED
  BY <1>1, <1>2, <1>3, OwnStill

LEMMA EnqueueDoes ==
  ASSUME IInv, NEW w \in Workers, NEW c, c = job[w].con, Enqueue(w)
  PROVE  /\ job[w].pc = "enqueue" /\ c \in Containers /\ Own(w) /\ Same(c)
         /\ UNCHANGED <<con, backends>> /\ Leaves(w) /\ job[w].kind = "kill"
<1>1. job[w].pc = "enqueue" /\ End(w) /\ UNCHANGED <<con, backends, mixed, overlap>>
  BY DEF Enqueue, At, history
<1>2. c \in Containers /\ job[w].kind = "kill"
  BY <1>1, Mine DEF JobShape, ComeTo
<1>3. Leaves(w) /\ Others(w)
  BY <1>1, <1>2, OverLeaves
<1> QED
  BY <1>1, <1>2, <1>3, OwnStill

LEMMA TestDoes ==
  ASSUME IInv, NEW w \in Workers, NEW c, c = job[w].con, Test(w)
  PROVE  /\ job[w].pc = "test" /\ c \in Containers /\ Own(w) /\ Same(c)
         /\ UNCHANGED <<con, backends>>
         /\ \/ con[c].alive /\ Leaves(w)
            \/ /\ ~con[c].alive /\ Moved(w, IF job[w].kind = "cure" THEN "unbind" ELSE "up")
               /\ job'[w].seen = job[w].seen
<1>0. PICK p : p = IF job[w].kind = "cure" THEN "unbind" ELSE "up"
  OBVIOUS
<1>1. job[w].pc = "test" /\ UNCHANGED <<con, backends, mixed, overlap>>
  BY DEF Test, At, history
<1>2. c \in Containers /\ job \in [Workers -> JobType] /\ job[w].kind # "migrate"
  BY <1>1, Mine DEF JobShape, ComeTo
<1>3. p \in Places
  BY <1>0 DEF Places
<1>4. CASE con[c].alive
  <2>1. Leaves(w) /\ Others(w)
    BY <1>2, <1>4, OverLeaves DEF Test
  <2> QED
    BY <1>1, <1>2, <1>4, <2>1, OwnStill
<1>5. CASE ~con[c].alive
  <2>1. Goto(w, p)
    BY <1>0, <1>5 DEF Test
  <2>2. Moved(w, p) /\ job'[w].seen = job[w].seen /\ Others(w)
    BY <1>2, <1>3, <2>1, GoneTo DEF Moved
  <2> QED
    BY <1>0, <1>1, <1>2, <1>5, <2>2, OwnStill
<1> QED
  BY <1>4, <1>5

LEMMA HealthDoes ==
  ASSUME IInv, NEW w \in Workers, NEW c, c = job[w].con, Health(w)
  PROVE  /\ job[w].pc = "health" /\ c \in Containers /\ Own(w) /\ Same(c)
         /\ UNCHANGED <<con, backends>>
         /\ \/ "health" \in Faults /\ con[c].ip /\ Leaves(w)
            \/ Moved(w, "read") /\ job'[w].seen = job[w].seen
<1>1. job[w].pc = "health" /\ UNCHANGED <<con, backends, mixed, overlap>>
  BY DEF Health, At, history
<1>2. c \in Containers /\ job \in [Workers -> JobType] /\ job[w].kind # "migrate"
  BY <1>1, Mine DEF JobShape, ComeTo
<1>3. "read" \in Places
  BY DEF Places
<1>4. PICK ok \in Outcomes("health") : IF ok \/ ~con[c].ip THEN Goto(w, "read") ELSE End(w)
  BY DEF Health
<1>5. CASE ok \/ ~con[c].ip
  <2>1. Moved(w, "read") /\ job'[w].seen = job[w].seen /\ Others(w)
    BY <1>2, <1>3, <1>4, <1>5, GoneTo DEF Moved
  <2> QED
    BY <1>1, <1>2, <2>1, OwnStill
<1>6. CASE ~ok /\ con[c].ip
  <2>1. Leaves(w) /\ Others(w)
    BY <1>2, <1>4, <1>6, OverLeaves
  <2>2. "health" \in Faults
    BY <1>6 DEF Outcomes
  <2> QED
    BY <1>1, <1>2, <1>6, <2>1, <2>2, OwnStill
<1> QED
  BY <1>5, <1>6

LEMMA NetworkNotDoes ==
  ASSUME IInv, NEW w \in Workers, NEW c, c = job[w].con, NetworkNot(w)
  PROVE  /\ job[w].pc = "network" /\ c \in Containers /\ Own(w) /\ Same(c)
         /\ UNCHANGED <<con, backends>> /\ con[c].row
         /\ \/ Leaves(w)
            \/ Moved(w, "stop") /\ job'[w].seen = job[w].seen
<1>1. job[w].pc = "network" /\ UNCHANGED <<con, backends, mixed, overlap>> /\ con[c].row
  BY DEF NetworkNot, At, history
<1>2. c \in Containers /\ job \in [Workers -> JobType] /\ job[w].kind # "migrate"
  BY <1>1, Mine DEF JobShape, ComeTo
<1>3. "stop" \in Places
  BY DEF Places
<1>4. End(w) \/ Goto(w, "stop")
  BY DEF NetworkNot
<1>5. CASE Goto(w, "stop")
  <2>1. Moved(w, "stop") /\ job'[w].seen = job[w].seen /\ Others(w)
    BY <1>2, <1>3, <1>5, GoneTo DEF Moved
  <2> QED
    BY <1>1, <1>2, <2>1, OwnStill
<1>6. CASE End(w)
  <2>1. Leaves(w) /\ Others(w)
    BY <1>2, <1>6, OverLeaves
  <2> QED
    BY <1>1, <1>2, <2>1, OwnStill
<1> QED
  BY <1>4, <1>5, <1>6


LEMMA ReadDoes ==
  ASSUME IInv, NEW w \in Workers, Read(w)
  PROVE  /\ job[w].pc = "read" /\ Own(w) /\ Same(job[w].con) /\ UNCHANGED <<con, backends>>
         /\ Moved(w, "write")
         /\ job'[w].seen = {c \in job[w].seen : ~con[c].removal /\ (Calico => con[c].ip)}
<1>1. /\ job[w].pc = "read" /\ job[w] \in JobType /\ job \in [Workers -> JobType]
      /\ UNCHANGED <<con, backends, mixed, overlap>>
  BY DEF IInv, Types, Read, At, history
<1> DEFINE S == {c \in job[w].seen : ~con[c].removal /\ (Calico => con[c].ip)}
<1>2. job' = [job EXCEPT ![w].pc = "write", ![w].seen = S]
  BY DEF Read
<1>3. S \in SUBSET Containers /\ "write" \in Places
  BY <1>1 DEF JobType, Places
<1> HIDE DEF S
<1>4. Moved(w, "write") /\ job'[w].seen = S /\ Others(w)
  BY <1>1, <1>2, <1>3 DEF Moved, Others, JobType
<1>5. Own(w) /\ Same(job[w].con)
  BY <1>1, <1>4, OwnStill
<1> QED
  BY <1>1, <1>4, <1>5 DEF S

LEMMA WriteDoes ==
  ASSUME IInv, NEW w \in Workers, Write(w)
  PROVE  /\ job[w].pc = "write" /\ Own(w) /\ Same(job[w].con) /\ UNCHANGED <<con, backends>>
         /\ missed' \/ published' = job[w].seen
         /\ \/ job[w].kind \in {"create", "cure", "hostcure"} /\ Leaves(w)
            \/ job[w].kind = "kill" /\ Moved(w, "reset")
            \/ job[w].kind = "start" /\ Moved(w, "launch")
            \/ job[w].kind = "stop" /\ Moved(w, "halt")
            \/ job[w].kind = "hostkill" /\ Moved(w, "migrations")
            \/ job[w].kind \in {"remove", "migrate"} /\ Moved(w, "stop")
<1>1. /\ job[w].pc = "write" /\ job[w] \in JobType /\ job \in [Workers -> JobType] /\ JobShape(w)
      /\ (missed' \/ published' = job[w].seen) /\ UNCHANGED <<con, backends, mixed, overlap>>
  BY DEF IInv, Types, Write, Outcomes, At
<1>2. job[w].kind \in Kinds \ {"none", "copy"}
  BY <1>1 DEF JobShape, ComeTo, JobType
<1>3. PICK p : p = AfterWrite(job[w].kind)
  OBVIOUS
<1>4. /\ job[w].kind \in {"create", "cure", "hostcure"} => p = "idle"
      /\ job[w].kind = "kill" => p = "reset"
      /\ job[w].kind = "start" => p = "launch"
      /\ job[w].kind = "stop" => p = "halt"
      /\ job[w].kind = "hostkill" => p = "migrations"
      /\ job[w].kind \in {"remove", "migrate"} => p = "stop"
  BY <1>3 DEF AfterWrite
<1>5. CASE p = "idle"
  <2>1. job[w].kind \in {"create", "cure", "hostcure"}
    BY <1>2, <1>4, <1>5 DEF Kinds
  <2>2. Leaves(w) /\ Others(w)
    BY <1>3, <1>5, <2>1, OverLeaves DEF Write
  <2>3. Own(w) /\ Same(job[w].con)
    BY <1>1, <2>2, OwnStill
  <2> QED
    BY <1>1, <2>1, <2>2, <2>3
<1>6. CASE p # "idle"
  <2>1. job' = [job EXCEPT ![w].pc = p, ![w].seen = {}]
    BY <1>3, <1>6 DEF Write
  <2>2. p \in {"reset", "launch", "halt", "migrations", "stop"} /\ p \in Places
    BY <1>2, <1>4, <1>6 DEF Kinds, Places
  <2>3. Moved(w, p) /\ Others(w)
    BY <1>1, <2>1, <2>2 DEF Moved, Others, JobType
  <2>4. Own(w) /\ Same(job[w].con)
    BY <1>1, <2>3, OwnStill
  <2>5. \/ job[w].kind = "kill" /\ p = "reset"
        \/ job[w].kind = "start" /\ p = "launch"
        \/ job[w].kind = "stop" /\ p = "halt"
        \/ job[w].kind = "hostkill" /\ p = "migrations"
        \/ job[w].kind \in {"remove", "migrate"} /\ p = "stop"
    BY <1>2, <1>4, <1>6 DEF Kinds
  <2> QED
    BY <1>1, <2>3, <2>4, <2>5
<1> QED
  BY <1>5, <1>6

LEMMA DockerCreatesNotDoes ==
  ASSUME IInv, NEW w \in Workers, NEW c, c = job[w].con, DockerCreatesNot(w)
  PROVE  /\ job[w].pc = "docker" /\ c \in Containers /\ Own(w) /\ Now(c, FALSE, FALSE, FALSE, FALSE)
         /\ backends' = backends /\ Moved(w, "read") /\ job'[w].seen = Rows(con')
         /\ Blank(c) /\ job[w].kind = "create"
<1>1. job[w].pc = "docker" /\ Begin(w, "read") /\ UNCHANGED <<backends, mixed, overlap>>
  BY DEF DockerCreatesNot, At, history
<1>2. /\ c \in Containers /\ job \in [Workers -> JobType] /\ Blank(c) /\ job[w].kind = "create"
  BY <1>1, AtMaking
<1>3. PICK d : d = New
  OBVIOUS
<1>4. con' = [con EXCEPT ![c] = d]
  BY <1>3 DEF DockerCreatesNot
<1>5. /\ d \in ConType /\ d.of = NoContainer
      /\ d.row = FALSE /\ d.alive = FALSE /\ d.removal = FALSE /\ d.ip = FALSE
  BY <1>3 DEF ConType, New
<1>6. "read" \in Places
  BY DEF Places
<1>7. Moved(w, "read") /\ job'[w].seen = Rows(con') /\ Others(w)
  BY <1>1, <1>2, <1>6, Begun DEF Moved
<1>8. Own(w) /\ con'[c] = d
  BY <1>1, <1>2, <1>4, <1>5, <1>7, OwnCon
<1> QED
  BY <1>1, <1>2, <1>5, <1>7, <1>8 DEF Now

LEMMA DockerStartsNotDoes ==
  ASSUME IInv, NEW w \in Workers, NEW c, c = job[w].con, DockerStartsNot(w)
  PROVE  /\ job[w].pc = "boot" /\ c \in Containers /\ Own(w) /\ Same(c)
         /\ UNCHANGED <<con, backends>> /\ Moved(w, "read") /\ job'[w].seen = Rows(con')
         /\ Blank(c) /\ job[w].kind = "create"
<1>1. job[w].pc = "boot" /\ Begin(w, "read") /\ UNCHANGED <<con, backends, mixed, overlap>>
  BY DEF DockerStartsNot, At, history
<1>2. /\ c \in Containers /\ job \in [Workers -> JobType] /\ Blank(c) /\ job[w].kind = "create"
  BY <1>1, AtMaking
<1>3. "read" \in Places
  BY DEF Places
<1>4. Moved(w, "read") /\ job'[w].seen = Rows(con') /\ Others(w)
  BY <1>1, <1>2, <1>3, Begun DEF Moved
<1>5. Own(w) /\ Same(c)
  BY <1>1, <1>2, <1>4, OwnStill
<1> QED
  BY <1>1, <1>2, <1>4, <1>5

LEMMA ResetDoes ==
  ASSUME IInv, NEW w \in Workers, NEW c, c = job[w].con, Reset(w)
  PROVE  /\ job[w].pc = "reset" /\ c \in Containers /\ Own(w)
         /\ \E m \in BOOLEAN : Now(c, con[c].row, con[c].alive, m, con[c].ip)
         /\ backends' = backends /\ Moved(w, "enqueue") /\ job'[w].seen = job[w].seen
<1>1. job[w].pc = "reset" /\ Goto(w, "enqueue") /\ UNCHANGED <<backends, mixed, overlap>>
  BY DEF Reset, At, history
<1>2. /\ c \in Containers /\ con[c] \in ConType
      /\ job \in [Workers -> JobType] /\ con \in [Containers -> ConType]
  BY <1>1, Mine
<1>3. PICK oom \in BOOLEAN : con' = [con EXCEPT ![c].removal = @ /\ ~oom]
  BY DEF Reset
<1>4. PICK m \in BOOLEAN : m = (con[c].removal /\ ~oom)
  OBVIOUS
<1>5. PICK d : d = [con[c] EXCEPT !.removal = m]
  OBVIOUS
<1>6. con' = [con EXCEPT ![c] = d]
  BY <1>2, <1>3, <1>4, <1>5
<1>7. /\ d \in ConType /\ d.of = con[c].of /\ d.copy = con[c].copy
      /\ d.row = con[c].row /\ d.alive = con[c].alive /\ d.removal = m /\ d.ip = con[c].ip
  BY <1>2, <1>5 DEF ConType
<1>8. "enqueue" \in Places
  BY DEF Places
<1>9. Moved(w, "enqueue") /\ job'[w].seen = job[w].seen /\ Others(w)
  BY <1>1, <1>2, <1>8, GoneTo DEF Moved
<1>10. Own(w) /\ con'[c] = d
  BY <1>1, <1>2, <1>6, <1>7, <1>9, OwnCon
<1>11. Now(c, con[c].row, con[c].alive, m, con[c].ip)
  BY <1>7, <1>10 DEF Now
<1> QED
  BY <1>1, <1>2, <1>9, <1>10, <1>11


LEMMA EraseDoes ==
  ASSUME IInv, NEW w \in Workers, NEW c, c = job[w].con, Erase(w)
  PROVE  /\ job[w].pc = "erase" /\ c \in Containers /\ Own(w) /\ con[c].row
         /\ Now(c, FALSE, con[c].alive, con[c].removal, con[c].ip)
         /\ backends' = backends
         /\ IF job[w].kind = "create" THEN Moved(w, "read") /\ job'[w].seen = Rows(con')
            ELSE Moved(w, "unflag") /\ job'[w].seen = job[w].seen
<1>1. job[w].pc = "erase" /\ UNCHANGED <<backends, mixed, overlap>> /\ con[c].row
  BY DEF Erase, At, history
<1>2. /\ c \in Containers /\ con[c] \in ConType
      /\ job \in [Workers -> JobType] /\ con \in [Containers -> ConType]
  BY <1>1, Mine
<1>3. PICK d : d = [con[c] EXCEPT !.row = FALSE]
  OBVIOUS
<1>4. con' = [con EXCEPT ![c] = d]
  BY <1>2, <1>3 DEF Erase
<1>5. /\ d \in ConType /\ d.of = con[c].of /\ d.copy = con[c].copy
      /\ d.row = FALSE /\ d.alive = con[c].alive /\ d.removal = con[c].removal
      /\ d.ip = con[c].ip
  BY <1>2, <1>3 DEF ConType
<1>6. "read" \in Places /\ "unflag" \in Places
  BY DEF Places
<1>7. /\ Others(w)
      /\ IF job[w].kind = "create" THEN Moved(w, "read") /\ job'[w].seen = Rows(con')
         ELSE Moved(w, "unflag") /\ job'[w].seen = job[w].seen
  <2>1. CASE job[w].kind = "create"
    <3>1. Begin(w, "read")
      BY <2>1 DEF Erase
    <3>2. Moved(w, "read") /\ job'[w].seen = Rows(con')
      BY <1>2, <1>6, <3>1, Begun
    <3> QED
      BY <2>1, <3>2 DEF Moved
  <2>2. CASE job[w].kind # "create"
    <3>1. Goto(w, "unflag")
      BY <2>2 DEF Erase
    <3>2. Moved(w, "unflag") /\ job'[w].seen = job[w].seen
      BY <1>2, <1>6, <3>1, GoneTo
    <3> QED
      BY <2>2, <3>2 DEF Moved
  <2> QED
    BY <2>1, <2>2
<1>8. Own(w) /\ con'[c] = d
  BY <1>1, <1>2, <1>4, <1>5, <1>7, OwnCon
<1> QED
  BY <1>1, <1>2, <1>5, <1>7, <1>8 DEF Now

LEMMA Rebound ==
  ASSUME IInv, NEW w \in Workers, AfterRebind(w), job[w].pc \in {"unbind", "rebind"}
  PROVE  /\ Others(w)
         /\ IF job[w].kind = "cure" THEN Moved(w, "up") /\ job'[w].seen = job[w].seen
            ELSE job[w].kind = "start" /\ Leaves(w)
<1>1. job \in [Workers -> JobType] /\ job[w].kind \in {"cure", "start"}
  BY Mine DEF JobShape, ComeTo
<1>2. CASE job[w].kind = "cure"
  <2>1. Goto(w, "up") /\ "up" \in Places
    BY <1>2 DEF AfterRebind, Places
  <2>2. Moved(w, "up") /\ job'[w].seen = job[w].seen
    BY <1>1, <2>1, GoneTo
  <2> QED
    BY <1>2, <2>2 DEF Moved
<1>3. CASE job[w].kind # "cure"
  <2>1. job[w].kind = "start" /\ End(w)
    BY <1>1, <1>3 DEF AfterRebind
  <2>2. Leaves(w) /\ Others(w)
    BY <2>1, OverLeaves
  <2> QED
    BY <2>1, <2>2
<1> QED
  BY <1>2, <1>3

LEMMA UnbindDoes ==
  ASSUME IInv, NEW w \in Workers, NEW c, c = job[w].con, Unbind(w)
  PROVE  /\ job[w].pc = "unbind" /\ c \in Containers /\ Own(w) /\ con[c].row
         /\ Now(c, con[c].row, con[c].alive, con[c].removal, FALSE)
         /\ backends' = backends
         /\ \/ con[c].ip /\ Moved(w, "rebind") /\ job'[w].seen = job[w].seen
            \/ ~con[c].ip /\ job[w].kind = "cure" /\ Moved(w, "up") /\ job'[w].seen = job[w].seen
            \/ ~con[c].ip /\ job[w].kind = "start" /\ Leaves(w)
<1>1. job[w].pc = "unbind" /\ UNCHANGED <<backends, mixed, overlap>> /\ con[c].row
  BY DEF Unbind, At, history
<1>2. /\ c \in Containers /\ con[c] \in ConType
      /\ job \in [Workers -> JobType] /\ con \in [Containers -> ConType]
  BY <1>1, Mine
<1>3. PICK d : d = [con[c] EXCEPT !.ip = FALSE]
  OBVIOUS
<1>4. con' = [con EXCEPT ![c] = d]
  BY <1>2, <1>3 DEF Unbind
<1>5. /\ d \in ConType /\ d.of = con[c].of /\ d.copy = con[c].copy
      /\ d.row = con[c].row /\ d.alive = con[c].alive /\ d.removal = con[c].removal
      /\ d.ip = FALSE
  BY <1>2, <1>3 DEF ConType
<1>6. "rebind" \in Places
  BY DEF Places
<1>7. /\ Others(w)
      /\ \/ con[c].ip /\ Moved(w, "rebind") /\ job'[w].seen = job[w].seen
         \/ ~con[c].ip /\ job[w].kind = "cure" /\ Moved(w, "up") /\ job'[w].seen = job[w].seen
         \/ ~con[c].ip /\ job[w].kind = "start" /\ Leaves(w)
  <2>1. CASE con[c].ip
    <3>1. Goto(w, "rebind")
      BY <2>1 DEF Unbind
    <3>2. Moved(w, "rebind") /\ job'[w].seen = job[w].seen
      BY <1>2, <1>6, <3>1, GoneTo
    <3> QED
      BY <2>1, <3>2 DEF Moved
  <2>2. CASE ~con[c].ip
    <3>1. AfterRebind(w)
      BY <2>2 DEF Unbind
    <3> QED
      BY <1>1, <2>2, <3>1, Rebound
  <2> QED
    BY <2>1, <2>2
<1>8. Own(w) /\ con'[c] = d
  BY <1>1, <1>2, <1>4, <1>5, <1>7, OwnCon
<1>9. Now(c, con[c].row, con[c].alive, con[c].removal, FALSE)
  BY <1>5, <1>8 DEF Now
<1> QED
  BY <1>1, <1>2, <1>7, <1>8, <1>9

LEMMA RebindDoes ==
  ASSUME IInv, NEW w \in Workers, NEW c, c = job[w].con, Rebind(w)
  PROVE  /\ job[w].pc = "rebind" /\ c \in Containers /\ Own(w) /\ con[c].row
         /\ \E ok \in Outcomes("rebind") : Now(c, con[c].row, con[c].alive, con[c].removal, ok)
         /\ backends' = backends
         /\ IF job[w].kind = "cure" THEN Moved(w, "up") /\ job'[w].seen = job[w].seen
            ELSE job[w].kind = "start" /\ Leaves(w)
<1>1. job[w].pc = "rebind" /\ UNCHANGED <<backends, mixed, overlap>> /\ con[c].row /\ AfterRebind(w)
  BY DEF Rebind, At, history
<1>2. /\ c \in Containers /\ con[c] \in ConType
      /\ job \in [Workers -> JobType] /\ con \in [Containers -> ConType]
  BY <1>1, Mine
<1>3. PICK ok \in Outcomes("rebind") : con' = [con EXCEPT ![c].ip = ok]
  BY DEF Rebind
<1>4. ok \in BOOLEAN
  BY DEF Outcomes
<1>5. PICK d : d = [con[c] EXCEPT !.ip = ok]
  OBVIOUS
<1>6. con' = [con EXCEPT ![c] = d]
  BY <1>2, <1>3, <1>5
<1>7. /\ d \in ConType /\ d.of = con[c].of /\ d.copy = con[c].copy
      /\ d.row = con[c].row /\ d.alive = con[c].alive /\ d.removal = con[c].removal
      /\ d.ip = ok
  BY <1>2, <1>4, <1>5 DEF ConType
<1>8. /\ Others(w)
      /\ IF job[w].kind = "cure" THEN Moved(w, "up") /\ job'[w].seen = job[w].seen
         ELSE job[w].kind = "start" /\ Leaves(w)
  BY <1>1, Rebound
<1>9. Own(w) /\ con'[c] = d
  BY <1>1, <1>2, <1>6, <1>7, <1>8, OwnCon
<1>10. Now(c, con[c].row, con[c].alive, con[c].removal, ok)
  BY <1>7, <1>9 DEF Now
<1> QED
  BY <1>1, <1>2, <1>3, <1>8, <1>9, <1>10

LEMMA HaltDoes ==
  ASSUME IInv, NEW w \in Workers, NEW c, c = job[w].con, Halt(w)
  PROVE  /\ job[w].pc = "halt" /\ c \in Containers /\ Own(w) /\ Same(c)
         /\ backends' = backends /\ Leaves(w)
<1>1. job[w].pc = "halt" /\ UNCHANGED <<backends, mixed, overlap>> /\ End(w)
  BY DEF Halt, At, history
<1>2. /\ c \in Containers /\ con[c] \in ConType /\ job[w].kind = "stop"
      /\ job \in [Workers -> JobType] /\ con \in [Containers -> ConType]
  BY <1>1, Mine DEF JobShape, ComeTo
<1>3. Leaves(w) /\ Others(w)
  BY <1>1, <1>2, OverLeaves
<1>4. CASE con' = con
  BY <1>1, <1>2, <1>3, <1>4, OwnStill
<1>5. CASE con' # con
  <2>1. PICK d : d = [con[c] EXCEPT !.docker = "stopped"]
    OBVIOUS
  <2>2. con' = [con EXCEPT ![c] = d]
    BY <1>2, <1>5, <2>1 DEF Halt
  <2>3. /\ d \in ConType /\ d.of = con[c].of /\ d.copy = con[c].copy
        /\ d.row = con[c].row /\ d.alive = con[c].alive /\ d.removal = con[c].removal
        /\ d.ip = con[c].ip
    BY <1>2, <2>1 DEF ConType
  <2>4. Own(w) /\ con'[c] = d
    BY <1>1, <1>2, <1>3, <2>2, <2>3, OwnCon
  <2> QED
    BY <1>1, <1>2, <1>3, <2>3, <2>4 DEF Same, Now
<1> QED
  BY <1>4, <1>5

LEMMA LaunchDoes ==
  ASSUME IInv, NEW w \in Workers, NEW c, c = job[w].con, Launch(w)
  PROVE  /\ job[w].pc = "launch" /\ c \in Containers /\ Own(w) /\ Same(c)
         /\ backends' = backends /\ job[w].kind = "start"
         /\ Leaves(w) \/ (Moved(w, "unbind") /\ job'[w].seen = job[w].seen)
<1>1. job[w].pc = "launch" /\ UNCHANGED <<backends, mixed, overlap>>
  BY DEF Launch, At, history
<1>2. /\ c \in Containers /\ con[c] \in ConType /\ job[w].kind = "start"
      /\ job \in [Workers -> JobType] /\ con \in [Containers -> ConType]
  BY <1>1, Mine DEF JobShape, ComeTo
<1>3. "unbind" \in Places
  BY DEF Places
<1>4. Goto(w, "unbind") \/ End(w)
  BY DEF Launch
<1>5. Others(w) /\ (Leaves(w) \/ (Moved(w, "unbind") /\ job'[w].seen = job[w].seen))
  <2>1. CASE Goto(w, "unbind")
    <3>1. Moved(w, "unbind") /\ job'[w].seen = job[w].seen
      BY <1>2, <1>3, <2>1, GoneTo
    <3> QED
      BY <3>1 DEF Moved
  <2>2. CASE End(w)
    BY <1>2, <2>2, OverLeaves
  <2> QED
    BY <1>4, <2>1, <2>2
<1>6. CASE con' = con
  BY <1>1, <1>2, <1>5, <1>6, OwnStill
<1>7. CASE con' # con
  <2>1. PICK d : d = [con[c] EXCEPT !.docker = "running"]
    OBVIOUS
  <2>2. con' = [con EXCEPT ![c] = d]
    BY <1>2, <1>7, <2>1 DEF Launch
  <2>3. /\ d \in ConType /\ d.of = con[c].of /\ d.copy = con[c].copy
        /\ d.row = con[c].row /\ d.alive = con[c].alive /\ d.removal = con[c].removal
        /\ d.ip = con[c].ip
    BY <1>2, <2>1 DEF ConType
  <2>4. Own(w) /\ con'[c] = d
    BY <1>1, <1>2, <1>5, <2>2, <2>3, OwnCon
  <2>5. Same(c)
    BY <2>3, <2>4 DEF Same, Now
  <2> QED
    BY <1>1, <1>2, <1>5, <2>4, <2>5
<1> QED
  BY <1>6, <1>7

LEMMA DockerRemovesNotDoes ==
  ASSUME IInv, NEW w \in Workers, NEW c, c = job[w].con, DockerRemovesNot(w)
  PROVE  /\ job[w].pc = "stop" /\ c \in Containers /\ Own(w) /\ Same(c)
         /\ backends' = backends /\ Leaves(w)
         /\ job[w].kind = "migrate" => "migration" \in Faults
<1>1. job[w].pc = "stop" /\ UNCHANGED <<backends, mixed, overlap>> /\ RemovalOver(w)
      /\ (job[w].kind = "migrate" => "migration" \in Faults)
  BY DEF DockerRemovesNot, At, history
<1>2. /\ c \in Containers /\ con[c] \in ConType
      /\ job \in [Workers -> JobType] /\ con \in [Containers -> ConType]
  BY <1>1, Mine
<1>3. Leaves(w) /\ Others(w)
  BY <1>1, OverLeaves
<1>4. PICK k \in {con[c].docker, "stopped"} : con' = [con EXCEPT ![c].docker = k]
  BY DEF DockerRemovesNot
<1>5. PICK d : d = [con[c] EXCEPT !.docker = k]
  OBVIOUS
<1>6. con' = [con EXCEPT ![c] = d]
  BY <1>2, <1>4, <1>5
<1>7. /\ d \in ConType /\ d.of = con[c].of /\ d.copy = con[c].copy
      /\ d.row = con[c].row /\ d.alive = con[c].alive /\ d.removal = con[c].removal
      /\ d.ip = con[c].ip
  BY <1>2, <1>4, <1>5 DEF ConType
<1>8. Own(w) /\ con'[c] = d
  BY <1>1, <1>2, <1>3, <1>6, <1>7, OwnCon
<1>9. Same(c)
  BY <1>7, <1>8 DEF Same, Now
<1> QED
  BY <1>1, <1>2, <1>3, <1>8, <1>9


-----------------------------------------------------------------------------
(* Migrations.                                                             *)

LoneWorker(c) == \A v, w \in Workers : job[v].con = c /\ job[w].con = c => v = w

\* A migration of c that creates, or will create, n.
Moves(w, c, n) == job[w].kind = "migrate" /\ job[w].con = c /\ job[w].next = n

\* Who replaces c is made by the only job that works on c, which ends when c is
\* recorded no more, and no other job then finds c to migrate it.
ReplacedAt(c) ==
    /\ LoneWorker(c)
    /\ \A w \in Workers : job[w].con = c =>
          /\ At(w, "plan") => con[c].row
          /\ At(w, "unflag") => ~con[c].row
    /\ \A n \in Containers : Replaces(n, c) =>
          ~con[c].row \/ \E w \in Workers : Moves(w, c, n)
    /\ \A m, n \in Containers : Replaces(m, c) /\ Replaces(n, c) => m = n

Replacement == \A c \in Containers \ mixed : ReplacedAt(c)

\* Nobody's step concerns c.
LEMMA AsideReplaced ==
  ASSUME NEW c \in Containers, ReplacedAt(c), con'[c].row = con[c].row,
         \A n \in Containers : Replaces(n, c)' => Replaces(n, c),
         \A v \in Workers :
            /\ job'[v].con = c => job[v].con = c
            /\ job[v].con = c =>
                  job'[v].con = c /\ job'[v].kind = job[v].kind /\ job'[v].next = job[v].next
                  /\ job'[v].pc = job[v].pc
  PROVE  ReplacedAt(c)'
<1>1. LoneWorker(c)'
  BY DEF ReplacedAt, LoneWorker
<1>2. \A w \in Workers : job'[w].con = c =>
          /\ At(w, "plan")' => con'[c].row
          /\ At(w, "unflag")' => ~con'[c].row
  BY DEF ReplacedAt, At
<1>3. \A n \in Containers : Replaces(n, c)' =>
          ~con'[c].row \/ \E w \in Workers : Moves(w, c, n)'
  BY DEF ReplacedAt, Moves
<1>4. \A m, n \in Containers : Replaces(m, c)' /\ Replaces(n, c)' => m = n
  BY DEF ReplacedAt
<1> QED
  BY <1>1, <1>2, <1>3, <1>4 DEF ReplacedAt

LEMMA OwnReplaces ==
  ASSUME IInv, Replacement, NEW w \in Workers, Own(w), NEW c, c = job[w].con,
         \/ Leaves(w) /\ job[w].pc # "plan"
         \/ \E p \in Places \ {"plan"} : Moved(w, p) /\ (p = "unflag" => ~con'[c].row),
         c \in Containers => (con'[c].row => con[c].row \/ ~Known(c)),
         c \in Containers \ mixed /\ Leaves(w) /\ job[w].kind = "migrate" => ~con'[c].row
  PROVE  Replacement'
<1>1. /\ Types /\ JobShape(w) /\ JobFacts(w) /\ Sole /\ job[w] \in JobType
      /\ \A x \in Containers : ConFacts(x)
  BY DEF IInv, Types
<1>2. /\ Others(w) /\ mixed' = mixed
      /\ \A x \in Containers \ {c} : con'[x] = con[x]
      /\ \A n, x \in Containers : Replaces(n, x)' => Replaces(n, x)
  BY DEF Own
<1>3. \/ /\ job'[w].con = c /\ job'[w].kind = job[w].kind /\ job'[w].next = job[w].next
         /\ job'[w].pc # "plan" /\ (job'[w].pc = "unflag" => ~con'[c].row)
      \/ /\ job'[w].con = NoContainer /\ job'[w].pc = "idle" /\ job[w].kind # "migrate"
      \/ /\ job[w].kind = "migrate" /\ job'[w].con = job[w].next /\ job'[w].pc = "docker"
         /\ job[w].next \in Containers /\ job[w].next # NoContainer
         /\ Making(w) = job[w].next
         /\ c \in Containers \ mixed => ~con'[c].row
  <2>1. CASE Leaves(w) /\ job[w].pc # "plan" /\ job[w].kind # "migrate"
    BY <2>1 DEF Leaves, Ended, Idle
  <2>2. CASE Leaves(w) /\ job[w].pc # "plan" /\ job[w].kind = "migrate"
    <3>1. job'[w].con = job[w].next /\ job'[w].pc = "docker"
      BY <2>2 DEF Leaves, Turned, Idle
    <3>2. job[w].next # NoContainer /\ job[w].next \in Containers /\ Making(w) = job[w].next
      BY <1>1, <2>2 DEF JobShape, ComeTo, JobType, Making
    <3> QED
      BY <2>2, <3>1, <3>2
  <2>3. ASSUME NEW p \in Places \ {"plan"}, Moved(w, p), p = "unflag" => ~con'[c].row
        PROVE  /\ job'[w].con = c /\ job'[w].kind = job[w].kind /\ job'[w].next = job[w].next
               /\ job'[w].pc # "plan" /\ (job'[w].pc = "unflag" => ~con'[c].row)
    BY <2>3 DEF Moved
  <2> QED
    BY <2>1, <2>2, <2>3
<1> SUFFICES ASSUME NEW x \in Containers \ mixed PROVE ReplacedAt(x)'
  BY <1>2 DEF Replacement
<1>4. ReplacedAt(x) /\ x # NoContainer
  BY LifecycleAssumption DEF Replacement
<1>5. \A v \in Workers \ {w} : job'[v] = job[v]
  BY <1>2 DEF Others
<1>6. CASE x # c /\ job'[w].con # x
  BY <1>2, <1>4, <1>5, <1>6, AsideReplaced
<1>7. CASE x = c
  <2>1. \A v \in Workers \ {w} : job[v].con # c /\ job'[v].con # c
    BY <1>4, <1>5, <1>7 DEF ReplacedAt, LoneWorker
  <2>2. job'[w].con = c =>
          /\ job'[w].kind = job[w].kind /\ job'[w].next = job[w].next
          /\ job'[w].pc # "plan" /\ (job'[w].pc = "unflag" => ~con'[c].row)
    BY <1>1, <1>3, <1>4, <1>7, LifecycleAssumption DEF JobFacts, Known
  <2>3. LoneWorker(c)'
    BY <2>1 DEF LoneWorker
  <2>4. \A v \in Workers : job'[v].con = c =>
          /\ At(v, "plan")' => con'[c].row
          /\ At(v, "unflag")' => ~con'[c].row
    BY <2>1, <2>2 DEF At
  <2>5. ASSUME NEW n \in Containers, Replaces(n, c)'
        PROVE  ~con'[c].row \/ \E v \in Workers : Moves(v, c, n)'
    <3>1. Replaces(n, c)
      BY <1>2, <1>7, <2>5
    <3>2. Known(c)
      BY <1>1, <1>4, <1>7, <3>1 DEF ConFacts, Replaces
    <3>3. CASE ~con[c].row
      BY <1>7, <3>2, <3>3
    <3>4. CASE con[c].row
      <4>1. Moves(w, c, n)
        BY <1>4, <1>7, <2>1, <3>1, <3>4 DEF ReplacedAt, Moves
      <4> QED
        BY <1>3, <1>7, <2>2, <4>1 DEF Moves
    <3> QED
      BY <3>3, <3>4
  <2>6. \A m, n \in Containers : Replaces(m, c)' /\ Replaces(n, c)' => m = n
    BY <1>2, <1>4, <1>7 DEF ReplacedAt
  <2> QED
    BY <1>7, <2>3, <2>4, <2>5, <2>6 DEF ReplacedAt
<1>8. CASE x # c /\ job'[w].con = x
  <2>1. job[w].next = x /\ job'[w].pc = "docker" /\ Making(w) = x
    BY <1>3, <1>4, <1>8
  <2>2. con[x].docker = "new"
    BY <1>1, <1>4, <2>1 DEF JobFacts
  <2>3. \A n \in Containers : ~Replaces(n, x)'
    BY <1>1, <1>2, <1>4, <2>2 DEF ConFacts, Known, Replaces
  <2>4. \A v \in Workers \ {w} : job[v].con # x /\ job'[v].con # x
    BY <1>1, <1>4, <1>5, <2>1 DEF Sole
  <2> QED
    BY <2>1, <2>3, <2>4 DEF ReplacedAt, LoneWorker, At
<1> QED
  BY <1>6, <1>7, <1>8


\* Steps from place to place that do not unmake the record.
LEMMA MoveReplaces ==
  ASSUME IInv, Replacement, NEW w \in Workers, Own(w),
         NEW p \in Places \ {"plan", "unflag"}, Moved(w, p),
         job[w].con \in Containers =>
            (con'[job[w].con].row => con[job[w].con].row \/ ~Known(job[w].con))
  PROVE  Replacement'
<1>1. PICK c : c = job[w].con
  OBVIOUS
<1>2. ~Leaves(w) \/ job[w].kind # "migrate" \/ (c \in Containers \ mixed => ~con'[c].row)
  <2> SUFFICES ASSUME Leaves(w), job[w].kind = "migrate" PROVE FALSE
    OBVIOUS
  <2>1. job'[w].kind = "create"
    BY DEF Leaves, Turned, Idle
  <2> QED
    BY <2>1 DEF Moved
<1> QED
  BY <1>1, <1>2, OwnReplaces

\* The end of anything but a migration.
LEMMA LeaveReplaces ==
  ASSUME IInv, Replacement, NEW w \in Workers, Own(w), NEW c, c = job[w].con,
         Leaves(w), job[w].pc # "plan", c \in Containers => con'[c].row = con[c].row,
         job[w].kind = "migrate" => ~con[c].row \/ job[w].pc = "unflag"
  PROVE  Replacement'
<1>1. c \in Containers \ mixed /\ job[w].kind = "migrate" => ~con'[c].row
  BY DEF Replacement, ReplacedAt, At
<1> QED
  BY <1>1, OwnReplaces

LEMMA StepsReplace ==
  ASSUME IInv, Replacement, NEW w \in Workers,
         \/ Down(w) \/ Up(w) \/ Mark(w) \/ Release(w) \/ Forget(w) \/ Network(w)
         \/ DockerRemoves(w) \/ DockerCreates(w) \/ Reset(w) \/ Unlist(w) \/ List(w)
         \/ SetFlag(w) \/ Read(w) \/ Record(w) \/ DockerCreatesNot(w)
         \/ DockerStarts(w) \/ DockerStartsNot(w)
  PROVE  Replacement'
<1>1. PICK c : c = job[w].con
  OBVIOUS
<1>2. CASE Down(w)
  BY <1>1, <1>2, DownDoes, MoveReplaces DEF Now, Places
<1>3. CASE Up(w)
  BY <1>1, <1>3, UpDoes, MoveReplaces DEF Now, Places
<1>4. CASE Mark(w)
  BY <1>1, <1>4, MarkDoes, MoveReplaces DEF Now, Places
<1>5. CASE Release(w)
  BY <1>1, <1>5, ReleaseDoes, MoveReplaces DEF Now, Places
<1>6. CASE Forget(w)
  BY <1>1, <1>6, ForgetDoes, MoveReplaces DEF Now, Places
<1>7. CASE Network(w)
  BY <1>1, <1>7, NetworkDoes, MoveReplaces DEF Now, Places
<1>8. CASE DockerRemoves(w)
  BY <1>1, <1>8, DockerRemovesDoes, MoveReplaces DEF Now, Places
<1>9. CASE DockerCreates(w)
  BY <1>1, <1>9, DockerCreatesDoes, MoveReplaces DEF Now, Places
<1>10. CASE Reset(w)
  BY <1>1, <1>10, ResetDoes, MoveReplaces DEF Now, Places
<1>11. CASE Unlist(w)
  BY <1>1, <1>11, UnlistDoes, MoveReplaces DEF Places
<1>12. CASE List(w)
  <2>1. PICK p : p = IF job[w].kind = "create" THEN "health" ELSE "read"
    OBVIOUS
  <2> QED
    BY <1>1, <1>12, <2>1, ListDoes, MoveReplaces DEF Places
<1>13. CASE SetFlag(w)
  BY <1>1, <1>13, SetFlagDoes, MoveReplaces DEF Places
<1>14. CASE Read(w)
  BY <1>1, <1>14, ReadDoes, MoveReplaces DEF Places
<1>15. CASE Record(w)
  <2>1. ~Known(c)
    BY <1>1, <1>15, RecordDoes, AtMaking
  <2> QED
    BY <1>1, <1>15, <2>1, RecordDoes, MoveReplaces DEF Places
<1>16. CASE DockerCreatesNot(w)
  BY <1>1, <1>16, DockerCreatesNotDoes, MoveReplaces DEF Now, Places
<1>17. CASE DockerStarts(w)
  BY <1>1, <1>17, DockerStartsDoes, MoveReplaces DEF Now, Places
<1>18. CASE DockerStartsNot(w)
  BY <1>1, <1>18, DockerStartsNotDoes, MoveReplaces DEF Same, Now, Places
<1> QED
  BY <1>2, <1>3, <1>4, <1>5, <1>6, <1>7, <1>8, <1>9, <1>10, <1>11, <1>12, <1>13, <1>14, <1>15,
     <1>16, <1>17, <1>18

LEMMA EndsReplace ==
  ASSUME IInv, Replacement, "migration" \notin Faults, NEW w \in Workers,
         \/ Raises(w) \/ ClearFlag(w) \/ Enqueue(w) \/ Halt(w) \/ DockerRemovesNot(w) \/ Test(w)
         \/ Health(w) \/ NetworkNot(w) \/ Launch(w) \/ Unbind(w) \/ Rebind(w) \/ Erase(w)
         \/ Write(w)
  PROVE  Replacement'
<1>1. PICK c : c = job[w].con
  OBVIOUS
<1>2. JobShape(w)
  BY DEF IInv
<1>3. CASE Raises(w)
  BY <1>1, <1>3, RaisesDoes, LeaveReplaces DEF Same, Now
<1>4. CASE ClearFlag(w)
  BY <1>1, <1>4, ClearFlagDoes, LeaveReplaces DEF Same, Now
<1>5. CASE Enqueue(w)
  BY <1>1, <1>5, EnqueueDoes, LeaveReplaces DEF Same, Now
<1>6. CASE Halt(w)
  BY <1>1, <1>2, <1>6, HaltDoes, LeaveReplaces DEF Same, Now, JobShape, ComeTo
<1>7. CASE DockerRemovesNot(w)
  BY <1>1, <1>7, DockerRemovesNotDoes, LeaveReplaces DEF Same, Now
<1>8. CASE Test(w)
  <2>1. /\ job[w].pc = "test" /\ Own(w) /\ Same(c)
        /\ Leaves(w) \/ Moved(w, "unbind") \/ Moved(w, "up")
    BY <1>1, <1>8, TestDoes
  <2>2. job[w].kind # "migrate"
    BY <1>2, <2>1 DEF JobShape, ComeTo
  <2> QED
    BY <1>1, <2>1, <2>2, LeaveReplaces, MoveReplaces DEF Same, Now, Places
<1>9. CASE Health(w)
  <2>1. /\ job[w].pc = "health" /\ Own(w) /\ Same(c)
        /\ Leaves(w) \/ Moved(w, "read")
    BY <1>1, <1>9, HealthDoes
  <2>2. job[w].kind # "migrate"
    BY <1>2, <2>1 DEF JobShape, ComeTo
  <2> QED
    BY <1>1, <2>1, <2>2, LeaveReplaces, MoveReplaces DEF Same, Now, Places
<1>10. CASE NetworkNot(w)
  <2>1. /\ job[w].pc = "network" /\ Own(w) /\ Same(c)
        /\ Leaves(w) \/ Moved(w, "stop")
    BY <1>1, <1>10, NetworkNotDoes
  <2>2. job[w].kind # "migrate"
    BY <1>2, <2>1 DEF JobShape, ComeTo
  <2> QED
    BY <1>1, <2>1, <2>2, LeaveReplaces, MoveReplaces DEF Same, Now, Places
<1>11. CASE Launch(w)
  <2>1. /\ job[w].pc = "launch" /\ Own(w) /\ Same(c) /\ job[w].kind = "start"
        /\ Leaves(w) \/ Moved(w, "unbind")
    BY <1>1, <1>11, LaunchDoes
  <2> QED
    BY <1>1, <2>1, LeaveReplaces, MoveReplaces DEF Same, Now, Places
<1>12. CASE Unbind(w)
  <2>1. /\ job[w].pc = "unbind" /\ Own(w) /\ con'[c].row = con[c].row
        /\ (Leaves(w) /\ job[w].kind = "start") \/ Moved(w, "up") \/ Moved(w, "rebind")
    BY <1>1, <1>12, UnbindDoes DEF Now
  <2> QED
    BY <1>1, <2>1, LeaveReplaces, MoveReplaces DEF Places
<1>13. CASE Rebind(w)
  <2>1. /\ job[w].pc = "rebind" /\ Own(w) /\ con'[c].row = con[c].row
        /\ (Leaves(w) /\ job[w].kind = "start") \/ Moved(w, "up")
    BY <1>1, <1>13, RebindDoes DEF Now
  <2> QED
    BY <1>1, <2>1, LeaveReplaces, MoveReplaces DEF Places
<1>14. CASE Erase(w)
  <2>1. /\ job[w].pc = "erase" /\ Own(w) /\ ~con'[c].row
        /\ Moved(w, "read") \/ Moved(w, "unflag")
    BY <1>1, <1>14, EraseDoes DEF Now
  <2>2. CASE Moved(w, "read")
    BY <1>1, <2>1, <2>2, MoveReplaces DEF Places
  <2>3. CASE Moved(w, "unflag")
    BY <1>1, <2>1, <2>3, OwnReplaces DEF Places
  <2> QED
    BY <2>1, <2>2, <2>3
<1>15. CASE Write(w)
  <2>1. /\ job[w].pc = "write" /\ Own(w) /\ Same(c)
        /\ \/ Leaves(w) /\ job[w].kind # "migrate"
           \/ \E p \in {"reset", "launch", "halt", "migrations", "stop"} : Moved(w, p)
    BY <1>1, <1>15, WriteDoes
  <2>2. CASE Leaves(w) /\ job[w].kind # "migrate"
    BY <1>1, <2>1, <2>2, LeaveReplaces DEF Same, Now
  <2>3. ASSUME NEW p \in {"reset", "launch", "halt", "migrations", "stop"}, Moved(w, p)
        PROVE  Replacement'
    BY <1>1, <2>1, <2>3, MoveReplaces DEF Same, Now, Places
  <2> QED
    BY <2>1, <2>2, <2>3
<1> QED
  BY <1>3, <1>4, <1>5, <1>6, <1>7, <1>8, <1>9, <1>10, <1>11, <1>12, <1>13, <1>14, <1>15


\* Plan ends the job, or finds n, which is new, to replace the container.
LEMMA PlanDoes ==
  ASSUME IInv, NEW w \in Workers, NEW c, c = job[w].con, Plan(w)
  PROVE  /\ job[w].pc = "plan" /\ c \in Containers /\ Known(c) /\ Others(w)
         /\ UNCHANGED <<backends, published, mixed, overlap, missed>> /\ job[w].next = NoContainer
         /\ \A x \in Containers : Same(x)
         /\ \/ con' = con /\ Ended(w)
            \/ \E n \in Containers :
                  /\ Unused(n) /\ n # c
                  /\ \A x \in Containers \ {n} : con'[x] = con[x]
                  /\ con'[n].of = c /\ con'[n].copy = (job[w].kind = "copy")
                  /\ job'[w].host = NoHost
                  /\ \/ /\ job[w].kind = "copy" /\ job'[w].pc = "docker" /\ job'[w].con = n
                        /\ job'[w].kind = "create" /\ job'[w].next = NoContainer
                     \/ /\ job[w].kind = "migrate" /\ job'[w].pc = "mark" /\ job'[w].con = c
                        /\ job'[w].kind = "migrate" /\ job'[w].next = n
                        /\ job'[w].seen = Rows(con)
<1>1. /\ job[w].pc = "plan" /\ UNCHANGED <<backends, published, mixed, overlap, missed>>
      /\ job[w] \in JobType /\ JobShape(w)
      /\ job \in [Workers -> JobType] /\ con \in [Containers -> ConType]
  BY DEF Plan, At, history, IInv, Types
<1>2. c \in Containers /\ Known(c) /\ job[w].next = NoContainer /\ job[w].host = NoHost
  BY <1>1, OwnKnown DEF JobShape, ComeTo, HostKinds
<1>3. CASE End(w) /\ con' = con
  <2>1. Ended(w) /\ Others(w)
    BY <1>1, <1>3, Finished DEF Ended
  <2> QED
    BY <1>1, <1>2, <1>3, <2>1 DEF Same, Now
<1>4. CASE ~(End(w) /\ con' = con)
  <2>1. PICK n \in Containers :
             /\ Unused(n)
             /\ con' = [con EXCEPT ![n].of = c, ![n].asked = con[c].ip,
                                   ![n].copy = job[w].kind = "copy"]
             /\ job' = [job EXCEPT ![w] =
                    IF @.kind = "copy" THEN [Idle EXCEPT !.pc = "docker", !.kind = "create", !.con = n]
                    ELSE [@ EXCEPT !.pc = "mark", !.next = n, !.seen = Rows(con)]]
    BY <1>4 DEF Plan
  <2>2. n # c /\ con[n] \in ConType
    BY <1>1, <1>2, <2>1 DEF Unused, Known
  <2>3. PICK y \in BOOLEAN : y = (job[w].kind = "copy")
    OBVIOUS
  <2>4. con' = [con EXCEPT ![n].of = c, ![n].asked = con[c].ip, ![n].copy = y]
    BY <2>1, <2>3
  <2>5. /\ \A x \in Containers \ {n} : con'[x] = con[x]
        /\ con'[n].of = c /\ con'[n].copy = y
        /\ con'[n].row = con[n].row /\ con'[n].alive = con[n].alive
        /\ con'[n].removal = con[n].removal /\ con'[n].ip = con[n].ip
    BY <1>1, <2>2, <2>4 DEF ConType
  <2>6. \A x \in Containers : Same(x)
    BY <2>5 DEF Same, Now
  <2>7. PICK S : S = Rows(con)
    OBVIOUS
  <2>8. CASE job[w].kind = "copy"
    <3> DEFINE j == [Idle EXCEPT !.pc = "docker", !.kind = "create", !.con = n]
    <3>1. job' = [job EXCEPT ![w] = j]
      BY <1>1, <2>1, <2>8
    <3>2. j.pc = "docker" /\ j.con = n /\ j.kind = "create" /\ j.next = NoContainer /\ j.host = NoHost
      BY DEF Idle
    <3> HIDE DEF j
    <3>3. Others(w) /\ job'[w] = j
      BY <1>1, <3>1 DEF Others
    <3> QED
      BY <1>1, <1>2, <2>1, <2>2, <2>3, <2>5, <2>6, <2>8, <3>2, <3>3
  <2>9. CASE job[w].kind # "copy"
    <3>1. job[w].kind = "migrate"
      BY <1>1, <2>9 DEF JobShape, ComeTo
    <3>2. job' = [job EXCEPT ![w].pc = "mark", ![w].next = n, ![w].seen = S]
      BY <1>1, <2>1, <2>7, <2>9
    <3>3. /\ Others(w) /\ job'[w].pc = "mark" /\ job'[w].con = c /\ job'[w].next = n
          /\ job'[w].kind = job[w].kind /\ job'[w].seen = S /\ job'[w].host = job[w].host
      BY <1>1, <3>2 DEF Others, JobType
    <3> QED
      BY <1>1, <1>2, <2>1, <2>2, <2>3, <2>5, <2>6, <2>7, <3>1, <3>3
  <2> QED
    BY <2>8, <2>9
<1> QED
  BY <1>3, <1>4

LEMMA PlanReplaces ==
  ASSUME IInv, Replacement, NEW w \in Workers, Plan(w)
  PROVE  Replacement'
<1>0. PICK c : c = job[w].con
  OBVIOUS
<1>1. /\ job[w].pc = "plan" /\ c \in Containers /\ Known(c) /\ Others(w) /\ mixed' = mixed
      /\ job[w].next = NoContainer /\ \A x \in Containers : con'[x].row = con[x].row
  BY <1>0, PlanDoes DEF Same, Now
<1>2. \A v \in Workers \ {w} : job'[v] = job[v]
  BY <1>1 DEF Others
<1> SUFFICES ASSUME NEW x \in Containers \ mixed PROVE ReplacedAt(x)'
  BY <1>1 DEF Replacement
<1>3. ReplacedAt(x) /\ x # NoContainer
  BY LifecycleAssumption DEF Replacement
<1>4. CASE con' = con /\ Ended(w)
  <2>1. job'[w].con = NoContainer
    BY <1>4 DEF Ended, Idle
  <2>2. \A n \in Containers : Replaces(n, x)' <=> Replaces(n, x)
    BY <1>4 DEF Replaces
  <2>3. CASE x # c
    BY <1>0, <1>1, <1>2, <1>3, <2>1, <2>2, <2>3, AsideReplaced
  <2>4. CASE x = c
    <3>1. \A v \in Workers : job'[v].con # c
      BY <1>0, <1>2, <1>3, <2>1, <2>4 DEF ReplacedAt, LoneWorker
    <3>2. \A n \in Containers : ~Replaces(n, c)
      <4>1. con[c].row /\ \A v \in Workers : job[v].con = c => v = w
        BY <1>0, <1>1, <1>3, <2>4 DEF ReplacedAt, LoneWorker, At
      <4> QED
        BY <1>0, <1>1, <1>3, <2>4, <4>1, LifecycleAssumption DEF ReplacedAt, Moves
    <3> QED
      BY <2>2, <2>4, <3>1, <3>2 DEF ReplacedAt, LoneWorker
  <2> QED
    BY <2>3, <2>4
<1>5. ASSUME NEW n \in Containers, Unused(n), n # c,
             \A y \in Containers \ {n} : con'[y] = con[y],
             con'[n].of = c, con'[n].copy = (job[w].kind = "copy"),
             \/ job[w].kind = "copy" /\ job'[w].pc = "docker" /\ job'[w].con = n
             \/ /\ job[w].kind = "migrate" /\ job'[w].pc = "mark" /\ job'[w].con = c
                /\ job'[w].kind = "migrate" /\ job'[w].next = n
      PROVE  ReplacedAt(x)'
  <2>1. con[n].docker = "new" /\ \A v \in Workers : job[v].con # n /\ job[v].next # n
    BY <1>5 DEF Unused
  <2>2. \A m \in Containers : ~Replaces(m, n) /\ ~Replaces(m, n)'
    <3>1. \A m \in Containers : con[m].of # n
      BY <1>3, <2>1, LifecycleAssumption DEF IInv, ConFacts, Known
    <3> QED
      BY <1>5, <3>1 DEF Replaces
  <2>3. \A m \in Containers : Replaces(m, x)' => Replaces(m, x) \/ (m = n /\ x = c /\ job[w].kind # "copy")
    BY <1>5 DEF Replaces
  <2>4. CASE x = n
    BY <1>2, <1>5, <2>1, <2>2, <2>4 DEF ReplacedAt, LoneWorker, At
  <2>5. CASE x # n /\ x # c
    BY <1>0, <1>1, <1>2, <1>3, <1>5, <2>3, <2>5, AsideReplaced
  <2>6. CASE x = c
    <3>1. con[c].row /\ \A v \in Workers : job[v].con = c => v = w
      BY <1>0, <1>1, <1>3, <2>6 DEF ReplacedAt, LoneWorker, At
    <3>2. \A m \in Containers : ~Replaces(m, c)
      BY <1>0, <1>1, <1>3, <2>6, <3>1, LifecycleAssumption DEF ReplacedAt, Moves
    <3>3. \A v \in Workers : job'[v].con = c => v = w /\ job[w].kind = "migrate"
      BY <1>0, <1>2, <1>5, <2>6, <3>1
    <3>4. \A m \in Containers : Replaces(m, c)' => m = n /\ job[w].kind # "copy"
      BY <2>3, <2>6, <3>2
    <3>5. job[w].kind = "migrate" => Moves(w, c, n)' /\ job'[w].pc = "mark"
      BY <1>5 DEF Moves
    <3>6. job[w].kind \in {"migrate", "copy"}
      BY <1>5
    <3> QED
      BY <2>6, <3>3, <3>4, <3>5, <3>6 DEF ReplacedAt, LoneWorker, At
  <2> QED
    BY <2>4, <2>5, <2>6
<1> QED
  BY <1>0, <1>4, <1>5, PlanDoes


LEMMA TakeReplaces ==
  ASSUME IInv, Replacement, NEW w \in Workers, NEW k \in Kinds, NEW c \in Containers, NEW p \in Places,
         Take(w, k, c, p), p # "unflag", p = "plan" => con[c].row,
         \A x \in Containers : con'[x].row = con[x].row,
         \A n, x \in Containers : Replaces(n, x)' => Replaces(n, x)
  PROVE  Replacement'
<1>1. /\ Others(w) /\ At(w, "idle") /\ job'[w].pc = p /\ job'[w].con = c /\ mixed \subseteq mixed'
  BY Taken DEF IInv
<1>2. job[w].con = NoContainer
  BY <1>1, Idles
<1>3. c \notin mixed' => \A v \in Workers : job[v].con # c
  BY DEF Take
<1>4. \A v \in Workers \ {w} : job'[v] = job[v]
  BY <1>1 DEF Others
<1> SUFFICES ASSUME NEW x \in Containers \ mixed' PROVE ReplacedAt(x)'
  BY DEF Replacement
<1>5. ReplacedAt(x) /\ x # NoContainer
  BY <1>1, LifecycleAssumption DEF Replacement
<1>6. CASE x # c
  BY <1>1, <1>2, <1>4, <1>5, <1>6, AsideReplaced
<1>7. CASE x = c
  <2>1. \A v \in Workers : job[v].con # c /\ (job'[v].con = c => v = w)
    BY <1>3, <1>4, <1>7
  <2>2. \A n \in Containers : Replaces(n, c) => ~con[c].row
    BY <1>5, <1>7, <2>1 DEF ReplacedAt, Moves
  <2> QED
    BY <1>1, <1>5, <1>7, <2>1, <2>2 DEF ReplacedAt, LoneWorker, At
<1> QED
  BY <1>6, <1>7

\* No job on a container begins, moves or ends.
LEMMA QuietReplaces ==
  ASSUME IInv, Replacement, mixed \subseteq mixed',
         \A x \in Containers : con'[x].row = con[x].row,
         \A n, x \in Containers : Replaces(n, x)' => Replaces(n, x),
         \A v \in Workers : job'[v] = job[v] \/ (job[v].con = NoContainer /\ job'[v].con = NoContainer)
  PROVE  Replacement'
<1> SUFFICES ASSUME NEW x \in Containers \ mixed' PROVE ReplacedAt(x)'
  BY DEF Replacement
<1>1. ReplacedAt(x) /\ x # NoContainer
  BY LifecycleAssumption DEF Replacement
<1> QED
  BY <1>1, AsideReplaced

\* The steps of a request of a host.
LEMMA HostReplaces ==
  ASSUME IInv, Replacement, NEW w \in Workers,
         HostBackends(w) \/ HostCommit(w) \/ HostMigrations(w)
  PROVE  Replacement'
<1>1. /\ JobShape(w) /\ job[w].pc \in {"backends", "commit", "migrations"} /\ Stays(w)
      /\ con \in [Containers -> ConType]
  BY WorkStays DEF IInv, Types, Work, HostBackends, HostCommit, HostMigrations, At
<1>2. job[w].con = NoContainer
  BY <1>1, HostJob DEF JobShape, ComeTo, HostKinds
<1>3. job'[w].con = NoContainer
  <2>1. CASE End(w)
    BY <2>1, Finished DEF IInv, Types, Ended, Idle
  <2>2. CASE ~End(w)
    <3>1. job'[w].con = job[w].con
      <4>1. job \in [Workers -> JobType]
        BY DEF IInv, Types
      <4>2. CASE HostBackends(w)
        <5>1. PICK c \in job[w].rest :
                 job' = [job EXCEPT ![w].rest = @ \ {c},
                                    ![w].pc = IF job[w].rest = {c} THEN "commit" ELSE @]
          BY <2>2, <4>2 DEF HostBackends
        <5> QED
          BY <4>1, <5>1 DEF JobType
      <4>3. CASE HostCommit(w)
        <5> DEFINE R == {c \in Containers : job[w].kind = "hostkill" /\ con[c].row
                                               /\ HostOf[c] = job[w].host}
                   S == Rows(con')
        <5>1. job' = [job EXCEPT ![w].pc = "read", ![w].seen = S, ![w].rest = R]
          BY <2>2, <4>3 DEF HostCommit
        <5> HIDE DEF R, S
        <5> QED
          BY <4>1, <5>1 DEF JobType
      <4>4. CASE HostMigrations(w)
        <5>1. PICK c \in job[w].rest : job' = [job EXCEPT ![w].rest = @ \ {c}]
          BY <2>2, <4>4 DEF HostMigrations
        <5> QED
          BY <4>1, <5>1 DEF JobType
      <4> QED
        BY <4>2, <4>3, <4>4
    <3> QED
      BY <1>2, <3>1
  <2> QED
    BY <2>1, <2>2
<1>4. \A v \in Workers \ {w} : job'[v] = job[v]
  BY <1>1 DEF Stays, Others
<1>5. mixed \subseteq mixed'
  BY DEF HostBackends, HostCommit, HostMigrations, history
<1>6. /\ \A x \in Containers : con'[x].row = con[x].row
      /\ \A n, x \in Containers : Replaces(n, x)' => Replaces(n, x)
  <2>1. CASE con' = con
    BY <2>1 DEF Replaces
  <2>2. CASE HostCommit(w)
    <3>1. PICK a \in BOOLEAN : a = (job[w].kind # "hostkill")
      OBVIOUS
    <3>2. con' = [c \in Containers |-> IF c \in job[w].seen THEN [con[c] EXCEPT !.alive = a] ELSE con[c]]
      BY <2>2, <3>1 DEF HostCommit
    <3>3. \A x \in Containers : con'[x].row = con[x].row /\ con'[x].of = con[x].of
                                  /\ con'[x].copy = con[x].copy
      BY <1>1, <3>2 DEF ConType
    <3> QED
      BY <3>3 DEF Replaces
  <2> QED
    BY <2>1, <2>2 DEF HostBackends, HostMigrations
<1> QED
  BY <1>2, <1>3, <1>4, <1>5, <1>6, QuietReplaces

LEMMA EventsReplace ==
  ASSUME IInv, Replacement, NEW c \in Containers,
         Die(c) \/ Delete(c) \/ Restart(c) \/ ReportUnknown(c)
  PROVE  Replacement'
<1>1. /\ con \in [Containers -> ConType] /\ job' = job /\ mixed' = mixed
  BY DEF IInv, Types, Die, Delete, Restart, ReportUnknown, history
<1>2. con' = con \/ \E d \in {"died", "removed", "running"} : con' = [con EXCEPT ![c].docker = d]
  BY DEF Die, Delete, Restart, ReportUnknown
<1>3. \A x \in Containers : con'[x].row = con[x].row /\ con'[x].of = con[x].of
                                  /\ con'[x].copy = con[x].copy
  BY <1>1, <1>2 DEF ConType
<1>4. \A n, x \in Containers : Replaces(n, x)' => Replaces(n, x)
  BY <1>3 DEF Replaces
<1> QED
  BY <1>1, <1>3, <1>4, QuietReplaces

LEMMA RequestsReplace ==
  ASSUME IInv, Replacement, NEW w \in Workers, NEW c \in Containers,
         \/ Deploy(w, c) \/ Start(w, c) \/ Stop(w, c) \/ Remove(w, c) \/ Report(w, c)
         \/ Migrate(w, c) \/ Copy(w, c)
  PROVE  Replacement'
<1>1. con \in [Containers -> ConType] /\ con[c] \in ConType
  BY DEF IInv, Types
<1>2. /\ \A x \in Containers : con'[x].row = con[x].row
      /\ \A n, x \in Containers : Replaces(n, x)' => Replaces(n, x)
  <2>1. CASE con' = con
    BY <2>1 DEF Replaces
  <2>2. CASE Deploy(w, c)
    <3>1. PICK asked \in BOOLEAN : con' = [con EXCEPT ![c].asked = asked]
      BY <2>2 DEF Deploy
    <3>2. \A x \in Containers : con'[x].row = con[x].row /\ con'[x].of = con[x].of
                                  /\ con'[x].copy = con[x].copy
      BY <1>1, <3>1 DEF ConType
    <3> QED
      BY <3>2 DEF Replaces
  <2> QED
    BY <2>1, <2>2 DEF Start, Stop, Remove, Report, Migrate, Copy
<1>3. CASE job' = job /\ mixed' = mixed
  BY <1>2, <1>3, QuietReplaces
<1>4. CASE \E k \in Kinds : \E p \in {"docker", "test", "down", "mark"} : Take(w, k, c, p)
  <2>1. PICK k \in Kinds, p \in {"docker", "test", "down", "mark"} : Take(w, k, c, p)
    BY <1>4
  <2>2. p \in Places /\ p # "unflag" /\ p # "plan"
    BY DEF Places
  <2> QED
    BY <1>2, <2>1, <2>2, TakeReplaces
<1>5. CASE con[c].row /\ \E k \in Kinds : Take(w, k, c, "plan")
  <2>1. PICK k \in Kinds : Take(w, k, c, "plan")
    BY <1>5
  <2>2. "plan" \in Places /\ "plan" # "unflag"
    BY DEF Places
  <2> QED
    BY <1>2, <1>5, <2>1, <2>2, TakeReplaces
<1>6. {"create", "start", "stop", "remove", "kill", "cure", "migrate", "copy"} \subseteq Kinds
  BY DEF Kinds
<1> QED
  BY <1>3, <1>4, <1>5, <1>6 DEF Deploy, Start, Stop, Remove, Report, Migrate, Copy, history

LEMMA HostStatusReplaces ==
  ASSUME IInv, Replacement, NEW w \in Workers, NEW h \in Hosts, NEW k \in HostKinds, HostStatus(w, h, k)
  PROVE  Replacement'
<1>1. /\ At(w, "idle") /\ con' = con /\ mixed \subseteq mixed'
  BY DEF HostStatus, stores
<1>2. job \in [Workers -> JobType] /\ job[w].con = NoContainer
  BY <1>1, Idles DEF IInv, Types
<1>3. \A v \in Workers \ {w} : job'[v] = job[v]
  BY <1>2 DEF HostStatus
<1>4. job'[w].con = NoContainer
  <2> DEFINE here == {c \in Containers : con[c].row /\ HostOf[c] = h}
             S == {c \in here : con[c].alive = (k = "hostkill")}
             j == [Idle EXCEPT !.pc = "backends", !.kind = k, !.host = h, !.seen = S, !.rest = here]
  <2>1. job' = [job EXCEPT ![w] = j]
    BY DEF HostStatus
  <2>2. j.con = NoContainer
    BY DEF Idle
  <2> HIDE DEF j
  <2> QED
    BY <1>2, <2>1, <2>2
<1>5. \A n, x \in Containers : Replaces(n, x)' => Replaces(n, x)
  BY <1>1 DEF Replaces
<1> QED
  BY <1>1, <1>2, <1>3, <1>4, <1>5, QuietReplaces

LEMMA WorkReplaces ==
  ASSUME IInv, Replacement, "migration" \notin Faults, NEW w \in Workers, Work(w)
  PROVE  Replacement'
BY StepsReplace, EndsReplace, PlanReplaces, HostReplaces, Zenon DEF Work

LEMMA NextReplaces ==
  ASSUME IInv, Replacement, "migration" \notin Faults, [Next]_vars
  PROVE  Replacement'
<1>1. CASE Event
  <2>1. PICK c \in Containers :
          \/ Die(c) \/ Delete(c)
          \/ \E w \in Workers : Deploy(w, c) \/ Start(w, c) \/ Stop(w, c) \/ Remove(w, c)
             \/ HostStatus(w, HostOf[c], "hostkill") \/ HostStatus(w, HostOf[c], "hostcure")
    BY <1>1 DEF Event
  <2>2. HostOf[c] \in Hosts /\ "hostkill" \in HostKinds /\ "hostcure" \in HostKinds
    BY LifecycleAssumption DEF HostKinds
  <2> QED
    BY <2>1, <2>2, EventsReplace, RequestsReplace, HostStatusReplaces, Zenon
<1>2. CASE Consequence
  BY <1>2, WorkReplaces, RequestsReplace, EventsReplace, Zenon DEF Consequence
<1>3. CASE AllDone \/ UNCHANGED vars
  <2>1. job' = job /\ con' = con /\ mixed' = mixed
    BY <1>3 DEF AllDone, vars, stores, history
  <2>2. \A n, x \in Containers : Replaces(n, x)' => Replaces(n, x)
    BY <2>1 DEF Replaces
  <2> QED
    BY <2>1, <2>2, QuietReplaces
<1> QED
  BY <1>1, <1>2, <1>3 DEF Next

LEMMA InitReplaces == Init => Replacement
<1> SUFFICES ASSUME Init PROVE Replacement
  OBVIOUS
<1>1. \A w \in Workers : job[w].con = NoContainer
  BY DEF Init, Idle
<1>2. \A n \in Containers : con[n].of = NoContainer
  BY DEF Init, New
<1> QED
  BY <1>1, <1>2, LifecycleAssumption DEF Replacement, ReplacedAt, LoneWorker, Replaces

(* Unless a removal fails on the way of a migration, a container has one   *)
(* replacement at most, however often it is reported dead: as long as      *)
(* no two jobs work on it at once, whoever comes to migrate it again finds *)
(* that it is recorded no more.                                            *)
THEOREM OneReplacement == "migration" \notin Faults => (Spec => []ReplacedOnce)
<1> SUFFICES ASSUME "migration" \notin Faults PROVE Spec => []ReplacedOnce
  OBVIOUS
<1>1. IInv /\ Replacement /\ [Next]_vars => (IInv /\ Replacement)'
  BY NextKeeps, NextReplaces
<1>2. IInv /\ Replacement => ReplacedOnce
  BY DEF Replacement, ReplacedAt, Replaces, ReplacedOnce
<1> QED
  BY <1>1, <1>2, InitOK, InitReplaces, PTL DEF Spec


-----------------------------------------------------------------------------
(* Backends.                                                               *)

Agree(c) ==
    /\ con[c].row /\ con[c].alive /\ ~con[c].removal /\ con[c].ip => c \in backends
    /\ c \in backends => con[c].row /\ con[c].alive /\ con[c].ip

\* The request of a host will change the row of c, or has not come to it.
Held(v, c) == Open(v) /\ c \in job[v].seen \cup job[v].rest

\* The backends of c are changed, the row is not.
Flipped(v, c) == Open(v) /\ c \in job[v].seen \ job[v].rest

\* The backends follow.
Settling(p, k) == p \in {"list", "unlist"} \/ (p = "rebind" /\ k = "start")

\* What a job of kind k knows at p of its container when nobody else works on it.
Fits(p, k, c) ==
    /\ ~Settling(p, k) => Agree(c)
    /\ k = "create" /\ p \notin {"docker", "boot", "row", "read", "write"} => con[c].row
    /\ k # "create" /\ p # "unflag" => con[c].row
    /\ p = "network" => con[c].alive /\ ~con[c].ip /\ ~con[c].removal
    /\ p = "list" => con[c].alive
    /\ p \in {"list", "unlist"} => con[c].ip \/ c \notin backends
    /\ p \in {"unlist", "read", "write", "reset"} /\ k = "kill" => ~con[c].alive
    /\ p = "unlist" /\ k = "stop" => ~con[c].alive
    /\ p \in {"flag", "unlist", "read", "write"} /\ k \in {"remove", "migrate"} => con[c].removal
    /\ p \in {"read", "write"} /\ k \in {"remove", "migrate"} => c \notin backends
    /\ p \in {"stop", "release", "forget", "erase"} =>
          c \notin backends /\ (con[c].removal \/ ~con[c].ip)
    /\ p \in {"forget", "erase"} => ~con[c].ip
    /\ p \in {"unbind", "rebind"} /\ k = "cure" => ~con[c].alive
    /\ p = "up" => ~con[c].alive
    /\ p \in {"read", "write", "launch", "unbind", "rebind"} /\ k = "start" => con[c].alive
    /\ p = "rebind" /\ k = "start" => con[c].removal \/ c \in backends

ServedAt(c) ==
    /\ LoneWorker(c)
    /\ \A v, w \in Workers : Held(v, c) => job[w].con # c
    /\ \A w \in Workers : job[w].con = c => Fits(job[w].pc, job[w].kind, c)
    /\ \A v \in Workers : Held(v, c) =>
          /\ con[c].row
          /\ con[c].alive <=> (c \in job[v].seen <=> job[v].kind = "hostkill")
          /\ Flipped(v, c) => (c \in backends <=> job[v].kind # "hostkill" /\ con[c].ip)
    /\ (\A w \in Workers : ~Flipped(w, c) /\ job[w].con # c) => Agree(c)

Served ==
    /\ \A w \in Workers : At(w, "commit") => job[w].rest = {}
    /\ \A c \in Containers \ mixed : ServedAt(c)

LEMMA AsideServed ==
  ASSUME NEW c \in Containers, ServedAt(c), Same(c), c \in backends' <=> c \in backends,
         \A v \in Workers :
            /\ job'[v].con = c <=> job[v].con = c
            /\ job[v].con = c => job'[v].kind = job[v].kind /\ job'[v].pc = job[v].pc
            /\ Held(v, c)' <=> Held(v, c)
            /\ Held(v, c) => /\ job'[v].kind = job[v].kind
                             /\ c \in job'[v].seen <=> c \in job[v].seen
                             /\ c \in job'[v].rest <=> c \in job[v].rest
  PROVE  ServedAt(c)'
<1>1. /\ con'[c].row = con[c].row /\ con'[c].alive = con[c].alive
      /\ con'[c].removal = con[c].removal /\ con'[c].ip = con[c].ip
  BY DEF Same, Now
<1>2. Agree(c)' <=> Agree(c)
  BY <1>1 DEF Agree
<1>3. \A v \in Workers : Flipped(v, c)' <=> Flipped(v, c)
  BY DEF Flipped, Held, Open
<1>4. LoneWorker(c)'
  BY DEF ServedAt, LoneWorker
<1>5. ASSUME NEW w \in Workers, job'[w].con = c PROVE Fits(job[w].pc, job[w].kind, c)'
  <2>1. /\ Fits(job[w].pc, job[w].kind, c)
        /\ job'[w].kind = job[w].kind /\ job'[w].pc = job[w].pc
    BY <1>5 DEF ServedAt
  <2>2. PICK p, k : p = job[w].pc /\ k = job[w].kind
    OBVIOUS
  <2>3. Fits(p, k, c)'
    BY <1>1, <1>2, <2>1, <2>2 DEF Fits
  <2> QED
    BY <2>1, <2>2, <2>3
<1>6. \A v \in Workers : Held(v, c)' =>
          /\ con'[c].row
          /\ con'[c].alive <=> (c \in job'[v].seen <=> job'[v].kind = "hostkill")
          /\ Flipped(v, c)' => (c \in backends' <=> job'[v].kind # "hostkill" /\ con'[c].ip)
  BY <1>1, <1>3 DEF ServedAt
<1>7. \A v, w \in Workers : Held(v, c)' => job'[w].con # c
  BY DEF ServedAt
<1>8. (\A w \in Workers : ~Flipped(w, c)' /\ job'[w].con # c) => Agree(c)'
  BY <1>2, <1>3 DEF ServedAt
<1> QED
  BY <1>4, <1>5, <1>6, <1>7, <1>8 DEF ServedAt

\* Nobody but w is concerned with c after the step.
LEMMA MineServed ==
  ASSUME NEW c \in Containers, NEW w \in Workers, Others(w),
         \A v \in Workers \ {w} : job[v].con # c /\ ~Held(v, c),
         ~Held(w, c)',
         job'[w].con = c => Fits(job[w].pc, job[w].kind, c)',
         job'[w].con # c => Agree(c)'
  PROVE  ServedAt(c)'
<1>1. \A v \in Workers \ {w} : job'[v].con # c /\ ~Held(v, c)'
  BY DEF Others, Held, Open
<1>2. \A v \in Workers : ~Flipped(v, c)'
  BY <1>1 DEF Held, Flipped
<1> QED
  BY <1>1, <1>2 DEF ServedAt, LoneWorker

LEMMA OwnServes ==
  ASSUME IInv, IInv', Served, NEW w \in Workers, Own(w), NEW c, c = job[w].con,
         job[w].pc \notin {"idle", "plan", "backends", "commit"},
         \/ Leaves(w)
         \/ \E p \in Walk \cup {"boot", "row"} : Moved(w, p),
         c \in Containers \ mixed => 
            IF job'[w].con = c THEN Fits(job[w].pc, job[w].kind, c)' ELSE Agree(c)'
  PROVE  Served'
<1>1. /\ Types /\ JobShape(w) /\ JobFacts(w) /\ JobShape(w)' /\ Sole /\ job[w] \in JobType
      /\ \A v \in Workers : JobFacts(v)
      /\ \A x \in Containers : ConFacts(x)
  BY DEF IInv, Types
<1>2. /\ Others(w) /\ mixed' = mixed
      /\ \A x \in Containers \ {c} : con'[x] = con[x] /\ (x \in backends' <=> x \in backends)
  BY DEF Own
<1>3. \/ job'[w].con = c /\ ~Open(w)' /\ job'[w].pc # "commit"
      \/ job'[w].con = NoContainer /\ ~Open(w)' /\ job'[w].pc # "commit"
      \/ /\ job[w].kind = "migrate" /\ job'[w].con = job[w].next /\ ~Open(w)'
         /\ job[w].next \in Containers /\ job[w].next # NoContainer
         /\ Making(w) = job[w].next /\ job'[w].pc = "docker" /\ job'[w].kind = "create"
  <2>1. CASE Leaves(w) /\ job[w].kind # "migrate"
    BY <2>1 DEF Leaves, Ended, Idle, Open
  <2>2. CASE Leaves(w) /\ job[w].kind = "migrate"
    <3>1. job'[w].con = job[w].next /\ job'[w].pc = "docker" /\ job'[w].kind = "create"
      BY <2>2 DEF Leaves, Turned, Idle
    <3>2. job[w].next # NoContainer /\ job[w].next \in Containers /\ Making(w) = job[w].next
      BY <1>1, <2>2 DEF JobShape, ComeTo, JobType, Making
    <3> QED
      BY <2>2, <3>1, <3>2 DEF Open
  <2>3. ASSUME NEW p \in Walk \cup {"boot", "row"}, Moved(w, p)
        PROVE  job'[w].con = c /\ ~Open(w)' /\ job'[w].pc # "commit"
    BY <2>3 DEF Moved, Open, Walk
  <2> QED
    BY <2>1, <2>2, <2>3
<1>4. \A v \in Workers \ {w} : job'[v] = job[v]
  BY <1>2 DEF Others
<1>5. ~Open(w)
  BY DEF Open
<1>6. \A v \in Workers : At(v, "commit")' => job'[v].rest = {}
  BY <1>3, <1>4 DEF Served, At
<1> SUFFICES ASSUME NEW x \in Containers \ mixed PROVE ServedAt(x)'
  BY <1>2, <1>6 DEF Served
<1>7. ServedAt(x) /\ x # NoContainer
  BY LifecycleAssumption DEF Served
<1>8. CASE x # c /\ job'[w].con # x
  <2>1. Same(x) /\ (x \in backends' <=> x \in backends)
    BY <1>2, <1>8 DEF Same, Now
  <2>2. ~Held(w, x) /\ ~Held(w, x)'
    BY <1>3, <1>5 DEF Held, Open
  <2>3. \A v \in Workers \ {w} : Held(v, x)' <=> Held(v, x)
    BY <1>4 DEF Held, Open
  <2> QED
    BY <1>4, <1>7, <1>8, <2>1, <2>2, <2>3, AsideServed
<1>9. CASE x = c
  <2>1. \A v \in Workers \ {w} : job[v].con # c /\ ~Held(v, c)
    BY <1>7, <1>9 DEF ServedAt, LoneWorker
  <2>2. ~Held(w, c)'
    BY <1>3 DEF Held, Open
  <2> QED
    BY <1>2, <1>9, <2>1, <2>2, MineServed
<1>10. CASE x # c /\ job'[w].con = x
  <2>1. job[w].next = x /\ job'[w].pc = "docker" /\ Making(w) = x /\ job'[w].kind = "create"
    BY <1>3, <1>7, <1>10
  <2>2. con[x].docker = "new"
    BY <1>1, <1>7, <2>1 DEF JobFacts
  <2>3. Blank(x)
    BY <1>1, <2>2 DEF ConFacts, Known
  <2>4. \A v \in Workers \ {w} : job[v].con # x
    BY <1>1, <1>7, <2>1 DEF Sole
  <2>5. ASSUME NEW v \in Workers PROVE ~Held(v, x)
    BY <1>1, <2>2 DEF JobFacts, Held, Known
  <2>6. ~Held(w, x)'
    BY <1>3 DEF Held, Open
  <2>7. Agree(x)' /\ ~con'[x].row /\ x \notin backends'
    BY <1>2, <1>10, <2>3 DEF Blank, Agree
  <2>8. Fits(job[w].pc, job[w].kind, x)'
    BY <2>1, <2>7 DEF Fits, Settling
  <2> QED
    BY <1>2, <1>10, <2>4, <2>5, <2>6, <2>8, MineServed
<1> QED
  BY <1>8, <1>9, <1>10


LEMMA MoveServes ==
  ASSUME IInv, IInv', Served, NEW w \in Workers, Own(w), NEW c, c = job[w].con,
         job[w].pc \notin {"idle", "plan", "backends", "commit"},
         NEW p \in Walk \cup {"boot", "row"}, Moved(w, p), NEW k, k = job[w].kind,
         c \in Containers \ mixed /\ Fits(job[w].pc, k, c) => Fits(p, k, c)'
  PROVE  Served'
<1>1. job'[w].con = c /\ job'[w].pc = p /\ job'[w].kind = k
  BY DEF Moved
<1>2. c \in Containers \ mixed => Fits(job[w].pc, k, c)
  BY DEF Served, ServedAt
<1>3. c \in Containers \ mixed => Fits(job[w].pc, job[w].kind, c)'
  BY <1>1, <1>2
<1> QED
  BY <1>1, <1>3, OwnServes

LEMMA LeaveServes ==
  ASSUME IInv, IInv', Served, NEW w \in Workers, Own(w), NEW c, c = job[w].con,
         job[w].pc \notin {"idle", "plan", "backends", "commit", "docker", "boot", "row"},
         Leaves(w), NEW k, k = job[w].kind,
         c \in Containers \ mixed /\ Fits(job[w].pc, k, c) => Agree(c)'
  PROVE  Served'
<1>1. c \in Containers \ mixed => Agree(c)'
  BY DEF Served, ServedAt
<1>2. c \in Containers => job'[w].con # c
  <2>1. JobShape(w) /\ JobFacts(w) /\ job[w] \in JobType
    BY DEF IInv, Types
  <2>2. CASE job[w].kind # "migrate"
    BY <2>2, LifecycleAssumption DEF Leaves, Ended, Idle
  <2>3. CASE job[w].kind = "migrate"
    <3>1. job'[w].con = job[w].next
      BY <2>3 DEF Leaves, Turned, Idle
    <3>2. c \in Containers => con[c].docker # "new"
      BY <2>1, <2>3, LifecycleAssumption DEF JobFacts, Known
    <3>3. con[job[w].next].docker = "new"
      BY <2>1, <2>3 DEF JobShape, JobFacts, ComeTo
    <3> QED
      BY <3>1, <3>2, <3>3
  <2> QED
    BY <2>2, <2>3
<1> QED
  BY <1>1, <1>2, OwnServes


LEMMA DownServes ==
  ASSUME IInv, IInv', Served, NEW w \in Workers, Down(w)
  PROVE  Served'
<1>1. PICK c, k : c = job[w].con /\ k = job[w].kind
  OBVIOUS
<1>2. /\ job[w].pc = "down" /\ c \in Containers /\ Own(w) /\ Moved(w, "unlist")
      /\ con[c].row /\ Now(c, con[c].row, FALSE, con[c].removal, con[c].ip) /\ backends' = backends
  BY <1>1, DownDoes
<1>3. "unlist" \in Walk \cup {"boot", "row"} /\ ComeTo("down", k)
  BY <1>1, <1>2 DEF Walk, Places, IInv, JobShape
<1>4. c \in Containers /\ Fits("down", k, c) => Fits("unlist", k, c)'
  BY <1>1, <1>2, <1>3 DEF Fits, Agree, Settling, ComeTo, Now, Same
<1> QED
  BY <1>1, <1>2, <1>3, <1>4, MoveServes

LEMMA UpServes ==
  ASSUME IInv, IInv', Served, NEW w \in Workers, Up(w)
  PROVE  Served'
<1>1. PICK c, k : c = job[w].con /\ k = job[w].kind
  OBVIOUS
<1>2. /\ job[w].pc = "up" /\ c \in Containers /\ Own(w) /\ Moved(w, "list")
      /\ con[c].row /\ Now(c, con[c].row, TRUE, con[c].removal, con[c].ip) /\ backends' = backends
  BY <1>1, UpDoes
<1>3. "list" \in Walk \cup {"boot", "row"} /\ ComeTo("up", k)
  BY <1>1, <1>2 DEF Walk, Places, IInv, JobShape
<1>4. c \in Containers /\ Fits("up", k, c) => Fits("list", k, c)'
  BY <1>1, <1>2, <1>3 DEF Fits, Agree, Settling, ComeTo, Now, Same
<1> QED
  BY <1>1, <1>2, <1>3, <1>4, MoveServes

LEMMA MarkServes ==
  ASSUME IInv, IInv', Served, NEW w \in Workers, Mark(w)
  PROVE  Served'
<1>1. PICK c, k : c = job[w].con /\ k = job[w].kind
  OBVIOUS
<1>2. /\ job[w].pc = "mark" /\ c \in Containers /\ Own(w) /\ Moved(w, "flag")
      /\ con[c].row /\ Now(c, con[c].row, con[c].alive, TRUE, con[c].ip) /\ backends' = backends
  BY <1>1, MarkDoes
<1>3. "flag" \in Walk \cup {"boot", "row"} /\ ComeTo("mark", k)
  BY <1>1, <1>2 DEF Walk, Places, IInv, JobShape
<1>4. c \in Containers /\ Fits("mark", k, c) => Fits("flag", k, c)'
  BY <1>1, <1>2, <1>3 DEF Fits, Agree, Settling, ComeTo, Now, Same
<1> QED
  BY <1>1, <1>2, <1>3, <1>4, MoveServes

LEMMA ReleaseServes ==
  ASSUME IInv, IInv', Served, NEW w \in Workers, Release(w)
  PROVE  Served'
<1>1. PICK c, k : c = job[w].con /\ k = job[w].kind
  OBVIOUS
<1>2. /\ job[w].pc = "release" /\ c \in Containers /\ Own(w) /\ Moved(w, "forget")
      /\ Now(c, con[c].row, con[c].alive, con[c].removal, FALSE) /\ backends' = backends
  BY <1>1, ReleaseDoes
<1>3. "forget" \in Walk \cup {"boot", "row"} /\ ComeTo("release", k)
  BY <1>1, <1>2 DEF Walk, Places, IInv, JobShape
<1>4. c \in Containers /\ Fits("release", k, c) => Fits("forget", k, c)'
  BY <1>1, <1>2, <1>3 DEF Fits, Agree, Settling, ComeTo, Now, Same
<1> QED
  BY <1>1, <1>2, <1>3, <1>4, MoveServes

LEMMA ForgetServes ==
  ASSUME IInv, IInv', Served, NEW w \in Workers, Forget(w)
  PROVE  Served'
<1>1. PICK c, k : c = job[w].con /\ k = job[w].kind
  OBVIOUS
<1>2. /\ job[w].pc = "forget" /\ c \in Containers /\ Own(w) /\ Moved(w, "erase")
      /\ Now(c, con[c].row, con[c].alive, FALSE, con[c].ip) /\ backends' = backends
  BY <1>1, ForgetDoes
<1>3. "erase" \in Walk \cup {"boot", "row"} /\ ComeTo("forget", k)
  BY <1>1, <1>2 DEF Walk, Places, IInv, JobShape
<1>4. c \in Containers /\ Fits("forget", k, c) => Fits("erase", k, c)'
  BY <1>1, <1>2, <1>3 DEF Fits, Agree, Settling, ComeTo, Now, Same
<1> QED
  BY <1>1, <1>2, <1>3, <1>4, MoveServes

LEMMA NetworkServes ==
  ASSUME IInv, IInv', Served, NEW w \in Workers, Network(w)
  PROVE  Served'
<1>1. PICK c, k : c = job[w].con /\ k = job[w].kind
  OBVIOUS
<1>2. /\ job[w].pc = "network" /\ c \in Containers /\ Own(w) /\ Moved(w, "list")
      /\ con[c].row /\ Now(c, con[c].row, con[c].alive, con[c].removal, con[c].asked) /\ backends' = backends
  BY <1>1, NetworkDoes
<1>3. "list" \in Walk \cup {"boot", "row"} /\ ComeTo("network", k)
  BY <1>1, <1>2 DEF Walk, Places, IInv, JobShape
<1>4. c \in Containers /\ Fits("network", k, c) => Fits("list", k, c)'
  BY <1>1, <1>2, <1>3 DEF Fits, Agree, Settling, ComeTo, Now, Same
<1> QED
  BY <1>1, <1>2, <1>3, <1>4, MoveServes

LEMMA DockerRemovesServes ==
  ASSUME IInv, IInv', Served, NEW w \in Workers, DockerRemoves(w)
  PROVE  Served'
<1>1. PICK c, k : c = job[w].con /\ k = job[w].kind
  OBVIOUS
<1>2. /\ job[w].pc = "stop" /\ c \in Containers /\ Own(w) /\ Moved(w, "release")
      /\ Now(c, con[c].row, con[c].alive, con[c].removal, con[c].ip) /\ backends' = backends
  BY <1>1, DockerRemovesDoes
<1>3. "release" \in Walk \cup {"boot", "row"} /\ ComeTo("stop", k)
  BY <1>1, <1>2 DEF Walk, Places, IInv, JobShape
<1>4. c \in Containers /\ Fits("stop", k, c) => Fits("release", k, c)'
  BY <1>1, <1>2, <1>3 DEF Fits, Agree, Settling, ComeTo, Now, Same
<1> QED
  BY <1>1, <1>2, <1>3, <1>4, MoveServes

LEMMA ResetServes ==
  ASSUME IInv, IInv', Served, NEW w \in Workers, Reset(w)
  PROVE  Served'
<1>1. PICK c, k : c = job[w].con /\ k = job[w].kind
  OBVIOUS
<1>2. /\ job[w].pc = "reset" /\ c \in Containers /\ Own(w) /\ Moved(w, "enqueue")
      /\ (\E m \in BOOLEAN : Now(c, con[c].row, con[c].alive, m, con[c].ip)) /\ backends' = backends
  BY <1>1, ResetDoes
<1>3. "enqueue" \in Walk \cup {"boot", "row"} /\ ComeTo("reset", k)
  BY <1>1, <1>2 DEF Walk, Places, IInv, JobShape
<1>4. c \in Containers /\ Fits("reset", k, c) => Fits("enqueue", k, c)'
  BY <1>1, <1>2, <1>3 DEF Fits, Agree, Settling, ComeTo, Now, Same
<1> QED
  BY <1>1, <1>2, <1>3, <1>4, MoveServes

LEMMA UnlistServes ==
  ASSUME IInv, IInv', Served, NEW w \in Workers, Unlist(w)
  PROVE  Served'
<1>1. PICK c, k : c = job[w].con /\ k = job[w].kind
  OBVIOUS
<1>2. /\ job[w].pc = "unlist" /\ c \in Containers /\ Own(w) /\ Moved(w, "read")
      /\ Same(c) /\ (c \in backends' <=> ~con[c].ip /\ c \in backends)
  BY <1>1, UnlistDoes
<1>3. "read" \in Walk \cup {"boot", "row"} /\ ComeTo("unlist", k)
  BY <1>1, <1>2 DEF Walk, Places, IInv, JobShape
<1>4. c \in Containers /\ Fits("unlist", k, c) => Fits("read", k, c)'
  BY <1>1, <1>2, <1>3 DEF Fits, Agree, Settling, ComeTo, Now, Same
<1> QED
  BY <1>1, <1>2, <1>3, <1>4, MoveServes

LEMMA SetFlagServes ==
  ASSUME IInv, IInv', Served, NEW w \in Workers, SetFlag(w)
  PROVE  Served'
<1>1. PICK c, k : c = job[w].con /\ k = job[w].kind
  OBVIOUS
<1>2. /\ job[w].pc = "flag" /\ c \in Containers /\ Own(w) /\ Moved(w, "unlist")
      /\ Same(c) /\ backends' = backends
  BY <1>1, SetFlagDoes
<1>3. "unlist" \in Walk \cup {"boot", "row"} /\ ComeTo("flag", k)
  BY <1>1, <1>2 DEF Walk, Places, IInv, JobShape
<1>4. c \in Containers /\ Fits("flag", k, c) => Fits("unlist", k, c)'
  BY <1>1, <1>2, <1>3 DEF Fits, Agree, Settling, ComeTo, Now, Same
<1> QED
  BY <1>1, <1>2, <1>3, <1>4, MoveServes

LEMMA DockerCreatesServes ==
  ASSUME IInv, IInv', Served, NEW w \in Workers, DockerCreates(w)
  PROVE  Served'
<1>1. PICK c, k : c = job[w].con /\ k = job[w].kind
  OBVIOUS
<1>2. /\ job[w].pc = "docker" /\ c \in Containers /\ Own(w) /\ Moved(w, "boot")
      /\ Now(c, con[c].row, con[c].alive, con[c].removal, con[c].ip) /\ backends' = backends
  BY <1>1, DockerCreatesDoes
<1>3. "boot" \in Walk \cup {"boot", "row"} /\ ComeTo("docker", k)
  BY <1>1, <1>2 DEF Walk, Places, IInv, JobShape
<1>4. c \in Containers /\ Fits("docker", k, c) => Fits("boot", k, c)'
  BY <1>1, <1>2, <1>3 DEF Fits, Agree, Settling, ComeTo, Now, Same
<1> QED
  BY <1>1, <1>2, <1>3, <1>4, MoveServes

LEMMA DockerStartsServes ==
  ASSUME IInv, IInv', Served, NEW w \in Workers, DockerStarts(w)
  PROVE  Served'
<1>1. PICK c, k : c = job[w].con /\ k = job[w].kind
  OBVIOUS
<1>2. /\ job[w].pc = "boot" /\ c \in Containers /\ Own(w) /\ Moved(w, "row")
      /\ Now(c, con[c].row, con[c].alive, con[c].removal, con[c].ip) /\ backends' = backends
  BY <1>1, DockerStartsDoes
<1>3. "row" \in Walk \cup {"boot", "row"} /\ ComeTo("boot", k)
  BY <1>1, <1>2 DEF Walk, Places, IInv, JobShape
<1>4. c \in Containers /\ Fits("boot", k, c) => Fits("row", k, c)'
  BY <1>1, <1>2, <1>3 DEF Fits, Agree, Settling, ComeTo, Now, Same
<1> QED
  BY <1>1, <1>2, <1>3, <1>4, MoveServes

LEMMA ReadServes ==
  ASSUME IInv, IInv', Served, NEW w \in Workers, Read(w)
  PROVE  Served'
<1>1. PICK c, k : c = job[w].con /\ k = job[w].kind
  OBVIOUS
<1>2. /\ job[w].pc = "read" /\ Own(w)
      /\ Same(c)
      /\ backends' = backends
      /\ Moved(w, "write")
  BY <1>1, ReadDoes
<1>3. ComeTo("read", k)
  BY <1>1, <1>2 DEF IInv, JobShape
<1>4. CASE Moved(w, "write")
  <2>1. "write" \in Walk \cup {"boot", "row"}
    BY DEF Walk, Places
  <2>2. c \in Containers /\ Fits("read", k, c) => Fits("write", k, c)'
    BY <1>1, <1>2, <1>3, <1>4 DEF Fits, Agree, Settling, ComeTo, Now, Same
  <2> QED
    BY <1>1, <1>2, <1>4, <2>1, <2>2, MoveServes
<1> QED
  BY <1>1, <1>2, <1>4

LEMMA WriteServes ==
  ASSUME IInv, IInv', Served, NEW w \in Workers, Write(w)
  PROVE  Served'
<1>1. PICK c, k : c = job[w].con /\ k = job[w].kind
  OBVIOUS
<1>2. /\ job[w].pc = "write" /\ Own(w)
      /\ Same(c)
      /\ backends' = backends
      /\ \/ k \in {"create", "cure", "hostcure"} /\ Leaves(w)
         \/ k = "kill" /\ Moved(w, "reset")
         \/ k = "start" /\ Moved(w, "launch")
         \/ k = "stop" /\ Moved(w, "halt")
         \/ k = "hostkill" /\ Moved(w, "migrations")
         \/ k \in {"remove", "migrate"} /\ Moved(w, "stop")
  BY <1>1, WriteDoes
<1>3. ComeTo("write", k)
  BY <1>1, <1>2 DEF IInv, JobShape
<1>4. CASE Moved(w, "reset") /\ k = "kill"
  <2>1. "reset" \in Walk \cup {"boot", "row"}
    BY DEF Walk, Places
  <2>2. c \in Containers /\ Fits("write", k, c) => Fits("reset", k, c)'
    BY <1>1, <1>2, <1>3, <1>4 DEF Fits, Agree, Settling, ComeTo, Now, Same
  <2> QED
    BY <1>1, <1>2, <1>4, <2>1, <2>2, MoveServes
<1>5. CASE Moved(w, "launch") /\ k = "start"
  <2>1. "launch" \in Walk \cup {"boot", "row"}
    BY DEF Walk, Places
  <2>2. c \in Containers /\ Fits("write", k, c) => Fits("launch", k, c)'
    BY <1>1, <1>2, <1>3, <1>5 DEF Fits, Agree, Settling, ComeTo, Now, Same
  <2> QED
    BY <1>1, <1>2, <1>5, <2>1, <2>2, MoveServes
<1>6. CASE Moved(w, "halt") /\ k = "stop"
  <2>1. "halt" \in Walk \cup {"boot", "row"}
    BY DEF Walk, Places
  <2>2. c \in Containers /\ Fits("write", k, c) => Fits("halt", k, c)'
    BY <1>1, <1>2, <1>3, <1>6 DEF Fits, Agree, Settling, ComeTo, Now, Same
  <2> QED
    BY <1>1, <1>2, <1>6, <2>1, <2>2, MoveServes
<1>7. CASE Moved(w, "migrations") /\ k = "hostkill"
  <2>1. "migrations" \in Walk \cup {"boot", "row"}
    BY DEF Walk, Places
  <2>2. c \in Containers /\ Fits("write", k, c) => Fits("migrations", k, c)'
    BY <1>1, <1>2, <1>3, <1>7 DEF Fits, Agree, Settling, ComeTo, Now, Same
  <2> QED
    BY <1>1, <1>2, <1>7, <2>1, <2>2, MoveServes
<1>8. CASE Moved(w, "stop") /\ k \in {"remove", "migrate"}
  <2>1. "stop" \in Walk \cup {"boot", "row"}
    BY DEF Walk, Places
  <2>2. c \in Containers /\ Fits("write", k, c) => Fits("stop", k, c)'
    BY <1>1, <1>2, <1>3, <1>8 DEF Fits, Agree, Settling, ComeTo, Now, Same
  <2> QED
    BY <1>1, <1>2, <1>8, <2>1, <2>2, MoveServes
<1>9. CASE Leaves(w) /\ k \in {"create", "cure", "hostcure"}
  <2>1. c \in Containers /\ Fits("write", k, c) => Agree(c)'
    BY <1>1, <1>2, <1>3, <1>9 DEF Fits, Agree, Settling, ComeTo, Now, Same
  <2> QED
    BY <1>1, <1>2, <1>9, <2>1, LeaveServes
<1> QED
  BY <1>1, <1>2, <1>4, <1>5, <1>6, <1>7, <1>8, <1>9

LEMMA ListServes ==
  ASSUME IInv, IInv', Served, NEW w \in Workers, List(w)
  PROVE  Served'
<1>1. PICK c, k : c = job[w].con /\ k = job[w].kind
  OBVIOUS
<1>2. /\ job[w].pc = "list" /\ Own(w)
      /\ Same(c)
      /\ (c \in backends' <=> con[c].ip \/ c \in backends)
      /\ IF k = "create" THEN Moved(w, "health") ELSE Moved(w, "read")
  BY <1>1, ListDoes
<1>3. ComeTo("list", k)
  BY <1>1, <1>2 DEF IInv, JobShape
<1>4. CASE Moved(w, "health") /\ k = "create"
  <2>1. "health" \in Walk \cup {"boot", "row"}
    BY DEF Walk, Places
  <2>2. c \in Containers /\ Fits("list", k, c) => Fits("health", k, c)'
    BY <1>1, <1>2, <1>3, <1>4 DEF Fits, Agree, Settling, ComeTo, Now, Same
  <2> QED
    BY <1>1, <1>2, <1>4, <2>1, <2>2, MoveServes
<1>5. CASE Moved(w, "read") /\ k # "create"
  <2>1. "read" \in Walk \cup {"boot", "row"}
    BY DEF Walk, Places
  <2>2. c \in Containers /\ Fits("list", k, c) => Fits("read", k, c)'
    BY <1>1, <1>2, <1>3, <1>5 DEF Fits, Agree, Settling, ComeTo, Now, Same
  <2> QED
    BY <1>1, <1>2, <1>5, <2>1, <2>2, MoveServes
<1> QED
  BY <1>1, <1>2, <1>4, <1>5

LEMMA TestServes ==
  ASSUME IInv, IInv', Served, NEW w \in Workers, Test(w)
  PROVE  Served'
<1>1. PICK c, k : c = job[w].con /\ k = job[w].kind
  OBVIOUS
<1>2. /\ job[w].pc = "test" /\ Own(w)
      /\ Same(c)
      /\ backends' = backends
      /\ \/ con[c].alive /\ Leaves(w)
         \/ ~con[c].alive /\ k = "cure" /\ Moved(w, "unbind")
         \/ ~con[c].alive /\ k # "cure" /\ Moved(w, "up")
  BY <1>1, TestDoes
<1>3. ComeTo("test", k)
  BY <1>1, <1>2 DEF IInv, JobShape
<1>4. CASE Moved(w, "unbind") /\ ~con[c].alive /\ k = "cure"
  <2>1. "unbind" \in Walk \cup {"boot", "row"}
    BY DEF Walk, Places
  <2>2. c \in Containers /\ Fits("test", k, c) => Fits("unbind", k, c)'
    BY <1>1, <1>2, <1>3, <1>4 DEF Fits, Agree, Settling, ComeTo, Now, Same
  <2> QED
    BY <1>1, <1>2, <1>4, <2>1, <2>2, MoveServes
<1>5. CASE Moved(w, "up") /\ ~con[c].alive /\ k # "cure"
  <2>1. "up" \in Walk \cup {"boot", "row"}
    BY DEF Walk, Places
  <2>2. c \in Containers /\ Fits("test", k, c) => Fits("up", k, c)'
    BY <1>1, <1>2, <1>3, <1>5 DEF Fits, Agree, Settling, ComeTo, Now, Same
  <2> QED
    BY <1>1, <1>2, <1>5, <2>1, <2>2, MoveServes
<1>6. CASE Leaves(w)
  <2>1. c \in Containers /\ Fits("test", k, c) => Agree(c)'
    BY <1>1, <1>2, <1>3, <1>6 DEF Fits, Agree, Settling, ComeTo, Now, Same
  <2> QED
    BY <1>1, <1>2, <1>6, <2>1, LeaveServes
<1> QED
  BY <1>1, <1>2, <1>4, <1>5, <1>6

LEMMA HealthServes ==
  ASSUME IInv, IInv', Served, NEW w \in Workers, Health(w)
  PROVE  Served'
<1>1. PICK c, k : c = job[w].con /\ k = job[w].kind
  OBVIOUS
<1>2. /\ job[w].pc = "health" /\ Own(w)
      /\ Same(c)
      /\ backends' = backends
      /\ Leaves(w) \/ Moved(w, "read")
  BY <1>1, HealthDoes
<1>3. ComeTo("health", k)
  BY <1>1, <1>2 DEF IInv, JobShape
<1>4. CASE Moved(w, "read")
  <2>1. "read" \in Walk \cup {"boot", "row"}
    BY DEF Walk, Places
  <2>2. c \in Containers /\ Fits("health", k, c) => Fits("read", k, c)'
    BY <1>1, <1>2, <1>3, <1>4 DEF Fits, Agree, Settling, ComeTo, Now, Same
  <2> QED
    BY <1>1, <1>2, <1>4, <2>1, <2>2, MoveServes
<1>5. CASE Leaves(w)
  <2>1. c \in Containers /\ Fits("health", k, c) => Agree(c)'
    BY <1>1, <1>2, <1>3, <1>5 DEF Fits, Agree, Settling, ComeTo, Now, Same
  <2> QED
    BY <1>1, <1>2, <1>5, <2>1, LeaveServes
<1> QED
  BY <1>1, <1>2, <1>4, <1>5

LEMMA NetworkNotServes ==
  ASSUME IInv, IInv', Served, NEW w \in Workers, NetworkNot(w)
  PROVE  Served'
<1>1. PICK c, k : c = job[w].con /\ k = job[w].kind
  OBVIOUS
<1>2. /\ job[w].pc = "network" /\ Own(w)
      /\ Same(c)
      /\ backends' = backends
      /\ Leaves(w) \/ Moved(w, "stop")
  BY <1>1, NetworkNotDoes
<1>3. ComeTo("network", k)
  BY <1>1, <1>2 DEF IInv, JobShape
<1>4. CASE Moved(w, "stop")
  <2>1. "stop" \in Walk \cup {"boot", "row"}
    BY DEF Walk, Places
  <2>2. c \in Containers /\ Fits("network", k, c) => Fits("stop", k, c)'
    BY <1>1, <1>2, <1>3, <1>4 DEF Fits, Agree, Settling, ComeTo, Now, Same
  <2> QED
    BY <1>1, <1>2, <1>4, <2>1, <2>2, MoveServes
<1>5. CASE Leaves(w)
  <2>1. c \in Containers /\ Fits("network", k, c) => Agree(c)'
    BY <1>1, <1>2, <1>3, <1>5 DEF Fits, Agree, Settling, ComeTo, Now, Same
  <2> QED
    BY <1>1, <1>2, <1>5, <2>1, LeaveServes
<1> QED
  BY <1>1, <1>2, <1>4, <1>5

LEMMA LaunchServes ==
  ASSUME IInv, IInv', Served, NEW w \in Workers, Launch(w)
  PROVE  Served'
<1>1. PICK c, k : c = job[w].con /\ k = job[w].kind
  OBVIOUS
<1>2. /\ job[w].pc = "launch" /\ Own(w)
      /\ Same(c)
      /\ backends' = backends
      /\ Leaves(w) \/ Moved(w, "unbind")
  BY <1>1, LaunchDoes
<1>3. ComeTo("launch", k)
  BY <1>1, <1>2 DEF IInv, JobShape
<1>4. CASE Moved(w, "unbind")
  <2>1. "unbind" \in Walk \cup {"boot", "row"}
    BY DEF Walk, Places
  <2>2. c \in Containers /\ Fits("launch", k, c) => Fits("unbind", k, c)'
    BY <1>1, <1>2, <1>3, <1>4 DEF Fits, Agree, Settling, ComeTo, Now, Same
  <2> QED
    BY <1>1, <1>2, <1>4, <2>1, <2>2, MoveServes
<1>5. CASE Leaves(w)
  <2>1. c \in Containers /\ Fits("launch", k, c) => Agree(c)'
    BY <1>1, <1>2, <1>3, <1>5 DEF Fits, Agree, Settling, ComeTo, Now, Same
  <2> QED
    BY <1>1, <1>2, <1>5, <2>1, LeaveServes
<1> QED
  BY <1>1, <1>2, <1>4, <1>5

LEMMA HaltServes ==
  ASSUME IInv, IInv', Served, NEW w \in Workers, Halt(w)
  PROVE  Served'
<1>1. PICK c, k : c = job[w].con /\ k = job[w].kind
  OBVIOUS
<1>2. /\ job[w].pc = "halt" /\ Own(w)
      /\ Same(c)
      /\ backends' = backends
      /\ Leaves(w)
  BY <1>1, HaltDoes
<1>3. ComeTo("halt", k)
  BY <1>1, <1>2 DEF IInv, JobShape
<1>4. CASE Leaves(w)
  <2>1. c \in Containers /\ Fits("halt", k, c) => Agree(c)'
    BY <1>1, <1>2, <1>3, <1>4 DEF Fits, Agree, Settling, ComeTo, Now, Same
  <2> QED
    BY <1>1, <1>2, <1>4, <2>1, LeaveServes
<1> QED
  BY <1>1, <1>2, <1>4

LEMMA EnqueueServes ==
  ASSUME IInv, IInv', Served, NEW w \in Workers, Enqueue(w)
  PROVE  Served'
<1>1. PICK c, k : c = job[w].con /\ k = job[w].kind
  OBVIOUS
<1>2. /\ job[w].pc = "enqueue" /\ Own(w)
      /\ Same(c)
      /\ backends' = backends
      /\ Leaves(w)
  BY <1>1, EnqueueDoes
<1>3. ComeTo("enqueue", k)
  BY <1>1, <1>2 DEF IInv, JobShape
<1>4. CASE Leaves(w)
  <2>1. c \in Containers /\ Fits("enqueue", k, c) => Agree(c)'
    BY <1>1, <1>2, <1>3, <1>4 DEF Fits, Agree, Settling, ComeTo, Now, Same
  <2> QED
    BY <1>1, <1>2, <1>4, <2>1, LeaveServes
<1> QED
  BY <1>1, <1>2, <1>4

LEMMA ClearFlagServes ==
  ASSUME IInv, IInv', Served, NEW w \in Workers, ClearFlag(w)
  PROVE  Served'
<1>1. PICK c, k : c = job[w].con /\ k = job[w].kind
  OBVIOUS
<1>2. /\ job[w].pc = "unflag" /\ Own(w)
      /\ Same(c)
      /\ backends' = backends
      /\ Leaves(w)
  BY <1>1, ClearFlagDoes
<1>3. ComeTo("unflag", k)
  BY <1>1, <1>2 DEF IInv, JobShape
<1>4. CASE Leaves(w)
  <2>1. c \in Containers /\ Fits("unflag", k, c) => Agree(c)'
    BY <1>1, <1>2, <1>3, <1>4 DEF Fits, Agree, Settling, ComeTo, Now, Same
  <2> QED
    BY <1>1, <1>2, <1>4, <2>1, LeaveServes
<1> QED
  BY <1>1, <1>2, <1>4

LEMMA DockerRemovesNotServes ==
  ASSUME IInv, IInv', Served, NEW w \in Workers, DockerRemovesNot(w)
  PROVE  Served'
<1>1. PICK c, k : c = job[w].con /\ k = job[w].kind
  OBVIOUS
<1>2. /\ job[w].pc = "stop" /\ Own(w)
      /\ Same(c)
      /\ backends' = backends
      /\ Leaves(w)
  BY <1>1, DockerRemovesNotDoes
<1>3. ComeTo("stop", k)
  BY <1>1, <1>2 DEF IInv, JobShape
<1>4. CASE Leaves(w)
  <2>1. c \in Containers /\ Fits("stop", k, c) => Agree(c)'
    BY <1>1, <1>2, <1>3, <1>4 DEF Fits, Agree, Settling, ComeTo, Now, Same
  <2> QED
    BY <1>1, <1>2, <1>4, <2>1, LeaveServes
<1> QED
  BY <1>1, <1>2, <1>4

LEMMA UnbindServes ==
  ASSUME IInv, IInv', Served, NEW w \in Workers, Unbind(w)
  PROVE  Served'
<1>1. PICK c, k : c = job[w].con /\ k = job[w].kind
  OBVIOUS
<1>2. /\ job[w].pc = "unbind" /\ Own(w)
      /\ Now(c, con[c].row, con[c].alive, con[c].removal, FALSE)
      /\ backends' = backends
      /\ \/ con[c].ip /\ Moved(w, "rebind")
         \/ ~con[c].ip /\ k = "cure" /\ Moved(w, "up")
         \/ ~con[c].ip /\ k = "start" /\ Leaves(w)
  BY <1>1, UnbindDoes
<1>3. ComeTo("unbind", k)
  BY <1>1, <1>2 DEF IInv, JobShape
<1>4. CASE Moved(w, "rebind") /\ con[c].ip
  <2>1. "rebind" \in Walk \cup {"boot", "row"}
    BY DEF Walk, Places
  <2>2. c \in Containers /\ Fits("unbind", k, c) => Fits("rebind", k, c)'
    BY <1>1, <1>2, <1>3, <1>4 DEF Fits, Agree, Settling, ComeTo, Now, Same
  <2> QED
    BY <1>1, <1>2, <1>4, <2>1, <2>2, MoveServes
<1>5. CASE Moved(w, "up") /\ ~con[c].ip /\ k = "cure"
  <2>1. "up" \in Walk \cup {"boot", "row"}
    BY DEF Walk, Places
  <2>2. c \in Containers /\ Fits("unbind", k, c) => Fits("up", k, c)'
    BY <1>1, <1>2, <1>3, <1>5 DEF Fits, Agree, Settling, ComeTo, Now, Same
  <2> QED
    BY <1>1, <1>2, <1>5, <2>1, <2>2, MoveServes
<1>6. CASE Leaves(w) /\ ~con[c].ip /\ k = "start"
  <2>1. c \in Containers /\ Fits("unbind", k, c) => Agree(c)'
    BY <1>1, <1>2, <1>3, <1>6 DEF Fits, Agree, Settling, ComeTo, Now, Same
  <2> QED
    BY <1>1, <1>2, <1>6, <2>1, LeaveServes
<1> QED
  BY <1>1, <1>2, <1>4, <1>5, <1>6

LEMMA RebindServes ==
  ASSUME IInv, IInv', Served, "rebind" \notin Faults, NEW w \in Workers, Rebind(w)
  PROVE  Served'
<1>1. PICK c, k : c = job[w].con /\ k = job[w].kind
  OBVIOUS
<1>2. /\ job[w].pc = "rebind" /\ Own(w)
      /\ Now(c, con[c].row, con[c].alive, con[c].removal, TRUE)
      /\ backends' = backends
      /\ \/ k = "cure" /\ Moved(w, "up")
         \/ k = "start" /\ Leaves(w)
  BY <1>1, RebindDoes DEF Outcomes
<1>3. ComeTo("rebind", k)
  BY <1>1, <1>2 DEF IInv, JobShape
<1>4. CASE Moved(w, "up") /\ k = "cure"
  <2>1. "up" \in Walk \cup {"boot", "row"}
    BY DEF Walk, Places
  <2>2. c \in Containers /\ Fits("rebind", k, c) => Fits("up", k, c)'
    BY <1>1, <1>2, <1>3, <1>4 DEF Fits, Agree, Settling, ComeTo, Now, Same
  <2> QED
    BY <1>1, <1>2, <1>4, <2>1, <2>2, MoveServes
<1>5. CASE Leaves(w) /\ k = "start"
  <2>1. c \in Containers /\ Fits("rebind", k, c) => Agree(c)'
    BY <1>1, <1>2, <1>3, <1>5 DEF Fits, Agree, Settling, ComeTo, Now, Same
  <2> QED
    BY <1>1, <1>2, <1>5, <2>1, LeaveServes
<1> QED
  BY <1>1, <1>2, <1>4, <1>5

LEMMA EraseServes ==
  ASSUME IInv, IInv', Served, NEW w \in Workers, Erase(w)
  PROVE  Served'
<1>1. PICK c, k : c = job[w].con /\ k = job[w].kind
  OBVIOUS
<1>2. /\ job[w].pc = "erase" /\ Own(w)
      /\ Now(c, FALSE, con[c].alive, con[c].removal, con[c].ip)
      /\ backends' = backends
      /\ IF k = "create" THEN Moved(w, "read") ELSE Moved(w, "unflag")
  BY <1>1, EraseDoes
<1>3. ComeTo("erase", k)
  BY <1>1, <1>2 DEF IInv, JobShape
<1>4. CASE Moved(w, "read") /\ k = "create"
  <2>1. "read" \in Walk \cup {"boot", "row"}
    BY DEF Walk, Places
  <2>2. c \in Containers /\ Fits("erase", k, c) => Fits("read", k, c)'
    BY <1>1, <1>2, <1>3, <1>4 DEF Fits, Agree, Settling, ComeTo, Now, Same
  <2> QED
    BY <1>1, <1>2, <1>4, <2>1, <2>2, MoveServes
<1>5. CASE Moved(w, "unflag") /\ k # "create"
  <2>1. "unflag" \in Walk \cup {"boot", "row"}
    BY DEF Walk, Places
  <2>2. c \in Containers /\ Fits("erase", k, c) => Fits("unflag", k, c)'
    BY <1>1, <1>2, <1>3, <1>5 DEF Fits, Agree, Settling, ComeTo, Now, Same
  <2> QED
    BY <1>1, <1>2, <1>5, <2>1, <2>2, MoveServes
<1> QED
  BY <1>1, <1>2, <1>4, <1>5

LEMMA RaisesServes ==
  ASSUME IInv, IInv', Served, NEW w \in Workers, Raises(w)
  PROVE  Served'
<1>1. PICK c, k, p : c = job[w].con /\ k = job[w].kind /\ p = job[w].pc
  OBVIOUS
<1>2. /\ p \in {"network", "down", "unbind", "rebind", "up", "mark", "erase"}
      /\ c \in Containers /\ ~con[c].row /\ Own(w) /\ Leaves(w)
  BY <1>1, RaisesDoes
<1>3. ~Fits(p, k, c)
  BY <1>2 DEF Fits
<1> QED
  BY <1>1, <1>2, <1>3, LeaveServes

LEMMA RecordServes ==
  ASSUME IInv, IInv', Served, NEW w \in Workers, Record(w)
  PROVE  Served'
<1>1. PICK c, k : c = job[w].con /\ k = job[w].kind
  OBVIOUS
<1>2. /\ job[w].pc = "row" /\ Own(w) /\ Moved(w, "network")
      /\ Now(c, TRUE, TRUE, con[c].removal, con[c].ip) /\ backends' = backends
  BY <1>1, RecordDoes
<1>3. Blank(c) /\ k = "create"
  BY <1>1, <1>2, AtMaking
<1>4. Fits("network", k, c)'
  BY <1>2, <1>3 DEF Fits, Agree, Settling, Now, Blank
<1>5. "network" \in Walk \cup {"boot", "row"}
  BY DEF Walk, Places
<1> QED
  BY <1>1, <1>2, <1>4, <1>5, MoveServes

LEMMA DockerCreatesNotServes ==
  ASSUME IInv, IInv', Served, NEW w \in Workers, DockerCreatesNot(w)
  PROVE  Served'
<1>1. PICK c, k : c = job[w].con /\ k = job[w].kind
  OBVIOUS
<1>2. /\ job[w].pc = "docker" /\ Own(w) /\ Moved(w, "read") /\ Blank(c) /\ k = "create"
      /\ Now(c, FALSE, FALSE, FALSE, FALSE) /\ backends' = backends
  BY <1>1, DockerCreatesNotDoes
<1>3. Fits("read", k, c)'
  BY <1>2 DEF Fits, Agree, Settling, Now, Blank
<1>4. "read" \in Walk \cup {"boot", "row"}
  BY DEF Walk, Places
<1> QED
  BY <1>1, <1>2, <1>3, <1>4, MoveServes

LEMMA DockerStartsNotServes ==
  ASSUME IInv, IInv', Served, NEW w \in Workers, DockerStartsNot(w)
  PROVE  Served'
<1>1. PICK c, k : c = job[w].con /\ k = job[w].kind
  OBVIOUS
<1>2. /\ job[w].pc = "boot" /\ Own(w) /\ Moved(w, "read") /\ Blank(c) /\ k = "create"
      /\ Same(c) /\ backends' = backends
  BY <1>1, DockerStartsNotDoes
<1>3. Fits("read", k, c)'
  BY <1>2 DEF Fits, Agree, Settling, Now, Same, Blank
<1>4. "read" \in Walk \cup {"boot", "row"}
  BY DEF Walk, Places
<1> QED
  BY <1>1, <1>2, <1>3, <1>4, MoveServes

LEMMA QuietServes ==
  ASSUME Served, \A x \in Containers : Same(x), backends' = backends, mixed' = mixed,
         \A v \in Workers : job'[v] = job[v]
  PROVE  Served'
<1>1. \A v \in Workers : At(v, "commit")' => job'[v].rest = {}
  BY DEF Served, At
<1> SUFFICES ASSUME NEW x \in Containers \ mixed PROVE ServedAt(x)'
  BY <1>1 DEF Served
<1>2. ServedAt(x) /\ Same(x)
  BY DEF Served
<1>3. \A v \in Workers : Held(v, x)' <=> Held(v, x)
  BY DEF Held, Open
<1> QED
  BY <1>2, <1>3, AsideServed

\* A job is taken on for c: nobody works on c, and no request holds its row.
LEMMA TakeServes ==
  ASSUME IInv, Served, NEW w \in Workers, NEW k \in Kinds, NEW c \in Containers, NEW p \in Places,
         Take(w, k, c, p), p \notin {"backends", "commit"},
         \A x \in Containers : Same(x), backends' = backends,
         Agree(c) => Fits(p, k, c)'
  PROVE  Served'
<1>1. /\ Others(w) /\ At(w, "idle") /\ job'[w].pc = p /\ job'[w].kind = k /\ job'[w].con = c
      /\ mixed \subseteq mixed'
  BY Taken DEF IInv
<1>2. job[w].con = NoContainer
  BY <1>1, Idles
<1>3. c \notin mixed' =>
        \A v \in Workers : job[v].con # c /\ ~(con[c].row /\ job[v].host = HostOf[c])
  BY DEF Take
<1>4. \A v \in Workers \ {w} : job'[v] = job[v]
  BY <1>1 DEF Others
<1>5. ~Open(w) /\ ~Open(w)'
  BY <1>1 DEF Open, At
<1>6. \A v \in Workers : At(v, "commit")' => job'[v].rest = {}
  BY <1>1, <1>4 DEF Served, At
<1> SUFFICES ASSUME NEW x \in Containers \ mixed' PROVE ServedAt(x)'
  BY <1>6 DEF Served
<1>7. ServedAt(x) /\ x # NoContainer
  BY <1>1, LifecycleAssumption DEF Served
<1>8. CASE x # c
  <2>1. \A v \in Workers : Held(v, x)' <=> Held(v, x)
    BY <1>4, <1>5 DEF Held, Open
  <2>2. ~Held(w, x)
    BY <1>5 DEF Held
  <2> QED
    BY <1>1, <1>2, <1>4, <1>7, <1>8, <2>1, <2>2, AsideServed
<1>9. CASE x = c
  <2>1. ASSUME NEW v \in Workers PROVE job[v].con # c /\ ~Held(v, c)
    <3>1. Held(v, c) => con[c].row /\ job[v].host = HostOf[c]
      BY <1>7, <1>9 DEF ServedAt, Held, IInv, JobFacts
    <3> QED
      BY <1>3, <1>9, <3>1
  <2>2. Agree(c)
    BY <1>7, <1>9, <2>1 DEF ServedAt, Flipped, Held
  <2>3. ~Held(w, c)'
    BY <1>5 DEF Held
  <2> QED
    BY <1>1, <1>9, <2>1, <2>2, <2>3, MineServed
<1> QED
  BY <1>8, <1>9

LEMMA RequestsServe ==
  ASSUME IInv, Served, NEW w \in Workers, NEW c \in Containers,
         \/ Deploy(w, c) \/ Start(w, c) \/ Stop(w, c) \/ Remove(w, c) \/ Report(w, c)
         \/ Migrate(w, c) \/ Copy(w, c)
  PROVE  Served'
<1>1. con \in [Containers -> ConType] /\ con[c] \in ConType
  BY DEF IInv, Types
<1>2. backends' = backends
  BY DEF Deploy, Start, Stop, Remove, Report, Migrate, Copy
<1>3. \A x \in Containers : Same(x)
  <2>1. CASE con' = con
    BY <2>1 DEF Same, Now
  <2>2. CASE Deploy(w, c)
    <3>1. PICK asked \in BOOLEAN : con' = [con EXCEPT ![c].asked = asked]
      BY <2>2 DEF Deploy
    <3> QED
      BY <1>1, <3>1 DEF ConType, Same, Now
  <2> QED
    BY <2>1, <2>2 DEF Start, Stop, Remove, Report, Migrate, Copy
<1>4. CASE job' = job /\ mixed' = mixed
  BY <1>2, <1>3, <1>4, QuietServes
<1>5. Agree(c)' <=> Agree(c)
  BY <1>2, <1>3 DEF Agree, Same, Now
<1>6. CASE Deploy(w, c)
  <2>1. Take(w, "create", c, "docker") /\ Unused(c)
    BY <1>6 DEF Deploy
  <2>2. Agree(c) => Fits("docker", "create", c)'
    BY <1>5 DEF Fits
  <2>3. "docker" \in Places /\ "create" \in Kinds
    BY DEF Places, Kinds
  <2> QED
    BY <1>2, <1>3, <2>1, <2>2, <2>3, TakeServes
<1>7. CASE con[c].row /\ \E k \in Kinds \ {"create"} : \E p \in {"test", "down", "mark", "plan"} :
                Take(w, k, c, p)
  <2>1. PICK k \in Kinds \ {"create"}, p \in {"test", "down", "mark", "plan"} : Take(w, k, c, p)
    BY <1>7
  <2>2. con'[c].row
    BY <1>3, <1>7 DEF Same, Now
  <2>3. Agree(c) => Fits(p, k, c)'
    BY <1>5, <2>2 DEF Fits
  <2>4. p \in Places /\ p \notin {"backends", "commit"}
    BY DEF Places
  <2> QED
    BY <1>2, <1>3, <2>1, <2>3, <2>4, TakeServes
<1>8. {"start", "stop", "remove", "kill", "cure", "migrate", "copy"} \subseteq Kinds \ {"create"}
  BY DEF Kinds
<1> QED
  BY <1>4, <1>6, <1>7, <1>8 DEF Start, Stop, Remove, Report, Migrate, Copy, history

LEMMA EventsServe ==
  ASSUME IInv, Served, NEW c \in Containers,
         Die(c) \/ Delete(c) \/ Restart(c) \/ ReportUnknown(c)
  PROVE  Served'
<1>1. /\ con \in [Containers -> ConType] /\ job' = job /\ mixed' = mixed /\ backends' = backends
  BY DEF IInv, Types, Die, Delete, Restart, ReportUnknown, history
<1>2. con' = con \/ \E d \in {"died", "removed", "running"} : con' = [con EXCEPT ![c].docker = d]
  BY DEF Die, Delete, Restart, ReportUnknown
<1>3. \A x \in Containers : Same(x)
  BY <1>1, <1>2 DEF ConType, Same, Now
<1> QED
  BY <1>1, <1>3, QuietServes

LEMMA PlanServes ==
  ASSUME IInv, Served, NEW w \in Workers, Plan(w)
  PROVE  Served'
<1>0. PICK c : c = job[w].con
  OBVIOUS
<1>1. /\ job[w].pc = "plan" /\ c \in Containers /\ Known(c) /\ Others(w) /\ mixed' = mixed
      /\ backends' = backends /\ \A x \in Containers : Same(x)
  BY <1>0, PlanDoes
<1>2. \A v \in Workers \ {w} : job'[v] = job[v]
  BY <1>1 DEF Others
<1>3. JobShape(w) /\ job[w].kind \in {"migrate", "copy"}
  BY <1>1 DEF IInv, JobShape, ComeTo
<1>4. \/ job'[w].con = NoContainer /\ job'[w].pc = "idle"
      \/ \E n \in Containers : Unused(n) /\ n # c /\ job'[w].con = n /\ job'[w].pc = "docker"
                                 /\ job'[w].kind = "create"
      \/ job'[w].con = c /\ job'[w].pc = "mark" /\ job'[w].kind = "migrate"
  <2>1. Ended(w) => job'[w].con = NoContainer /\ job'[w].pc = "idle"
    BY DEF Ended, Idle
  <2>2. CASE Ended(w)
    BY <2>1, <2>2
  <2>3. CASE ~Ended(w)
    <3>1. PICK n \in Containers :
             /\ Unused(n) /\ n # c
             /\ \/ job'[w].pc = "docker" /\ job'[w].con = n /\ job'[w].kind = "create"
                \/ job'[w].pc = "mark" /\ job'[w].con = c /\ job'[w].kind = "migrate"
      BY <1>0, <2>3, PlanDoes
    <3> QED
      BY <3>1
  <2> QED
    BY <2>2, <2>3
<1>5. ~Open(w) /\ ~Open(w)' /\ job'[w].pc # "commit"
  BY <1>1, <1>4 DEF Open
<1>6. \A v \in Workers : At(v, "commit")' => job'[v].rest = {}
  BY <1>2, <1>5 DEF Served, At
<1> SUFFICES ASSUME NEW x \in Containers \ mixed PROVE ServedAt(x)'
  BY <1>1, <1>6 DEF Served
<1>7. ServedAt(x) /\ x # NoContainer
  BY LifecycleAssumption DEF Served
<1>8. Agree(x)' <=> Agree(x)
  BY <1>1 DEF Agree, Same, Now
<1>9. ~Held(w, x) /\ ~Held(w, x)' /\ \A v \in Workers \ {w} : Held(v, x)' <=> Held(v, x)
  BY <1>2, <1>5 DEF Held, Open
<1>10. CASE x = c
  <2>1. \A v \in Workers \ {w} : job[v].con # c /\ ~Held(v, c)
    BY <1>0, <1>7, <1>10 DEF ServedAt, LoneWorker
  <2>2. Fits(job[w].pc, job[w].kind, c)
    BY <1>0, <1>7, <1>10 DEF ServedAt
  <2>3. Agree(c) /\ con[c].row
    BY <1>1, <1>3, <2>2 DEF Fits, Settling
  <2>4. Agree(c)' /\ con'[c].row
    BY <1>1, <1>8, <1>10, <2>3 DEF Same, Now
  <2>5. job'[w].con = c => Fits(job[w].pc, job[w].kind, c)'
    <3>1. ASSUME job'[w].con = c PROVE job'[w].pc = "mark" /\ job'[w].kind = "migrate"
      BY <1>4, <1>7, <1>10, <3>1
    <3>2. Fits("mark", "migrate", c)'
      BY <2>4 DEF Fits
    <3> QED
      BY <3>1, <3>2
  <2> QED
    BY <1>1, <1>9, <1>10, <2>1, <2>4, <2>5, MineServed
<1>11. CASE x # c /\ job'[w].con # x
  BY <1>0, <1>1, <1>2, <1>7, <1>9, <1>11, AsideServed
<1>12. CASE x # c /\ job'[w].con = x
  <2>1. Unused(x) /\ job'[w].pc = "docker" /\ job'[w].kind = "create"
    BY <1>4, <1>7, <1>12
  <2>2. \A v \in Workers : job[v].con # x
    BY <2>1 DEF Unused
  <2>3. \A v \in Workers : ~Held(v, x)
    BY <2>1 DEF Unused, Held, IInv, JobFacts, Known
  <2>4. Agree(x)
    BY <1>7, <2>2, <2>3 DEF ServedAt, Flipped, Held
  <2>5. Fits("docker", "create", x)'
    BY <1>8, <2>4 DEF Fits
  <2> QED
    BY <1>1, <1>9, <1>12, <2>1, <2>2, <2>3, <2>5, MineServed
<1> QED
  BY <1>10, <1>11, <1>12

\* The steps of a request of a host.
LEMMA HostStatusServes ==
  ASSUME IInv, Served, NEW w \in Workers, NEW h \in Hosts, NEW k \in HostKinds, HostStatus(w, h, k)
  PROVE  Served'
<1> DEFINE here == {c \in Containers : con[c].row /\ HostOf[c] = h}
           S == {c \in here : con[c].alive = (k = "hostkill")}
           j == [Idle EXCEPT !.pc = "backends", !.kind = k, !.host = h, !.seen = S, !.rest = here]
<1>1. /\ At(w, "idle") /\ con' = con /\ backends' = backends
      /\ \A v \in Workers : job[v].host # h
      /\ job' = [job EXCEPT ![w] = j]
      /\ mixed' = mixed \cup {c \in here : \E v \in Workers : job[v].con = c}
  BY DEF HostStatus, stores
<1>2. job \in [Workers -> JobType] /\ job[w].con = NoContainer
  BY <1>1, Idles DEF IInv, Types
<1>3. /\ j.pc = "backends" /\ j.kind = k /\ j.con = NoContainer /\ j.seen = S /\ j.rest = here
  BY DEF Idle
<1>4. \A c : /\ c \in here <=> c \in Containers /\ con[c].row /\ HostOf[c] = h
             /\ c \in S <=> c \in here /\ con[c].alive = (k = "hostkill")
  OBVIOUS
<1> HIDE DEF here, S, j
<1>5. Others(w) /\ job'[w] = j /\ \A v \in Workers \ {w} : job'[v] = job[v]
  BY <1>1, <1>2 DEF Others
<1>6. \A v \in Workers : At(v, "commit")' => job'[v].rest = {}
  BY <1>3, <1>5 DEF Served, At
<1> SUFFICES ASSUME NEW x \in Containers \ mixed' PROVE ServedAt(x)'
  BY <1>6 DEF Served
<1>7. ServedAt(x) /\ x # NoContainer /\ x \notin mixed
  BY <1>1, LifecycleAssumption DEF Served
<1>8. ~Held(w, x) /\ ~Flipped(w, x)
  BY <1>1 DEF Held, Flipped, Open, At
<1>9. Held(w, x)' <=> x \in here
  BY <1>3, <1>4, <1>5 DEF Held, Open
<1>10. CASE x \notin here
  <2>1. \A v \in Workers : Held(v, x)' <=> Held(v, x)
    BY <1>5, <1>8, <1>9, <1>10 DEF Held, Open
  <2>2. Same(x)
    BY <1>1 DEF Same, Now
  <2> QED
    BY <1>1, <1>2, <1>3, <1>5, <1>7, <1>8, <2>1, <2>2, AsideServed
<1>11. CASE x \in here
  <2>1. con[x].row /\ HostOf[x] = h /\ \A v \in Workers : job[v].con # x
    BY <1>1, <1>4, <1>11
  <2>2. \A v \in Workers : job'[v].con # x
    BY <1>3, <1>5, <1>7, <2>1
  <2>3. ASSUME NEW v \in Workers, v # w PROVE ~Held(v, x) /\ ~Held(v, x)'
    <3>1. Held(v, x) => job[v].host = h
      BY <2>1 DEF Held, IInv, JobFacts
    <3> QED
      BY <1>1, <1>5, <2>3, <3>1 DEF Held, Open
  <2>4. ~Flipped(w, x)'
    BY <1>3, <1>4, <1>5, <1>11 DEF Flipped
  <2>5. Agree(x)
    BY <1>7, <1>8, <2>1, <2>3 DEF ServedAt, Flipped, Held
  <2>6. Agree(x)'
    BY <1>1, <2>5 DEF Agree
  <2>7. con'[x].alive <=> (x \in job'[w].seen <=> job'[w].kind = "hostkill")
    <3>1. job'[w].seen = S /\ job'[w].kind = k
      BY <1>3, <1>5
    <3>2. con[x].alive \in BOOLEAN
      BY DEF IInv, Types, ConType
    <3>3. x \in S <=> con[x].alive = (k = "hostkill")
      BY <1>4, <1>11
    <3> QED
      BY <1>1, <3>1, <3>2, <3>3
  <2> QED
    BY <1>1, <2>1, <2>2, <2>3, <2>4, <2>6, <2>7 DEF ServedAt, LoneWorker
<1> QED
  BY <1>10, <1>11

LEMMA HostHolds ==
  ASSUME IInv, Served, NEW w \in Workers, Open(w)
  PROVE  /\ job[w].con = NoContainer /\ job[w].kind \in HostKinds
         /\ \A x \in Containers \ mixed : Held(w, x) =>
               \A v \in Workers : job[v].con # x /\ (v # w => ~Held(v, x))
<1>1. job[w].kind \in HostKinds
  BY DEF Open, IInv, JobShape, ComeTo
<1>2. job[w].con = NoContainer /\ job[w].host # NoHost
  BY <1>1, HostJob
<1>3. ASSUME NEW x \in Containers \ mixed, Held(w, x), NEW v \in Workers
      PROVE  job[v].con # x /\ (v # w => ~Held(v, x))
  <2>1. job[v].con # x
    BY <1>3 DEF Served, ServedAt
  <2>2. HostOf[x] = job[w].host
    BY <1>3 DEF Held, IInv, JobFacts
  <2>3. Held(v, x) => HostOf[x] = job[v].host
    BY DEF Held, IInv, JobFacts
  <2>4. OneRequest
    BY DEF IInv
  <2> QED
    BY <1>2, <2>1, <2>2, <2>3, <2>4 DEF OneRequest
<1> QED
  BY <1>1, <1>2, <1>3

LEMMA HostBackendsServes ==
  ASSUME IInv, Served, NEW w \in Workers, HostBackends(w)
  PROVE  Served'
<1>1. /\ job[w].pc = "backends" /\ job[w] \in JobType /\ job \in [Workers -> JobType] /\ con' = con
  BY DEF IInv, Types, HostBackends, At
<1>2. Open(w)
  BY <1>1 DEF Open
<1>3. job[w].con = NoContainer /\ job[w].kind \in HostKinds
  BY <1>2, HostHolds
<1>4. PICK c \in job[w].rest :
          IF c \in job[w].seen /\ ~con[c].row
          THEN End(w) /\ mixed' = mixed \cup (job[w].seen \ job[w].rest) /\ UNCHANGED backends
          ELSE /\ UNCHANGED mixed
               /\ job' = [job EXCEPT ![w].rest = @ \ {c},
                                     ![w].pc = IF job[w].rest = {c} THEN "commit" ELSE @]
               /\ backends' = IF ~con[c].ip THEN backends
                              ELSE IF job[w].kind = "hostkill" THEN backends \ {c}
                              ELSE backends \cup {c}
  BY DEF HostBackends
<1>5. CASE c \in job[w].seen /\ ~con[c].row
  <2>1. /\ Ended(w) /\ mixed' = mixed \cup (job[w].seen \ job[w].rest) /\ backends' = backends
    BY <1>1, <1>4, <1>5, Finished
  <2>2. /\ Others(w) /\ job'[w].pc = "idle" /\ job'[w].con = NoContainer
        /\ \A v \in Workers \ {w} : job'[v] = job[v]
    BY <2>1 DEF Ended, Idle, Others
  <2>3. \A v \in Workers : At(v, "commit")' => job'[v].rest = {}
    BY <2>2 DEF Served, At
  <2> SUFFICES ASSUME NEW x \in Containers \ mixed' PROVE ServedAt(x)'
    BY <2>3 DEF Served
  <2>4. ServedAt(x) /\ x # NoContainer /\ x \in Containers \ mixed
    BY <2>1, LifecycleAssumption DEF Served
  <2>5. ~Held(w, x)' /\ \A v \in Workers \ {w} : Held(v, x)' <=> Held(v, x)
    BY <2>2 DEF Held, Open
  <2>6. CASE Held(w, x)
    <3>1. \A v \in Workers : job[v].con # x /\ (v # w => ~Held(v, x))
      BY <1>2, <2>4, <2>6, HostHolds
    <3>2. ~Flipped(w, x)
      BY <2>1 DEF Flipped
    <3>3. Agree(x)
      BY <2>4, <3>1, <3>2 DEF ServedAt, Flipped, Held
    <3>4. Agree(x)'
      BY <1>1, <2>1, <3>3 DEF Agree
    <3> QED
      BY <2>2, <2>4, <2>5, <3>1, <3>4, MineServed
  <2>7. CASE ~Held(w, x)
    <3>1. Same(x)
      BY <1>1 DEF Same, Now
    <3> QED
      BY <1>3, <2>1, <2>2, <2>4, <2>5, <2>7, <3>1, AsideServed
  <2> QED
    BY <2>6, <2>7
<1>6. CASE ~(c \in job[w].seen /\ ~con[c].row)
  <2>1. PICK p : p = IF job[w].rest = {c} THEN "commit" ELSE job[w].pc
    OBVIOUS
  <2>2. /\ mixed' = mixed
        /\ job' = [job EXCEPT ![w].rest = job[w].rest \ {c}, ![w].pc = p]
        /\ backends' = IF ~con[c].ip THEN backends
                       ELSE IF job[w].kind = "hostkill" THEN backends \ {c}
                       ELSE backends \cup {c}
    BY <1>4, <1>6, <2>1
  <2>3. /\ Others(w) /\ job'[w].pc = p /\ job'[w].con = NoContainer /\ job'[w].seen = job[w].seen
        /\ job'[w].kind = job[w].kind /\ job'[w].rest = job[w].rest \ {c}
        /\ \A v \in Workers \ {w} : job'[v] = job[v]
    BY <1>1, <1>3, <2>2 DEF JobType, Others
  <2>4. /\ p \in {"backends", "commit"} /\ (p = "commit" => job[w].rest \ {c} = {})
    BY <1>1, <2>1
  <2>5. \A v \in Workers : At(v, "commit")' => job'[v].rest = {}
    BY <2>3, <2>4 DEF Served, At
  <2> SUFFICES ASSUME NEW x \in Containers \ mixed PROVE ServedAt(x)'
    BY <2>2, <2>5 DEF Served
  <2>6. ServedAt(x) /\ x # NoContainer
    BY LifecycleAssumption DEF Served
  <2>7. \A v \in Workers \ {w} : Held(v, x)' <=> Held(v, x)
    BY <2>3 DEF Held, Open
  <2>8. CASE x # c
    <3>1. Held(w, x)' <=> Held(w, x)
      BY <1>2, <2>3, <2>4, <2>8 DEF Held, Open
    <3>2. Same(x) /\ (x \in backends' <=> x \in backends)
      BY <1>1, <2>2, <2>8 DEF Same, Now
    <3>3. x \in job'[w].rest <=> x \in job[w].rest
      BY <2>3, <2>8
    <3> QED
      BY <1>3, <2>3, <2>6, <2>7, <3>1, <3>2, <3>3, AsideServed
  <2>9. CASE x = c
    <3>1. Held(w, c)
      BY <1>2, <1>4 DEF Held
    <3>2. \A v \in Workers : job[v].con # c /\ (v # w => ~Held(v, c))
      BY <1>2, <2>9, <3>1, HostHolds
    <3>3. /\ con[c].row
          /\ con[c].alive <=> (c \in job[w].seen <=> job[w].kind = "hostkill")
      BY <2>6, <2>9, <3>1 DEF ServedAt
    <3>4. Agree(c)
      BY <1>4, <2>6, <2>9, <3>2 DEF ServedAt, Flipped, Held
    <3>5. c \in backends' <=> job[w].kind # "hostkill" /\ con[c].ip
      <4>1. CASE ~con[c].ip
        BY <2>2, <3>4, <4>1 DEF Agree
      <4>2. CASE con[c].ip
        BY <2>2, <4>2
      <4> QED
        BY <4>1, <4>2
    <3>6. /\ \A v \in Workers : job'[v].con # c
          /\ \A v \in Workers \ {w} : ~Held(v, c)'
      BY <2>3, <2>6, <2>7, <2>9, <3>2
    <3>7. CASE c \in job[w].seen
      <4>1. Flipped(w, c)'
        BY <2>3, <2>4, <3>7 DEF Flipped, Open
      <4> QED
        BY <1>1, <2>3, <2>9, <3>3, <3>5, <3>6, <4>1 DEF ServedAt, LoneWorker
    <3>8. CASE c \notin job[w].seen
      <4>1. ~Held(w, c)'
        BY <2>3, <3>8 DEF Held
      <4>2. Agree(c)'
        BY <1>1, <3>3, <3>5, <3>8 DEF Agree
      <4> QED
        BY <2>3, <2>9, <3>2, <3>6, <4>1, <4>2, MineServed
    <3> QED
      BY <3>7, <3>8
  <2> QED
    BY <2>8, <2>9
<1> QED
  BY <1>5, <1>6

LEMMA HostCommitServes ==
  ASSUME IInv, Served, NEW w \in Workers, HostCommit(w)
  PROVE  Served'
<1>1. /\ job[w].pc \in {"backends", "commit"} /\ job[w].rest = {}
      /\ job[w] \in JobType /\ job \in [Workers -> JobType] /\ con \in [Containers -> ConType]
      /\ backends' = backends /\ mixed' = mixed
  BY DEF IInv, Types, HostCommit, Served, At, history
<1>2. Open(w) /\ \A x : Flipped(w, x) <=> Held(w, x)
  BY <1>1 DEF Open, Held, Flipped
<1>3. job[w].con = NoContainer /\ job[w].kind \in HostKinds
  BY <1>2, HostHolds
<1>4. PICK a \in BOOLEAN : a = (job[w].kind # "hostkill")
  OBVIOUS
<1>5. con' = [c \in Containers |-> IF c \in job[w].seen THEN [con[c] EXCEPT !.alive = a] ELSE con[c]]
  BY <1>4 DEF HostCommit
<1>6. \A x \in Containers :
        /\ x \notin job[w].seen => con'[x] = con[x]
        /\ con'[x].row = con[x].row /\ con'[x].removal = con[x].removal /\ con'[x].ip = con[x].ip
        /\ x \in job[w].seen => con'[x].alive = a
  BY <1>1, <1>5 DEF ConType
<1>7. Others(w) /\ job'[w].con = NoContainer /\ job'[w].pc \in {"idle", "read"}
  <2>1. CASE At(w, "backends")
    <3>1. Ended(w)
      BY <1>1, <2>1, Finished DEF HostCommit
    <3> QED
      BY <3>1 DEF Ended, Idle
  <2>2. CASE ~At(w, "backends")
    <3> DEFINE R == {c \in Containers : job[w].kind = "hostkill" /\ con[c].row
                                           /\ HostOf[c] = job[w].host}
               S == Rows(con')
    <3>1. job' = [job EXCEPT ![w].pc = "read", ![w].seen = S, ![w].rest = R]
      BY <2>2 DEF HostCommit
    <3> HIDE DEF R, S
    <3> QED
      BY <1>1, <1>3, <3>1 DEF JobType, Others
  <2> QED
    BY <2>1, <2>2
<1>8. \A v \in Workers \ {w} : job'[v] = job[v]
  BY <1>7 DEF Others
<1>9. \A v \in Workers : At(v, "commit")' => job'[v].rest = {}
  BY <1>7, <1>8 DEF Served, At
<1> SUFFICES ASSUME NEW x \in Containers \ mixed PROVE ServedAt(x)'
  BY <1>1, <1>9 DEF Served
<1>10. ServedAt(x) /\ x # NoContainer
  BY LifecycleAssumption DEF Served
<1>11. ~Held(w, x)' /\ \A v \in Workers \ {w} : Held(v, x)' <=> Held(v, x)
  BY <1>7, <1>8 DEF Held, Open
<1>12. CASE Held(w, x)
  <2>1. \A v \in Workers : job[v].con # x /\ (v # w => ~Held(v, x))
    BY <1>2, <1>12, HostHolds
  <2>2. /\ con[x].row /\ x \in job[w].seen
        /\ (x \in backends <=> job[w].kind # "hostkill" /\ con[x].ip)
    BY <1>2, <1>10, <1>12 DEF ServedAt, Flipped
  <2>3. Agree(x)'
    BY <1>1, <1>4, <1>6, <2>2 DEF Agree
  <2> QED
    BY <1>7, <1>10, <1>11, <2>1, <2>3, MineServed
<1>13. CASE ~Held(w, x)
  <2>1. Same(x)
    BY <1>2, <1>6, <1>13 DEF Same, Now, Held
  <2> QED
    BY <1>1, <1>3, <1>7, <1>8, <1>10, <1>11, <1>13, <2>1, AsideServed
<1> QED
  BY <1>12, <1>13

LEMMA HostMigrationsServes ==
  ASSUME IInv, Served, NEW w \in Workers, HostMigrations(w)
  PROVE  Served'
<1>1. /\ job[w].pc = "migrations" /\ job[w] \in JobType /\ job \in [Workers -> JobType]
      /\ con' = con /\ backends' = backends /\ mixed' = mixed
  BY DEF IInv, Types, HostMigrations, At, history
<1>2. job[w].con = NoContainer
  BY <1>1, HostJob DEF IInv, JobShape, ComeTo, HostKinds
<1>3. Others(w) /\ job'[w].con = NoContainer /\ job'[w].pc \in {"idle", "migrations"}
  <2>1. CASE End(w)
    BY <1>1, <2>1, Finished DEF Ended, Idle
  <2>2. CASE ~End(w)
    <3>1. PICK c \in job[w].rest : job' = [job EXCEPT ![w].rest = @ \ {c}]
      BY <2>2 DEF HostMigrations
    <3> QED
      BY <1>1, <1>2, <3>1 DEF JobType, Others
  <2> QED
    BY <2>1, <2>2
<1>4. \A v \in Workers \ {w} : job'[v] = job[v]
  BY <1>3 DEF Others
<1>5. \A v \in Workers : At(v, "commit")' => job'[v].rest = {}
  BY <1>3, <1>4 DEF Served, At
<1> SUFFICES ASSUME NEW x \in Containers \ mixed PROVE ServedAt(x)'
  BY <1>1, <1>5 DEF Served
<1>6. ServedAt(x) /\ x # NoContainer /\ Same(x)
  BY <1>1, LifecycleAssumption DEF Served, Same, Now
<1>7. ~Held(w, x) /\ \A v \in Workers : Held(v, x)' <=> Held(v, x)
  BY <1>1, <1>3, <1>4 DEF Held, Open
<1> QED
  BY <1>1, <1>2, <1>3, <1>4, <1>6, <1>7, AsideServed

LEMMA WorkServes ==
  ASSUME IInv, IInv', Served, "rebind" \notin Faults, NEW w \in Workers, Work(w)
  PROVE  Served'
BY DownServes, UpServes, MarkServes, ReleaseServes, ForgetServes, NetworkServes, DockerRemovesServes,
   ResetServes, UnlistServes, SetFlagServes, DockerCreatesServes, ReadServes, WriteServes, ListServes,
   TestServes, HealthServes, NetworkNotServes, LaunchServes, HaltServes, EnqueueServes,
   ClearFlagServes, DockerRemovesNotServes, UnbindServes, RebindServes, EraseServes, RaisesServes,
   RecordServes, DockerCreatesNotServes, DockerStartsServes, DockerStartsNotServes, PlanServes,
    HostBackendsServes, HostCommitServes,
   HostMigrationsServes, Zenon DEF Work

LEMMA NextServes ==
  ASSUME IInv, IInv', Served, "rebind" \notin Faults, [Next]_vars
  PROVE  Served'
<1>1. CASE Event
  <2>1. PICK c \in Containers :
          \/ Die(c) \/ Delete(c)
          \/ \E w \in Workers : Deploy(w, c) \/ Start(w, c) \/ Stop(w, c) \/ Remove(w, c)
             \/ HostStatus(w, HostOf[c], "hostkill") \/ HostStatus(w, HostOf[c], "hostcure")
    BY <1>1 DEF Event
  <2>2. HostOf[c] \in Hosts /\ "hostkill" \in HostKinds /\ "hostcure" \in HostKinds
    BY LifecycleAssumption DEF HostKinds
  <2> QED
    BY <2>1, <2>2, EventsServe, RequestsServe, HostStatusServes, Zenon
<1>2. CASE Consequence
  BY <1>2, WorkServes, RequestsServe, EventsServe, Zenon DEF Consequence
<1>3. CASE AllDone \/ UNCHANGED vars
  <2>1. job' = job /\ con' = con /\ mixed' = mixed /\ backends' = backends
    BY <1>3 DEF AllDone, vars, stores, history
  <2>2. \A x \in Containers : Same(x)
    BY <2>1 DEF Same, Now
  <2> QED
    BY <2>1, <2>2, QuietServes
<1> QED
  BY <1>1, <1>2, <1>3 DEF Next

LEMMA InitServes == Init => Served
<1> SUFFICES ASSUME Init PROVE Served
  OBVIOUS
<1>1. \A w \in Workers : job[w].con = NoContainer /\ job[w].pc = "idle"
  BY DEF Init, Idle
<1>2. \A x \in Containers : x # NoContainer /\ ~con[x].row /\ x \notin backends
  BY LifecycleAssumption DEF Init, New
<1> QED
  BY <1>1, <1>2 DEF Served, ServedAt, LoneWorker, Held, Open, Agree, At

(* Unless an address asked for again is refused, the backends of every     *)
(* container are at rest what its record says, when no two jobs worked on  *)
(* it at once and no request of its host failed half way: what each job    *)
(* leaves undone when it ends or fails leaves the two in agreement.        *)
THEOREM BackendsFollow == "rebind" \notin Faults => (Spec => []BackendsAgree)
<1> SUFFICES ASSUME "rebind" \notin Faults PROVE Spec => []BackendsAgree
  OBVIOUS
<1>1. IInv /\ Served /\ [Next]_vars => (IInv /\ Served)'
  BY NextKeeps, NextServes
<1>2. IInv /\ Served => BackendsAgree
  <2> SUFFICES ASSUME IInv, Served, Settled, NEW c \in Containers \ mixed
               PROVE  /\ c \in Eligible => c \in backends
                      /\ c \in backends => con[c].row /\ con[c].alive /\ con[c].ip
    BY DEF BackendsAgree
  <2>1. \A w \in Workers : job[w].con # c /\ ~Flipped(w, c)
    BY Idles, LifecycleAssumption DEF Settled, Flipped, Open, At
  <2>2. Agree(c)
    BY <2>1 DEF Served, ServedAt
  <2> QED
    BY <2>2 DEF Agree, Eligible
<1> QED
  BY <1>1, <1>2, InitOK, InitServes, PTL DEF Spec

-----------------------------------------------------------------------------
(* The published node, when jobs follow one another.                       *)

\* The node is still to be written.
Late(p, k) ==
    \/ p \in {"flag", "unlist", "list", "health", "read", "write"}
    \/ p = "rebind" /\ k = "start"

\* What a job of kind k for c knows at p, where it has seen S, when it is alone.
Shows(p, k, c, S) ==
    /\ p \in {"mark", "flag", "unlist", "list", "health", "read"} => S = Rows(con)
    /\ p = "write" => S = Eligible
    /\ p = "rebind" /\ k = "start" =>
          missed \/ published = {x \in Containers : con[x].row /\ con[x].alive /\ ~con[x].removal
                                                       /\ (con[x].ip \/ x = c)}
    /\ ~Late(p, k) => (missed \/ published = Eligible)

Shown ==
    ~overlap =>
       /\ mixed = {}
       /\ \A v, w \in Workers : At(v, "idle") \/ At(w, "idle") \/ v = w
       /\ \A w \in Workers :
             /\ ~At(w, "idle") => Shows(job[w].pc, job[w].kind, job[w].con, job[w].seen)
             /\ At(w, "backends") /\ job[w].rest = {} => job[w].seen = {}
       /\ Settled => (missed \/ published = Eligible)

LEMMA WorkerShows ==
  ASSUME Shown, NEW w \in Workers, job[w].pc # "idle", Others(w), overlap' = overlap,
         ~overlap => mixed' = mixed,
         job'[w].pc = "backends" /\ job'[w].rest = {} => job'[w].seen = {},
         ~overlap => IF job'[w].pc = "idle" THEN (missed' \/ published' = Eligible')
                     ELSE Shows(job[w].pc, job[w].kind, job[w].con, job[w].seen)'
  PROVE  Shown'
<1> SUFFICES ASSUME ~overlap'
             PROVE  /\ mixed' = {}
                    /\ \A u, v \in Workers : At(u, "idle")' \/ At(v, "idle")' \/ u = v
                    /\ \A v \in Workers :
                          /\ ~At(v, "idle")' => Shows(job[v].pc, job[v].kind, job[v].con, job[v].seen)'
                          /\ At(v, "backends")' /\ job'[v].rest = {} => job'[v].seen = {}
                    /\ Settled' => (missed' \/ published' = Eligible')
  BY DEF Shown
<1>1. mixed' = {} /\ \A v \in Workers \ {w} : At(v, "idle")
  BY DEF Shown, At
<1>2. \A v \in Workers \ {w} : At(v, "idle")'
  BY <1>1 DEF Others, At
<1>3. \A v \in Workers : ~At(v, "idle")' \/ At(v, "backends")' => v = w
  BY <1>2 DEF At
<1> QED
  BY <1>1, <1>2, <1>3 DEF At, Settled

LEMMA Alone ==
  ASSUME Served, Shown, ~overlap, NEW w \in Workers, job[w].pc # "idle"
  PROVE  /\ Shows(job[w].pc, job[w].kind, job[w].con, job[w].seen)
         /\ job[w].con \in Containers => Fits(job[w].pc, job[w].kind, job[w].con)
<1>1. mixed = {} /\ Shows(job[w].pc, job[w].kind, job[w].con, job[w].seen)
  BY DEF Shown, At
<1> QED
  BY <1>1 DEF Served, ServedAt

LEMMA MoveShows ==
  ASSUME Served, Shown, NEW w \in Workers, Own(w), job[w].pc # "idle",
         NEW p \in Places \ {"idle", "backends"}, Moved(w, p),
         NEW c, c = job[w].con, NEW k, k = job[w].kind,
         NEW S, S = job[w].seen, NEW T, T = job'[w].seen,
         (c \in Containers => Fits(job[w].pc, k, c)) /\ Shows(job[w].pc, k, c, S) => Shows(p, k, c, T)'
  PROVE  Shown'
<1>1. /\ Others(w) /\ overlap' = overlap /\ mixed' = mixed
      /\ job'[w].pc = p /\ job'[w].kind = k /\ job'[w].con = c /\ job'[w].seen = T
  BY DEF Own, Moved
<1>2. ~overlap => Shows(p, k, c, T)'
  BY Alone
<1>3. ~overlap => Shows(job[w].pc, job[w].kind, job[w].con, job[w].seen)'
  BY <1>1, <1>2
<1> QED
  BY <1>1, <1>3, WorkerShows

LEMMA LeaveShows ==
  ASSUME Served, Shown, NEW w \in Workers, Own(w), job[w].pc # "idle", Leaves(w),
         NEW c, c = job[w].con, NEW k, k = job[w].kind, NEW S, S = job[w].seen,
         (c \in Containers => Fits(job[w].pc, k, c)) /\ Shows(job[w].pc, k, c, S)
            => (missed' \/ published' = Eligible')
  PROVE  Shown'
<1>1. /\ Others(w) /\ overlap' = overlap /\ mixed' = mixed
  BY DEF Own
<1>2. job'[w].pc \in {"idle", "docker"}
  <2>1. Ended(w) => job'[w].pc = "idle"
    BY DEF Ended, Idle
  <2>2. Turned(w) => job'[w].pc = "docker"
    BY DEF Turned, Idle
  <2> QED
    BY <2>1, <2>2 DEF Leaves
<1>3. ~overlap => (missed' \/ published' = Eligible')
  BY Alone
<1>4. job'[w].pc = "docker" /\ ~overlap => Shows(job[w].pc, job[w].kind, job[w].con, job[w].seen)'
  BY <1>3 DEF Shows, Late
<1> QED
  BY <1>1, <1>2, <1>3, <1>4, WorkerShows

\* What is published depends on the container of the job alone.
LEMMA EligibleKept ==
  ASSUME NEW w \in Workers, Own(w), NEW c, c = job[w].con,
         c \in Containers =>
            (con'[c].row /\ con'[c].alive /\ ~con'[c].removal /\ con'[c].ip
               <=> con[c].row /\ con[c].alive /\ ~con[c].removal /\ con[c].ip)
  PROVE  Eligible' = Eligible
<1>1. \A x \in Containers : x # c => con'[x] = con[x]
  BY DEF Own
<1> QED
  BY <1>1 DEF Eligible

LEMMA RowsKept ==
  ASSUME NEW w \in Workers, Own(w), NEW c, c = job[w].con,
         c \in Containers =>
            con'[c].row = con[c].row /\ con'[c].alive = con[c].alive /\ con'[c].ip = con[c].ip
  PROVE  Rows(con') = Rows(con)
<1>1. \A x \in Containers : x # c => con'[x] = con[x]
  BY DEF Own
<1> QED
  BY <1>1 DEF Rows

LEMMA SameKept ==
  ASSUME NEW w \in Workers, Own(w), Same(job[w].con)
  PROVE  Eligible' = Eligible /\ Rows(con') = Rows(con)
<1>1. PICK c : c = job[w].con
  OBVIOUS
<1>2. /\ con'[c].row = con[c].row /\ con'[c].alive = con[c].alive
      /\ con'[c].removal = con[c].removal /\ con'[c].ip = con[c].ip
  BY <1>1 DEF Same, Now
<1> QED
  BY <1>1, <1>2, EligibleKept, RowsKept

LEMMA DownShows ==
  ASSUME IInv, Served, Shown, NEW w \in Workers, Down(w)
  PROVE  Shown'
<1>1. PICK c, k, S, T : c = job[w].con /\ k = job[w].kind /\ S = job[w].seen /\ T = job'[w].seen
  OBVIOUS
<1>2. /\ job[w].pc = "down" /\ Own(w) /\ Moved(w, "unlist") /\ c \in Containers
      /\ T = Rows(con')
  BY <1>1, DownDoes
<1>3. /\ published' = published /\ missed' = missed
      /\ "unlist" \in Places \ {"idle", "backends"} /\ ComeTo("down", k)
  BY <1>1, <1>2 DEF Down, Places, IInv, JobShape, history
<1>6. (c \in Containers => Fits("down", k, c)) /\ Shows("down", k, c, S) => Shows("unlist", k, c, T)'
  BY <1>2, <1>3 DEF Shows, Late, ComeTo
<1> QED
  BY <1>1, <1>2, <1>3, <1>6, MoveShows

LEMMA UpShows ==
  ASSUME IInv, Served, Shown, NEW w \in Workers, Up(w)
  PROVE  Shown'
<1>1. PICK c, k, S, T : c = job[w].con /\ k = job[w].kind /\ S = job[w].seen /\ T = job'[w].seen
  OBVIOUS
<1>2. /\ job[w].pc = "up" /\ Own(w) /\ Moved(w, "list") /\ c \in Containers
      /\ T = Rows(con')
  BY <1>1, UpDoes
<1>3. /\ published' = published /\ missed' = missed
      /\ "list" \in Places \ {"idle", "backends"} /\ ComeTo("up", k)
  BY <1>1, <1>2 DEF Up, Places, IInv, JobShape, history
<1>6. (c \in Containers => Fits("up", k, c)) /\ Shows("up", k, c, S) => Shows("list", k, c, T)'
  BY <1>2, <1>3 DEF Shows, Late, ComeTo
<1> QED
  BY <1>1, <1>2, <1>3, <1>6, MoveShows

LEMMA NetworkShows ==
  ASSUME IInv, Served, Shown, NEW w \in Workers, Network(w)
  PROVE  Shown'
<1>1. PICK c, k, S, T : c = job[w].con /\ k = job[w].kind /\ S = job[w].seen /\ T = job'[w].seen
  OBVIOUS
<1>2. /\ job[w].pc = "network" /\ Own(w) /\ Moved(w, "list") /\ c \in Containers
      /\ T = Rows(con')
  BY <1>1, NetworkDoes
<1>3. /\ published' = published /\ missed' = missed
      /\ "list" \in Places \ {"idle", "backends"} /\ ComeTo("network", k)
  BY <1>1, <1>2 DEF Network, Places, IInv, JobShape, history
<1>6. (c \in Containers => Fits("network", k, c)) /\ Shows("network", k, c, S) => Shows("list", k, c, T)'
  BY <1>2, <1>3 DEF Shows, Late, ComeTo
<1> QED
  BY <1>1, <1>2, <1>3, <1>6, MoveShows

LEMMA DockerCreatesNotShows ==
  ASSUME IInv, Served, Shown, NEW w \in Workers, DockerCreatesNot(w)
  PROVE  Shown'
<1>1. PICK c, k, S, T : c = job[w].con /\ k = job[w].kind /\ S = job[w].seen /\ T = job'[w].seen
  OBVIOUS
<1>2. /\ job[w].pc = "docker" /\ Own(w) /\ Moved(w, "read") /\ c \in Containers
      /\ T = Rows(con')
  BY <1>1, DockerCreatesNotDoes
<1>3. /\ published' = published /\ missed' = missed
      /\ "read" \in Places \ {"idle", "backends"} /\ ComeTo("docker", k)
  BY <1>1, <1>2 DEF DockerCreatesNot, Places, IInv, JobShape, history
<1>6. (c \in Containers => Fits("docker", k, c)) /\ Shows("docker", k, c, S) => Shows("read", k, c, T)'
  BY <1>2, <1>3 DEF Shows, Late, ComeTo
<1> QED
  BY <1>1, <1>2, <1>3, <1>6, MoveShows

LEMMA DockerStartsNotShows ==
  ASSUME IInv, Served, Shown, NEW w \in Workers, DockerStartsNot(w)
  PROVE  Shown'
<1>1. PICK c, k, S, T : c = job[w].con /\ k = job[w].kind /\ S = job[w].seen /\ T = job'[w].seen
  OBVIOUS
<1>2. /\ job[w].pc = "boot" /\ Own(w) /\ Moved(w, "read") /\ c \in Containers
      /\ T = Rows(con')
  BY <1>1, DockerStartsNotDoes
<1>3. /\ published' = published /\ missed' = missed
      /\ "read" \in Places \ {"idle", "backends"} /\ ComeTo("boot", k)
  BY <1>1, <1>2 DEF DockerStartsNot, Places, IInv, JobShape, history
<1>6. (c \in Containers => Fits("boot", k, c)) /\ Shows("boot", k, c, S) => Shows("read", k, c, T)'
  BY <1>2, <1>3 DEF Shows, Late, ComeTo
<1> QED
  BY <1>1, <1>2, <1>3, <1>6, MoveShows

LEMMA MarkShows ==
  ASSUME IInv, Served, Shown, NEW w \in Workers, Mark(w)
  PROVE  Shown'
<1>1. PICK c, k, S, T : c = job[w].con /\ k = job[w].kind /\ S = job[w].seen /\ T = job'[w].seen
  OBVIOUS
<1>2. /\ job[w].pc = "mark" /\ Own(w) /\ Moved(w, "flag") /\ c \in Containers
      /\ T = S /\ Now(c, con[c].row, con[c].alive, TRUE, con[c].ip)
  BY <1>1, MarkDoes
<1>3. /\ published' = published /\ missed' = missed
      /\ "flag" \in Places \ {"idle", "backends"} /\ ComeTo("mark", k)
  BY <1>1, <1>2 DEF Mark, Places, IInv, JobShape, history
<1>4. Rows(con') = Rows(con)
  BY <1>1, <1>2, RowsKept DEF Now
<1>6. (c \in Containers => Fits("mark", k, c)) /\ Shows("mark", k, c, S) => Shows("flag", k, c, T)'
  BY <1>2, <1>3, <1>4 DEF Shows, Late, ComeTo
<1> QED
  BY <1>1, <1>2, <1>3, <1>6, MoveShows

LEMMA UnlistShows ==
  ASSUME IInv, Served, Shown, NEW w \in Workers, Unlist(w)
  PROVE  Shown'
<1>1. PICK c, k, S, T : c = job[w].con /\ k = job[w].kind /\ S = job[w].seen /\ T = job'[w].seen
  OBVIOUS
<1>2. /\ job[w].pc = "unlist" /\ Own(w) /\ Moved(w, "read") /\ c \in Containers
      /\ T = S /\ Same(c)
  BY <1>1, UnlistDoes
<1>3. /\ published' = published /\ missed' = missed
      /\ "read" \in Places \ {"idle", "backends"} /\ ComeTo("unlist", k)
  BY <1>1, <1>2 DEF Unlist, Places, IInv, JobShape, history
<1>4. Eligible' = Eligible /\ Rows(con') = Rows(con)
  BY <1>1, <1>2, SameKept
<1>6. (c \in Containers => Fits("unlist", k, c)) /\ Shows("unlist", k, c, S) => Shows("read", k, c, T)'
  BY <1>2, <1>3, <1>4 DEF Shows, Late, ComeTo
<1> QED
  BY <1>1, <1>2, <1>3, <1>6, MoveShows

LEMMA SetFlagShows ==
  ASSUME IInv, Served, Shown, NEW w \in Workers, SetFlag(w)
  PROVE  Shown'
<1>1. PICK c, k, S, T : c = job[w].con /\ k = job[w].kind /\ S = job[w].seen /\ T = job'[w].seen
  OBVIOUS
<1>2. /\ job[w].pc = "flag" /\ Own(w) /\ Moved(w, "unlist") /\ c \in Containers
      /\ T = S /\ Same(c)
  BY <1>1, SetFlagDoes
<1>3. /\ published' = published /\ missed' = missed
      /\ "unlist" \in Places \ {"idle", "backends"} /\ ComeTo("flag", k)
  BY <1>1, <1>2 DEF SetFlag, Places, IInv, JobShape, history
<1>4. Eligible' = Eligible /\ Rows(con') = Rows(con)
  BY <1>1, <1>2, SameKept
<1>6. (c \in Containers => Fits("flag", k, c)) /\ Shows("flag", k, c, S) => Shows("unlist", k, c, T)'
  BY <1>2, <1>3, <1>4 DEF Shows, Late, ComeTo
<1> QED
  BY <1>1, <1>2, <1>3, <1>6, MoveShows

LEMMA ReleaseShows ==
  ASSUME IInv, Served, Shown, NEW w \in Workers, Release(w)
  PROVE  Shown'
<1>1. PICK c, k, S, T : c = job[w].con /\ k = job[w].kind /\ S = job[w].seen /\ T = job'[w].seen
  OBVIOUS
<1>2. /\ job[w].pc = "release" /\ Own(w) /\ Moved(w, "forget") /\ c \in Containers
      /\ Now(c, con[c].row, con[c].alive, con[c].removal, FALSE)
  BY <1>1, ReleaseDoes
<1>3. /\ published' = published /\ missed' = missed
      /\ "forget" \in Places \ {"idle", "backends"} /\ ComeTo("release", k)
  BY <1>1, <1>2 DEF Release, Places, IInv, JobShape, history
<1>4. Fits("release", k, c) => Eligible' = Eligible
  BY <1>1, <1>2, <1>3, EligibleKept DEF Fits, Now, ComeTo
<1>6. (c \in Containers => Fits("release", k, c)) /\ Shows("release", k, c, S) => Shows("forget", k, c, T)'
  BY <1>2, <1>3, <1>4 DEF Shows, Late, ComeTo
<1> QED
  BY <1>1, <1>2, <1>3, <1>6, MoveShows

LEMMA ForgetShows ==
  ASSUME IInv, Served, Shown, NEW w \in Workers, Forget(w)
  PROVE  Shown'
<1>1. PICK c, k, S, T : c = job[w].con /\ k = job[w].kind /\ S = job[w].seen /\ T = job'[w].seen
  OBVIOUS
<1>2. /\ job[w].pc = "forget" /\ Own(w) /\ Moved(w, "erase") /\ c \in Containers
      /\ Now(c, con[c].row, con[c].alive, FALSE, con[c].ip)
  BY <1>1, ForgetDoes
<1>3. /\ published' = published /\ missed' = missed
      /\ "erase" \in Places \ {"idle", "backends"} /\ ComeTo("forget", k)
  BY <1>1, <1>2 DEF Forget, Places, IInv, JobShape, history
<1>4. Fits("forget", k, c) => Eligible' = Eligible
  BY <1>1, <1>2, <1>3, EligibleKept DEF Fits, Now, ComeTo
<1>6. (c \in Containers => Fits("forget", k, c)) /\ Shows("forget", k, c, S) => Shows("erase", k, c, T)'
  BY <1>2, <1>3, <1>4 DEF Shows, Late, ComeTo
<1> QED
  BY <1>1, <1>2, <1>3, <1>6, MoveShows

LEMMA DockerRemovesShows ==
  ASSUME IInv, Served, Shown, NEW w \in Workers, DockerRemoves(w)
  PROVE  Shown'
<1>1. PICK c, k, S, T : c = job[w].con /\ k = job[w].kind /\ S = job[w].seen /\ T = job'[w].seen
  OBVIOUS
<1>2. /\ job[w].pc = "stop" /\ Own(w) /\ Moved(w, "release") /\ c \in Containers
      /\ Now(c, con[c].row, con[c].alive, con[c].removal, con[c].ip)
  BY <1>1, DockerRemovesDoes
<1>3. /\ published' = published /\ missed' = missed
      /\ "release" \in Places \ {"idle", "backends"} /\ ComeTo("stop", k)
  BY <1>1, <1>2 DEF DockerRemoves, Places, IInv, JobShape, history
<1>4. Fits("stop", k, c) => Eligible' = Eligible
  BY <1>1, <1>2, <1>3, EligibleKept DEF Fits, Now, ComeTo
<1>6. (c \in Containers => Fits("stop", k, c)) /\ Shows("stop", k, c, S) => Shows("release", k, c, T)'
  BY <1>2, <1>3, <1>4 DEF Shows, Late, ComeTo
<1> QED
  BY <1>1, <1>2, <1>3, <1>6, MoveShows

LEMMA DockerCreatesShows ==
  ASSUME IInv, Served, Shown, NEW w \in Workers, DockerCreates(w)
  PROVE  Shown'
<1>1. PICK c, k, S, T : c = job[w].con /\ k = job[w].kind /\ S = job[w].seen /\ T = job'[w].seen
  OBVIOUS
<1>2. /\ job[w].pc = "docker" /\ Own(w) /\ Moved(w, "boot") /\ c \in Containers
      /\ Now(c, con[c].row, con[c].alive, con[c].removal, con[c].ip)
  BY <1>1, DockerCreatesDoes
<1>3. /\ published' = published /\ missed' = missed
      /\ "boot" \in Places \ {"idle", "backends"} /\ ComeTo("docker", k)
  BY <1>1, <1>2 DEF DockerCreates, Places, IInv, JobShape, history
<1>4. Fits("docker", k, c) => Eligible' = Eligible
  BY <1>1, <1>2, <1>3, EligibleKept DEF Fits, Now, ComeTo
<1>6. (c \in Containers => Fits("docker", k, c)) /\ Shows("docker", k, c, S) => Shows("boot", k, c, T)'
  BY <1>2, <1>3, <1>4 DEF Shows, Late, ComeTo
<1> QED
  BY <1>1, <1>2, <1>3, <1>6, MoveShows

LEMMA DockerStartsShows ==
  ASSUME IInv, Served, Shown, NEW w \in Workers, DockerStarts(w)
  PROVE  Shown'
<1>1. PICK c, k, S, T : c = job[w].con /\ k = job[w].kind /\ S = job[w].seen /\ T = job'[w].seen
  OBVIOUS
<1>2. /\ job[w].pc = "boot" /\ Own(w) /\ Moved(w, "row") /\ c \in Containers
      /\ Now(c, con[c].row, con[c].alive, con[c].removal, con[c].ip)
  BY <1>1, DockerStartsDoes
<1>3. /\ published' = published /\ missed' = missed
      /\ "row" \in Places \ {"idle", "backends"} /\ ComeTo("boot", k)
  BY <1>1, <1>2 DEF DockerStarts, Places, IInv, JobShape, history
<1>4. Fits("boot", k, c) => Eligible' = Eligible
  BY <1>1, <1>2, <1>3, EligibleKept DEF Fits, Now, ComeTo
<1>6. (c \in Containers => Fits("boot", k, c)) /\ Shows("boot", k, c, S) => Shows("row", k, c, T)'
  BY <1>2, <1>3, <1>4 DEF Shows, Late, ComeTo
<1> QED
  BY <1>1, <1>2, <1>3, <1>6, MoveShows

LEMMA ResetShows ==
  ASSUME IInv, Served, Shown, NEW w \in Workers, Reset(w)
  PROVE  Shown'
<1>1. PICK c, k, S, T : c = job[w].con /\ k = job[w].kind /\ S = job[w].seen /\ T = job'[w].seen
  OBVIOUS
<1>2. /\ job[w].pc = "reset" /\ Own(w) /\ Moved(w, "enqueue") /\ c \in Containers
      /\ \E m \in BOOLEAN : Now(c, con[c].row, con[c].alive, m, con[c].ip)
  BY <1>1, ResetDoes
<1>3. /\ published' = published /\ missed' = missed
      /\ "enqueue" \in Places \ {"idle", "backends"} /\ ComeTo("reset", k)
  BY <1>1, <1>2 DEF Reset, Places, IInv, JobShape, history
<1>4. Fits("reset", k, c) => Eligible' = Eligible
  BY <1>1, <1>2, <1>3, EligibleKept DEF Fits, Now, ComeTo
<1>6. (c \in Containers => Fits("reset", k, c)) /\ Shows("reset", k, c, S) => Shows("enqueue", k, c, T)'
  BY <1>2, <1>3, <1>4 DEF Shows, Late, ComeTo
<1> QED
  BY <1>1, <1>2, <1>3, <1>6, MoveShows

\* Steps that touch neither the record nor the node, where the node is written.
LEMMA StillShows ==
  ASSUME IInv, Served, Shown, NEW w \in Workers, Own(w), NEW c, c = job[w].con, Same(c),
         published' = published /\ missed' = missed, job[w].pc # "idle", ~Late(job[w].pc, job[w].kind),
         \/ Leaves(w)
         \/ \E p \in Places \ {"idle", "backends", "mark"} : Moved(w, p) /\ ~Late(p, job[w].kind)
  PROVE  Shown'
<1>1. Eligible' = Eligible
  BY SameKept
<1>2. CASE Leaves(w)
  <2>1. PICK k, S : k = job[w].kind /\ S = job[w].seen
    OBVIOUS
  <2>2. Shows(job[w].pc, k, c, S) => (missed' \/ published' = Eligible')
    BY <1>1, <2>1 DEF Shows
  <2> QED
    BY <1>2, <2>1, <2>2, LeaveShows
<1>3. ASSUME NEW p \in Places \ {"idle", "backends", "mark"}, Moved(w, p), ~Late(p, job[w].kind)
      PROVE  Shown'
  <2>1. PICK k, S, T : k = job[w].kind /\ S = job[w].seen /\ T = job'[w].seen
    OBVIOUS
  <2>2. Shows(job[w].pc, k, c, S) => Shows(p, k, c, T)'
    BY <1>1, <1>3, <2>1 DEF Shows, Late
  <2> QED
    BY <1>3, <2>1, <2>2, MoveShows
<1> QED
  BY <1>2, <1>3

LEMMA TestShows ==
  ASSUME IInv, Served, Shown, NEW w \in Workers, Test(w)
  PROVE  Shown'
<1>1. PICK c, k : c = job[w].con /\ k = job[w].kind
  OBVIOUS
<1>2. /\ job[w].pc = "test" /\ Own(w) /\ Same(c)
      /\ Leaves(w) \/ Moved(w, "unbind") \/ Moved(w, "up")
  BY <1>1, TestDoes
<1>3. /\ published' = published /\ missed' = missed
      /\ ~Late("test", k) /\ ~Late("unbind", k) /\ ~Late("up", k)
      /\ {"unbind", "up"} \subseteq Places \ {"idle", "backends", "mark"}
  BY DEF Test, Late, Places, history
<1> QED
  BY <1>1, <1>2, <1>3, StillShows

LEMMA NetworkNotShows ==
  ASSUME IInv, Served, Shown, NEW w \in Workers, NetworkNot(w)
  PROVE  Shown'
<1>1. PICK c, k : c = job[w].con /\ k = job[w].kind
  OBVIOUS
<1>2. /\ job[w].pc = "network" /\ Own(w) /\ Same(c)
      /\ Leaves(w) \/ Moved(w, "stop")
  BY <1>1, NetworkNotDoes
<1>3. /\ published' = published /\ missed' = missed
      /\ ~Late("network", k) /\ ~Late("stop", k)
      /\ "stop" \in Places \ {"idle", "backends", "mark"}
  BY DEF NetworkNot, Late, Places, history
<1> QED
  BY <1>1, <1>2, <1>3, StillShows

LEMMA LaunchShows ==
  ASSUME IInv, Served, Shown, NEW w \in Workers, Launch(w)
  PROVE  Shown'
<1>1. PICK c, k : c = job[w].con /\ k = job[w].kind
  OBVIOUS
<1>2. /\ job[w].pc = "launch" /\ Own(w) /\ Same(c)
      /\ Leaves(w) \/ Moved(w, "unbind")
  BY <1>1, LaunchDoes
<1>3. /\ published' = published /\ missed' = missed
      /\ ~Late("launch", k) /\ ~Late("unbind", k)
      /\ "unbind" \in Places \ {"idle", "backends", "mark"}
  BY DEF Launch, Late, Places, history
<1> QED
  BY <1>1, <1>2, <1>3, StillShows

LEMMA LastStepsShow ==
  ASSUME IInv, Served, Shown, NEW w \in Workers,
         Enqueue(w) \/ ClearFlag(w) \/ Halt(w) \/ DockerRemovesNot(w)
  PROVE  Shown'
<1>1. PICK c, k : c = job[w].con /\ k = job[w].kind
  OBVIOUS
<1>2. /\ job[w].pc \in {"enqueue", "unflag", "halt", "stop"} /\ Own(w) /\ Same(c) /\ Leaves(w)
  BY <1>1, EnqueueDoes, ClearFlagDoes, HaltDoes, DockerRemovesNotDoes
<1>3. /\ published' = published /\ missed' = missed
      /\ ~Late(job[w].pc, k)
  BY <1>2 DEF Enqueue, ClearFlag, Halt, DockerRemovesNot, Late, history
<1> QED
  BY <1>1, <1>2, <1>3, StillShows

\* The record is there as long as nobody else works on the container.
LEMMA RaisesShows ==
  ASSUME IInv, Served, Shown, NEW w \in Workers, Raises(w)
  PROVE  Shown'
<1>1. PICK c, k, S : c = job[w].con /\ k = job[w].kind /\ S = job[w].seen
  OBVIOUS
<1>2. /\ job[w].pc \in {"network", "down", "unbind", "rebind", "up", "mark", "erase"}
      /\ c \in Containers /\ ~con[c].row /\ Own(w) /\ Leaves(w)
  BY <1>1, RaisesDoes
<1>3. ~Fits(job[w].pc, k, c)
  BY <1>2 DEF Fits
<1> QED
  BY <1>1, <1>2, <1>3, LeaveShows

LEMMA ListShows ==
  ASSUME IInv, Served, Shown, NEW w \in Workers, List(w)
  PROVE  Shown'
<1>1. PICK c, k, S, T, p : /\ c = job[w].con /\ k = job[w].kind /\ S = job[w].seen
                           /\ T = job'[w].seen /\ p = IF k = "create" THEN "health" ELSE "read"
  OBVIOUS
<1>2. /\ job[w].pc = "list" /\ Own(w) /\ Same(c) /\ T = S /\ Moved(w, p)
  BY <1>1, ListDoes
<1>3. /\ published' = published /\ missed' = missed
      /\ p \in {"health", "read"} /\ p \in Places \ {"idle", "backends"}
  BY <1>1 DEF List, Places, history
<1>4. Rows(con') = Rows(con)
  BY <1>1, <1>2, SameKept
<1>5. Shows("list", k, c, S) => Shows(p, k, c, T)'
  BY <1>2, <1>3, <1>4 DEF Shows, Late
<1> QED
  BY <1>1, <1>2, <1>3, <1>5, MoveShows

LEMMA HealthShows ==
  ASSUME IInv, Served, Shown, "health" \notin Faults, NEW w \in Workers, Health(w)
  PROVE  Shown'
<1>1. PICK c, k, S, T : c = job[w].con /\ k = job[w].kind /\ S = job[w].seen /\ T = job'[w].seen
  OBVIOUS
<1>2. /\ job[w].pc = "health" /\ Own(w) /\ Same(c) /\ T = S /\ Moved(w, "read")
  BY <1>1, HealthDoes
<1>3. /\ published' = published /\ missed' = missed
      /\ "read" \in Places \ {"idle", "backends"}
  BY DEF Health, Places, history
<1>4. Rows(con') = Rows(con)
  BY <1>1, <1>2, SameKept
<1>5. Shows("health", k, c, S) => Shows("read", k, c, T)'
  BY <1>2, <1>3, <1>4 DEF Shows, Late
<1> QED
  BY <1>1, <1>2, <1>3, <1>5, MoveShows

\* Of the rows, those that are to be published are left.
LEMMA ReadShows ==
  ASSUME IInv, Served, Shown, NEW w \in Workers, Read(w)
  PROVE  Shown'
<1>1. PICK c, k, S, T : c = job[w].con /\ k = job[w].kind /\ S = job[w].seen /\ T = job'[w].seen
  OBVIOUS
<1>2. job[w].pc = "read" /\ Own(w) /\ Same(c) /\ Moved(w, "write")
  BY <1>1, ReadDoes
<1>3. /\ published' = published /\ missed' = missed
      /\ "write" \in Places \ {"idle", "backends"}
  BY DEF Read, Places, history
<1>4. Eligible' = Eligible
  BY <1>1, <1>2, SameKept
<1>5. S = Rows(con) => T = Eligible
  <2>1. T = {x \in S : ~con[x].removal /\ (Calico => con[x].ip)}
    BY <1>1, ReadDoes
  <2> QED
    BY <2>1 DEF Rows, Eligible
<1>6. Shows("read", k, c, S) => Shows("write", k, c, T)'
  BY <1>4, <1>5 DEF Shows, Late
<1> QED
  BY <1>1, <1>2, <1>3, <1>6, MoveShows

LEMMA WriteShows ==
  ASSUME IInv, Served, Shown, NEW w \in Workers, Write(w)
  PROVE  Shown'
<1>1. PICK c, k, S, T : c = job[w].con /\ k = job[w].kind /\ S = job[w].seen /\ T = job'[w].seen
  OBVIOUS
<1>2. /\ job[w].pc = "write" /\ Own(w) /\ Same(c) /\ (missed' \/ published' = S)
      /\ Leaves(w) \/ \E p \in {"reset", "launch", "halt", "migrations", "stop"} : Moved(w, p)
  BY <1>1, WriteDoes
<1>3. Eligible' = Eligible
  BY <1>1, <1>2, SameKept
<1>4. Shows("write", k, c, S) => (missed' \/ published' = Eligible')
  BY <1>2, <1>3 DEF Shows
<1>5. CASE Leaves(w)
  BY <1>1, <1>2, <1>4, <1>5, LeaveShows
<1>6. ASSUME NEW p \in {"reset", "launch", "halt", "migrations", "stop"}, Moved(w, p) PROVE Shown'
  <2>1. p \in Places \ {"idle", "backends"}
    BY DEF Places
  <2>2. Shows("write", k, c, S) => Shows(p, k, c, T)'
    BY <1>4 DEF Shows, Late
  <2> QED
    BY <1>1, <1>2, <1>6, <2>1, <2>2, MoveShows
<1> QED
  BY <1>2, <1>5, <1>6

LEMMA RecordShows ==
  ASSUME IInv, Served, Shown, NEW w \in Workers, Record(w)
  PROVE  Shown'
<1>1. PICK c, k, S, T : c = job[w].con /\ k = job[w].kind /\ S = job[w].seen /\ T = job'[w].seen
  OBVIOUS
<1>2. /\ job[w].pc = "row" /\ Own(w) /\ Moved(w, "network")
      /\ Now(c, TRUE, TRUE, con[c].removal, con[c].ip)
  BY <1>1, RecordDoes
<1>3. Blank(c) /\ published' = published /\ missed' = missed /\ "network" \in Places \ {"idle", "backends"}
  BY <1>1, <1>2, AtMaking DEF Record, Places, history
<1>4. Eligible' = Eligible
  BY <1>1, <1>2, <1>3, EligibleKept DEF Blank, Now
<1>5. Shows("row", k, c, S) => Shows("network", k, c, T)'
  BY <1>3, <1>4 DEF Shows, Late
<1> QED
  BY <1>1, <1>2, <1>3, <1>5, MoveShows

LEMMA EraseShows ==
  ASSUME IInv, Served, Shown, NEW w \in Workers, Erase(w)
  PROVE  Shown'
<1>1. PICK c, k, S, T : c = job[w].con /\ k = job[w].kind /\ S = job[w].seen /\ T = job'[w].seen
  OBVIOUS
<1>2. /\ job[w].pc = "erase" /\ Own(w) /\ c \in Containers
      /\ Now(c, FALSE, con[c].alive, con[c].removal, con[c].ip)
      /\ (Moved(w, "read") /\ T = Rows(con')) \/ Moved(w, "unflag")
  BY <1>1, EraseDoes
<1>3. /\ published' = published /\ missed' = missed
      /\ {"read", "unflag"} \subseteq Places \ {"idle", "backends"}
  BY DEF Erase, Places, history
<1>4. Fits("erase", k, c) => Eligible' = Eligible
  BY <1>1, <1>2, EligibleKept DEF Fits, Now
<1>5. CASE Moved(w, "read") /\ T = Rows(con')
  <2>1. Shows("read", k, c, T)'
    BY <1>5 DEF Shows, Late
  <2> QED
    BY <1>1, <1>2, <1>3, <1>5, <2>1, MoveShows
<1>6. CASE Moved(w, "unflag")
  <2>1. (c \in Containers => Fits("erase", k, c)) /\ Shows("erase", k, c, S) => Shows("unflag", k, c, T)'
    BY <1>2, <1>3, <1>4 DEF Shows, Late
  <2> QED
    BY <1>1, <1>2, <1>3, <1>6, <2>1, MoveShows
<1> QED
  BY <1>2, <1>5, <1>6

\* A start publishes first: the addresses are as they were in the end.
LEMMA UnbindShows ==
  ASSUME IInv, Served, Shown, NEW w \in Workers, Unbind(w)
  PROVE  Shown'
<1>1. PICK c, k, S, T : c = job[w].con /\ k = job[w].kind /\ S = job[w].seen /\ T = job'[w].seen
  OBVIOUS
<1>2. /\ job[w].pc = "unbind" /\ Own(w) /\ c \in Containers
      /\ Now(c, con[c].row, con[c].alive, con[c].removal, FALSE)
      /\ \/ con[c].ip /\ Moved(w, "rebind")
         \/ ~con[c].ip /\ k = "cure" /\ Moved(w, "up")
         \/ ~con[c].ip /\ Leaves(w)
  BY <1>1, UnbindDoes
<1>3. /\ published' = published /\ missed' = missed
      /\ {"rebind", "up"} \subseteq Places \ {"idle", "backends"}
      /\ k \in {"cure", "start"}
  BY <1>1, <1>2 DEF Unbind, Places, IInv, JobShape, ComeTo, history
<1>4. Fits("unbind", k, c) /\ (~con[c].ip \/ k = "cure") => Eligible' = Eligible
  BY <1>1, <1>2, EligibleKept DEF Fits, Now
<1>5. CASE Leaves(w) /\ ~con[c].ip
  <2>1. (c \in Containers => Fits("unbind", k, c)) /\ Shows("unbind", k, c, S)
           => (missed' \/ published' = Eligible')
    BY <1>2, <1>3, <1>4, <1>5 DEF Shows, Late
  <2> QED
    BY <1>1, <1>2, <1>5, <2>1, LeaveShows
<1>6. CASE k = "cure" /\ (Moved(w, "up") \/ Moved(w, "rebind"))
  <2>1. PICK p \in {"up", "rebind"} : Moved(w, p)
    BY <1>6
  <2>2. (c \in Containers => Fits("unbind", k, c)) /\ Shows("unbind", k, c, S) => Shows(p, k, c, T)'
    BY <1>2, <1>3, <1>4, <1>6 DEF Shows, Late
  <2> QED
    BY <1>1, <1>2, <1>3, <2>1, <2>2, MoveShows
<1>7. CASE k = "start" /\ Moved(w, "rebind") /\ con[c].ip
  <2>1. \A x \in Containers : x # c => con'[x] = con[x]
    BY <1>1 , <1>2 DEF Own
  <2>2. Eligible = {x \in Containers : con'[x].row /\ con'[x].alive /\ ~con'[x].removal
                                          /\ (con'[x].ip \/ x = c)}
    BY <1>2, <1>7, <2>1 DEF Eligible, Now
  <2>3. Shows("unbind", k, c, S) => Shows("rebind", k, c, T)'
    BY <1>3, <1>7, <2>2 DEF Shows, Late
  <2> QED
    BY <1>1, <1>2, <1>3, <1>7, <2>3, MoveShows
<1> QED
  BY <1>2, <1>3, <1>5, <1>6, <1>7

LEMMA RebindShows ==
  ASSUME IInv, Served, Shown, "rebind" \notin Faults, NEW w \in Workers, Rebind(w)
  PROVE  Shown'
<1>1. PICK c, k, S, T : c = job[w].con /\ k = job[w].kind /\ S = job[w].seen /\ T = job'[w].seen
  OBVIOUS
<1>2. /\ job[w].pc = "rebind" /\ Own(w) /\ c \in Containers
      /\ \E ok \in Outcomes("rebind") : Now(c, con[c].row, con[c].alive, con[c].removal, ok)
      /\ IF k = "cure" THEN Moved(w, "up") ELSE k = "start" /\ Leaves(w)
  BY <1>1, RebindDoes
<1>3. /\ published' = published /\ missed' = missed
      /\ "up" \in Places \ {"idle", "backends"}
  BY DEF Rebind, Places, history
<1>4. Now(c, con[c].row, con[c].alive, con[c].removal, TRUE)
  BY <1>2 DEF Outcomes
<1>5. CASE k = "cure" /\ Moved(w, "up")
  <2>1. Fits("rebind", k, c) => Eligible' = Eligible
    BY <1>1, <1>2, <1>4, <1>5, EligibleKept DEF Fits, Now
  <2>2. (c \in Containers => Fits("rebind", k, c)) /\ Shows("rebind", k, c, S) => Shows("up", k, c, T)'
    BY <1>2, <1>3, <1>5, <2>1 DEF Shows, Late
  <2> QED
    BY <1>1, <1>2, <1>3, <1>5, <2>2, MoveShows
<1>6. CASE k = "start" /\ Leaves(w)
  <2>1. \A x \in Containers : x # c => con'[x] = con[x]
    BY <1>1, <1>2 DEF Own
  <2>2. Eligible' = {x \in Containers : con[x].row /\ con[x].alive /\ ~con[x].removal
                                           /\ (con[x].ip \/ x = c)}
    BY <1>4, <2>1 DEF Eligible, Now
  <2>3. Shows("rebind", k, c, S) => (missed' \/ published' = Eligible')
    BY <1>3, <1>6, <2>2 DEF Shows
  <2> QED
    BY <1>1, <1>2, <1>6, <2>3, LeaveShows
<1> QED
  BY <1>2, <1>5, <1>6

\* No job begins, moves or ends, and no record changes.
LEMMA QuietShows ==
  ASSUME Shown, \A x \in Containers : Same(x), published' = published /\ missed' = missed, mixed' = mixed,
         overlap' = overlap, job' = job
  PROVE  Shown'
<1>1. \A x \in Containers :
         /\ con'[x].row = con[x].row /\ con'[x].alive = con[x].alive
         /\ con'[x].removal = con[x].removal /\ con'[x].ip = con[x].ip
  BY DEF Same, Now
<1>2. \A p, k, c, S : Shows(p, k, c, S)' <=> Shows(p, k, c, S)
  <2>1. Eligible' = Eligible
    BY <1>1 DEF Eligible
  <2>2. Rows(con') = Rows(con)
    BY <1>1 DEF Rows
  <2> SUFFICES ASSUME NEW p, NEW k, NEW c, NEW S PROVE Shows(p, k, c, S)' <=> Shows(p, k, c, S)
    OBVIOUS
  <2> DEFINE Restored == {x \in Containers : con[x].row /\ con[x].alive /\ ~con[x].removal
                                             /\ (con[x].ip \/ x = c)}
  <2>3. Restored' = Restored
    BY <1>1
  <2>4. Shows(p, k, c, S) <=>
          /\ p \in {"mark", "flag", "unlist", "list", "health", "read"} => S = Rows(con)
          /\ p = "write" => S = Eligible
          /\ p = "rebind" /\ k = "start" => (missed \/ published = Restored)
          /\ ~Late(p, k) => (missed \/ published = Eligible)
    BY DEF Shows
  <2>5. Shows(p, k, c, S)' <=>
          /\ p \in {"mark", "flag", "unlist", "list", "health", "read"} => S = Rows(con')
          /\ p = "write" => S = Eligible'
          /\ p = "rebind" /\ k = "start" => (missed' \/ published' = Restored')
          /\ ~Late(p, k) => (missed' \/ published' = Eligible')
    BY DEF Shows, Late
  <2> HIDE DEF Restored
  <2> QED
    BY <2>1, <2>2, <2>3, <2>4, <2>5
<1>3. Settled' <=> Settled
  BY DEF Settled, At
<1>4. Eligible' = Eligible
  BY <1>1 DEF Eligible
<1> QED
  BY <1>2, <1>3, <1>4 DEF Shown, At

LEMMA EventsShow ==
  ASSUME IInv, Shown, NEW c \in Containers,
         Die(c) \/ Delete(c) \/ Restart(c) \/ ReportUnknown(c)
  PROVE  Shown'
<1>1. /\ con \in [Containers -> ConType] /\ job' = job /\ mixed' = mixed /\ overlap' = overlap
      /\ published' = published /\ missed' = missed
  BY DEF IInv, Types, Die, Delete, Restart, ReportUnknown, history
<1>2. con' = con \/ \E d \in {"died", "removed", "running"} : con' = [con EXCEPT ![c].docker = d]
  BY DEF Die, Delete, Restart, ReportUnknown
<1>3. \A x \in Containers : Same(x)
  BY <1>1, <1>2 DEF ConType, Same, Now
<1> QED
  BY <1>1, <1>3, QuietShows

\* The first step of a job, when no other is under way.
LEMMA FirstShows ==
  ASSUME IInv, Shown, NEW w \in Workers, Others(w), At(w, "idle"), job'[w].pc # "idle",
         overlap' = (overlap \/ \E v \in Workers : ~At(v, "idle")),
         (\A v \in Workers : job[v].con = NoContainer /\ job[v].host = NoHost) => mixed' = mixed,
         \A x \in Containers : Same(x), published' = published /\ missed' = missed,
         ~Late(job'[w].pc, job'[w].kind),
         job'[w].pc = "mark" => job'[w].seen = Rows(con),
         job'[w].pc = "backends" /\ job'[w].rest = {} => job'[w].seen = {}
  PROVE  Shown'
<1> SUFFICES ASSUME ~overlap'
             PROVE  /\ mixed' = {}
                    /\ \A u, v \in Workers : At(u, "idle")' \/ At(v, "idle")' \/ u = v
                    /\ \A v \in Workers :
                          /\ ~At(v, "idle")' => Shows(job[v].pc, job[v].kind, job[v].con, job[v].seen)'
                          /\ At(v, "backends")' /\ job'[v].rest = {} => job'[v].seen = {}
                    /\ Settled' => (missed' \/ published' = Eligible')
  BY DEF Shown
<1>1. ~overlap /\ \A v \in Workers : At(v, "idle")
  OBVIOUS
<1>2. \A v \in Workers : job[v].con = NoContainer /\ job[v].host = NoHost
  BY <1>1, Idles
<1>3. mixed' = {} /\ (missed \/ published = Eligible)
  BY <1>1, <1>2 DEF Shown, Settled
<1>4. \A v \in Workers \ {w} : At(v, "idle")'
  BY <1>1 DEF Others, At
<1>5. \A v \in Workers : ~At(v, "idle")' \/ At(v, "backends")' => v = w
  BY <1>4 DEF At
<1>6. Eligible' = Eligible /\ Rows(con') = Rows(con)
  BY DEF Same, Now, Eligible, Rows
<1>7. PICK p, k, c, S : p = job'[w].pc /\ k = job'[w].kind /\ c = job'[w].con /\ S = job'[w].seen
  OBVIOUS
<1>8. Shows(p, k, c, S)'
  BY <1>3, <1>6, <1>7 DEF Shows, Late
<1>9. Shows(job[w].pc, job[w].kind, job[w].con, job[w].seen)'
  BY <1>7, <1>8
<1>10. ~Settled'
  BY DEF Settled, At
<1> QED
  BY <1>3, <1>5, <1>9, <1>10 DEF At

LEMMA TakeShows ==
  ASSUME IInv, Shown, NEW w \in Workers, NEW k \in Kinds, NEW c \in Containers,
         NEW p \in {"docker", "test", "down", "mark", "plan"}, p = "mark" => k = "remove",
         Take(w, k, c, p), \A x \in Containers : Same(x), published' = published /\ missed' = missed
  PROVE  Shown'
<1>1. p \in Places /\ ~Late(p, k)
  BY DEF Places, Late
<1>2. /\ Others(w) /\ At(w, "idle") /\ job'[w].pc = p /\ job'[w].kind = k
      /\ job'[w].seen = IF k = "remove" THEN Rows(con) ELSE {}
  BY <1>1, Taken DEF IInv
<1>3. /\ overlap' = (overlap \/ \E v \in Workers : ~At(v, "idle"))
      /\ mixed' = IF \E v \in Workers : job[v].con = c \/ (con[c].row /\ job[v].host = HostOf[c])
                  THEN mixed \cup {c} ELSE mixed
  BY DEF Take
<1>4. (\A v \in Workers : job[v].con = NoContainer /\ job[v].host = NoHost) => mixed' = mixed
  BY <1>3, LifecycleAssumption
<1>5. /\ job'[w].pc # "idle" /\ job'[w].pc # "backends" /\ ~Late(job'[w].pc, job'[w].kind)
      /\ job'[w].pc = "mark" => job'[w].seen = Rows(con)
  BY <1>1, <1>2
<1> QED
  BY <1>2, <1>3, <1>4, <1>5, FirstShows

LEMMA RequestsShow ==
  ASSUME IInv, Shown, NEW w \in Workers, NEW c \in Containers,
         \/ Deploy(w, c) \/ Start(w, c) \/ Stop(w, c) \/ Remove(w, c) \/ Report(w, c)
         \/ Migrate(w, c) \/ Copy(w, c)
  PROVE  Shown'
<1>1. con \in [Containers -> ConType] /\ con[c] \in ConType
  BY DEF IInv, Types
<1>2. published' = published /\ missed' = missed
  BY DEF Deploy, Start, Stop, Remove, Report, Migrate, Copy, Take, history
<1>3. \A x \in Containers : Same(x)
  <2>1. CASE con' = con
    BY <2>1 DEF Same, Now
  <2>2. CASE Deploy(w, c)
    <3>1. PICK asked \in BOOLEAN : con' = [con EXCEPT ![c].asked = asked]
      BY <2>2 DEF Deploy
    <3> QED
      BY <1>1, <3>1 DEF ConType, Same, Now
  <2> QED
    BY <2>1, <2>2 DEF Start, Stop, Remove, Report, Migrate, Copy
<1>4. CASE job' = job /\ mixed' = mixed /\ overlap' = overlap
  BY <1>2, <1>3, <1>4, QuietShows
<1>5. CASE Take(w, "remove", c, "mark")
  BY <1>2, <1>3, <1>5, TakeShows DEF Kinds
<1>6. CASE \E k \in Kinds : \E p \in {"docker", "test", "down", "plan"} : Take(w, k, c, p)
  <2>1. PICK k \in Kinds, p \in {"docker", "test", "down", "plan"} : Take(w, k, c, p)
    BY <1>6
  <2> QED
    BY <1>2, <1>3, <2>1, TakeShows
<1>7. {"create", "start", "stop", "kill", "cure", "migrate", "copy"} \subseteq Kinds
  BY DEF Kinds
<1> QED
  BY <1>4, <1>5, <1>6, <1>7 DEF Deploy, Start, Stop, Remove, Report, Migrate, Copy, Take, history

LEMMA HostStatusShows ==
  ASSUME IInv, Shown, NEW w \in Workers, NEW h \in Hosts, NEW k \in HostKinds, HostStatus(w, h, k)
  PROVE  Shown'
<1> DEFINE here == {c \in Containers : con[c].row /\ HostOf[c] = h}
           S == {c \in here : con[c].alive = (k = "hostkill")}
           j == [Idle EXCEPT !.pc = "backends", !.kind = k, !.host = h, !.seen = S, !.rest = here]
<1>1. /\ At(w, "idle") /\ con' = con /\ published' = published /\ missed' = missed
      /\ overlap' = (overlap \/ \E v \in Workers : ~At(v, "idle"))
      /\ job' = [job EXCEPT ![w] = j]
      /\ mixed' = mixed \cup {c \in here : \E v \in Workers : job[v].con = c}
  BY DEF HostStatus, stores, history
<1>2. job \in [Workers -> JobType]
  BY DEF IInv, Types
<1>3. j.pc = "backends" /\ j.kind = k /\ j.seen = S /\ j.rest = here /\ (here = {} => S = {})
  BY DEF Idle
<1>4. (\A v \in Workers : job[v].con = NoContainer /\ job[v].host = NoHost) => mixed' = mixed
  BY <1>1, LifecycleAssumption
<1> HIDE DEF here, S, j
<1>5. Others(w) /\ job'[w] = j
  BY <1>1, <1>2 DEF Others
<1>6. \A x \in Containers : Same(x)
  BY <1>1 DEF Same, Now
<1>7. ~Late("backends", k)
  BY DEF Late
<1> QED
  BY <1>1, <1>3, <1>4, <1>5, <1>6, <1>7, FirstShows

LEMMA PlanShows ==
  ASSUME IInv, Served, Shown, NEW w \in Workers, Plan(w)
  PROVE  Shown'
<1>0. PICK c : c = job[w].con
  OBVIOUS
<1>1. /\ job[w].pc = "plan" /\ Others(w) /\ mixed' = mixed /\ overlap' = overlap
      /\ published' = published /\ missed' = missed /\ \A x \in Containers : Same(x)
  BY <1>0, PlanDoes
<1>2. Eligible' = Eligible /\ Rows(con') = Rows(con)
  BY <1>1 DEF Same, Now, Eligible, Rows
<1>3. \/ job'[w].pc = "idle"
      \/ job'[w].pc = "docker"
      \/ job'[w].pc = "mark" /\ job'[w].seen = Rows(con)
  <2>1. Ended(w) => job'[w].pc = "idle"
    BY DEF Ended, Idle
  <2> QED
    BY <1>0, <2>1, PlanDoes
<1>4. ~overlap => (missed' \/ published' = Eligible')
  <2>1. ~overlap => Shows(job[w].pc, job[w].kind, job[w].con, job[w].seen)
    BY <1>1, Alone
  <2> QED
    BY <1>1, <1>2, <2>1 DEF Shows, Late
<1>5. job'[w].pc # "idle" /\ ~overlap => Shows(job[w].pc, job[w].kind, job[w].con, job[w].seen)'
  <2>1. PICK p, k, d, S : p = job'[w].pc /\ k = job'[w].kind /\ d = job'[w].con /\ S = job'[w].seen
    OBVIOUS
  <2>2. p # "idle" /\ ~overlap => Shows(p, k, d, S)'
    BY <1>2, <1>3, <1>4, <2>1 DEF Shows, Late
  <2> QED
    BY <2>1, <2>2
<1> QED
  BY <1>1, <1>3, <1>4, <1>5, WorkerShows

\* Alone, a request finds every row that it has read.
LEMMA HostBackendsShows ==
  ASSUME IInv, Served, Shown, NEW w \in Workers, HostBackends(w)
  PROVE  Shown'
<1>1. /\ job[w].pc = "backends" /\ job[w] \in JobType /\ job \in [Workers -> JobType]
      /\ con' = con /\ published' = published /\ missed' = missed /\ overlap' = overlap
  BY DEF IInv, Types, HostBackends, At
<1>2. Eligible' = Eligible
  BY <1>1 DEF Eligible
<1>3. ~overlap => (missed' \/ published' = Eligible')
  <2>1. ~overlap => Shows(job[w].pc, job[w].kind, job[w].con, job[w].seen)
    BY <1>1, Alone
  <2> QED
    BY <1>1, <1>2, <2>1 DEF Shows, Late
<1>4. PICK c \in job[w].rest :
          IF c \in job[w].seen /\ ~con[c].row
          THEN End(w) /\ mixed' = mixed \cup (job[w].seen \ job[w].rest)
          ELSE /\ UNCHANGED mixed
               /\ job' = [job EXCEPT ![w].rest = @ \ {c},
                                     ![w].pc = IF job[w].rest = {c} THEN "commit" ELSE @]
  BY DEF HostBackends
<1>5. CASE c \in job[w].seen /\ ~con[c].row
  <2>1. overlap
    <3> SUFFICES ASSUME ~overlap PROVE FALSE
      OBVIOUS
    <3>1. mixed = {} /\ c \in Containers
      BY <1>1 DEF Shown, JobType
    <3>2. Held(w, c)
      BY <1>1 DEF Held, Open
    <3> QED
      BY <1>5, <3>1, <3>2 DEF Served, ServedAt
  <2>2. Ended(w)
    BY <1>1, <1>4, <1>5, Finished
  <2>3. Others(w) /\ job'[w].pc = "idle"
    BY <2>2 DEF Ended, Idle
  <2> QED
    BY <1>1, <2>1, <2>3, WorkerShows
<1>6. CASE ~(c \in job[w].seen /\ ~con[c].row)
  <2>1. PICK p : p = IF job[w].rest = {c} THEN "commit" ELSE job[w].pc
    OBVIOUS
  <2>2. mixed' = mixed /\ job' = [job EXCEPT ![w].rest = job[w].rest \ {c}, ![w].pc = p]
    BY <1>4, <1>6, <2>1
  <2>3. /\ Others(w) /\ job'[w].pc = p /\ job'[w].rest = job[w].rest \ {c}
    BY <1>1, <2>2 DEF JobType, Others
  <2>4. p \in {"backends", "commit"} /\ (job[w].rest \ {c} = {} => p = "commit")
    BY <1>1, <2>1
  <2>5. PICK k, d, S : k = job'[w].kind /\ d = job'[w].con /\ S = job'[w].seen
    OBVIOUS
  <2>6. ~overlap => Shows(p, k, d, S)'
    BY <1>3, <2>4 DEF Shows, Late
  <2>7. ~overlap => Shows(job[w].pc, job[w].kind, job[w].con, job[w].seen)'
    BY <2>3, <2>5, <2>6
  <2> QED
    BY <1>1, <2>2, <2>3, <2>4, <2>7, WorkerShows
<1> QED
  BY <1>5, <1>6

LEMMA HostCommitShows ==
  ASSUME IInv, Served, Shown, NEW w \in Workers, HostCommit(w)
  PROVE  Shown'
<1>1. /\ job[w].pc \in {"backends", "commit"} /\ job[w] \in JobType
      /\ job \in [Workers -> JobType] /\ con \in [Containers -> ConType]
      /\ published' = published /\ missed' = missed /\ mixed' = mixed /\ overlap' = overlap
  BY DEF IInv, Types, HostCommit, At, history
<1>2. CASE At(w, "backends")
  <2>1. Ended(w) /\ job[w].rest = {}
    BY <1>1, <1>2, Finished DEF HostCommit
  <2>2. Others(w) /\ job'[w].pc = "idle"
    BY <2>1 DEF Ended, Idle
  <2>3. ASSUME ~overlap PROVE (missed' \/ published' = Eligible')
    <3>1. job[w].seen = {}
      BY <1>2, <2>1, <2>3 DEF Shown
    <3>2. con' = con
      BY <1>1, <3>1 DEF HostCommit
    <3>3. Shows(job[w].pc, job[w].kind, job[w].con, job[w].seen)
      BY <1>1, <2>3, Alone
    <3> QED
      BY <1>1, <3>2, <3>3 DEF Shows, Late, Eligible
  <2> QED
    BY <1>1, <2>2, <2>3, WorkerShows
<1>3. CASE ~At(w, "backends")
  <2> DEFINE R == {c \in Containers : job[w].kind = "hostkill" /\ con[c].row
                                         /\ HostOf[c] = job[w].host}
             S == Rows(con')
  <2>1. job' = [job EXCEPT ![w].pc = "read", ![w].seen = S, ![w].rest = R]
    BY <1>3 DEF HostCommit
  <2> HIDE DEF R, S
  <2>2. Others(w) /\ job'[w].pc = "read" /\ job'[w].seen = S
    BY <1>1, <2>1 DEF JobType, Others
  <2>3. PICK k, d, T : k = job'[w].kind /\ d = job'[w].con /\ T = job'[w].seen
    OBVIOUS
  <2>4. T = Rows(con')
    BY <2>2, <2>3 DEF S
  <2>5. Shows("read", k, d, T)'
    BY <2>4 DEF Shows, Late
  <2>6. Shows(job[w].pc, job[w].kind, job[w].con, job[w].seen)'
    BY <2>2, <2>3, <2>5
  <2> QED
    BY <1>1, <2>2, <2>6, WorkerShows
<1> QED
  BY <1>2, <1>3

LEMMA HostMigrationsShows ==
  ASSUME IInv, Served, Shown, NEW w \in Workers, HostMigrations(w)
  PROVE  Shown'
<1>1. /\ job[w].pc = "migrations" /\ job[w] \in JobType /\ job \in [Workers -> JobType]
      /\ con' = con /\ published' = published /\ missed' = missed /\ mixed' = mixed /\ overlap' = overlap
  BY DEF IInv, Types, HostMigrations, At, history
<1>2. Others(w) /\ job'[w].pc \in {"idle", "migrations"}
  <2>1. CASE End(w)
    BY <1>1, <2>1, Finished DEF Ended, Idle
  <2>2. CASE ~End(w)
    <3>1. PICK c \in job[w].rest : job' = [job EXCEPT ![w].rest = @ \ {c}]
      BY <2>2 DEF HostMigrations
    <3> QED
      BY <1>1, <3>1 DEF JobType, Others
  <2> QED
    BY <2>1, <2>2
<1>3. ~overlap => (missed' \/ published' = Eligible')
  <2>1. ~overlap => Shows(job[w].pc, job[w].kind, job[w].con, job[w].seen)
    BY <1>1, Alone
  <2> QED
    BY <1>1, <2>1 DEF Shows, Late, Eligible
<1>4. PICK k, d, S : k = job'[w].kind /\ d = job'[w].con /\ S = job'[w].seen
  OBVIOUS
<1>5. ~overlap => Shows("migrations", k, d, S)'
  BY <1>3 DEF Shows, Late
<1>6. ~overlap /\ job'[w].pc # "idle" => Shows(job[w].pc, job[w].kind, job[w].con, job[w].seen)'
  BY <1>2, <1>4, <1>5
<1> QED
  BY <1>1, <1>2, <1>3, <1>6, WorkerShows

LEMMA WorkShows ==
  ASSUME IInv, Served, Shown, "rebind" \notin Faults, "health" \notin Faults, NEW w \in Workers, Work(w)
  PROVE  Shown'
BY DownShows, UpShows, NetworkShows, DockerCreatesNotShows, DockerStartsNotShows,
     MarkShows, UnlistShows, SetFlagShows,
   ReleaseShows, ForgetShows, DockerRemovesShows, DockerCreatesShows, DockerStartsShows,
   ResetShows, TestShows,
   NetworkNotShows, LaunchShows, LastStepsShow, RaisesShows, ListShows, HealthShows, ReadShows,
   WriteShows, RecordShows, EraseShows, UnbindShows, RebindShows, PlanShows, HostBackendsShows,
   HostCommitShows, HostMigrationsShows, Zenon DEF Work

LEMMA NextShows ==
  ASSUME IInv, Served, Shown, "rebind" \notin Faults, "health" \notin Faults, [Next]_vars
  PROVE  Shown'
<1>1. CASE Event
  <2>1. PICK c \in Containers :
          \/ Die(c) \/ Delete(c)
          \/ \E w \in Workers : Deploy(w, c) \/ Start(w, c) \/ Stop(w, c) \/ Remove(w, c)
             \/ HostStatus(w, HostOf[c], "hostkill") \/ HostStatus(w, HostOf[c], "hostcure")
    BY <1>1 DEF Event
  <2>2. HostOf[c] \in Hosts /\ "hostkill" \in HostKinds /\ "hostcure" \in HostKinds
    BY LifecycleAssumption DEF HostKinds
  <2> QED
    BY <2>1, <2>2, EventsShow, RequestsShow, HostStatusShows, Zenon
<1>2. CASE Consequence
  BY <1>2, WorkShows, RequestsShow, EventsShow, Zenon DEF Consequence
<1>3. CASE AllDone \/ UNCHANGED vars
  <2>1. job' = job /\ con' = con /\ mixed' = mixed /\ overlap' = overlap
        /\ published' = published /\ missed' = missed
    BY <1>3 DEF AllDone, vars, stores, history
  <2>2. \A x \in Containers : Same(x)
    BY <2>1 DEF Same, Now
  <2> QED
    BY <2>1, <2>2, QuietShows
<1> QED
  BY <1>1, <1>2, <1>3 DEF Next

LEMMA InitShows == Init => Shown
<1> SUFFICES ASSUME Init PROVE Shown
  OBVIOUS
<1>1. \A w \in Workers : job[w].pc = "idle"
  BY DEF Init, Idle
<1>2. Eligible = {} /\ published = {} /\ mixed = {}
  BY DEF Init, New, Eligible
<1> QED
  BY <1>1, <1>2 DEF Shown, At

(* When jobs follow one another, and neither a health check fails nor an   *)
(* address asked for again is refused, the published node lists at rest    *)
(* the containers that are to be served and no others, whichever way each  *)
(* job went and wherever it ended, if etcd took the last publication.      *)
THEOREM PublicationFollows ==
  "rebind" \notin Faults /\ "health" \notin Faults => (Spec => []PublishedAgrees)
<1> SUFFICES ASSUME "rebind" \notin Faults, "health" \notin Faults PROVE Spec => []PublishedAgrees
  OBVIOUS
<1>1. IInv /\ Served /\ Shown /\ [Next]_vars => (IInv /\ Served /\ Shown)'
  BY NextKeeps, NextServes, NextShows
<1>2. Shown => PublishedAgrees
  BY DEF Shown, PublishedAgrees
<1> QED
  BY <1>1, <1>2, InitOK, InitServes, InitShows, PTL DEF Spec

=============================================================================
