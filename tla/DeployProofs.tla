---------------------------- MODULE DeployProofs ----------------------------
(***************************************************************************)
(* Theorems about Deploy, for any hosts, requests, removers and faults:    *)
(* the ledger of free cores never shows more than is free; one request at  *)
(* a time never overcommits a core and, if it asks for whole cores, is     *)
(* planned in full; at rest the ledger is exact and the SQL count its sum; *)
(* and every step is one of CoreBook.                                      *)
(*                                                                         *)
(* Where a fragment of a core can be, besides free: claimed by a request   *)
(* whose task is queued and whose cores are not occupied yet, owed to a    *)
(* task that has not handed it to a container yet, or charged to a         *)
(* container.  Slack is what none of these accounts for.  Every step       *)
(* moves fragments from one place to another; only a removal that finds    *)
(* no stored cores, because the worker died before it stored them, loses   *)
(* some.                                                                   *)
(***************************************************************************)
EXTENDS Deploy, HostCoresProofs

-----------------------------------------------------------------------------
(* The inductive invariant: types and the structure of the state.          *)

BoxIds == Requests \X Hosts \X (Nat \ {0})
TaskOf(b) == <<b[1], b[2]>>

TaskPlan == [count : Int, cores : AllocationType]
Plans == UNION {[D -> TaskPlan] : D \in SUBSET Hosts}
RequestType == [pc : RequestStates, ask : Asks \cup {NoAsk}, todo : SUBSET Hosts,
                quota : [Hosts -> Int], need : Int, limit : Int,
                at : Hosts \cup {AnyHost}, plan : Plans]
JobType == [pc : JobStates, next : Nat \ {0}, box : BoxIds \cup {NoBox}, cores : AllocationType]
BoxType == [docker : BOOLEAN, row : BOOLEAN, key : BOOLEAN, cores : AllocationType]

Types ==
    /\ remain \in [Hosts -> [Cores -> Int]]
    /\ count \in [Hosts -> Int]
    /\ lock \in Requests \cup {Nobody}
    /\ req \in [Requests -> RequestType]
    /\ job \in [Jobs -> JobType]
    /\ DOMAIN box \in SUBSET BoxIds /\ IsFiniteSet(DOMAIN box)
    /\ box \in [DOMAIN box -> BoxType]

LockHeld == \A q \in Requests : lock = q <=> Scheduling(q)

\* A request before its plan is complete.
Early(q) == req[q].pc \in {"new", "lock"} \/ Scheduling(q)

\* A request that is about to occupy cores knows for which host, and the
\* tasks it has created are those of its plan that it has dealt with.
RequestShape(q) ==
    /\ req[q].pc \in {"new", "lock", "check"} => DOMAIN req[q].plan = {}
    /\ req[q].pc \in {"take", "occupy"} => req[q].at \in req[q].todo
    /\ req[q].pc \in {"enqueue", "occupy"} => req[q].todo \subseteq DOMAIN req[q].plan
    /\ \A h \in Hosts :
          /\ HasTask(<<q, h>>) =>
                /\ h \in DOMAIN req[q].plan
                /\ req[q].pc \in {"enqueue", "occupy", "done", "raised"}
          /\ req[q].pc = "enqueue" /\ h \in req[q].todo => ~HasTask(<<q, h>>)
          /\ req[q].pc = "occupy" /\ h \in req[q].todo \ {req[q].at} => ~HasTask(<<q, h>>)

\* A worker holds the container whose number is that of its chunk.
TaskShape(t) ==
    /\ job[t].pc \in {"none", "queued", "create"} => job[t].box = NoBox
    /\ job[t].pc \in {"none", "queued"} => job[t].next = 1
    /\ job[t].box # NoBox => job[t].box = NextBox(t)
    /\ job[t].pc \notin {"none", "queued", "raised"} =>
          IterDefined(Message(t).cores, Message(t).count)
    /\ job[t].pc \in {"done", "unfinished"} =>
          job[t].box = NoBox /\ job[t].next > Len(Chunks(t))

JobShape(j) ==
    /\ job[j].box \in DOMAIN box \cup {NoBox}
    /\ job[j].pc \in {"record", "save", "network", "clean",
                      "stop", "read", "release", "drop"} => job[j].box # NoBox
    /\ j \in Removers => job[j].pc \notin {"queued", "create", "record", "save", "network", "clean"}
    /\ j \in TaskIds => job[j].pc # "stop"

\* Containers are numbered in the order of the chunks; one that has stored
\* cores has a row, one that runs has stored cores or a worker that was to
\* store them.
BoxShape(b) ==
    /\ HasTask(TaskOf(b))
    /\ b[3] < job[TaskOf(b)].next \/ job[TaskOf(b)].box = b
    /\ box[b].key => box[b].row
    /\ box[b].docker /\ ~box[b].key =>
          job[TaskOf(b)].box = b /\ job[TaskOf(b)].pc \in {"record", "save", "crashed"}

\* A container has one worker at a time, two only if both remove it and
\* removals of one container may overlap.
OneHolder ==
    \A j, k \in Jobs :
        Working(j) /\ Working(k) /\ job[j].box # NoBox /\ job[j].box = job[k].box =>
            j = k \/ (Overlapping /\ j \in Removers /\ k \in Removers)

\* What a worker has done to the container it holds.
Stage(j) ==
    LET b == job[j].box
    IN  /\ job[j].pc \in {"record", "save", "network", "clean"} => box[b].docker
        /\ job[j].pc \in {"save", "network", "clean"} => box[b].row
        /\ job[j].pc \in {"network", "clean"} => box[b].key
        /\ job[j].pc \in {"read", "release", "drop"} => ~box[b].docker
        /\ ~Overlapping /\ job[j].pc = "release" =>
              job[j].cores = IF box[b].key THEN box[b].cores ELSE NoCores

IInv ==
    /\ Types
    /\ LockHeld
    /\ \A q \in Requests : RequestShape(q)
    /\ \A t \in TaskIds : TaskShape(t)
    /\ \A j \in Jobs : JobShape(j)
    /\ \A b \in DOMAIN box : BoxShape(b)
    /\ OneHolder
    /\ \A j \in Jobs : Stage(j)

-----------------------------------------------------------------------------
(* Where the fragments of core c of host h are.                            *)

Cap(h, c) == IF c \in CoresOf[h] THEN CoreShare ELSE 0

Claim(q, h, c) ==
    IF req[q].pc = "occupy" /\ req[q].at = h
    THEN Draw(req[q].plan[h].cores, req[q].ask.nshare, c) ELSE 0

Claims(h, c) == SumOver([q \in Requests |-> Claim(q, h, c)], Requests)
Debts(h, c) == SumOver([t \in TaskIds |-> Owed(t, h, c)], TaskIds)
Charges(h, c) == SumOver([b \in DOMAIN box |-> Charge(b, h, c)], DOMAIN box)

Slack(h, c) == Cap(h, c) + Claims(h, c) - remain[h][c] - Debts(h, c) - Charges(h, c)

NobodyDied == \A j \in Jobs : job[j].pc # "crashed"

Accounted ==
    \A h \in Hosts, c \in Cores :
        Slack(h, c) >= 0 /\ (NobodyDied => Slack(h, c) = 0)

-----------------------------------------------------------------------------
(* One request at a time.                                                  *)

\* A host whose part of the plan is not occupied yet, and that the plan fits.
Open(q, h) ==
    h \in DOMAIN req[q].plan /\ (req[q].pc \in {"enqueue", "occupy"} => h \in req[q].todo)
Fits(q, h) ==
    \A c \in Cores : Draw(req[q].plan[h].cores, req[q].ask.nshare, c) <= remain[h][c]

PlansFit ==
    /\ \A q, r \in Requests : Serving(q) /\ Serving(r) => q = r
    /\ \A h \in Hosts, c \in Cores : remain[h][c] >= 0
    /\ \A q \in Requests, h \in Hosts : Serving(q) /\ Open(q, h) => Fits(q, h)

-----------------------------------------------------------------------------
(* Plans that their workers can hand out in full.                          *)

\* Nobody asks for a negative number of containers, and whoever asks for
\* fragments asks for a whole core too, where the count of the task is the
\* count the host found.
OrderlyAsks ==
    \A a \in Asks :
        /\ a.n >= 0
        /\ a.nshare > 0 => a.ncore > 0 /\ (a.strategy = "centralized" \/ a.on # AnyHost)

\* What a host was measured for is still there when its cores are taken, so
\* that a plan has cores for each container of its count.
Exact(q) ==
    /\ req[q].pc \in {"share", "measure", "take"} => req[q].need >= 0 \/ ByQuota(q)
    /\ req[q].pc \in {"measure", "take"} /\ ByQuota(q) =>
          \A h \in req[q].todo :
              /\ req[q].ask.ncore # 0
              /\ 0 < req[q].quota[h] /\ req[q].quota[h] <= Capacity(q, h)
    /\ req[q].pc = "take" =>
          /\ req[q].ask.ncore # 0
          /\ 0 <= req[q].limit /\ req[q].limit <= Len(FullCores(remain[req[q].at]))
          /\ ByQuota(q) => req[q].quota[req[q].at] <= req[q].limit
    /\ \A h \in DOMAIN req[q].plan :
          /\ req[q].plan[h].count > 0
          /\ Divisible(req[q].plan[h].cores, req[q].plan[h].count)

PlansExact == \A q \in Requests : Exact(q)

AtMostWhole ==
    \A q \in Requests, h \in Hosts, c \in Cores : Scheduling(q) => remain[h][c] <= CoreShare

NoTaskFails == \A t \in TaskIds : job[t].pc \notin {"raised", "failed"}

-----------------------------------------------------------------------------
(* Steps of a handler before its plan is complete.                         *)

LEMMA AskTypes ==
  ASSUME NEW a \in Asks \cup {NoAsk}
  PROVE  /\ a.n \in Int /\ a.ncore \in Nat /\ a.nshare \in Nat /\ a.nshare < CoreShare
         /\ a.on \in Hosts \cup {AnyHost}
<1>1. CoreShare \in Nat \ {0}
  BY ShareAssumption
<1>2. CASE a = NoAsk
  BY <1>1, <1>2 DEF NoAsk
<1>3. CASE a \in Asks
  <2>1. a \in [n : Int, ncore : Nat, nshare : 0 .. CoreShare - 1,
               strategy : {"average", "centralized"}, on : Hosts \cup {AnyHost}]
    BY <1>3, DeployAssumption
  <2> QED
    BY <1>1, <2>1
<1> QED
  BY <1>2, <1>3

LEMMA PlanTypes ==
  /\ NoPlan \in Plans /\ DOMAIN NoPlan = {}
  /\ \A p \in Plans : /\ DOMAIN p \subseteq Hosts
                      /\ \A h \in DOMAIN p : /\ p[h] \in TaskPlan
                                             /\ p[h].count \in Int
                                             /\ p[h].cores \in AllocationType
  /\ \A D \in SUBSET Hosts : \A p \in [D -> TaskPlan] : p \in Plans
<1>1. \A D \in SUBSET Hosts : \A p \in [D -> TaskPlan] : p \in Plans
  BY DEF Plans
<1>2. NoPlan \in [{} -> TaskPlan] /\ {} \in SUBSET Hosts /\ DOMAIN NoPlan = {}
  BY DEF NoPlan
<1>3. ASSUME NEW p \in Plans
      PROVE  /\ DOMAIN p \subseteq Hosts
             /\ \A h \in DOMAIN p : /\ p[h] \in TaskPlan
                                    /\ p[h].count \in Int
                                    /\ p[h].cores \in AllocationType
  <2>1. PICK D \in SUBSET Hosts : p \in [D -> TaskPlan]
    BY DEF Plans
  <2> QED
    BY <2>1 DEF TaskPlan
<1> QED
  BY <1>1, <1>2, <1>3

SchedulingStates == {"check", "share", "spin", "measure", "take"}

\* A plan for host h that fits the cores the host has now.
Fresh(q, h, p) ==
    \E total \in Int :
        /\ CoresDefined(remain[h], total, req[q].ask.ncore, req[q].ask.nshare)
        /\ p.cores = ContainerCores(remain[h], total, req[q].ask.ncore, req[q].ask.nshare)

BecomesEarly(q, r) ==
    /\ req' = [req EXCEPT ![q] = r]
    /\ r.pc \notin {"new", "occupy", "done"}
    /\ r.pc \in {"lock", "check"} => DOMAIN r.plan = {}
    /\ r.pc = "take" => r.at \in r.todo
    /\ r.pc = "enqueue" => r.todo = DOMAIN r.plan
    /\ req[q].pc # "new" => r.ask = req[q].ask
    /\ \A h \in DOMAIN r.plan :
          \/ h \in DOMAIN req[q].plan /\ r.plan[h] = req[q].plan[h]
          \/ Fresh(q, h, r.plan[h])
    /\ lock' = q <=> r.pc \in SchedulingStates
    /\ lock' # lock => lock \in {q, Nobody} /\ lock' \in {q, Nobody}

SchedulingStep(q) ==
    /\ Early(q)
    /\ UNCHANGED <<remain, count, job, box>>
    /\ lock' \in Requests \cup {Nobody}
    /\ \E r \in RequestType : BecomesEarly(q, r)

LEMMA NewRequestType == NewRequest \in RequestType
<1>1. NoAsk \in Asks \cup {NoAsk} /\ {} \in SUBSET Hosts /\ AnyHost \in Hosts \cup {AnyHost}
  OBVIOUS
<1>2. NoPlan \in Plans
  BY PlanTypes
<1>3. [h \in Hosts |-> 0] \in [Hosts -> Int]
  OBVIOUS
<1>4. "new" \in RequestStates
  BY DEF RequestStates
<1> QED
  BY <1>1, <1>2, <1>3, <1>4 DEF NewRequest, RequestType

LEMMA LeaveSteps ==
  ASSUME Types, LockHeld, NEW q \in Requests, Scheduling(q), NEW state,
         state \in {"raised", "rejected"}, Leave(q, state), UNCHANGED <<remain, count, job, box>>
  PROVE  SchedulingStep(q)
<1> DEFINE r == [NewRequest EXCEPT !.pc = state, !.ask = req[q].ask,
                                   !.plan = NoPlan, !.todo = DOMAIN NoPlan]
<1>1. req' = [req EXCEPT ![q] = r] /\ lock' = Nobody
  BY DEF Leave, Left
<1>2. req[q].ask \in Asks \cup {NoAsk}
  BY DEF Types, RequestType
<1>3. NoPlan \in Plans /\ DOMAIN NoPlan = {}
  BY PlanTypes
<1>4. r \in RequestType /\ r.pc = state /\ r.plan = NoPlan /\ r.ask = req[q].ask
  <2>1. NewRequest \in RequestType
    BY NewRequestType
  <2>2. state \in RequestStates
    BY DEF RequestStates, RequestEnded
  <2>3. DOMAIN NoPlan \in SUBSET Hosts
    BY <1>3
  <2> QED
    BY <1>2, <1>3, <2>1, <2>2, <2>3 DEF RequestType
<1>5. lock = q /\ Nobody \notin Requests
  BY DeployAssumption DEF LockHeld
<1> HIDE DEF r
<1>6. BecomesEarly(q, r)
  BY <1>1, <1>3, <1>4, <1>5 DEF BecomesEarly, SchedulingStates
<1> QED
  BY <1>1, <1>4, <1>6 DEF SchedulingStep, Early

LEMMA SubmitSteps ==
  ASSUME Types, LockHeld, NEW q \in Requests, RequestShape(q), Submit(q)
  PROVE  SchedulingStep(q)
<1>1. PICK a \in Asks : req' = [req EXCEPT ![q].pc = "lock", ![q].ask = a]
  BY DEF Submit
<1>2. /\ req[q].pc = "new" /\ lock' = lock /\ UNCHANGED <<remain, count, job, box>>
      /\ DOMAIN req[q].plan = {} /\ req[q] \in RequestType /\ lock # q
  BY DEF Submit, RequestShape, Types, LockHeld, Scheduling
<1> DEFINE r == [req[q] EXCEPT !.pc = "lock", !.ask = a]
<1>3. req' = [req EXCEPT ![q] = r]
  BY <1>1
<1>4. r \in RequestType /\ r.pc = "lock" /\ r.plan = req[q].plan
  BY <1>2 DEF RequestType, RequestStates
<1> HIDE DEF r
<1>5. BecomesEarly(q, r)
  BY <1>2, <1>3, <1>4 DEF BecomesEarly, SchedulingStates
<1>6. lock' \in Requests \cup {Nobody}
  BY <1>2 DEF Types
<1> QED
  BY <1>2, <1>4, <1>5, <1>6 DEF SchedulingStep, Early

LEMMA AcquireSteps ==
  ASSUME Types, LockHeld, NEW q \in Requests, RequestShape(q), AcquireLock(q)
  PROVE  SchedulingStep(q)
<1>1. /\ req' = [req EXCEPT ![q].pc = "check"] /\ req[q].pc = "lock" /\ lock = Nobody /\ lock' = q
      /\ UNCHANGED <<remain, count, job, box>>
      /\ DOMAIN req[q].plan = {} /\ req[q] \in RequestType
  BY DEF AcquireLock, RequestShape, Types
<1> DEFINE r == [req[q] EXCEPT !.pc = "check"]
<1>2. req' = [req EXCEPT ![q] = r]
  BY <1>1
<1>3. r \in RequestType /\ r.pc = "check" /\ r.plan = req[q].plan /\ r.ask = req[q].ask
  BY <1>1 DEF RequestType, RequestStates
<1> HIDE DEF r
<1>4. BecomesEarly(q, r)
  BY <1>1, <1>2, <1>3 DEF BecomesEarly, SchedulingStates
<1> QED
  BY <1>1, <1>3, <1>4 DEF SchedulingStep, Early

LEMMA AcceptSteps ==
  ASSUME Types, LockHeld, NEW q \in Requests, RequestShape(q), Accept(q)
  PROVE  SchedulingStep(q)
<1> DEFINE state == IF ByQuota(q) THEN "share" ELSE "measure"
           todo == IF Pinned(q) THEN {req[q].ask.on} ELSE Hosts
           r == [req[q] EXCEPT !.pc = state, !.todo = todo, !.need = req[q].ask.n]
<1>1. /\ req' = [req EXCEPT ![q].pc = state, ![q].todo = todo, ![q].need = req[q].ask.n]
      /\ req[q].pc = "check" /\ lock' = lock
      /\ UNCHANGED <<remain, count, job, box>>
      /\ DOMAIN req[q].plan = {} /\ req[q] \in RequestType
  BY DEF Accept, RequestShape, Types
<1>2. req' = [req EXCEPT ![q] = r]
  BY <1>1
<1>3. req[q].ask.n \in Int /\ todo \subseteq Hosts /\ state \in {"share", "measure"}
  BY <1>1, AskTypes DEF RequestType, Pinned
<1>4. /\ r \in RequestType /\ r.pc = state /\ r.plan = req[q].plan
      /\ r.ask = req[q].ask
  <2> HIDE DEF state, todo
  <2> QED
    BY <1>1, <1>3 DEF RequestType, RequestStates
<1>5. lock = q
  BY <1>1 DEF LockHeld, Scheduling
<1> HIDE DEF r, state, todo
<1>6. BecomesEarly(q, r)
  BY <1>1, <1>2, <1>3, <1>4, <1>5 DEF BecomesEarly, SchedulingStates
<1>7. Early(q)
  BY <1>1 DEF Early, Scheduling
<1> QED
  BY <1>1, <1>4, <1>5, <1>6, <1>7 DEF SchedulingStep

LEMMA ShareOutSteps ==
  ASSUME Types, LockHeld, NEW q \in Requests, RequestShape(q), ShareOut(q)
  PROVE  SchedulingStep(q)
<1> DEFINE n == IF req[q].need > 0 THEN req[q].need ELSE 0
           deals == RoundRobin([h \in Hosts |-> Capacity(q, h)], n)
           chosen(u) == {h \in Hosts : u[h] > 0}
<1>1. /\ req[q].pc = "share" /\ req[q] \in RequestType
      /\ UNCHANGED <<remain, count, job, box>> /\ Scheduling(q) /\ lock = q
  BY DEF ShareOut, Types, LockHeld, Scheduling
<1>2. \/ Leave(q, "rejected")
      \/ \E u \in deals :
            /\ req' = [req EXCEPT ![q].pc = "measure", ![q].quota = u, ![q].todo = chosen(u)]
            /\ UNCHANGED lock
      \/ req' = [req EXCEPT ![q].pc = "spin"] /\ UNCHANGED lock
  BY DEF ShareOut
<1>3. CASE Leave(q, "rejected")
  BY <1>1, <1>3, LeaveSteps
<1>4. ASSUME NEW u \in deals,
             req' = [req EXCEPT ![q].pc = "measure", ![q].quota = u, ![q].todo = chosen(u)],
             UNCHANGED lock
      PROVE  SchedulingStep(q)
  <2> DEFINE r == [req[q] EXCEPT !.pc = "measure", !.quota = u, !.todo = chosen(u)]
  <2>1. req' = [req EXCEPT ![q] = r]
    BY <1>4
  <2>2. u \in [Hosts -> Int]
    <3>1. n \in Int
      BY <1>1 DEF RequestType
    <3>2. u \in [Hosts -> 0 .. n]
      BY DEF RoundRobin
    <3> HIDE DEF n
    <3> QED
      BY <3>1, <3>2
  <2>3. r \in RequestType /\ r.pc = "measure" /\ r.plan = req[q].plan /\ r.ask = req[q].ask
    BY <1>1, <2>2 DEF RequestType, RequestStates
  <2> HIDE DEF r
  <2>4. BecomesEarly(q, r)
    BY <1>1, <1>4, <2>1, <2>3 DEF BecomesEarly, SchedulingStates
  <2> QED
    BY <1>1, <1>4, <2>3, <2>4 DEF SchedulingStep, Early
<1>5. CASE req' = [req EXCEPT ![q].pc = "spin"] /\ UNCHANGED lock
  <2> DEFINE r == [req[q] EXCEPT !.pc = "spin"]
  <2>1. req' = [req EXCEPT ![q] = r]
    BY <1>5
  <2>2. r \in RequestType /\ r.pc = "spin" /\ r.plan = req[q].plan /\ r.ask = req[q].ask
    BY <1>1 DEF RequestType, RequestStates
  <2> HIDE DEF r
  <2>3. BecomesEarly(q, r)
    BY <1>1, <1>5, <2>1, <2>2 DEF BecomesEarly, SchedulingStates
  <2> QED
    BY <1>1, <1>5, <2>2, <2>3 DEF SchedulingStep, Early
<1> QED
  BY <1>2, <1>3, <1>4, <1>5

LEMMA MeasureSteps ==
  ASSUME Types, LockHeld, NEW q \in Requests, RequestShape(q), NEW h \in Hosts, MeasureHost(q, h)
  PROVE  SchedulingStep(q)
<1>1. /\ req[q].pc = "measure" /\ req[q] \in RequestType /\ h \in req[q].todo
      /\ UNCHANGED <<remain, count, job, box>> /\ Scheduling(q) /\ lock = q
  BY DEF MeasureHost, Types, LockHeld, Scheduling
<1>2. CASE ~CountDefined(remain[h], req[q].ask.ncore, req[q].ask.nshare)
  <2>1. Leave(q, "raised")
    BY <1>2 DEF MeasureHost
  <2> QED
    BY <1>1, <2>1, LeaveSteps
<1>3. CASE CountDefined(remain[h], req[q].ask.ncore, req[q].ask.nshare)
  <2> DEFINE k == Capacity(q, h)
             r == [req[q] EXCEPT !.pc = "take", !.at = h, !.limit = k]
  <2>1. req' = [req EXCEPT ![q] = r] /\ lock' = lock
    BY <1>3 DEF MeasureHost
  <2>2. k \in Int
    <3>1. req[q].ask.ncore \in Nat /\ req[q].ask.nshare \in Nat /\ remain[h] \in [Cores -> Int]
      BY <1>1, AskTypes DEF Types, RequestType
    <3> QED
      BY <1>3, <3>1, CountInt DEF Capacity
  <2> HIDE DEF k
  <2>3. /\ r \in RequestType /\ r.pc = "take" /\ r.plan = req[q].plan /\ r.ask = req[q].ask
        /\ r.at \in r.todo
    BY <1>1, <2>2 DEF RequestType, RequestStates
  <2> HIDE DEF r
  <2>4. BecomesEarly(q, r)
    BY <1>1, <2>1, <2>3 DEF BecomesEarly, SchedulingStates
  <2> QED
    BY <1>1, <2>1, <2>3, <2>4 DEF SchedulingStep, Early
<1> QED
  BY <1>2, <1>3

LEMMA TakeSteps ==
  ASSUME Types, LockHeld, NEW q \in Requests, RequestShape(q), TakeCores(q)
  PROVE  SchedulingStep(q)
<1> DEFINE h == req[q].at
           ask == req[q].ask
           total == Smaller(Wanted(q), req[q].limit)
           found == IF ByQuota(q) THEN req[q].quota[h] ELSE total
           cores == ContainerCores(remain[h], total, ask.ncore, ask.nshare)
           entry == [count |-> found, cores |-> cores]
           plan == IF found = 0 THEN req[q].plan
                   ELSE [g \in DOMAIN req[q].plan \cup {h} |->
                           IF g = h THEN entry ELSE req[q].plan[g]]
           need == req[q].need - found
           todo == HostsLeft(q, need)
<1>1. /\ req[q].pc = "take" /\ req[q] \in RequestType /\ Scheduling(q) /\ lock = q
      /\ UNCHANGED <<remain, count, job, box>> /\ h \in Hosts
  BY DEF TakeCores, Types, LockHeld, Scheduling, RequestShape, RequestType
<1>2. \/ /\ ~CoresDefined(remain[h], total, ask.ncore, ask.nshare)
         /\ Leave(q, "raised")
      \/ /\ CoresDefined(remain[h], total, ask.ncore, ask.nshare)
         /\ req' = [req EXCEPT ![q].pc = "measure", ![q].plan = plan,
                               ![q].need = need, ![q].todo = todo]
         /\ UNCHANGED lock
      \/ /\ CoresDefined(remain[h], total, ask.ncore, ask.nshare)
         /\ req' = Left(q, IF DOMAIN plan = {} THEN "rejected" ELSE "enqueue", plan)
         /\ lock' = Nobody
  BY DEF TakeCores
<1>3. ASSUME Leave(q, "raised") PROVE SchedulingStep(q)
  BY <1>1, <1>3, LeaveSteps
<1>4. ASSUME CoresDefined(remain[h], total, ask.ncore, ask.nshare)
      PROVE  /\ plan \in Plans /\ need \in Int /\ todo \in SUBSET Hosts
             /\ \A g \in DOMAIN plan :
                   \/ g \in DOMAIN req[q].plan /\ plan[g] = req[q].plan[g]
                   \/ Fresh(q, g, plan[g])
  <2>1. /\ ask.ncore \in Nat /\ ask.nshare \in Nat /\ ask.nshare < CoreShare
        /\ remain[h] \in [Cores -> Int]
    BY <1>1, AskTypes DEF Types, RequestType
  <2>2. req[q].quota[h] \in Int /\ req[q].need \in Int /\ req[q].limit \in Int
    BY <1>1 DEF RequestType
  <2>3. total \in Int /\ found \in Int /\ need \in Int
    <3>1. Wanted(q) \in Int
      BY <2>2 DEF Wanted
    <3>2. total \in Int
      BY <2>2, <3>1 DEF Smaller
    <3> HIDE DEF total
    <3>3. found \in Int
      BY <2>2, <3>2
    <3> HIDE DEF found
    <3> QED
      BY <2>2, <3>2, <3>3
  <2> HIDE DEF total, found
  <2>4. cores \in AllocationType
    BY <1>4, <2>1, <2>3, PlanType
  <2>5. todo \in SUBSET Hosts
    BY <1>1 DEF HostsLeft, RequestType
  <2>6. Fresh(q, h, entry)
    BY <1>4, <2>3 DEF Fresh
  <2> HIDE DEF cores
  <2>7. entry \in TaskPlan
    BY <2>3, <2>4 DEF TaskPlan
  <2> HIDE DEF entry, h
  <2>8. req[q].plan \in Plans
    BY <1>1 DEF RequestType
  <2>9. CASE found = 0
    BY <2>3, <2>5, <2>8, <2>9
  <2>10. CASE found # 0
    <3>1. plan = [g \in DOMAIN req[q].plan \cup {h} |-> IF g = h THEN entry ELSE req[q].plan[g]]
      BY <2>10
    <3> HIDE DEF plan
    <3>2. DOMAIN plan = DOMAIN req[q].plan \cup {h} /\ DOMAIN plan \in SUBSET Hosts
      BY <1>1, <2>8, <3>1, PlanTypes
    <3>3. \A g \in DOMAIN req[q].plan : req[q].plan[g] \in TaskPlan
      BY <2>8, PlanTypes
    <3>4. plan \in [DOMAIN plan -> TaskPlan]
      BY <2>7, <3>1, <3>3
    <3>5. plan \in Plans
      BY <3>2, <3>4, PlanTypes
    <3>6. \A g \in DOMAIN plan :
             \/ g \in DOMAIN req[q].plan /\ plan[g] = req[q].plan[g]
             \/ Fresh(q, g, plan[g])
      BY <2>6, <3>1
    <3> QED
      BY <2>3, <2>5, <3>5, <3>6
  <2> QED
    BY <2>9, <2>10
<1>5. ASSUME CoresDefined(remain[h], total, ask.ncore, ask.nshare),
             req' = [req EXCEPT ![q].pc = "measure", ![q].plan = plan,
                                ![q].need = need, ![q].todo = todo],
             UNCHANGED lock
      PROVE  SchedulingStep(q)
  <2>1. /\ plan \in Plans /\ need \in Int /\ todo \in SUBSET Hosts
        /\ \A g \in DOMAIN plan :
              \/ g \in DOMAIN req[q].plan /\ plan[g] = req[q].plan[g]
              \/ Fresh(q, g, plan[g])
    BY <1>4, <1>5
  <2> HIDE DEF h, ask, total, found, cores, entry, plan, need, todo
  <2> DEFINE r == [req[q] EXCEPT !.pc = "measure", !.plan = plan, !.need = need, !.todo = todo]
  <2>2. req' = [req EXCEPT ![q] = r]
    BY <1>5
  <2>3. r \in RequestType /\ r.pc = "measure" /\ r.plan = plan /\ r.ask = req[q].ask
    BY <1>1, <2>1 DEF RequestType, RequestStates
  <2> HIDE DEF r
  <2>4. BecomesEarly(q, r)
    BY <1>1, <1>5, <2>1, <2>2, <2>3 DEF BecomesEarly, SchedulingStates
  <2> QED
    BY <1>1, <1>5, <2>3, <2>4 DEF SchedulingStep, Early
<1>6. ASSUME CoresDefined(remain[h], total, ask.ncore, ask.nshare),
             req' = Left(q, IF DOMAIN plan = {} THEN "rejected" ELSE "enqueue", plan),
             lock' = Nobody
      PROVE  SchedulingStep(q)
  <2>1. /\ plan \in Plans
        /\ \A g \in DOMAIN plan :
              \/ g \in DOMAIN req[q].plan /\ plan[g] = req[q].plan[g]
              \/ Fresh(q, g, plan[g])
    BY <1>4, <1>6
  <2> HIDE DEF h, ask, total, found, cores, entry, plan, need, todo
  <2> DEFINE state == IF DOMAIN plan = {} THEN "rejected" ELSE "enqueue"
             r == [NewRequest EXCEPT !.pc = state, !.ask = req[q].ask,
                                     !.plan = plan, !.todo = DOMAIN plan]
  <2>2. req' = [req EXCEPT ![q] = r]
    BY <1>6 DEF Left
  <2>3. DOMAIN plan \in SUBSET Hosts
    BY <2>1, PlanTypes
  <2>4. NewRequest \in RequestType
    BY NewRequestType
  <2>5. state \in RequestStates /\ state \in {"rejected", "enqueue"}
    BY DEF RequestStates, RequestEnded
  <2>6. req[q].ask \in Asks \cup {NoAsk}
    BY <1>1 DEF RequestType
  <2> HIDE DEF state
  <2>7. /\ r \in RequestType /\ r.pc = state /\ r.plan = plan /\ r.ask = req[q].ask
        /\ r.todo = DOMAIN plan
    BY <2>1, <2>3, <2>4, <2>5, <2>6 DEF RequestType
  <2> HIDE DEF r
  <2>8. Nobody \notin Requests
    BY DeployAssumption
  <2>9. BecomesEarly(q, r)
    BY <1>1, <1>6, <2>1, <2>2, <2>5, <2>7, <2>8 DEF BecomesEarly, SchedulingStates
  <2> QED
    BY <1>1, <1>6, <2>7, <2>9 DEF SchedulingStep, Early
<1> QED
  BY <1>2, <1>3, <1>5, <1>6

\* Whatever the scheduler does with a request is one such step.
LEMMA SchedulingSteps ==
  ASSUME Types, LockHeld, NEW q \in Requests, RequestShape(q), Submit(q) \/ Schedule(q)
  PROVE  SchedulingStep(q) \/ UNCHANGED vars
<1>1. ASSUME Refuse(q) PROVE SchedulingStep(q)
  <2>1. Leave(q, "rejected") /\ Scheduling(q) /\ UNCHANGED <<remain, count, job, box>>
    BY <1>1 DEF Refuse, Scheduling
  <2> QED
    BY <2>1, LeaveSteps
<1>2. ASSUME CountRaises(q) PROVE SchedulingStep(q)
  <2>1. Leave(q, "raised") /\ Scheduling(q) /\ UNCHANGED <<remain, count, job, box>>
    BY <1>2 DEF CountRaises, Scheduling
  <2> QED
    BY <2>1, LeaveSteps
<1>3. ASSUME NEW h \in Hosts, MeasureHost(q, h) PROVE SchedulingStep(q)
  BY <1>3, MeasureSteps
<1>4. ASSUME Spin(q) PROVE UNCHANGED vars
  BY <1>4 DEF Spin
<1> QED
  BY <1>1, <1>2, <1>3, <1>4, SubmitSteps, AcquireSteps, AcceptSteps, ShareOutSteps, TakeSteps
     DEF Schedule

-----------------------------------------------------------------------------
(* The steps keep the invariant.                                           *)

LEMMA Names ==
  /\ NoBox \notin BoxIds
  /\ \A t \in TaskIds : t \in Jobs /\ t \notin Removers /\ t = <<t[1], t[2]>>
                        /\ t[1] \in Requests /\ t[2] \in Hosts
  /\ \A b \in BoxIds : /\ TaskOf(b) \in TaskIds /\ b = <<b[1], b[2], b[3]>>
                       /\ b[1] \in Requests /\ HostOf(b) \in Hosts /\ b[3] \in Nat \ {0}
                       /\ TaskOf(b)[1] = b[1] /\ TaskOf(b)[2] = HostOf(b)
<1>1. NoBox \notin BoxIds
  BY DeployAssumption DEF BoxIds
<1>2. \A t \in TaskIds : t \in Jobs /\ t \notin Removers /\ t = <<t[1], t[2]>>
                         /\ t[1] \in Requests /\ t[2] \in Hosts
  BY DeployAssumption DEF TaskIds, Jobs
<1>3. \A b \in BoxIds : /\ TaskOf(b) \in TaskIds /\ b = <<b[1], b[2], b[3]>>
                        /\ b[1] \in Requests /\ HostOf(b) \in Hosts /\ b[3] \in Nat \ {0}
                        /\ TaskOf(b)[1] = b[1] /\ TaskOf(b)[2] = HostOf(b)
  BY DEF BoxIds, TaskOf, TaskIds, HostOf
<1> QED
  BY <1>1, <1>2, <1>3

\* A task's shape depends on the plan of its request only once it exists.
LEMMA TaskShapeKept ==
  ASSUME NEW t \in TaskIds, TaskShape(t), job'[t] = job[t],
         HasTask(t) => req'[t[1]].plan = req[t[1]].plan
  PROVE  TaskShape(t)'
<1>1. CASE ~HasTask(t)
  BY <1>1, DeployAssumption DEF TaskShape, HasTask
<1>2. CASE HasTask(t)
  <2>1. Message(t)' = Message(t) /\ Chunks(t)' = Chunks(t) /\ NextBox(t)' = NextBox(t)
    BY <1>2 DEF Message, Chunks, NextBox
  <2> QED
    BY <2>1 DEF TaskShape
<1> QED
  BY <1>1, <1>2

LEMMA SchedulingKeeps ==
  ASSUME IInv, NEW q \in Requests, SchedulingStep(q)
  PROVE  IInv'
<1> USE DEF IInv
<1>1. PICK r \in RequestType : BecomesEarly(q, r)
  BY DEF SchedulingStep
<1>2. UNCHANGED <<remain, count, job, box>> /\ Early(q) /\ lock' \in Requests \cup {Nobody}
  BY DEF SchedulingStep
<1>3. req' = [req EXCEPT ![q] = r] /\ req'[q] = r /\ \A p \in Requests \ {q} : req'[p] = req[p]
  BY <1>1 DEF BecomesEarly, Types
<1>4. \A t \in TaskIds : t[1] = q => ~HasTask(t)
  BY <1>2, Names DEF RequestShape, Early, Scheduling
<1>5. Types'
  BY <1>1, <1>2, <1>3 DEF Types
<1>6. LockHeld'
  <2>1. lock' = q <=> Scheduling(q)'
    BY <1>1, <1>3 DEF BecomesEarly, Scheduling, SchedulingStates
  <2>2. ASSUME NEW p \in Requests \ {q} PROVE lock' = p <=> Scheduling(p)'
    <3>1. Scheduling(p)' <=> Scheduling(p)
      BY <1>3 DEF Scheduling
    <3>2. Nobody \notin Requests
      BY DeployAssumption
    <3> QED
      BY <1>1, <3>1, <3>2 DEF BecomesEarly, LockHeld
  <2> QED
    BY <2>1, <2>2 DEF LockHeld
<1>7. ASSUME NEW p \in Requests PROVE RequestShape(p)'
  <2>1. CASE p # q
    BY <1>2, <1>3, <2>1 DEF RequestShape, HasTask
  <2>2. CASE p = q
    <3>1. \A h \in Hosts : ~HasTask(<<q, h>>)'
      BY <1>2, <1>4 DEF HasTask, TaskIds
    <3>2. /\ r.pc \in {"new", "lock", "check"} => DOMAIN r.plan = {}
          /\ r.pc \in {"take", "occupy"} => r.at \in r.todo
          /\ r.pc \in {"enqueue", "occupy"} => r.todo \subseteq DOMAIN r.plan
      BY <1>1 DEF BecomesEarly
    <3> QED
      BY <1>3, <2>2, <3>1, <3>2 DEF RequestShape
  <2> QED
    BY <2>1, <2>2
<1>8. ASSUME NEW t \in TaskIds PROVE TaskShape(t)'
  <2>1. HasTask(t) => req'[t[1]].plan = req[t[1]].plan
    BY <1>3, <1>4, Names
  <2> QED
    BY <1>2, <2>1, TaskShapeKept
<1>9. \A j \in Jobs : JobShape(j)'
  BY <1>2 DEF JobShape
<1>10. \A b \in DOMAIN box' : BoxShape(b)'
  BY <1>2 DEF BoxShape, HasTask
<1>11. OneHolder'
  BY <1>2 DEF OneHolder, Working
<1>12. \A j \in Jobs : Stage(j)'
  BY <1>2 DEF Stage
<1> QED
  BY <1>5, <1>6, <1>7, <1>8, <1>9, <1>10, <1>11, <1>12

LEMMA LedgerTypes ==
  ASSUME Types, NEW h \in Hosts, NEW A \in AllocationType, NEW nshare \in Nat
  PROVE  /\ [remain EXCEPT ![h] = Occupied(@, A, nshare)] \in [Hosts -> [Cores -> Int]]
         /\ [remain EXCEPT ![h] = Released(@, A, nshare)] \in [Hosts -> [Cores -> Int]]
         /\ \A c \in Cores : /\ Occupied(remain[h], A, nshare)[c] = remain[h][c] - Draw(A, nshare, c)
                             /\ Released(remain[h], A, nshare)[c] = remain[h][c] + Draw(A, nshare, c)
<1>1. remain \in [Hosts -> [Cores -> Int]] /\ remain[h] \in [Cores -> Int]
  BY DEF Types
<1>2. \A c \in Cores : Draw(A, nshare, c) \in Int /\ remain[h][c] \in Int
  BY <1>1, DrawNat
<1>3. Occupied(remain[h], A, nshare) \in [Cores -> Int]
  BY <1>2 DEF Occupied
<1>4. Released(remain[h], A, nshare) \in [Cores -> Int]
  BY <1>2 DEF Released
<1>5. \A c \in Cores : /\ Occupied(remain[h], A, nshare)[c] = remain[h][c] - Draw(A, nshare, c)
                       /\ Released(remain[h], A, nshare)[c] = remain[h][c] + Draw(A, nshare, c)
  BY DEF Occupied, Released
<1> QED
  BY <1>1, <1>3, <1>4, <1>5

LEMMA NShareTypes ==
  ASSUME Types
  PROVE  /\ \A q \in Requests : req[q].ask.nshare \in Nat /\ req[q].ask.nshare < CoreShare
         /\ \A b \in BoxIds : NShare(b) \in Nat
<1>1. \A q \in Requests : req[q].ask \in Asks \cup {NoAsk}
  BY DEF Types, RequestType
<1>2. \A q \in Requests : req[q].ask.nshare \in Nat /\ req[q].ask.nshare < CoreShare
  BY <1>1, AskTypes
<1> QED
  BY <1>2, Names DEF NShare

\* A step of a handler that keeps the plan, and with it the tasks' shapes.
LEMMA AnswerKeeps ==
  ASSUME IInv, Types', NEW q \in Requests,
         req[q].pc \in {"enqueue", "occupy"}, req'[q].pc \in {"enqueue", "done", "raised"},
         req'[q].plan = req[q].plan, \A p \in Requests \ {q} : req'[p] = req[p],
         UNCHANGED <<lock, job, box>>, RequestShape(q)'
  PROVE  IInv'
<1> USE DEF IInv
<1>1. \A p \in Requests : req'[p].plan = req[p].plan
  OBVIOUS
<1>2. LockHeld'
  BY DEF LockHeld, Scheduling
<1>3. ASSUME NEW p \in Requests PROVE RequestShape(p)'
  BY DEF RequestShape, HasTask
<1>4. ASSUME NEW t \in TaskIds PROVE TaskShape(t)'
  <2>1. req'[t[1]].plan = req[t[1]].plan
    BY <1>1, Names
  <2> QED
    BY <2>1, TaskShapeKept
<1>5. \A j \in Jobs : JobShape(j)'
  BY DEF JobShape
<1>6. \A b \in DOMAIN box' : BoxShape(b)'
  BY DEF BoxShape, HasTask
<1>7. OneHolder'
  BY DEF OneHolder, Working
<1>8. \A j \in Jobs : Stage(j)'
  BY DEF Stage
<1> QED
  BY <1>2, <1>3, <1>4, <1>5, <1>6, <1>7, <1>8

LEMMA NextHostKeeps ==
  ASSUME IInv, Types', NEW q \in Requests, NEW h \in Hosts, h \in req[q].todo,
         \/ req[q].pc = "enqueue"
         \/ req[q].pc = "occupy" /\ h = req[q].at,
         req' = NextHost(q, h), UNCHANGED <<lock, job, box>>
  PROVE  IInv'
<1> DEFINE state == IF req[q].todo = {h} THEN "done" ELSE "enqueue"
           todo == req[q].todo \ {h}
<1>1. req \in [Requests -> RequestType] /\ RequestShape(q)
  BY DEF IInv, Types
<1>2. req' = [req EXCEPT ![q].todo = todo, ![q].at = AnyHost, ![q].pc = state]
  BY <1>1 DEF NextHost
<1>3. /\ req'[q].plan = req[q].plan /\ req'[q].pc = state
      /\ req'[q].todo = todo /\ \A p \in Requests \ {q} : req'[p] = req[p]
  BY <1>1, <1>2 DEF RequestType
<1>4. state \in {"enqueue", "done"}
  OBVIOUS
<1> HIDE DEF state
<1>5. \A g \in Hosts : HasTask(<<q, g>>)' <=> HasTask(<<q, g>>)
  BY DEF HasTask
<1>6. RequestShape(q)'
  BY <1>1, <1>3, <1>4, <1>5 DEF RequestShape
<1> QED
  BY <1>3, <1>4, <1>6, AnswerKeeps

LEMMA OccupyTypes ==
  ASSUME IInv, NEW q \in Requests, OccupyCores(q)
  PROVE  LET h == req[q].at
         IN  /\ req[q].pc = "occupy" /\ h \in Hosts /\ h \in req[q].todo /\ h \in DOMAIN req[q].plan
             /\ req[q].plan[h].cores \in AllocationType /\ req[q].ask.nshare \in Nat
             /\ remain' \in [Hosts -> [Cores -> Int]]
             /\ req' = NextHost(q, h) /\ UNCHANGED <<count, lock, job, box>>
             /\ \A g \in Hosts, c \in Cores :
                   remain'[g][c] = IF g = h
                                   THEN remain[h][c] - Draw(req[q].plan[h].cores, req[q].ask.nshare, c)
                                   ELSE remain[g][c]
<1> DEFINE h == req[q].at
           A == req[q].plan[h].cores
           s == req[q].ask.nshare
<1>1. req[q] \in RequestType /\ RequestShape(q) /\ req[q].pc = "occupy" /\ Types
  BY DEF IInv, Types, OccupyCores
<1>2. h \in req[q].todo /\ h \in DOMAIN req[q].plan /\ h \in Hosts
  BY <1>1 DEF RequestShape, RequestType
<1>3. req[q].plan \in Plans
  BY <1>1 DEF RequestType
<1>4. A \in AllocationType
  BY <1>2, <1>3, PlanTypes
<1>5. s \in Nat
  BY <1>1, NShareTypes
<1>6. /\ remain' = [remain EXCEPT ![h] = Occupied(@, A, s)]
      /\ req' = NextHost(q, h) /\ UNCHANGED <<count, lock, job, box>>
  BY DEF OccupyCores
<1> HIDE DEF h, A, s
<1>7. remain' \in [Hosts -> [Cores -> Int]]
  BY <1>1, <1>2, <1>4, <1>5, <1>6, LedgerTypes
<1>8. \A c \in Cores : Occupied(remain[h], A, s)[c] = remain[h][c] - Draw(A, s, c)
  BY <1>1, <1>2, <1>4, <1>5, LedgerTypes
<1>9. \A g \in Hosts : remain'[g] = IF g = h THEN Occupied(remain[h], A, s) ELSE remain[g]
  BY <1>1, <1>2, <1>6 DEF Types
<1>10. \A g \in Hosts, c \in Cores :
          remain'[g][c] = IF g = h THEN remain[h][c] - Draw(A, s, c) ELSE remain[g][c]
  BY <1>8, <1>9
<1> QED
  BY <1>1, <1>2, <1>4, <1>5, <1>6, <1>7, <1>10 DEF h, A, s

LEMMA NextHostType ==
  ASSUME Types, NEW q \in Requests, NEW h
  PROVE  NextHost(q, h) \in [Requests -> RequestType]
<1> DEFINE state == IF req[q].todo = {h} THEN "done" ELSE "enqueue"
<1>1. state \in RequestStates
  BY DEF RequestStates, RequestEnded
<1> HIDE DEF state
<1>2. [req[q] EXCEPT !.todo = @ \ {h}, !.at = AnyHost, !.pc = state] \in RequestType
  BY <1>1 DEF Types, RequestType
<1>3. NextHost(q, h) = [req EXCEPT ![q] = [req[q] EXCEPT !.todo = @ \ {h}, !.at = AnyHost, !.pc = state]]
  BY DEF NextHost, Types, state
<1> QED
  BY <1>2, <1>3 DEF Types

LEMMA AnswerSteps ==
  ASSUME IInv, NEW q \in Requests, Answer(q)
  PROVE  IInv'
<1>1. Types /\ RequestShape(q) /\ req[q] \in RequestType
  BY DEF IInv, Types
<1>2. ASSUME NEW h \in Hosts, CreateTaskFails(q, h) PROVE IInv'
  <2>1. /\ req[q].pc = "enqueue" /\ h \in req[q].todo /\ req' = NextHost(q, h)
        /\ UNCHANGED <<remain, count, lock, job, box>>
    BY <1>2 DEF CreateTaskFails
  <2>2. Types'
    BY <1>1, <2>1, NextHostType DEF Types
  <2> QED
    BY <2>1, <2>2, NextHostKeeps
<1>3. ASSUME NEW h \in Hosts, EnqueueFails(q, h) PROVE IInv'
  <2>1. /\ req[q].pc = "enqueue" /\ req' = [req EXCEPT ![q].pc = "raised"]
        /\ UNCHANGED <<remain, count, lock, job, box>>
    BY <1>3 DEF EnqueueFails
  <2>2. \A p \in Requests \ {q} : req'[p] = req[p]
    BY <1>1, <2>1 DEF Types
  <2>3. req'[q] \in RequestType /\ req'[q].pc = "raised" /\ req'[q].plan = req[q].plan
    BY <1>1, <2>1 DEF Types, RequestType, RequestStates, RequestEnded
  <2>4. req' \in [Requests -> RequestType]
    BY <1>1, <2>1, <2>3 DEF Types
  <2>5. Types'
    BY <1>1, <2>1, <2>4 DEF Types
  <2>6. RequestShape(q)'
    BY <1>1, <2>1, <2>3 DEF RequestShape, HasTask
  <2> QED
    BY <2>1, <2>2, <2>3, <2>5, <2>6, AnswerKeeps
<1>4. ASSUME OccupyCores(q) PROVE IInv'
  <2>1. /\ req[q].pc = "occupy" /\ req[q].at \in Hosts /\ req[q].at \in req[q].todo
        /\ remain' \in [Hosts -> [Cores -> Int]]
        /\ req' = NextHost(q, req[q].at) /\ UNCHANGED <<count, lock, job, box>>
    BY <1>4, OccupyTypes
  <2>2. Types'
    BY <1>1, <2>1, NextHostType DEF Types
  <2> QED
    BY <2>1, <2>2, NextHostKeeps
<1>5. ASSUME NEW h \in Hosts, CreateTask(q, h) PROVE IInv'
  <2> DEFINE t == <<q, h>>
  <2>1. /\ req[q].pc = "enqueue" /\ h \in req[q].todo
        /\ job' = [job EXCEPT ![t].pc = "queued"]
        /\ req' = [req EXCEPT ![q].pc = "occupy", ![q].at = h]
        /\ UNCHANGED <<remain, count, lock, box>>
    BY <1>5 DEF CreateTask
  <2>2. t \in TaskIds /\ t \in Jobs /\ t[1] = q /\ t[2] = h
    BY DEF TaskIds, Jobs
  <2>3. job[t].pc = "none" /\ job[t].box = NoBox /\ job[t].next = 1 /\ TaskShape(t)
    BY <2>1, <2>2, <1>1 DEF RequestShape, HasTask, IInv, TaskShape
  <2>4. /\ job'[t].pc = "queued" /\ job'[t].box = NoBox /\ job'[t].next = 1
        /\ job'[t] \in JobType /\ \A j \in Jobs : j # t => job'[j] = job[j]
    BY <1>1, <2>1, <2>2, <2>3 DEF Types, JobType, JobStates
  <2>5. /\ req'[q].pc = "occupy" /\ req'[q].at = h /\ req'[q].plan = req[q].plan
        /\ req'[q].todo = req[q].todo
        /\ req'[q] \in RequestType /\ \A p \in Requests \ {q} : req'[p] = req[p]
    BY <1>1, <2>1 DEF Types, RequestType, RequestStates
  <2>6. Types'
    BY <1>1, <2>1, <2>2, <2>4, <2>5 DEF Types
  <2> HIDE DEF t
  <2>7. LockHeld'
    BY <2>1, <2>5 DEF LockHeld, Scheduling, IInv
  <2>8. ASSUME NEW p \in Requests PROVE RequestShape(p)'
    <3>1. CASE p = q
      <4>1. \A g \in Hosts : g # h => (HasTask(<<q, g>>)' <=> HasTask(<<q, g>>))
        BY <2>4 DEF HasTask, TaskIds, Jobs, t
      <4> QED
        BY <1>1, <2>1, <2>5, <3>1, <4>1 DEF RequestShape
    <3>2. CASE p # q
      <4>1. \A g \in Hosts : HasTask(<<p, g>>)' <=> HasTask(<<p, g>>)
        BY <2>4, <3>2 DEF HasTask, TaskIds, Jobs, t
      <4>2. RequestShape(p)
        BY DEF IInv
      <4> QED
        BY <2>5, <3>2, <4>1, <4>2 DEF RequestShape
    <3> QED
      BY <3>1, <3>2
  <2>9. ASSUME NEW u \in TaskIds PROVE TaskShape(u)'
    <3>1. CASE u = t
      BY <2>4, <3>1, DeployAssumption DEF TaskShape
    <3>2. CASE u # t
      <4>1. req'[u[1]].plan = req[u[1]].plan /\ job'[u] = job[u] /\ TaskShape(u)
        BY <2>4, <2>5, <3>2, Names DEF IInv
      <4> QED
        BY <4>1, TaskShapeKept
    <3> QED
      BY <3>1, <3>2
  <2>10. ASSUME NEW j \in Jobs PROVE JobShape(j)' /\ Stage(j)'
    <3>1. JobShape(j) /\ Stage(j)
      BY DEF IInv
    <3>2. CASE j = t
      BY <2>2, <2>4, <3>2, Names DEF JobShape, Stage
    <3>3. CASE j # t
      BY <2>1, <2>4, <3>1, <3>3 DEF JobShape, Stage
    <3> QED
      BY <3>2, <3>3
  <2>11. ASSUME NEW b \in DOMAIN box' PROVE BoxShape(b)'
    <3>1. b \in DOMAIN box /\ b \in BoxIds /\ BoxShape(b) /\ box' = box
      BY <1>1, <2>1 DEF IInv, Types
    <3>2. TaskOf(b) # t /\ TaskOf(b) \in Jobs
      BY <2>3, <3>1, Names DEF BoxShape, HasTask
    <3>3. job'[TaskOf(b)] = job[TaskOf(b)]
      BY <2>4, <3>2
    <3> QED
      BY <3>1, <3>3 DEF BoxShape, HasTask
  <2>12. OneHolder'
    BY <2>2, <2>4 DEF OneHolder, Working, IInv
  <2> QED
    BY <2>6, <2>7, <2>8, <2>9, <2>10, <2>11, <2>12 DEF IInv
<1> QED
  BY <1>2, <1>3, <1>4, <1>5 DEF Answer

\* A step of worker j: what has to be shown of it and of the containers.
LEMMA WorkerKeeps ==
  ASSUME IInv, Types', NEW j \in Jobs, UNCHANGED <<lock, req>>,
         \A k \in Jobs \ {j} : job'[k] = job[k],
         job'[j].pc # "none", j \in TaskIds => HasTask(j),
         JobShape(j)', j \in TaskIds => TaskShape(j)',
         DOMAIN box \subseteq DOMAIN box', \A b \in DOMAIN box' : BoxShape(b)',
         \A k \in Jobs : Stage(k)',
         \A k \in Jobs \ {j} :
            Working(j)' /\ Working(k) /\ job[k].box = job'[j].box /\ job[k].box # NoBox =>
               Overlapping /\ j \in Removers /\ k \in Removers
  PROVE  IInv'
<1> USE DEF IInv
<1>1. LockHeld'
  BY DEF LockHeld, Scheduling
<1>2. \A t \in TaskIds : HasTask(t)' <=> HasTask(t)
  BY Names DEF HasTask
<1>3. ASSUME NEW p \in Requests PROVE RequestShape(p)'
  <2>1. \A h \in Hosts : HasTask(<<p, h>>)' <=> HasTask(<<p, h>>)
    BY <1>2 DEF TaskIds
  <2> QED
    BY <2>1 DEF RequestShape
<1>4. ASSUME NEW t \in TaskIds PROVE TaskShape(t)'
  <2>1. CASE t = j
    BY <2>1
  <2>2. CASE t # j
    <3>1. job'[t] = job[t]
      BY <2>2, Names
    <3> QED
      BY <3>1, TaskShapeKept
  <2> QED
    BY <2>1, <2>2
<1>5. ASSUME NEW k \in Jobs PROVE JobShape(k)'
  BY DEF JobShape
<1>6. OneHolder'
  <2> SUFFICES ASSUME NEW k \in Jobs, NEW l \in Jobs, Working(k)', Working(l)',
                      job'[k].box # NoBox, job'[k].box = job'[l].box
               PROVE  k = l \/ (Overlapping /\ k \in Removers /\ l \in Removers)
    BY DEF OneHolder
  <2>1. CASE k # j /\ l # j
    BY <2>1 DEF Working, OneHolder
  <2>2. CASE k = j /\ l # j
    <3>1. job'[l] = job[l] /\ Working(l)
      BY <2>2 DEF Working
    <3> QED
      BY <2>2, <3>1
  <2>3. CASE k # j /\ l = j
    <3>1. job'[k] = job[k] /\ Working(k)
      BY <2>3 DEF Working
    <3> QED
      BY <2>3, <3>1
  <2> QED
    BY <2>1, <2>2, <2>3
<1> QED
  BY <1>1, <1>3, <1>4, <1>5, <1>6

\* The same when no container changes.
LEMMA JobKeeps ==
  ASSUME IInv, Types', NEW j \in Jobs, UNCHANGED <<lock, req, box>>,
         \A k \in Jobs \ {j} : job'[k] = job[k],
         job'[j].pc # "none", j \in TaskIds => HasTask(j),
         JobShape(j)', j \in TaskIds => TaskShape(j)', Stage(j)',
         \A b \in DOMAIN box : TaskOf(b) = j => BoxShape(b)',
         \A k \in Jobs \ {j} :
            Working(j)' /\ Working(k) /\ job[k].box = job'[j].box /\ job[k].box # NoBox =>
               Overlapping /\ j \in Removers /\ k \in Removers
  PROVE  IInv'
<1>1. ASSUME NEW k \in Jobs PROVE Stage(k)'
  <2>1. CASE k = j
    BY <2>1
  <2>2. CASE k # j
    BY <2>2 DEF Stage, IInv
  <2> QED
    BY <2>1, <2>2
<1>2. ASSUME NEW b \in DOMAIN box' PROVE BoxShape(b)'
  <2>1. b \in DOMAIN box /\ BoxShape(b) /\ TaskOf(b) \in Jobs
    BY Names DEF IInv, Types
  <2>2. CASE TaskOf(b) = j
    BY <2>1, <2>2
  <2>3. CASE TaskOf(b) # j
    <3>1. job'[TaskOf(b)] = job[TaskOf(b)]
      BY <2>1, <2>3
    <3> QED
      BY <2>1, <3>1 DEF BoxShape, HasTask
  <2> QED
    BY <2>2, <2>3
<1> QED
  BY <1>1, <1>2, WorkerKeeps

\* The same when the worker keeps its place.
LEMMA MoveKeeps ==
  ASSUME IInv, Types', NEW j \in Jobs, Working(j), UNCHANGED <<lock, req, box>>,
         \A k \in Jobs \ {j} : job'[k] = job[k],
         job'[j].pc # "none", job'[j].box = job[j].box, job'[j].next = job[j].next,
         job[j].pc \in {"record", "save"} => job'[j].pc = "crashed",
         JobShape(j)', j \in TaskIds => TaskShape(j)', Stage(j)'
  PROVE  IInv'
<1>1. job[j].pc # "none" /\ job[j].pc # "crashed"
  BY DEF Working, JobEnded
<1>2. ASSUME NEW b \in DOMAIN box, TaskOf(b) = j PROVE BoxShape(b)'
  <2>1. BoxShape(b)
    BY DEF IInv
  <2> QED
    BY <1>1, <1>2, <2>1 DEF BoxShape, HasTask
<1>3. ASSUME NEW k \in Jobs \ {j}, Working(k), job[k].box = job[j].box, job[k].box # NoBox
      PROVE  Overlapping /\ j \in Removers /\ k \in Removers
  BY <1>3 DEF IInv, OneHolder
<1> QED
  BY <1>1, <1>2, <1>3, JobKeeps DEF HasTask

LEMMA HeldBox ==
  ASSUME IInv, NEW j \in Jobs, job[j].box # NoBox
  PROVE  /\ job[j].box \in DOMAIN box /\ job[j].box \in BoxIds /\ HostOf(job[j].box) \in Hosts
         /\ box[job[j].box] \in BoxType /\ box[job[j].box].cores \in AllocationType
         /\ NShare(job[j].box) \in Nat
<1>1. job[j].box \in DOMAIN box /\ job[j].box \in BoxIds /\ Types
  BY DEF IInv, JobShape, Types
<1>2. box[job[j].box] \in BoxType
  BY <1>1 DEF Types
<1> QED
  BY <1>1, <1>2, Names, NShareTypes DEF BoxType

\* A job that changes its state only.
LEMMA JobTypes ==
  ASSUME Types, NEW j \in Jobs
  PROVE  \A state \in JobStates :
            LET new == [job EXCEPT ![j].pc = state]
            IN  /\ new \in [Jobs -> JobType] /\ \A k \in Jobs \ {j} : new[k] = job[k]
                /\ new[j].pc = state /\ new[j].box = job[j].box /\ new[j].next = job[j].next
                /\ new[j].cores = job[j].cores
<1>1. job \in [Jobs -> JobType] /\ job[j] \in JobType
  BY DEF Types
<1>2. \A state \in JobStates : [job[j] EXCEPT !.pc = state] \in JobType
  BY <1>1 DEF JobType
<1> QED
  BY <1>1, <1>2 DEF JobType

LEMMA StartSteps ==
  ASSUME IInv, NEW t \in TaskIds, StartTask(t)
  PROVE  IInv'
<1> DEFINE state == IF IterDefined(Message(t).cores, Message(t).count) THEN "create" ELSE "raised"
<1>1. /\ t \in Jobs /\ t \notin Removers /\ Types /\ TaskShape(t) /\ JobShape(t)
      /\ job[t].pc = "queued" /\ job' = [job EXCEPT ![t].pc = state]
      /\ UNCHANGED <<remain, count, lock, req, box>>
  BY Names DEF IInv, StartTask
<1>2. /\ state \in JobStates /\ state \in {"create", "raised"}
      /\ state = "create" => IterDefined(Message(t).cores, Message(t).count)
  BY DEF JobStates, JobEnded
<1> HIDE DEF state
<1>3. /\ job' \in [Jobs -> JobType] /\ \A k \in Jobs \ {t} : job'[k] = job[k]
      /\ job'[t].pc = state /\ job'[t].box = job[t].box /\ job'[t].next = job[t].next
  BY <1>1, <1>2, JobTypes
<1>4. Types'
  BY <1>1, <1>3 DEF Types
<1>5. JobShape(t)' /\ Stage(t)'
  BY <1>1, <1>2, <1>3 DEF JobShape, Stage
<1>6. Message(t)' = Message(t)
  BY <1>1 DEF Message
<1>7. TaskShape(t)'
  BY <1>1, <1>2, <1>3, <1>6 DEF TaskShape
<1> QED
  BY <1>1, <1>2, <1>3, <1>4, <1>5, <1>7, MoveKeeps DEF Working, JobEnded

LEMMA FinishSteps ==
  ASSUME IInv, NEW t \in TaskIds, FinishTask(t)
  PROVE  IInv'
<1>1. PICK end \in {"done", "unfinished"} : job' = [job EXCEPT ![t].pc = end]
  BY DEF FinishTask
<1>2. /\ t \in Jobs /\ t \notin Removers /\ Types /\ TaskShape(t) /\ JobShape(t)
      /\ job[t].pc = "create" /\ job[t].next > Len(Chunks(t))
      /\ UNCHANGED <<remain, count, lock, req, box>> /\ end \in JobStates
  BY Names DEF IInv, FinishTask, JobStates, JobEnded
<1>3. /\ job' \in [Jobs -> JobType] /\ \A k \in Jobs \ {t} : job'[k] = job[k]
      /\ job'[t].pc = end /\ job'[t].box = job[t].box /\ job'[t].next = job[t].next
  BY <1>1, <1>2, JobTypes
<1>4. Types'
  BY <1>2, <1>3 DEF Types
<1>5. JobShape(t)' /\ Stage(t)'
  BY <1>2, <1>3 DEF JobShape, Stage
<1>6. Message(t)' = Message(t) /\ Chunks(t)' = Chunks(t)
  BY <1>2 DEF Message, Chunks
<1>7. TaskShape(t)'
  BY <1>2, <1>3, <1>6 DEF TaskShape
<1> QED
  BY <1>2, <1>3, <1>4, <1>5, <1>7, MoveKeeps DEF Working, JobEnded

LEMMA NoAddressSteps ==
  ASSUME IInv, NEW t \in TaskIds, AllocateIPsFails(t)
  PROVE  IInv'
<1>1. /\ t \in Jobs /\ t \notin Removers /\ Types /\ TaskShape(t) /\ JobShape(t) /\ Stage(t)
      /\ job[t].pc = "network" /\ job' = [job EXCEPT ![t].pc = "clean"]
      /\ UNCHANGED <<remain, count, lock, req, box>> /\ "clean" \in JobStates
  BY Names DEF IInv, AllocateIPsFails, JobStates, JobEnded
<1>2. /\ job' \in [Jobs -> JobType] /\ \A k \in Jobs \ {t} : job'[k] = job[k]
      /\ job'[t].pc = "clean" /\ job'[t].box = job[t].box /\ job'[t].next = job[t].next
  BY <1>1, JobTypes
<1>3. Types'
  BY <1>1, <1>2 DEF Types
<1>4. JobShape(t)' /\ Stage(t)'
  BY <1>1, <1>2 DEF JobShape, Stage
<1>5. Message(t)' = Message(t)
  BY <1>1 DEF Message
<1>6. TaskShape(t)'
  BY <1>1, <1>2, <1>5 DEF TaskShape, NextBox
<1> QED
  BY <1>1, <1>2, <1>3, <1>4, <1>6, MoveKeeps DEF Working, JobEnded

LEMMA RefusalSteps ==
  ASSUME IInv, NEW j \in Jobs, RemoveFromDockerFails(j)
  PROVE  IInv'
<1> DEFINE state == IF job[j].pc = "stop" THEN "failed" ELSE "raised"
<1>1. /\ Types /\ JobShape(j) /\ (j \in TaskIds => TaskShape(j))
      /\ job[j].pc \in {"stop", "clean"} /\ job' = [job EXCEPT ![j].pc = state]
      /\ UNCHANGED <<remain, count, lock, req, box>>
  BY DEF IInv, RemoveFromDockerFails, Types
<1>2. state \in JobStates /\ state \in {"failed", "raised"} /\ (j \in TaskIds => state = "raised")
  BY <1>1 DEF JobStates, JobEnded, JobShape
<1> HIDE DEF state
<1>3. /\ job' \in [Jobs -> JobType] /\ \A k \in Jobs \ {j} : job'[k] = job[k]
      /\ job'[j].pc = state /\ job'[j].box = job[j].box /\ job'[j].next = job[j].next
  BY <1>1, <1>2, JobTypes
<1>4. Types'
  BY <1>1, <1>3 DEF Types
<1>5. JobShape(j)' /\ Stage(j)'
  BY <1>1, <1>2, <1>3 DEF JobShape, Stage
<1>6. j \in TaskIds => TaskShape(j)'
  BY <1>1, <1>2, <1>3 DEF TaskShape, NextBox
<1> QED
  BY <1>1, <1>2, <1>3, <1>4, <1>5, <1>6, MoveKeeps DEF Working, JobEnded

LEMMA CrashSteps ==
  ASSUME IInv, NEW j \in Jobs, Crash(j)
  PROVE  IInv'
<1>1. /\ Types /\ JobShape(j) /\ (j \in TaskIds => TaskShape(j))
      /\ Working(j) /\ job[j].pc \notin {"queued", "drop"}
      /\ job' = [job EXCEPT ![j].pc = "crashed"]
      /\ UNCHANGED <<remain, count, lock, req, box>> /\ "crashed" \in JobStates
  BY DEF IInv, Crash, JobStates, JobEnded
<1>2. /\ job' \in [Jobs -> JobType] /\ \A k \in Jobs \ {j} : job'[k] = job[k]
      /\ job'[j].pc = "crashed" /\ job'[j].box = job[j].box /\ job'[j].next = job[j].next
  BY <1>1, JobTypes
<1>3. Types'
  BY <1>1, <1>2 DEF Types
<1>4. JobShape(j)' /\ Stage(j)'
  BY <1>1, <1>2 DEF JobShape, Stage
<1>5. j \in TaskIds => Message(j)' = Message(j)
  BY <1>1 DEF Message
<1>6. j \in TaskIds => TaskShape(j)'
  BY <1>1, <1>2, <1>5 DEF TaskShape, NextBox, Working, JobEnded
<1> QED
  BY <1>1, <1>2, <1>3, <1>4, <1>6, MoveKeeps

LEMMA ReadSteps ==
  ASSUME IInv, NEW j \in Jobs, ReadCores(j)
  PROVE  IInv'
<1> DEFINE b == job[j].box
           A == IF box[b].key THEN box[b].cores ELSE NoCores
<1>1. /\ Types /\ JobShape(j) /\ Stage(j) /\ (j \in TaskIds => TaskShape(j))
      /\ job[j].pc = "read" /\ job' = [job EXCEPT ![j].pc = "release", ![j].cores = A]
      /\ UNCHANGED <<remain, count, lock, req, box>> /\ "release" \in JobStates
  BY DEF IInv, ReadCores, JobStates
<1>2. A \in AllocationType
  BY <1>1, HeldBox, DrawNone DEF JobShape
<1> HIDE DEF A
<1>3. /\ job' \in [Jobs -> JobType] /\ \A k \in Jobs \ {j} : job'[k] = job[k]
      /\ job'[j].pc = "release" /\ job'[j].box = b /\ job'[j].next = job[j].next
      /\ job'[j].cores = A
  BY <1>1, <1>2 DEF Types, JobType
<1>4. Types'
  BY <1>1, <1>3 DEF Types
<1>5. JobShape(j)' /\ Stage(j)'
  BY <1>1, <1>3 DEF JobShape, Stage, A
<1>6. j \in TaskIds => Message(j)' = Message(j)
  BY <1>1 DEF Message
<1>7. j \in TaskIds => TaskShape(j)'
  BY <1>1, <1>3, <1>6 DEF TaskShape, NextBox
<1> QED
  BY <1>1, <1>3, <1>4, <1>5, <1>7, MoveKeeps DEF Working, JobEnded

LEMMA MessageTypes ==
  ASSUME IInv, NEW t \in TaskIds, HasTask(t)
  PROVE  /\ t[2] \in DOMAIN req[t[1]].plan
         /\ Message(t).cores \in AllocationType /\ Message(t).count \in Int
         /\ req[t[1]].ask.nshare \in Nat
<1>1. t[1] \in Requests /\ t[2] \in Hosts /\ t = <<t[1], t[2]>>
  BY Names
<1>2. req[t[1]] \in RequestType /\ Types /\ RequestShape(t[1])
  BY <1>1 DEF IInv, Types
<1>3. t[2] \in DOMAIN req[t[1]].plan
  BY <1>1, <1>2 DEF RequestShape
<1>4. req[t[1]].plan \in Plans
  BY <1>2 DEF RequestType
<1>5. req[t[1]].ask.nshare \in Nat
  BY <1>1, <1>2, NShareTypes
<1> QED
  BY <1>3, <1>4, <1>5, PlanTypes DEF Message

LEMMA NextChunk ==
  ASSUME IInv, NEW t \in TaskIds, HasNext(t)
  PROVE  /\ t \in Jobs /\ t \notin Removers /\ t[2] \in Hosts
         /\ job[t].pc = "create" /\ job[t].box = NoBox
         /\ job[t].next \in Nat \ {0} /\ job[t].next <= Len(Chunks(t))
         /\ IterDefined(Message(t).cores, Message(t).count)
         /\ Message(t).cores \in AllocationType /\ Message(t).count \in Int /\ Message(t).count > 0
         /\ Chunks(t)[job[t].next] \in AllocationType /\ req[t[1]].ask.nshare \in Nat
         /\ NextBox(t) \in BoxIds /\ NextBox(t) \notin DOMAIN box /\ TaskOf(NextBox(t)) = t
         /\ HostOf(NextBox(t)) = t[2] /\ NShare(NextBox(t)) = req[t[1]].ask.nshare
         /\ NextBox(t) # NoBox
<1>1. /\ t \in Jobs /\ t \notin Removers /\ t[1] \in Requests /\ t[2] \in Hosts
      /\ t = <<t[1], t[2]>> /\ job[t].pc = "create"
      /\ Types /\ TaskShape(t)
  BY Names DEF HasNext, IInv
<1>2. job[t] \in JobType /\ job[t].next \in Nat \ {0} /\ job[t].box = NoBox
  BY <1>1 DEF Types, JobType, TaskShape
<1>3. /\ IterDefined(Message(t).cores, Message(t).count)
      /\ Message(t).cores \in AllocationType /\ Message(t).count \in Int
      /\ req[t[1]].ask.nshare \in Nat
  BY <1>1, MessageTypes DEF HasTask, TaskShape
<1>4. job[t].next <= Len(Chunks(t))
  BY DEF HasNext
<1>5. Chunks(t)[job[t].next] \in AllocationType /\ Message(t).count > 0
  BY <1>2, <1>3, <1>4, ChunksOf DEF Chunks
<1>6. /\ NextBox(t) \in BoxIds /\ TaskOf(NextBox(t)) = t
      /\ HostOf(NextBox(t)) = t[2] /\ NShare(NextBox(t)) = req[t[1]].ask.nshare
      /\ NextBox(t)[3] = job[t].next
  BY <1>1, <1>2 DEF NextBox, BoxIds, TaskOf, HostOf, NShare
<1>7. NextBox(t) # NoBox
  BY <1>6, Names
<1>8. ASSUME NextBox(t) \in DOMAIN box PROVE FALSE
  <2>1. BoxShape(NextBox(t))
    BY <1>8 DEF IInv
  <2>2. job[t].next < job[t].next
    BY <1>2, <1>6, <1>7, <2>1 DEF BoxShape
  <2> QED
    BY <1>2, <2>2
<1> QED
  BY <1>1, <1>2, <1>3, <1>4, <1>5, <1>6, <1>7, <1>8

LEMMA ReleaseTypes ==
  ASSUME IInv, NEW j \in Jobs, ReleaseCores(j)
  PROVE  LET b == job[j].box
             nshare == IF box[b].key THEN NShare(b) ELSE 0
         IN  /\ job[j].pc = "release" /\ b # NoBox /\ HostOf(b) \in Hosts /\ nshare \in Nat
             /\ job[j].cores \in AllocationType
             /\ remain' \in [Hosts -> [Cores -> Int]]
             /\ job' = [job EXCEPT ![j].pc = "drop"] /\ UNCHANGED <<count, lock, req, box>>
             /\ \A g \in Hosts, c \in Cores :
                   remain'[g][c] = IF g = HostOf(b)
                                   THEN remain[g][c] + Draw(job[j].cores, nshare, c)
                                   ELSE remain[g][c]
<1> DEFINE b == job[j].box
           s == IF box[b].key THEN NShare(b) ELSE 0
           A == job[j].cores
           h == HostOf(b)
<1>1. /\ job[j].pc = "release" /\ b # NoBox /\ Types /\ A \in AllocationType
      /\ job' = [job EXCEPT ![j].pc = "drop"] /\ UNCHANGED <<count, lock, req, box>>
      /\ remain' = [remain EXCEPT ![h] = Released(@, A, s)]
  BY DEF ReleaseCores, IInv, JobShape, Types, JobType
<1>2. h \in Hosts /\ s \in Nat
  BY <1>1, HeldBox
<1> HIDE DEF b, s, A, h
<1>3. remain' \in [Hosts -> [Cores -> Int]]
  BY <1>1, <1>2, LedgerTypes
<1>4. \A c \in Cores : Released(remain[h], A, s)[c] = remain[h][c] + Draw(A, s, c)
  BY <1>1, <1>2, LedgerTypes
<1>5. \A g \in Hosts : remain'[g] = IF g = h THEN Released(remain[h], A, s) ELSE remain[g]
  BY <1>1, <1>2 DEF Types
<1>6. \A g \in Hosts, c \in Cores :
          remain'[g][c] = IF g = h THEN remain[g][c] + Draw(A, s, c) ELSE remain[g][c]
  BY <1>4, <1>5
<1> QED
  BY <1>1, <1>2, <1>3, <1>6 DEF b, s, A, h

LEMMA GiveBackTypes ==
  ASSUME IInv, NEW t \in TaskIds, CreateContainerFails(t)
  PROVE  /\ HasNext(t) /\ remain' \in [Hosts -> [Cores -> Int]]
         /\ job' = [job EXCEPT ![t].next = @ + 1] /\ UNCHANGED <<count, lock, req, box>>
         /\ \A g \in Hosts, c \in Cores :
               remain'[g][c] = IF g = t[2]
                               THEN remain[g][c] + Draw(Chunks(t)[job[t].next], req[t[1]].ask.nshare, c)
                               ELSE remain[g][c]
<1> DEFINE s == req[t[1]].ask.nshare
           A == Chunks(t)[job[t].next]
           h == t[2]
<1>1. /\ HasNext(t) /\ Types
      /\ job' = [job EXCEPT ![t].next = @ + 1] /\ UNCHANGED <<count, lock, req, box>>
      /\ remain' = [remain EXCEPT ![h] = Released(@, A, s)]
  BY DEF CreateContainerFails, IInv
<1>2. h \in Hosts /\ s \in Nat /\ A \in AllocationType
  BY <1>1, NextChunk
<1> HIDE DEF s, A, h
<1>3. remain' \in [Hosts -> [Cores -> Int]]
  BY <1>1, <1>2, LedgerTypes
<1>4. \A c \in Cores : Released(remain[h], A, s)[c] = remain[h][c] + Draw(A, s, c)
  BY <1>1, <1>2, LedgerTypes
<1>5. \A g \in Hosts : remain'[g] = IF g = h THEN Released(remain[h], A, s) ELSE remain[g]
  BY <1>1, <1>2 DEF Types
<1>6. \A g \in Hosts, c \in Cores :
          remain'[g][c] = IF g = h THEN remain[g][c] + Draw(A, s, c) ELSE remain[g][c]
  BY <1>4, <1>5
<1> QED
  BY <1>1, <1>3, <1>6 DEF s, A, h

LEMMA ReleaseSteps ==
  ASSUME IInv, NEW j \in Jobs, ReleaseCores(j)
  PROVE  IInv'
<1>1. /\ Types /\ JobShape(j) /\ Stage(j) /\ (j \in TaskIds => TaskShape(j))
      /\ job[j].pc = "release" /\ job' = [job EXCEPT ![j].pc = "drop"]
      /\ remain' \in [Hosts -> [Cores -> Int]]
      /\ UNCHANGED <<count, lock, req, box>> /\ "drop" \in JobStates
  BY ReleaseTypes DEF IInv, JobStates
<1>2. /\ job' \in [Jobs -> JobType] /\ \A k \in Jobs \ {j} : job'[k] = job[k]
      /\ job'[j].pc = "drop" /\ job'[j].box = job[j].box /\ job'[j].next = job[j].next
  BY <1>1, JobTypes
<1>3. Types'
  BY <1>1, <1>2 DEF Types
<1>4. JobShape(j)' /\ Stage(j)'
  BY <1>1, <1>2 DEF JobShape, Stage
<1>5. j \in TaskIds => Message(j)' = Message(j)
  BY <1>1 DEF Message
<1>6. j \in TaskIds => TaskShape(j)'
  BY <1>1, <1>2, <1>5 DEF TaskShape, NextBox
<1> QED
  BY <1>1, <1>2, <1>3, <1>4, <1>6, MoveKeeps DEF Working, JobEnded

LEMMA GiveBackSteps ==
  ASSUME IInv, NEW t \in TaskIds, CreateContainerFails(t)
  PROVE  IInv'
<1>1. /\ HasNext(t) /\ remain' \in [Hosts -> [Cores -> Int]] /\ Types /\ TaskShape(t) /\ JobShape(t)
      /\ job' = [job EXCEPT ![t].next = @ + 1] /\ UNCHANGED <<count, lock, req, box>>
  BY GiveBackTypes, Names DEF IInv
<1>2. /\ t \in Jobs /\ t \notin Removers /\ job[t].pc = "create" /\ job[t].box = NoBox
      /\ job[t].next \in Nat \ {0}
  BY <1>1, NextChunk
<1>3. /\ job' \in [Jobs -> JobType] /\ \A k \in Jobs \ {t} : job'[k] = job[k]
      /\ job'[t].pc = "create" /\ job'[t].box = NoBox /\ job'[t].next = job[t].next + 1
  BY <1>1, <1>2 DEF Types, JobType
<1>4. Types'
  BY <1>1, <1>3 DEF Types
<1>5. JobShape(t)' /\ Stage(t)'
  BY <1>1, <1>2, <1>3 DEF JobShape, Stage
<1>6. Message(t)' = Message(t)
  BY <1>1 DEF Message
<1>7. TaskShape(t)'
  BY <1>1, <1>2, <1>3, <1>6 DEF TaskShape
<1>8. ASSUME NEW b \in DOMAIN box, TaskOf(b) = t PROVE BoxShape(b)'
  <2>1. BoxShape(b) /\ b \in BoxIds
    BY DEF IInv, Types
  <2>2. b # NoBox /\ b[3] \in Nat
    BY <2>1, Names
  <2> QED
    BY <1>1, <1>2, <1>3, <1>8, <2>1, <2>2 DEF BoxShape, HasTask
<1>9. HasTask(t)
  BY <1>2 DEF HasTask
<1>10. ASSUME NEW k \in Jobs \ {t}, job[k].box = job'[t].box, job[k].box # NoBox PROVE FALSE
  BY <1>3, <1>10
<1> QED
  BY <1>1, <1>2, <1>3, <1>4, <1>5, <1>7, <1>8, <1>9, <1>10, JobKeeps

LEMMA AddressSteps ==
  ASSUME IInv, NEW t \in TaskIds, AllocateIPs(t)
  PROVE  IInv'
<1>1. /\ t \in Jobs /\ t \notin Removers /\ Types /\ TaskShape(t) /\ JobShape(t) /\ Stage(t)
      /\ job[t].pc = "network" /\ job[t] \in JobType /\ "create" \in JobStates
      /\ job' = [job EXCEPT ![t].pc = "create", ![t].next = @ + 1, ![t].box = NoBox]
      /\ UNCHANGED <<remain, count, lock, req, box>>
  BY Names DEF AllocateIPs, IInv, Types, JobStates
<1>2. job[t].next \in Nat \ {0} /\ job[t].box = NextBox(t)
  BY <1>1 DEF JobType, TaskShape, JobShape
<1>3. /\ job' \in [Jobs -> JobType] /\ \A k \in Jobs \ {t} : job'[k] = job[k]
      /\ job'[t].pc = "create" /\ job'[t].box = NoBox /\ job'[t].next = job[t].next + 1
  BY <1>1, <1>2 DEF Types, JobType
<1>4. Types'
  BY <1>1, <1>3 DEF Types
<1>5. JobShape(t)' /\ Stage(t)'
  BY <1>1, <1>3 DEF JobShape, Stage
<1>6. Message(t)' = Message(t)
  BY <1>1 DEF Message
<1>7. TaskShape(t)'
  BY <1>1, <1>3, <1>6 DEF TaskShape
<1>8. ASSUME NEW b \in DOMAIN box, TaskOf(b) = t PROVE BoxShape(b)'
  <2>1. BoxShape(b) /\ b \in BoxIds
    BY DEF IInv, Types
  <2>2. b[3] \in Nat
    BY <2>1, Names
  <2>3. b[3] < job[t].next + 1
    <3>1. CASE job[t].box = b
      BY <1>2, <2>2, <3>1 DEF NextBox
    <3>2. CASE job[t].box # b
      BY <1>2, <1>8, <2>1, <2>2, <3>2 DEF BoxShape
    <3> QED
      BY <3>1, <3>2
  <2>4. job[t].box = b => box[b].key
    BY <1>1 DEF Stage
  <2> QED
    BY <1>1, <1>3, <1>8, <2>1, <2>3, <2>4 DEF BoxShape, HasTask
<1>9. HasTask(t)
  BY <1>1 DEF HasTask
<1>10. ASSUME NEW k \in Jobs \ {t}, job[k].box = job'[t].box, job[k].box # NoBox PROVE FALSE
  BY <1>3, <1>10
<1> QED
  BY <1>1, <1>3, <1>4, <1>5, <1>7, <1>8, <1>9, <1>10, JobKeeps

LEMMA BeginSteps ==
  ASSUME IInv, NEW r \in Removers, NEW b \in DOMAIN box, BeginRemoval(r, b)
  PROVE  IInv'
<1>1. /\ r \in Jobs /\ r \notin TaskIds /\ Types /\ JobShape(r)
      /\ job[r].pc = "none" /\ box[b].row
      /\ \A t \in TaskIds : ~Holds(t, b)
      /\ Overlapping \/ \A x \in Removers : ~Holds(x, b)
      /\ job' = [job EXCEPT ![r].pc = "stop", ![r].box = b]
      /\ UNCHANGED <<remain, count, lock, req, box>>
  BY DeployAssumption DEF BeginRemoval, IInv, Jobs
<1>2. b \in BoxIds /\ job[r] \in JobType /\ "stop" \in JobStates
  BY <1>1 DEF Types, JobStates
<1>3. /\ job' \in [Jobs -> JobType] /\ \A k \in Jobs \ {r} : job'[k] = job[k]
      /\ job'[r].pc = "stop" /\ job'[r].box = b
  BY <1>1, <1>2 DEF Types, JobType
<1>4. Types'
  BY <1>1, <1>3 DEF Types
<1>5. JobShape(r)' /\ Stage(r)'
  BY <1>1, <1>2, <1>3, Names DEF JobShape, Stage
<1>6. \A a \in DOMAIN box : TaskOf(a) # r
  BY <1>1, Names DEF Types
<1>7. ASSUME NEW k \in Jobs \ {r}, Working(k), job[k].box = b
      PROVE  Overlapping /\ r \in Removers /\ k \in Removers
  BY <1>1, <1>7 DEF Holds, Jobs
<1> QED
  BY <1>1, <1>3, <1>4, <1>5, <1>6, <1>7, JobKeeps

LEMMA CreateSteps ==
  ASSUME IInv, NEW t \in TaskIds, CreateContainer(t)
  PROVE  IInv'
<1> DEFINE n == NextBox(t)
           new == [docker |-> TRUE, row |-> FALSE, key |-> FALSE, cores |-> Chunks(t)[job[t].next]]
<1>1. /\ HasNext(t) /\ Types /\ TaskShape(t) /\ JobShape(t)
      /\ box' = [b \in DOMAIN box \cup {n} |-> IF b = n THEN new ELSE box[b]]
      /\ job' = [job EXCEPT ![t].pc = "record", ![t].box = n]
      /\ UNCHANGED <<remain, count, lock, req>> /\ "record" \in JobStates
  BY Names DEF CreateContainer, IInv, JobStates
<1>2. /\ t \in Jobs /\ t \notin Removers /\ job[t].pc = "create" /\ job[t].box = NoBox
      /\ job[t].next \in Nat \ {0} /\ n \in BoxIds /\ n \notin DOMAIN box /\ TaskOf(n) = t
      /\ n # NoBox /\ IterDefined(Message(t).cores, Message(t).count)
  BY <1>1, NextChunk
<1>3. new \in BoxType /\ new.docker /\ ~new.key /\ ~new.row
  BY <1>1, NextChunk DEF BoxType
<1>4. n[3] = job[t].next
  BY DEF NextBox
<1>5. n = <<t[1], t[2], job[t].next>>
  BY DEF NextBox
<1> HIDE DEF n, new
<1>6. /\ job' \in [Jobs -> JobType] /\ \A k \in Jobs \ {t} : job'[k] = job[k]
      /\ job'[t].pc = "record" /\ job'[t].box = n /\ job'[t].next = job[t].next
  BY <1>1, <1>2 DEF Types, JobType
<1>7. DOMAIN box' = DOMAIN box \cup {n} /\ box'[n] = new /\ \A b \in DOMAIN box : box'[b] = box[b]
  BY <1>1, <1>2
<1>8. Types'
  <2>1. IsFiniteSet(DOMAIN box')
    BY <1>1, <1>7, FS_AddElement DEF Types
  <2>2. DOMAIN box' \in SUBSET BoxIds
    BY <1>1, <1>2, <1>7 DEF Types
  <2>3. box' \in [DOMAIN box' -> BoxType]
    BY <1>1, <1>3, <1>7 DEF Types
  <2> QED
    BY <1>1, <1>6, <2>1, <2>2, <2>3 DEF Types
<1>9. JobShape(t)'
  BY <1>1, <1>2, <1>6, <1>7 DEF JobShape
<1>10. TaskShape(t)'
  <2>1. Message(t)' = Message(t) /\ NextBox(t)' = n
    BY <1>1, <1>5, <1>6 DEF Message, NextBox
  <2> QED
    BY <1>2, <1>6, <2>1 DEF TaskShape
<1>11. ASSUME NEW k \in Jobs PROVE Stage(k)'
  <2>1. CASE k = t
    BY <1>3, <1>6, <1>7, <2>1 DEF Stage
  <2>2. CASE k # t
    <3>1. job'[k] = job[k] /\ JobShape(k) /\ Stage(k)
      BY <1>6, <2>2 DEF IInv
    <3>2. job[k].box # NoBox => box'[job[k].box] = box[job[k].box]
      BY <1>7, <3>1 DEF JobShape
    <3>3. CASE job[k].box # NoBox
      BY <3>1, <3>2, <3>3 DEF Stage
    <3>4. CASE job[k].box = NoBox
      BY <3>1, <3>4 DEF Stage, JobShape
    <3> QED
      BY <3>3, <3>4
  <2> QED
    BY <2>1, <2>2
<1>12. ASSUME NEW b \in DOMAIN box' PROVE BoxShape(b)'
  <2>1. CASE b = n
    BY <1>2, <1>3, <1>6, <1>7, <2>1 DEF BoxShape, HasTask
  <2>2. CASE b # n
    <3>1. b \in DOMAIN box /\ b \in BoxIds /\ box'[b] = box[b] /\ BoxShape(b)
      BY <1>1, <1>7, <2>2 DEF IInv, Types
    <3>2. TaskOf(b) \in Jobs /\ b # NoBox
      BY <3>1, Names
    <3>3. CASE TaskOf(b) = t
      BY <1>2, <1>6, <3>1, <3>2, <3>3 DEF BoxShape, HasTask
    <3>4. CASE TaskOf(b) # t
      <4>1. job'[TaskOf(b)] = job[TaskOf(b)]
        BY <1>6, <3>2, <3>4
      <4> QED
        BY <3>1, <4>1 DEF BoxShape, HasTask
    <3> QED
      BY <3>3, <3>4
  <2> QED
    BY <2>1, <2>2
<1>13. ASSUME NEW k \in Jobs \ {t}, job[k].box = job'[t].box, job[k].box # NoBox PROVE FALSE
  <2>1. JobShape(k)
    BY DEF IInv
  <2> QED
    BY <1>2, <1>6, <1>13, <2>1 DEF JobShape
<1>14. HasTask(t) /\ job'[t].pc # "none" /\ DOMAIN box \subseteq DOMAIN box'
  BY <1>2, <1>6, <1>7 DEF HasTask
<1> QED
  BY <1>1, <1>2, <1>6, <1>8, <1>9, <1>10, <1>11, <1>12, <1>13, <1>14, WorkerKeeps

\* A worker that changes a flag of the container it holds.  The others do not
\* hold it, unless they remove it too and removals overlap.
LEMMA FlagKeeps ==
  ASSUME IInv, NEW j \in Jobs, Working(j), NEW b, b = job[j].box, b # NoBox, Types',
         NEW new \in BoxType, UNCHANGED <<lock, req>>, box' = [box EXCEPT ![b] = new],
         \A k \in Jobs \ {j} : job'[k] = job[k],
         job'[j].pc # "none", job'[j].box \in {b, NoBox}, job'[j].next >= job[j].next,
         job'[j].box = NoBox => job'[j].next > job[j].next,
         JobShape(j)', j \in TaskIds => TaskShape(j)', Stage(j)',
         new.docker => box[b].docker, BoxShape(b)',
         Overlapping /\ j \in Removers => ~new.docker
  PROVE  IInv'
<1>1. /\ b \in DOMAIN box /\ b \in BoxIds /\ Types /\ b # NoBox
  BY HeldBox DEF IInv
<1>2. /\ DOMAIN box' = DOMAIN box /\ box'[b] = new
      /\ \A a \in DOMAIN box : a # b => box'[a] = box[a]
  BY <1>1
<1>3. ASSUME NEW k \in Jobs PROVE Stage(k)'
  <2>1. CASE k = j
    BY <2>1
  <2>2. CASE k # j
    <3>1. job'[k] = job[k] /\ JobShape(k) /\ Stage(k)
      BY <2>2 DEF IInv
    <3>2. CASE job[k].box # b
      <4>1. job[k].box # NoBox => box'[job[k].box] = box[job[k].box]
        BY <1>2, <3>1, <3>2 DEF JobShape
      <4>2. CASE job[k].box # NoBox
        BY <3>1, <4>1, <4>2 DEF Stage
      <4>3. CASE job[k].box = NoBox
        BY <3>1, <4>3 DEF Stage, JobShape
      <4> QED
        BY <4>2, <4>3
    <3>3. CASE job[k].box = b /\ ~Working(k)
      BY <3>1, <3>3 DEF Stage, Working, JobEnded
    <3>4. CASE job[k].box = b /\ Working(k)
      <4>1. Overlapping /\ j \in Removers /\ k \in Removers
        BY <1>1, <2>2, <3>4 DEF IInv, OneHolder
      <4>2. job'[k].pc \notin {"record", "save", "network", "clean"} /\ ~box'[b].docker
        BY <1>2, <3>1, <4>1 DEF JobShape
      <4> QED
        BY <3>1, <3>4, <4>1, <4>2 DEF Stage
    <3> QED
      BY <3>2, <3>3, <3>4
  <2> QED
    BY <2>1, <2>2
<1>4. ASSUME NEW a \in DOMAIN box' PROVE BoxShape(a)'
  <2>1. CASE a = b
    BY <2>1
  <2>2. CASE a # b
    <3>1. a \in DOMAIN box /\ a \in BoxIds /\ box'[a] = box[a] /\ BoxShape(a)
      BY <1>1, <1>2, <2>2 DEF IInv, Types
    <3>2. TaskOf(a) \in Jobs /\ a # NoBox /\ a[3] \in Nat
      BY <3>1, Names
    <3>3. CASE TaskOf(a) = j
      <4>1. a[3] < job[j].next /\ ~(box[a].docker /\ ~box[a].key) /\ HasTask(TaskOf(a))
        BY <2>2, <3>1, <3>3 DEF BoxShape
      <4>2. job[j].next \in Nat /\ job'[j].next \in Nat
        BY <1>1 DEF Types, JobType
      <4> QED
        BY <3>1, <3>2, <3>3, <4>1, <4>2 DEF BoxShape, HasTask
    <3>4. CASE TaskOf(a) # j
      <4>1. job'[TaskOf(a)] = job[TaskOf(a)]
        BY <3>2, <3>4
      <4> QED
        BY <3>1, <4>1 DEF BoxShape, HasTask
    <3> QED
      BY <3>3, <3>4
  <2> QED
    BY <2>1, <2>2
<1>5. ASSUME NEW k \in Jobs \ {j}, Working(k), job[k].box = job'[j].box, job[k].box # NoBox
      PROVE  Overlapping /\ j \in Removers /\ k \in Removers
  BY <1>5 DEF IInv, OneHolder
<1>6. j \in TaskIds => HasTask(j)
  BY DEF HasTask, Working
<1> QED
  BY <1>2, <1>3, <1>4, <1>5, <1>6, WorkerKeeps

LEMMA CountedInt ==
  ASSUME NEW A \in AllocationType, NEW nshare \in Nat
  PROVE  CountedCores(A, nshare) \in Int
<1>1. Len(A.full) \in Nat
  BY LenProperties DEF AllocationType
<1> DEFINE n == Len(A.full)
           p == CoreShare * n
<1>2. p \in Int
  BY <1>1, ShareAssumption
<1> HIDE DEF p
<1>3. p + nshare \in Int
  BY <1>2
<1> QED
  BY <1>3 DEF CountedCores, p, n

LEMMA RecordSteps ==
  ASSUME IInv, NEW t \in TaskIds, RecordContainer(t)
  PROVE  IInv'
<1>0. PICK b : b = job[t].box
  OBVIOUS
<1> USE <1>0
<1> DEFINE new == [box[b] EXCEPT !.row = TRUE]
<1>1. /\ t \in Jobs /\ t \notin Removers /\ Types /\ TaskShape(t) /\ JobShape(t) /\ Stage(t)
      /\ job[t].pc = "record" /\ job' = [job EXCEPT ![t].pc = "save"] /\ t[2] \in Hosts
      /\ box' = [box EXCEPT ![b].row = TRUE] /\ "save" \in JobStates
      /\ count' = [count EXCEPT ![t[2]] = @ - CountedCores(box[b].cores, NShare(b))]
      /\ UNCHANGED <<remain, lock, req>>
  BY Names DEF RecordContainer, IInv, JobStates
<1>2. /\ b # NoBox /\ b = NextBox(t) /\ b \in DOMAIN box /\ b \in BoxIds
      /\ box[b] \in BoxType /\ NShare(b) \in Nat /\ box[b].cores \in AllocationType
  BY <1>1, HeldBox DEF JobShape, TaskShape
<1>3. /\ job' \in [Jobs -> JobType] /\ \A k \in Jobs \ {t} : job'[k] = job[k]
      /\ job'[t].pc = "save" /\ job'[t].box = b /\ job'[t].next = job[t].next
  BY <1>1, JobTypes
<1>4. count' \in [Hosts -> Int]
  <2>1. CountedCores(box[b].cores, NShare(b)) \in Int
    BY <1>2, CountedInt
  <2> QED
    BY <1>1, <2>1 DEF Types
<1>5. new \in BoxType /\ new.docker = box[b].docker /\ new.row /\ new.key = box[b].key
  BY <1>2 DEF BoxType
<1>6. box' = [box EXCEPT ![b] = new] /\ TaskOf(b) = t
  <2>1. TaskOf(b) = t
    BY <1>1, <1>2, Names DEF NextBox, TaskOf
  <2> QED
    BY <1>1, <2>1
<1>7. box'[b] = new /\ DOMAIN box' = DOMAIN box
  BY <1>2, <1>6
<1> HIDE DEF new
<1>8. Types'
  <2>1. remain' \in [Hosts -> [Cores -> Int]] /\ lock' \in Requests \cup {Nobody}
        /\ req' \in [Requests -> RequestType]
    BY <1>1 DEF Types
  <2>2. /\ DOMAIN box' \in SUBSET BoxIds /\ IsFiniteSet(DOMAIN box')
        /\ box \in [DOMAIN box -> BoxType]
    BY <1>1, <1>7 DEF Types
  <2>3. box' \in [DOMAIN box' -> BoxType]
    BY <1>5, <1>6, <1>7, <2>2
  <2> QED
    BY <1>3, <1>4, <2>1, <2>2, <2>3 DEF Types
<1>9. JobShape(t)' /\ Stage(t)'
  BY <1>1, <1>2, <1>3, <1>5, <1>7 DEF JobShape, Stage
<1>10. TaskShape(t)'
  <2>1. Message(t)' = Message(t) /\ NextBox(t)' = NextBox(t)
    BY <1>1, <1>3 DEF Message, NextBox
  <2> QED
    BY <1>1, <1>2, <1>3, <2>1 DEF TaskShape
<1>11. BoxShape(b)'
  <2>1. BoxShape(b)
    BY <1>2 DEF IInv
  <2> QED
    BY <1>3, <1>5, <1>6, <1>7, <2>1 DEF BoxShape, HasTask
<1>12. Working(t) /\ job'[t].next >= job[t].next
  BY <1>1, <1>3 DEF Working, JobEnded, Types, JobType
<1> QED
  BY <1>1, <1>2, <1>3, <1>5, <1>6, <1>8, <1>9, <1>10, <1>11, <1>12, FlagKeeps

LEMMA SaveSteps ==
  ASSUME IInv, NEW t \in TaskIds, SaveCores(t)
  PROVE  IInv'
<1>0. PICK b : b = job[t].box
  OBVIOUS
<1> USE <1>0
<1> DEFINE new == [box[b] EXCEPT !.key = TRUE]
<1>1. /\ t \in Jobs /\ t \notin Removers /\ Types /\ TaskShape(t) /\ JobShape(t) /\ Stage(t)
      /\ job[t].pc = "save" /\ job' = [job EXCEPT ![t].pc = "network"]
      /\ box' = [box EXCEPT ![b].key = TRUE] /\ "network" \in JobStates
      /\ UNCHANGED <<remain, count, lock, req>>
  BY Names DEF SaveCores, IInv, JobStates
<1>2. /\ b # NoBox /\ b = NextBox(t) /\ b \in DOMAIN box /\ b \in BoxIds /\ box[b] \in BoxType
      /\ box[b].docker /\ box[b].row
  BY <1>1, HeldBox DEF JobShape, TaskShape, Stage
<1>3. /\ job' \in [Jobs -> JobType] /\ \A k \in Jobs \ {t} : job'[k] = job[k]
      /\ job'[t].pc = "network" /\ job'[t].box = b /\ job'[t].next = job[t].next
  BY <1>1, JobTypes
<1>4. new \in BoxType /\ new.docker /\ new.row /\ new.key
  BY <1>2 DEF BoxType
<1>5. box' = [box EXCEPT ![b] = new]
  BY <1>1
<1>6. box'[b] = new /\ DOMAIN box' = DOMAIN box
  BY <1>2, <1>5
<1> HIDE DEF new
<1>7. Types'
  BY <1>1, <1>2, <1>3, <1>4, <1>5 DEF Types
<1>8. JobShape(t)' /\ Stage(t)'
  BY <1>1, <1>2, <1>3, <1>4, <1>6 DEF JobShape, Stage
<1>9. TaskShape(t)'
  <2>1. Message(t)' = Message(t) /\ NextBox(t)' = NextBox(t)
    BY <1>1, <1>3 DEF Message, NextBox
  <2> QED
    BY <1>1, <1>2, <1>3, <2>1 DEF TaskShape
<1>10. BoxShape(b)'
  <2>1. BoxShape(b) /\ TaskOf(b) \in Jobs
    BY <1>2, Names DEF IInv
  <2>2. job'[TaskOf(b)].next = job[TaskOf(b)].next /\ job'[TaskOf(b)].box = job[TaskOf(b)].box
    BY <1>3, <2>1
  <2>3. job'[TaskOf(b)].pc # "none"
    BY <1>3, <2>1 DEF BoxShape, HasTask
  <2> QED
    BY <1>4, <1>6, <2>1, <2>2, <2>3 DEF BoxShape, HasTask
<1>11. Working(t) /\ job'[t].next >= job[t].next
  BY <1>1, <1>3 DEF Working, JobEnded, Types, JobType
<1> QED
  BY <1>1, <1>2, <1>3, <1>4, <1>5, <1>7, <1>8, <1>9, <1>10, <1>11, FlagKeeps

LEMMA RemoveSteps ==
  ASSUME IInv, NEW j \in Jobs, RemoveFromDocker(j)
  PROVE  IInv'
<1>0. PICK b : b = job[j].box
  OBVIOUS
<1> USE <1>0
<1> DEFINE new == [box[b] EXCEPT !.docker = FALSE]
<1>1. /\ Types /\ JobShape(j) /\ Stage(j) /\ (j \in TaskIds => TaskShape(j))
      /\ job[j].pc \in {"stop", "clean"} /\ job' = [job EXCEPT ![j].pc = "read"]
      /\ box' = [box EXCEPT ![b].docker = FALSE] /\ "read" \in JobStates
      /\ UNCHANGED <<remain, count, lock, req>>
  BY Names DEF RemoveFromDocker, IInv, JobStates
<1>2. /\ b # NoBox /\ b \in DOMAIN box /\ b \in BoxIds /\ box[b] \in BoxType
  BY <1>1, HeldBox DEF JobShape
<1>3. /\ job' \in [Jobs -> JobType] /\ \A k \in Jobs \ {j} : job'[k] = job[k]
      /\ job'[j].pc = "read" /\ job'[j].box = b /\ job'[j].next = job[j].next
  BY <1>1, JobTypes
<1>4. new \in BoxType /\ ~new.docker /\ new.row = box[b].row /\ new.key = box[b].key
  BY <1>2 DEF BoxType
<1>5. box' = [box EXCEPT ![b] = new]
  BY <1>1
<1>6. box'[b] = new /\ DOMAIN box' = DOMAIN box
  BY <1>2, <1>5
<1> HIDE DEF new
<1>7. Types'
  BY <1>1, <1>2, <1>3, <1>4, <1>5 DEF Types
<1>8. JobShape(j)' /\ Stage(j)'
  BY <1>1, <1>2, <1>3, <1>4, <1>6 DEF JobShape, Stage
<1>9. j \in TaskIds => TaskShape(j)'
  <2>1. j \in TaskIds => Message(j)' = Message(j) /\ NextBox(j)' = NextBox(j)
    BY <1>1, <1>3 DEF Message, NextBox
  <2> QED
    BY <1>1, <1>2, <1>3, <2>1 DEF TaskShape
<1>10. BoxShape(b)'
  <2>1. BoxShape(b) /\ TaskOf(b) \in Jobs
    BY <1>2, Names DEF IInv
  <2>2. job'[TaskOf(b)].next = job[TaskOf(b)].next /\ job'[TaskOf(b)].box = job[TaskOf(b)].box
    BY <1>3, <2>1
  <2>3. job'[TaskOf(b)].pc # "none"
    BY <1>3, <2>1 DEF BoxShape, HasTask
  <2> QED
    BY <1>4, <1>6, <2>1, <2>2, <2>3 DEF BoxShape, HasTask
<1>11. Working(j) /\ job'[j].next >= job[j].next
  BY <1>1, <1>3 DEF Working, JobEnded, Types, JobType
<1> QED
  BY <1>1, <1>2, <1>3, <1>4, <1>5, <1>7, <1>8, <1>9, <1>10, <1>11, FlagKeeps

LEMMA DropSteps ==
  ASSUME IInv, NEW j \in Jobs, DropRecord(j)
  PROVE  IInv'
<1>0. PICK b : b = job[j].box
  OBVIOUS
<1> USE <1>0
<1> DEFINE new == [box[b] EXCEPT !.row = FALSE, !.key = FALSE]
           state == IF j \in Removers THEN "done" ELSE "create"
           idle == [pc |-> state, next |-> job[j].next + 1, box |-> NoBox, cores |-> NoCores]
           ncore == IF box[b].key THEN CountedCores(box[b].cores, NShare(b)) ELSE 0
<1>1. /\ Types /\ JobShape(j) /\ Stage(j) /\ (j \in TaskIds => TaskShape(j))
      /\ job[j].pc = "drop" /\ job' = [job EXCEPT ![j] = idle]
      /\ box' = [box EXCEPT ![b].row = FALSE, ![b].key = FALSE]
      /\ count' = [count EXCEPT ![HostOf(b)] = @ + ncore]
      /\ UNCHANGED <<remain, lock, req>>
  BY Names DEF DropRecord, IInv, Types
<1>2. /\ b # NoBox /\ b \in DOMAIN box /\ b \in BoxIds /\ box[b] \in BoxType /\ ~box[b].docker
      /\ NShare(b) \in Nat /\ box[b].cores \in AllocationType /\ HostOf(b) \in Hosts
  BY <1>1, HeldBox DEF JobShape, Stage
<1>3. state \in JobStates /\ state \in {"done", "create"} /\ (j \in TaskIds => state = "create")
      /\ (j \in Removers => state = "done")
  BY Names DEF JobStates, JobEnded
<1>4. job[j].next \in Nat \ {0}
  BY <1>1 DEF Types, JobType
<1>5. count' \in [Hosts -> Int]
  <2>1. ncore \in Int
    BY <1>2, CountedInt
  <2> HIDE DEF ncore
  <2> QED
    BY <1>1, <1>2, <2>1 DEF Types
<1> HIDE DEF state
<1>6. idle \in JobType
  BY <1>3, <1>4, DrawNone DEF JobType
<1>7. /\ job' \in [Jobs -> JobType] /\ \A k \in Jobs \ {j} : job'[k] = job[k]
      /\ job'[j].pc = state /\ job'[j].box = NoBox /\ job'[j].next = job[j].next + 1
  BY <1>1, <1>6 DEF Types
<1>8. new \in BoxType /\ new.docker = box[b].docker /\ ~new.row /\ ~new.key
  BY <1>2 DEF BoxType
<1>9. box' = [box EXCEPT ![b] = new]
  BY <1>1, <1>2 DEF Types
<1>10. box'[b] = new /\ DOMAIN box' = DOMAIN box
  BY <1>2, <1>9
<1> HIDE DEF new
<1>11. Types'
  BY <1>1, <1>2, <1>5, <1>7, <1>8, <1>9 DEF Types
<1>12. JobShape(j)' /\ Stage(j)'
  BY <1>1, <1>3, <1>7, Names DEF JobShape, Stage
<1>13. j \in TaskIds => TaskShape(j)'
  <2>1. j \in TaskIds => Message(j)' = Message(j)
    BY <1>1 DEF Message
  <2> QED
    BY <1>1, <1>3, <1>7, <2>1 DEF TaskShape
<1>14. BoxShape(b)'
  <2>1. BoxShape(b) /\ TaskOf(b) \in Jobs /\ TaskOf(b) \in TaskIds /\ b[3] \in Nat
    BY <1>2, Names DEF IInv
  <2>2. CASE TaskOf(b) = j
    <3>1. b = NextBox(j)
      BY <1>1, <1>2, <2>1, <2>2 DEF TaskShape
    <3>2. b[3] < job'[j].next
      BY <1>4, <1>7, <3>1 DEF NextBox
    <3> QED
      BY <1>2, <1>3, <1>7, <1>8, <1>10, <2>1, <2>2, <3>2 DEF BoxShape, HasTask
  <2>3. CASE TaskOf(b) # j
    <3>1. job'[TaskOf(b)] = job[TaskOf(b)]
      BY <1>7, <2>1, <2>3
    <3> QED
      BY <1>2, <1>8, <1>10, <2>1, <3>1 DEF BoxShape, HasTask
  <2> QED
    BY <2>2, <2>3
<1>15. /\ Working(j) /\ job'[j].next >= job[j].next /\ job'[j].next > job[j].next
       /\ job'[j].pc # "none"
  BY <1>1, <1>3, <1>4, <1>7 DEF Working, JobEnded
<1> QED
  BY <1>1, <1>2, <1>7, <1>8, <1>9, <1>11, <1>12, <1>13, <1>14, <1>15, FlagKeeps

LEMMA Initially == Init => IInv
<1> SUFFICES ASSUME Init PROVE IInv
  OBVIOUS
<1>1. remain \in [Hosts -> [Cores -> Int]]
  BY ShareAssumption DEF Init
<1>2. count \in [Hosts -> Int]
  <2>1. ASSUME NEW h \in Hosts PROVE Cardinality(CoresOf[h]) * CoreShare \in Int
    <3>1. CoresOf[h] \subseteq Cores
      BY DeployAssumption
    <3>2. Cardinality(CoresOf[h]) \in Nat
      BY <3>1, CoresAssumption, FS_Subset, FS_CardinalityType
    <3> QED
      BY <3>2, ShareAssumption
  <2> QED
    BY <2>1 DEF Init
<1>3. NewRequest \in RequestType /\ NewRequest.pc = "new" /\ DOMAIN NewRequest.plan = {}
  BY NewRequestType, PlanTypes DEF NewRequest
<1>4. NewJob \in JobType /\ NewJob.pc = "none" /\ NewJob.box = NoBox /\ NewJob.next = 1
  BY DrawNone DEF NewJob, JobType, JobStates
<1>5. \A q \in Requests : req[q] = NewRequest
  BY DEF Init
<1>6. \A j \in Jobs : job[j] = NewJob
  BY DEF Init
<1>7. DOMAIN box = {} /\ box \in [DOMAIN box -> BoxType] /\ IsFiniteSet(DOMAIN box)
  BY FS_EmptySet DEF Init
<1>8. Types
  BY <1>1, <1>2, <1>3, <1>4, <1>7 DEF Types, Init
<1>9. LockHeld
  BY <1>3, <1>5, DeployAssumption DEF LockHeld, Scheduling, Init
<1>10. \A q \in Requests : RequestShape(q)
  BY <1>3, <1>4, <1>5, <1>6 DEF RequestShape, HasTask, Jobs, TaskIds
<1>11. \A t \in TaskIds : TaskShape(t)
  BY <1>4, <1>6, Names DEF TaskShape
<1>12. \A j \in Jobs : JobShape(j) /\ Stage(j)
  BY <1>4, <1>6 DEF JobShape, Stage
<1>13. OneHolder
  BY <1>4, <1>6 DEF OneHolder
<1> QED
  BY <1>7, <1>8, <1>9, <1>10, <1>11, <1>12, <1>13 DEF IInv

LEMMA UnchangedKeeps ==
  ASSUME IInv, UNCHANGED vars
  PROVE  IInv'
<1>1. Types' /\ LockHeld'
  BY DEF IInv, vars, Types, LockHeld, Scheduling
<1>2. \A q \in Requests : RequestShape(q)'
  BY DEF IInv, vars, RequestShape, HasTask
<1>3. ASSUME NEW t \in TaskIds PROVE TaskShape(t)'
  BY TaskShapeKept DEF IInv, vars
<1>4. \A j \in Jobs : JobShape(j)' /\ Stage(j)'
  BY DEF IInv, vars, JobShape, Stage
<1>5. \A b \in DOMAIN box' : BoxShape(b)'
  BY DEF IInv, vars, BoxShape, HasTask
<1>6. OneHolder'
  BY DEF IInv, vars, OneHolder, Working
<1> QED
  BY <1>1, <1>2, <1>3, <1>4, <1>5, <1>6 DEF IInv

LEMMA NextKeeps == IInv /\ [Next]_vars => IInv'
<1> SUFFICES ASSUME IInv, [Next]_vars PROVE IInv'
  OBVIOUS
<1>1. ASSUME NEW q \in Requests, Submit(q) \/ Schedule(q) PROVE IInv'
  <2>1. SchedulingStep(q) \/ UNCHANGED vars
    BY <1>1, SchedulingSteps DEF IInv
  <2> QED
    BY <2>1, SchedulingKeeps, UnchangedKeeps
<1>2. ASSUME NEW q \in Requests, Answer(q) PROVE IInv'
  BY <1>2, AnswerSteps
<1>3. ASSUME NEW t \in TaskIds, Create(t) PROVE IInv'
  BY <1>3, StartSteps, CreateSteps, GiveBackSteps, RecordSteps, SaveSteps, AddressSteps,
     NoAddressSteps, FinishSteps DEF Create
<1>4. ASSUME NEW j \in Jobs, Removal(j) PROVE IInv'
  BY <1>4, RemoveSteps, RefusalSteps, ReadSteps, ReleaseSteps, DropSteps DEF Removal, Delete
<1>5. ASSUME NEW j \in Jobs, Crash(j) PROVE IInv'
  BY <1>5, CrashSteps
<1>6. ASSUME NEW r \in Removers, NEW b \in DOMAIN box, BeginRemoval(r, b) PROVE IInv'
  BY <1>6, BeginSteps
<1>7. ASSUME (\E j \in Jobs : StopAgain(j)) \/ AllDone \/ UNCHANGED vars PROVE IInv'
  BY <1>7, UnchangedKeeps DEF StopAgain, AllDone
<1> QED
  BY <1>1, <1>2, <1>3, <1>4, <1>5, <1>6, <1>7 DEF Next, Handler

LEMMA IInvTypes == IInv => TypeOK
<1> SUFFICES ASSUME IInv PROVE TypeOK
  OBVIOUS
<1>1. Types /\ LockHeld
  BY DEF IInv
<1>2. ASSUME NEW q \in Requests
      PROVE  /\ req[q].pc \in RequestStates
             /\ req[q].ask \in Asks \cup {NoAsk}
             /\ req[q].todo \subseteq Hosts
             /\ req[q].at \in Hosts \cup {AnyHost}
             /\ \A h \in DOMAIN req[q].plan : h \in Hosts /\ req[q].plan[h].cores \in AllocationType
  <2>1. req[q] \in RequestType
    BY <1>1 DEF Types
  <2>2. req[q].plan \in Plans
    BY <2>1 DEF RequestType
  <2>3. \A h \in DOMAIN req[q].plan : h \in Hosts /\ req[q].plan[h].cores \in AllocationType
    BY <2>2, PlanTypes
  <2> QED
    BY <2>1, <2>3 DEF RequestType
<1>3. \A j \in Jobs : /\ job[j].pc \in JobStates
                      /\ job[j].box \in DOMAIN box \cup {NoBox}
                      /\ job[j].cores \in AllocationType
  BY <1>1 DEF IInv, JobShape, Types, JobType
<1>4. \A b \in DOMAIN box :
         /\ b \in Requests \X Hosts \X (Nat \ {0})
         /\ box[b] \in [docker : BOOLEAN, row : BOOLEAN, key : BOOLEAN, cores : AllocationType]
  BY <1>1 DEF Types, BoxIds, BoxType
<1>5. /\ remain \in [Hosts -> [Cores -> Int]] /\ count \in [Hosts -> Int]
      /\ lock \in Requests \cup {Nobody}
      /\ \A q \in Requests : lock = q <=> Scheduling(q)
  BY <1>1 DEF Types, LockHeld
<1> QED
  BY <1>2, <1>3, <1>4, <1>5 DEF TypeOK

\* The structure of the state, in every behaviour: the plans of requests, the
\* places of jobs, and which containers a task has (create_private,
\* create_containers, Container.create and delete).
THEOREM Structure == Spec => []IInv
<1> QED
  BY Initially, NextKeeps, PTL DEF Spec

\* The variables always have their types, and the scheduler's lock is held by
\* the request that is scheduling and by no other.
THEOREM TypeCorrect == Spec => []TypeOK
<1> QED
  BY Structure, IInvTypes, PTL

-----------------------------------------------------------------------------
(* Every fragment is somewhere.                                            *)

LEMMA Finite == IsFiniteSet(Requests) /\ IsFiniteSet(Hosts) /\ IsFiniteSet(TaskIds)
<1>1. IsFiniteSet(Requests) /\ IsFiniteSet(Hosts)
  BY DeployAssumption
<1> QED
  BY <1>1, FS_Product DEF TaskIds

LEMMA ClaimNat ==
  ASSUME IInv, NEW q \in Requests, NEW h \in Hosts, NEW c \in Cores
  PROVE  Claim(q, h, c) \in Nat
<1>1. CASE req[q].pc = "occupy" /\ req[q].at = h
  <2>1. RequestShape(q) /\ req[q] \in RequestType /\ Types
    BY DEF IInv, Types
  <2>2. h \in DOMAIN req[q].plan /\ req[q].plan \in Plans
    BY <1>1, <2>1 DEF RequestShape, RequestType
  <2>3. req[q].plan[h].cores \in AllocationType /\ req[q].ask.nshare \in Nat
    BY <2>1, <2>2, PlanTypes, NShareTypes
  <2> QED
    BY <1>1, <2>3, DrawNat DEF Claim
<1>2. CASE ~(req[q].pc = "occupy" /\ req[q].at = h)
  BY <1>2 DEF Claim
<1> QED
  BY <1>1, <1>2

LEMMA OwedNat ==
  ASSUME IInv, NEW t \in TaskIds, NEW h \in Hosts, NEW c \in Cores
  PROVE  Owed(t, h, c) \in Nat
<1>1. CASE HasTask(t)
  <2>1. Message(t).cores \in AllocationType /\ req[t[1]].ask.nshare \in Nat
    BY <1>1, MessageTypes
  <2>2. Draw(Message(t).cores, req[t[1]].ask.nshare, c) \in Nat
    BY <2>1, DrawNat
  <2>3. LeftOver(Message(t).cores, Message(t).count, Taken(t), req[t[1]].ask.nshare, c) \in Nat
    BY <2>1, LeftOverNat
  <2> QED
    BY <2>2, <2>3 DEF Owed
<1>2. CASE ~HasTask(t)
  BY <1>2 DEF Owed
<1> QED
  BY <1>1, <1>2

LEMMA ChargeNat ==
  ASSUME IInv, NEW b \in DOMAIN box, NEW h \in Hosts, NEW c \in Cores
  PROVE  Charge(b, h, c) \in Nat /\ Draw(box[b].cores, NShare(b), c) \in Nat
<1>1. Types /\ b \in BoxIds /\ box[b] \in BoxType
  BY DEF IInv, Types
<1>2. box[b].cores \in AllocationType /\ NShare(b) \in Nat
  BY <1>1, NShareTypes DEF BoxType
<1>3. Draw(box[b].cores, NShare(b), c) \in Nat
  BY <1>2, DrawNat
<1> QED
  BY <1>3 DEF Charge

LEMMA SlackInt ==
  ASSUME IInv, NEW h \in Hosts, NEW c \in Cores
  PROVE  /\ Claims(h, c) \in Int /\ Debts(h, c) \in Int /\ Charges(h, c) \in Int
         /\ Cap(h, c) \in Int /\ remain[h][c] \in Int /\ Slack(h, c) \in Int
<1>1. Claims(h, c) \in Int
  BY Finite, ClaimNat, SumInt DEF Claims, Ints
<1>2. Debts(h, c) \in Int
  BY Finite, OwedNat, SumInt DEF Debts, Ints
<1>3. IsFiniteSet(DOMAIN box)
  BY DEF IInv, Types
<1>4. Charges(h, c) \in Int
  BY <1>3, ChargeNat, SumInt DEF Charges, Ints
<1>5. Cap(h, c) \in Int /\ remain[h][c] \in Int
  BY ShareAssumption DEF Cap, IInv, Types
<1> QED
  BY <1>1, <1>2, <1>4, <1>5 DEF Slack

\* All terms of the sums are natural numbers, and the sums are finite.
Terms ==
    /\ IsFiniteSet(DOMAIN box)
    /\ \A h \in Hosts, c \in Cores :
          /\ remain[h][c] \in Int
          /\ \A q \in Requests : Claim(q, h, c) \in Nat
          /\ \A t \in TaskIds : Owed(t, h, c) \in Nat
          /\ \A b \in DOMAIN box : Charge(b, h, c) \in Nat
          /\ Claims(h, c) \in Int /\ Debts(h, c) \in Int /\ Charges(h, c) \in Int
          /\ Cap(h, c) \in Int

LEMMA TermsTyped == IInv => Terms
<1> SUFFICES ASSUME IInv PROVE Terms
  OBVIOUS
<1>1. IsFiniteSet(DOMAIN box)
  BY DEF IInv, Types
<1> QED
  BY <1>1, ClaimNat, OwedNat, ChargeNat, SlackInt DEF Terms

LEMMA NextTerms == IInv' => Terms'
<1> QED
  BY TermsTyped, PTL

\* How the sums change with one of their terms.
LEMMA ClaimsChange ==
  ASSUME Terms, Terms', NEW h \in Hosts, NEW c \in Cores, NEW q \in Requests,
         \A p \in Requests \ {q} : Claim(p, h, c)' = Claim(p, h, c)
  PROVE  Claims(h, c)' = Claims(h, c) - Claim(q, h, c) + Claim(q, h, c)'
<1> DEFINE f == [p \in Requests |-> Claim(p, h, c)]
           g == [p \in Requests |-> Claim(p, h, c)']
<1>1. Ints(f, Requests) /\ Ints(g, Requests)
  BY DEF Terms, Ints
<1>2. \A p \in Requests \ {q} : g[p] = f[p]
  OBVIOUS
<1>3. f[q] = Claim(q, h, c) /\ g[q] = Claim(q, h, c)'
  OBVIOUS
<1>4. Claims(h, c) = SumOver(f, Requests) /\ Claims(h, c)' = SumOver(g, Requests)
  BY DEF Claims
<1> HIDE DEF f, g
<1>5. SumOver(g, Requests) = SumOver(f, Requests) - f[q] + g[q]
  BY <1>1, <1>2, Finite, SumChange
<1> QED
  BY <1>3, <1>4, <1>5

LEMMA ClaimsSame ==
  ASSUME Terms, NEW h \in Hosts, NEW c \in Cores,
         \A p \in Requests : Claim(p, h, c)' = Claim(p, h, c)
  PROVE  Claims(h, c)' = Claims(h, c)
<1> DEFINE f == [p \in Requests |-> Claim(p, h, c)]
           g == [p \in Requests |-> Claim(p, h, c)']
<1>1. f = g
  OBVIOUS
<1>2. Claims(h, c) = SumOver(f, Requests) /\ Claims(h, c)' = SumOver(g, Requests)
  BY DEF Claims
<1> HIDE DEF f, g
<1> QED
  BY <1>1, <1>2

LEMMA DebtsChange ==
  ASSUME Terms, Terms', NEW h \in Hosts, NEW c \in Cores, NEW t \in TaskIds,
         \A u \in TaskIds \ {t} : Owed(u, h, c)' = Owed(u, h, c)
  PROVE  Debts(h, c)' = Debts(h, c) - Owed(t, h, c) + Owed(t, h, c)'
<1> DEFINE f == [u \in TaskIds |-> Owed(u, h, c)]
           g == [u \in TaskIds |-> Owed(u, h, c)']
<1>1. Ints(f, TaskIds) /\ Ints(g, TaskIds)
  BY DEF Terms, Ints
<1>2. \A u \in TaskIds \ {t} : g[u] = f[u]
  OBVIOUS
<1>3. f[t] = Owed(t, h, c) /\ g[t] = Owed(t, h, c)'
  OBVIOUS
<1>4. Debts(h, c) = SumOver(f, TaskIds) /\ Debts(h, c)' = SumOver(g, TaskIds)
  BY DEF Debts
<1> HIDE DEF f, g
<1>5. SumOver(g, TaskIds) = SumOver(f, TaskIds) - f[t] + g[t]
  BY <1>1, <1>2, Finite, SumChange
<1> QED
  BY <1>3, <1>4, <1>5

LEMMA DebtsSame ==
  ASSUME Terms, NEW h \in Hosts, NEW c \in Cores,
         \A u \in TaskIds : Owed(u, h, c)' = Owed(u, h, c)
  PROVE  Debts(h, c)' = Debts(h, c)
<1> DEFINE f == [u \in TaskIds |-> Owed(u, h, c)]
           g == [u \in TaskIds |-> Owed(u, h, c)']
<1>1. f = g
  OBVIOUS
<1>2. Debts(h, c) = SumOver(f, TaskIds) /\ Debts(h, c)' = SumOver(g, TaskIds)
  BY DEF Debts
<1> HIDE DEF f, g
<1> QED
  BY <1>1, <1>2

LEMMA ChargesChange ==
  ASSUME Terms, Terms', NEW h \in Hosts, NEW c \in Cores, NEW b \in DOMAIN box,
         DOMAIN box' = DOMAIN box,
         \A a \in DOMAIN box \ {b} : Charge(a, h, c)' = Charge(a, h, c)
  PROVE  Charges(h, c)' = Charges(h, c) - Charge(b, h, c) + Charge(b, h, c)'
<1> DEFINE D == DOMAIN box
           f == [a \in D |-> Charge(a, h, c)]
           g == [a \in D |-> Charge(a, h, c)']
<1>1. Ints(f, D) /\ Ints(g, D) /\ IsFiniteSet(D)
  BY DEF Terms, Ints
<1>2. \A a \in D \ {b} : g[a] = f[a]
  OBVIOUS
<1>3. f[b] = Charge(b, h, c) /\ g[b] = Charge(b, h, c)'
  OBVIOUS
<1>4. Charges(h, c) = SumOver(f, D) /\ Charges(h, c)' = SumOver(g, D)
  BY DEF Charges
<1> HIDE DEF f, g, D
<1>5. b \in D
  BY DEF D
<1>6. SumOver(g, D) = SumOver(f, D) - f[b] + g[b]
  BY <1>1, <1>2, <1>5, SumChange
<1> QED
  BY <1>3, <1>4, <1>6

LEMMA ChargesSame ==
  ASSUME Terms, NEW h \in Hosts, NEW c \in Cores, DOMAIN box' = DOMAIN box,
         \A a \in DOMAIN box : Charge(a, h, c)' = Charge(a, h, c)
  PROVE  Charges(h, c)' = Charges(h, c)
<1> DEFINE D == DOMAIN box
           f == [a \in D |-> Charge(a, h, c)]
           g == [a \in D |-> Charge(a, h, c)']
<1>1. f = g
  OBVIOUS
<1>2. Charges(h, c) = SumOver(f, D) /\ Charges(h, c)' = SumOver(g, D)
  BY DEF Charges
<1> HIDE DEF f, g, D
<1> QED
  BY <1>1, <1>2

LEMMA ChargesGrow ==
  ASSUME Terms, Terms', NEW h \in Hosts, NEW c \in Cores, NEW b, b \notin DOMAIN box,
         DOMAIN box' = DOMAIN box \cup {b},
         \A a \in DOMAIN box : Charge(a, h, c)' = Charge(a, h, c)
  PROVE  Charges(h, c)' = Charges(h, c) + Charge(b, h, c)'
<1> DEFINE D == DOMAIN box
           E == D \cup {b}
           f == [a \in D |-> Charge(a, h, c)]
           g == [a \in E |-> Charge(a, h, c)']
<1>1. Ints(f, D) /\ Ints(g, E) /\ IsFiniteSet(D)
  BY DEF Terms, Ints
<1>2. \A a \in D : g[a] = f[a]
  OBVIOUS
<1>3. g[b] = Charge(b, h, c)' /\ Charge(b, h, c)' \in Int
  BY DEF Terms
<1>4. Charges(h, c) = SumOver(f, D) /\ Charges(h, c)' = SumOver(g, E)
  BY DEF Charges
<1>5. b \notin D /\ E = D \cup {b}
  OBVIOUS
<1> HIDE DEF f, g, D, E
<1>6. SumOver(g, E) = g[b] + SumOver(g, D)
  BY <1>1, <1>5, SumInsert
<1>7. SumOver(g, D) = SumOver(f, D) /\ SumOver(f, D) \in Int
  BY <1>1, <1>2, SumSame, SumInt
<1> QED
  BY <1>3, <1>4, <1>6, <1>7

\* What a step leaves where it is.
ClaimsStay == \A q \in Requests, h \in Hosts, c \in Cores : Claim(q, h, c)' = Claim(q, h, c)
OwedStays(S) == \A t \in S, h \in Hosts, c \in Cores : Owed(t, h, c)' = Owed(t, h, c)
ChargesStay(S) == \A b \in S, h \in Hosts, c \in Cores : Charge(b, h, c)' = Charge(b, h, c)
NothingMoves ==
    /\ UNCHANGED remain /\ DOMAIN box' = DOMAIN box
    /\ ClaimsStay /\ OwedStays(TaskIds) /\ ChargesStay(DOMAIN box)

\* Nothing is lost or gained.
SlackStays == \A h \in Hosts, c \in Cores : Slack(h, c)' = Slack(h, c)

LEMMA OwedKept ==
  ASSUME NEW t \in TaskIds, NEW h \in Hosts, NEW c \in Cores, HasTask(t)' <=> HasTask(t),
         HasTask(t) => /\ Taken(t)' = Taken(t) /\ Message(t)' = Message(t)
                       /\ req'[t[1]].ask = req[t[1]].ask
  PROVE  Owed(t, h, c)' = Owed(t, h, c)
<1>1. CASE ~HasTask(t)
  BY <1>1 DEF Owed
<1>2. CASE HasTask(t)
  BY <1>2 DEF Owed
<1> QED
  BY <1>1, <1>2

LEMMA ChargeKept ==
  ASSUME NEW b \in DOMAIN box, NEW h \in Hosts, NEW c \in Cores,
         req'[b[1]].ask = req[b[1]].ask, Charged(b)' <=> Charged(b), box'[b].cores = box[b].cores
  PROVE  Charge(b, h, c)' = Charge(b, h, c)
<1>1. NShare(b)' = NShare(b)
  BY DEF NShare
<1>2. CASE Charged(b)
  BY <1>1, <1>2 DEF Charge
<1>3. CASE ~Charged(b)
  BY <1>1, <1>3 DEF Charge
<1> QED
  BY <1>2, <1>3

LEMMA ClaimKept ==
  ASSUME NEW q \in Requests, NEW h \in Hosts, NEW c \in Cores,
         \/ req'[q] = req[q]
         \/ req[q].pc # "occupy" /\ req'[q].pc # "occupy"
  PROVE  Claim(q, h, c)' = Claim(q, h, c)
<1>1. CASE req'[q] = req[q]
  BY <1>1 DEF Claim
<1>2. CASE req[q].pc # "occupy" /\ req'[q].pc # "occupy"
  BY <1>2 DEF Claim
<1> QED
  BY <1>1, <1>2

LEMMA UnmovedSlack ==
  ASSUME IInv, IInv', NothingMoves
  PROVE  SlackStays
<1> SUFFICES ASSUME NEW h \in Hosts, NEW c \in Cores PROVE Slack(h, c)' = Slack(h, c)
  BY DEF SlackStays
<1>1. Terms /\ Terms'
  BY TermsTyped, NextTerms
<1>2. Claims(h, c)' = Claims(h, c) /\ Debts(h, c)' = Debts(h, c) /\ Charges(h, c)' = Charges(h, c)
  BY <1>1, ClaimsSame, DebtsSame, ChargesSame DEF NothingMoves, ClaimsStay, OwedStays, ChargesStay
<1> QED
  BY <1>2 DEF NothingMoves, Slack, Cap

LEMMA StutterMoves == UNCHANGED vars => NothingMoves
<1> QED
  BY DEF vars, NothingMoves, ClaimsStay, OwedStays, ChargesStay, Claim, Owed, HasTask, Taken, Message,
         Charge, Charged, Dropped, NShare

LEMMA SchedulingMoves ==
  ASSUME IInv, NEW q \in Requests, SchedulingStep(q)
  PROVE  NothingMoves
<1>1. PICK r \in RequestType : BecomesEarly(q, r)
  BY DEF SchedulingStep
<1>2. UNCHANGED <<remain, count, job, box>> /\ Early(q)
  BY DEF SchedulingStep
<1>3. req' = [req EXCEPT ![q] = r] /\ req'[q] = r /\ \A p \in Requests \ {q} : req'[p] = req[p]
  BY <1>1 DEF BecomesEarly, IInv, Types
<1>4. \A t \in TaskIds : t[1] = q => ~HasTask(t)
  BY <1>2, Names DEF RequestShape, Early, Scheduling, IInv
<1>5. ASSUME NEW p \in Requests, NEW h \in Hosts, NEW c \in Cores
      PROVE  Claim(p, h, c)' = Claim(p, h, c)
  <2>1. req[q].pc # "occupy" /\ req'[q].pc # "occupy"
    BY <1>1, <1>2, <1>3 DEF Early, Scheduling, BecomesEarly
  <2> QED
    BY <1>3, <2>1, ClaimKept
<1>6. ASSUME NEW t \in TaskIds, NEW h \in Hosts, NEW c \in Cores
      PROVE  Owed(t, h, c)' = Owed(t, h, c)
  <2>1. HasTask(t) => req'[t[1]] = req[t[1]]
    BY <1>3, <1>4, Names
  <2>2. (HasTask(t)' <=> HasTask(t)) /\ Taken(t)' = Taken(t)
    BY <1>2 DEF HasTask, Taken
  <2>3. HasTask(t) => Message(t)' = Message(t)
    BY <2>1 DEF Message
  <2> QED
    BY <2>1, <2>2, <2>3, OwedKept
<1>7. ASSUME NEW b \in DOMAIN box, NEW h \in Hosts, NEW c \in Cores
      PROVE  Charge(b, h, c)' = Charge(b, h, c)
  <2>1. b \in BoxIds /\ HasTask(TaskOf(b))
    BY DEF IInv, Types, BoxShape
  <2>2. req'[b[1]].ask = req[b[1]].ask
    BY <1>3, <1>4, <2>1, Names
  <2>3. (Charged(b)' <=> Charged(b)) /\ box'[b].cores = box[b].cores
    BY <1>2 DEF Charged, Dropped
  <2> QED
    BY <2>2, <2>3, ChargeKept
<1> QED
  BY <1>2, <1>5, <1>6, <1>7 DEF NothingMoves, ClaimsStay, OwedStays, ChargesStay

\* A step of a worker that moves no fragments.
LEMMA WorkerMoves ==
  ASSUME IInv, NEW j \in Jobs, UNCHANGED <<remain, req>>,
         \A k \in Jobs \ {j} : job'[k] = job[k],
         j \in TaskIds => (HasTask(j)' <=> HasTask(j)) /\ Taken(j)' = Taken(j),
         DOMAIN box' = DOMAIN box,
         \A b \in DOMAIN box : (Charged(b)' <=> Charged(b)) /\ box'[b].cores = box[b].cores
  PROVE  NothingMoves
<1>1. ASSUME NEW p \in Requests, NEW h \in Hosts, NEW c \in Cores
      PROVE  Claim(p, h, c)' = Claim(p, h, c)
  BY ClaimKept
<1>2. ASSUME NEW t \in TaskIds, NEW h \in Hosts, NEW c \in Cores
      PROVE  Owed(t, h, c)' = Owed(t, h, c)
  <2>1. (HasTask(t)' <=> HasTask(t)) /\ Taken(t)' = Taken(t)
    <3>1. CASE t = j
      BY <3>1
    <3>2. CASE t # j
      BY <3>2, Names DEF HasTask, Taken
    <3> QED
      BY <3>1, <3>2
  <2>2. Message(t)' = Message(t)
    BY DEF Message
  <2> QED
    BY <2>1, <2>2, OwedKept
<1>3. ASSUME NEW b \in DOMAIN box, NEW h \in Hosts, NEW c \in Cores
      PROVE  Charge(b, h, c)' = Charge(b, h, c)
  BY ChargeKept
<1> QED
  BY <1>1, <1>2, <1>3 DEF NothingMoves, ClaimsStay, OwedStays, ChargesStay

\* The same when no container changes and none is released.
LEMMA IdleMoves ==
  ASSUME IInv, NEW j \in Jobs, UNCHANGED <<remain, req, box>>,
         \A k \in Jobs \ {j} : job'[k] = job[k], job[j].pc # "drop", job'[j].pc # "drop",
         j \in TaskIds => (HasTask(j)' <=> HasTask(j)) /\ Taken(j)' = Taken(j)
  PROVE  NothingMoves
<1>1. \A k \in Jobs : (job'[k].pc = "drop" <=> job[k].pc = "drop")
                      /\ (job[k].pc = "drop" => job'[k] = job[k])
  OBVIOUS
<1>2. ASSUME NEW b \in DOMAIN box PROVE (Charged(b)' <=> Charged(b)) /\ box'[b].cores = box[b].cores
  <2>1. Dropped(b)' <=> Dropped(b)
    BY <1>1 DEF Dropped
  <2> QED
    BY <2>1 DEF Charged
<1> QED
  BY <1>2, WorkerMoves

LEMMA QuietMoves ==
  ASSUME IInv, NEW j \in Jobs,
         \/ j \in TaskIds /\ (StartTask(j) \/ FinishTask(j) \/ AllocateIPsFails(j) \/ AllocateIPs(j))
         \/ RemoveFromDockerFails(j) \/ ReadCores(j) \/ Crash(j)
  PROVE  NothingMoves
<1>1. job \in [Jobs -> JobType] /\ job[j] \in JobType
  BY DEF IInv, Types
<1>2. UNCHANGED <<remain, req, box>>
  BY DEF StartTask, FinishTask, AllocateIPsFails, AllocateIPs, RemoveFromDockerFails, ReadCores, Crash
<1>3. CASE /\ j \in TaskIds
           /\ StartTask(j) \/ FinishTask(j) \/ AllocateIPsFails(j)
  <2>1. /\ \A k \in Jobs \ {j} : job'[k] = job[k]
        /\ job[j].pc \in {"queued", "create", "network"}
        /\ job'[j].pc \in {"create", "raised", "done", "unfinished", "clean"}
        /\ job'[j].box = job[j].box /\ job'[j].next = job[j].next
    BY <1>1, <1>3 DEF StartTask, FinishTask, AllocateIPsFails, JobType
  <2> QED
    BY <1>2, <2>1, IdleMoves DEF HasTask, Taken
<1>4. CASE j \in TaskIds /\ AllocateIPs(j)
  <2>1. /\ \A k \in Jobs \ {j} : job'[k] = job[k]
        /\ job[j].pc = "network" /\ job'[j].pc = "create"
        /\ job'[j].box = NoBox /\ job'[j].next = job[j].next + 1 /\ job[j].next \in Nat
    BY <1>1, <1>4 DEF AllocateIPs, JobType
  <2>2. job[j].box # NoBox
    BY <2>1 DEF IInv, JobShape
  <2>3. Taken(j)' = Taken(j)
    BY <2>1, <2>2 DEF Taken
  <2> QED
    BY <1>2, <2>1, <2>3, IdleMoves DEF HasTask
<1>5. CASE RemoveFromDockerFails(j) \/ ReadCores(j)
  <2>1. /\ \A k \in Jobs \ {j} : job'[k] = job[k]
        /\ job[j].pc \in {"stop", "clean", "read"}
        /\ job'[j].pc \in {"failed", "raised", "release"}
        /\ job'[j].box = job[j].box /\ job'[j].next = job[j].next
    BY <1>1, <1>5 DEF RemoveFromDockerFails, ReadCores, JobType
  <2> QED
    BY <1>2, <2>1, IdleMoves DEF HasTask, Taken
<1>6. CASE Crash(j)
  <2>1. /\ \A k \in Jobs \ {j} : job'[k] = job[k]
        /\ job[j].pc # "drop" /\ job[j].pc # "none"
        /\ job'[j].pc = "crashed"
        /\ job'[j].box = job[j].box /\ job'[j].next = job[j].next
    BY <1>1, <1>6 DEF Crash, JobType, Working
  <2> QED
    BY <1>2, <2>1, IdleMoves DEF HasTask, Taken
<1> QED
  BY <1>3, <1>4, <1>5, <1>6

LEMMA BeginMoves ==
  ASSUME IInv, NEW r \in Removers, NEW b \in DOMAIN box, BeginRemoval(r, b)
  PROVE  NothingMoves
<1>1. /\ r \in Jobs /\ r \notin TaskIds /\ job[r].pc = "none" /\ job'[r].pc = "stop"
      /\ \A k \in Jobs \ {r} : job'[k] = job[k]
      /\ UNCHANGED <<remain, req, box>>
  BY DeployAssumption DEF BeginRemoval, IInv, Types, JobType, Jobs
<1> QED
  BY <1>1, IdleMoves

\* Tasks and containers do not notice a step of a handler.
LEMMA HandlerMoves ==
  ASSUME IInv, NEW q \in Requests, UNCHANGED <<job, box>>,
         \A p \in Requests \ {q} : req'[p] = req[p],
         req'[q].plan = req[q].plan, req'[q].ask = req[q].ask
  PROVE  OwedStays(TaskIds) /\ ChargesStay(DOMAIN box)
<1>1. ASSUME NEW t \in TaskIds, NEW h \in Hosts, NEW c \in Cores
      PROVE  Owed(t, h, c)' = Owed(t, h, c)
  <2>1. req'[t[1]].plan = req[t[1]].plan /\ req'[t[1]].ask = req[t[1]].ask
    BY Names
  <2>2. (HasTask(t)' <=> HasTask(t)) /\ Taken(t)' = Taken(t) /\ Message(t)' = Message(t)
    BY <2>1 DEF HasTask, Taken, Message
  <2> QED
    BY <2>1, <2>2, OwedKept
<1>2. ASSUME NEW b \in DOMAIN box, NEW h \in Hosts, NEW c \in Cores
      PROVE  Charge(b, h, c)' = Charge(b, h, c)
  <2>1. b \in BoxIds
    BY DEF IInv, Types
  <2>2. req'[b[1]].ask = req[b[1]].ask
    BY <2>1, Names
  <2>3. (Charged(b)' <=> Charged(b)) /\ box'[b].cores = box[b].cores
    BY DEF Charged, Dropped
  <2> QED
    BY <2>2, <2>3, ChargeKept
<1> QED
  BY <1>1, <1>2 DEF OwedStays, ChargesStay

\* A host is skipped, or the handler ends.
LEMMA FailMoves ==
  ASSUME IInv, NEW q \in Requests, NEW g \in Hosts, CreateTaskFails(q, g) \/ EnqueueFails(q, g)
  PROVE  NothingMoves
<1>1. req \in [Requests -> RequestType] /\ req[q] \in RequestType
  BY DEF IInv, Types
<1>2. /\ req[q].pc = "enqueue" /\ req'[q].pc # "occupy" /\ UNCHANGED <<remain, job, box>>
      /\ \A p \in Requests \ {q} : req'[p] = req[p]
      /\ req'[q].plan = req[q].plan /\ req'[q].ask = req[q].ask
  <2>1. CASE CreateTaskFails(q, g)
    <3> DEFINE state == IF req[q].todo = {g} THEN "done" ELSE "enqueue"
    <3>1. /\ req[q].pc = "enqueue" /\ UNCHANGED <<remain, job, box>>
          /\ req' = [req EXCEPT ![q].todo = req[q].todo \ {g}, ![q].at = AnyHost, ![q].pc = state]
      BY <1>1, <2>1 DEF CreateTaskFails, NextHost
    <3>2. state # "occupy"
      OBVIOUS
    <3> HIDE DEF state
    <3> QED
      BY <1>1, <3>1, <3>2 DEF RequestType
  <2>2. CASE EnqueueFails(q, g)
    BY <1>1, <2>2 DEF EnqueueFails, RequestType
  <2> QED
    BY <2>1, <2>2
<1>3. ClaimsStay
  BY <1>2, ClaimKept DEF ClaimsStay
<1>4. OwedStays(TaskIds) /\ ChargesStay(DOMAIN box)
  BY <1>2, HandlerMoves
<1> QED
  BY <1>2, <1>3, <1>4 DEF NothingMoves

\* What was claimed leaves the ledger.
LEMMA OccupyMoves ==
  ASSUME IInv, IInv', NEW q \in Requests, OccupyCores(q)
  PROVE  /\ UNCHANGED <<job, box>> /\ OwedStays(TaskIds) /\ ChargesStay(DOMAIN box)
         /\ \A h \in Hosts, c \in Cores :
               Claims(h, c)' - remain'[h][c] = Claims(h, c) - remain[h][c]
<1>1. Terms /\ Terms'
  BY TermsTyped, NextTerms
<1>2. req \in [Requests -> RequestType] /\ req[q] \in RequestType
  BY DEF IInv, Types
<1> DEFINE g == req[q].at
           state == IF req[q].todo = {g} THEN "done" ELSE "enqueue"
           d(c) == Draw(req[q].plan[g].cores, req[q].ask.nshare, c)
<1>3. /\ req[q].pc = "occupy" /\ g \in Hosts /\ req' = NextHost(q, g)
      /\ req[q].plan[g].cores \in AllocationType /\ req[q].ask.nshare \in Nat
      /\ UNCHANGED <<lock, job, box>>
      /\ \A h \in Hosts, c \in Cores :
            remain'[h][c] = IF h = g THEN remain[h][c] - d(c) ELSE remain[h][c]
  BY OccupyTypes
<1>4. req' = [req EXCEPT ![q].todo = req[q].todo \ {g}, ![q].at = AnyHost, ![q].pc = state]
  BY <1>2, <1>3 DEF NextHost
<1>5. state # "occupy"
  OBVIOUS
<1>6. \A c \in Cores : d(c) \in Nat
  BY <1>3, DrawNat
<1>7. \A h \in Hosts, c \in Cores : Claim(q, h, c) = IF h = g THEN d(c) ELSE 0
  BY <1>3 DEF Claim
<1> HIDE DEF state, g, d
<1>8. /\ \A p \in Requests \ {q} : req'[p] = req[p]
      /\ req'[q].plan = req[q].plan /\ req'[q].ask = req[q].ask /\ req'[q].pc = state
  BY <1>2, <1>4 DEF RequestType
<1>9. OwedStays(TaskIds) /\ ChargesStay(DOMAIN box)
  BY <1>3, <1>8, HandlerMoves
<1>10. ASSUME NEW h \in Hosts, NEW c \in Cores
       PROVE  Claims(h, c)' - remain'[h][c] = Claims(h, c) - remain[h][c]
  <2>1. \A p \in Requests \ {q} : Claim(p, h, c)' = Claim(p, h, c)
    BY <1>8, ClaimKept
  <2>2. Claim(q, h, c)' = 0
    BY <1>5, <1>8 DEF Claim
  <2>3. Claims(h, c)' = Claims(h, c) - Claim(q, h, c) + Claim(q, h, c)'
    BY <1>1, <2>1, ClaimsChange
  <2>4. Claims(h, c) \in Int /\ remain[h][c] \in Int
    BY <1>1 DEF Terms
  <2> QED
    BY <1>3, <1>6, <1>7, <2>2, <2>3, <2>4
<1> QED
  BY <1>3, <1>9, <1>10

LEMMA OccupySlack ==
  ASSUME IInv, IInv', NEW q \in Requests, OccupyCores(q)
  PROVE  SlackStays
<1> SUFFICES ASSUME NEW h \in Hosts, NEW c \in Cores PROVE Slack(h, c)' = Slack(h, c)
  BY DEF SlackStays
<1>1. Terms /\ Terms'
  BY TermsTyped, NextTerms
<1>2. Debts(h, c)' = Debts(h, c) /\ Charges(h, c)' = Charges(h, c)
  BY <1>1, OccupyMoves, DebtsSame, ChargesSame DEF OwedStays, ChargesStay
<1>3. Claims(h, c)' - remain'[h][c] = Claims(h, c) - remain[h][c] /\ Cap(h, c)' = Cap(h, c)
  BY OccupyMoves DEF Cap
<1>4. /\ Claims(h, c) \in Int /\ remain[h][c] \in Int /\ Cap(h, c) \in Int
      /\ Claims(h, c)' \in Int /\ remain'[h][c] \in Int
      /\ Debts(h, c) \in Int /\ Charges(h, c) \in Int
  BY <1>1 DEF Terms
<1> QED
  BY <1>2, <1>3, <1>4 DEF Slack

\* A task is owed what its message says, and its request claims as much.
LEMMA GrantMoves ==
  ASSUME IInv, IInv', NEW q \in Requests, NEW g \in Hosts, CreateTask(q, g), NEW t, t = <<q, g>>
  PROVE  /\ t \in TaskIds /\ t[2] = g /\ UNCHANGED <<remain, box>>
         /\ OwedStays(TaskIds \ {t}) /\ ChargesStay(DOMAIN box)
         /\ \A h \in Hosts, c \in Cores :
               /\ Owed(t, h, c) = 0
               /\ h # g => Owed(t, h, c)' = 0
               /\ Claims(h, c)' = Claims(h, c) + Owed(t, h, c)'
<1>1. Terms /\ Terms'
  BY TermsTyped, NextTerms
<1>2. req \in [Requests -> RequestType] /\ req[q] \in RequestType
  BY DEF IInv, Types
<1> DEFINE d(c) == Draw(req[q].plan[g].cores, req[q].ask.nshare, c)
<1>3. /\ req[q].pc = "enqueue" /\ g \in req[q].todo
      /\ job' = [job EXCEPT ![t].pc = "queued"]
      /\ req' = [req EXCEPT ![q].pc = "occupy", ![q].at = g]
      /\ UNCHANGED <<remain, count, lock, box>>
  BY DEF CreateTask
<1>4. t \in TaskIds /\ t \in Jobs /\ t[1] = q /\ t[2] = g
  BY DEF TaskIds, Jobs
<1>5. /\ \A p \in Requests \ {q} : req'[p] = req[p]
      /\ req'[q].plan = req[q].plan /\ req'[q].ask = req[q].ask
      /\ req'[q].pc = "occupy" /\ req'[q].at = g
  BY <1>2, <1>3 DEF RequestType
<1>6. job[t].pc = "none" /\ job[t].box = NoBox /\ job[t].next = 1
  BY <1>3, <1>4 DEF RequestShape, HasTask, IInv, TaskShape
<1>7. /\ job'[t].pc = "queued" /\ job'[t].box = NoBox /\ job'[t].next = 1
      /\ \A j \in Jobs : j # t => job'[j] = job[j]
  BY <1>3, <1>4, <1>6 DEF IInv, Types, JobType
<1>8. ASSUME NEW h \in Hosts, NEW c \in Cores
      PROVE  Claim(q, h, c) = 0 /\ Claim(q, h, c)' = IF h = g THEN d(c) ELSE 0
  BY <1>3, <1>5 DEF Claim
<1>9. ASSUME NEW h \in Hosts, NEW c \in Cores
      PROVE  Owed(t, h, c) = 0 /\ Owed(t, h, c)' = IF h = g THEN d(c) ELSE 0
  <2>1. Taken(t)' = 0 /\ HasTask(t)' /\ ~HasTask(t)
    BY <1>6, <1>7 DEF Taken, HasTask
  <2>2. Message(t)' = req[q].plan[g]
    BY <1>4, <1>5 DEF Message
  <2> QED
    BY <1>4, <1>5, <2>1, <2>2 DEF Owed
<1> HIDE DEF d
<1>10. ASSUME NEW u \in TaskIds \ {t}, NEW h \in Hosts, NEW c \in Cores
       PROVE  Owed(u, h, c)' = Owed(u, h, c)
  <2>1. req'[u[1]].plan = req[u[1]].plan /\ req'[u[1]].ask = req[u[1]].ask /\ job'[u] = job[u]
    BY <1>5, <1>7, Names
  <2>2. (HasTask(u)' <=> HasTask(u)) /\ Taken(u)' = Taken(u) /\ Message(u)' = Message(u)
    BY <2>1 DEF HasTask, Taken, Message
  <2> QED
    BY <2>1, <2>2, OwedKept
<1>11. ASSUME NEW b \in DOMAIN box, NEW h \in Hosts, NEW c \in Cores
       PROVE  Charge(b, h, c)' = Charge(b, h, c)
  <2>1. b \in BoxIds
    BY DEF IInv, Types
  <2>2. req'[b[1]].ask = req[b[1]].ask
    BY <1>5, <2>1, Names
  <2>3. Dropped(b)' <=> Dropped(b)
    BY <1>4, <1>6, <1>7 DEF Dropped
  <2>4. (Charged(b)' <=> Charged(b)) /\ box'[b].cores = box[b].cores
    BY <1>3, <2>3 DEF Charged
  <2> QED
    BY <2>2, <2>4, ChargeKept
<1>12. ASSUME NEW h \in Hosts, NEW c \in Cores
       PROVE  Claims(h, c)' = Claims(h, c) + Owed(t, h, c)'
  <2>1. \A p \in Requests \ {q} : Claim(p, h, c)' = Claim(p, h, c)
    BY <1>5, ClaimKept
  <2>2. Claims(h, c)' = Claims(h, c) - Claim(q, h, c) + Claim(q, h, c)'
    BY <1>1, <2>1, ClaimsChange
  <2>3. Claims(h, c) \in Int
    BY <1>1 DEF Terms
  <2> QED
    BY <1>8, <1>9, <2>2, <2>3
<1> QED
  BY <1>3, <1>4, <1>9, <1>10, <1>11, <1>12 DEF OwedStays, ChargesStay

LEMMA GrantSlack ==
  ASSUME IInv, IInv', NEW q \in Requests, NEW g \in Hosts, CreateTask(q, g)
  PROVE  SlackStays
<1> SUFFICES ASSUME NEW h \in Hosts, NEW c \in Cores PROVE Slack(h, c)' = Slack(h, c)
  BY DEF SlackStays
<1>0. PICK t : t = <<q, g>>
  OBVIOUS
<1>1. Terms /\ Terms'
  BY TermsTyped, NextTerms
<1>2. /\ t \in TaskIds /\ UNCHANGED <<remain, box>> /\ Owed(t, h, c) = 0
      /\ OwedStays(TaskIds \ {t}) /\ ChargesStay(DOMAIN box)
      /\ Claims(h, c)' = Claims(h, c) + Owed(t, h, c)'
  BY <1>0, GrantMoves
<1>3. Debts(h, c)' = Debts(h, c) - Owed(t, h, c) + Owed(t, h, c)' /\ Charges(h, c)' = Charges(h, c)
  BY <1>1, <1>2, DebtsChange, ChargesSame DEF OwedStays, ChargesStay
<1>4. /\ Claims(h, c) \in Int /\ Debts(h, c) \in Int /\ Cap(h, c)' = Cap(h, c)
      /\ remain[h][c] \in Int /\ Charges(h, c) \in Int /\ Cap(h, c) \in Int
      /\ Owed(t, h, c)' \in Int
  BY <1>1, <1>2 DEF Cap, Terms
<1> QED
  BY <1>2, <1>3, <1>4 DEF Slack

LEMMA AnswerSlack ==
  ASSUME IInv, IInv', NEW q \in Requests, Answer(q)
  PROVE  SlackStays
<1> QED
  BY FailMoves, UnmovedSlack, OccupySlack, GrantSlack DEF Answer

\* What a task owes goes down by its next chunk.
LEMMA ChunkHandedOver ==
  ASSUME IInv, NEW t \in TaskIds, HasNext(t), NEW h \in Hosts, NEW c \in Cores, UNCHANGED req,
         HasTask(t)', Taken(t)' = job[t].next
  PROVE  LET d == Draw(Chunks(t)[job[t].next], req[t[1]].ask.nshare, c)
         IN  d \in Nat /\ Owed(t, h, c) = Owed(t, h, c)' + (IF h = t[2] THEN d ELSE 0)
<1> DEFINE A == Message(t).cores
           n == Message(t).count
           s == req[t[1]].ask.nshare
           i == job[t].next
           d == Draw(Chunks(t)[i], s, c)
<1>1. /\ job[t].pc = "create" /\ job[t].box = NoBox /\ i \in Nat \ {0} /\ i <= Len(Chunks(t))
      /\ IterDefined(A, n) /\ A \in AllocationType /\ n \in Int /\ n > 0
      /\ Chunks(t)[i] \in AllocationType /\ s \in Nat
  BY NextChunk
<1>2. d \in Nat
  BY <1>1, DrawNat
<1>3. LeftOver(A, n, i - 1, s, c) = d + LeftOver(A, n, i, s, c)
  BY <1>1, ChunkDraw DEF Chunks
<1>4. HasTask(t) /\ Taken(t) = i - 1
  BY <1>1 DEF HasTask, Taken
<1>5. Message(t)' = Message(t) /\ i # 0
  BY <1>1 DEF Message
<1>6. CASE h # t[2]
  BY <1>2, <1>6 DEF Owed
<1>7. CASE h = t[2]
  <2>1. Owed(t, h, c)' = LeftOver(A, n, i, s, c)
    BY <1>5, <1>7 DEF Owed
  <2>2. Owed(t, h, c) = LeftOver(A, n, i - 1, s, c)
    <3>1. CASE i - 1 = 0
      <4>1. LeftOver(A, n, 0, s, c) = Draw(A, s, c)
        BY <1>1, LeftOverAll
      <4> QED
        BY <1>4, <1>7, <3>1, <4>1 DEF Owed
    <3>2. CASE i - 1 # 0
      BY <1>4, <1>7, <3>2 DEF Owed
    <3> QED
      BY <3>1, <3>2
  <2>3. LeftOver(A, n, i, s, c) \in Nat
    BY <1>1, LeftOverNat
  <2> QED
    BY <1>2, <1>3, <1>7, <2>1, <2>2, <2>3
<1> QED
  BY <1>2, <1>6, <1>7

\* The fragments of the next chunk of a task.
Handed(t, c) == Draw(Chunks(t)[job[t].next], req[t[1]].ask.nshare, c)
HandsOver(t, n) ==
    \A h \in Hosts, c \in Cores :
        /\ Owed(t, h, c) = Owed(t, h, c)' + Charge(n, h, c)'
        /\ Charge(n, h, c)' \in Nat
        /\ h # t[2] => Charge(n, h, c)' = 0

\* They go from the task to a new container ...
LEMMA CreateMoves ==
  ASSUME IInv, NEW t \in TaskIds, CreateContainer(t), NEW n, n = NextBox(t)
  PROVE  /\ UNCHANGED remain /\ n \notin DOMAIN box /\ DOMAIN box' = DOMAIN box \cup {n}
         /\ n[1] = t[1] /\ n[2] = t[2]
         /\ ClaimsStay /\ OwedStays(TaskIds \ {t}) /\ ChargesStay(DOMAIN box) /\ HandsOver(t, n)
<1> DEFINE new == [docker |-> TRUE, row |-> FALSE, key |-> FALSE, cores |-> Chunks(t)[job[t].next]]
<1>1. /\ HasNext(t) /\ UNCHANGED <<remain, count, lock, req>>
      /\ box' = [b \in DOMAIN box \cup {n} |-> IF b = n THEN new ELSE box[b]]
      /\ job' = [job EXCEPT ![t].pc = "record", ![t].box = n]
  BY DEF CreateContainer
<1>2. /\ t \in Jobs /\ job[t].pc = "create" /\ job[t].next \in Nat \ {0}
      /\ n \notin DOMAIN box /\ HostOf(n) = t[2] /\ NShare(n) = req[t[1]].ask.nshare /\ n # NoBox
  BY <1>1, NextChunk
<1>3. /\ \A k \in Jobs \ {t} : job'[k] = job[k]
      /\ job'[t].pc = "record" /\ job'[t].box = n /\ job'[t].next = job[t].next
  BY <1>1, <1>2 DEF IInv, Types, JobType
<1>4. DOMAIN box' = DOMAIN box \cup {n} /\ box'[n] = new /\ \A b \in DOMAIN box : box'[b] = box[b]
  BY <1>1, <1>2
<1>5. ClaimsStay
  BY <1>1, ClaimKept DEF ClaimsStay
<1>6. ASSUME NEW u \in TaskIds \ {t}, NEW h \in Hosts, NEW c \in Cores
      PROVE  Owed(u, h, c)' = Owed(u, h, c)
  <2>1. job'[u] = job[u] /\ Message(u)' = Message(u) /\ req'[u[1]].ask = req[u[1]].ask
    BY <1>1, <1>3, Names DEF Message
  <2>2. (HasTask(u)' <=> HasTask(u)) /\ Taken(u)' = Taken(u)
    BY <2>1 DEF HasTask, Taken
  <2> QED
    BY <2>1, <2>2, OwedKept
<1>7. ASSUME NEW h \in Hosts, NEW c \in Cores
      PROVE  /\ Handed(t, c) \in Nat
             /\ Owed(t, h, c) = Owed(t, h, c)' + (IF h = t[2] THEN Handed(t, c) ELSE 0)
  <2>1. HasTask(t)' /\ Taken(t)' = job[t].next
    BY <1>2, <1>3 DEF HasTask, Taken
  <2> QED
    BY <1>1, <2>1, ChunkHandedOver DEF Handed
<1>8. ASSUME NEW b \in DOMAIN box, NEW h \in Hosts, NEW c \in Cores
      PROVE  Charge(b, h, c)' = Charge(b, h, c)
  <2>1. Dropped(b)' <=> Dropped(b)
    BY <1>2, <1>3 DEF Dropped
  <2>2. (Charged(b)' <=> Charged(b)) /\ box'[b].cores = box[b].cores
    BY <1>4, <2>1 DEF Charged
  <2> QED
    BY <1>1, <2>2, ChargeKept
<1>9. ASSUME NEW h \in Hosts, NEW c \in Cores
      PROVE  Charge(n, h, c)' = IF h = t[2] THEN Handed(t, c) ELSE 0
  <2>1. NShare(n)' = req[t[1]].ask.nshare /\ box'[n].docker /\ box'[n].cores = Chunks(t)[job[t].next]
    BY <1>1, <1>2, <1>4 DEF NShare
  <2>2. Charged(n)'
    BY <2>1 DEF Charged
  <2> QED
    BY <1>2, <2>1, <2>2 DEF Charge, Handed
<1>10. n[1] = t[1] /\ n[2] = t[2]
  BY DEF NextBox
<1> QED
  BY <1>1, <1>2, <1>4, <1>5, <1>6, <1>7, <1>8, <1>9, <1>10 DEF OwedStays, ChargesStay, HandsOver

LEMMA CreateSlack ==
  ASSUME IInv, IInv', NEW t \in TaskIds, CreateContainer(t)
  PROVE  SlackStays
<1> SUFFICES ASSUME NEW h \in Hosts, NEW c \in Cores PROVE Slack(h, c)' = Slack(h, c)
  BY DEF SlackStays
<1>1. Terms /\ Terms'
  BY TermsTyped, NextTerms
<1>2. PICK n : n = NextBox(t)
  OBVIOUS
<1>3. /\ UNCHANGED remain /\ n \notin DOMAIN box /\ DOMAIN box' = DOMAIN box \cup {n}
      /\ ClaimsStay /\ OwedStays(TaskIds \ {t}) /\ ChargesStay(DOMAIN box) /\ HandsOver(t, n)
  BY <1>2, CreateMoves
<1>4. Claims(h, c)' = Claims(h, c)
  BY <1>1, <1>3, ClaimsSame DEF ClaimsStay
<1>5. Debts(h, c)' = Debts(h, c) - Owed(t, h, c) + Owed(t, h, c)'
  BY <1>1, <1>3, DebtsChange DEF OwedStays
<1>6. Charges(h, c)' = Charges(h, c) + Charge(n, h, c)'
  BY <1>1, <1>3, ChargesGrow DEF ChargesStay
<1>7. /\ Claims(h, c) \in Int /\ Debts(h, c) \in Int /\ Cap(h, c)' = Cap(h, c)
      /\ remain[h][c] \in Int /\ Charges(h, c) \in Int /\ Cap(h, c) \in Int
      /\ Owed(t, h, c)' \in Int /\ Charge(n, h, c)' \in Int
  BY <1>1, <1>3 DEF Cap, Terms
<1>8. Owed(t, h, c) = Owed(t, h, c)' + Charge(n, h, c)'
  BY <1>3 DEF HandsOver
<1> QED
  BY <1>3, <1>4, <1>5, <1>6, <1>7, <1>8 DEF Slack

\* ... or back into the ledger.
LEMMA GiveBackMoves ==
  ASSUME IInv, NEW t \in TaskIds, CreateContainerFails(t)
  PROVE  /\ UNCHANGED box
         /\ ClaimsStay /\ OwedStays(TaskIds \ {t}) /\ ChargesStay(DOMAIN box)
         /\ \A h \in Hosts, c \in Cores :
               /\ Handed(t, c) \in Nat
               /\ Owed(t, h, c) = Owed(t, h, c)' + (IF h = t[2] THEN Handed(t, c) ELSE 0)
               /\ remain'[h][c] = remain[h][c] + (IF h = t[2] THEN Handed(t, c) ELSE 0)
<1>1. /\ HasNext(t) /\ UNCHANGED <<count, lock, req, box>>
      /\ job' = [job EXCEPT ![t].next = @ + 1]
      /\ \A h \in Hosts, c \in Cores :
            remain'[h][c] = IF h = t[2] THEN remain[h][c] + Handed(t, c) ELSE remain[h][c]
  BY GiveBackTypes DEF Handed
<1>2. t \in Jobs /\ job[t].pc = "create" /\ job[t].box = NoBox /\ job[t].next \in Nat \ {0}
  BY <1>1, NextChunk
<1>3. /\ \A k \in Jobs \ {t} : job'[k] = job[k]
      /\ job'[t].pc = "create" /\ job'[t].box = NoBox /\ job'[t].next = job[t].next + 1
  BY <1>1, <1>2 DEF IInv, Types, JobType
<1>4. ClaimsStay
  BY <1>1, ClaimKept DEF ClaimsStay
<1>5. ASSUME NEW u \in TaskIds \ {t}, NEW h \in Hosts, NEW c \in Cores
      PROVE  Owed(u, h, c)' = Owed(u, h, c)
  <2>1. job'[u] = job[u] /\ Message(u)' = Message(u) /\ req'[u[1]].ask = req[u[1]].ask
    BY <1>1, <1>3, Names DEF Message
  <2>2. (HasTask(u)' <=> HasTask(u)) /\ Taken(u)' = Taken(u)
    BY <2>1 DEF HasTask, Taken
  <2> QED
    BY <2>1, <2>2, OwedKept
<1>6. ASSUME NEW h \in Hosts, NEW c \in Cores
      PROVE  /\ Handed(t, c) \in Nat
             /\ Owed(t, h, c) = Owed(t, h, c)' + (IF h = t[2] THEN Handed(t, c) ELSE 0)
  <2>1. HasTask(t)' /\ Taken(t)' = job[t].next
    BY <1>2, <1>3 DEF HasTask, Taken
  <2> QED
    BY <1>1, <2>1, ChunkHandedOver DEF Handed
<1>7. ASSUME NEW b \in DOMAIN box, NEW h \in Hosts, NEW c \in Cores
      PROVE  Charge(b, h, c)' = Charge(b, h, c)
  <2>1. Dropped(b)' <=> Dropped(b)
    BY <1>2, <1>3 DEF Dropped
  <2>2. (Charged(b)' <=> Charged(b)) /\ box'[b].cores = box[b].cores
    BY <1>1, <2>1 DEF Charged
  <2> QED
    BY <1>1, <2>2, ChargeKept
<1>8. ASSUME NEW h \in Hosts, NEW c \in Cores
      PROVE  remain'[h][c] = remain[h][c] + (IF h = t[2] THEN Handed(t, c) ELSE 0)
  <2>1. remain[h][c] \in Int
    BY DEF IInv, Types
  <2> QED
    BY <1>1, <2>1
<1> QED
  BY <1>1, <1>4, <1>5, <1>6, <1>7, <1>8 DEF OwedStays, ChargesStay

LEMMA GiveBackSlack ==
  ASSUME IInv, IInv', NEW t \in TaskIds, CreateContainerFails(t)
  PROVE  SlackStays
<1> SUFFICES ASSUME NEW h \in Hosts, NEW c \in Cores PROVE Slack(h, c)' = Slack(h, c)
  BY DEF SlackStays
<1>1. Terms /\ Terms'
  BY TermsTyped, NextTerms
<1> DEFINE d == IF h = t[2] THEN Handed(t, c) ELSE 0
<1>2. /\ UNCHANGED box /\ ClaimsStay /\ OwedStays(TaskIds \ {t}) /\ ChargesStay(DOMAIN box)
      /\ d \in Nat /\ Owed(t, h, c) = Owed(t, h, c)' + d /\ remain'[h][c] = remain[h][c] + d
  BY GiveBackMoves
<1> HIDE DEF d
<1>3. Claims(h, c)' = Claims(h, c) /\ Charges(h, c)' = Charges(h, c)
  BY <1>1, <1>2, ClaimsSame, ChargesSame DEF ClaimsStay, ChargesStay
<1>4. Debts(h, c)' = Debts(h, c) - Owed(t, h, c) + Owed(t, h, c)'
  BY <1>1, <1>2, DebtsChange DEF OwedStays
<1>5. /\ Claims(h, c) \in Int /\ Debts(h, c) \in Int /\ Cap(h, c)' = Cap(h, c)
      /\ remain[h][c] \in Int /\ Charges(h, c) \in Int /\ Cap(h, c) \in Int
      /\ Owed(t, h, c)' \in Int
  BY <1>1 DEF Cap, Terms
<1> QED
  BY <1>2, <1>3, <1>4, <1>5 DEF Slack

LEMMA RecordMoves ==
  ASSUME IInv, NEW t \in TaskIds, RecordContainer(t) \/ SaveCores(t)
  PROVE  NothingMoves
<1>0. PICK b : b = job[t].box
  OBVIOUS
<1>1. t \in Jobs /\ Types /\ JobShape(t) /\ Stage(t) /\ job[t].pc \in {"record", "save"}
  BY Names DEF IInv, RecordContainer, SaveCores
<1>2. b # NoBox /\ b \in DOMAIN box /\ box[b] \in BoxType /\ box[b].docker
  BY <1>0, <1>1, HeldBox DEF JobShape, Stage
<1>3. /\ \A k \in Jobs \ {t} : job'[k] = job[k]
      /\ job'[t].pc \in {"save", "network"} /\ job'[t].box = b /\ job'[t].next = job[t].next
      /\ UNCHANGED <<remain, req>>
  BY <1>0, <1>1 DEF RecordContainer, SaveCores, Types, JobType
<1>4. /\ DOMAIN box' = DOMAIN box /\ \A a \in DOMAIN box \ {b} : box'[a] = box[a]
      /\ box'[b].docker /\ box'[b].cores = box[b].cores
  BY <1>0, <1>2 DEF RecordContainer, SaveCores, BoxType
<1>5. ASSUME NEW a \in DOMAIN box PROVE (Charged(a)' <=> Charged(a)) /\ box'[a].cores = box[a].cores
  <2>1. Dropped(a)' <=> Dropped(a)
    BY <1>1, <1>3 DEF Dropped
  <2>2. CASE a = b
    BY <1>2, <1>4, <2>2 DEF Charged
  <2>3. CASE a # b
    BY <1>4, <2>1, <2>3 DEF Charged
  <2> QED
    BY <2>2, <2>3
<1>6. (HasTask(t)' <=> HasTask(t)) /\ Taken(t)' = Taken(t)
  BY <1>0, <1>1, <1>3 DEF HasTask, Taken
<1> QED
  BY <1>1, <1>3, <1>4, <1>5, <1>6, WorkerMoves

\* Unless removals overlap a container is released by one worker at a time.
LEMMA OneRelease ==
  ASSUME IInv, ~Overlapping, NEW j \in Jobs, Working(j), job[j].box # NoBox,
         NEW k \in Jobs, Working(k), job[k].box = job[j].box
  PROVE  k = j
<1> QED
  BY DEF IInv, OneHolder

LEMMA DropMoves ==
  ASSUME IInv, ~Overlapping, NEW j \in Jobs, DropRecord(j)
  PROVE  NothingMoves
<1>0. PICK b : b = job[j].box
  OBVIOUS
<1>1. Types /\ JobShape(j) /\ Stage(j) /\ job[j].pc = "drop" /\ job[j] \in JobType
  BY DEF IInv, DropRecord, Types
<1>2. b # NoBox /\ b \in DOMAIN box /\ box[b] \in BoxType /\ ~box[b].docker
  BY <1>0, <1>1, HeldBox DEF JobShape, Stage
<1>3. /\ \A k \in Jobs \ {j} : job'[k] = job[k]
      /\ job'[j].pc \in {"done", "create"} /\ job'[j].box = NoBox /\ job'[j].next = job[j].next + 1
      /\ UNCHANGED <<remain, req>> /\ job[j].next \in Nat
  BY <1>0, <1>1 DEF DropRecord, Types, JobType
<1>4. /\ DOMAIN box' = DOMAIN box /\ \A a \in DOMAIN box \ {b} : box'[a] = box[a]
      /\ ~box'[b].docker /\ ~box'[b].key /\ box'[b].cores = box[b].cores
  BY <1>0, <1>2 DEF DropRecord, BoxType
<1>5. ASSUME NEW a \in DOMAIN box PROVE (Charged(a)' <=> Charged(a)) /\ box'[a].cores = box[a].cores
  <2>1. CASE a = b
    <3>1. Dropped(b)
      BY <1>0, <1>1 DEF Dropped
    <3> QED
      BY <1>2, <1>4, <2>1, <3>1 DEF Charged
  <2>2. CASE a # b
    <3>1. Dropped(a)' <=> Dropped(a)
      BY <1>0, <1>1, <1>3, <2>2 DEF Dropped
    <3> QED
      BY <1>4, <2>2, <3>1 DEF Charged
  <2> QED
    BY <2>1, <2>2
<1>6. (HasTask(j)' <=> HasTask(j)) /\ Taken(j)' = Taken(j)
  BY <1>0, <1>1, <1>2, <1>3 DEF HasTask, Taken
<1> QED
  BY <1>3, <1>4, <1>5, <1>6, WorkerMoves

\* A container gives back what it was charged.
LEMMA ReleaseMoves ==
  ASSUME IInv, ~Overlapping, NEW j \in Jobs, ReleaseCores(j), NEW b, b = job[j].box
  PROVE  /\ UNCHANGED box /\ b \in DOMAIN box
         /\ ClaimsStay /\ OwedStays(TaskIds) /\ ChargesStay(DOMAIN box \ {b})
         /\ \A h \in Hosts, c \in Cores :
               /\ Charge(b, h, c)' = 0
               /\ remain'[h][c] = remain[h][c] + Charge(b, h, c)
<1> DEFINE s == IF box[b].key THEN NShare(b) ELSE 0
           d(c) == Draw(job[j].cores, s, c)
<1>2. /\ job[j].pc = "release" /\ b # NoBox /\ HostOf(b) \in Hosts /\ s \in Nat
      /\ job' = [job EXCEPT ![j].pc = "drop"] /\ UNCHANGED <<count, lock, req, box>>
      /\ job[j].cores \in AllocationType
      /\ \A h \in Hosts, c \in Cores :
            remain'[h][c] = IF h = HostOf(b) THEN remain[h][c] + d(c) ELSE remain[h][c]
  BY ReleaseTypes
<1>3. /\ b \in DOMAIN box /\ ~box[b].docker
      /\ job[j].cores = IF box[b].key THEN box[b].cores ELSE NoCores
  BY <1>2, HeldBox DEF IInv, Stage
<1>4. /\ \A k \in Jobs \ {j} : job'[k] = job[k]
      /\ job'[j].pc = "drop" /\ job'[j].box = b /\ job'[j].next = job[j].next
  BY <1>2 DEF IInv, Types, JobType
<1>6. Dropped(b)'
  BY <1>4 DEF Dropped
<1>7. ~Dropped(b)
  <2> SUFFICES ASSUME NEW k \in Jobs, job[k].pc = "drop", job[k].box = b PROVE FALSE
    BY DEF Dropped
  <2>1. Working(j) /\ Working(k)
    BY <1>2 DEF Working, JobEnded
  <2> QED
    BY <1>2, <2>1, OneRelease
<1>8. ASSUME NEW h \in Hosts, NEW c \in Cores PROVE Charge(b, h, c)' = 0
  BY <1>2, <1>3, <1>6 DEF Charge, Charged
<1>9. ASSUME NEW h \in Hosts, NEW c \in Cores
      PROVE  Charge(b, h, c) = IF h = HostOf(b) THEN d(c) ELSE 0
  <2>1. CASE box[b].key
    BY <1>3, <1>7, <2>1 DEF Charge, Charged
  <2>2. CASE ~box[b].key
    <3>1. d(c) = 0
      BY <1>2, <1>3, <2>2, DrawNone
    <3> QED
      BY <1>3, <2>2, <3>1 DEF Charge, Charged
  <2> QED
    BY <2>1, <2>2
<1>10. ASSUME NEW a \in DOMAIN box \ {b}, NEW h \in Hosts, NEW c \in Cores
       PROVE  Charge(a, h, c)' = Charge(a, h, c)
  <2>1. Dropped(a)' <=> Dropped(a)
    BY <1>2, <1>4 DEF Dropped
  <2>2. (Charged(a)' <=> Charged(a)) /\ box'[a].cores = box[a].cores
    BY <1>2, <2>1 DEF Charged
  <2> QED
    BY <1>2, <2>2, ChargeKept
<1>11. ClaimsStay
  BY <1>2, ClaimKept DEF ClaimsStay
<1>12. ASSUME NEW t \in TaskIds, NEW h \in Hosts, NEW c \in Cores
       PROVE  Owed(t, h, c)' = Owed(t, h, c)
  <2>1. Message(t)' = Message(t)
    BY <1>2 DEF Message
  <2>2. (HasTask(t)' <=> HasTask(t)) /\ Taken(t)' = Taken(t)
    <3>1. CASE t = j
      BY <1>2, <1>4, <3>1 DEF HasTask, Taken
    <3>2. CASE t # j
      BY <1>4, <3>2, Names DEF HasTask, Taken
    <3> QED
      BY <3>1, <3>2
  <2> QED
    BY <1>2, <2>1, <2>2, OwedKept
<1>13. ASSUME NEW h \in Hosts, NEW c \in Cores
       PROVE  remain'[h][c] = remain[h][c] + Charge(b, h, c)
  <2> HIDE DEF d, s
  <2>1. remain[h][c] \in Int
    BY DEF IInv, Types
  <2> QED
    BY <1>2, <1>9, <2>1
<1> QED
  BY <1>2, <1>3, <1>8, <1>10, <1>11, <1>12, <1>13 DEF OwedStays, ChargesStay

LEMMA ReleaseSlack ==
  ASSUME IInv, IInv', ~Overlapping, NEW j \in Jobs, ReleaseCores(j)
  PROVE  SlackStays
<1> SUFFICES ASSUME NEW h \in Hosts, NEW c \in Cores PROVE Slack(h, c)' = Slack(h, c)
  BY DEF SlackStays
<1>0. PICK b : b = job[j].box
  OBVIOUS
<1>1. Terms /\ Terms'
  BY TermsTyped, NextTerms
<1>2. /\ UNCHANGED box /\ b \in DOMAIN box
      /\ ClaimsStay /\ OwedStays(TaskIds) /\ ChargesStay(DOMAIN box \ {b})
      /\ Charge(b, h, c)' = 0 /\ remain'[h][c] = remain[h][c] + Charge(b, h, c)
  BY <1>0, ReleaseMoves
<1>3. Claims(h, c)' = Claims(h, c) /\ Debts(h, c)' = Debts(h, c)
  BY <1>1, <1>2, ClaimsSame, DebtsSame DEF ClaimsStay, OwedStays
<1>4. Charges(h, c)' = Charges(h, c) - Charge(b, h, c) + Charge(b, h, c)'
  BY <1>1, <1>2, ChargesChange DEF ChargesStay
<1>5. /\ Claims(h, c) \in Int /\ Debts(h, c) \in Int /\ Cap(h, c)' = Cap(h, c)
      /\ remain[h][c] \in Int /\ Charges(h, c) \in Int /\ Cap(h, c) \in Int
      /\ Charge(b, h, c) \in Int
  BY <1>1, <1>2 DEF Cap, Terms
<1> QED
  BY <1>2, <1>3, <1>4, <1>5 DEF Slack

\* The one step that may lose fragments: a container whose worker died before
\* its cores were stored is removed.
LEMMA RemoveMoves ==
  ASSUME IInv, ~Overlapping, NEW j \in Jobs, RemoveFromDocker(j), NEW b, b = job[j].box
  PROVE  /\ UNCHANGED remain /\ DOMAIN box' = DOMAIN box /\ b \in DOMAIN box
         /\ ClaimsStay /\ OwedStays(TaskIds) /\ ChargesStay(DOMAIN box \ {b})
         /\ \/ ChargesStay({b})
            \/ ~NobodyDied /\ \A h \in Hosts, c \in Cores : Charge(b, h, c)' = 0
<1>2. Types /\ JobShape(j) /\ job[j].pc \in {"stop", "clean"} /\ Working(j)
  BY DEF IInv, RemoveFromDocker, Working, JobEnded
<1>3. b # NoBox /\ b \in DOMAIN box /\ b \in BoxIds /\ box[b] \in BoxType /\ BoxShape(b)
  BY <1>2, HeldBox DEF JobShape, IInv
<1>4. /\ \A k \in Jobs \ {j} : job'[k] = job[k]
      /\ job'[j].pc = "read" /\ job'[j].box = b /\ job'[j].next = job[j].next
      /\ UNCHANGED <<remain, req>>
  BY <1>2 DEF RemoveFromDocker, Types, JobType
<1>5. /\ DOMAIN box' = DOMAIN box /\ \A a \in DOMAIN box \ {b} : box'[a] = box[a]
      /\ ~box'[b].docker /\ box'[b].key = box[b].key /\ box'[b].cores = box[b].cores
  BY <1>3 DEF RemoveFromDocker, BoxType
<1>6. \A a \in DOMAIN box : Dropped(a)' <=> Dropped(a)
  BY <1>2, <1>4 DEF Dropped
<1>7. ASSUME NEW a \in DOMAIN box \ {b}, NEW h \in Hosts, NEW c \in Cores
      PROVE  Charge(a, h, c)' = Charge(a, h, c)
  <2>1. (Charged(a)' <=> Charged(a)) /\ box'[a].cores = box[a].cores
    BY <1>5, <1>6 DEF Charged
  <2> QED
    BY <1>4, <2>1, ChargeKept
<1>8. \/ ChargesStay({b})
      \/ ~NobodyDied /\ \A h \in Hosts, c \in Cores : Charge(b, h, c)' = 0
  <2>1. ~Dropped(b)
    <3> SUFFICES ASSUME NEW k \in Jobs, job[k].pc = "drop", job[k].box = b PROVE FALSE
      BY DEF Dropped
    <3>1. Working(k)
      BY DEF Working, JobEnded
    <3> QED
      BY <1>2, <1>3, <3>1, OneRelease
  <2>3. CASE Charged(b)' <=> Charged(b)
    <3>1. \A h \in Hosts, c \in Cores : Charge(b, h, c)' = Charge(b, h, c)
      BY <1>3, <1>4, <1>5, <2>3, ChargeKept
    <3> QED
      BY <3>1 DEF ChargesStay
  <2>4. CASE ~(Charged(b)' <=> Charged(b))
    <3>1. box[b].docker /\ ~box[b].key /\ ~Charged(b)'
      BY <1>3, <1>5, <1>6, <2>1, <2>4 DEF Charged
    <3>2. \A h \in Hosts, c \in Cores : Charge(b, h, c)' = 0
      BY <3>1 DEF Charge
    <3>3. job[TaskOf(b)].box = b /\ job[TaskOf(b)].pc \in {"record", "save", "crashed"}
          /\ TaskOf(b) \in Jobs
      BY <1>3, <3>1, Names DEF BoxShape
    <3>4. job[TaskOf(b)].pc = "crashed"
      <4> SUFFICES ASSUME job[TaskOf(b)].pc # "crashed" PROVE FALSE
        OBVIOUS
      <4>1. Working(TaskOf(b))
        BY <3>3 DEF Working, JobEnded
      <4>2. TaskOf(b) = j
        BY <1>2, <1>3, <3>3, <4>1, OneRelease
      <4> QED
        BY <1>2, <3>3, <4>2
    <3>5. ~NobodyDied
      BY <3>3, <3>4 DEF NobodyDied
    <3> QED
      BY <3>2, <3>5
  <2> QED
    BY <2>3, <2>4
<1>9. ClaimsStay
  BY <1>4, ClaimKept DEF ClaimsStay
<1>10. ASSUME NEW t \in TaskIds, NEW h \in Hosts, NEW c \in Cores
       PROVE  Owed(t, h, c)' = Owed(t, h, c)
  <2>1. Message(t)' = Message(t)
    BY <1>4 DEF Message
  <2>2. (HasTask(t)' <=> HasTask(t)) /\ Taken(t)' = Taken(t)
    <3>1. CASE t = j
      BY <1>2, <1>4, <3>1 DEF HasTask, Taken
    <3>2. CASE t # j
      BY <1>4, <3>2, Names DEF HasTask, Taken
    <3> QED
      BY <3>1, <3>2
  <2> QED
    BY <1>4, <2>1, <2>2, OwedKept
<1> QED
  BY <1>3, <1>4, <1>5, <1>7, <1>8, <1>9, <1>10 DEF OwedStays, ChargesStay

LEMMA RemoveSlack ==
  ASSUME IInv, IInv', ~Overlapping, NEW j \in Jobs, RemoveFromDocker(j),
         NEW h \in Hosts, NEW c \in Cores
  PROVE  Slack(h, c)' >= Slack(h, c) /\ (NobodyDied => Slack(h, c)' = Slack(h, c))
<1>0. PICK b : b = job[j].box
  OBVIOUS
<1>1. Terms /\ Terms'
  BY TermsTyped, NextTerms
<1>2. /\ UNCHANGED remain /\ DOMAIN box' = DOMAIN box /\ b \in DOMAIN box
      /\ ClaimsStay /\ OwedStays(TaskIds) /\ ChargesStay(DOMAIN box \ {b})
      /\ Charge(b, h, c)' = Charge(b, h, c) \/ (~NobodyDied /\ Charge(b, h, c)' = 0)
  BY <1>0, RemoveMoves DEF ChargesStay
<1>3. Claims(h, c)' = Claims(h, c) /\ Debts(h, c)' = Debts(h, c)
  BY <1>1, <1>2, ClaimsSame, DebtsSame DEF ClaimsStay, OwedStays
<1>4. Charges(h, c)' = Charges(h, c) - Charge(b, h, c) + Charge(b, h, c)'
  BY <1>1, <1>2, ChargesChange DEF ChargesStay
<1>5. /\ Claims(h, c) \in Int /\ Debts(h, c) \in Int /\ Cap(h, c)' = Cap(h, c)
      /\ remain[h][c] \in Int /\ Charges(h, c) \in Int /\ Cap(h, c) \in Int
      /\ Charge(b, h, c) \in Nat /\ Charge(b, h, c)' \in Nat
  BY <1>1, <1>2 DEF Cap, Terms
<1> QED
  BY <1>2, <1>3, <1>4, <1>5 DEF Slack

LEMMA DeathIsFinal ==
  ASSUME IInv, [Next]_vars, NEW k \in Jobs, job[k].pc = "crashed"
  PROVE  job'[k].pc = "crashed"
<1>1. job \in [Jobs -> JobType] /\ job[k] \in JobType
  BY DEF IInv, Types
<1>2. ASSUME NEW q \in Requests, Submit(q) \/ Schedule(q) PROVE job' = job
  BY <1>2, SchedulingSteps DEF IInv, SchedulingStep, vars
<1>3. ASSUME NEW q \in Requests, Answer(q) PROVE job'[k].pc = "crashed"
  <2>1. ASSUME NEW h \in Hosts, CreateTask(q, h) PROVE job'[k].pc = "crashed"
    <3>1. ~HasTask(<<q, h>>)
      BY <2>1 DEF CreateTask, IInv, RequestShape
    <3>2. k # <<q, h>>
      BY <3>1 DEF HasTask
    <3> QED
      BY <1>1, <2>1, <3>2 DEF CreateTask
  <2> QED
    BY <1>3, <2>1 DEF Answer, CreateTaskFails, EnqueueFails, OccupyCores
<1>4. ASSUME NEW t \in TaskIds, Create(t) PROVE job'[k].pc = "crashed"
  <2>1. job[t].pc # "crashed"
    BY <1>4 DEF Create, StartTask, CreateContainer, CreateContainerFails, HasNext, RecordContainer,
                SaveCores, AllocateIPs, AllocateIPsFails, FinishTask
  <2>2. job'[k] = job[k]
    BY <1>1, <1>4, <2>1
       DEF Create, StartTask, CreateContainer, CreateContainerFails, RecordContainer,
           SaveCores, AllocateIPs, AllocateIPsFails, FinishTask
  <2> QED
    BY <2>2
<1>5. ASSUME NEW j \in Jobs, Removal(j) PROVE job'[k].pc = "crashed"
  <2>1. job[j].pc # "crashed"
    BY <1>5 DEF Removal, Delete, RemoveFromDocker, RemoveFromDockerFails, ReadCores, ReleaseCores, DropRecord
  <2>2. job'[k] = job[k]
    BY <1>1, <1>5, <2>1
       DEF Removal, Delete, RemoveFromDocker, RemoveFromDockerFails, ReadCores, ReleaseCores, DropRecord
  <2> QED
    BY <2>2
<1>6. ASSUME NEW j \in Jobs, Crash(j) PROVE job'[k].pc = "crashed"
  BY <1>1, <1>6 DEF Crash, JobType
<1>7. ASSUME NEW r \in Removers, NEW b \in DOMAIN box, BeginRemoval(r, b)
      PROVE  job'[k].pc = "crashed"
  BY <1>1, <1>7 DEF BeginRemoval
<1>8. ASSUME (\E j \in Jobs : StopAgain(j)) \/ AllDone \/ UNCHANGED vars PROVE job' = job
  BY <1>8 DEF StopAgain, AllDone, vars
<1> QED
  BY <1>2, <1>3, <1>4, <1>5, <1>6, <1>7, <1>8 DEF Next, Handler

LEMMA SlackMoves ==
  ASSUME IInv, IInv', ~Overlapping, [Next]_vars, NEW h \in Hosts, NEW c \in Cores
  PROVE  Slack(h, c)' >= Slack(h, c) /\ (NobodyDied => Slack(h, c)' = Slack(h, c))
<1>1. Slack(h, c) \in Int
  BY SlackInt
<1>2. ASSUME SlackStays
      PROVE  Slack(h, c)' >= Slack(h, c) /\ (NobodyDied => Slack(h, c)' = Slack(h, c))
  BY <1>1, <1>2 DEF SlackStays
<1>3. ASSUME UNCHANGED vars PROVE SlackStays
  BY <1>3, StutterMoves, UnmovedSlack
<1>4. ASSUME NEW q \in Requests, Submit(q) \/ Schedule(q) PROVE SlackStays
  BY <1>3, <1>4, SchedulingSteps, SchedulingMoves, UnmovedSlack DEF IInv
<1>5. ASSUME NEW q \in Requests, Answer(q) PROVE SlackStays
  BY <1>5, AnswerSlack
<1>6. ASSUME NEW t \in TaskIds, Create(t) PROVE SlackStays
  BY <1>6, Names, QuietMoves, RecordMoves, UnmovedSlack, CreateSlack, GiveBackSlack DEF Create
<1>7. ASSUME NEW j \in Jobs, Removal(j)
      PROVE  SlackStays \/ RemoveFromDocker(j)
  BY <1>7, QuietMoves, DropMoves, UnmovedSlack, ReleaseSlack DEF Removal, Delete
<1>8. ASSUME NEW j \in Jobs, Crash(j) PROVE SlackStays
  BY <1>8, QuietMoves, UnmovedSlack
<1>9. ASSUME NEW r \in Removers, NEW b \in DOMAIN box, BeginRemoval(r, b) PROVE SlackStays
  BY <1>9, BeginMoves, UnmovedSlack
<1>10. ASSUME NEW j \in Jobs, RemoveFromDocker(j)
       PROVE  Slack(h, c)' >= Slack(h, c) /\ (NobodyDied => Slack(h, c)' = Slack(h, c))
  BY <1>10, RemoveSlack
<1>11. SlackStays \/ \E j \in Jobs : RemoveFromDocker(j)
  BY <1>3, <1>4, <1>5, <1>6, <1>7, <1>8, <1>9 DEF Next, Handler, AllDone, StopAgain
<1> QED
  BY <1>1, <1>2, <1>10, <1>11

LEMMA NothingYet ==
  ASSUME NEW f, NEW S, IsFiniteSet(S), \A x \in S : f[x] = 0
  PROVE  SumOver(f, S) = 0
<1>1. \A x \in S : f[x] = IF x \in {} THEN f[x] ELSE 0
  OBVIOUS
<1>2. SumOver(f, S) = SumOver(f, {})
  <2>1. Ints(f, {}) /\ {} \subseteq S
    BY DEF Ints
  <2> QED
    BY <1>1, <2>1, SumPart
<1> QED
  BY <1>2, SumEmpty

LEMMA InitiallyAccounted == Init => Accounted
<1> SUFFICES ASSUME Init, NEW h \in Hosts, NEW c \in Cores PROVE Slack(h, c) = 0
  BY DEF Accounted
<1>1. \A q \in Requests : Claim(q, h, c) = 0
  BY DEF Init, Claim, NewRequest
<1>2. \A t \in TaskIds : Owed(t, h, c) = 0
  BY Names DEF Init, Owed, HasTask, NewJob
<1>3. Claims(h, c) = 0 /\ Debts(h, c) = 0
  BY <1>1, <1>2, Finite, NothingYet DEF Claims, Debts
<1>4. DOMAIN box = {}
  BY DEF Init
<1>5. Charges(h, c) = 0
  BY <1>4, SumEmpty DEF Charges
<1>6. remain[h][c] = Cap(h, c) /\ Cap(h, c) \in Int
  BY ShareAssumption DEF Init, Cap
<1> QED
  BY <1>3, <1>5, <1>6 DEF Slack

LEMMA AccountedKept ==
  ASSUME IInv, IInv', ~Overlapping, [Next]_vars, Accounted
  PROVE  Accounted'
<1>1. NobodyDied' => NobodyDied
  BY DeathIsFinal DEF NobodyDied
<1> SUFFICES ASSUME NEW h \in Hosts, NEW c \in Cores
             PROVE  Slack(h, c)' >= 0 /\ (NobodyDied' => Slack(h, c)' = 0)
  BY DEF Accounted
<1>2. Slack(h, c) >= 0 /\ (NobodyDied => Slack(h, c) = 0) /\ Slack(h, c) \in Int
  BY SlackInt DEF Accounted
<1>3. Slack(h, c)' \in Int
  <2>1. Terms'
    BY NextTerms
  <2> QED
    BY <2>1 DEF Terms, Slack
<1> QED
  BY <1>1, <1>2, <1>3, SlackMoves

\* Unless removals of one container overlap, every fragment of a core is free,
\* claimed by a handler, owed to a task or charged to a container, except those
\* that were lost with the worker that was to store them.
THEOREM Accounting == ~Overlapping => (Spec => []Accounted)
<1>1. ~Overlapping /\ IInv /\ Accounted /\ [Next]_vars => Accounted'
  BY NextKeeps, AccountedKept
<1>2. CASE ~Overlapping
  BY <1>1, <1>2, InitiallyAccounted, Structure, PTL DEF Spec
<1> QED
  BY <1>2

-----------------------------------------------------------------------------
(* What the ledger shows.                                                  *)

LEMMA InUseCharged ==
  ASSUME IInv, NEW h \in Hosts, NEW c \in Cores
  PROVE  InUse(h, c) \in Int /\ InUse(h, c) <= Charges(h, c)
<1> DEFINE D == DOMAIN box
           U == {b \in D : HostOf(b) = h /\ box[b].docker}
           f == [b \in U |-> Draw(box[b].cores, NShare(b), c)]
           p == [b \in D |-> IF b \in U THEN f[b] ELSE 0]
           g == [b \in D |-> Charge(b, h, c)]
<1>1. IsFiniteSet(D) /\ U \subseteq D
  BY DEF IInv, Types
<1>2. \A b \in U : f[b] \in Nat /\ Charge(b, h, c) = f[b]
  BY ChargeNat DEF Charge, Charged
<1>3. \A b \in D : Charge(b, h, c) \in Nat
  BY ChargeNat
<1>4. InUse(h, c) = SumOver(f, U)
  BY DEF InUse, SumOver, SumFunction
<1>5. Charges(h, c) = SumOver(g, D)
  BY DEF Charges
<1>6. \A b \in D : g[b] = Charge(b, h, c)
  OBVIOUS
<1>7. \A b \in D : p[b] = IF b \in U THEN f[b] ELSE 0
  OBVIOUS
<1> HIDE DEF D, U, f, p, g
<1>8. Ints(f, U)
  BY <1>2 DEF Ints
<1>9. SumOver(p, D) = SumOver(f, U)
  BY <1>1, <1>7, <1>8, SumPart
<1>10. Ints(p, D) /\ Ints(g, D)
  BY <1>1, <1>2, <1>3, <1>6, <1>7 DEF Ints
<1>11. \A b \in D : p[b] <= g[b]
  BY <1>2, <1>3, <1>6, <1>7
<1>12. SumOver(p, D) <= SumOver(g, D) /\ SumOver(p, D) \in Int
  BY <1>1, <1>10, <1>11, SumAtMost, SumInt
<1> QED
  BY <1>4, <1>5, <1>9, <1>12

LEMMA UnclaimedClaims ==
  ASSUME IInv, NEW h \in Hosts, NEW c \in Cores
  PROVE  Unclaimed(h, c) = Claims(h, c)
<1> DEFINE T == {q \in Requests : req[q].pc = "occupy" /\ req[q].at = h}
           f == [q \in T |-> Draw(req[q].plan[h].cores, req[q].ask.nshare, c)]
           g == [q \in Requests |-> Claim(q, h, c)]
<1>1. \A q \in Requests : g[q] = IF q \in T THEN f[q] ELSE 0
  BY DEF Claim
<1>2. \A q \in T : f[q] \in Int
  BY ClaimNat DEF Claim
<1>3. Unclaimed(h, c) = SumOver(f, T) /\ Claims(h, c) = SumOver(g, Requests) /\ T \subseteq Requests
  BY DEF Unclaimed, Claims, SumOver, SumFunction
<1> HIDE DEF T, f, g
<1>4. Ints(f, T)
  BY <1>2 DEF Ints
<1>5. SumOver(g, Requests) = SumOver(f, T)
  BY <1>1, <1>3, <1>4, Finite, SumPart
<1> QED
  BY <1>3, <1>5

LEMMA DebtsNat ==
  ASSUME IInv, NEW h \in Hosts, NEW c \in Cores
  PROVE  Debts(h, c) >= 0
<1> DEFINE g == [t \in TaskIds |-> Owed(t, h, c)]
<1>1. Ints(g, TaskIds) /\ \A t \in TaskIds : g[t] >= 0
  BY OwedNat DEF Ints
<1>2. Debts(h, c) = SumOver(g, TaskIds)
  BY DEF Debts
<1> HIDE DEF g
<1>3. SumOver(g, TaskIds) >= SumOver(g, {})
  BY <1>1, Finite, SumSubset, SumEmpty
<1> QED
  BY <1>2, <1>3, SumEmpty

LEMMA InUseBound ==
  ASSUME IInv, Accounted, NEW h \in Hosts, NEW c \in Cores
  PROVE  remain[h][c] + InUse(h, c) <= CoreShare + Claims(h, c)
<1>1. /\ Claims(h, c) \in Int /\ Debts(h, c) \in Int /\ Charges(h, c) \in Int
      /\ Cap(h, c) \in Int /\ remain[h][c] \in Int
  BY SlackInt
<1>2. InUse(h, c) \in Int /\ InUse(h, c) <= Charges(h, c) /\ Debts(h, c) >= 0
  BY InUseCharged, DebtsNat
<1>3. Cap(h, c) <= CoreShare /\ CoreShare \in Int
  BY ShareAssumption DEF Cap
<1>4. Slack(h, c) >= 0
  BY DEF Accounted
<1> QED
  BY <1>1, <1>2, <1>3, <1>4 DEF Slack

\* Whatever fails or dies and however many requests run, the ledger shows no
\* more of a core as free than is free, apart from what a queued task was
\* promised and the handler has not occupied yet.
THEOREM NeverOverstates == ~Overlapping => (Spec => []LedgerNeverOverstates)
<1>1. IInv /\ Accounted => LedgerNeverOverstates
  BY InUseBound, UnclaimedClaims DEF LedgerNeverOverstates
<1>2. CASE ~Overlapping
  BY <1>1, <1>2, Structure, Accounting, PTL
<1> QED
  BY <1>2

-----------------------------------------------------------------------------
(* One request at a time: what is planned is free.                         *)

\* What workers do to the ledger is to give back.
LEMMA WorkersGiveBack ==
  ASSUME IInv,
         \/ \E t \in TaskIds : Create(t)
         \/ \E j \in Jobs : Removal(j) \/ Crash(j)
         \/ \E r \in Removers : \E b \in DOMAIN box : BeginRemoval(r, b)
         \/ \E j \in Jobs : StopAgain(j)
         \/ AllDone \/ UNCHANGED vars
  PROVE  UNCHANGED req /\ \A h \in Hosts, c \in Cores : remain'[h][c] >= remain[h][c]
<1>1. \A h \in Hosts, c \in Cores : remain[h][c] \in Int
  BY SlackInt
<1>2. ASSUME NEW t \in TaskIds, CreateContainerFails(t)
      PROVE  UNCHANGED req /\ \A h \in Hosts, c \in Cores : remain'[h][c] >= remain[h][c]
  <2>1. Chunks(t)[job[t].next] \in AllocationType /\ req[t[1]].ask.nshare \in Nat
    BY <1>2, GiveBackTypes, NextChunk
  <2> SUFFICES ASSUME NEW h \in Hosts, NEW c \in Cores PROVE remain'[h][c] >= remain[h][c]
    BY <1>2, GiveBackTypes
  <2> DEFINE d == Draw(Chunks(t)[job[t].next], req[t[1]].ask.nshare, c)
  <2>2. d \in Nat
    BY <2>1, DrawNat
  <2>3. remain'[h][c] = IF h = t[2] THEN remain[h][c] + d ELSE remain[h][c]
    BY <1>2, GiveBackTypes
  <2> HIDE DEF d
  <2> QED
    BY <1>1, <2>2, <2>3
<1>3. ASSUME NEW j \in Jobs, ReleaseCores(j)
      PROVE  UNCHANGED req /\ \A h \in Hosts, c \in Cores : remain'[h][c] >= remain[h][c]
  <2> DEFINE b == job[j].box
             s == IF box[b].key THEN NShare(b) ELSE 0
  <2>1. s \in Nat /\ job[j].cores \in AllocationType /\ UNCHANGED req
    BY <1>3, ReleaseTypes
  <2> SUFFICES ASSUME NEW h \in Hosts, NEW c \in Cores PROVE remain'[h][c] >= remain[h][c]
    BY <2>1
  <2> DEFINE d == Draw(job[j].cores, s, c)
  <2>2. d \in Nat
    BY <2>1, DrawNat
  <2>3. remain'[h][c] = IF h = HostOf(b) THEN remain[h][c] + d ELSE remain[h][c]
    BY <1>3, ReleaseTypes
  <2> HIDE DEF d, s
  <2> QED
    BY <1>1, <2>2, <2>3
<1>4. ASSUME UNCHANGED <<remain, req>>
      PROVE  UNCHANGED req /\ \A h \in Hosts, c \in Cores : remain'[h][c] >= remain[h][c]
  BY <1>1, <1>4
<1>5. ASSUME NEW t \in TaskIds, Create(t) PROVE CreateContainerFails(t) \/ UNCHANGED <<remain, req>>
  BY <1>5 DEF Create, StartTask, CreateContainer, RecordContainer, SaveCores, AllocateIPs,
              AllocateIPsFails, FinishTask
<1>6. ASSUME NEW j \in Jobs, Removal(j) PROVE ReleaseCores(j) \/ UNCHANGED <<remain, req>>
  BY <1>6 DEF Removal, Delete, RemoveFromDocker, RemoveFromDockerFails, ReadCores, DropRecord
<1>7. ASSUME NEW j \in Jobs, Crash(j) PROVE UNCHANGED <<remain, req>>
  BY <1>7 DEF Crash
<1>8. ASSUME NEW r \in Removers, NEW b \in DOMAIN box, BeginRemoval(r, b) PROVE UNCHANGED <<remain, req>>
  BY <1>8 DEF BeginRemoval
<1>9. ASSUME (\E j \in Jobs : StopAgain(j)) \/ AllDone \/ UNCHANGED vars PROVE UNCHANGED <<remain, req>>
  BY <1>9 DEF StopAgain, AllDone, vars
<1> QED
  BY <1>2, <1>3, <1>4, <1>5, <1>6, <1>7, <1>8, <1>9

LEMMA NobodyElse ==
  ASSUME IInv, PlansFit, MaxInFlight = 1, NEW q \in Requests, Submit(q) \/ Handler(q),
         NEW p \in Requests \ {q}
  PROVE  ~Serving(p)
<1>1. CASE Submit(q)
  <2> DEFINE S == {r \in Requests : Serving(r)}
  <2>1. Cardinality(S) < 1
    BY <1>1 DEF Submit
  <2>2. IsFiniteSet(S)
    BY Finite, FS_Subset
  <2>3. S = {}
    BY <2>1, <2>2, FS_EmptySet, FS_CardinalityType
  <2> QED
    BY <2>3
<1>2. CASE Handler(q)
  <2>1. Serving(q)
    BY <1>2 DEF Handler, Schedule, Answer, AcquireLock, Refuse, CountRaises, Accept, ShareOut,
                MeasureHost, TakeCores, Spin, CreateTask, CreateTaskFails, EnqueueFails, OccupyCores,
                Serving, RequestEnded
  <2> QED
    BY <2>1 DEF PlansFit
<1> QED
  BY <1>1, <1>2

\* With one request there is one plan to look at.
LEMMA OnePlan ==
  ASSUME IInv, PlansFit, MaxInFlight = 1, NEW q \in Requests, Submit(q) \/ Handler(q),
         \A p \in Requests \ {q} : req'[p] = req[p],
         \A h \in Hosts, c \in Cores : remain'[h][c] >= 0,
         \A h \in Hosts : Open(q, h)' => Fits(q, h)'
  PROVE  PlansFit'
<1>1. \A p \in Requests \ {q} : ~Serving(p)'
  BY NobodyElse DEF Serving
<1> QED
  BY <1>1 DEF PlansFit

LEMMA FitScheduling ==
  ASSUME IInv, PlansFit, MaxInFlight = 1, NEW q \in Requests, Submit(q) \/ Schedule(q),
         SchedulingStep(q)
  PROVE  PlansFit'
<1>1. PICK r \in RequestType : BecomesEarly(q, r)
  BY DEF SchedulingStep
<1>2. UNCHANGED remain /\ Early(q) /\ RequestShape(q) /\ req[q] \in RequestType /\ Types
  BY DEF SchedulingStep, IInv, Types
<1>3. req' = [req EXCEPT ![q] = r] /\ req'[q] = r /\ \A p \in Requests \ {q} : req'[p] = req[p]
  BY <1>1 DEF BecomesEarly, IInv, Types
<1>4. \A h \in Hosts, c \in Cores : remain[h][c] >= 0 /\ remain'[h][c] = remain[h][c]
  BY <1>2 DEF PlansFit
<1>5. ASSUME NEW h \in Hosts, Open(q, h)' PROVE Fits(q, h)'
  <2>1. h \in DOMAIN r.plan
    BY <1>3, <1>5 DEF Open
  <2>2. CASE Submit(q)
    <3>0. PICK a \in Asks : req' = [req EXCEPT ![q].pc = "lock", ![q].ask = a]
      BY <2>2 DEF Submit
    <3>1. req'[q].plan = req[q].plan
      BY <1>2, <3>0 DEF RequestType, Types
    <3>2. DOMAIN req[q].plan = {}
      BY <1>2, <2>2 DEF Submit, RequestShape
    <3> QED
      BY <1>3, <2>1, <3>1, <3>2
  <2>3. CASE Schedule(q)
    <3>1. Serving(q) /\ req[q].pc # "new" /\ req[q].pc \notin {"enqueue", "occupy"}
      BY <2>3 DEF Schedule, AcquireLock, Refuse, CountRaises, Accept, ShareOut, MeasureHost,
                  TakeCores, Spin, Serving, RequestEnded
    <3>2. r.ask = req[q].ask
      BY <1>1, <3>1 DEF BecomesEarly
    <3>3. CASE h \in DOMAIN req[q].plan /\ r.plan[h] = req[q].plan[h]
      <4>1. Fits(q, h)
        BY <3>1, <3>3 DEF PlansFit, Open
      <4> QED
        BY <1>2, <1>3, <3>2, <3>3, <4>1 DEF Fits
    <3>4. CASE Fresh(q, h, r.plan[h])
      <4> DEFINE ask == req[q].ask
      <4>1. PICK total \in Int :
               /\ CoresDefined(remain[h], total, ask.ncore, ask.nshare)
               /\ r.plan[h].cores = ContainerCores(remain[h], total, ask.ncore, ask.nshare)
        BY <3>4 DEF Fresh
      <4>2. /\ ask.ncore \in Nat /\ ask.nshare \in Nat /\ ask.nshare < CoreShare
            /\ remain[h] \in [Cores -> Int]
        BY <1>2, AskTypes DEF Types, RequestType
      <4>3. ASSUME NEW c \in Cores
            PROVE  Draw(r.plan[h].cores, ask.nshare, c) <= remain[h][c]
        BY <1>4, <4>1, <4>2, PlanFits
      <4> QED
        BY <1>2, <1>3, <3>2, <4>3 DEF Fits
    <3> QED
      BY <1>1, <2>1, <3>3, <3>4 DEF BecomesEarly
  <2> QED
    BY <2>2, <2>3
<1> QED
  BY <1>3, <1>4, <1>5, OnePlan DEF Handler

LEMMA FitAnswering ==
  ASSUME IInv, PlansFit, MaxInFlight = 1, NEW q \in Requests, Answer(q)
  PROVE  PlansFit'
<1>1. req \in [Requests -> RequestType] /\ req[q] \in RequestType /\ RequestShape(q)
  BY DEF IInv, Types
<1>2. \A h \in Hosts, c \in Cores : remain[h][c] >= 0 /\ remain[h][c] \in Int
  BY SlackInt DEF PlansFit
<1>3. Serving(q) /\ Handler(q)
  BY DEF Answer, CreateTask, CreateTaskFails, EnqueueFails, OccupyCores, Serving, RequestEnded, Handler
<1>4. \A h \in Hosts : Open(q, h) => Fits(q, h)
  BY <1>3 DEF PlansFit
\* The ledger stays, and no host becomes open.
<1>5. ASSUME UNCHANGED remain, \A p \in Requests \ {q} : req'[p] = req[p],
             req'[q].plan = req[q].plan, req'[q].ask = req[q].ask,
             req'[q].pc \in {"enqueue", "occupy"} => req'[q].todo \subseteq req[q].todo,
             req[q].pc \in {"enqueue", "occupy"},
             req'[q].pc \in {"enqueue", "occupy"} \/ ~Serving(q)'
      PROVE  PlansFit'
  <2>1. CASE Serving(q)'
    <3>1. \A h \in Hosts : Open(q, h)' => Open(q, h)
      BY <1>5, <2>1 DEF Open
    <3>2. \A h \in Hosts : Open(q, h)' => Fits(q, h)'
      BY <1>4, <1>5, <3>1 DEF Fits
    <3> QED
      BY <1>2, <1>3, <1>5, <3>2, OnePlan
  <2>2. CASE ~Serving(q)'
    <3>1. \A p \in Requests : ~Serving(p)'
      BY <1>3, <1>5, <2>2, NobodyElse DEF Serving
    <3> QED
      BY <1>2, <1>5, <3>1 DEF PlansFit
  <2> QED
    BY <2>1, <2>2
<1>6. ASSUME NEW g \in Hosts, CreateTask(q, g) PROVE PlansFit'
  <2>1. /\ UNCHANGED remain /\ req[q].pc = "enqueue" /\ req'[q].pc = "occupy"
        /\ req'[q].plan = req[q].plan /\ req'[q].ask = req[q].ask /\ req'[q].todo = req[q].todo
        /\ \A p \in Requests \ {q} : req'[p] = req[p]
    BY <1>1, <1>6 DEF CreateTask, RequestType
  <2> QED
    BY <1>5, <2>1
<1>7. ASSUME NEW g \in Hosts, CreateTaskFails(q, g) PROVE PlansFit'
  <2>1. /\ UNCHANGED remain /\ req[q].pc = "enqueue" /\ req'[q].pc \in {"enqueue", "done"}
        /\ req'[q].plan = req[q].plan /\ req'[q].ask = req[q].ask
        /\ req'[q].todo = req[q].todo \ {g}
        /\ \A p \in Requests \ {q} : req'[p] = req[p]
    BY <1>1, <1>7 DEF CreateTaskFails, NextHost, RequestType
  <2> QED
    BY <1>5, <2>1 DEF Serving, RequestEnded
<1>8. ASSUME NEW g \in Hosts, EnqueueFails(q, g) PROVE PlansFit'
  <2>1. /\ UNCHANGED remain /\ req[q].pc = "enqueue" /\ req'[q].pc = "raised"
        /\ req'[q].plan = req[q].plan /\ req'[q].ask = req[q].ask
        /\ \A p \in Requests \ {q} : req'[p] = req[p]
    BY <1>1, <1>8 DEF EnqueueFails, RequestType
  <2> QED
    BY <1>5, <2>1 DEF Serving, RequestEnded
<1>9. ASSUME OccupyCores(q) PROVE PlansFit'
  <2>0. PICK h : h = req[q].at
    OBVIOUS
  <2>1. /\ req[q].pc = "occupy" /\ h \in Hosts /\ h \in req[q].todo /\ h \in DOMAIN req[q].plan
        /\ req[q].plan[h].cores \in AllocationType /\ req[q].ask.nshare \in Nat
        /\ req' = NextHost(q, h)
        /\ \A g \in Hosts, c \in Cores :
              remain'[g][c] = IF g = h
                              THEN remain[h][c] - Draw(req[q].plan[h].cores, req[q].ask.nshare, c)
                              ELSE remain[g][c]
    BY <1>9, <2>0, OccupyTypes
  <2>2. Fits(q, h)
    BY <1>4, <2>1 DEF Open
  <2>3. /\ req'[q].pc \in {"enqueue", "done"} /\ req'[q].todo = req[q].todo \ {h}
        /\ req'[q].plan = req[q].plan /\ req'[q].ask = req[q].ask
        /\ \A p \in Requests \ {q} : req'[p] = req[p]
    BY <1>1, <2>1 DEF NextHost, RequestType
  <2>4. ASSUME NEW g \in Hosts, NEW c \in Cores PROVE remain'[g][c] >= 0
    <3> DEFINE d == Draw(req[q].plan[h].cores, req[q].ask.nshare, c)
    <3>1. d \in Nat /\ d <= remain[h][c]
      BY <2>1, <2>2, DrawNat DEF Fits
    <3>2. remain'[g][c] = IF g = h THEN remain[h][c] - d ELSE remain[g][c]
      BY <2>1
    <3> HIDE DEF d
    <3> QED
      BY <1>2, <2>1, <3>1, <3>2
  <2>5. CASE req'[q].pc = "enqueue"
    <3>1. ASSUME NEW g \in Hosts, Open(q, g)' PROVE Fits(q, g)'
      <4>1. g # h /\ Open(q, g)
        BY <2>1, <2>3, <2>5, <3>1 DEF Open
      <4>2. Fits(q, g) /\ \A c \in Cores : remain'[g][c] = remain[g][c]
        BY <1>4, <2>1, <4>1
      <4> QED
        BY <2>3, <4>2 DEF Fits
    <3> QED
      BY <1>3, <2>3, <2>4, <3>1, OnePlan
  <2>6. CASE req'[q].pc = "done"
    <3>1. \A p \in Requests : ~Serving(p)'
      BY <1>3, <2>3, <2>6, NobodyElse DEF Serving, RequestEnded
    <3> QED
      BY <2>4, <3>1 DEF PlansFit
  <2> QED
    BY <2>3, <2>5, <2>6
<1> QED
  BY <1>6, <1>7, <1>8, <1>9 DEF Answer

LEMMA FitWorking ==
  ASSUME IInv, PlansFit, UNCHANGED req, \A h \in Hosts, c \in Cores : remain'[h][c] >= remain[h][c],
         Types'
  PROVE  PlansFit'
<1>1. \A h \in Hosts, c \in Cores :
         /\ remain[h][c] \in Int /\ remain'[h][c] \in Int
         /\ remain'[h][c] >= 0 /\ remain'[h][c] >= remain[h][c]
  BY DEF IInv, Types, PlansFit
<1>2. \A q \in Requests : Serving(q)' <=> Serving(q)
  BY DEF Serving
<1>3. ASSUME NEW q \in Requests, NEW h \in Hosts, Serving(q)', Open(q, h)' PROVE Fits(q, h)'
  <2>1. Fits(q, h) /\ h \in DOMAIN req[q].plan
    BY <1>2, <1>3 DEF PlansFit, Open
  <2>2. req[q].plan[h].cores \in AllocationType /\ req[q].ask.nshare \in Nat
    BY <2>1, PlanTypes, NShareTypes DEF IInv, Types, RequestType
  <2>3. ASSUME NEW c \in Cores
        PROVE  Draw(req[q].plan[h].cores, req[q].ask.nshare, c) <= remain'[h][c]
    <3> DEFINE d == Draw(req[q].plan[h].cores, req[q].ask.nshare, c)
    <3>1. d \in Nat /\ d <= remain[h][c]
      BY <2>1, <2>2, DrawNat DEF Fits
    <3> HIDE DEF d
    <3>2. d <= remain'[h][c]
      BY <1>1, <3>1
    <3> QED
      BY <3>2 DEF d
  <2> QED
    BY <2>3 DEF Fits
<1> QED
  BY <1>1, <1>2, <1>3 DEF PlansFit

LEMMA InitiallyFits == Init => PlansFit
<1> SUFFICES ASSUME Init PROVE PlansFit
  OBVIOUS
<1>1. \A q \in Requests : ~Serving(q)
  BY DEF Init, Serving, NewRequest
<1>2. \A h \in Hosts, c \in Cores : remain[h][c] >= 0
  BY ShareAssumption DEF Init
<1> QED
  BY <1>1, <1>2 DEF PlansFit

LEMMA PlansFitKept ==
  ASSUME IInv, IInv', PlansFit, MaxInFlight = 1, [Next]_vars
  PROVE  PlansFit'
<1>1. ASSUME UNCHANGED vars PROVE PlansFit'
  BY <1>1 DEF PlansFit, vars, Serving, Open, Fits
<1>2. ASSUME NEW q \in Requests, Submit(q) \/ Schedule(q) PROVE PlansFit'
  <2>1. SchedulingStep(q) \/ UNCHANGED vars
    BY <1>2, SchedulingSteps DEF IInv
  <2> QED
    BY <1>1, <1>2, <2>1, FitScheduling
<1>3. ASSUME NEW q \in Requests, Answer(q) PROVE PlansFit'
  BY <1>3, FitAnswering
<1>4. ASSUME \/ \E t \in TaskIds : Create(t)
             \/ \E j \in Jobs : Removal(j) \/ Crash(j)
             \/ \E r \in Removers : \E b \in DOMAIN box : BeginRemoval(r, b)
             \/ \E j \in Jobs : StopAgain(j)
             \/ AllDone \/ UNCHANGED vars
      PROVE  PlansFit'
  <2>1. UNCHANGED req /\ \A h \in Hosts, c \in Cores : remain'[h][c] >= remain[h][c]
    BY <1>4, WorkersGiveBack
  <2>2. Types'
    BY DEF IInv
  <2> QED
    BY <2>1, <2>2, FitWorking
<1> QED
  BY <1>2, <1>3, <1>4 DEF Next, Handler

\* What the one request claims is still there.
LEMMA ClaimsFit ==
  ASSUME IInv, PlansFit, NEW h \in Hosts, NEW c \in Cores
  PROVE  Claims(h, c) <= remain[h][c]
<1> DEFINE f == [q \in Requests |-> Claim(q, h, c)]
<1>1. Claims(h, c) = SumOver(f, Requests) /\ \A q \in Requests : f[q] = Claim(q, h, c)
  BY DEF Claims
<1> HIDE DEF f
<1>2. remain[h][c] \in Int /\ remain[h][c] >= 0
  BY SlackInt DEF PlansFit
<1>3. CASE \A q \in Requests : Claim(q, h, c) = 0
  BY <1>1, <1>2, <1>3, Finite, NothingYet
<1>4. ASSUME NEW q \in Requests, Claim(q, h, c) # 0 PROVE Claims(h, c) <= remain[h][c]
  <2>1. req[q].pc = "occupy" /\ req[q].at = h
    BY <1>4 DEF Claim
  <2>2. Serving(q) /\ Open(q, h)
    <3>1. RequestShape(q)
      BY DEF IInv
    <3> QED
      BY <2>1, <3>1 DEF RequestShape, Serving, RequestEnded, Open
  <2>3. Claim(q, h, c) <= remain[h][c]
    BY <2>1, <2>2 DEF PlansFit, Fits, Claim
  <2>4. ASSUME NEW p \in Requests \ {q} PROVE f[p] = 0
    <3>1. ~Serving(p)
      BY <2>2 DEF PlansFit
    <3> QED
      BY <1>1, <3>1 DEF Claim, Serving, RequestEnded
  <2>5. SumOver(f, Requests) = f[q] + SumOver(f, Requests \ {q})
    <3>1. Ints(f, Requests)
      BY <1>1, ClaimNat DEF Ints
    <3> QED
      BY <3>1, Finite, SumRemove
  <2>6. SumOver(f, Requests \ {q}) = 0
    <3>1. IsFiniteSet(Requests \ {q})
      BY Finite, FS_Subset
    <3> QED
      BY <2>4, <3>1, NothingYet
  <2>7. f[q] \in Nat /\ f[q] <= remain[h][c]
    BY <1>1, <2>3, ClaimNat
  <2> QED
    BY <1>1, <1>2, <2>5, <2>6, <2>7
<1> QED
  BY <1>3, <1>4

LEMMA FitNotOvercommitted ==
  ASSUME IInv, Accounted, PlansFit
  PROVE  CoresNotOvercommitted
<1> SUFFICES ASSUME NEW h \in Hosts, NEW c \in Cores PROVE InUse(h, c) <= CoreShare
  BY DEF CoresNotOvercommitted
<1>1. remain[h][c] \in Int /\ Claims(h, c) \in Int /\ InUse(h, c) \in Int /\ CoreShare \in Int
  BY SlackInt, InUseCharged, ShareAssumption
<1>2. remain[h][c] + InUse(h, c) <= CoreShare + Claims(h, c)
  BY InUseBound
<1>3. Claims(h, c) <= remain[h][c]
  BY ClaimsFit
<1> QED
  BY <1>1, <1>2, <1>3

\* While the API serves one request at a time, what a request plans is still
\* free when its cores are occupied, and no score of the ledger is negative.
THEOREM PlansStayFree == MaxInFlight = 1 => (Spec => []PlansFit)
<1>1. MaxInFlight = 1 /\ IInv /\ IInv' /\ PlansFit /\ [Next]_vars => PlansFit'
  BY PlansFitKept
<1>2. CASE MaxInFlight = 1
  BY <1>1, <1>2, InitiallyFits, Structure, PTL DEF Spec
<1> QED
  BY <1>2

\* While the API serves one request at a time and removals of one container do
\* not overlap, the containers of a host never use more of a core than there
\* is of it, whatever fails or dies.
THEOREM NotOvercommitted ==
  ~Overlapping /\ MaxInFlight = 1 => (Spec => []CoresNotOvercommitted)
<1>1. IInv /\ Accounted /\ PlansFit => CoresNotOvercommitted
  BY FitNotOvercommitted
<1>2. CASE ~Overlapping /\ MaxInFlight = 1
  BY <1>1, <1>2, Structure, Accounting, PlansStayFree, PTL
<1> QED
  BY <1>2

-----------------------------------------------------------------------------
(* At rest the ledger is exact.                                            *)

LEMMA ChargesNat ==
  ASSUME IInv, NEW h \in Hosts, NEW c \in Cores
  PROVE  Charges(h, c) >= 0
<1> DEFINE D == DOMAIN box
           g == [b \in D |-> Charge(b, h, c)]
<1>1. Ints(g, D) /\ \A b \in D : g[b] >= 0
  BY ChargeNat DEF Ints
<1>2. Charges(h, c) = SumOver(g, D) /\ IsFiniteSet(D)
  BY DEF Charges, IInv, Types
<1> HIDE DEF g, D
<1>3. 0 <= SumOver(g, D)
  BY <1>1, <1>2, SumSubset
<1>4. SumOver(g, D) \in Int
  BY <1>1, <1>2, SumInt
<1> QED
  BY <1>2, <1>3, <1>4

\* While a request is being scheduled no score is above that of a whole core.
LEMMA ShowsAtMostWhole == IInv /\ Accounted /\ PlansFit => AtMostWhole
<1> SUFFICES ASSUME IInv, Accounted, PlansFit, NEW q \in Requests, Scheduling(q),
                    NEW h \in Hosts, NEW c \in Cores
             PROVE  remain[h][c] <= CoreShare
  BY DEF AtMostWhole
<1>1. Serving(q)
  BY DEF Scheduling, Serving, RequestEnded
<1>2. \A p \in Requests : Claim(p, h, c) = 0
  BY <1>1 DEF PlansFit, Claim, Scheduling, Serving, RequestEnded
<1>3. Claims(h, c) = 0
  BY <1>2, Finite, NothingYet DEF Claims
<1>4. Slack(h, c) >= 0 /\ Debts(h, c) >= 0 /\ Charges(h, c) >= 0
  BY DebtsNat, ChargesNat DEF Accounted
<1>5. /\ Debts(h, c) \in Int /\ Charges(h, c) \in Int
      /\ Cap(h, c) \in Int /\ remain[h][c] \in Int
  BY SlackInt
<1>6. Cap(h, c) <= CoreShare /\ CoreShare \in Int
  BY ShareAssumption DEF Cap
<1> QED
  BY <1>3, <1>4, <1>5, <1>6 DEF Slack

LEMMA OrderlyAsk ==
  ASSUME OrderlyAsks, IInv, NEW q \in Requests
  PROVE  /\ req[q].ask.n >= 0 /\ req[q].ask.n \in Int
         /\ req[q].ask.ncore \in Nat /\ req[q].ask.nshare \in Nat /\ req[q].ask.nshare < CoreShare
         /\ ByQuota(q) => req[q].ask.nshare = 0
         /\ \A h \in Hosts : CountDefined(remain[h], req[q].ask.ncore, req[q].ask.nshare) =>
               /\ req[q].ask.ncore # 0
               /\ Capacity(q, h) \in Nat /\ Capacity(q, h) <= Len(FullCores(remain[h]))
<1> DEFINE a == req[q].ask
<1>1. a \in Asks \cup {NoAsk} /\ Types
  BY DEF IInv, Types, RequestType
<1>2. a.n \in Int /\ a.ncore \in Nat /\ a.nshare \in Nat /\ a.nshare < CoreShare
  BY <1>1, AskTypes
<1>3. a.n >= 0 /\ (a.nshare > 0 => a.ncore > 0 /\ (a.strategy = "centralized" \/ a.on # AnyHost))
  BY <1>1 DEF OrderlyAsks, NoAsk
<1>4. ByQuota(q) => a.nshare = 0
  BY <1>2, <1>3 DEF ByQuota, Pinned
<1>5. ASSUME NEW h \in Hosts, CountDefined(remain[h], a.ncore, a.nshare)
      PROVE  /\ a.ncore # 0
             /\ Capacity(q, h) \in Nat /\ Capacity(q, h) <= Len(FullCores(remain[h]))
  <2>1. a.ncore # 0
    BY <1>2, <1>3, <1>5 DEF CountDefined
  <2>2. remain[h] \in [Cores -> Int]
    BY <1>1 DEF Types
  <2> QED
    BY <1>2, <1>5, <2>1, <2>2, CountAtMost DEF Capacity
<1> QED
  BY <1>2, <1>3, <1>4, <1>5

\* A request that is not being scheduled keeps its plan.
LEMMA ExactKept ==
  ASSUME NEW q \in Requests, Exact(q), req'[q].plan = req[q].plan,
         req'[q].pc \notin {"share", "measure", "take"}
  PROVE  Exact(q)'
BY DEF Exact

LEMMA ExactLeaving ==
  ASSUME NEW q \in Requests, req \in [Requests -> RequestType], NEW state,
         state \in {"raised", "rejected"}, Leave(q, state)
  PROVE  Exact(q)'
<1>1. req'[q].plan = NoPlan /\ req'[q].pc = state /\ DOMAIN NoPlan = {}
  BY PlanTypes DEF Leave, Left, NewRequest
<1> QED
  BY <1>1 DEF Exact

LEMMA ExactMeasuring ==
  ASSUME OrderlyAsks, IInv, NEW q \in Requests, Exact(q), NEW h \in Hosts, MeasureHost(q, h)
  PROVE  Exact(q)'
<1>1. req \in [Requests -> RequestType] /\ req[q] \in RequestType
  BY DEF IInv, Types
<1>2. CASE ~CountDefined(remain[h], req[q].ask.ncore, req[q].ask.nshare)
  BY <1>1, <1>2, ExactLeaving DEF MeasureHost
<1>3. CASE CountDefined(remain[h], req[q].ask.ncore, req[q].ask.nshare)
  <2> DEFINE k == Capacity(q, h)
  <2>1. /\ req[q].pc = "measure" /\ h \in req[q].todo
        /\ req' = [req EXCEPT ![q].pc = "take", ![q].at = h, ![q].limit = k]
        /\ UNCHANGED remain
    BY <1>3 DEF MeasureHost
  <2>2. req[q].ask.ncore # 0 /\ k \in Nat /\ k <= Len(FullCores(remain[h]))
    BY <1>3, OrderlyAsk
  <2>3. ByQuota(q) => /\ req[q].quota[h] <= k
                      /\ \A g \in req[q].todo :
                            /\ 0 < req[q].quota[g]
                            /\ req[q].quota[g] <= Capacity(q, g)
    BY <2>1 DEF Exact
  <2> HIDE DEF k
  <2>4. /\ req'[q].pc = "take" /\ req'[q].at = h /\ req'[q].limit = k
        /\ req'[q].ask = req[q].ask /\ req'[q].todo = req[q].todo
        /\ req'[q].quota = req[q].quota /\ req'[q].need = req[q].need
        /\ req'[q].plan = req[q].plan
    BY <1>1, <2>1 DEF RequestType
  <2>5. /\ ByQuota(q)' <=> ByQuota(q)
        /\ \A g \in Hosts : Capacity(q, g)' = Capacity(q, g)
    BY <2>1, <2>4 DEF ByQuota, Pinned, Capacity
  <2>6. req[q].todo \subseteq Hosts
    BY <1>1 DEF RequestType
  <2>7. req[q].need >= 0 \/ ByQuota(q)
    BY <2>1 DEF Exact
  <2>8. \A g \in DOMAIN req[q].plan :
           /\ req[q].plan[g].count > 0
           /\ Divisible(req[q].plan[g].cores, req[q].plan[g].count)
    BY DEF Exact
  <2>9. 0 <= k
    BY <2>2
  <2>10. ByQuota(q)' => \A g \in req'[q].todo :
            /\ req'[q].ask.ncore # 0
            /\ 0 < req'[q].quota[g] /\ req'[q].quota[g] <= Capacity(q, g)'
    BY <2>2, <2>3, <2>4, <2>5, <2>6
  <2>11. remain' = remain
    BY <2>1
  <2>12. /\ req'[q].ask.ncore # 0
         /\ 0 <= req'[q].limit /\ req'[q].limit <= Len(FullCores(remain'[req'[q].at]))
         /\ ByQuota(q)' => req'[q].quota[req'[q].at] <= req'[q].limit
    BY <2>2, <2>3, <2>4, <2>5, <2>9, <2>11
  <2> QED
    BY <2>4, <2>5, <2>7, <2>8, <2>10, <2>12 DEF Exact
<1> QED
  BY <1>2, <1>3

LEMMA ExactSharing ==
  ASSUME OrderlyAsks, IInv, NEW q \in Requests, Exact(q), ShareOut(q)
  PROVE  Exact(q)'
<1>1. req \in [Requests -> RequestType] /\ req[q] \in RequestType
  BY DEF IInv, Types
<1> DEFINE n == IF req[q].need > 0 THEN req[q].need ELSE 0
           deals == RoundRobin([h \in Hosts |-> Capacity(q, h)], n)
           chosen(u) == {h \in Hosts : u[h] > 0}
<1>2. /\ req[q].pc = "share" /\ UNCHANGED remain /\ CapacityDefined(q)
      /\ \/ Leave(q, "rejected")
         \/ \E u \in deals :
               req' = [req EXCEPT ![q].pc = "measure", ![q].quota = u, ![q].todo = chosen(u)]
         \/ req' = [req EXCEPT ![q].pc = "spin"]
  BY DEF ShareOut
<1>3. CASE Leave(q, "rejected")
  BY <1>1, <1>3, ExactLeaving
<1>4. CASE req' = [req EXCEPT ![q].pc = "spin"]
  <2>1. req'[q].pc = "spin" /\ req'[q].plan = req[q].plan
    BY <1>1, <1>4 DEF RequestType
  <2> QED
    BY <2>1, ExactKept
<1>5. ASSUME NEW u \in deals,
             req' = [req EXCEPT ![q].pc = "measure", ![q].quota = u, ![q].todo = chosen(u)]
      PROVE  Exact(q)'
  <2>1. \A h \in Hosts : Capacity(q, h) < 0 \/ u[h] <= Capacity(q, h)
    BY DEF RoundRobin
  <2>2. \A h \in Hosts : Capacity(q, h) \in Nat /\ req[q].ask.ncore # 0
    BY <1>2, OrderlyAsk DEF CapacityDefined
  <2>3. /\ req'[q].pc = "measure" /\ req'[q].quota = u /\ req'[q].todo = chosen(u)
        /\ req'[q].ask = req[q].ask /\ req'[q].need = req[q].need
        /\ req'[q].plan = req[q].plan
    BY <1>1, <1>5 DEF RequestType
  <2> HIDE DEF deals, n
  <2>4. /\ ByQuota(q)' <=> ByQuota(q)
        /\ \A g \in Hosts : Capacity(q, g)' = Capacity(q, g)
    BY <1>2, <2>3 DEF ByQuota, Pinned, Capacity
  <2>5. req[q].need >= 0 \/ ByQuota(q)
    BY <1>2 DEF Exact
  <2>6. \A g \in req'[q].todo :
           /\ req'[q].ask.ncore # 0
           /\ 0 < req'[q].quota[g] /\ req'[q].quota[g] <= Capacity(q, g)'
    <3> SUFFICES ASSUME NEW g \in chosen(u)
                 PROVE  /\ req[q].ask.ncore # 0
                        /\ 0 < u[g] /\ u[g] <= Capacity(q, g)
      BY <2>3, <2>4
    <3>1. ~(Capacity(q, g) < 0) /\ u[g] > 0
      BY <2>2
    <3> QED
      BY <2>1, <2>2, <3>1
  <2>7. \A g \in DOMAIN req[q].plan :
           /\ req[q].plan[g].count > 0
           /\ Divisible(req[q].plan[g].cores, req[q].plan[g].count)
    BY DEF Exact
  <2> QED
    BY <2>3, <2>4, <2>5, <2>6, <2>7 DEF Exact
<1> QED
  BY <1>2, <1>3, <1>4, <1>5

LEMMA ExactAccepting ==
  ASSUME OrderlyAsks, IInv, NEW q \in Requests, Exact(q), Accept(q)
  PROVE  Exact(q)'
<1> DEFINE state == IF ByQuota(q) THEN "share" ELSE "measure"
<1>1. req \in [Requests -> RequestType] /\ req[q] \in RequestType
  BY DEF IInv, Types
<1>2. /\ req'[q].pc = state /\ req'[q].plan = req[q].plan /\ req'[q].ask = req[q].ask
      /\ req'[q].need = req[q].ask.n
  BY <1>1 DEF Accept, RequestType
<1>3. req[q].ask.n >= 0
  BY OrderlyAsk
<1>4. ByQuota(q)' <=> ByQuota(q)
  BY <1>2 DEF ByQuota, Pinned
<1>5. \A g \in DOMAIN req[q].plan :
         /\ req[q].plan[g].count > 0
         /\ Divisible(req[q].plan[g].cores, req[q].plan[g].count)
  BY DEF Exact
<1> QED
  BY <1>2, <1>3, <1>4, <1>5 DEF Exact

LEMMA ExactTaking ==
  ASSUME OrderlyAsks, IInv, NEW q \in Requests, Exact(q), TakeCores(q)
  PROVE  Exact(q)'
<1> DEFINE h == req[q].at
           ask == req[q].ask
           total == Smaller(Wanted(q), req[q].limit)
           found == IF ByQuota(q) THEN req[q].quota[h] ELSE total
           cores == ContainerCores(remain[h], total, ask.ncore, ask.nshare)
           entry == [count |-> found, cores |-> cores]
           plan == IF found = 0 THEN req[q].plan
                   ELSE [g \in DOMAIN req[q].plan \cup {h} |->
                           IF g = h THEN entry ELSE req[q].plan[g]]
           need == req[q].need - found
           todo == HostsLeft(q, need)
           Good(p) == p.count > 0 /\ Divisible(p.cores, p.count)
<1>1. req \in [Requests -> RequestType] /\ req[q] \in RequestType /\ RequestShape(q) /\ Types
  BY DEF IInv, Types
<1>2. /\ req[q].pc = "take" /\ UNCHANGED remain
      /\ \/ Leave(q, "raised")
         \/ /\ CoresDefined(remain[h], total, ask.ncore, ask.nshare)
            /\ req' = [req EXCEPT ![q].pc = "measure", ![q].plan = plan,
                                  ![q].need = need, ![q].todo = todo]
         \/ /\ CoresDefined(remain[h], total, ask.ncore, ask.nshare)
            /\ req' = Left(q, IF DOMAIN plan = {} THEN "rejected" ELSE "enqueue", plan)
  BY DEF TakeCores
<1>3. h \in req[q].todo /\ req[q].todo \subseteq Hosts /\ h \in Hosts
  BY <1>1, <1>2 DEF RequestShape, RequestType
<1>4. /\ ask.ncore # 0 /\ 0 <= req[q].limit
      /\ req[q].limit <= Len(FullCores(remain[h]))
      /\ ByQuota(q) => 0 < req[q].quota[h] /\ req[q].quota[h] <= req[q].limit
      /\ req[q].need >= 0 \/ ByQuota(q)
      /\ \A g \in DOMAIN req[q].plan : Good(req[q].plan[g])
  BY <1>2, <1>3 DEF Exact
<1>5. /\ req[q].quota[h] \in Int /\ req[q].need \in Int /\ req[q].limit \in Int
      /\ remain[h] \in [Cores -> Int] /\ Len(FullCores(remain[h])) \in Nat
  BY <1>1, <1>3, FullCoresList DEF Types, RequestType
<1>6. /\ found = total /\ total \in Nat /\ total <= Len(FullCores(remain[h]))
      /\ need \in Int /\ (need >= 0 \/ ByQuota(q))
  <2>1. CASE ByQuota(q)
    <3>1. Wanted(q) = req[q].quota[h]
      BY <2>1 DEF Wanted
    <3>2. total = req[q].quota[h]
      BY <1>4, <1>5, <2>1, <3>1 DEF Smaller
    <3>3. found = total
      BY <2>1, <3>2
    <3> HIDE DEF total, found, h
    <3> QED
      BY <1>4, <1>5, <2>1, <3>2, <3>3
  <2>2. CASE ~ByQuota(q)
    <3>1. Wanted(q) = req[q].need /\ req[q].need >= 0 /\ found = total
      BY <1>4, <2>2 DEF Wanted
    <3>2. total \in Nat /\ total <= req[q].limit /\ total <= req[q].need
      BY <1>4, <1>5, <3>1 DEF Smaller
    <3> HIDE DEF total, found, h
    <3> QED
      BY <1>4, <1>5, <2>2, <3>1, <3>2
  <2> QED
    BY <2>1, <2>2
<1>7. ASSUME CoresDefined(remain[h], total, ask.ncore, ask.nshare)
      PROVE  \A g \in DOMAIN plan : Good(plan[g])
  <2>1. CASE found = 0
    BY <1>4, <2>1
  <2>2. CASE found # 0
    <3>1. Divisible(cores, total)
      <4>1. ask.ncore \in Nat /\ ask.nshare \in Nat /\ ask.nshare < CoreShare /\ total # 0
        BY <1>6, <2>2, OrderlyAsk
      <4> HIDE DEF total, found, h, ask
      <4> QED
        BY <1>5, <1>6, <1>7, <4>1, PlanDivisible
    <3> HIDE DEF cores
    <3>2. entry.count = found /\ entry.cores = cores
      OBVIOUS
    <3> HIDE DEF entry, total, found
    <3>3. Good(entry)
      BY <1>6, <2>2, <3>1, <3>2
    <3> HIDE DEF Good, h
    <3>4. plan = [g \in DOMAIN req[q].plan \cup {h} |-> IF g = h THEN entry ELSE req[q].plan[g]]
      BY <2>2
    <3> HIDE DEF plan
    <3> QED
      BY <1>4, <3>3, <3>4
  <2> QED
    BY <2>1, <2>2
<1>8. CASE Leave(q, "raised")
  BY <1>1, <1>8, ExactLeaving
<1>9. ASSUME CoresDefined(remain[h], total, ask.ncore, ask.nshare),
             req' = [req EXCEPT ![q].pc = "measure", ![q].plan = plan,
                                ![q].need = need, ![q].todo = todo]
      PROVE  Exact(q)'
  <2>1. \A g \in DOMAIN plan : Good(plan[g])
    BY <1>7, <1>9
  <2>2. todo \subseteq req[q].todo
    BY DEF HostsLeft
  <2> HIDE DEF total, found, cores, entry, plan, need, todo
  <2>3. /\ req'[q].pc = "measure" /\ req'[q].plan = plan /\ req'[q].need = need
        /\ req'[q].todo = todo /\ req'[q].ask = req[q].ask /\ req'[q].quota = req[q].quota
    BY <1>1, <1>9 DEF RequestType
  <2>4. /\ ByQuota(q)' <=> ByQuota(q)
        /\ \A g \in Hosts : Capacity(q, g)' = Capacity(q, g)
    BY <1>2, <2>3 DEF ByQuota, Pinned, Capacity
  <2>5. ByQuota(q) => \A g \in req[q].todo :
            /\ req[q].ask.ncore # 0
            /\ 0 < req[q].quota[g] /\ req[q].quota[g] <= Capacity(q, g)
    BY <1>2 DEF Exact
  <2>6. ByQuota(q)' => \A g \in req'[q].todo :
            /\ req'[q].ask.ncore # 0
            /\ 0 < req'[q].quota[g] /\ req'[q].quota[g] <= Capacity(q, g)'
    BY <1>3, <2>2, <2>3, <2>4, <2>5
  <2>7. req'[q].need >= 0 \/ ByQuota(q)'
    BY <1>6, <2>3, <2>4
  <2> QED
    BY <2>1, <2>3, <2>6, <2>7 DEF Exact
<1>10. ASSUME CoresDefined(remain[h], total, ask.ncore, ask.nshare),
              req' = Left(q, IF DOMAIN plan = {} THEN "rejected" ELSE "enqueue", plan)
       PROVE  Exact(q)'
  <2>1. \A g \in DOMAIN plan : Good(plan[g])
    BY <1>7, <1>10
  <2> HIDE DEF total, found, cores, entry, plan, need, todo
  <2>2. req'[q].pc \in {"rejected", "enqueue"} /\ req'[q].plan = plan
    BY <1>1, <1>10 DEF Left, NewRequest
  <2> QED
    BY <2>1, <2>2 DEF Exact
<1> QED
  BY <1>2, <1>8, <1>9, <1>10

\* The request itself moves.
LEMMA ExactHandling ==
  ASSUME OrderlyAsks, IInv, NEW q \in Requests, Exact(q), Submit(q) \/ Handler(q)
  PROVE  Exact(q)'
<1>1. req \in [Requests -> RequestType] /\ req[q] \in RequestType
  BY DEF IInv, Types
<1>2. CASE Submit(q)
  <2>1. PICK a \in Asks : req' = [req EXCEPT ![q].pc = "lock", ![q].ask = a]
    BY <1>2 DEF Submit
  <2>2. req'[q].pc = "lock" /\ req'[q].plan = req[q].plan
    BY <1>1, <2>1 DEF RequestType
  <2> QED
    BY <2>2, ExactKept
<1>3. CASE AcquireLock(q)
  <2>1. req'[q].pc = "check" /\ req'[q].plan = req[q].plan
    BY <1>1, <1>3 DEF AcquireLock, RequestType
  <2> QED
    BY <2>1, ExactKept
<1>4. CASE Refuse(q) \/ CountRaises(q)
  <2>1. Leave(q, "rejected") \/ Leave(q, "raised")
    BY <1>4 DEF Refuse, CountRaises
  <2> QED
    BY <1>1, <2>1, ExactLeaving
<1>5. CASE Spin(q)
  BY <1>5 DEF Spin, vars, Exact, ByQuota, Pinned, Capacity
<1>6. CASE Answer(q)
  <2>1. req'[q].plan = req[q].plan /\ req'[q].pc \in {"enqueue", "occupy", "done", "raised"}
    <3>1. ASSUME NEW h \in Hosts, CreateTask(q, h)
          PROVE  req'[q].plan = req[q].plan /\ req'[q].pc = "occupy"
      BY <1>1, <3>1 DEF CreateTask, RequestType
    <3>2. ASSUME NEW h \in Hosts, CreateTaskFails(q, h)
          PROVE  req'[q].plan = req[q].plan /\ req'[q].pc \in {"enqueue", "done"}
      BY <1>1, <3>2 DEF CreateTaskFails, NextHost, RequestType
    <3>3. ASSUME NEW h \in Hosts, EnqueueFails(q, h)
          PROVE  req'[q].plan = req[q].plan /\ req'[q].pc = "raised"
      BY <1>1, <3>3 DEF EnqueueFails, RequestType
    <3>4. ASSUME OccupyCores(q)
          PROVE  req'[q].plan = req[q].plan /\ req'[q].pc \in {"enqueue", "done"}
      BY <1>1, <3>4 DEF OccupyCores, NextHost, RequestType
    <3> QED
      BY <1>6, <3>1, <3>2, <3>3, <3>4 DEF Answer
  <2> QED
    BY <2>1, ExactKept
<1> QED
  BY <1>2, <1>3, <1>4, <1>5, <1>6, ExactAccepting, ExactSharing, ExactMeasuring, ExactTaking
     DEF Handler, Schedule

\* A handler leaves the other requests alone.
LEMMA HandlerLeaves ==
  ASSUME IInv, NEW q \in Requests, Submit(q) \/ Handler(q)
  PROVE  \A p \in Requests \ {q} : req'[p] = req[p]
<1>1. req \in [Requests -> RequestType]
  BY DEF IInv, Types
<1>2. ASSUME NEW state, Leave(q, state) PROVE \A p \in Requests \ {q} : req'[p] = req[p]
  BY <1>1, <1>2 DEF Leave, Left
<1>3. CASE Submit(q) \/ AcquireLock(q) \/ Accept(q) \/ Spin(q)
  BY <1>1, <1>3 DEF Submit, AcquireLock, Accept, Spin, vars
<1>4. CASE Refuse(q) \/ CountRaises(q)
  BY <1>2, <1>4 DEF Refuse, CountRaises
<1>5. CASE ShareOut(q)
  <2>1. CASE Leave(q, "rejected")
    BY <1>2, <2>1
  <2> QED
    BY <1>1, <1>5, <2>1 DEF ShareOut
<1>6. ASSUME NEW h \in Hosts, MeasureHost(q, h) PROVE \A p \in Requests \ {q} : req'[p] = req[p]
  <2>1. CASE Leave(q, "raised")
    BY <1>2, <2>1
  <2> QED
    BY <1>1, <1>6, <2>1 DEF MeasureHost
<1>7. CASE TakeCores(q)
  <2>1. CASE Leave(q, "raised")
    BY <1>2, <2>1
  <2> QED
    BY <1>1, <1>7, <2>1 DEF TakeCores, Left
<1>8. CASE Answer(q)
  BY <1>1, <1>8 DEF Answer, CreateTask, CreateTaskFails, EnqueueFails, OccupyCores, NextHost
<1> QED
  BY <1>3, <1>4, <1>5, <1>6, <1>7, <1>8 DEF Handler, Schedule

\* The workers move: what they give back takes nothing from a measured host.
LEMMA ExactWaiting ==
  ASSUME OrderlyAsks, IInv, Types', AtMostWhole, AtMostWhole', NEW q \in Requests, Exact(q),
         UNCHANGED req, \A h \in Hosts, c \in Cores : remain'[h][c] >= remain[h][c]
  PROVE  Exact(q)'
<1>1. \A h \in Hosts : remain[h] \in [Cores -> Int] /\ remain'[h] \in [Cores -> Int]
  BY DEF IInv, Types
<1>2. /\ req[q] \in RequestType /\ req'[q] = req[q] /\ RequestShape(q)
      /\ ByQuota(q)' <=> ByQuota(q)
  BY DEF IInv, Types, ByQuota, Pinned
<1>3. \A h \in DOMAIN req[q].plan :
         /\ req[q].plan[h].count > 0
         /\ Divisible(req[q].plan[h].cores, req[q].plan[h].count)
  BY DEF Exact
<1>4. req[q].pc \in {"share", "measure", "take"} => req[q].need >= 0 \/ ByQuota(q)
  BY DEF Exact
<1>5. CASE req[q].pc \notin {"measure", "take"}
  BY <1>2, <1>3, <1>4, <1>5 DEF Exact
<1>6. CASE req[q].pc \in {"measure", "take"}
  <2>1. Scheduling(q) /\ Scheduling(q)'
    BY <1>2, <1>6 DEF Scheduling
  <2>2. ASSUME NEW h \in Hosts, NEW c \in Cores, remain[h][c] = CoreShare
        PROVE  remain'[h][c] = CoreShare
    <3>1. remain'[h][c] >= remain[h][c] /\ remain'[h][c] <= CoreShare
      BY <2>1 DEF AtMostWhole
    <3> QED
      BY <1>1, <2>2, <3>1, ShareAssumption
  <2>3. ASSUME NEW h \in Hosts
        PROVE  /\ Len(FullCores(remain[h])) \in Nat /\ Len(FullCores(remain'[h])) \in Nat
               /\ Len(FullCores(remain[h])) <= Len(FullCores(remain'[h]))
    BY <1>1, <2>2, MoreFull
  <2>4. /\ req[q].ask.ncore \in Nat /\ req[q].ask.nshare \in Nat
        /\ ByQuota(q) => req[q].ask.nshare = 0
    BY OrderlyAsk
  <2>5. req[q].todo \subseteq Hosts /\ req[q].quota \in [Hosts -> Int] /\ req[q].limit \in Int
    BY <1>2 DEF RequestType
  <2>6. ASSUME ByQuota(q), NEW h \in req[q].todo
        PROVE  /\ req[q].ask.ncore # 0
               /\ 0 < req[q].quota[h] /\ req[q].quota[h] <= Capacity(q, h)'
    <3> DEFINE x == Len(FullCores(remain[h]))
               y == Len(FullCores(remain'[h]))
               n == req[q].ask.ncore
    <3>1. /\ n # 0 /\ 0 < req[q].quota[h] /\ req[q].quota[h] <= Capacity(q, h)
          /\ req[q].quota[h] \in Int
      BY <1>6, <2>5, <2>6 DEF Exact
    <3>2. Capacity(q, h) = x \div n
      BY <2>4, <2>6 DEF Capacity, MaxContainerCount
    <3>3. Capacity(q, h)' = y \div n
      BY <1>2, <2>4, <2>6 DEF Capacity, MaxContainerCount
    <3>4. x \in Nat /\ y \in Nat /\ x <= y /\ n \in Nat \ {0}
      BY <2>3, <2>4, <2>5, <3>1
    <3> HIDE DEF x, y, n
    <3>5. x \div n <= y \div n
      BY <3>4, QuotientKeepsOrder
    <3>6. x \div n \in Int /\ y \div n \in Int
      BY <3>4, QuotientAtMost
    <3>7. req[q].quota[h] <= y \div n
      BY <3>1, <3>2, <3>5, <3>6
    <3> QED
      BY <3>1, <3>3, <3>7 DEF n
  <2>7. ASSUME req[q].pc = "take"
        PROVE  /\ req[q].ask.ncore # 0 /\ 0 <= req[q].limit
               /\ req[q].limit <= Len(FullCores(remain'[req[q].at]))
               /\ ByQuota(q) => req[q].quota[req[q].at] <= req[q].limit
    <3>1. req[q].at \in Hosts
      BY <1>2, <2>5, <2>7 DEF RequestShape
    <3>2. /\ req[q].ask.ncore # 0 /\ 0 <= req[q].limit
          /\ req[q].limit <= Len(FullCores(remain[req[q].at]))
          /\ ByQuota(q) => req[q].quota[req[q].at] <= req[q].limit
      BY <2>7 DEF Exact
    <3> QED
      BY <2>3, <2>5, <3>1, <3>2
  <2> QED
    BY <1>2, <1>3, <1>4, <2>6, <2>7 DEF Exact
<1> QED
  BY <1>5, <1>6

LEMMA PlansExactKept ==
  ASSUME OrderlyAsks, MaxInFlight = 1, IInv, IInv', AtMostWhole, AtMostWhole', PlansFit,
         PlansExact, [Next]_vars
  PROVE  PlansExact'
<1>1. ASSUME NEW q \in Requests, Submit(q) \/ Handler(q) PROVE PlansExact'
  <2>1. Exact(q)'
    BY <1>1, ExactHandling DEF PlansExact
  <2>2. \A p \in Requests \ {q} : req'[p] = req[p]
    BY <1>1, HandlerLeaves
  <2>3. ASSUME NEW p \in Requests \ {q} PROVE Exact(p)'
    <3>1. ~Serving(p) /\ Exact(p)
      BY <1>1, NobodyElse DEF PlansExact
    <3>2. req[p].pc \notin {"share", "measure", "take"}
      BY <3>1 DEF Serving, RequestEnded
    <3> QED
      BY <2>2, <3>1, <3>2, ExactKept
  <2> QED
    BY <2>1, <2>3 DEF PlansExact
<1>2. ASSUME \/ \E t \in TaskIds : Create(t)
             \/ \E j \in Jobs : Removal(j) \/ Crash(j)
             \/ \E r \in Removers : \E b \in DOMAIN box : BeginRemoval(r, b)
             \/ \E j \in Jobs : StopAgain(j)
             \/ AllDone \/ UNCHANGED vars
      PROVE  PlansExact'
  <2>1. UNCHANGED req /\ \A h \in Hosts, c \in Cores : remain'[h][c] >= remain[h][c]
    BY <1>2, WorkersGiveBack
  <2>2. Types'
    BY DEF IInv
  <2> QED
    BY <2>1, <2>2, ExactWaiting DEF PlansExact
<1> QED
  BY <1>1, <1>2 DEF Next

LEMMA InitiallyExact == Init => PlansExact
<1> SUFFICES ASSUME Init, NEW q \in Requests PROVE Exact(q)
  BY DEF PlansExact
<1>1. req[q].pc = "new" /\ req[q].plan = NoPlan
  BY DEF Init, NewRequest
<1> QED
  BY <1>1, PlanTypes DEF Exact

LEMMA InitiallyNoneFails == Init => NoTaskFails
<1> SUFFICES ASSUME Init, NEW t \in TaskIds PROVE job[t].pc = "none"
  BY DEF NoTaskFails
<1> QED
  BY DEF Init, NewJob, Jobs

\* Every chunk of a task can be cut, and a task removes nothing but containers
\* that it cleans.
LEMMA NoneFailsKept ==
  ASSUME IInv, PlansExact, "cleaning" \notin Faults, NoTaskFails, [Next]_vars
  PROVE  NoTaskFails'
<1>1. job \in [Jobs -> JobType] /\ TaskIds \subseteq Jobs
  BY DEF IInv, Types, Jobs
<1> SUFFICES ASSUME NEW k \in TaskIds PROVE job'[k].pc \notin {"raised", "failed"}
  BY DEF NoTaskFails
<1>2. job[k].pc \notin {"raised", "failed"} /\ k \in Jobs
  BY <1>1 DEF NoTaskFails
<1>3. ASSUME NEW q \in Requests, Submit(q) \/ Schedule(q) PROVE job' = job
  BY <1>3, SchedulingSteps DEF IInv, SchedulingStep, vars
<1>4. ASSUME NEW q \in Requests, Answer(q) PROVE job'[k].pc \notin {"raised", "failed"}
  <2>1. ASSUME NEW h \in Hosts, CreateTask(q, h) PROVE job'[k].pc \notin {"raised", "failed"}
    BY <1>1, <1>2, <2>1 DEF CreateTask, JobType
  <2>2. CASE job' = job
    BY <1>2, <2>2
  <2> QED
    BY <1>4, <2>1, <2>2 DEF Answer, CreateTaskFails, EnqueueFails, OccupyCores
<1>5. ASSUME NEW t \in TaskIds, StartTask(t) PROVE job'[k].pc \notin {"raised", "failed"}
  <2>1. HasTask(t) /\ t[1] \in Requests
    BY <1>5, Names DEF StartTask, HasTask
  <2>2. t[2] \in DOMAIN req[t[1]].plan
    BY <2>1, MessageTypes
  <2>3. Message(t).count > 0
    BY <2>1, <2>2 DEF PlansExact, Exact, Message
  <2>4. job' = [job EXCEPT ![t].pc = "create"]
    BY <1>5, <2>3 DEF StartTask, IterDefined
  <2> QED
    BY <1>1, <1>2, <2>4 DEF JobType
<1>6. ASSUME NEW t \in TaskIds, Create(t) PROVE job'[k].pc \notin {"raised", "failed"}
  <2>1. CASE CreateContainer(t)
    BY <1>1, <1>2, <2>1 DEF CreateContainer, JobType
  <2>2. CASE CreateContainerFails(t)
    BY <1>1, <1>2, <2>2 DEF CreateContainerFails, JobType
  <2>3. CASE RecordContainer(t) \/ SaveCores(t) \/ AllocateIPsFails(t)
    BY <1>1, <1>2, <2>3 DEF RecordContainer, SaveCores, AllocateIPsFails, JobType
  <2>4. CASE AllocateIPs(t)
    BY <1>1, <1>2, <2>4 DEF AllocateIPs, JobType
  <2>5. CASE FinishTask(t)
    <3>1. PICK end \in {"done", "unfinished"} : job' = [job EXCEPT ![t].pc = end]
      BY <2>5 DEF FinishTask
    <3> QED
      BY <1>1, <1>2, <3>1 DEF JobType
  <2> QED
    BY <1>5, <1>6, <2>1, <2>2, <2>3, <2>4, <2>5 DEF Create
<1>7. ASSUME NEW j \in Jobs, Removal(j) PROVE job'[k].pc \notin {"raised", "failed"}
  <2>1. ASSUME RemoveFromDockerFails(j) PROVE job'[k].pc \notin {"raised", "failed"}
    <3>1. j # k
      BY <2>1 DEF RemoveFromDockerFails, IInv, JobShape
    <3> QED
      BY <1>1, <1>2, <2>1, <3>1 DEF RemoveFromDockerFails
  <2>2. ASSUME DropRecord(j) PROVE job'[k].pc \notin {"raised", "failed"}
    BY <1>1, <1>2, <2>2 DEF DropRecord
  <2> QED
    BY <1>1, <1>2, <1>7, <2>1, <2>2 DEF Removal, Delete, RemoveFromDocker, ReadCores, ReleaseCores, JobType
<1>8. ASSUME NEW j \in Jobs, Crash(j) PROVE job'[k].pc \notin {"raised", "failed"}
  BY <1>1, <1>2, <1>8 DEF Crash, JobType
<1>9. ASSUME NEW r \in Removers, NEW b \in DOMAIN box, BeginRemoval(r, b)
      PROVE  job'[k].pc \notin {"raised", "failed"}
  BY <1>1, <1>2, <1>9 DEF BeginRemoval, JobType
<1>10. ASSUME (\E j \in Jobs : StopAgain(j)) \/ AllDone \/ UNCHANGED vars PROVE job' = job
  BY <1>10 DEF StopAgain, AllDone, vars
<1> QED
  BY <1>2, <1>3, <1>4, <1>6, <1>7, <1>8, <1>9, <1>10 DEF Next, Handler

\* A task that has ended has handed out all its cores.
LEMMA NothingOwed ==
  ASSUME IInv, PlansExact, NoTaskFails, Settled, NEW t \in TaskIds, NEW h \in Hosts, NEW c \in Cores
  PROVE  Owed(t, h, c) = 0
<1>1. CASE t[2] # h \/ ~HasTask(t)
  BY <1>1 DEF Owed
<1>2. CASE t[2] = h /\ HasTask(t)
  <2> DEFINE A == Message(t).cores
             n == Message(t).count
             nshare == req[t[1]].ask.nshare
             k == job[t].next - 1
  <2>1. /\ t \in Jobs /\ t[1] \in Requests /\ job[t] \in JobType /\ TaskShape(t)
        /\ t[2] \in DOMAIN req[t[1]].plan
        /\ A \in AllocationType /\ n \in Int /\ nshare \in Nat
    BY <1>2, Names, MessageTypes DEF IInv, Types
  <2>2. job[t].pc \in {"done", "unfinished"}
    BY <1>2, <2>1 DEF Settled, Working, JobEnded, NoTaskFails, HasTask
  <2>3. /\ job[t].box = NoBox /\ job[t].next > Len(Chunks(t)) /\ job[t].next \in Nat \ {0}
        /\ IterDefined(A, n)
    BY <2>1, <2>2 DEF TaskShape, JobType
  <2>4. n > 0 /\ Divisible(A, n)
    BY <2>1 DEF PlansExact, Exact, Message
  <2>5. Taken(t) = k /\ k \in Nat
    BY <2>3 DEF Taken
  <2>6. Chunks(t) = IterCores(A, n)
    BY DEF Chunks
  <2>7. Len(IterCores(A, n)) \in Nat
    BY <2>1, <2>3, ChunksOf
  <2>8. k >= Len(IterCores(A, n))
    BY <2>3, <2>6, <2>7
  <2>9. Owed(t, h, c) = IF k = 0 THEN Draw(A, nshare, c) ELSE LeftOver(A, n, k, nshare, c)
    BY <1>2, <2>5 DEF Owed
  <2> HIDE DEF A, n, k, nshare
  <2>10. n \in Nat \ {0}
    BY <2>1, <2>4
  <2>11. LeftOver(A, n, k, nshare, c) = 0
    BY <2>1, <2>4, <2>5, <2>8, <2>10, CutsWhole
  <2>12. LeftOver(A, n, 0, nshare, c) = Draw(A, nshare, c)
    BY <2>1, <2>10, LeftOverAll
  <2> QED
    BY <2>9, <2>11, <2>12
<1> QED
  BY <1>1, <1>2

\* A container whose cores are charged has stored cores, and one with stored
\* cores is charged.
LEMMA RestingCharges ==
  ASSUME IInv, Settled, NEW h \in Hosts, NEW c \in Cores
  PROVE  Charges(h, c) = Recorded(h, c)
<1> DEFINE D == DOMAIN box
           T == {b \in D : HostOf(b) = h /\ box[b].row /\ box[b].key}
           f == [b \in T |-> Draw(box[b].cores, NShare(b), c)]
           g == [b \in D |-> Charge(b, h, c)]
<1>1. IsFiniteSet(D) /\ T \subseteq D
  BY DEF IInv, Types
<1>2. ASSUME NEW b \in D PROVE Charge(b, h, c) = IF b \in T THEN f[b] ELSE 0
  <2>1. b \in BoxIds /\ BoxShape(b) /\ TaskOf(b) \in Jobs /\ box[b] \in BoxType
    BY Names DEF IInv, Types
  <2>2. ~Dropped(b)
    BY DEF Dropped, Settled, Working, JobEnded
  <2>3. box[b].key => box[b].row
    BY <2>1 DEF BoxShape
  <2>4. box[b].docker => box[b].key
    BY <2>1 DEF BoxShape, Settled, Working, JobEnded
  <2>5. Charged(b) <=> box[b].key
    BY <2>2, <2>4 DEF Charged
  <2> QED
    BY <2>3, <2>5 DEF Charge
<1>3. \A b \in T : f[b] \in Int
  BY ChargeNat
<1>4. Recorded(h, c) = SumOver(f, T) /\ Charges(h, c) = SumOver(g, D)
  BY DEF Recorded, Charges, SumOver, SumFunction
<1>5. \A b \in D : g[b] = IF b \in T THEN f[b] ELSE 0
  BY <1>2
<1> HIDE DEF D, T, f, g
<1>6. Ints(f, T)
  BY <1>3 DEF Ints
<1> QED
  BY <1>1, <1>4, <1>5, <1>6, SumPart

LEMMA AtRest ==
  ASSUME IInv, Accounted, PlansExact, NoTaskFails, \A h \in Hosts : CoresOf[h] = Cores
  PROVE  LedgerBalanced
<1> SUFFICES ASSUME Settled, NEW h \in Hosts, NEW c \in Cores
             PROVE  remain[h][c] = CoreShare - Recorded(h, c)
  BY DEF LedgerBalanced
<1>1. \A q \in Requests : Claim(q, h, c) = 0
  BY DEF Settled, Serving, RequestEnded, Claim
<1>2. Claims(h, c) = 0
  BY <1>1, Finite, NothingYet DEF Claims
<1>3. Debts(h, c) = 0
  BY NothingOwed, Finite, NothingYet DEF Debts
<1>4. Charges(h, c) = Recorded(h, c)
  BY RestingCharges
<1>5. Slack(h, c) = 0
  BY DEF Accounted, NobodyDied, Settled
<1>6. Cap(h, c) = CoreShare /\ CoreShare \in Int
  BY ShareAssumption DEF Cap
<1>7. Charges(h, c) \in Int /\ remain[h][c] \in Int
  BY SlackInt
<1> QED
  BY <1>2, <1>3, <1>4, <1>5, <1>6, <1>7 DEF Slack

\* While the API serves one request at a time, every plan made for orderly
\* asks has its cores for each container of its count, and still has them when
\* the worker cuts it.
THEOREM PlansStayExact ==
  OrderlyAsks /\ ~Overlapping /\ MaxInFlight = 1 => (Spec => []PlansExact)
<1>1. /\ OrderlyAsks /\ MaxInFlight = 1 /\ IInv /\ IInv' /\ AtMostWhole /\ AtMostWhole'
      /\ PlansFit /\ PlansExact /\ [Next]_vars
      => PlansExact'
  BY PlansExactKept
<1>2. CASE OrderlyAsks /\ ~Overlapping /\ MaxInFlight = 1
  BY <1>1, <1>2, InitiallyExact, ShowsAtMostWhole, Structure, Accounting, PlansStayFree, PTL
     DEF Spec
<1> QED
  BY <1>2

\* When everything has come to rest the ledger of free cores is what the
\* stored cores of the recorded containers say it should be, whatever failed
\* on the way, if the API serves one request at a time, removals of one
\* container do not overlap, Docker does not refuse to remove a container that
\* is being cleaned, all cores of the hosts are registered, and the requests
\* are orderly: the plans of other requests may hold cores that no container
\* gets.
THEOREM Balanced ==
  /\ OrderlyAsks /\ ~Overlapping /\ MaxInFlight = 1 /\ "cleaning" \notin Faults
  /\ \A h \in Hosts : CoresOf[h] = Cores
  => (Spec => []LedgerBalanced)
<1>1. "cleaning" \notin Faults /\ IInv /\ PlansExact /\ NoTaskFails /\ [Next]_vars => NoTaskFails'
  BY NoneFailsKept
<1>2. (\A h \in Hosts : CoresOf[h] = Cores) /\ IInv /\ Accounted /\ PlansExact /\ NoTaskFails
      => LedgerBalanced
  BY AtRest
<1>3. CASE /\ OrderlyAsks /\ ~Overlapping /\ MaxInFlight = 1 /\ "cleaning" \notin Faults
           /\ \A h \in Hosts : CoresOf[h] = Cores
  <2>1. Spec => []PlansExact
    BY <1>3, PlansStayExact
  <2>2. Spec => []Accounted
    BY <1>3, Accounting
  <2>3. "cleaning" \notin Faults /\ \A h \in Hosts : CoresOf[h] = Cores
    BY <1>3
  <2> QED
    BY <1>1, <1>2, <2>1, <2>2, <2>3, InitiallyNoneFails, Structure, PTL DEF Spec
<1> QED
  BY <1>3

-----------------------------------------------------------------------------
(* The count of a host.                                                    *)

\* What the row of a container has taken from the count of host h.
Counted(b, h) ==
    IF HostOf(b) = h /\ box[b].row THEN CountedCores(box[b].cores, NShare(b)) ELSE 0
Counts(h) == SumOver([b \in DOMAIN box |-> Counted(b, h)], DOMAIN box)

\* A container has a row from its recording on; one without stored cores has
\* the worker that was to store them.
RowsMarked ==
    /\ \A j \in Jobs : job[j].pc = "record" => ~box[job[j].box].row
    /\ \A b \in DOMAIN box :
          box[b].row /\ ~box[b].key =>
             job[TaskOf(b)].box = b /\ job[TaskOf(b)].pc \in {"save", "crashed"}

CountKept ==
    NobodyDied =>
        \A h \in Hosts : count[h] = Cardinality(CoresOf[h]) * CoreShare - Counts(h)

\* A step that changes no row, no stored cores and no count.
Unrecorded ==
    /\ DOMAIN box' = DOMAIN box /\ count' = count
    /\ \A b \in DOMAIN box :
          /\ box'[b].row = box[b].row /\ box'[b].key = box[b].key
          /\ box'[b].cores = box[b].cores /\ NShare(b)' = NShare(b)
    /\ \A j \in Jobs :
          /\ job'[j].pc = "record" => job'[j] = job[j]
          /\ job[j].pc \in {"save", "crashed"} =>
                job'[j].pc \in {"save", "crashed"} /\ job'[j].box = job[j].box

LEMMA HandlersUnrecorded ==
  ASSUME IInv, NEW q \in Requests, Submit(q) \/ Handler(q)
  PROVE  Unrecorded
<1>0. job \in [Jobs -> JobType]
  BY DEF IInv, Types
<1>1. CASE UNCHANGED vars
  BY <1>1 DEF vars, Unrecorded, NShare
<1>2. CASE SchedulingStep(q)
  <2>1. PICK r \in RequestType : BecomesEarly(q, r)
    BY <1>2 DEF SchedulingStep
  <2>2. UNCHANGED <<remain, count, job, box>> /\ Early(q)
    BY <1>2 DEF SchedulingStep
  <2>3. \A p \in Requests \ {q} : req'[p] = req[p]
    BY <2>1 DEF BecomesEarly, IInv, Types
  <2>4. \A t \in TaskIds : t[1] = q => ~HasTask(t)
    BY <2>2, Names DEF RequestShape, Early, Scheduling, IInv
  <2>5. ASSUME NEW b \in DOMAIN box PROVE NShare(b)' = NShare(b)
    <3>1. b \in BoxIds /\ HasTask(TaskOf(b))
      BY DEF IInv, Types, BoxShape
    <3>2. b[1] \in Requests \ {q}
      BY <2>4, <3>1, Names
    <3> QED
      BY <2>3, <3>2 DEF NShare
  <2> QED
    BY <2>2, <2>5 DEF Unrecorded
<1>3. CASE Answer(q)
  <2>1. UNCHANGED <<count, box>>
    BY <1>3 DEF Answer, CreateTask, CreateTaskFails, EnqueueFails, OccupyCores
  <2>2. \A p \in Requests : req'[p].ask = req[p].ask
    <3>1. ASSUME NEW h \in Hosts, NextHost(q, h) = req'
          PROVE  \A p \in Requests : req'[p].ask = req[p].ask
      BY <3>1 DEF NextHost, IInv, Types, RequestType
    <3>0. req \in [Requests -> RequestType]
      BY DEF IInv, Types
    <3>2. ASSUME NEW h \in Hosts, CreateTask(q, h) \/ EnqueueFails(q, h)
          PROVE  \A p \in Requests : req'[p].ask = req[p].ask
      <4>1. CASE CreateTask(q, h)
        BY <3>0, <4>1 DEF CreateTask, RequestType
      <4>2. CASE EnqueueFails(q, h)
        BY <3>0, <4>2 DEF EnqueueFails, RequestType
      <4> QED
        BY <3>2, <4>1, <4>2
    <3>3. ASSUME OccupyCores(q) PROVE NextHost(q, req[q].at) = req' /\ req[q].at \in Hosts
      BY <3>3 DEF OccupyCores, IInv, Types, RequestType, RequestShape
    <3> QED
      BY <1>3, <3>1, <3>2, <3>3 DEF Answer, CreateTaskFails
  <2>3. ASSUME NEW j \in Jobs
        PROVE  /\ job'[j].pc = "record" => job'[j] = job[j]
               /\ job[j].pc \in {"save", "crashed"} =>
                     job'[j].pc \in {"save", "crashed"} /\ job'[j].box = job[j].box
    <3>1. ASSUME NEW h \in Hosts, CreateTask(q, h)
          PROVE  job'[j] = job[j] \/ (job[j].pc = "none" /\ job'[j].pc = "queued")
      <4>1. job[<<q, h>>].pc = "none"
        BY <3>1 DEF CreateTask, IInv, RequestShape, HasTask
      <4> QED
        BY <1>0, <3>1, <4>1 DEF CreateTask, JobType
    <3>2. CASE job' = job
      BY <3>2
    <3> QED
      BY <1>3, <3>1, <3>2 DEF Answer, CreateTaskFails, EnqueueFails, OccupyCores
  <2>4. \A b \in DOMAIN box : NShare(b)' = NShare(b)
    BY <2>2, Names DEF NShare, IInv, Types
  <2> QED
    BY <2>1, <2>3, <2>4 DEF Unrecorded
<1> QED
  BY <1>1, <1>2, <1>3, SchedulingSteps DEF Handler, IInv

LEMMA JobsUnrecorded ==
  ASSUME IInv, NEW j \in Jobs,
         \/ j \in TaskIds /\ \/ StartTask(j) \/ CreateContainerFails(j)
                             \/ AllocateIPs(j) \/ AllocateIPsFails(j) \/ FinishTask(j)
         \/ RemoveFromDocker(j) \/ RemoveFromDockerFails(j) \/ ReadCores(j) \/ ReleaseCores(j)
         \/ Crash(j)
         \/ j \in Removers /\ \E b \in DOMAIN box : BeginRemoval(j, b)
  PROVE  Unrecorded
<1>1. job \in [Jobs -> JobType] /\ job[j] \in JobType
  BY DEF IInv, Types
<1>2. UNCHANGED <<count, req>>
  BY DEF StartTask, CreateContainerFails, AllocateIPs, AllocateIPsFails, FinishTask, RemoveFromDocker,
         RemoveFromDockerFails, ReadCores, ReleaseCores, Crash, BeginRemoval
<1>3. /\ \A k \in Jobs \ {j} : job'[k] = job[k]
      /\ job'[j].pc # "record" /\ job[j].pc # "crashed"
      /\ job[j].pc = "save" => job'[j].pc = "crashed" /\ job'[j].box = job[j].box
  <2>1. CASE j \in TaskIds /\ \/ StartTask(j) \/ CreateContainerFails(j)
                              \/ AllocateIPs(j) \/ AllocateIPsFails(j)
    BY <1>1, <2>1 DEF StartTask, CreateContainerFails, HasNext, AllocateIPs, AllocateIPsFails, JobType
  <2>2. CASE FinishTask(j)
    BY <1>1, <2>2 DEF FinishTask, JobType
  <2>3. CASE RemoveFromDocker(j) \/ RemoveFromDockerFails(j) \/ ReadCores(j) \/ ReleaseCores(j)
    BY <1>1, <2>3 DEF RemoveFromDocker, RemoveFromDockerFails, ReadCores, ReleaseCores, JobType
  <2>4. CASE Crash(j)
    BY <1>1, <2>4 DEF Crash, Working, JobEnded, JobType
  <2>5. ASSUME NEW b \in DOMAIN box, BeginRemoval(j, b)
        PROVE  /\ \A k \in Jobs \ {j} : job'[k] = job[k]
               /\ job'[j].pc # "record" /\ job[j].pc = "none"
    BY <1>1, <2>5 DEF BeginRemoval, JobType
  <2> QED
    BY <2>1, <2>2, <2>3, <2>4, <2>5
<1>4. /\ DOMAIN box' = DOMAIN box
      /\ \A b \in DOMAIN box : box'[b].row = box[b].row /\ box'[b].key = box[b].key
                               /\ box'[b].cores = box[b].cores
  <2>1. CASE RemoveFromDocker(j)
    BY <2>1 DEF RemoveFromDocker, IInv, Types, BoxType
  <2>2. CASE UNCHANGED box
    BY <2>2
  <2> QED
    BY <2>1, <2>2 DEF StartTask, CreateContainerFails, AllocateIPs, AllocateIPsFails, FinishTask,
                      RemoveFromDockerFails, ReadCores, ReleaseCores, Crash, BeginRemoval
<1> QED
  BY <1>2, <1>3, <1>4 DEF Unrecorded, NShare

LEMMA RowChanges ==
  ASSUME IInv, [Next]_vars
  PROVE  \/ Unrecorded
         \/ \E t \in TaskIds : CreateContainer(t) \/ RecordContainer(t) \/ SaveCores(t)
         \/ \E j \in Jobs : DropRecord(j)
<1>1. CASE UNCHANGED vars \/ AllDone \/ \E j \in Jobs : StopAgain(j)
  BY <1>1 DEF StopAgain, AllDone, vars, Unrecorded, NShare
<1>2. ASSUME NEW q \in Requests, Submit(q) \/ Handler(q) PROVE Unrecorded
  BY <1>2, HandlersUnrecorded
<1>3. ASSUME NEW t \in TaskIds, Create(t)
      PROVE  Unrecorded \/ CreateContainer(t) \/ RecordContainer(t) \/ SaveCores(t)
  <2>1. t \in Jobs
    BY Names
  <2> QED
    BY <1>3, <2>1, JobsUnrecorded DEF Create
<1>4. ASSUME NEW j \in Jobs, Removal(j) \/ Crash(j) PROVE Unrecorded \/ DropRecord(j)
  BY <1>4, JobsUnrecorded DEF Removal, Delete
<1>5. ASSUME NEW r \in Removers, NEW b \in DOMAIN box, BeginRemoval(r, b) PROVE Unrecorded
  BY <1>5, JobsUnrecorded DEF Jobs
<1> QED
  BY <1>1, <1>2, <1>3, <1>4, <1>5 DEF Next

\* The worker of a task holds a container of the task's own.
LEMMA OwnBox ==
  ASSUME IInv, NEW t \in TaskIds, job[t].box # NoBox
  PROVE  TaskOf(job[t].box) = t
<1>1. job[t].box = NextBox(t) /\ t = <<t[1], t[2]>>
  BY Names DEF IInv, TaskShape
<1> QED
  BY <1>1 DEF NextBox, TaskOf

\* What a step that is none of Unrecorded does to the rows.
LEMMA RowSteps ==
  ASSUME IInv, NEW t \in TaskIds
  PROVE  /\ CreateContainer(t) =>
               /\ NextBox(t) \notin DOMAIN box /\ TaskOf(NextBox(t)) = t
               /\ DOMAIN box' = DOMAIN box \cup {NextBox(t)}
               /\ \A b \in DOMAIN box : box'[b] = box[b]
               /\ ~box'[NextBox(t)].row /\ ~box'[NextBox(t)].key
               /\ job[t].pc = "create" /\ job'[t].pc = "record" /\ job'[t].box = NextBox(t)
               /\ \A k \in Jobs \ {t} : job'[k] = job[k]
               /\ UNCHANGED <<count, req>>
         /\ RecordContainer(t) =>
               /\ job[t].box \in DOMAIN box /\ DOMAIN box' = DOMAIN box
               /\ \A b \in DOMAIN box \ {job[t].box} : box'[b] = box[b]
               /\ box'[job[t].box] = [box[job[t].box] EXCEPT !.row = TRUE]
               /\ job[t].pc = "record" /\ job'[t].pc = "save" /\ job'[t].box = job[t].box
               /\ \A k \in Jobs \ {t} : job'[k] = job[k]
               /\ UNCHANGED req
         /\ SaveCores(t) =>
               /\ job[t].box \in DOMAIN box /\ DOMAIN box' = DOMAIN box
               /\ \A b \in DOMAIN box \ {job[t].box} : box'[b] = box[b]
               /\ box'[job[t].box] = [box[job[t].box] EXCEPT !.key = TRUE]
               /\ job[t].pc = "save" /\ job'[t].pc = "network"
               /\ \A k \in Jobs \ {t} : job'[k] = job[k]
               /\ UNCHANGED <<count, req>>
<1>1. job \in [Jobs -> JobType] /\ t \in Jobs /\ job[t] \in JobType
  BY Names DEF IInv, Types
<1>2. box \in [DOMAIN box -> BoxType]
  BY DEF IInv, Types
<1>3. ASSUME CreateContainer(t)
      PROVE  /\ NextBox(t) \notin DOMAIN box /\ TaskOf(NextBox(t)) = t
             /\ DOMAIN box' = DOMAIN box \cup {NextBox(t)}
             /\ \A b \in DOMAIN box : box'[b] = box[b]
             /\ ~box'[NextBox(t)].row /\ ~box'[NextBox(t)].key
             /\ job[t].pc = "create" /\ job'[t].pc = "record" /\ job'[t].box = NextBox(t)
             /\ \A k \in Jobs \ {t} : job'[k] = job[k]
             /\ UNCHANGED <<count, req>>
  <2>1. PICK n : n = NextBox(t)
    OBVIOUS
  <2>2. HasNext(t) /\ n \notin DOMAIN box /\ TaskOf(n) = t /\ job[t].pc = "create"
    BY <1>3, <2>1, NextChunk DEF CreateContainer
  <2>3. PICK new : new = [docker |-> TRUE, row |-> FALSE, key |-> FALSE,
                          cores |-> Chunks(t)[job[t].next]]
    OBVIOUS
  <2>4. /\ box' = [b \in DOMAIN box \cup {n} |-> IF b = n THEN new ELSE box[b]]
        /\ job' = [job EXCEPT ![t].pc = "record", ![t].box = n]
        /\ UNCHANGED <<count, req>>
    BY <1>3, <2>1, <2>3 DEF CreateContainer
  <2>5. ~new.row /\ ~new.key
    BY <2>3
  <2> QED
    BY <1>1, <2>1, <2>2, <2>4, <2>5 DEF JobType
<1>4. ASSUME RecordContainer(t) \/ SaveCores(t)
      PROVE  job[t].box # NoBox /\ job[t].box \in DOMAIN box
  <2>1. job[t].pc \in {"record", "save"} /\ JobShape(t)
    BY <1>1, <1>4 DEF RecordContainer, SaveCores, IInv
  <2> QED
    BY <2>1 DEF JobShape
<1>5. ASSUME RecordContainer(t)
      PROVE  /\ job[t].box \in DOMAIN box /\ DOMAIN box' = DOMAIN box
             /\ \A b \in DOMAIN box \ {job[t].box} : box'[b] = box[b]
             /\ box'[job[t].box] = [box[job[t].box] EXCEPT !.row = TRUE]
             /\ job[t].pc = "record" /\ job'[t].pc = "save" /\ job'[t].box = job[t].box
             /\ \A k \in Jobs \ {t} : job'[k] = job[k]
             /\ UNCHANGED req
  BY <1>1, <1>2, <1>4, <1>5 DEF RecordContainer, JobType
<1>6. ASSUME SaveCores(t)
      PROVE  /\ job[t].box \in DOMAIN box /\ DOMAIN box' = DOMAIN box
             /\ \A b \in DOMAIN box \ {job[t].box} : box'[b] = box[b]
             /\ box'[job[t].box] = [box[job[t].box] EXCEPT !.key = TRUE]
             /\ job[t].pc = "save" /\ job'[t].pc = "network"
             /\ \A k \in Jobs \ {t} : job'[k] = job[k]
             /\ UNCHANGED <<count, req>>
  BY <1>1, <1>2, <1>4, <1>6 DEF SaveCores, JobType
<1> QED
  BY <1>3, <1>5, <1>6

LEMMA DroppedRow ==
  ASSUME IInv, NEW j \in Jobs, DropRecord(j)
  PROVE  LET b == job[j].box
         IN  /\ b \in DOMAIN box /\ DOMAIN box' = DOMAIN box /\ Working(j) /\ b # NoBox
             /\ \A a \in DOMAIN box \ {b} : box'[a] = box[a]
             /\ box'[b].cores = box[b].cores /\ ~box'[b].row /\ ~box'[b].key
             /\ job[j].pc = "drop" /\ job'[j].pc \in {"done", "create"}
             /\ \A k \in Jobs \ {j} : job'[k] = job[k]
             /\ UNCHANGED req
<1>0. PICK b : b = job[j].box
  OBVIOUS
<1>1. job \in [Jobs -> JobType] /\ job[j].pc = "drop" /\ JobShape(j) /\ Types
  BY DEF IInv, Types, DropRecord
<1>2. b # NoBox /\ b \in DOMAIN box /\ box[b] \in BoxType
  BY <1>0, <1>1 DEF JobShape, Types
<1>3. box' = [box EXCEPT ![b].row = FALSE, ![b].key = FALSE] /\ UNCHANGED req
  BY <1>0 DEF DropRecord
<1>4. /\ \A k \in Jobs \ {j} : job'[k] = job[k]
      /\ job'[j].pc \in {"done", "create"}
  BY <1>1 DEF DropRecord
<1>5. Working(j)
  BY <1>1 DEF Working, JobEnded
<1>6. /\ DOMAIN box' = DOMAIN box /\ \A a \in DOMAIN box \ {b} : box'[a] = box[a]
      /\ box'[b].cores = box[b].cores /\ ~box'[b].row /\ ~box'[b].key
  BY <1>2, <1>3 DEF BoxType
<1> QED
  BY <1>0, <1>1, <1>2, <1>3, <1>4, <1>5, <1>6

LEMMA RowsMarkedKept ==
  ASSUME IInv, IInv', [Next]_vars, RowsMarked
  PROVE  RowsMarked'
<1>0. /\ \A j \in Jobs : job[j].pc = "record" => j \in TaskIds /\ job[j].box # NoBox
                                                  /\ job[j].box \in DOMAIN box
      /\ \A b \in DOMAIN box : TaskOf(b) \in TaskIds /\ TaskOf(b) \in Jobs
  BY Names DEF IInv, JobShape, Types, Jobs
<1>1. CASE Unrecorded
  BY <1>0, <1>1 DEF Unrecorded, RowsMarked
<1>2. ASSUME NEW t \in TaskIds, CreateContainer(t) PROVE RowsMarked'
  <2>1. /\ NextBox(t) \notin DOMAIN box /\ TaskOf(NextBox(t)) = t
        /\ DOMAIN box' = DOMAIN box \cup {NextBox(t)}
        /\ \A b \in DOMAIN box : box'[b] = box[b]
        /\ ~box'[NextBox(t)].row /\ ~box'[NextBox(t)].key
        /\ job[t].pc = "create" /\ job'[t].pc = "record" /\ job'[t].box = NextBox(t)
        /\ \A k \in Jobs \ {t} : job'[k] = job[k]
    BY <1>2, RowSteps
  <2> QED
    BY <1>0, <2>1 DEF RowsMarked
<1>3. ASSUME NEW t \in TaskIds, RecordContainer(t) PROVE RowsMarked'
  <2>0. PICK b : b = job[t].box
    OBVIOUS
  <2>1. /\ b \in DOMAIN box /\ DOMAIN box' = DOMAIN box
        /\ \A a \in DOMAIN box \ {b} : box'[a] = box[a]
        /\ job[t].pc = "record" /\ job'[t].pc = "save" /\ job'[t].box = b
        /\ \A k \in Jobs \ {t} : job'[k] = job[k]
    BY <1>3, <2>0, RowSteps
  <2>2. TaskOf(b) = t /\ t \in Jobs
    BY <1>0, <2>0, <2>1, OwnBox, Names
  <2>3. \A j \in Jobs \ {t} : job[j].pc = "record" => job[j].box # b
    BY <1>0, <2>2, OwnBox
  <2> QED
    BY <1>0, <2>1, <2>2, <2>3 DEF RowsMarked
<1>4. ASSUME NEW t \in TaskIds, SaveCores(t) PROVE RowsMarked'
  <2>0. PICK b : b = job[t].box
    OBVIOUS
  <2>1. /\ b \in DOMAIN box /\ DOMAIN box' = DOMAIN box
        /\ \A a \in DOMAIN box \ {b} : box'[a] = box[a]
        /\ box'[b] = [box[b] EXCEPT !.key = TRUE]
        /\ job[t].pc = "save" /\ job'[t].pc = "network"
        /\ \A k \in Jobs \ {t} : job'[k] = job[k]
    BY <1>4, <2>0, RowSteps
  <2>2. box[b] \in BoxType /\ t \in Jobs
    BY <2>1, Names DEF IInv, Types
  <2>3. box'[b].key /\ box'[b].row = box[b].row
    BY <2>1, <2>2 DEF BoxType
  <2>4. TaskOf(b) = t /\ b # NoBox
    <3>1. b \in BoxIds
      BY <2>1 DEF IInv, Types
    <3>2. b # NoBox
      BY <3>1, Names
    <3> QED
      BY <2>0, <3>2, OwnBox
  <2>5. ASSUME NEW j \in Jobs, job'[j].pc = "record" PROVE ~box'[job'[j].box].row
    <3>1. j # t /\ job'[j] = job[j] /\ job[j].box \in DOMAIN box
      BY <1>0, <2>1, <2>5
    <3>2. ~box[job[j].box].row
      BY <2>5, <3>1 DEF RowsMarked
    <3> QED
      BY <2>1, <2>3, <3>1, <3>2
  <2>6. ASSUME NEW a \in DOMAIN box, box'[a].row, ~box'[a].key
        PROVE  job'[TaskOf(a)].box = a /\ job'[TaskOf(a)].pc \in {"save", "crashed"}
    <3>1. a # b /\ box'[a] = box[a]
      BY <2>1, <2>3, <2>6
    <3>2. job[TaskOf(a)].box = a /\ job[TaskOf(a)].pc \in {"save", "crashed"}
      BY <2>6, <3>1 DEF RowsMarked
    <3>3. TaskOf(a) # t
      BY <2>0, <3>1, <3>2
    <3> QED
      BY <1>0, <2>1, <3>2, <3>3
  <2> QED
    BY <2>1, <2>5, <2>6 DEF RowsMarked
<1>5. ASSUME NEW j \in Jobs, DropRecord(j) PROVE RowsMarked'
  <2>0. PICK b : b = job[j].box
    OBVIOUS
  <2>1. /\ b \in DOMAIN box /\ DOMAIN box' = DOMAIN box
        /\ \A a \in DOMAIN box \ {b} : box'[a] = box[a]
        /\ ~box'[b].row
        /\ job[j].pc = "drop" /\ job'[j].pc \in {"done", "create"}
        /\ \A k \in Jobs \ {j} : job'[k] = job[k]
    BY <1>5, <2>0, DroppedRow
  <2> QED
    BY <1>0, <2>1 DEF RowsMarked
<1> QED
  BY <1>1, <1>2, <1>3, <1>4, <1>5, RowChanges

\* The rows' shares of a count are integers, and there are finitely many.
Counting ==
    /\ IsFiniteSet(DOMAIN box)
    /\ \A h \in Hosts : /\ count[h] \in Int /\ Cardinality(CoresOf[h]) * CoreShare \in Int
                        /\ Counts(h) \in Int /\ \A b \in DOMAIN box : Counted(b, h) \in Int

LEMMA CountingTyped == IInv => Counting
<1> SUFFICES ASSUME IInv PROVE Counting
  OBVIOUS
<1>1. IsFiniteSet(DOMAIN box)
  BY DEF IInv, Types
<1>2. ASSUME NEW h \in Hosts, NEW b \in DOMAIN box PROVE Counted(b, h) \in Int
  <2>1. b \in BoxIds /\ box[b] \in BoxType /\ Types
    BY DEF IInv, Types
  <2>2. box[b].cores \in AllocationType /\ NShare(b) \in Nat
    BY <2>1, NShareTypes DEF BoxType
  <2> QED
    BY <2>2, CountedInt DEF Counted
<1>3. ASSUME NEW h \in Hosts PROVE Counts(h) \in Int
  BY <1>1, <1>2, SumInt DEF Counts, Ints
<1>4. ASSUME NEW h \in Hosts
      PROVE  count[h] \in Int /\ Cardinality(CoresOf[h]) * CoreShare \in Int
  <2>1. CoresOf[h] \subseteq Cores /\ IsFiniteSet(Cores)
    BY CoresAssumption, DeployAssumption
  <2>2. Cardinality(CoresOf[h]) \in Nat /\ CoreShare \in Nat
    BY <2>1, FS_Subset, FS_CardinalityType, ShareAssumption
  <2> QED
    BY <2>2 DEF IInv, Types
<1> QED
  BY <1>1, <1>2, <1>3, <1>4 DEF Counting

LEMMA NextCounting == IInv' => Counting'
<1> QED
  BY CountingTyped, PTL

LEMMA CountsChange ==
  ASSUME Counting, Counting', NEW h \in Hosts, NEW b \in DOMAIN box, DOMAIN box' = DOMAIN box,
         \A a \in DOMAIN box \ {b} : Counted(a, h)' = Counted(a, h)
  PROVE  Counts(h)' = Counts(h) - Counted(b, h) + Counted(b, h)'
<1> DEFINE D == DOMAIN box
           f == [a \in D |-> Counted(a, h)]
           g == [a \in D |-> Counted(a, h)']
<1>1. Ints(f, D) /\ Ints(g, D) /\ IsFiniteSet(D)
  BY DEF Counting, Ints
<1>2. \A a \in D \ {b} : g[a] = f[a]
  OBVIOUS
<1>3. f[b] = Counted(b, h) /\ g[b] = Counted(b, h)'
  OBVIOUS
<1>4. Counts(h) = SumOver(f, D) /\ Counts(h)' = SumOver(g, D)
  BY DEF Counts
<1> HIDE DEF f, g, D
<1>5. b \in D
  BY DEF D
<1>6. SumOver(g, D) = SumOver(f, D) - f[b] + g[b]
  BY <1>1, <1>2, <1>5, SumChange
<1> QED
  BY <1>3, <1>4, <1>6

LEMMA CountsSame ==
  ASSUME NEW h \in Hosts, DOMAIN box' = DOMAIN box,
         \A a \in DOMAIN box : Counted(a, h)' = Counted(a, h)
  PROVE  Counts(h)' = Counts(h)
<1> DEFINE D == DOMAIN box
           f == [a \in D |-> Counted(a, h)]
           g == [a \in D |-> Counted(a, h)']
<1>1. f = g
  OBVIOUS
<1>2. Counts(h) = SumOver(f, D) /\ Counts(h)' = SumOver(g, D)
  BY DEF Counts
<1> HIDE DEF f, g, D
<1> QED
  BY <1>1, <1>2

LEMMA CountsGrow ==
  ASSUME Counting, Counting', NEW h \in Hosts, NEW b, b \notin DOMAIN box,
         DOMAIN box' = DOMAIN box \cup {b}, Counted(b, h)' = 0,
         \A a \in DOMAIN box : Counted(a, h)' = Counted(a, h)
  PROVE  Counts(h)' = Counts(h)
<1> DEFINE D == DOMAIN box
           E == D \cup {b}
           f == [a \in D |-> Counted(a, h)]
           g == [a \in E |-> Counted(a, h)']
<1>1. Ints(f, D) /\ Ints(g, E) /\ IsFiniteSet(D)
  BY DEF Counting, Ints
<1>2. \A a \in D : g[a] = f[a]
  OBVIOUS
<1>3. g[b] = 0
  OBVIOUS
<1>4. Counts(h) = SumOver(f, D) /\ Counts(h)' = SumOver(g, E)
  BY DEF Counts
<1>5. b \notin D /\ E = D \cup {b}
  OBVIOUS
<1> HIDE DEF f, g, D, E
<1>6. SumOver(g, E) = g[b] + SumOver(g, D)
  BY <1>1, <1>5, SumInsert
<1>7. SumOver(g, D) = SumOver(f, D) /\ SumOver(f, D) \in Int
  BY <1>1, <1>2, SumSame, SumInt
<1> QED
  BY <1>3, <1>4, <1>6, <1>7

\* A step changes the count of a host by what it changes its rows by.
Follows(h) == count'[h] + Counts(h)' = count[h] + Counts(h)

LEMMA CountedKept ==
  ASSUME NEW b \in DOMAIN box, NEW h \in Hosts, box'[b] = box[b], req' = req
  PROVE  Counted(b, h)' = Counted(b, h)
<1> QED
  BY DEF Counted, NShare

LEMMA RecordFollows ==
  ASSUME IInv, IInv', NEW t \in TaskIds, RecordContainer(t), RowsMarked, NEW h \in Hosts
  PROVE  Follows(h)
<1>0. PICK b : b = job[t].box
  OBVIOUS
<1>1. PICK n : n = CountedCores(box[b].cores, NShare(b))
  OBVIOUS
<1>2. /\ b \in DOMAIN box /\ DOMAIN box' = DOMAIN box
      /\ \A a \in DOMAIN box \ {b} : box'[a] = box[a]
      /\ box'[b] = [box[b] EXCEPT !.row = TRUE]
      /\ job[t].pc = "record" /\ UNCHANGED req
  BY <1>0, RowSteps
<1>3. t \in Jobs /\ Types /\ b \in BoxIds /\ box[b] \in BoxType
  BY <1>2, Names DEF IInv, Types
<1>4. b # NoBox /\ TaskOf(b) = t
  <2>1. b # NoBox
    BY <1>3, Names
  <2> QED
    BY <1>0, <2>1, OwnBox
<1>5. HostOf(b) = t[2] /\ t[2] \in Hosts
  BY <1>3, <1>4, Names
<1>6. ~box[b].row
  BY <1>0, <1>2, <1>3 DEF RowsMarked
<1>7. n \in Int
  BY <1>1, <1>3, NShareTypes, CountedInt DEF BoxType
<1>8. count' = [count EXCEPT ![t[2]] = @ - n]
  BY <1>0, <1>1 DEF RecordContainer
<1>9. box'[b].row /\ box'[b].cores = box[b].cores
  BY <1>2, <1>3 DEF BoxType
<1>10. Counted(b, h) = 0 /\ Counted(b, h)' = IF h = t[2] THEN n ELSE 0
  <2>1. NShare(b)' = NShare(b)
    BY <1>2 DEF NShare
  <2> QED
    BY <1>1, <1>5, <1>6, <1>9, <2>1 DEF Counted
<1>11. Counting /\ Counting'
  BY CountingTyped, NextCounting
<1>12. Counts(h)' = Counts(h) - Counted(b, h) + Counted(b, h)'
  BY <1>2, <1>11, CountedKept, CountsChange
<1>13. count[h] \in Int /\ Counts(h) \in Int /\ count \in [Hosts -> Int]
  BY <1>3, <1>11 DEF Counting, Types
<1>14. CASE h = t[2]
  <2>1. count'[h] = count[h] - n
    BY <1>8, <1>13, <1>14
  <2> QED
    BY <1>7, <1>10, <1>12, <1>13, <1>14, <2>1 DEF Follows
<1>15. CASE h # t[2]
  <2>1. count'[h] = count[h]
    BY <1>8, <1>13, <1>15
  <2> QED
    BY <1>10, <1>12, <1>13, <1>15, <2>1 DEF Follows
<1> QED
  BY <1>14, <1>15

\* The row that is deleted has stored cores, unless the worker that was to
\* store them died: it would still hold the container.
LEMMA DropFollows ==
  ASSUME IInv, IInv', ~Overlapping, NEW j \in Jobs, DropRecord(j), RowsMarked, NobodyDied,
         NEW h \in Hosts
  PROVE  Follows(h)
<1>0. PICK b : b = job[j].box
  OBVIOUS
<1>1. PICK n : n = CountedCores(box[b].cores, NShare(b))
  OBVIOUS
<1>2. /\ b \in DOMAIN box /\ DOMAIN box' = DOMAIN box /\ Working(j) /\ b # NoBox
      /\ \A a \in DOMAIN box \ {b} : box'[a] = box[a]
      /\ ~box'[b].row /\ job[j].pc = "drop" /\ UNCHANGED req
  BY <1>0, DroppedRow
<1>3. Types /\ b \in BoxIds /\ box[b] \in BoxType /\ BoxShape(b)
  BY <1>2 DEF IInv, Types
<1>4. box[b].row <=> box[b].key
  <2>1. box[b].key => box[b].row
    BY <1>3 DEF BoxShape
  <2>2. ASSUME box[b].row, ~box[b].key PROVE FALSE
    <3>1. TaskOf(b) \in Jobs
      BY <1>3, Names
    <3>2. job[TaskOf(b)].box = b /\ job[TaskOf(b)].pc = "save"
      BY <1>2, <2>2, <3>1 DEF RowsMarked, NobodyDied
    <3>3. Working(TaskOf(b))
      BY <3>2 DEF Working, JobEnded
    <3>4. TaskOf(b) = j
      BY <1>0, <1>2, <3>1, <3>2, <3>3, OneRelease
    <3> QED
      BY <1>2, <3>2, <3>4
  <2> QED
    BY <2>1, <2>2
<1>5. n \in Int /\ HostOf(b) \in Hosts
  BY <1>1, <1>3, NShareTypes, CountedInt, Names DEF BoxType
<1>6. count' = [count EXCEPT ![HostOf(b)] = @ + (IF box[b].key THEN n ELSE 0)]
  BY <1>0, <1>1 DEF DropRecord
<1>7. /\ Counted(b, h)' = 0
      /\ Counted(b, h) = IF h = HostOf(b) /\ box[b].key THEN n ELSE 0
  BY <1>1, <1>2, <1>4 DEF Counted
<1>8. Counting /\ Counting'
  BY CountingTyped, NextCounting
<1>9. Counts(h)' = Counts(h) - Counted(b, h) + Counted(b, h)'
  BY <1>2, <1>8, CountedKept, CountsChange
<1>10. count[h] \in Int /\ Counts(h) \in Int /\ count \in [Hosts -> Int]
  BY <1>3, <1>8 DEF Counting, Types
<1>11. CASE h = HostOf(b)
  <2>1. count'[h] = count[h] + (IF box[b].key THEN n ELSE 0)
    BY <1>6, <1>10, <1>11
  <2>2. CASE box[b].key
    BY <1>5, <1>7, <1>9, <1>10, <1>11, <2>1, <2>2 DEF Follows
  <2>3. CASE ~box[b].key
    BY <1>7, <1>9, <1>10, <1>11, <2>1, <2>3 DEF Follows
  <2> QED
    BY <2>2, <2>3
<1>12. CASE h # HostOf(b)
  <2>1. count'[h] = count[h]
    BY <1>6, <1>10, <1>12
  <2> QED
    BY <1>7, <1>9, <1>10, <1>12, <2>1 DEF Follows
<1> QED
  BY <1>11, <1>12

LEMMA CountFollows ==
  ASSUME IInv, IInv', ~Overlapping, [Next]_vars, RowsMarked, NobodyDied, NEW h \in Hosts
  PROVE  Follows(h)
<1>0. Counting /\ Counting'
  BY CountingTyped, NextCounting
<1>1. CASE Unrecorded
  <2>1. ASSUME NEW b \in DOMAIN box PROVE Counted(b, h)' = Counted(b, h)
    BY <1>1 DEF Unrecorded, Counted
  <2>2. Counts(h)' = Counts(h)
    BY <1>1, <2>1, CountsSame DEF Unrecorded
  <2> QED
    BY <1>1, <2>2 DEF Unrecorded, Follows
<1>2. ASSUME NEW t \in TaskIds, CreateContainer(t) PROVE Follows(h)
  <2>0. PICK n : n = NextBox(t)
    OBVIOUS
  <2>1. /\ n \notin DOMAIN box /\ DOMAIN box' = DOMAIN box \cup {n}
        /\ \A b \in DOMAIN box : box'[b] = box[b]
        /\ ~box'[n].row /\ UNCHANGED <<count, req>>
    BY <1>2, <2>0, RowSteps
  <2>2. Counted(n, h)' = 0
    BY <2>1 DEF Counted
  <2>3. Counts(h)' = Counts(h)
    BY <1>0, <2>1, <2>2, CountedKept, CountsGrow
  <2> QED
    BY <2>1, <2>3 DEF Follows
<1>3. ASSUME NEW t \in TaskIds, RecordContainer(t) PROVE Follows(h)
  BY <1>3, RecordFollows
<1>4. ASSUME NEW t \in TaskIds, SaveCores(t) PROVE Follows(h)
  <2>0. PICK b : b = job[t].box
    OBVIOUS
  <2>1. /\ b \in DOMAIN box /\ DOMAIN box' = DOMAIN box
        /\ \A a \in DOMAIN box \ {b} : box'[a] = box[a]
        /\ box'[b] = [box[b] EXCEPT !.key = TRUE] /\ UNCHANGED <<count, req>>
    BY <1>4, <2>0, RowSteps
  <2>2. box[b] \in BoxType
    BY <2>1 DEF IInv, Types
  <2>3. box'[b].row = box[b].row /\ box'[b].cores = box[b].cores
    BY <2>1, <2>2 DEF BoxType
  <2>4. Counted(b, h)' = Counted(b, h)
    BY <2>1, <2>3 DEF Counted, NShare
  <2>5. Counts(h)' = Counts(h)
    BY <2>1, <2>4, CountedKept, CountsSame
  <2> QED
    BY <2>1, <2>5 DEF Follows
<1>5. ASSUME NEW j \in Jobs, DropRecord(j) PROVE Follows(h)
  BY <1>5, DropFollows
<1> QED
  BY <1>1, <1>2, <1>3, <1>4, <1>5, RowChanges

LEMMA CountKeptOn ==
  ASSUME IInv, IInv', ~Overlapping, [Next]_vars, RowsMarked, CountKept
  PROVE  CountKept'
<1> SUFFICES ASSUME NobodyDied', NEW h \in Hosts
             PROVE  count'[h] = Cardinality(CoresOf[h]) * CoreShare - Counts(h)'
  BY DEF CountKept
<1>1. NobodyDied
  BY DeathIsFinal DEF NobodyDied
<1>2. Follows(h)
  BY <1>1, CountFollows
<1>3. count[h] = Cardinality(CoresOf[h]) * CoreShare - Counts(h)
  BY <1>1 DEF CountKept
<1>4. PICK k : k = Cardinality(CoresOf[h]) * CoreShare
  OBVIOUS
<1>5. Counting /\ Counting'
  BY CountingTyped, NextCounting
<1>6. count[h] \in Int /\ count'[h] \in Int /\ Counts(h) \in Int /\ Counts(h)' \in Int /\ k \in Int
  BY <1>4, <1>5 DEF Counting
<1> QED
  BY <1>2, <1>3, <1>4, <1>6 DEF Follows

LEMMA InitiallyCounted == Init => RowsMarked /\ CountKept
<1> SUFFICES ASSUME Init PROVE RowsMarked /\ CountKept
  OBVIOUS
<1>1. DOMAIN box = {}
  BY DEF Init
<1>2. \A j \in Jobs : job[j].pc = "none"
  BY DEF Init, NewJob
<1>3. RowsMarked
  BY <1>1, <1>2 DEF RowsMarked
<1>4. ASSUME NEW h \in Hosts
      PROVE  count[h] = Cardinality(CoresOf[h]) * CoreShare - Counts(h)
  <2>1. PICK k : k = Cardinality(CoresOf[h]) * CoreShare
    OBVIOUS
  <2>2. Counts(h) = 0
    BY <1>1, SumEmpty DEF Counts
  <2>3. count[h] = k
    BY <2>1 DEF Init
  <2>4. k \in Int
    <3>1. CoresOf[h] \subseteq Cores /\ IsFiniteSet(Cores)
      BY CoresAssumption, DeployAssumption
    <3>2. Cardinality(CoresOf[h]) \in Nat /\ CoreShare \in Nat
      BY <3>1, FS_Subset, FS_CardinalityType, ShareAssumption
    <3> QED
      BY <2>1, <3>2
  <2> QED
    BY <2>1, <2>2, <2>3, <2>4
<1> QED
  BY <1>3, <1>4 DEF CountKept

\* Whoever asks, asks for whole cores.
OnlyWholeCores == \A a \in Asks : a.n >= 0 /\ a.nshare = 0

LEMMA WholeShares ==
  ASSUME OnlyWholeCores, IInv, NEW b \in DOMAIN box
  PROVE  NShare(b) = 0
<1>1. b[1] \in Requests
  BY Names DEF IInv, Types
<1>2. req[b[1]].ask \in Asks \cup {NoAsk}
  BY <1>1 DEF IInv, Types, RequestType
<1> QED
  BY <1>2 DEF OnlyWholeCores, NShare, NoAsk

\* All cores of a host together are as many fragments as it was registered with.
LEMMA CapTotal ==
  ASSUME NEW h \in Hosts
  PROVE  SumOver([c \in Cores |-> Cap(h, c)], Cores) = Cardinality(CoresOf[h]) * CoreShare
<1> DEFINE A == CoresOf[h]
           f == [c \in A |-> Cap(h, c)]
           g == [c \in Cores |-> Cap(h, c)]
<1>1. IsFiniteSet(Cores) /\ A \subseteq Cores /\ CoreShare \in Int
  BY CoresAssumption, ShareAssumption, DeployAssumption
<1>2. IsFiniteSet(A) /\ Cardinality(A) \in Int
  BY <1>1, FS_Subset, FS_CardinalityType
<1>3. \A c \in A : f[c] = CoreShare
  BY DEF Cap
<1>4. \A c \in Cores : g[c] = IF c \in A THEN f[c] ELSE 0
  BY DEF Cap
<1> HIDE DEF A, f, g
<1>5. SumOver(g, Cores) = SumOver(f, A)
  BY <1>1, <1>3, <1>4, SumPart DEF Ints
<1>6. SumOver(f, A \cup {}) = CoreShare * Cardinality(A) + SumOver(f, {})
  BY <1>1, <1>2, <1>3, FS_EmptySet, SumOfEqual DEF Ints
<1>7. SumOver(f, {}) = 0 /\ A \cup {} = A
  BY SumEmpty
<1>8. CoreShare * Cardinality(A) + 0 = Cardinality(A) * CoreShare
  BY <1>1, <1>2
<1>9. SumOver(f, A) = CoreShare * Cardinality(A) + 0
  BY <1>6, <1>7
<1> QED
  BY <1>5, <1>8, <1>9 DEF A, g

\* At rest a container's charges on all cores are what its row was counted for.
LEMMA ChargeTotal ==
  ASSUME OnlyWholeCores, IInv, RowsMarked, Settled, NEW h \in Hosts, NEW b \in DOMAIN box
  PROVE  SumOver([c \in Cores |-> Charge(b, h, c)], Cores) = Counted(b, h)
<1>1. b \in BoxIds /\ BoxShape(b) /\ TaskOf(b) \in Jobs /\ box[b] \in BoxType
  BY Names DEF IInv, Types
<1>2. ~Dropped(b)
  BY DEF Dropped, Settled, Working, JobEnded
<1>3. box[b].key <=> box[b].row
  BY <1>1 DEF BoxShape, RowsMarked, Settled, Working, JobEnded
<1>4. box[b].docker => box[b].key
  BY <1>1 DEF BoxShape, Settled, Working, JobEnded
<1>5. Charged(b) <=> box[b].row
  BY <1>2, <1>3, <1>4 DEF Charged
<1>6. NShare(b) = 0
  BY WholeShares
<1>7. CASE HostOf(b) = h /\ box[b].row
  <2> DEFINE A == box[b].cores
  <2>1. A \in AllocationType
    BY <1>1 DEF BoxType
  <2>2. [c \in Cores |-> Charge(b, h, c)] = [c \in Cores |-> Draw(A, 0, c)]
    BY <1>5, <1>6, <1>7 DEF Charge
  <2>3. Counted(b, h) = CountedCores(A, 0)
    BY <1>6, <1>7 DEF Counted
  <2> HIDE DEF A
  <2>4. SumOver([c \in Cores |-> Draw(A, 0, c)], Cores)
          = CoreShare * Len(A.full) + 0 * Len(A.part)
    BY <2>1, DrawTotal
  <2>5. Len(A.full) \in Int /\ Len(A.part) \in Int /\ CoreShare \in Int
    BY <2>1, LenProperties, ShareAssumption DEF AllocationType
  <2>6. CoreShare * Len(A.full) + 0 * Len(A.part) = CoreShare * Len(A.full) + 0
    <3>1. \A x \in Int : 0 * x = 0
      OBVIOUS
    <3>2. 0 * Len(A.part) = 0
      BY <2>5, <3>1
    <3> QED
      BY <3>2
  <2> QED
    BY <2>2, <2>3, <2>4, <2>6 DEF CountedCores
<1>8. CASE ~(HostOf(b) = h /\ box[b].row)
  <2>1. Counted(b, h) = 0 /\ \A c \in Cores : Charge(b, h, c) = 0
    BY <1>5, <1>8 DEF Counted, Charge
  <2>2. IsFiniteSet(Cores)
    BY CoresAssumption
  <2> QED
    BY <2>1, <2>2, NothingYet
<1> QED
  BY <1>7, <1>8

\* The charges of a host, added up by cores, are those added up by containers.
LEMMA ChargesTotal ==
  ASSUME OnlyWholeCores, IInv, RowsMarked, Settled, NEW h \in Hosts
  PROVE  SumOver([c \in Cores |-> Charges(h, c)], Cores) = Counts(h)
<1> DEFINE D == DOMAIN box
           F == [b \in D |-> [c \in Cores |-> Charge(b, h, c)]]
<1>1. IsFiniteSet(D) /\ IsFiniteSet(Cores)
  BY CoresAssumption DEF IInv, Types
<1>2. \A b \in D, c \in Cores : F[b][c] \in Int
  BY ChargeNat
<1>3. \A b \in D : SumOver(F[b], Cores) = Counted(b, h)
  BY ChargeTotal
<1>4. [c \in Cores |-> Charges(h, c)] = [c \in Cores |-> SumOver([b \in D |-> F[b][c]], D)]
  <2>1. ASSUME NEW c \in Cores PROVE Charges(h, c) = SumOver([b \in D |-> F[b][c]], D)
    <3>1. [b \in D |-> F[b][c]] = [b \in DOMAIN box |-> Charge(b, h, c)]
      OBVIOUS
    <3> QED
      BY <3>1 DEF Charges
  <2> QED
    BY <2>1
<1>5. Counts(h) = SumOver([b \in D |-> SumOver(F[b], Cores)], D)
  BY <1>3 DEF Counts
<1> HIDE DEF D, F
<1>6. SumOver([b \in D |-> SumOver(F[b], Cores)], D)
        = SumOver([c \in Cores |-> SumOver([b \in D |-> F[b][c]], D)], Cores)
  BY <1>1, <1>2, SumExchange
<1> QED
  BY <1>4, <1>5, <1>6, Zenon

LEMMA StoresAtRest ==
  ASSUME OnlyWholeCores, IInv, Accounted, PlansExact, NoTaskFails, RowsMarked, CountKept
  PROVE  StoresAgree
<1> SUFFICES ASSUME Settled, NEW h \in Hosts PROVE count[h] = SumFunction(remain[h])
  BY DEF StoresAgree
<1>1. NobodyDied
  BY DEF NobodyDied, Settled
<1>2. ASSUME NEW c \in Cores PROVE Cap(h, c) = remain[h][c] + Charges(h, c)
  <2>1. \A q \in Requests : Claim(q, h, c) = 0
    BY DEF Settled, Serving, RequestEnded, Claim
  <2>2. Claims(h, c) = 0
    BY <2>1, Finite, NothingYet DEF Claims
  <2>3. Debts(h, c) = 0
    BY NothingOwed, Finite, NothingYet DEF Debts
  <2>4. Slack(h, c) = 0
    BY <1>1 DEF Accounted
  <2>5. Charges(h, c) \in Int /\ remain[h][c] \in Int /\ Cap(h, c) \in Int
    BY SlackInt
  <2> QED
    BY <2>2, <2>3, <2>4, <2>5 DEF Slack
<1> DEFINE f == [c \in Cores |-> remain[h][c]]
           g == [c \in Cores |-> Charges(h, c)]
           s == [c \in Cores |-> Cap(h, c)]
<1>3. f = remain[h] /\ DOMAIN remain[h] = Cores
  BY DEF IInv, Types
<1>4. Ints(f, Cores) /\ Ints(g, Cores) /\ IsFiniteSet(Cores)
  BY SlackInt, CoresAssumption DEF Ints
<1>5. \A c \in Cores : s[c] = f[c] + g[c]
  BY <1>2
<1>6. SumFunction(remain[h]) = SumOver(f, Cores)
  BY <1>3 DEF SumFunction, SumOver
<1>7. SumOver(s, Cores) = Cardinality(CoresOf[h]) * CoreShare
  BY CapTotal
<1>8. SumOver(g, Cores) = Counts(h)
  BY ChargesTotal
<1> HIDE DEF f, g, s
<1>9. SumOver(s, Cores) = SumOver(f, Cores) + SumOver(g, Cores)
  BY <1>4, <1>5, SumAdd
<1>10. SumOver(f, Cores) \in Int /\ SumOver(g, Cores) \in Int
  BY <1>4, SumInt
<1>11. count[h] = Cardinality(CoresOf[h]) * CoreShare - Counts(h)
  BY <1>1 DEF CountKept
<1> QED
  BY <1>6, <1>7, <1>8, <1>9, <1>10, <1>11

\* What the SQL rows have taken from a host's count is what the containers with
\* a row were started on, as long as no worker died.
THEOREM CountFollowsRows == ~Overlapping => (Spec => [](RowsMarked /\ CountKept))
<1>1. ~Overlapping /\ IInv /\ IInv' /\ RowsMarked /\ CountKept /\ [Next]_vars
      => (RowsMarked /\ CountKept)'
  BY RowsMarkedKept, CountKeptOn
<1>2. CASE ~Overlapping
  BY <1>1, <1>2, InitiallyCounted, Structure, PTL DEF Spec
<1> QED
  BY <1>2

\* When everything has come to rest the SQL column that counts a host's free
\* cores, kept by Container.create and Container.delete, is the sum of the
\* Redis ledger, kept by the handlers and the workers, if only whole cores are
\* asked for, the API serves one request at a time, removals of one container
\* do not overlap and Docker does not refuse to remove a container that is
\* being cleaned, whatever else fails.
THEOREM StoresFollow ==
  OnlyWholeCores /\ ~Overlapping /\ MaxInFlight = 1 /\ "cleaning" \notin Faults
  => (Spec => []StoresAgree)
<1>1. "cleaning" \notin Faults /\ IInv /\ PlansExact /\ NoTaskFails /\ [Next]_vars => NoTaskFails'
  BY NoneFailsKept
<1>2. OnlyWholeCores => OrderlyAsks
  BY DEF OnlyWholeCores, OrderlyAsks
<1>3. OnlyWholeCores /\ IInv /\ Accounted /\ PlansExact /\ NoTaskFails /\ RowsMarked /\ CountKept
      => StoresAgree
  BY StoresAtRest
<1>4. CASE OnlyWholeCores /\ ~Overlapping /\ MaxInFlight = 1 /\ "cleaning" \notin Faults
  <2>1. Spec => []PlansExact
    BY <1>2, <1>4, PlansStayExact
  <2>2. Spec => []Accounted
    BY <1>4, Accounting
  <2>3. Spec => [](RowsMarked /\ CountKept)
    BY <1>4, CountFollowsRows
  <2>4. "cleaning" \notin Faults /\ OnlyWholeCores
    BY <1>4
  <2> QED
    BY <1>1, <1>3, <2>1, <2>2, <2>3, <2>4, InitiallyNoneFails, Structure, PTL DEF Spec
<1> QED
  BY <1>4

-----------------------------------------------------------------------------
(* A plan for as many containers as were asked for.                        *)

Planned(q) == SumOver([h \in DOMAIN req[q].plan |-> req[q].plan[h].count], DOMAIN req[q].plan)
Room(q, S) == SumOver([h \in Hosts |-> Capacity(q, h)], S)
Quotas(q, S) == SumOver(req[q].quota, S)

\* A host is taken for no more containers than it has whole cores for, so that
\* the worker finds a chunk for each of them.
CutWhole(q) ==
    /\ req[q].pc = "take" => req[q].limit <= Capacity(q, req[q].at)
    /\ \A h \in DOMAIN req[q].plan :
          Len(IterCores(req[q].plan[h].cores, req[q].plan[h].count)) = req[q].plan[h].count

\* What is planned and what is still needed make up the request, and the hosts
\* that are still to be asked have room for what is needed.
Placing(q) ==
    /\ req[q].pc \in {"share", "measure", "take"} =>
          (Hosts = {} \/ req[q].ask.ncore # 0) /\ Planned(q) + req[q].need = req[q].ask.n
    /\ req[q].pc = "share" => ByQuota(q) /\ DOMAIN req[q].plan = {}
    /\ req[q].pc \in {"measure", "take"} =>
          /\ req[q].todo \cap DOMAIN req[q].plan = {}
          /\ ByQuota(q) => req[q].need = Quotas(q, req[q].todo)
    /\ req[q].pc = "measure" /\ ~ByQuota(q) => req[q].need <= Room(q, req[q].todo)
    /\ req[q].pc = "take" /\ ~ByQuota(q) =>
          req[q].need <= req[q].limit + Room(q, req[q].todo \ {req[q].at})
    /\ req[q].pc \in {"enqueue", "occupy", "done"} => Planned(q) = req[q].ask.n

Placed(q) == CutWhole(q) /\ (~Pinned(q) => Placing(q))
PlansPlaced == \A q \in Requests : Placed(q)

LEMMA WholeAsk ==
  ASSUME OnlyWholeCores, IInv, NEW q \in Requests
  PROVE  /\ req[q].ask.nshare = 0 /\ req[q].ask.ncore \in Nat
         /\ req[q].ask.n \in Int /\ req[q].ask.n >= 0
<1>1. req[q].ask \in Asks \cup {NoAsk}
  BY DEF IInv, Types, RequestType
<1> QED
  BY <1>1, AskTypes DEF OnlyWholeCores, NoAsk

LEMMA WholeCapacity ==
  ASSUME OnlyWholeCores, IInv, NEW q \in Requests, NEW h \in Hosts
  PROVE  /\ Capacity(q, h) = Len(FullCores(remain[h])) \div req[q].ask.ncore
         /\ CountDefined(remain[h], req[q].ask.ncore, req[q].ask.nshare) <=> req[q].ask.ncore # 0
         /\ req[q].ask.ncore # 0 => Capacity(q, h) \in Nat
         /\ Len(FullCores(remain[h])) \in Nat
<1>1. req[q].ask.nshare = 0 /\ req[q].ask.ncore \in Nat
  BY WholeAsk
<1>2. Len(FullCores(remain[h])) \in Nat
  BY FullCoresList DEF IInv, Types
<1>3. Capacity(q, h) = Len(FullCores(remain[h])) \div req[q].ask.ncore
  BY <1>1 DEF Capacity, MaxContainerCount
<1> DEFINE n == req[q].ask.ncore
           w == Len(FullCores(remain[h]))
<1>4. n # 0 => w \div n \in Nat
  <2> HIDE DEF w, n
  <2>1. w \in Nat /\ n \in Nat
    BY <1>1, <1>2 DEF w, n
  <2> QED
    BY <2>1, Quotient
<1> QED
  BY <1>1, <1>2, <1>3, <1>4 DEF CountDefined

\* As many containers as there are sets of ncore whole cores get a chunk each
\* (get_container_cores and _iter_cores).
LEMMA WholePlan ==
  ASSUME NEW r \in [Cores -> Int], NEW n \in Nat \ {0}, NEW ncore \in Nat \ {0},
         n <= Len(FullCores(r)) \div ncore
  PROVE  Len(IterCores(ContainerCores(r, n, ncore, 0), n)) = n
<1> DEFINE A == ContainerCores(r, n, ncore, 0)
           W == FullCores(r)
           K == n * ncore
<1>1. W \in Seq(Cores) /\ Len(W) \in Nat
  BY FullCoresList
<1>2. A.full = Prefix(W, K) /\ A.part = <<>>
  BY DEF ContainerCores
<1>3. K \in Nat /\ K >= 1
  <2>1. K \in Nat /\ K = (n - 1) * ncore + ncore /\ (n - 1) * ncore \in Nat
    BY Product
  <2> HIDE DEF K
  <2> QED
    BY <2>1
<1>4. K <= Len(W)
  <2> DEFINE m == Len(W) \div ncore
             d == ncore * (m - n)
  <2>1. m \in Int /\ ncore * m <= Len(W)
    BY <1>1, Division
  <2>2. m - n \in Nat
    BY <2>1
  <2> HIDE DEF m, W
  <2>3. ncore * (m - n) \in Nat
    BY <2>2, Product
  <2>4. ncore * m = n * ncore + ncore * (m - n)
    BY <2>1
  <2>5. ncore * m \in Int
    BY <2>1
  <2> HIDE DEF K
  <2>6. ncore * m = K + d
    BY <2>4 DEF K
  <2> HIDE DEF d
  <2>7. d \in Nat
    BY <2>3 DEF d
  <2> QED
    BY <1>1, <1>3, <2>1, <2>5, <2>6, <2>7
<1> HIDE DEF W, K
<1>5. Len(A.full) = K
  <2>1. Len(Prefix(W, K)) = Smaller(K, Len(W))
    BY <1>1, <1>3, PrefixLength
  <2> QED
    BY <1>1, <1>2, <1>3, <1>4, <2>1 DEF Smaller
<1>6. Len(A.part) = 0
  BY <1>2
<1>7. A # NoCores
  <2>1. Len(NoCores.full) = 0
    BY DEF NoCores
  <2> QED
    BY <1>3, <1>5, <2>1
<1> HIDE DEF A
<1>8. K \div n = ncore
  <2>1. n * ncore \in Int /\ n * ncore = K
    BY <1>3 DEF K
  <2>2. n * ncore <= K /\ K < n * ncore + n
    BY <1>3, <2>1
  <2> QED
    BY <1>3, <2>2, QuotientIs
<1>9. 0 \div n = 0
  <2>1. n * 0 = 0
    OBVIOUS
  <2>2. n * 0 <= 0 /\ 0 < n * 0 + n
    BY <2>1
  <2> QED
    BY <2>2, QuotientIs
<1>10. ChunkCount(A.full, ncore) = n
  <2> DEFINE a == K + ncore - 1
  <2>1. ncore * n = K /\ a \in Int
    BY <1>3 DEF K
  <2>2. ncore * n <= a /\ a < ncore * n + ncore
    BY <1>3, <2>1
  <2> HIDE DEF a
  <2>3. a \div ncore = n
    BY <2>1, <2>2, QuotientIs
  <2> QED
    BY <1>5, <2>3 DEF ChunkCount, a
<1>11. ChunkCount(A.part, 0) = 0
  BY DEF ChunkCount
<1>12. IterCores(A, n) = [i \in 1 .. Max({n, 0}) |->
                             [full |-> Chunk(A.full, ncore, i), part |-> Chunk(A.part, 0, i)]]
  BY <1>5, <1>6, <1>7, <1>8, <1>9, <1>10, <1>11 DEF IterCores
<1>13. Max({n, 0}) = n
  <2>1. \A w \in {n, 0} : n >= w
    OBVIOUS
  <2>2. Max({n, 0}) \in {n, 0} /\ \A w \in {n, 0} : Max({n, 0}) >= w
    BY <2>1 DEF Max
  <2> QED
    BY <2>2
<1> QED
  BY <1>12, <1>13 DEF A

LEMMA PlacedKept ==
  ASSUME NEW q \in Requests, Placed(q), req'[q].plan = req[q].plan,
         req'[q].pc \notin {"share", "measure", "take"},
         req'[q].pc \in {"enqueue", "occupy", "done"} =>
            req'[q].ask = req[q].ask /\ req[q].pc \in {"enqueue", "occupy", "done"}
  PROVE  Placed(q)'
<1>1. CutWhole(q)'
  BY DEF Placed, CutWhole
<1>2. CASE req'[q].pc \in {"enqueue", "occupy", "done"}
  BY <1>1, <1>2 DEF Placed, Placing, Pinned, Planned
<1>3. CASE req'[q].pc \notin {"enqueue", "occupy", "done"}
  BY <1>1, <1>3 DEF Placed, Placing
<1> QED
  BY <1>2, <1>3

LEMMA PlacedLeaving ==
  ASSUME NEW q \in Requests, req \in [Requests -> RequestType], NEW state,
         state \in {"raised", "rejected"}, Leave(q, state)
  PROVE  Placed(q)'
<1>1. req'[q].plan = NoPlan /\ req'[q].pc = state /\ DOMAIN NoPlan = {}
  BY PlanTypes DEF Leave, Left, NewRequest
<1> QED
  BY <1>1 DEF Placed, CutWhole, Placing

\* The sums have finitely many integer terms.
LEMMA PlacingTypes ==
  ASSUME OnlyWholeCores, IInv, NEW q \in Requests
  PROVE  /\ req[q].need \in Int /\ req[q].limit \in Int /\ req[q].todo \subseteq Hosts
         /\ req[q].quota \in [Hosts -> Int]
         /\ IsFiniteSet(DOMAIN req[q].plan) /\ DOMAIN req[q].plan \subseteq Hosts
         /\ \A h \in DOMAIN req[q].plan : req[q].plan[h].count \in Int
         /\ Planned(q) \in Int
         /\ \A S \in SUBSET Hosts :
               /\ IsFiniteSet(S) /\ Ints(req[q].quota, S) /\ Quotas(q, S) \in Int
               /\ (Hosts = {} \/ req[q].ask.ncore # 0) =>
                     Ints([h \in Hosts |-> Capacity(q, h)], S) /\ Room(q, S) \in Int
<1>1. /\ req[q].need \in Int /\ req[q].limit \in Int /\ req[q].todo \subseteq Hosts
      /\ req[q].quota \in [Hosts -> Int] /\ req[q].plan \in Plans
  BY DEF IInv, Types, RequestType
<1>2. /\ DOMAIN req[q].plan \subseteq Hosts
      /\ \A h \in DOMAIN req[q].plan : req[q].plan[h].count \in Int
  BY <1>1, PlanTypes
<1>3. \A S \in SUBSET Hosts : IsFiniteSet(S)
  BY Finite, FS_Subset
<1>4. IsFiniteSet(DOMAIN req[q].plan)
  BY <1>2, <1>3
<1>5. Planned(q) \in Int
  BY <1>2, <1>4, SumInt DEF Planned, Ints
<1>6. ASSUME NEW S \in SUBSET Hosts PROVE Ints(req[q].quota, S) /\ Quotas(q, S) \in Int
  <2>1. Ints(req[q].quota, S)
    BY <1>1 DEF Ints
  <2> QED
    BY <1>3, <2>1, SumInt DEF Quotas
<1>7. ASSUME NEW S \in SUBSET Hosts, Hosts = {} \/ req[q].ask.ncore # 0
      PROVE  Ints([h \in Hosts |-> Capacity(q, h)], S) /\ Room(q, S) \in Int
  <2>1. Ints([h \in Hosts |-> Capacity(q, h)], S)
    BY <1>7, WholeCapacity DEF Ints
  <2> QED
    BY <1>3, <2>1, SumInt DEF Room
<1> QED
  BY <1>1, <1>2, <1>3, <1>4, <1>5, <1>6, <1>7

LEMMA PlacedAccepting ==
  ASSUME OnlyWholeCores, IInv, NEW q \in Requests, Placed(q), Accept(q)
  PROVE  Placed(q)'
<1> DEFINE state == IF ByQuota(q) THEN "share" ELSE "measure"
<1>1. req \in [Requests -> RequestType] /\ req[q] \in RequestType /\ RequestShape(q)
  BY DEF IInv, Types
<1>2. /\ req'[q].pc = state /\ req'[q].plan = req[q].plan /\ req'[q].ask = req[q].ask
      /\ req'[q].need = req[q].ask.n /\ remain' = remain /\ req[q].pc = "check"
      /\ ~Pinned(q) => req'[q].todo = Hosts
  BY <1>1 DEF Accept, RequestType
<1>3. DOMAIN req[q].plan = {}
  BY <1>1, <1>2 DEF RequestShape
<1>4. /\ ByQuota(q)' <=> ByQuota(q)
      /\ Pinned(q)' <=> Pinned(q)
  BY <1>2 DEF ByQuota, Pinned
<1>5. CutWhole(q)'
  BY <1>2, <1>3 DEF CutWhole
<1>6. CASE Pinned(q)
  BY <1>4, <1>5, <1>6 DEF Placed
<1>7. CASE ~Pinned(q)
  <2>1. CapacityDefined(q) /\ req[q].ask.n <= PodCapacity(q)
    BY <1>7 DEF Accept
  <2>2. req[q].ask.n \in Int
    BY WholeAsk
  <2>3. Planned(q)' = 0
    BY <1>2, <1>3, SumEmpty DEF Planned
  <2>4. Hosts = {} \/ req[q].ask.ncore # 0
    BY <2>1, WholeCapacity DEF CapacityDefined
  <2>5. req[q].ask.n <= Room(q, Hosts)
    BY <2>1 DEF PodCapacity, SumFunction, SumOver, Room
  <2>6. \A S \in SUBSET Hosts : Room(q, S)' = Room(q, S)
    BY <1>2 DEF Room, Capacity
  <2>7. Planned(q)' + req'[q].need = req[q].ask.n
    BY <1>2, <2>2, <2>3
  <2>8. PICK S \in SUBSET Hosts : S = Hosts
    OBVIOUS
  <2>9. Room(q, S)' = Room(q, S) /\ req'[q].need <= Room(q, S) /\ req'[q].todo = S
    BY <1>2, <1>7, <2>5, <2>6, <2>8
  <2>10. Room(q, req[q].todo)' = Room(q, S)'
    BY <2>9
  <2>11. Placing(q)'
    BY <1>2, <1>3, <1>4, <2>4, <2>7, <2>9, <2>10 DEF Placing
  <2> QED
    BY <1>5, <2>11 DEF Placed
<1> QED
  BY <1>6, <1>7

LEMMA PlacedSharing ==
  ASSUME OnlyWholeCores, IInv, NEW q \in Requests, Exact(q), Placed(q), ShareOut(q)
  PROVE  Placed(q)'
<1>1. req \in [Requests -> RequestType] /\ req[q] \in RequestType
  BY DEF IInv, Types
<1> DEFINE n == IF req[q].need > 0 THEN req[q].need ELSE 0
           deals == RoundRobin([h \in Hosts |-> Capacity(q, h)], n)
           chosen(u) == {h \in Hosts : u[h] > 0}
<1>2. /\ req[q].pc = "share" /\ UNCHANGED remain
      /\ \/ Leave(q, "rejected")
         \/ \E u \in deals :
               n > 0 /\ req' = [req EXCEPT ![q].pc = "measure", ![q].quota = u, ![q].todo = chosen(u)]
         \/ req' = [req EXCEPT ![q].pc = "spin"]
  BY DEF ShareOut
<1>3. CASE Leave(q, "rejected")
  BY <1>1, <1>3, PlacedLeaving
<1>4. CASE req' = [req EXCEPT ![q].pc = "spin"]
  <2>1. req'[q].pc = "spin" /\ req'[q].plan = req[q].plan
    BY <1>1, <1>4 DEF RequestType
  <2> QED
    BY <2>1, PlacedKept
<1>5. ASSUME NEW u \in deals, n > 0,
             req' = [req EXCEPT ![q].pc = "measure", ![q].quota = u, ![q].todo = chosen(u)]
      PROVE  Placed(q)'
  <2>1. u \in [Hosts -> 0 .. n] /\ SumFunction(u) = n
    BY DEF RoundRobin
  <2>2. req[q].need \in Int
    BY PlacingTypes
  <2>3. n = req[q].need
    BY <1>5, <2>2
  <2>4. u \in [Hosts -> Nat]
    BY <2>1, <2>2, <2>3
  <2> HIDE DEF deals, n
  <2>5. PICK T \in SUBSET Hosts : T = chosen(u)
    OBVIOUS
  <2>6. SumOver(u, T) = req[q].need
    <3>1. Ints(u, T) /\ \A h \in Hosts : u[h] = IF h \in T THEN u[h] ELSE 0
      BY <2>4, <2>5 DEF Ints
    <3>2. SumOver(u, Hosts) = SumOver(u, T)
      BY <3>1, Finite, SumPart
    <3>3. SumFunction(u) = SumOver(u, Hosts)
      BY <2>4 DEF SumFunction, SumOver
    <3> QED
      BY <2>1, <2>3, <3>2, <3>3
  <2>7. /\ req'[q].pc = "measure" /\ req'[q].quota = u /\ req'[q].todo = T
        /\ req'[q].ask = req[q].ask /\ req'[q].need = req[q].need
        /\ req'[q].plan = req[q].plan
    BY <1>1, <1>5, <2>5 DEF RequestType
  <2>8. /\ ByQuota(q)' <=> ByQuota(q)
        /\ Pinned(q)' <=> Pinned(q)
        /\ Planned(q)' = Planned(q)
    BY <2>7 DEF ByQuota, Pinned, Planned
  <2>9. CutWhole(q)'
    BY <2>7 DEF Placed, CutWhole
  <2>10. CASE Pinned(q)
    BY <2>8, <2>9, <2>10 DEF Placed
  <2>11. CASE ~Pinned(q)
    <3>1. /\ Hosts = {} \/ req[q].ask.ncore # 0
          /\ Planned(q) + req[q].need = req[q].ask.n /\ DOMAIN req[q].plan = {}
          /\ ByQuota(q)
      BY <1>2, <2>11 DEF Placed, Placing
    <3>2. Quotas(q, req[q].todo)' = req'[q].need
      BY <2>6, <2>7 DEF Quotas
    <3>3. req'[q].todo \cap DOMAIN req'[q].plan = {}
      BY <2>7, <3>1
    <3> QED
      BY <2>7, <2>8, <2>9, <3>1, <3>2, <3>3 DEF Placed, Placing
  <2> QED
    BY <2>10, <2>11
<1> QED
  BY <1>2, <1>3, <1>4, <1>5

LEMMA PlacedMeasuring ==
  ASSUME OnlyWholeCores, IInv, NEW q \in Requests, Exact(q), Placed(q), NEW h \in Hosts,
         MeasureHost(q, h)
  PROVE  Placed(q)'
<1>1. req \in [Requests -> RequestType] /\ req[q] \in RequestType
  BY DEF IInv, Types
<1>2. CASE ~CountDefined(remain[h], req[q].ask.ncore, req[q].ask.nshare)
  BY <1>1, <1>2, PlacedLeaving DEF MeasureHost
<1>3. CASE CountDefined(remain[h], req[q].ask.ncore, req[q].ask.nshare)
  <2>0. PICK k : k = Capacity(q, h)
    OBVIOUS
  <2>1. /\ req[q].pc = "measure" /\ h \in req[q].todo
        /\ req' = [req EXCEPT ![q].pc = "take", ![q].at = h, ![q].limit = k]
        /\ UNCHANGED remain
    BY <1>3, <2>0 DEF MeasureHost
  <2>2. req[q].ask.ncore # 0 /\ k \in Nat
    BY <1>3, <2>0, WholeCapacity
  <2>3. /\ req'[q].pc = "take" /\ req'[q].at = h /\ req'[q].limit = k
        /\ req'[q].ask = req[q].ask /\ req'[q].todo = req[q].todo
        /\ req'[q].quota = req[q].quota /\ req'[q].need = req[q].need
        /\ req'[q].plan = req[q].plan
    BY <1>1, <2>1 DEF RequestType
  <2>4. /\ ByQuota(q)' <=> ByQuota(q)
        /\ Pinned(q)' <=> Pinned(q)
        /\ Planned(q)' = Planned(q)
        /\ \A S \in SUBSET Hosts : Room(q, S)' = Room(q, S) /\ Quotas(q, S)' = Quotas(q, S)
        /\ \A g \in Hosts : Capacity(q, g)' = Capacity(q, g)
    <3>1. (ByQuota(q)' <=> ByQuota(q)) /\ (Pinned(q)' <=> Pinned(q)) /\ Planned(q)' = Planned(q)
      BY <2>3 DEF ByQuota, Pinned, Planned
    <3>2. \A g \in Hosts : Capacity(q, g)' = Capacity(q, g)
      BY <2>1, <2>3 DEF Capacity
    <3>3. \A S \in SUBSET Hosts : Room(q, S)' = Room(q, S)
      BY <3>2 DEF Room
    <3>4. \A S \in SUBSET Hosts : Quotas(q, S)' = Quotas(q, S)
      BY <2>3 DEF Quotas
    <3> QED
      BY <3>1, <3>2, <3>3, <3>4
  <2>5. Capacity(q, req[q].at)' = k
    BY <2>0, <2>3, <2>4 DEF Capacity
  <2>6. CutWhole(q)'
    BY <2>2, <2>3, <2>5 DEF Placed, CutWhole
  <2>7. CASE Pinned(q)
    BY <2>4, <2>6, <2>7 DEF Placed
  <2>8. CASE ~Pinned(q)
    <3>1. PICK S \in SUBSET Hosts : S = req[q].todo
      BY PlacingTypes
    <3>2. PICK R \in SUBSET Hosts : R = S \ {h}
      OBVIOUS
    <3>3. /\ Planned(q) + req[q].need = req[q].ask.n /\ req[q].todo \cap DOMAIN req[q].plan = {}
          /\ ByQuota(q) => req[q].need = Quotas(q, S)
          /\ ~ByQuota(q) => req[q].need <= Room(q, S)
      BY <2>1, <2>8, <3>1 DEF Placed, Placing
    <3>4. Room(q, S) = k + Room(q, R)
      <4> DEFINE f == [g \in Hosts |-> Capacity(q, g)]
      <4>1. IsFiniteSet(S) /\ Ints(f, S) /\ h \in S /\ f[h] = k
        BY <2>0, <2>1, <2>2, <3>1, PlacingTypes
      <4> HIDE DEF f
      <4>2. SumOver(f, S) = f[h] + SumOver(f, S \ {h})
        BY <4>1, SumRemove
      <4> QED
        BY <3>2, <4>1, <4>2 DEF Room, f
    <3>5. /\ Room(q, req[q].todo \ {req[q].at})' = Room(q, R)'
          /\ Quotas(q, req[q].todo)' = Quotas(q, S)'
      BY <2>3, <3>1, <3>2
    <3>6. Room(q, R)' = Room(q, R) /\ Quotas(q, S)' = Quotas(q, S)
      BY <2>4
    <3> QED
      BY <2>2, <2>3, <2>4, <2>6, <3>3, <3>4, <3>5, <3>6 DEF Placed, Placing
  <2> QED
    BY <2>7, <2>8
<1> QED
  BY <1>2, <1>3

\* The containers that the host at hand is taken for.
Total(q) == Smaller(Wanted(q), req[q].limit)

LEMMA Taking ==
  ASSUME OnlyWholeCores, IInv, NEW q \in Requests, Exact(q), Placed(q), req[q].pc = "take"
  PROVE  /\ req[q].at \in req[q].todo /\ req[q].at \in Hosts
         /\ Total(q) \in Nat /\ Total(q) <= req[q].limit /\ 0 <= req[q].limit
         /\ req[q].ask.ncore \in Nat \ {0} /\ req[q].ask.nshare = 0
         /\ Total(q) <= Len(FullCores(remain[req[q].at])) \div req[q].ask.ncore
         /\ ByQuota(q) => Total(q) = req[q].quota[req[q].at] /\ Total(q) > 0
         /\ ~ByQuota(q) => /\ req[q].need >= 0 /\ Total(q) <= req[q].need
                           /\ Total(q) = req[q].need \/ Total(q) = req[q].limit
<1>0. PICK h : h = req[q].at
  OBVIOUS
<1>1. RequestShape(q) /\ req[q] \in RequestType
  BY DEF IInv, Types
<1>2. h \in req[q].todo /\ h \in Hosts
  BY <1>0, <1>1 DEF RequestShape, RequestType
<1>3. /\ req[q].ask.ncore \in Nat \ {0} /\ 0 <= req[q].limit /\ req[q].ask.nshare = 0
      /\ ByQuota(q) => 0 < req[q].quota[h] /\ req[q].quota[h] <= req[q].limit
      /\ req[q].need >= 0 \/ ByQuota(q)
  BY <1>0, <1>2, WholeAsk DEF Exact
<1>4. req[q].need \in Int /\ req[q].limit \in Int /\ req[q].quota[h] \in Int
  BY <1>2, PlacingTypes
<1>5. req[q].limit <= Len(FullCores(remain[h])) \div req[q].ask.ncore
  BY <1>0, <1>2, WholeCapacity DEF Placed, CutWhole
<1>6. Len(FullCores(remain[h])) \div req[q].ask.ncore \in Nat
  BY <1>2, <1>3, WholeCapacity
<1>7. ByQuota(q) => Total(q) = req[q].quota[h]
  BY <1>0, <1>3, <1>4 DEF Total, Wanted, Smaller
<1>8. ~ByQuota(q) => Total(q) = IF req[q].need < req[q].limit THEN req[q].need ELSE req[q].limit
  BY DEF Total, Wanted, Smaller
<1>9. Total(q) \in Nat /\ Total(q) <= req[q].limit
  BY <1>3, <1>4, <1>7, <1>8
<1>10. Total(q) <= Len(FullCores(remain[h])) \div req[q].ask.ncore
  BY <1>4, <1>5, <1>6, <1>9
<1>11. ~ByQuota(q) => /\ req[q].need >= 0 /\ Total(q) <= req[q].need
                      /\ Total(q) = req[q].need \/ Total(q) = req[q].limit
  BY <1>3, <1>4, <1>8
<1> QED
  BY <1>0, <1>2, <1>3, <1>7, <1>9, <1>10, <1>11

\* The plan with the host at hand.
Extended(q) ==
    LET h == req[q].at
        cores == ContainerCores(remain[h], Total(q), req[q].ask.ncore, 0)
    IN  IF Total(q) = 0 THEN req[q].plan
        ELSE [g \in DOMAIN req[q].plan \cup {h} |->
                IF g = h THEN [count |-> Total(q), cores |-> cores] ELSE req[q].plan[g]]

LEMMA PlanGrows ==
  ASSUME OnlyWholeCores, IInv, NEW q \in Requests, Exact(q), Placed(q), req[q].pc = "take",
         NEW P, P = Extended(q)
  PROVE  /\ \A g \in DOMAIN P : Len(IterCores(P[g].cores, P[g].count)) = P[g].count
         /\ DOMAIN P \subseteq DOMAIN req[q].plan \cup {req[q].at}
         /\ req[q].at \notin DOMAIN req[q].plan =>
               SumOver([g \in DOMAIN P |-> P[g].count], DOMAIN P) = Planned(q) + Total(q)
<1>0. PICK h \in Hosts : h = req[q].at
  BY Taking
<1>1. PICK D \in SUBSET Hosts : D = DOMAIN req[q].plan
  BY PlacingTypes
<1>2. PICK n \in Nat : n = Total(q)
  BY Taking
<1>3. PICK cores : cores = ContainerCores(remain[h], n, req[q].ask.ncore, 0)
  OBVIOUS
<1>4. /\ \A g \in D : Len(IterCores(req[q].plan[g].cores, req[q].plan[g].count))
                          = req[q].plan[g].count
      /\ \A g \in D : req[q].plan[g].count \in Int
  BY <1>1, PlacingTypes DEF Placed, CutWhole
<1>5. Planned(q) \in Int
  BY PlacingTypes
<1>6. CASE n = 0
  <2>1. P = req[q].plan
    BY <1>2, <1>6 DEF Extended
  <2>2. SumOver([g \in DOMAIN P |-> P[g].count], DOMAIN P) = Planned(q)
    BY <2>1 DEF Planned
  <2> QED
    BY <1>1, <1>2, <1>4, <1>5, <1>6, <2>1, <2>2
<1>7. CASE n # 0
  <2> DEFINE entry == [count |-> n, cores |-> cores]
  <2>1. P = [g \in D \cup {h} |-> IF g = h THEN entry ELSE req[q].plan[g]]
    BY <1>0, <1>1, <1>2, <1>3, <1>7 DEF Extended
  <2>2. Len(IterCores(cores, n)) = n
    <3>1. remain[h] \in [Cores -> Int]
      BY DEF IInv, Types
    <3>2. n \in Nat \ {0} /\ req[q].ask.ncore \in Nat \ {0}
      BY <1>7, Taking
    <3>3. n <= Len(FullCores(remain[h])) \div req[q].ask.ncore
      BY <1>0, <1>2, Taking
    <3> QED
      BY <1>3, <3>1, <3>2, <3>3, WholePlan
  <2>3. entry.count = n /\ entry.cores = cores
    OBVIOUS
  <2> HIDE DEF entry
  <2>4. \A g \in DOMAIN P : Len(IterCores(P[g].cores, P[g].count)) = P[g].count
    BY <1>4, <2>1, <2>2, <2>3
  <2>5. ASSUME h \notin D
        PROVE  SumOver([g \in DOMAIN P |-> P[g].count], DOMAIN P) = Planned(q) + n
    <3> DEFINE E == D \cup {h}
               f == [g \in D |-> req[q].plan[g].count]
               k == [g \in E |-> P[g].count]
    <3>1. k[h] = n /\ \A g \in D : k[g] = f[g]
      BY <2>1, <2>3, <2>5
    <3>2. IsFiniteSet(D) /\ Ints(f, D)
      BY <1>4, PlacingTypes DEF Ints
    <3>3. Ints(k, E)
      BY <3>1, <3>2 DEF Ints
    <3>4. Planned(q) = SumOver(f, D)
      BY <1>1 DEF Planned
    <3>5. E = D \cup {h}
      OBVIOUS
    <3>6. [g \in DOMAIN P |-> P[g].count] = k /\ DOMAIN P = E
      BY <2>1
    <3> HIDE DEF f, k, E
    <3>7. SumOver(k, E) = k[h] + SumOver(k, D)
      BY <2>5, <3>2, <3>3, <3>5, SumInsert
    <3>8. SumOver(k, D) = SumOver(f, D)
      BY <3>1, <3>2, SumSame
    <3> QED
      BY <1>5, <3>1, <3>4, <3>6, <3>7, <3>8
  <2> QED
    BY <1>0, <1>1, <1>2, <2>1, <2>4, <2>5
<1> QED
  BY <1>6, <1>7

\* What is still needed, when the host at hand has been taken, fits the hosts
\* that are left; when none is left, nothing is needed.
LEMMA NeedLeft ==
  ASSUME OnlyWholeCores, IInv, NEW q \in Requests, Exact(q), Placed(q), ~Pinned(q),
         req[q].pc = "take", NEW need, need = req[q].need - Total(q),
         NEW left \in SUBSET Hosts, left = HostsLeft(q, need)
  PROVE  /\ need \in Int
         /\ left = {} => need = 0
         /\ left # {} => /\ left = req[q].todo \ {req[q].at}
                         /\ ByQuota(q) => need = Quotas(q, left)
                         /\ ~ByQuota(q) => need <= Room(q, left)
<1>0. PICK h \in Hosts : h = req[q].at
  BY Taking
<1>1. PICK S \in SUBSET Hosts : S = req[q].todo
  BY PlacingTypes
<1>2. PICK R \in SUBSET Hosts : R = S \ {h}
  OBVIOUS
<1>3. PICK n \in Nat : n = Total(q)
  BY Taking
<1>4. need \in Int /\ req[q].need \in Int /\ need = req[q].need - n
  BY <1>3, PlacingTypes
<1>5. h \in S /\ left = IF need <= 0 THEN {} ELSE R
  BY <1>0, <1>1, <1>2, Taking DEF HostsLeft
<1>6. CASE ByQuota(q)
  <2> DEFINE f == req[q].quota
  <2>1. req[q].need = SumOver(f, S) /\ f[h] = n
    BY <1>0, <1>1, <1>3, <1>6, Taking DEF Placed, Placing, Quotas
  <2>2. IsFiniteSet(S) /\ Ints(f, S) /\ IsFiniteSet(R) /\ Ints(f, R)
    BY PlacingTypes
  <2>3. \A g \in S : f[g] >= 0
    <3>1. \A g \in S : 0 < f[g] /\ f[g] \in Int
      BY <1>1, <1>6, <2>2 DEF Exact, Ints
    <3> QED
      BY <3>1
  <2>4. Quotas(q, R) = SumOver(f, R)
    BY DEF Quotas
  <2> HIDE DEF f
  <2>5. SumOver(f, S) = f[h] + SumOver(f, R)
    BY <1>2, <1>5, <2>2, SumRemove
  <2>6. SumOver(f, R) \in Int
    BY <2>2, SumInt
  <2>7. need = SumOver(f, R)
    BY <1>4, <2>1, <2>5, <2>6
  <2>8. R \subseteq S
    BY <1>2
  <2>9. 0 <= SumOver(f, R)
    BY <2>2, <2>3, <2>8, SumSubset
  <2>10. R = {} => need = 0
    BY <2>7, SumEmpty
  <2>11. left = {} => need = 0
    BY <1>4, <1>5, <2>7, <2>9, <2>10
  <2>12. left # {} => left = R
    BY <1>5
  <2> QED
    BY <1>0, <1>1, <1>2, <1>4, <1>6, <2>4, <2>7, <2>11, <2>12
<1>7. CASE ~ByQuota(q)
  <2>1. /\ req[q].need >= 0 /\ n <= req[q].need
        /\ n = req[q].need \/ n = req[q].limit
        /\ req[q].limit \in Int
    BY <1>3, <1>7, Taking, PlacingTypes
  <2>2. req[q].need <= req[q].limit + Room(q, R)
    BY <1>0, <1>1, <1>2, <1>7 DEF Placed, Placing
  <2>3. Room(q, R) \in Int
    BY Taking, PlacingTypes
  <2>4. R = {} => Room(q, R) = 0
    BY SumEmpty DEF Room
  <2>5. CASE need <= 0
    BY <1>4, <1>5, <2>1, <2>5
  <2>6. CASE ~(need <= 0)
    <3>1. n = req[q].limit /\ left = R
      BY <1>4, <1>5, <2>1, <2>6
    <3>2. need <= Room(q, R)
      BY <1>4, <2>1, <2>2, <2>3, <3>1
    <3>3. R # {}
      BY <1>4, <2>4, <2>6, <3>2
    <3> QED
      BY <1>0, <1>1, <1>2, <1>4, <1>7, <3>1, <3>2, <3>3
  <2> QED
    BY <2>5, <2>6
<1> QED
  BY <1>6, <1>7

LEMMA TakeOutcomes ==
  ASSUME OnlyWholeCores, IInv, NEW q \in Requests, Exact(q), Placed(q), TakeCores(q)
  PROVE  /\ req[q].pc = "take" /\ UNCHANGED remain
         /\ LET P == Extended(q)
                need == req[q].need - Total(q)
                todo == HostsLeft(q, need)
            IN  \/ /\ todo # {}
                   /\ req' = [req EXCEPT ![q].pc = "measure", ![q].plan = P,
                                         ![q].need = need, ![q].todo = todo]
                \/ /\ todo = {}
                   /\ req' = Left(q, IF DOMAIN P = {} THEN "rejected" ELSE "enqueue", P)
<1>1. req[q].pc = "take" /\ UNCHANGED remain
  BY DEF TakeCores
<1>2. req[q].ask.nshare = 0 /\ (ByQuota(q) => Total(q) = req[q].quota[req[q].at])
  BY <1>1, Taking
<1> DEFINE h == req[q].at
           ask == req[q].ask
           total == Smaller(Wanted(q), req[q].limit)
           found == IF ByQuota(q) THEN req[q].quota[h] ELSE total
           cores == ContainerCores(remain[h], total, ask.ncore, ask.nshare)
           plan == IF found = 0 THEN req[q].plan
                   ELSE [g \in DOMAIN req[q].plan \cup {h} |->
                           IF g = h THEN [count |-> found, cores |-> cores] ELSE req[q].plan[g]]
           need == req[q].need - found
           todo == HostsLeft(q, need)
<1>3. IF ~CoresDefined(remain[h], total, ask.ncore, ask.nshare) THEN Leave(q, "raised")
      ELSE IF todo # {}
      THEN /\ req' = [req EXCEPT ![q].pc = "measure", ![q].plan = plan,
                                 ![q].need = need, ![q].todo = todo]
           /\ UNCHANGED lock
      ELSE /\ req' = Left(q, IF DOMAIN plan = {} THEN "rejected" ELSE "enqueue", plan)
           /\ lock' = Nobody
  BY DEF TakeCores
<1>4. CoresDefined(remain[h], total, ask.ncore, ask.nshare)
  BY <1>2 DEF CoresDefined
<1>5. total = Total(q)
  BY DEF Total
<1>6. found = Total(q)
  BY <1>2, <1>5
<1>7. need = req[q].need - Total(q)
  BY <1>6
<1>8. todo = HostsLeft(q, req[q].need - Total(q))
  BY <1>7
<1>9. plan = Extended(q)
  <2>1. cores = ContainerCores(remain[h], Total(q), ask.ncore, 0)
    BY <1>2, <1>5
  <2> HIDE DEF found, cores
  <2> QED
    BY <1>6, <2>1 DEF Extended
<1> HIDE DEF total, found, cores, plan, need, todo
<1> QED
  BY <1>1, <1>3, <1>4, <1>7, <1>8, <1>9

LEMMA PlacedTaking ==
  ASSUME OnlyWholeCores, IInv, NEW q \in Requests, Exact(q), Placed(q), TakeCores(q)
  PROVE  Placed(q)'
<1>0. req \in [Requests -> RequestType] /\ req[q] \in RequestType
  BY DEF IInv, Types
<1>1. PICK P : P = Extended(q)
  OBVIOUS
<1>2. PICK need : need = req[q].need - Total(q)
  OBVIOUS
<1>3. PICK left \in SUBSET Hosts : left = HostsLeft(q, need)
  <2>1. HostsLeft(q, need) \subseteq Hosts
    BY PlacingTypes DEF HostsLeft
  <2> QED
    BY <2>1
<1>4. /\ req[q].pc = "take" /\ UNCHANGED remain
      /\ \/ /\ left # {}
            /\ req' = [req EXCEPT ![q].pc = "measure", ![q].plan = P,
                                  ![q].need = need, ![q].todo = left]
         \/ /\ left = {}
            /\ req' = Left(q, IF DOMAIN P = {} THEN "rejected" ELSE "enqueue", P)
  BY <1>1, <1>2, <1>3, TakeOutcomes
<1>5. /\ \A g \in DOMAIN P : Len(IterCores(P[g].cores, P[g].count)) = P[g].count
      /\ DOMAIN P \subseteq DOMAIN req[q].plan \cup {req[q].at}
  BY <1>1, <1>4, PlanGrows
<1>6. ASSUME ~Pinned(q)
      PROVE  /\ req[q].todo \cap DOMAIN req[q].plan = {}
             /\ Hosts = {} \/ req[q].ask.ncore # 0
             /\ SumOver([g \in DOMAIN P |-> P[g].count], DOMAIN P) + need = req[q].ask.n
  <2>1. /\ req[q].todo \cap DOMAIN req[q].plan = {}
        /\ Hosts = {} \/ req[q].ask.ncore # 0
        /\ Planned(q) + req[q].need = req[q].ask.n
    BY <1>4, <1>6 DEF Placed, Placing
  <2>2. req[q].at \notin DOMAIN req[q].plan /\ Total(q) \in Nat
    BY <1>4, <2>1, Taking
  <2>3. SumOver([g \in DOMAIN P |-> P[g].count], DOMAIN P) = Planned(q) + Total(q)
    BY <1>1, <1>4, <2>2, PlanGrows
  <2>4. Planned(q) \in Int /\ req[q].need \in Int
    BY PlacingTypes
  <2> QED
    BY <1>2, <2>1, <2>2, <2>3, <2>4
<1>7. ASSUME ~Pinned(q)
      PROVE  /\ need \in Int
             /\ left = {} => need = 0
             /\ left # {} => /\ left = req[q].todo \ {req[q].at}
                             /\ ByQuota(q) => need = Quotas(q, left)
                             /\ ~ByQuota(q) => need <= Room(q, left)
  BY <1>2, <1>3, <1>4, <1>7, NeedLeft
<1>8. CASE left # {}
  <2>1. /\ req'[q].pc = "measure" /\ req'[q].plan = P /\ req'[q].need = need
        /\ req'[q].todo = left /\ req'[q].ask = req[q].ask /\ req'[q].quota = req[q].quota
    BY <1>0, <1>4, <1>8 DEF RequestType
  <2>2. CutWhole(q)'
    BY <1>5, <2>1 DEF CutWhole
  <2>3. (ByQuota(q)' <=> ByQuota(q)) /\ (Pinned(q)' <=> Pinned(q))
    BY <2>1 DEF ByQuota, Pinned
  <2>4. CASE Pinned(q)
    BY <2>2, <2>3, <2>4 DEF Placed
  <2>5. CASE ~Pinned(q)
    <3>1. Planned(q)' + need = req[q].ask.n
      BY <1>6, <2>1, <2>5 DEF Planned
    <3>2. \A S \in SUBSET Hosts : Room(q, S)' = Room(q, S)
      <4>1. \A g \in Hosts : Capacity(q, g)' = Capacity(q, g)
        BY <1>4, <2>1 DEF Capacity
      <4> QED
        BY <4>1 DEF Room
    <3>3. \A S \in SUBSET Hosts : Quotas(q, S)' = Quotas(q, S)
      BY <2>1 DEF Quotas
    <3>4. Room(q, req[q].todo)' = Room(q, left) /\ Quotas(q, req[q].todo)' = Quotas(q, left)
      <4>1. Room(q, req[q].todo)' = Room(q, left)' /\ Quotas(q, req[q].todo)' = Quotas(q, left)'
        BY <2>1
      <4> QED
        BY <3>2, <3>3, <4>1
    <3>5. left \cap DOMAIN P = {}
      BY <1>5, <1>6, <1>7, <1>8, <2>5
    <3> QED
      BY <1>6, <1>7, <1>8, <2>1, <2>2, <2>3, <2>5, <3>1, <3>4, <3>5 DEF Placed, Placing
  <2> QED
    BY <2>4, <2>5
<1>9. CASE left = {}
  <2>1. req'[q].pc \in {"rejected", "enqueue"} /\ req'[q].plan = P /\ req'[q].ask = req[q].ask
    BY <1>0, <1>4, <1>9 DEF Left, NewRequest
  <2>2. CutWhole(q)'
    BY <1>5, <2>1 DEF CutWhole
  <2>3. Pinned(q)' <=> Pinned(q)
    BY <2>1 DEF Pinned
  <2>4. CASE Pinned(q)
    BY <2>2, <2>3, <2>4 DEF Placed
  <2>5. CASE ~Pinned(q)
    <3>1. need = 0
      BY <1>7, <1>9, <2>5
    <3>2. Planned(q)' = SumOver([g \in DOMAIN P |-> P[g].count], DOMAIN P)
      BY <2>1 DEF Planned
    <3>3. SumOver([g \in DOMAIN P |-> P[g].count], DOMAIN P) \in Int
      <4>1. Total(q) \in Nat /\ Planned(q) \in Int
        BY <1>4, Taking, PlacingTypes
      <4>2. req[q].at \notin DOMAIN req[q].plan
        BY <1>4, <1>6, <2>5, Taking
      <4> QED
        BY <1>1, <1>4, <4>1, <4>2, PlanGrows
    <3>4. Planned(q)' = req'[q].ask.n
      BY <1>6, <2>1, <2>5, <3>1, <3>2, <3>3
    <3> QED
      BY <2>1, <2>2, <3>4 DEF Placed, Placing
  <2> QED
    BY <2>4, <2>5
<1> QED
  BY <1>8, <1>9

\* The request itself moves.
LEMMA PlacedHandling ==
  ASSUME OnlyWholeCores, IInv, NEW q \in Requests, Exact(q), Placed(q), Submit(q) \/ Handler(q)
  PROVE  Placed(q)'
<1>1. req \in [Requests -> RequestType] /\ req[q] \in RequestType
  BY DEF IInv, Types
<1>2. CASE Submit(q)
  <2>1. PICK a \in Asks : req' = [req EXCEPT ![q].pc = "lock", ![q].ask = a]
    BY <1>2 DEF Submit
  <2>2. req'[q].pc = "lock" /\ req'[q].plan = req[q].plan
    BY <1>1, <2>1 DEF RequestType
  <2> QED
    BY <2>2, PlacedKept
<1>3. CASE AcquireLock(q)
  <2>1. req'[q].pc = "check" /\ req'[q].plan = req[q].plan
    BY <1>1, <1>3 DEF AcquireLock, RequestType
  <2> QED
    BY <2>1, PlacedKept
<1>4. CASE Refuse(q) \/ CountRaises(q)
  <2>1. Leave(q, "rejected") \/ Leave(q, "raised")
    BY <1>4 DEF Refuse, CountRaises
  <2> QED
    BY <1>1, <2>1, PlacedLeaving
<1>5. CASE Spin(q)
  <2>1. req'[q] = req[q] /\ req[q].pc = "spin"
    BY <1>5 DEF Spin, vars
  <2> QED
    BY <2>1, PlacedKept
<1>6. CASE Answer(q)
  <2>1. /\ req'[q].plan = req[q].plan /\ req'[q].ask = req[q].ask
        /\ req'[q].pc \in {"enqueue", "occupy", "done", "raised"}
        /\ req[q].pc \in {"enqueue", "occupy"}
    <3>1. ASSUME NEW h \in Hosts, CreateTask(q, h)
          PROVE  /\ req'[q].plan = req[q].plan /\ req'[q].ask = req[q].ask
                 /\ req'[q].pc = "occupy" /\ req[q].pc = "enqueue"
      BY <1>1, <3>1 DEF CreateTask, RequestType
    <3>2. ASSUME NEW h \in Hosts, CreateTaskFails(q, h)
          PROVE  /\ req'[q].plan = req[q].plan /\ req'[q].ask = req[q].ask
                 /\ req'[q].pc \in {"enqueue", "done"} /\ req[q].pc = "enqueue"
      BY <1>1, <3>2 DEF CreateTaskFails, NextHost, RequestType
    <3>3. ASSUME NEW h \in Hosts, EnqueueFails(q, h)
          PROVE  /\ req'[q].plan = req[q].plan /\ req'[q].ask = req[q].ask
                 /\ req'[q].pc = "raised" /\ req[q].pc = "enqueue"
      BY <1>1, <3>3 DEF EnqueueFails, RequestType
    <3>4. ASSUME OccupyCores(q)
          PROVE  /\ req'[q].plan = req[q].plan /\ req'[q].ask = req[q].ask
                 /\ req'[q].pc \in {"enqueue", "done"} /\ req[q].pc = "occupy"
      BY <1>1, <3>4 DEF OccupyCores, NextHost, RequestType
    <3> QED
      BY <1>6, <3>1, <3>2, <3>3, <3>4 DEF Answer
  <2> QED
    BY <2>1, PlacedKept
<1> QED
  BY <1>2, <1>3, <1>4, <1>5, <1>6, PlacedAccepting, PlacedSharing, PlacedMeasuring, PlacedTaking
     DEF Handler, Schedule

\* What the workers give back makes no host's room smaller.
LEMMA RoomGrows ==
  ASSUME OnlyWholeCores, IInv, IInv', AtMostWhole, AtMostWhole', NEW q \in Requests,
         Scheduling(q), req[q].ask.ncore # 0,
         UNCHANGED req, \A h \in Hosts, c \in Cores : remain'[h][c] >= remain[h][c]
  PROVE  /\ \A h \in Hosts : /\ Capacity(q, h) \in Nat /\ Capacity(q, h)' \in Nat
                             /\ Capacity(q, h) <= Capacity(q, h)'
         /\ \A S \in SUBSET Hosts : /\ Room(q, S) \in Int /\ Room(q, S)' \in Int
                                    /\ Room(q, S) <= Room(q, S)'
<1>1. \A h \in Hosts : remain[h] \in [Cores -> Int] /\ remain'[h] \in [Cores -> Int]
  BY DEF IInv, Types
<1>2. Scheduling(q)'
  BY DEF Scheduling
<1>3. ASSUME NEW h \in Hosts, NEW c \in Cores, remain[h][c] = CoreShare
      PROVE  remain'[h][c] = CoreShare
  <2>1. remain'[h][c] >= remain[h][c] /\ remain'[h][c] <= CoreShare
    BY <1>2 DEF AtMostWhole
  <2> QED
    BY <1>1, <1>3, <2>1, ShareAssumption
<1>4. ASSUME NEW h \in Hosts
      PROVE  /\ Capacity(q, h) \in Nat /\ Capacity(q, h)' \in Nat
             /\ Capacity(q, h) <= Capacity(q, h)'
  <2> DEFINE x == Len(FullCores(remain[h]))
             y == Len(FullCores(remain'[h]))
             n == req[q].ask.ncore
  <2>1. x \in Nat /\ y \in Nat /\ x <= y
    BY <1>1, <1>3, MoreFull
  <2>2. n \in Nat \ {0} /\ req[q].ask.nshare = 0
    BY WholeAsk
  <2>3. Capacity(q, h) = x \div n
    BY WholeCapacity
  <2>4. Capacity(q, h)' = y \div n
    BY <2>2 DEF Capacity, MaxContainerCount
  <2> HIDE DEF x, y, n
  <2>5. x \div n <= y \div n
    BY <2>1, <2>2, QuotientKeepsOrder
  <2>6. x \div n \in Nat /\ y \div n \in Nat
    BY <2>1, <2>2, Quotient
  <2> QED
    BY <2>3, <2>4, <2>5, <2>6
<1>5. ASSUME NEW S \in SUBSET Hosts
      PROVE  /\ Room(q, S) \in Int /\ Room(q, S)' \in Int
             /\ Room(q, S) <= Room(q, S)'
  <2> DEFINE f == [h \in Hosts |-> Capacity(q, h)]
             g == [h \in Hosts |-> Capacity(q, h)']
  <2>1. Room(q, S) = SumOver(f, S) /\ Room(q, S)' = SumOver(g, S)
    BY DEF Room
  <2>2. IsFiniteSet(S) /\ Ints(f, S) /\ Ints(g, S) /\ \A h \in S : f[h] <= g[h]
    BY <1>4, Finite, FS_Subset DEF Ints
  <2> HIDE DEF f, g
  <2> QED
    BY <2>1, <2>2, SumAtMost, SumInt
<1> QED
  BY <1>4, <1>5

\* The workers move: what they give back takes no room from a request.
LEMMA PlacedWaiting ==
  ASSUME OnlyWholeCores, IInv, IInv', AtMostWhole, AtMostWhole', NEW q \in Requests,
         Exact(q), Placed(q),
         UNCHANGED req, \A h \in Hosts, c \in Cores : remain'[h][c] >= remain[h][c]
  PROVE  Placed(q)'
<1>1. /\ ByQuota(q)' <=> ByQuota(q)
      /\ Pinned(q)' <=> Pinned(q)
      /\ Planned(q)' = Planned(q)
  BY DEF ByQuota, Pinned, Planned
<1>2. \A S \in SUBSET Hosts : Quotas(q, S)' = Quotas(q, S)
  BY DEF Quotas
<1>3. CASE req[q].pc \notin {"measure", "take"}
  <2>1. CutWhole(q)'
    BY <1>3 DEF Placed, CutWhole
  <2>2. ~Pinned(q) => Placing(q)'
    BY <1>1, <1>3 DEF Placed, Placing
  <2> QED
    BY <1>1, <2>1, <2>2 DEF Placed
<1>4. CASE req[q].pc \in {"measure", "take"} /\ req[q].ask.ncore # 0
  <2>1. Scheduling(q)
    BY <1>4 DEF Scheduling
  <2>2. /\ \A h \in Hosts : /\ Capacity(q, h) \in Nat /\ Capacity(q, h)' \in Nat
                            /\ Capacity(q, h) <= Capacity(q, h)'
        /\ \A S \in SUBSET Hosts : /\ Room(q, S) \in Int /\ Room(q, S)' \in Int
                                   /\ Room(q, S) <= Room(q, S)'
    BY <1>4, <2>1, RoomGrows
  <2>3. /\ req[q].need \in Int /\ req[q].limit \in Int /\ req[q].todo \subseteq Hosts
    BY PlacingTypes
  <2>4. req[q].pc = "take" => req[q].at \in Hosts
    BY Taking
  <2>5. CutWhole(q)'
    <3>1. /\ req[q].pc = "take" => req[q].limit <= Capacity(q, req[q].at)
          /\ \A h \in DOMAIN req[q].plan :
                Len(IterCores(req[q].plan[h].cores, req[q].plan[h].count)) = req[q].plan[h].count
      BY DEF Placed, CutWhole
    <3>2. ASSUME req[q].pc = "take" PROVE req[q].limit <= Capacity(q, req[q].at)'
      <4>1. PICK h \in Hosts : h = req[q].at
        BY <2>4, <3>2
      <4>2. req[q].limit <= Capacity(q, h)'
        BY <2>2, <2>3, <3>1, <3>2, <4>1
      <4> QED
        BY <4>1, <4>2
    <3> QED
      BY <3>1, <3>2 DEF CutWhole
  <2>6. ASSUME ~Pinned(q) PROVE Placing(q)'
    <3> DEFINE rest == req[q].todo \ {req[q].at}
    <3>1. Placing(q)
      BY <2>6 DEF Placed
    <3>2. Quotas(q, req[q].todo)' = Quotas(q, req[q].todo)
      BY DEF Quotas
    <3>3. req[q].pc = "measure" /\ ~ByQuota(q) => req[q].need <= Room(q, req[q].todo)'
      <4>1. PICK S \in SUBSET Hosts : S = req[q].todo
        BY <2>3
      <4>2. req[q].pc = "measure" /\ ~ByQuota(q) => req[q].need <= Room(q, S)
        BY <3>1, <4>1 DEF Placing
      <4>3. req[q].pc = "measure" /\ ~ByQuota(q) => req[q].need <= Room(q, S)'
        BY <2>2, <2>3, <4>2
      <4>4. Room(q, req[q].todo)' = Room(q, S)'
        BY <4>1
      <4> QED
        BY <4>3, <4>4
    <3>4. req[q].pc = "take" /\ ~ByQuota(q) => req[q].need <= req[q].limit + Room(q, rest)'
      <4>1. PICK S \in SUBSET Hosts : S = rest
        BY <2>3
      <4>2. req[q].pc = "take" /\ ~ByQuota(q) => req[q].need <= req[q].limit + Room(q, S)
        BY <3>1, <4>1 DEF Placing
      <4>3. req[q].pc = "take" /\ ~ByQuota(q) => req[q].need <= req[q].limit + Room(q, S)'
        BY <2>2, <2>3, <4>2
      <4>4. Room(q, rest)' = Room(q, S)'
        BY <4>1
      <4> QED
        BY <4>3, <4>4
    <3> QED
      BY <1>1, <1>4, <3>1, <3>2, <3>3, <3>4 DEF Placing
  <2> QED
    BY <1>1, <2>5, <2>6 DEF Placed
<1>5. CASE req[q].pc \in {"measure", "take"} /\ req[q].ask.ncore = 0
  <2>1. req[q].pc = "measure"
    BY <1>5 DEF Exact
  <2>2. CutWhole(q)'
    BY <2>1 DEF Placed, CutWhole
  <2>3. ASSUME ~Pinned(q) PROVE Placing(q)'
    <3>1. Placing(q) /\ Hosts = {} /\ req[q].todo \subseteq Hosts
      BY <1>5, <2>1, <2>3, PlacingTypes DEF Placed, Placing
    <3>2. req[q].todo = {}
      BY <3>1
    <3>3. Quotas(q, req[q].todo)' = Quotas(q, req[q].todo)
      BY DEF Quotas
    <3>4. Room(q, req[q].todo) = 0 /\ Room(q, req[q].todo)' = 0
      BY <3>2, SumEmpty DEF Room
    <3> QED
      BY <1>1, <2>1, <3>1, <3>3, <3>4 DEF Placing
  <2> QED
    BY <1>1, <2>2, <2>3 DEF Placed
<1> QED
  BY <1>3, <1>4, <1>5

LEMMA PlansPlacedKept ==
  ASSUME OnlyWholeCores, MaxInFlight = 1, IInv, IInv', AtMostWhole, AtMostWhole', PlansFit,
         PlansExact, PlansPlaced, [Next]_vars
  PROVE  PlansPlaced'
<1>1. ASSUME NEW q \in Requests, Submit(q) \/ Handler(q) PROVE PlansPlaced'
  <2>1. Placed(q)'
    BY <1>1, PlacedHandling DEF PlansExact, PlansPlaced
  <2>2. \A p \in Requests \ {q} : req'[p] = req[p]
    BY <1>1, HandlerLeaves
  <2>3. ASSUME NEW p \in Requests \ {q} PROVE Placed(p)'
    <3>1. ~Serving(p) /\ Placed(p)
      BY <1>1, NobodyElse DEF PlansPlaced
    <3>2. req[p].pc \notin {"share", "measure", "take"}
      BY <3>1 DEF Serving, RequestEnded
    <3> QED
      BY <2>2, <3>1, <3>2, PlacedKept
  <2> QED
    BY <2>1, <2>3 DEF PlansPlaced
<1>2. ASSUME \/ \E t \in TaskIds : Create(t)
             \/ \E j \in Jobs : Removal(j) \/ Crash(j)
             \/ \E r \in Removers : \E b \in DOMAIN box : BeginRemoval(r, b)
             \/ \E j \in Jobs : StopAgain(j)
             \/ AllDone \/ UNCHANGED vars
      PROVE  PlansPlaced'
  <2>1. UNCHANGED req /\ \A h \in Hosts, c \in Cores : remain'[h][c] >= remain[h][c]
    BY <1>2, WorkersGiveBack
  <2> QED
    BY <2>1, PlacedWaiting DEF PlansExact, PlansPlaced
<1> QED
  BY <1>1, <1>2 DEF Next

LEMMA InitiallyPlaced == Init => PlansPlaced
<1> SUFFICES ASSUME Init, NEW q \in Requests PROVE Placed(q)
  BY DEF PlansPlaced
<1>1. req[q].pc = "new" /\ req[q].plan = NoPlan
  BY DEF Init, NewRequest
<1> QED
  BY <1>1, PlanTypes DEF Placed, CutWhole, Placing

LEMMA PlacedInFull == PlansPlaced => PlannedInFull
<1> SUFFICES ASSUME PlansPlaced, NEW q \in Requests,
                    req[q].pc \in {"enqueue", "occupy", "done"}, ~Pinned(q)
             PROVE  /\ SumFunction([h \in DOMAIN req[q].plan |-> req[q].plan[h].count])
                          = req[q].ask.n
                    /\ \A h \in DOMAIN req[q].plan :
                          Len(Chunks(<<q, h>>)) = req[q].plan[h].count
  BY DEF PlannedInFull
<1>1. CutWhole(q) /\ Placing(q)
  BY DEF PlansPlaced, Placed
<1>2. SumFunction([h \in DOMAIN req[q].plan |-> req[q].plan[h].count]) = Planned(q)
  BY DEF SumFunction, SumOver, Planned
<1>3. Planned(q) = req[q].ask.n
  BY <1>1 DEF Placing
<1>4. ASSUME NEW h \in DOMAIN req[q].plan
      PROVE  Len(Chunks(<<q, h>>)) = req[q].plan[h].count
  BY <1>1 DEF CutWhole, Chunks, Message
<1> QED
  BY <1>2, <1>3, <1>4

\* A request that names no host, is accepted and asks for whole cores is
\* planned in full: the counts of its hosts add up to the number asked for, and
\* every worker finds as many sets of cores in its message as it is to start
\* containers, if the API serves one request at a time and removals of one
\* container do not overlap, while workers give cores back between any two
\* steps of the scheduler.
THEOREM PlansComplete ==
  OnlyWholeCores /\ ~Overlapping /\ MaxInFlight = 1 => (Spec => []PlannedInFull)
<1>1. /\ OnlyWholeCores /\ MaxInFlight = 1 /\ IInv /\ IInv' /\ AtMostWhole /\ AtMostWhole'
      /\ PlansFit /\ PlansExact /\ PlansPlaced /\ [Next]_vars
      => PlansPlaced'
  BY PlansPlacedKept
<1>2. OnlyWholeCores => OrderlyAsks
  BY DEF OnlyWholeCores, OrderlyAsks
<1>3. CASE OnlyWholeCores /\ ~Overlapping /\ MaxInFlight = 1
  <2>1. Spec => []PlansExact
    BY <1>2, <1>3, PlansStayExact
  <2>2. Spec => []Accounted
    BY <1>3, Accounting
  <2>3. Spec => []PlansFit
    BY <1>3, PlansStayFree
  <2>4. OnlyWholeCores /\ MaxInFlight = 1
    BY <1>3
  <2> QED
    BY <1>1, <2>1, <2>2, <2>3, <2>4, InitiallyPlaced, PlacedInFull, ShowsAtMostWhole,
       Structure, PTL DEF Spec
<1> QED
  BY <1>3

-----------------------------------------------------------------------------
(* A deployment keeps the book of the cores.                               *)

\* Only a crash adds to the workers that died.
LEMMA DeathIsACrash ==
  ASSUME IInv, [Next]_vars, ~\E j \in Jobs : Crash(j)
  PROVE  Died' = Died
<1>1. job \in [Jobs -> JobType]
  BY DEF IInv, Types
<1> SUFFICES ASSUME NEW k \in Jobs, job'[k].pc = "crashed" PROVE job[k].pc = "crashed"
  <2>1. Died => Died'
    BY DeathIsFinal DEF Died
  <2>2. Died' => Died
    BY DEF Died
  <2> QED
    BY <2>1, <2>2 DEF Died
<1>2. ASSUME NEW q \in Requests, Submit(q) \/ Schedule(q) PROVE job' = job
  BY <1>2, SchedulingSteps DEF IInv, SchedulingStep, vars
<1>3. ASSUME NEW q \in Requests, Answer(q) PROVE job[k].pc = "crashed"
  BY <1>1, <1>3 DEF Answer, CreateTask, CreateTaskFails, EnqueueFails, OccupyCores, JobType
<1>4. ASSUME NEW t \in TaskIds, Create(t) PROVE job[k].pc = "crashed"
  BY <1>1, <1>4
     DEF Create, StartTask, CreateContainer, CreateContainerFails, RecordContainer,
         SaveCores, AllocateIPs, AllocateIPsFails, FinishTask, JobType
<1>5. ASSUME NEW j \in Jobs, Removal(j) PROVE job[k].pc = "crashed"
  BY <1>1, <1>5
     DEF Removal, Delete, RemoveFromDocker, RemoveFromDockerFails, ReadCores, ReleaseCores,
         DropRecord, JobType
<1>6. ASSUME NEW r \in Removers, NEW b \in DOMAIN box, BeginRemoval(r, b)
      PROVE  job[k].pc = "crashed"
  BY <1>1, <1>6 DEF BeginRemoval, JobType
<1>7. ASSUME (\E j \in Jobs : StopAgain(j)) \/ AllDone \/ UNCHANGED vars PROVE job' = job
  BY <1>7 DEF StopAgain, AllDone, vars
<1> QED
  BY <1>2, <1>3, <1>4, <1>5, <1>6, <1>7 DEF Next, Handler

\* The columns of the book: no entry is negative or more than a core has.
Columns ==
    /\ Free \in [Hosts -> [Cores -> Int]]
    /\ \A h \in Hosts, c \in Cores : Free[h][c] = remain[h][c] - Claims(h, c) /\ Free[h][c] >= 0
    /\ Owes \in [TaskIds -> [Cores -> 0 .. CoreShare]]
    /\ \A t \in TaskIds, c \in Cores : Owes[t][c] = Owed(t, t[2], c)
    /\ Uses \in [DOMAIN box -> [Cores -> Nat]]
    /\ \A b \in DOMAIN box : b[2] \in Hosts
    /\ \A b \in DOMAIN box, c \in Cores : Uses[b][c] = Charge(b, b[2], c)

LEMMA OwedBound ==
  ASSUME IInv, Accounted, PlansFit, NEW t \in TaskIds, NEW h \in Hosts, NEW c \in Cores
  PROVE  Owed(t, h, c) \in 0 .. CoreShare
<1> DEFINE f == [u \in TaskIds |-> Owed(u, h, c)]
<1>1. Debts(h, c) = SumOver(f, TaskIds) /\ \A u \in TaskIds : f[u] = Owed(u, h, c) /\ f[u] \in Nat
  BY OwedNat DEF Debts
<1> HIDE DEF f
<1>2. SumOver(f, TaskIds) >= SumOver(f, {t})
  BY <1>1, Finite, SumSubset DEF Ints
<1>3. SumOver(f, {t}) = f[t]
  <2>0. IsFiniteSet({t})
    BY FS_Singleton
  <2>1. Ints(f, {t}) /\ IsFiniteSet({t})
    BY <1>1, <2>0 DEF Ints
  <2>2. SumOver(f, {t}) = f[t] + SumOver(f, {t} \ {t})
    BY <2>1, SumRemove
  <2>3. {t} \ {t} = {}
    OBVIOUS
  <2> QED
    BY <1>1, <2>2, <2>3, SumEmpty
<1>4. /\ Claims(h, c) \in Int /\ Debts(h, c) \in Int /\ Charges(h, c) \in Int
      /\ Cap(h, c) \in Int /\ remain[h][c] \in Int
  BY SlackInt
<1>5. Charges(h, c) >= 0 /\ Claims(h, c) <= remain[h][c] /\ Slack(h, c) >= 0
  BY ChargesNat, ClaimsFit DEF Accounted
<1>6. Cap(h, c) <= CoreShare /\ CoreShare \in Int
  BY ShareAssumption DEF Cap
<1> QED
  BY <1>1, <1>2, <1>3, <1>4, <1>5, <1>6 DEF Slack

LEMMA ColumnsTyped == IInv /\ Accounted /\ PlansFit => Columns
<1> SUFFICES ASSUME IInv, Accounted, PlansFit PROVE Columns
  OBVIOUS
<1>1. ASSUME NEW h \in Hosts, NEW c \in Cores
      PROVE  remain[h][c] - Unclaimed(h, c) = remain[h][c] - Claims(h, c)
             /\ remain[h][c] - Claims(h, c) \in Int /\ remain[h][c] - Claims(h, c) >= 0
  BY UnclaimedClaims, SlackInt, ClaimsFit
<1>2. /\ Free \in [Hosts -> [Cores -> Int]]
      /\ \A h \in Hosts, c \in Cores : Free[h][c] = remain[h][c] - Claims(h, c) /\ Free[h][c] >= 0
  BY <1>1 DEF Free
<1>3. \A t \in TaskIds : t[2] \in Hosts
  BY Names
<1>4. /\ Owes \in [TaskIds -> [Cores -> 0 .. CoreShare]]
      /\ \A t \in TaskIds, c \in Cores : Owes[t][c] = Owed(t, t[2], c)
  BY <1>3, OwedBound DEF Owes
<1>5. \A b \in DOMAIN box : b[2] \in Hosts
  BY DEF IInv, Types, BoxIds
<1>6. /\ Uses \in [DOMAIN box -> [Cores -> Nat]]
      /\ \A b \in DOMAIN box, c \in Cores : Uses[b][c] = Charge(b, b[2], c)
  BY <1>5, ChargeNat DEF Uses, HostOf
<1> QED
  BY <1>2, <1>4, <1>5, <1>6 DEF Columns

\* What the steps below start from.
Kept == IInv /\ Accounted /\ PlansFit

LEMMA KeptColumns == (Kept => Terms /\ Columns) /\ (Kept' => Terms' /\ Columns')
<1>1. Kept => Terms /\ Columns
  BY TermsTyped, ColumnsTyped DEF Kept
<1> QED
  BY <1>1, PTL

LEMMA SameTable ==
  ASSUME NEW S, NEW f \in [S -> [Cores -> Int]], NEW g \in [S -> [Cores -> Int]],
         \A x \in S, c \in Cores : f[x][c] = g[x][c]
  PROVE  f = g
<1>1. ASSUME NEW x \in S PROVE f[x] = g[x]
  <2>1. f[x] \in [Cores -> Int] /\ g[x] \in [Cores -> Int] /\ \A c \in Cores : f[x][c] = g[x][c]
    OBVIOUS
  <2> QED
    BY <2>1
<1> QED
  BY <1>1

\* What is not moved stays in its column.
LEMMA FreeStays ==
  ASSUME Kept, Kept',
         \A h \in Hosts, c \in Cores : remain'[h][c] - Claims(h, c)' = remain[h][c] - Claims(h, c)
  PROVE  Free' = Free
<1>1. Columns /\ Columns'
  BY KeptColumns
<1>2. Free \in [Hosts -> [Cores -> Int]] /\ Free' \in [Hosts -> [Cores -> Int]]
  BY <1>1 DEF Columns
<1>3. \A h \in Hosts, c \in Cores : Free'[h][c] = Free[h][c]
  BY <1>1 DEF Columns
<1> QED
  BY <1>2, <1>3, SameTable

LEMMA OwesStays ==
  ASSUME Kept, Kept', OwedStays(TaskIds)
  PROVE  Owes' = Owes
<1>1. Columns /\ Columns'
  BY KeptColumns
<1>2. Owes \in [TaskIds -> [Cores -> Int]] /\ Owes' \in [TaskIds -> [Cores -> Int]]
  BY <1>1 DEF Columns
<1>3. \A t \in TaskIds, c \in Cores : Owes'[t][c] = Owes[t][c]
  BY <1>1, Names DEF Columns, OwedStays
<1> QED
  BY <1>2, <1>3, SameTable

LEMMA OwesChanges ==
  ASSUME Kept, Kept', NEW t \in TaskIds, OwedStays(TaskIds \ {t}), NEW d, d = Owes'[t]
  PROVE  Owes' = [Owes EXCEPT ![t] = d]
<1>1. Columns /\ Columns'
  BY KeptColumns
<1>2. Owes \in [TaskIds -> [Cores -> Int]] /\ Owes' \in [TaskIds -> [Cores -> Int]]
  BY <1>1 DEF Columns
<1> DEFINE g == [Owes EXCEPT ![t] = d]
<1>3. g \in [TaskIds -> [Cores -> Int]] /\ g[t] = d /\ \A u \in TaskIds \ {t} : g[u] = Owes[u]
  BY <1>2
<1> HIDE DEF g
<1>4. \A u \in TaskIds, c \in Cores : Owes'[u][c] = g[u][c]
  <2> SUFFICES ASSUME NEW u \in TaskIds, NEW c \in Cores PROVE Owes'[u][c] = g[u][c]
    OBVIOUS
  <2>1. CASE u = t
    BY <1>3, <2>1
  <2>2. CASE u # t
    BY <1>1, <1>3, <2>2, Names DEF Columns, OwedStays
  <2> QED
    BY <2>1, <2>2
<1>5. Owes' = g
  BY <1>2, <1>3, <1>4, SameTable
<1> QED
  BY <1>5 DEF g

LEMMA UsesStays ==
  ASSUME Kept, Kept', DOMAIN box' = DOMAIN box, ChargesStay(DOMAIN box)
  PROVE  Uses' = Uses
<1>1. Columns /\ Columns'
  BY KeptColumns
<1>2. PICK D : D = DOMAIN box
  OBVIOUS
<1>3. Uses \in [D -> [Cores -> Int]] /\ Uses' \in [D -> [Cores -> Int]]
  BY <1>1, <1>2 DEF Columns
<1>4. ASSUME NEW b \in D, NEW c \in Cores PROVE Uses'[b][c] = Uses[b][c]
  <2>1. b \in DOMAIN box /\ b \in DOMAIN box' /\ b[2] \in Hosts
    BY <1>1, <1>2 DEF Columns
  <2>2. /\ Uses[b][c] = Charge(b, b[2], c) /\ Uses'[b][c] = Charge(b, b[2], c)'
        /\ Charge(b, b[2], c)' = Charge(b, b[2], c)
    BY <1>1, <2>1 DEF Columns, ChargesStay
  <2> QED
    BY <2>2
<1> QED
  BY <1>3, <1>4, SameTable

LEMMA UsesChanges ==
  ASSUME Kept, Kept', NEW b \in DOMAIN box, DOMAIN box' = DOMAIN box,
         ChargesStay(DOMAIN box \ {b}), \A h \in Hosts, c \in Cores : Charge(b, h, c)' = 0
  PROVE  Uses' = [Uses EXCEPT ![b] = [c \in Cores |-> 0]]
<1>1. Columns /\ Columns'
  BY KeptColumns
<1>2. PICK D : D = DOMAIN box
  OBVIOUS
<1>3. Uses \in [D -> [Cores -> Int]] /\ Uses' \in [D -> [Cores -> Int]]
  BY <1>1, <1>2 DEF Columns
<1> DEFINE g == [Uses EXCEPT ![b] = [c \in Cores |-> 0]]
<1>4. /\ g \in [D -> [Cores -> Int]] /\ \A c \in Cores : g[b][c] = 0
      /\ \A a \in D \ {b} : g[a] = Uses[a]
  BY <1>2, <1>3
<1> HIDE DEF g
<1>5. \A a \in D, c \in Cores : Uses'[a][c] = g[a][c]
  <2> SUFFICES ASSUME NEW a \in D, NEW c \in Cores PROVE Uses'[a][c] = g[a][c]
    OBVIOUS
  <2>1. CASE a = b
    BY <1>1, <1>2, <1>4, <2>1 DEF Columns
  <2>2. CASE a # b
    <3>1. a \in DOMAIN box /\ a \in DOMAIN box' /\ a[2] \in Hosts
      BY <1>1, <1>2 DEF Columns
    <3>2. /\ Uses[a][c] = Charge(a, a[2], c) /\ Uses'[a][c] = Charge(a, a[2], c)'
          /\ Charge(a, a[2], c)' = Charge(a, a[2], c)
      BY <1>1, <2>2, <3>1 DEF Columns, ChargesStay
    <3> QED
      BY <1>2, <1>4, <2>2, <3>1, <3>2
  <2> QED
    BY <2>1, <2>2
<1>6. Uses' = g
  BY <1>3, <1>4, <1>5, SameTable
<1> QED
  BY <1>6 DEF g

\* An amount is added to what is free on one host.
LEMMA FreeGrows ==
  ASSUME Kept, Kept', ClaimsStay, NEW g \in Hosts, NEW d \in [Cores -> Int],
         \A h \in Hosts, c \in Cores : remain'[h][c] = remain[h][c] + IF h = g THEN d[c] ELSE 0
  PROVE  Free' = [Free EXCEPT ![g] = Book!Plus(Free[g], d)]
<1>1. Terms /\ Columns /\ Columns'
  BY KeptColumns
<1>2. Free \in [Hosts -> [Cores -> Int]] /\ Free' \in [Hosts -> [Cores -> Int]]
  BY <1>1 DEF Columns
<1> DEFINE p == Book!Plus(Free[g], d)
           f == [Free EXCEPT ![g] = p]
<1>3. p \in [Cores -> Int] /\ \A c \in Cores : p[c] = Free[g][c] + d[c]
  BY <1>2 DEF Book!Plus
<1> HIDE DEF p
<1>4. f \in [Hosts -> [Cores -> Int]] /\ f[g] = p /\ \A h \in Hosts \ {g} : f[h] = Free[h]
  BY <1>2, <1>3
<1> HIDE DEF f
<1>5. \A h \in Hosts, c \in Cores : Free'[h][c] = f[h][c]
  <2> SUFFICES ASSUME NEW h \in Hosts, NEW c \in Cores PROVE Free'[h][c] = f[h][c]
    OBVIOUS
  <2>1. Claims(h, c)' = Claims(h, c)
    BY <1>1, ClaimsSame DEF ClaimsStay
  <2>2. /\ Free[h][c] = remain[h][c] - Claims(h, c) /\ Free'[h][c] = remain'[h][c] - Claims(h, c)'
        /\ remain[h][c] \in Int /\ Claims(h, c) \in Int
    BY <1>1 DEF Columns, Terms
  <2>3. d[c] \in Int
    OBVIOUS
  <2>4. CASE h = g
    BY <1>3, <1>4, <2>1, <2>2, <2>3, <2>4
  <2>5. CASE h # g
    BY <1>4, <2>1, <2>2, <2>5
  <2> QED
    BY <2>4, <2>5
<1>6. Free' = f
  BY <1>2, <1>4, <1>5, SameTable
<1> QED
  BY <1>6 DEF f, p

LEMMA BookStays ==
  ASSUME Kept, Kept', NothingMoves
  PROVE  Free' = Free /\ Owes' = Owes /\ Uses' = Uses
<1>1. Terms
  BY KeptColumns
<1>2. \A h \in Hosts, c \in Cores : remain'[h][c] - Claims(h, c)' = remain[h][c] - Claims(h, c)
  BY <1>1, ClaimsSame DEF NothingMoves, ClaimsStay
<1> QED
  BY <1>2, FreeStays, OwesStays, UsesStays DEF NothingMoves

\* The steps that do change it, each a step of the book.
LEMMA GrantKeeps ==
  ASSUME Kept, Kept', Died' = Died, NEW q \in Requests, NEW g \in Hosts, CreateTask(q, g)
  PROVE  Book!Next
<1>0. PICK t : t = <<q, g>>
  OBVIOUS
<1>1. PICK d : d = Owes'[t]
  OBVIOUS
<1>2. Terms /\ Columns /\ Columns' /\ IInv /\ IInv'
  BY KeptColumns DEF Kept
<1>3. /\ t \in TaskIds /\ t[2] = g /\ UNCHANGED <<remain, box>>
      /\ OwedStays(TaskIds \ {t}) /\ ChargesStay(DOMAIN box)
      /\ \A h \in Hosts, c \in Cores :
            /\ Owed(t, h, c) = 0
            /\ h # g => Owed(t, h, c)' = 0
            /\ Claims(h, c)' = Claims(h, c) + Owed(t, h, c)'
  BY <1>0, <1>2, GrantMoves
<1>4. d \in [Cores -> 0 .. CoreShare] /\ \A c \in Cores : d[c] = Owed(t, g, c)'
  BY <1>1, <1>2, <1>3 DEF Columns
<1>5. Owes[t] = Book!Nothing
  <2>1. Owes[t] \in [Cores -> 0 .. CoreShare] /\ \A c \in Cores : Owes[t][c] = 0
    BY <1>2, <1>3 DEF Columns
  <2> QED
    BY <2>1 DEF Book!Nothing
<1>6. Free \in [Hosts -> [Cores -> Int]] /\ Free' \in [Hosts -> [Cores -> Int]]
  BY <1>2 DEF Columns
<1>7. ASSUME NEW h \in Hosts, NEW c \in Cores
      PROVE  /\ Free'[h][c] = Free[h][c] - IF h = g THEN d[c] ELSE 0
             /\ Free'[h][c] >= 0 /\ Free[h][c] \in Int /\ Free'[h][c] \in Int /\ d[c] \in Int
  <2>1. /\ Free[h][c] = remain[h][c] - Claims(h, c) /\ Free'[h][c] = remain'[h][c] - Claims(h, c)'
        /\ remain[h][c] \in Int /\ Claims(h, c) \in Int /\ Free'[h][c] >= 0
        /\ remain' = remain
    BY <1>2, <1>3 DEF Columns, Terms
  <2>2. Claims(h, c)' = Claims(h, c) + IF h = g THEN d[c] ELSE 0
    BY <1>3, <1>4
  <2>3. d[c] \in Int
    BY <1>4
  <2> QED
    BY <2>1, <2>2, <2>3
<1>8. Book!Within(d, Free[t[2]])
  BY <1>3, <1>7 DEF Book!Within
<1>9. Free' = [Free EXCEPT ![t[2]] = Book!Minus(Free[t[2]], d)]
  <2> DEFINE p == Book!Minus(Free[g], d)
             f == [Free EXCEPT ![g] = p]
  <2>1. p \in [Cores -> Int] /\ \A c \in Cores : p[c] = Free[g][c] - d[c]
    BY <1>4, <1>6 DEF Book!Minus
  <2> HIDE DEF p
  <2>2. f \in [Hosts -> [Cores -> Int]] /\ f[g] = p /\ \A h \in Hosts \ {g} : f[h] = Free[h]
    BY <1>6, <2>1
  <2> HIDE DEF f
  <2>3. \A h \in Hosts, c \in Cores : Free'[h][c] = f[h][c]
    BY <1>7, <2>1, <2>2
  <2>4. Free' = f
    BY <1>6, <2>2, <2>3, SameTable
  <2> QED
    BY <1>3, <2>4 DEF f, p
<1>10. Owes' = [Owes EXCEPT ![t] = d]
  BY <1>1, <1>3, OwesChanges
<1>11. Uses' = Uses
  BY <1>3, UsesStays
<1>12. Book!Grant(t, d)
  BY <1>5, <1>8, <1>9, <1>10, <1>11 DEF Book!Grant
<1> QED
  BY <1>3, <1>4, <1>12 DEF Book!Next, Book!Tasks, Book!Amounts, TaskIds

LEMMA OccupyKeeps ==
  ASSUME Kept, Kept', Died' = Died, NEW q \in Requests, OccupyCores(q)
  PROVE  UNCHANGED <<Free, Owes, Uses, Died>>
<1>1. Terms /\ Terms' /\ IInv /\ IInv'
  BY KeptColumns DEF Kept
<1>2. /\ UNCHANGED <<job, box>> /\ OwedStays(TaskIds) /\ ChargesStay(DOMAIN box)
      /\ \A h \in Hosts, c \in Cores :
            Claims(h, c)' - remain'[h][c] = Claims(h, c) - remain[h][c]
  BY <1>1, OccupyMoves
<1>3. ASSUME NEW h \in Hosts, NEW c \in Cores
      PROVE  remain'[h][c] - Claims(h, c)' = remain[h][c] - Claims(h, c)
  <2>1. Claims(h, c) \in Int /\ Claims(h, c)' \in Int /\ remain[h][c] \in Int /\ remain'[h][c] \in Int
    BY <1>1 DEF Terms
  <2> QED
    BY <1>2, <2>1
<1> QED
  BY <1>2, <1>3, FreeStays, OwesStays, UsesStays

LEMMA StartKeeps ==
  ASSUME Kept, Kept', Died' = Died, NEW t \in TaskIds, CreateContainer(t)
  PROVE  Book!Next
<1>0. PICK n : n = NextBox(t)
  OBVIOUS
<1>1. PICK d : d = Uses'[n]
  OBVIOUS
<1>2. Terms /\ Terms' /\ Columns /\ Columns' /\ IInv
  BY KeptColumns DEF Kept
<1>3. /\ UNCHANGED remain /\ n \notin DOMAIN box /\ DOMAIN box' = DOMAIN box \cup {n}
      /\ n[1] = t[1] /\ n[2] = t[2]
      /\ ClaimsStay /\ OwedStays(TaskIds \ {t}) /\ ChargesStay(DOMAIN box) /\ HandsOver(t, n)
  BY <1>0, <1>2, CreateMoves
<1>4. t[2] \in Hosts /\ <<n[1], n[2]>> = t
  BY <1>3, Names DEF TaskIds
<1>5. PICK o : o = Owes'[t]
  OBVIOUS
<1>6. /\ Owes[t] \in [Cores -> 0 .. CoreShare] /\ o \in [Cores -> 0 .. CoreShare]
      /\ d \in [Cores -> Nat]
      /\ \A c \in Cores : Owes[t][c] = o[c] + d[c]
  <2>1. Owes[t] \in [Cores -> 0 .. CoreShare] /\ o \in [Cores -> 0 .. CoreShare]
    BY <1>2, <1>5 DEF Columns
  <2>2. d \in [Cores -> Nat]
    BY <1>1, <1>2, <1>3 DEF Columns
  <2>3. ASSUME NEW c \in Cores PROVE Owes[t][c] = o[c] + d[c]
    <3>1. Owes[t][c] = Owed(t, t[2], c) /\ o[c] = Owed(t, t[2], c)' /\ d[c] = Charge(n, t[2], c)'
      BY <1>1, <1>2, <1>3, <1>5 DEF Columns
    <3>2. Owed(t, t[2], c) = Owed(t, t[2], c)' + Charge(n, t[2], c)'
      BY <1>3, <1>4 DEF HandsOver
    <3> QED
      BY <3>1, <3>2
  <2> QED
    BY <2>1, <2>2, <2>3
<1>7. \A c \in Cores : d[c] \in 0 .. CoreShare /\ d[c] <= Owes[t][c] /\ o[c] = Owes[t][c] - d[c]
  <2> SUFFICES ASSUME NEW c \in Cores
               PROVE  d[c] \in 0 .. CoreShare /\ d[c] <= Owes[t][c] /\ o[c] = Owes[t][c] - d[c]
    OBVIOUS
  <2>1. /\ Owes[t][c] \in 0 .. CoreShare /\ o[c] \in 0 .. CoreShare /\ d[c] \in Nat
        /\ Owes[t][c] = o[c] + d[c] /\ CoreShare \in Nat
    BY <1>6, ShareAssumption
  <2> QED
    BY <2>1
<1>8. d \in Book!Amounts /\ Book!Within(d, Owes[t]) /\ o = Book!Minus(Owes[t], d)
  BY <1>6, <1>7 DEF Book!Amounts, Book!Within, Book!Minus
<1>9. Owes' = [Owes EXCEPT ![t] = Book!Minus(Owes[t], d)]
  BY <1>3, <1>5, <1>8, OwesChanges
<1>10. Uses' = [a \in DOMAIN Uses \cup {n} |-> IF a = n THEN d ELSE Uses[a]]
  <2>0. PICK D : D = DOMAIN box
    OBVIOUS
  <2> DEFINE E == D \cup {n}
             g == [a \in E |-> IF a = n THEN d ELSE Uses[a]]
  <2>1. /\ Uses \in [D -> [Cores -> Int]] /\ Uses' \in [E -> [Cores -> Int]]
        /\ d \in [Cores -> Int]
    BY <1>2, <1>3, <1>6, <2>0 DEF Columns
  <2>2. g \in [E -> [Cores -> Int]] /\ g[n] = d /\ \A a \in D : g[a] = Uses[a]
    BY <1>3, <2>0, <2>1
  <2>4. g = [a \in DOMAIN Uses \cup {n} |-> IF a = n THEN d ELSE Uses[a]]
    BY <2>1
  <2> HIDE DEF g
  <2>3. \A a \in E, c \in Cores : Uses'[a][c] = g[a][c]
    <3> SUFFICES ASSUME NEW a \in E, NEW c \in Cores PROVE Uses'[a][c] = g[a][c]
      OBVIOUS
    <3>1. CASE a = n
      BY <1>1, <2>2, <3>1
    <3>2. CASE a # n
      <4>1. a \in D /\ a \in DOMAIN box /\ a[2] \in Hosts /\ a \in DOMAIN box'
        BY <1>2, <1>3, <2>0, <3>2 DEF Columns
      <4>2. /\ Uses[a][c] = Charge(a, a[2], c) /\ Uses'[a][c] = Charge(a, a[2], c)'
            /\ Charge(a, a[2], c)' = Charge(a, a[2], c)
        BY <1>2, <1>3, <4>1 DEF Columns, ChargesStay
      <4> QED
        BY <2>2, <4>1, <4>2
    <3> QED
      BY <3>1, <3>2
  <2> HIDE DEF E
  <2>5. Uses' = g
    BY <2>1, <2>2, <2>3, SameTable
  <2> QED
    BY <2>4, <2>5
<1>11. Free' = Free
  <2>1. \A h \in Hosts, c \in Cores : remain'[h][c] - Claims(h, c)' = remain[h][c] - Claims(h, c)
    BY <1>2, <1>3, ClaimsSame DEF ClaimsStay
  <2> QED
    BY <2>1, FreeStays
<1>12. n \notin DOMAIN Uses /\ n \in DOMAIN Uses'
  BY <1>2, <1>3 DEF Columns
<1>13. Book!Start(t, n, d)
  BY <1>4, <1>8, <1>9, <1>10, <1>11, <1>12 DEF Book!Start
<1> QED
  BY <1>8, <1>12, <1>13 DEF Book!Next, Book!Tasks, TaskIds

LEMMA ReturnKeeps ==
  ASSUME Kept, Kept', Died' = Died, NEW t \in TaskIds, CreateContainerFails(t)
  PROVE  Book!Next
<1> DEFINE d == [c \in Cores |-> Handed(t, c)]
<1>2. Terms /\ Columns /\ Columns' /\ IInv
  BY KeptColumns DEF Kept
<1>3. /\ UNCHANGED box
      /\ ClaimsStay /\ OwedStays(TaskIds \ {t}) /\ ChargesStay(DOMAIN box)
      /\ \A h \in Hosts, c \in Cores :
            /\ Handed(t, c) \in Nat
            /\ Owed(t, h, c) = Owed(t, h, c)' + (IF h = t[2] THEN Handed(t, c) ELSE 0)
            /\ remain'[h][c] = remain[h][c] + (IF h = t[2] THEN Handed(t, c) ELSE 0)
  BY <1>2, GiveBackMoves
<1>4. t[2] \in Hosts
  BY Names
<1>5. /\ d \in [Cores -> Nat] /\ \A c \in Cores : d[c] = Handed(t, c)
      /\ \A c \in Cores : Owed(t, t[2], c) = Owed(t, t[2], c)' + d[c]
  BY <1>3, <1>4
<1> HIDE DEF d
<1>6. PICK o : o = Owes'[t]
  OBVIOUS
<1>7. ASSUME NEW c \in Cores
      PROVE  d[c] \in 0 .. CoreShare /\ d[c] <= Owes[t][c] /\ o[c] = Owes[t][c] - d[c]
  <2>1. /\ Owes[t][c] \in 0 .. CoreShare /\ o[c] \in 0 .. CoreShare
        /\ Owes[t][c] = Owed(t, t[2], c) /\ o[c] = Owed(t, t[2], c)'
    BY <1>2, <1>6 DEF Columns
  <2>2. d[c] \in Nat /\ Owed(t, t[2], c) = Owed(t, t[2], c)' + d[c] /\ CoreShare \in Nat
    BY <1>5, ShareAssumption
  <2> QED
    BY <2>1, <2>2
<1>8. d \in Book!Amounts /\ Book!Within(d, Owes[t]) /\ o = Book!Minus(Owes[t], d)
  <2>1. o \in [Cores -> 0 .. CoreShare]
    BY <1>2, <1>6 DEF Columns
  <2> QED
    BY <1>5, <1>7, <2>1 DEF Book!Amounts, Book!Within, Book!Minus
<1>9. Owes' = [Owes EXCEPT ![t] = Book!Minus(Owes[t], d)]
  BY <1>3, <1>6, <1>8, OwesChanges
<1>10. Free' = [Free EXCEPT ![t[2]] = Book!Plus(Free[t[2]], d)]
  <2>1. \A h \in Hosts, c \in Cores : remain'[h][c] = remain[h][c] + IF h = t[2] THEN d[c] ELSE 0
    BY <1>3, <1>5
  <2>2. d \in [Cores -> Int]
    BY <1>5
  <2> QED
    BY <1>3, <1>4, <2>1, <2>2, FreeGrows
<1>11. Uses' = Uses
  BY <1>3, UsesStays
<1>12. Book!Return(t, d)
  BY <1>8, <1>9, <1>10, <1>11 DEF Book!Return
<1> QED
  BY <1>8, <1>12 DEF Book!Next, Book!Tasks, TaskIds

LEMMA StopKeeps ==
  ASSUME Kept, Kept', ~Overlapping, Died' = Died, NEW j \in Jobs, ReleaseCores(j)
  PROVE  Book!Next
<1>0. PICK b : b = job[j].box
  OBVIOUS
<1>1. Terms /\ Columns /\ Columns' /\ IInv
  BY KeptColumns DEF Kept
<1>2. /\ UNCHANGED box /\ b \in DOMAIN box
      /\ ClaimsStay /\ OwedStays(TaskIds) /\ ChargesStay(DOMAIN box \ {b})
      /\ \A h \in Hosts, c \in Cores :
            /\ Charge(b, h, c)' = 0
            /\ remain'[h][c] = remain[h][c] + Charge(b, h, c)
  BY <1>0, <1>1, ReleaseMoves
<1>3. b[2] \in Hosts /\ b \in DOMAIN Uses /\ Uses[b] \in [Cores -> Nat]
      /\ \A c \in Cores : Uses[b][c] = Charge(b, b[2], c)
  BY <1>1, <1>2 DEF Columns
<1>4. Free' = [Free EXCEPT ![b[2]] = Book!Plus(Free[b[2]], Uses[b])]
  <2>1. \A h \in Hosts, c \in Cores :
           remain'[h][c] = remain[h][c] + IF h = b[2] THEN Uses[b][c] ELSE 0
    <3>1. \A h \in Hosts, c \in Cores : h # b[2] => Charge(b, h, c) = 0
      BY DEF Charge, HostOf
    <3> QED
      BY <1>2, <1>3, <3>1
  <2>2. Uses[b] \in [Cores -> Int]
    BY <1>3
  <2> QED
    BY <1>2, <1>3, <2>1, <2>2, FreeGrows
<1>5. Uses' = [Uses EXCEPT ![b] = Book!Nothing]
  BY <1>2, UsesChanges DEF Book!Nothing
<1>6. Owes' = Owes
  BY <1>2, OwesStays
<1>7. Book!Stop(b)
  BY <1>4, <1>5, <1>6 DEF Book!Stop
<1> QED
  BY <1>3, <1>7 DEF Book!Next

LEMMA LoseKeeps ==
  ASSUME Kept, Kept', ~Overlapping, Died' = Died, NEW j \in Jobs, RemoveFromDocker(j)
  PROVE  Book!Next \/ (Free' = Free /\ Owes' = Owes /\ Uses' = Uses)
<1>0. PICK b : b = job[j].box
  OBVIOUS
<1>1. Terms /\ Columns /\ IInv
  BY KeptColumns DEF Kept
<1>2. /\ UNCHANGED remain /\ DOMAIN box' = DOMAIN box /\ b \in DOMAIN box
      /\ ClaimsStay /\ OwedStays(TaskIds) /\ ChargesStay(DOMAIN box \ {b})
      /\ \/ ChargesStay({b})
         \/ ~NobodyDied /\ \A h \in Hosts, c \in Cores : Charge(b, h, c)' = 0
  BY <1>0, <1>1, RemoveMoves
<1>3. Free' = Free /\ Owes' = Owes
  <2>1. \A h \in Hosts, c \in Cores : remain'[h][c] - Claims(h, c)' = remain[h][c] - Claims(h, c)
    BY <1>1, <1>2, ClaimsSame DEF ClaimsStay
  <2> QED
    BY <1>2, <2>1, FreeStays, OwesStays
<1>4. CASE ChargesStay({b})
  <2>1. ChargesStay(DOMAIN box)
    BY <1>2, <1>4 DEF ChargesStay
  <2> QED
    BY <1>2, <1>3, <2>1, UsesStays
<1>5. CASE ~NobodyDied /\ \A h \in Hosts, c \in Cores : Charge(b, h, c)' = 0
  <2>1. Died
    BY <1>5 DEF NobodyDied, Died
  <2>2. Uses' = [Uses EXCEPT ![b] = Book!Nothing] /\ b \in DOMAIN Uses
    BY <1>1, <1>2, <1>5, UsesChanges DEF Book!Nothing, Columns
  <2>3. Book!Lose(b)
    BY <1>3, <2>1, <2>2 DEF Book!Lose
  <2> QED
    BY <2>2, <2>3 DEF Book!Next
<1> QED
  BY <1>2, <1>4, <1>5

\* Nothing is owed or used at first, and every core is free.
LEMMA BookOpens == Init => Book!Init
<1> SUFFICES ASSUME Init PROVE Book!Init
  OBVIOUS
<1>1. Columns
  BY Initially, InitiallyAccounted, InitiallyFits, ColumnsTyped
<1>2. Free = [h \in Hosts |-> [c \in Cores |-> IF c \in CoresOf[h] THEN CoreShare ELSE 0]]
  <2> DEFINE g == [h \in Hosts |-> [c \in Cores |-> IF c \in CoresOf[h] THEN CoreShare ELSE 0]]
  <2>1. remain = g /\ g \in [Hosts -> [Cores -> Int]]
    BY ShareAssumption DEF Init
  <2> HIDE DEF g
  <2>2. ASSUME NEW h \in Hosts, NEW c \in Cores PROVE Free[h][c] = g[h][c]
    <3>1. \A q \in Requests : Claim(q, h, c) = 0
      BY DEF Init, Claim, NewRequest
    <3>2. Claims(h, c) = 0
      BY <3>1, Finite, NothingYet DEF Claims
    <3> QED
      BY <1>1, <2>1, <3>2 DEF Columns
  <2>3. Free \in [Hosts -> [Cores -> Int]]
    BY <1>1 DEF Columns
  <2>4. Free = g
    BY <2>1, <2>2, <2>3, SameTable
  <2> QED
    BY <2>4 DEF g
<1>3. Owes = [t \in Book!Tasks |-> Book!Nothing]
  <2>1. ASSUME NEW t \in TaskIds PROVE Owes[t] = Book!Nothing
    <3>1. \A c \in Cores : Owed(t, t[2], c) = 0
      BY Names DEF Init, Owed, HasTask, NewJob
    <3> QED
      BY <3>1 DEF Owes, Book!Nothing
  <2>2. Owes = [t \in TaskIds |-> Owes[t]]
    BY DEF Owes
  <2>3. Owes = [t \in TaskIds |-> Book!Nothing]
    BY <2>1, <2>2
  <2> QED
    BY <2>3 DEF Book!Tasks, TaskIds
<1>4. Uses = [b \in {} |-> Book!Nothing]
  <2>1. DOMAIN box = {}
    BY DEF Init
  <2> QED
    BY <2>1 DEF Uses
<1>5. Died = FALSE
  BY DEF Init, Died, NewJob
<1> QED
  BY <1>2, <1>3, <1>4, <1>5 DEF Book!Init

LEMMA BookMoves ==
  ASSUME Kept, Kept', ~Overlapping, [Next]_vars
  PROVE  [Book!Next]_<<Free, Owes, Uses, Died>>
<1>1. IInv /\ IInv'
  BY DEF Kept
<1>2. ASSUME NothingMoves, ~\E j \in Jobs : Crash(j) PROVE UNCHANGED <<Free, Owes, Uses, Died>>
  BY <1>1, <1>2, BookStays, DeathIsACrash
<1>3. CASE \E j \in Jobs : Crash(j)
  <2>1. PICK j \in Jobs : Crash(j)
    BY <1>3
  <2>2. Free' = Free /\ Owes' = Owes /\ Uses' = Uses
    BY <1>1, <2>1, QuietMoves, BookStays
  <2>3. job[j] \in JobType /\ job' = [job EXCEPT ![j].pc = "crashed"]
    BY <1>1, <2>1 DEF Crash, IInv, Types
  <2>4. job'[j].pc = "crashed"
    BY <1>1, <2>3 DEF IInv, Types, JobType
  <2>5. Died' = TRUE
    BY <2>4 DEF Died
  <2> QED
    BY <2>2, <2>5 DEF Book!Next, Book!Die
<1>4. CASE ~\E j \in Jobs : Crash(j)
  <2>0. Died' = Died
    BY <1>1, <1>4, DeathIsACrash
  <2>1. ASSUME NEW q \in Requests, Submit(q) \/ Schedule(q) PROVE NothingMoves
    <3>1. SchedulingStep(q) \/ UNCHANGED vars
      BY <1>1, <2>1, SchedulingSteps DEF IInv
    <3> QED
      BY <1>1, <3>1, SchedulingMoves, StutterMoves
  <2>2. ASSUME NEW q \in Requests, Answer(q) PROVE Book!Next \/ UNCHANGED <<Free, Owes, Uses, Died>>
    <3>1. ASSUME NEW h \in Hosts, CreateTaskFails(q, h) \/ EnqueueFails(q, h)
          PROVE  UNCHANGED <<Free, Owes, Uses, Died>>
      BY <1>1, <1>2, <1>4, <3>1, FailMoves
    <3>2. ASSUME NEW h \in Hosts, CreateTask(q, h) PROVE Book!Next
      BY <2>0, <3>2, GrantKeeps
    <3>3. ASSUME OccupyCores(q) PROVE UNCHANGED <<Free, Owes, Uses, Died>>
      BY <2>0, <3>3, OccupyKeeps
    <3> QED
      BY <2>2, <3>1, <3>2, <3>3 DEF Answer
  <2>3. ASSUME NEW t \in TaskIds, Create(t) PROVE Book!Next \/ UNCHANGED <<Free, Owes, Uses, Died>>
    <3>1. t \in Jobs
      BY DEF Jobs
    <3>2. ASSUME StartTask(t) \/ FinishTask(t) \/ AllocateIPsFails(t) \/ AllocateIPs(t)
          PROVE  UNCHANGED <<Free, Owes, Uses, Died>>
      BY <1>1, <1>2, <1>4, <3>1, <3>2, QuietMoves
    <3>3. ASSUME RecordContainer(t) \/ SaveCores(t) PROVE UNCHANGED <<Free, Owes, Uses, Died>>
      BY <1>1, <1>2, <1>4, <3>3, RecordMoves
    <3>4. ASSUME CreateContainer(t) PROVE Book!Next
      BY <2>0, <3>4, StartKeeps
    <3>5. ASSUME CreateContainerFails(t) PROVE Book!Next
      BY <2>0, <3>5, ReturnKeeps
    <3> QED
      BY <2>3, <3>2, <3>3, <3>4, <3>5 DEF Create
  <2>4. ASSUME NEW j \in Jobs, Removal(j) PROVE Book!Next \/ UNCHANGED <<Free, Owes, Uses, Died>>
    <3>1. ASSUME RemoveFromDockerFails(j) \/ ReadCores(j) PROVE UNCHANGED <<Free, Owes, Uses, Died>>
      BY <1>1, <1>2, <1>4, <3>1, QuietMoves
    <3>2. ASSUME DropRecord(j) PROVE UNCHANGED <<Free, Owes, Uses, Died>>
      BY <1>1, <1>2, <1>4, <3>2, DropMoves
    <3>3. ASSUME ReleaseCores(j) PROVE Book!Next
      BY <2>0, <3>3, StopKeeps
    <3>4. ASSUME RemoveFromDocker(j) PROVE Book!Next \/ UNCHANGED <<Free, Owes, Uses, Died>>
      BY <2>0, <3>4, LoseKeeps
    <3> QED
      BY <2>4, <3>1, <3>2, <3>3, <3>4 DEF Removal, Delete
  <2>5. ASSUME NEW r \in Removers, NEW b \in DOMAIN box, BeginRemoval(r, b) PROVE NothingMoves
    BY <1>1, <2>5, BeginMoves
  <2>6. ASSUME (\E j \in Jobs : StopAgain(j)) \/ AllDone \/ UNCHANGED vars PROVE NothingMoves
    BY <2>6, StutterMoves DEF StopAgain, AllDone
  <2> QED
    BY <1>2, <1>4, <2>1, <2>2, <2>3, <2>4, <2>5, <2>6 DEF Next, Handler
<1> QED
  BY <1>3, <1>4

LEMMA KeptAlways == ~Overlapping /\ MaxInFlight = 1 => (Spec => []Kept)
<1> SUFFICES ASSUME ~Overlapping, MaxInFlight = 1 PROVE Spec => []Kept
  OBVIOUS
<1>1. Spec => []IInv /\ []Accounted /\ []PlansFit
  BY Structure, Accounting, PlansStayFree
<1>2. IInv /\ Accounted /\ PlansFit => Kept
  BY DEF Kept
<1> QED
  BY <1>1, <1>2, PTL

\* While the API serves one request at a time and removals of one container do
\* not overlap, every step of a handler, a worker or a removal, whatever fails
\* or dies, is a step of CoreBook on what is free, owed and used, or leaves all
\* three alone: create_containers hands out and gives back only what _create_task
\* took from the ledger, and Container.delete credits what the container had.
THEOREM BookIsKept == ~Overlapping /\ MaxInFlight = 1 => (Spec => KeepsCoreBook)
<1> SUFFICES ASSUME ~Overlapping, MaxInFlight = 1 PROVE Spec => KeepsCoreBook
  OBVIOUS
<1>1. Kept /\ Kept' /\ [Next]_vars => [Book!Next]_<<Free, Owes, Uses, Died>>
  BY BookMoves
<1>2. Spec => []Kept
  BY KeptAlways
<1> QED
  BY <1>1, <1>2, BookOpens, PTL DEF Spec, KeepsCoreBook, Book!Spec, Book!book

=============================================================================
