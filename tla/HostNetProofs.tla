--------------------------- MODULE HostNetProofs ----------------------------
(***************************************************************************)
(* Proofs about HostNet for any number of hosts, containers, elastic IPs,  *)
(* gateway addresses and workers: the type invariant, that no gateway      *)
(* address and no elastic IP is lost or given out twice, and that the two  *)
(* records of who an elastic IP is bound to, the mark of the address and   *)
(* the property of the container, agree.                                   *)
(***************************************************************************)
EXTENDS HostNet, TLAPS

-----------------------------------------------------------------------------
(* The type invariant.  A request writes what it holds into the tables, so *)
(* it must hold something of the right kind.                               *)

JobType == [pc : {"idle"} \cup HostPlaces \cup ConPlaces \cup GatePlaces,
            host : Hosts \cup {None}, con : Containers \cup {None},
            ip : Eips \cup Gates \cup {None},
            todo : SUBSET Eips, rest : SUBSET Eips]

Held(j) ==
    /\ j.pc \in HostPlaces \cup GatePlaces => j.host \in Hosts /\ j.con = None
    /\ j.pc \in ConPlaces => j.con \in Containers /\ j.host = None
    /\ j.pc \in {"configure", "list", "store", "publish", "own", "mark"} => j.ip \in Eips
    /\ j.pc \in {"insert", "push", "erase"} => j.ip \in Gates
    /\ j.pc = "idle" => j = Idle

TableTypes ==
    /\ pool \subseteq Eips
    /\ eips \in [Hosts -> SUBSET Eips]
    /\ mark \in [Eips -> Containers \cup {None}]
    /\ eip \in [Containers -> Eips \cup {None}]
    /\ nat \subseteq Eips \X Containers
    /\ state \in [Containers -> {"alive", "deleting", "deleted"}]
    /\ hasIp \subseteq Containers
    /\ wiped \subseteq Starved
    /\ gates \subseteq Gates
    /\ gateway \in [Hosts -> Gates \cup {None}]
    /\ gateLock \in Workers \cup {None}

JobTypes ==
    /\ job \in [Workers -> JobType]
    /\ \A w \in Workers : Held(job[w])

TypeInv == TableTypes /\ JobTypes

LEMMA IdleHeld == Idle \in JobType /\ Held(Idle)
  BY HostNetAssumption DEF Idle, JobType, Held, HostPlaces, GatePlaces, ConPlaces

LEMMA TypeInit == Init => TypeInv
  BY IdleHeld, HostNetAssumption DEF Init, TypeInv, TableTypes, JobTypes

\* A step of one worker, from what it makes of its record.
LEMMA JobSet ==
  ASSUME JobTypes, NEW w \in Workers, NEW j \in JobType, Held(j),
         job' = [job EXCEPT ![w] = j]
  PROVE  JobTypes'
<1>1. job' \in [Workers -> JobType]
  BY DEF JobTypes
<1>2. \A v \in Workers : job'[v] = IF v = w THEN j ELSE job[v]
  BY DEF JobTypes
<1>3. \A v \in Workers : Held(job'[v])
  BY <1>2 DEF JobTypes
<1> QED
  BY <1>1, <1>3 DEF JobTypes

LEMMA JobGoto ==
  ASSUME JobTypes, NEW w \in Workers, NEW pc \in HostPlaces \cup ConPlaces \cup GatePlaces,
         Held([job[w] EXCEPT !.pc = pc]), Goto(w, pc)
  PROVE  JobTypes'
<1>1. [job[w] EXCEPT !.pc = pc] \in JobType
  BY DEF JobTypes, JobType
<1>2. job' = [job EXCEPT ![w] = [job[w] EXCEPT !.pc = pc]]
  BY DEF Goto
<1> QED
  BY <1>1, <1>2, JobSet

LEMMA JobDone ==
  ASSUME JobTypes, NEW w \in Workers, Done(w)
  PROVE  JobTypes'
  BY IdleHeld, JobSet DEF Done

LEMMA JobStart ==
  ASSUME JobTypes, NEW w \in Workers, NEW pc, NEW h, NEW c, NEW ip, Start(w, pc, h, c, ip),
         [pc |-> pc, host |-> h, con |-> c, ip |-> ip, todo |-> {}, rest |-> {}] \in JobType,
         Held([pc |-> pc, host |-> h, con |-> c, ip |-> ip, todo |-> {}, rest |-> {}])
  PROVE  JobTypes'
  BY JobSet DEF Start

LEMMA TypeStep == TypeInv /\ [Next]_vars => TypeInv'
<1> SUFFICES ASSUME TableTypes, JobTypes, [Next]_vars PROVE TableTypes' /\ JobTypes'
  BY DEF TypeInv
<1> USE HostNetAssumption
<1>0. \A w \in Workers : job[w] \in JobType /\ Held(job[w])
  BY DEF JobTypes
<1>1. CASE AddEip
  BY <1>1 DEF AddEip, TableTypes, JobTypes, conVars, netVars
<1>2. CASE DeleteEip
  BY <1>2 DEF DeleteEip, TableTypes, JobTypes, conVars, netVars
<1>3. ASSUME NEW w \in Workers, Request(w) PROVE TableTypes' /\ JobTypes'
  <2>1. ASSUME NEW h \in Hosts, BeginRelease(w, h) PROVE TableTypes' /\ JobTypes'
    <3>1. TableTypes'
      BY <2>1 DEF BeginRelease, TableTypes, hostVars, conVars, netVars
    <3> DEFINE j == [Idle EXCEPT !.pc = "other", !.host = h, !.todo = eips[h]]
    <3>2. JobTypes'
      <4>1. j \in JobType /\ Held(j)
        BY <2>1, <1>0 DEF BeginRelease, TableTypes, At, Held, JobType, Idle, HostPlaces, ConPlaces, GatePlaces
      <4>2. job' = [job EXCEPT ![w] = j]
        BY <2>1, <1>0 DEF BeginRelease, JobType
      <4> QED
        BY <4>1, <4>2, JobSet
    <3> QED
      BY <3>1, <3>2
  <2>2. ASSUME NEW h \in Hosts, BeginGateway(w, h) PROVE TableTypes' /\ JobTypes'
    <3>1. TableTypes'
      BY <2>2 DEF BeginGateway, TableTypes, hostVars, conVars, netVars
    <3>2. JobTypes'
      BY <2>2, JobStart DEF BeginGateway, TableTypes, JobType, Held, HostPlaces, ConPlaces, GatePlaces
    <3> QED
      BY <3>1, <3>2
  <2>3. ASSUME NEW h \in Hosts, BeginDrop(w, h) PROVE TableTypes' /\ JobTypes'
    <3>1. TableTypes'
      BY <2>3 DEF BeginDrop, TableTypes, hostVars, conVars, netVars
    <3>2. JobTypes'
      BY <2>3, JobStart DEF BeginDrop, TableTypes, JobType, Held, HostPlaces, ConPlaces, GatePlaces
    <3> QED
      BY <3>1, <3>2
  <2>4. ASSUME NEW h \in Hosts, NEW e \in Eips, TakeEip(w, h, e) PROVE TableTypes' /\ JobTypes'
    <3>1. TableTypes'
      BY <2>4, <1>0 DEF TakeEip, TableTypes, JobType, Held, At, hostVars, conVars, netVars, HostPlaces, ConPlaces, GatePlaces
    <3>2. JobTypes'
      BY <2>4, JobStart DEF TakeEip, TableTypes, JobType, Held, HostPlaces, ConPlaces, GatePlaces
    <3> QED
      BY <3>1, <3>2
  <2>5. ASSUME NEW c \in Containers, BeginUnbind(w, c) PROVE TableTypes' /\ JobTypes'
    <3>1. TableTypes'
      BY <2>5 DEF BeginUnbind, TableTypes, hostVars, conVars, netVars
    <3>2. JobTypes'
      BY <2>5, JobStart DEF BeginUnbind, TableTypes, JobType, Held, HostPlaces, ConPlaces, GatePlaces
    <3> QED
      BY <3>1, <3>2
  <2>6. ASSUME NEW c \in Containers, BeginDelete(w, c) PROVE TableTypes' /\ JobTypes'
    <3>1. TableTypes'
      BY <2>6, <1>0 DEF BeginDelete, TableTypes, JobType, Held, At, hostVars, conVars, netVars, HostPlaces, ConPlaces, GatePlaces
    <3>2. JobTypes'
      BY <2>6, JobStart DEF BeginDelete, TableTypes, JobType, Held, HostPlaces, ConPlaces, GatePlaces
    <3> QED
      BY <3>1, <3>2
  <2>7. ASSUME NEW c \in Containers, NEW e \in Eips, PickEip(w, c, e) PROVE TableTypes' /\ JobTypes'
    <3>1. TableTypes'
      BY <2>7 DEF PickEip, TableTypes, hostVars, conVars, netVars
    <3>2. JobTypes'
      BY <2>7, JobStart DEF PickEip, TableTypes, JobType, Held, HostPlaces, ConPlaces, GatePlaces
    <3> QED
      BY <3>1, <3>2
  <2> QED
    BY <1>3, <2>1, <2>2, <2>3, <2>4, <2>5, <2>6, <2>7 DEF Request
<1>4. ASSUME NEW w \in Workers, HostStep(w) PROVE TableTypes' /\ JobTypes'
  <2>1. CASE Configure(w)
    <3>1. TableTypes'
      BY <2>1 DEF Configure, TableTypes, hostVars, conVars, netVars
    <3>2. JobTypes'
      BY <2>1, <1>0, JobGoto DEF Configure, At, Held, JobType, HostPlaces, ConPlaces, GatePlaces
    <3> QED
      BY <3>1, <3>2
  <2>2. CASE ConfigureFails(w)
    <3>1. TableTypes'
      BY <2>2, <1>0 DEF ConfigureFails, TableTypes, JobType, Held, At, hostVars, conVars, netVars, HostPlaces, ConPlaces, GatePlaces
    <3>2. JobTypes'
      BY <2>2, JobDone DEF ConfigureFails
    <3> QED
      BY <3>1, <3>2
  <2>3. CASE ReadList(w)
    <3>1. TableTypes'
      BY <2>3 DEF ReadList, TableTypes, hostVars, conVars, netVars
    <3> DEFINE j == [job[w] EXCEPT !.pc = "store", !.rest = eips[job[w].host]]
    <3>2. JobTypes'
      <4>1. j \in JobType /\ Held(j)
        <5>1. job[w].host \in Hosts /\ job[w].con = None /\ job[w].ip \in Eips \cup Gates \cup {None}
          BY <2>3, <1>0 DEF ReadList, At, Held, JobType, HostPlaces, ConPlaces, GatePlaces
        <5>2. eips[job[w].host] \subseteq Eips
          BY <5>1 DEF TableTypes
        <5>3. j \in JobType
          BY <5>2, <1>0 DEF JobType, HostPlaces, ConPlaces, GatePlaces
        <5>4. Held(j)
          BY <2>3, <5>1, <1>0 DEF ReadList, At, Held, JobType, HostPlaces, ConPlaces, GatePlaces
        <5> QED
          BY <5>3, <5>4
      <4>2. job' = [job EXCEPT ![w] = j]
        BY <2>3, <1>0 DEF ReadList, JobType
      <4> QED
        BY <4>1, <4>2, JobSet
    <3> QED
      BY <3>1, <3>2
  <2>4. CASE StoreList(w)
    <3>1. TableTypes'
      BY <2>4, <1>0 DEF StoreList, TableTypes, JobType, Held, At, hostVars, conVars, netVars, HostPlaces, ConPlaces, GatePlaces
    <3>2. JobTypes'
      BY <2>4, JobDone DEF StoreList
    <3> QED
      BY <3>1, <3>2
  <2>5. CASE ReadRest(w)
    <3>1. TableTypes'
      BY <2>5 DEF ReadRest, TableTypes, hostVars, conVars, netVars
    <3> DEFINE j == [job[w] EXCEPT !.pc = "unconfigure", !.rest = eips[job[w].host] \ job[w].todo]
    <3>2. JobTypes'
      <4>1. j \in JobType /\ Held(j)
        <5>1. job[w].host \in Hosts /\ job[w].con = None /\ job[w].ip \in Eips \cup Gates \cup {None}
          BY <2>5, <1>0 DEF ReadRest, At, Held, JobType, HostPlaces, ConPlaces, GatePlaces
        <5>2. eips[job[w].host] \subseteq Eips
          BY <5>1 DEF TableTypes
        <5>3. j \in JobType
          BY <5>2, <1>0 DEF JobType, HostPlaces, ConPlaces, GatePlaces
        <5>4. Held(j)
          BY <2>5, <5>1, <1>0 DEF ReadRest, At, Held, JobType, HostPlaces, ConPlaces, GatePlaces
        <5> QED
          BY <5>3, <5>4
      <4>2. job' = [job EXCEPT ![w] = j]
        BY <2>5, <1>0 DEF ReadRest, JobType
      <4> QED
        BY <4>1, <4>2, JobSet
    <3> QED
      BY <3>1, <3>2
  <2>6. CASE Unconfigure(w)
    <3>1. TableTypes'
      BY <2>6 DEF Unconfigure, TableTypes, hostVars, conVars, netVars
    <3>2. JobTypes'
      BY <2>6, <1>0, JobGoto DEF Unconfigure, At, Held, JobType, HostPlaces, ConPlaces, GatePlaces
    <3> QED
      BY <3>1, <3>2
  <2>7. CASE UnconfigureFails(w)
    <3>1. TableTypes'
      BY <2>7 DEF UnconfigureFails, TableTypes, hostVars, conVars, netVars
    <3>2. JobTypes'
      BY <2>7, JobDone DEF UnconfigureFails
    <3> QED
      BY <3>1, <3>2
  <2>8. CASE StoreRest(w)
    <3>1. TableTypes'
      BY <2>8, <1>0 DEF StoreRest, TableTypes, JobType, Held, At, hostVars, conVars, netVars, HostPlaces, ConPlaces, GatePlaces
    <3>2. JobTypes'
      BY <2>8, JobDone DEF StoreRest
    <3> QED
      BY <3>1, <3>2
  <2>9. ASSUME NEW e \in Eips, FreeEip(w, e) PROVE TableTypes' /\ JobTypes'
    <3>1. TableTypes'
      BY <2>9, <1>0 DEF FreeEip, TableTypes, JobType, Held, At, hostVars, conVars, netVars, HostPlaces, ConPlaces, GatePlaces
    <3> DEFINE j == [job[w] EXCEPT !.todo = @ \ {e}]
    <3>2. JobTypes'
      <4>1. j \in JobType /\ Held(j)
        BY <2>9, <1>0 DEF FreeEip, TableTypes, At, Held, JobType, Idle, HostPlaces, ConPlaces, GatePlaces
      <4>2. job' = [job EXCEPT ![w] = j]
        BY <2>9, <1>0 DEF FreeEip, JobType
      <4> QED
        BY <4>1, <4>2, JobSet
    <3> QED
      BY <3>1, <3>2
  <2> QED
    BY <1>4, <2>1, <2>2, <2>3, <2>4, <2>5, <2>6, <2>7, <2>8, <2>9 DEF HostStep
<1>5. ASSUME NEW w \in Workers, ConStep(w) PROVE TableTypes' /\ JobTypes'
  <2>1. CASE Publish(w)
    <3>1. TableTypes'
      BY <2>1, <1>0 DEF Publish, TableTypes, JobType, Held, At, hostVars, conVars, netVars, HostPlaces, ConPlaces, GatePlaces
    <3>2. JobTypes'
      BY <2>1, <1>0, JobGoto DEF Publish, At, Held, JobType, HostPlaces, ConPlaces, GatePlaces
    <3> QED
      BY <3>1, <3>2
  <2>2. CASE Own(w)
    <3>1. TableTypes'
      BY <2>2, <1>0 DEF Own, TableTypes, JobType, Held, At, hostVars, conVars, netVars, HostPlaces, ConPlaces, GatePlaces
    <3>2. JobTypes'
      BY <2>2, <1>0, JobGoto DEF Own, At, Held, JobType, HostPlaces, ConPlaces, GatePlaces
    <3> QED
      BY <3>1, <3>2
  <2>3. CASE MarkBound(w)
    <3>1. TableTypes'
      BY <2>3, <1>0 DEF MarkBound, TableTypes, JobType, Held, At, hostVars, conVars, netVars, HostPlaces, ConPlaces, GatePlaces
    <3>2. JobTypes'
      BY <2>3, JobDone DEF MarkBound
    <3> QED
      BY <3>1, <3>2
  <2>4. CASE Unpublish(w)
    <3>1. TableTypes'
      BY <2>4, <1>0 DEF Unpublish, TableTypes, JobType, Held, At, hostVars, conVars, netVars, HostPlaces, ConPlaces, GatePlaces
    <3>2. JobTypes'
      BY <2>4, <1>0, JobGoto DEF Unpublish, At, Held, JobType, HostPlaces, ConPlaces, GatePlaces
    <3> QED
      BY <3>1, <3>2
  <2>5. CASE Unmark(w)
    <3>1. TableTypes'
      BY <2>5, <1>0 DEF Unmark, TableTypes, JobType, Held, At, hostVars, conVars, netVars, HostPlaces, ConPlaces, GatePlaces
    <3>2. JobTypes'
      BY <2>5, <1>0, JobGoto DEF Unmark, At, Held, JobType, HostPlaces, ConPlaces, GatePlaces
    <3> QED
      BY <3>1, <3>2
  <2>6. CASE Disown(w)
    <3>1. TableTypes'
      BY <2>6, <1>0 DEF Disown, TableTypes, JobType, Held, At, hostVars, conVars, netVars, HostPlaces, ConPlaces, GatePlaces
    <3>2. JobTypes'
      BY <2>6, <1>0, JobGoto, JobDone DEF Disown, At, Held, JobType, HostPlaces, ConPlaces, GatePlaces
    <3> QED
      BY <3>1, <3>2
  <2>7. CASE Forget(w)
    <3>1. TableTypes'
      BY <2>7, <1>0 DEF Forget, TableTypes, JobType, Held, At, hostVars, conVars, netVars, HostPlaces, ConPlaces, GatePlaces
    <3>2. JobTypes'
      BY <2>7, JobDone DEF Forget
    <3> QED
      BY <3>1, <3>2
  <2> QED
    BY <1>5, <2>1, <2>2, <2>3, <2>4, <2>5, <2>6, <2>7 DEF ConStep
<1>6. ASSUME NEW w \in Workers, GateStep(w) PROVE TableTypes' /\ JobTypes'
  <2>1. ASSUME NEW g \in Gates, PopGate(w, g) PROVE TableTypes' /\ JobTypes'
    <3>1. TableTypes'
      BY <2>1, <1>0 DEF PopGate, TableTypes, JobType, Held, At, hostVars, conVars, netVars, HostPlaces, ConPlaces, GatePlaces
    <3> DEFINE j == [job[w] EXCEPT !.pc = "insert", !.ip = g]
    <3>2. JobTypes'
      <4>1. j \in JobType /\ Held(j)
        <5>1. job[w].host \in Hosts /\ job[w].con = None
          BY <2>1, <1>0 DEF PopGate, At, Held, HostPlaces, ConPlaces, GatePlaces
        <5>2. j \in JobType
          BY <1>0 DEF JobType, HostPlaces, ConPlaces, GatePlaces
        <5>3. j.pc = "insert" /\ j.host = job[w].host /\ j.con = job[w].con /\ j.ip = g
          BY <1>0 DEF JobType
        <5> QED
          BY <5>1, <5>2, <5>3 DEF Held, HostPlaces, ConPlaces, GatePlaces
      <4>2. job' = [job EXCEPT ![w] = j]
        BY <2>1, <1>0 DEF PopGate, JobType
      <4> QED
        BY <4>1, <4>2, JobSet
    <3> QED
      BY <3>1, <3>2
  <2>2. CASE PopNoGate(w)
    <3>1. TableTypes'
      BY <2>2 DEF PopNoGate, TableTypes, hostVars, conVars, netVars
    <3>2. JobTypes'
      BY <2>2, JobDone DEF PopNoGate
    <3> QED
      BY <3>1, <3>2
  <2>3. CASE InsertGate(w)
    <3>1. TableTypes'
      BY <2>3, <1>0 DEF InsertGate, TableTypes, JobType, Held, At, hostVars, conVars, netVars, HostPlaces, ConPlaces, GatePlaces
    <3>2. JobTypes'
      BY <2>3, JobDone DEF InsertGate
    <3> QED
      BY <3>1, <3>2
  <2>4. CASE InsertGateFails(w)
    <3>1. TableTypes'
      BY <2>4, <1>0 DEF InsertGateFails, TableTypes, JobType, Held, At, hostVars, conVars, netVars, HostPlaces, ConPlaces, GatePlaces
    <3>2. JobTypes'
      BY <2>4, JobDone DEF InsertGateFails
    <3> QED
      BY <3>1, <3>2
  <2>5. CASE PushGate(w)
    <3>1. TableTypes'
      BY <2>5, <1>0 DEF PushGate, TableTypes, JobType, Held, At, hostVars, conVars, netVars, HostPlaces, ConPlaces, GatePlaces
    <3>2. JobTypes'
      BY <2>5, <1>0, JobGoto DEF PushGate, At, Held, JobType, HostPlaces, ConPlaces, GatePlaces
    <3> QED
      BY <3>1, <3>2
  <2>6. CASE EraseGate(w)
    <3>1. TableTypes'
      BY <2>6, <1>0 DEF EraseGate, TableTypes, JobType, Held, At, hostVars, conVars, netVars, HostPlaces, ConPlaces, GatePlaces
    <3>2. JobTypes'
      BY <2>6, JobDone DEF EraseGate
    <3> QED
      BY <3>1, <3>2
  <2> QED
    BY <1>6, <2>1, <2>2, <2>3, <2>4, <2>5, <2>6 DEF GateStep
<1>7. ASSUME NEW c \in Containers, Reset(c) PROVE TableTypes' /\ JobTypes'
  BY <1>7 DEF Reset, TableTypes, JobTypes, hostVars, netVars
<1>8. CASE UNCHANGED vars
  BY <1>8 DEF vars, TableTypes, JobTypes, hostVars, conVars, netVars
<1> QED
  BY <1>1, <1>2, <1>3, <1>4, <1>5, <1>6, <1>7, <1>8 DEF Next

(* Every state has the types TypeOK gives: in particular a request never   *)
(* reaches the row of a gateway, the key of an elastic IP or a list        *)
(* without an address to write (Network.acquire_gateway_ip tests what spop *)
(* returned).                                                              *)
THEOREM TypeCorrect == Spec => []TypeOK
<1>1. TypeInv => TypeOK
  BY DEF TypeInv, TableTypes, JobTypes, JobType, TypeOK
<1> QED
  BY <1>1, TypeInit, TypeStep, PTL DEF Spec

-----------------------------------------------------------------------------
(* Gateways: the invariant behind GatesConserved.                          *)

Dropping(w) == job[w].pc \in {"push", "erase"}

\* The address that was popped is kept under the lock until it has a row.
PoppedLocked == \A w \in Workers : At(w, "insert") => gateLock = w

\* Nobody else uses it, except those who have given it back.
PoppedFree ==
    \A w \in Workers : At(w, "insert") =>
        /\ job[w].ip \notin gates
        /\ \A h \in Hosts : gateway[h] = job[w].ip => Erasing(h)

\* One request at a time releases the gateway of a host.
DropsRow ==
    /\ \A w \in Workers : Dropping(w) => gateway[job[w].host] = job[w].ip
    /\ \A v, w \in Workers :
          Dropping(v) /\ Dropping(w) /\ job[v].host = job[w].host => v = w

\* A row that is being erased does not count: its address is elsewhere too.
GatePlaced ==
    \A g \in Gates :
        \/ g \in gates
        \/ \E w \in Workers : At(w, "insert") /\ job[w].ip = g
        \/ \E h \in Hosts : gateway[h] = g /\ ~Erasing(h)

GateRows ==
    \A h \in Hosts : gateway[h] # None =>
        \/ Erasing(h)
        \/ /\ gateway[h] \notin gates
           /\ \A k \in Hosts \ {h} : gateway[k] = gateway[h] => Erasing(k)

GateInv == PoppedLocked /\ PoppedFree /\ DropsRow /\ GatePlaced /\ GateRows

LEMMA GateInit == Init => GateInv
  BY DEF Init, GateInv, PoppedLocked, PoppedFree, DropsRow, GatePlaced, GateRows, At, Idle,
         Dropping

\* A step of w in which no address of a gateway is on its way.
Elsewhere(w) ==
    /\ job[w].pc \notin {"insert", "push", "erase"}
    /\ job'[w].pc \notin {"insert", "push", "erase"}
    /\ \A v \in Workers \ {w} : job'[v] = job[v]

LEMMA GateFrame ==
  ASSUME GateInv, UNCHANGED netVars, NEW w \in Workers, Elsewhere(w)
  PROVE  GateInv'
<1>1. \A v \in Workers : /\ At(v, "insert")' <=> At(v, "insert")
                         /\ At(v, "erase")' <=> At(v, "erase")
                         /\ Dropping(v)' <=> Dropping(v)
                         /\ At(v, "insert") \/ Dropping(v) => job'[v] = job[v]
  BY DEF Elsewhere, At, Dropping
<1>2. \A h \in Hosts : Erasing(h)' <=> Erasing(h)
  BY <1>1 DEF Erasing, At, Dropping
<1>3. gates' = gates /\ gateway' = gateway /\ gateLock' = gateLock
  BY DEF netVars
<1> QED
  BY <1>1, <1>2, <1>3 DEF GateInv, PoppedLocked, PoppedFree, DropsRow, GatePlaced, GateRows

LEMMA HostStepElsewhere ==
  ASSUME TypeInv, NEW w \in Workers, HostStep(w)
  PROVE  UNCHANGED netVars /\ Elsewhere(w)
<1> USE DEF TypeInv, JobTypes, JobType, At, Goto, Done, Idle, Elsewhere
<1>1. CASE Configure(w) \/ ConfigureFails(w)
  BY <1>1 DEF Configure, ConfigureFails
<1>2. CASE ReadList(w) \/ StoreList(w)
  BY <1>2 DEF ReadList, StoreList
<1>3. CASE ReadRest(w) \/ StoreRest(w)
  BY <1>3 DEF ReadRest, StoreRest
<1>4. CASE Unconfigure(w) \/ UnconfigureFails(w)
  BY <1>4 DEF Unconfigure, UnconfigureFails
<1>5. ASSUME NEW e \in Eips, FreeEip(w, e)
      PROVE  UNCHANGED netVars /\ Elsewhere(w)
  BY <1>5 DEF FreeEip
<1> QED
  BY <1>1, <1>2, <1>3, <1>4, <1>5 DEF HostStep

LEMMA ConStepElsewhere ==
  ASSUME TypeInv, NEW w \in Workers, ConStep(w)
  PROVE  UNCHANGED netVars /\ Elsewhere(w)
<1> USE DEF TypeInv, JobTypes, JobType, At, Goto, Done, Idle, Elsewhere
<1>1. CASE Publish(w) \/ Own(w) \/ MarkBound(w)
  BY <1>1 DEF Publish, Own, MarkBound
<1>2. CASE Unpublish(w) \/ Unmark(w)
  BY <1>2 DEF Unpublish, Unmark
<1>3. CASE Disown(w) \/ Forget(w)
  BY <1>3 DEF Disown, Forget
<1> QED
  BY <1>1, <1>2, <1>3 DEF ConStep

LEMMA RequestElsewhere ==
  ASSUME TypeInv, NEW w \in Workers, Request(w)
  PROVE  \/ \E h \in Hosts : BeginDrop(w, h)
         \/ UNCHANGED netVars /\ Elsewhere(w)
<1> USE DEF TypeInv, JobTypes, JobType, At, Start, Idle, Elsewhere
<1>0. ASSUME NEW h \in Hosts, BeginRelease(w, h)
      PROVE  UNCHANGED netVars /\ Elsewhere(w)
  BY <1>0, HostNetAssumption DEF BeginRelease, TableTypes
<1>1. ASSUME NEW h \in Hosts, BeginGateway(w, h)
      PROVE  UNCHANGED netVars /\ Elsewhere(w)
  BY <1>1 DEF BeginGateway
<1>2. ASSUME NEW h \in Hosts, NEW e \in Eips, TakeEip(w, h, e)
      PROVE  UNCHANGED netVars /\ Elsewhere(w)
  BY <1>2 DEF TakeEip
<1>3. ASSUME NEW c \in Containers, BeginUnbind(w, c) \/ BeginDelete(w, c)
      PROVE  UNCHANGED netVars /\ Elsewhere(w)
  BY <1>3 DEF BeginUnbind, BeginDelete
<1>4. ASSUME NEW c \in Containers, NEW e \in Eips, PickEip(w, c, e)
      PROVE  UNCHANGED netVars /\ Elsewhere(w)
  BY <1>4 DEF PickEip
<1> QED
  BY <1>0, <1>1, <1>2, <1>3, <1>4 DEF Request

LEMMA GateStepKept ==
  ASSUME TypeInv, TypeInv', GateInv, NEW w \in Workers, GateStep(w)
  PROVE  GateInv'
<1> USE HostNetAssumption DEF At, Dropping, Erasing
<1>0. /\ \A v \in Workers : job[v] \in JobType /\ Held(job[v])
      /\ gateway \in [Hosts -> Gates \cup {None}] /\ gates \subseteq Gates
  BY DEF TypeInv, TableTypes, JobTypes
<1>1. ASSUME NEW g \in Gates, PopGate(w, g) PROVE GateInv'
  <2>1. /\ gates' = gates \ {g} /\ gateway' = gateway /\ gateLock = None /\ gateLock' = w
        /\ job[w].pc = "pop" /\ g \in gates
        /\ \A v \in Workers \ {w} : job'[v] = job[v]
        /\ job'[w].pc = "insert" /\ job'[w].ip = g
    BY <1>0, <1>1 DEF PopGate, TypeInv, JobTypes, JobType, netVars
  <2>2. \A v \in Workers : job[v].pc # "insert"
    BY <2>1 DEF GateInv, PoppedLocked
  <2>3. \A h \in Hosts : Erasing(h)' <=> Erasing(h)
    BY <2>1
  <2>4. \A h \in Hosts : gateway[h] = g => Erasing(h)
    BY <2>1 DEF GateInv, GateRows
  <2>5. PoppedLocked' /\ PoppedFree'
    BY <2>1, <2>2, <2>3, <2>4 DEF PoppedLocked, PoppedFree
  <2>6. DropsRow'
    BY <2>1 DEF GateInv, DropsRow
  <2>7. GatePlaced'
    BY <2>1, <2>2, <2>3 DEF GateInv, GatePlaced
  <2>8. GateRows'
    BY <2>1, <2>3 DEF GateInv, GateRows
  <2> QED
    BY <2>5, <2>6, <2>7, <2>8 DEF GateInv
<1>2. CASE PopNoGate(w)
  <2>1. UNCHANGED netVars /\ Elsewhere(w)
    BY <1>2 DEF PopNoGate, TypeInv, JobTypes, Elsewhere, Done, Idle
  <2> QED
    BY <2>1, GateFrame
<1>3. CASE InsertGate(w)
  <2> DEFINE h == job[w].host
  <2>1. /\ gates' = gates /\ job[w].pc = "insert" /\ h \in Hosts /\ job[w].ip \in Gates
        /\ gateway[h] = None /\ gateway' = [gateway EXCEPT ![h] = job[w].ip]
        /\ \A v \in Workers \ {w} : job'[v] = job[v]
        /\ job'[w].pc = "idle"
    BY <1>0, <1>3 DEF InsertGate, TypeInv, JobTypes, JobType, Held, GatePlaces, Done, Idle
  <2>2. \A v \in Workers \ {w} : job[v].pc # "insert"
    BY <2>1 DEF GateInv, PoppedLocked
  <2>3. \A k \in Hosts : Erasing(k)' <=> Erasing(k)
    BY <2>1
  <2>4. ~Erasing(h) /\ \A v \in Workers : Dropping(v) => job[v].host # h
    BY <2>1, <1>0 DEF GateInv, DropsRow, Held
  <2>5. /\ gateway'[h] = job[w].ip
        /\ \A k \in Hosts \ {h} : gateway'[k] = gateway[k]
    BY <2>1, <1>0
  <2>6. PoppedLocked' /\ PoppedFree'
    BY <2>1, <2>2 DEF PoppedLocked, PoppedFree
  <2>7. DropsRow'
    <3>1. \A v \in Workers : Dropping(v)' => Dropping(v) /\ job'[v] = job[v] /\ job[v].host \in Hosts
      BY <2>1, <1>0 DEF Held, GatePlaces
    <3> QED
      BY <3>1, <2>4, <2>5 DEF GateInv, DropsRow
  <2>8. GatePlaced'
    <3> SUFFICES ASSUME NEW g \in Gates
                 PROVE  \/ g \in gates'
                        \/ \E v \in Workers : At(v, "insert")' /\ job'[v].ip = g
                        \/ \E k \in Hosts : gateway'[k] = g /\ ~Erasing(k)'
      BY DEF GatePlaced
    <3>1. CASE g = job[w].ip
      BY <3>1, <2>1, <2>3, <2>4, <2>5
    <3>2. CASE g # job[w].ip
      <4>1. \/ g \in gates
            \/ \E k \in Hosts : gateway[k] = g /\ ~Erasing(k)
        BY <3>2, <2>1, <2>2 DEF GateInv, GatePlaced
      <4>2. \A k \in Hosts : gateway[k] = g => k # h
        BY <2>1
      <4> QED
        BY <4>1, <4>2, <2>1, <2>3, <2>5
    <3> QED
      BY <3>1, <3>2
  <2>9. GateRows'
    <3>1. job[w].ip \notin gates /\ \A k \in Hosts : gateway[k] = job[w].ip => Erasing(k)
      BY <2>1 DEF GateInv, PoppedFree
    <3> QED
      BY <3>1, <2>1, <2>3, <2>5 DEF GateInv, GateRows
  <2> QED
    BY <2>6, <2>7, <2>8, <2>9 DEF GateInv
<1>4. CASE InsertGateFails(w)
  <2>1. /\ gates' = gates \cup {job[w].ip} /\ gateway' = gateway
        /\ job[w].pc = "insert"
        /\ \A v \in Workers \ {w} : job'[v] = job[v]
        /\ job'[w].pc = "idle"
    BY <1>4 DEF InsertGateFails, TypeInv, JobTypes, Done, Idle
  <2>2. \A v \in Workers \ {w} : job[v].pc # "insert"
    BY <2>1 DEF GateInv, PoppedLocked
  <2>3. \A k \in Hosts : Erasing(k)' <=> Erasing(k)
    BY <2>1
  <2>4. \A k \in Hosts : gateway[k] = job[w].ip => Erasing(k)
    BY <2>1 DEF GateInv, PoppedFree
  <2>5. PoppedLocked' /\ PoppedFree'
    BY <2>1, <2>2 DEF PoppedLocked, PoppedFree
  <2>6. DropsRow'
    BY <2>1 DEF GateInv, DropsRow
  <2>7. GatePlaced'
    BY <2>1, <2>2, <2>3 DEF GateInv, GatePlaced
  <2>8. GateRows'
    BY <2>1, <2>3, <2>4 DEF GateInv, GateRows
  <2> QED
    BY <2>5, <2>6, <2>7, <2>8 DEF GateInv
<1>5. CASE PushGate(w)
  <2> DEFINE h == job[w].host
  <2>1. /\ gates' = gates \cup {job[w].ip} /\ gateway' = gateway /\ gateLock = None
        /\ job[w].pc = "push" /\ h \in Hosts
        /\ \A v \in Workers \ {w} : job'[v] = job[v]
        /\ job'[w].pc = "erase" /\ job'[w].host = h /\ job'[w].ip = job[w].ip
    BY <1>0, <1>5 DEF PushGate, TypeInv, JobTypes, JobType, Held, GatePlaces, Goto
  <2>2. \A v \in Workers : job[v].pc # "insert"
    BY <2>1 DEF GateInv, PoppedLocked
  <2>3. \A k \in Hosts : Erasing(k)' <=> Erasing(k) \/ k = h
    BY <2>1
  <2>4. gateway[h] = job[w].ip /\ ~Erasing(h)
    BY <2>1 DEF GateInv, DropsRow
  <2>5. PoppedLocked' /\ PoppedFree'
    BY <2>1, <2>2 DEF PoppedLocked, PoppedFree
  <2>6. DropsRow'
    BY <2>1 DEF GateInv, DropsRow
  <2>7. GatePlaced'
    BY <2>1, <2>2, <2>3, <2>4 DEF GateInv, GatePlaced
  <2>8. GateRows'
    BY <2>1, <2>3, <2>4 DEF GateInv, GateRows
  <2> QED
    BY <2>5, <2>6, <2>7, <2>8 DEF GateInv
<1>6. CASE EraseGate(w)
  <2> DEFINE h == job[w].host
  <2>1. /\ gates' = gates /\ gateway' = [gateway EXCEPT ![h] = None] /\ gateLock' = gateLock
        /\ job[w].pc = "erase" /\ h \in Hosts
        /\ \A v \in Workers \ {w} : job'[v] = job[v]
        /\ job'[w].pc = "idle"
    BY <1>0, <1>6 DEF EraseGate, TypeInv, JobTypes, JobType, Held, GatePlaces, Done, Idle
  <2>2. /\ gateway'[h] = None
        /\ \A k \in Hosts \ {h} : gateway'[k] = gateway[k] /\ (Erasing(k)' <=> Erasing(k))
    BY <2>1, <1>0
  <2>3. Erasing(h)
    BY <2>1
  <2>4. PoppedLocked'
    BY <2>1 DEF GateInv, PoppedLocked
  <2>5. PoppedFree'
    <3>1. \A v \in Workers : At(v, "insert")' =>
             At(v, "insert") /\ job'[v] = job[v] /\ job[v].ip \in Gates
      BY <2>1, <1>0 DEF Held
    <3>2. None \notin Gates
      OBVIOUS
    <3> QED
      BY <3>1, <3>2, <2>1, <2>2 DEF GateInv, PoppedFree
  <2>6. DropsRow'
    <3>1. \A v \in Workers : Dropping(v)' =>
             Dropping(v) /\ job'[v] = job[v] /\ v # w /\ job[v].host \in Hosts
      BY <2>1, <1>0 DEF Held, GatePlaces
    <3>2. \A v \in Workers : Dropping(v)' => job[v].host # h
      BY <3>1, <2>1 DEF GateInv, DropsRow
    <3> QED
      BY <3>1, <3>2, <2>2 DEF GateInv, DropsRow
  <2>7. GatePlaced'
    BY <2>1, <2>2, <2>3 DEF GateInv, GatePlaced
  <2>8. GateRows'
    BY <2>1, <2>2 DEF GateInv, GateRows
  <2> QED
    BY <2>4, <2>5, <2>6, <2>7, <2>8 DEF GateInv
<1> QED
  BY <1>1, <1>2, <1>3, <1>4, <1>5, <1>6 DEF GateStep

LEMMA GateKept == TypeInv /\ TypeInv' /\ GateInv /\ [Next]_vars => GateInv'
<1> SUFFICES ASSUME TypeInv, TypeInv', GateInv, [Next]_vars PROVE GateInv'
  OBVIOUS
<1>1. CASE AddEip \/ DeleteEip \/ (\E c \in Containers : Reset(c)) \/ UNCHANGED vars
  <2>1. UNCHANGED <<job, netVars>>
    BY <1>1 DEF AddEip, DeleteEip, Reset, vars, netVars
  <2> QED
    BY <2>1 DEF netVars, GateInv, PoppedLocked, PoppedFree, DropsRow, GatePlaced, GateRows,
                At, Dropping, Erasing
<1>2. ASSUME NEW w \in Workers, Request(w) PROVE GateInv'
  <2>1. ASSUME NEW h \in Hosts, BeginDrop(w, h) PROVE GateInv'
    <3>1. /\ UNCHANGED netVars
          /\ job[w].pc = "idle" /\ gateway[h] # None
          /\ \A v \in Workers : job[v].host = h => ~Dropping(v)
          /\ \A v \in Workers \ {w} : job'[v] = job[v]
          /\ job'[w].pc = "push" /\ job'[w].host = h /\ job'[w].ip = gateway[h]
      BY <2>1 DEF BeginDrop, Start, At, Dropping, TypeInv, JobTypes
    <3>2. gates' = gates /\ gateway' = gateway /\ gateLock' = gateLock
      BY <3>1 DEF netVars
    <3>3. \A v \in Workers : /\ At(v, "insert")' <=> At(v, "insert")
                             /\ At(v, "insert") => job'[v] = job[v]
      BY <3>1 DEF At
    <3>4. \A k \in Hosts : Erasing(k)' <=> Erasing(k)
      BY <3>1 DEF Erasing, At
    <3>5. DropsRow'
      BY <3>1, <3>2 DEF GateInv, DropsRow, Dropping
    <3>6. PoppedLocked' /\ PoppedFree' /\ GatePlaced' /\ GateRows'
      BY <3>2, <3>3, <3>4 DEF GateInv, PoppedLocked, PoppedFree, GatePlaced, GateRows
    <3> QED
      BY <3>5, <3>6 DEF GateInv
  <2> QED
    BY <1>2, <2>1, RequestElsewhere, GateFrame
<1>3. ASSUME NEW w \in Workers, HostStep(w) PROVE GateInv'
  BY <1>3, HostStepElsewhere, GateFrame
<1>4. ASSUME NEW w \in Workers, ConStep(w) PROVE GateInv'
  BY <1>4, ConStepElsewhere, GateFrame
<1>5. ASSUME NEW w \in Workers, GateStep(w) PROVE GateInv'
  BY <1>5, GateStepKept
<1> QED
  BY <1>1, <1>2, <1>3, <1>4, <1>5 DEF Next

(* No gateway address is lost, and none is the gateway of two hosts but    *)
(* while the first of them is being released: the pool, the rows and the   *)
(* requests on their way account for each (Network.acquire_gateway_ip,     *)
(* release_gateway and VLanGateway.release).                               *)
THEOREM GatesKept == Spec => []GatesConserved
<1>1. GateInv => GatesConserved
  BY DEF GateInv, GatePlaced, GateRows, GatesConserved
<1> QED
  BY <1>1, TypeInit, TypeStep, GateInit, GateKept, PTL DEF Spec

-----------------------------------------------------------------------------
(* Elastic IPs: the invariant behind EipsConserved.                        *)

Busy(w) == job[w].pc \in HostPlaces

\* Requests about one host follow one another ...
OneRequest ==
    \A v, w \in Workers : Busy(v) /\ Busy(w) /\ job[v].host = job[w].host => v = w

\* ... so that the list they have read is still the list they replace.
ListsKnown ==
    \A w \in Workers :
        /\ At(w, "store") => job[w].rest = eips[job[w].host]
        /\ job[w].pc \in {"other", "unconfigure"} => job[w].todo = eips[job[w].host]
        /\ job[w].pc \in {"unconfigure", "free"} => job[w].rest = {}
        /\ At(w, "free") => job[w].todo \subseteq eips[job[w].host]

HandsApart ==
    \A w \in Workers, e \in Eips : InHand(w, e) =>
        e \notin pool /\ \A v \in Workers \ {w} : ~InHand(v, e)

\* A list that is being given back does not count: the address is elsewhere.
EipPlaced ==
    \A e \in Eips \ {NewEip} :
        \/ e \in pool
        \/ \E w \in Workers : InHand(w, e)
        \/ \E h \in Hosts : e \in eips[h] /\ ~Giving(h, e)

EipRows ==
    \A h \in Hosts, e \in Eips : e \in eips[h] =>
        \/ Giving(h, e)
        \/ /\ e \notin pool
           /\ \A w \in Workers : ~InHand(w, e)
           /\ \A k \in Hosts \ {h} : e \in eips[k] => Giving(k, e)

EipInv == OneRequest /\ ListsKnown /\ HandsApart /\ EipPlaced /\ EipRows

LEMMA EipInit == Init => EipInv
  BY DEF Init, EipInv, OneRequest, ListsKnown, HandsApart, EipPlaced, EipRows, Busy, InHand,
         Giving, At, Idle, HostPlaces

\* A step of w that is not of a request about the elastic IPs of a host.
Besides(w) ==
    /\ ~Busy(w) /\ ~Busy(w)'
    /\ \A v \in Workers \ {w} : job'[v] = job[v]

LEMMA EipFrame ==
  ASSUME EipInv, UNCHANGED hostVars, NEW w \in Workers, Besides(w)
  PROVE  EipInv'
<1>1. \A v \in Workers : (Busy(v)' <=> Busy(v)) /\ (Busy(v) => job'[v] = job[v])
  BY DEF Besides, Busy
<1>2. pool' = pool /\ eips' = eips
  BY DEF hostVars
<1>3. \A v \in Workers : job[v].pc \in HostPlaces <=> Busy(v)
  BY DEF Busy
<1>4. \A v \in Workers : job'[v].pc \in HostPlaces <=> Busy(v)
  BY <1>1 DEF Busy
<1>5. \A v \in Workers, e \in Eips : InHand(v, e)' <=> InHand(v, e)
  BY <1>1, <1>3, <1>4 DEF InHand, HostPlaces
<1>6. \A h \in Hosts, e \in Eips : Giving(h, e)' <=> Giving(h, e)
  BY <1>1, <1>3, <1>4 DEF Giving, At, HostPlaces
<1>7. OneRequest' /\ ListsKnown'
  BY <1>1, <1>2, <1>3, <1>4 DEF EipInv, OneRequest, ListsKnown, At, HostPlaces
<1> QED
  BY <1>2, <1>5, <1>6, <1>7 DEF EipInv, HandsApart, EipPlaced, EipRows

LEMMA RequestBesides ==
  ASSUME TypeInv, NEW w \in Workers, Request(w)
  PROVE  \/ \E h \in Hosts : BeginRelease(w, h) \/ \E e \in Eips : TakeEip(w, h, e)
         \/ UNCHANGED hostVars /\ Besides(w)
<1> USE DEF TypeInv, JobTypes, JobType, At, Start, Idle, Besides, Busy, HostPlaces
<1>1. ASSUME NEW h \in Hosts, BeginGateway(w, h) \/ BeginDrop(w, h)
      PROVE  UNCHANGED hostVars /\ Besides(w)
  BY <1>1 DEF BeginGateway, BeginDrop
<1>2. ASSUME NEW c \in Containers, BeginUnbind(w, c) \/ BeginDelete(w, c)
      PROVE  UNCHANGED hostVars /\ Besides(w)
  BY <1>2 DEF BeginUnbind, BeginDelete
<1>3. ASSUME NEW c \in Containers, NEW e \in Eips, PickEip(w, c, e)
      PROVE  UNCHANGED hostVars /\ Besides(w)
  BY <1>3 DEF PickEip
<1> QED
  BY <1>1, <1>2, <1>3 DEF Request

LEMMA ConStepBesides ==
  ASSUME TypeInv, NEW w \in Workers, ConStep(w)
  PROVE  UNCHANGED hostVars /\ Besides(w)
<1> USE DEF TypeInv, JobTypes, JobType, At, Goto, Done, Idle, Besides, Busy, HostPlaces
<1>1. CASE Publish(w) \/ Own(w) \/ MarkBound(w)
  BY <1>1 DEF Publish, Own, MarkBound
<1>2. CASE Unpublish(w) \/ Unmark(w)
  BY <1>2 DEF Unpublish, Unmark
<1>3. CASE Disown(w) \/ Forget(w)
  BY <1>3 DEF Disown, Forget
<1> QED
  BY <1>1, <1>2, <1>3 DEF ConStep

LEMMA GateStepBesides ==
  ASSUME TypeInv, NEW w \in Workers, GateStep(w)
  PROVE  UNCHANGED hostVars /\ Besides(w)
<1> USE DEF TypeInv, JobTypes, JobType, At, Goto, Done, Idle, Besides, Busy, HostPlaces
<1>1. ASSUME NEW g \in Gates, PopGate(w, g)
      PROVE  UNCHANGED hostVars /\ Besides(w)
  BY <1>1 DEF PopGate
<1>2. CASE PopNoGate(w) \/ InsertGate(w) \/ InsertGateFails(w)
  BY <1>2 DEF PopNoGate, InsertGate, InsertGateFails
<1>3. CASE PushGate(w) \/ EraseGate(w)
  BY <1>3 DEF PushGate, EraseGate
<1> QED
  BY <1>1, <1>2, <1>3 DEF GateStep

\* Where no request about a host is under way when another one begins.
LEMMA QuietHost ==
  ASSUME ~Overlapping, TypeInv, NEW h \in Hosts, Quiet(h), NEW v \in Workers, Busy(v)
  PROVE  job[v].host # h
  BY DEF TypeInv, JobTypes, Held, Quiet, OnHost, Busy, HostPlaces, GatePlaces

LEMMA EipRequestKept ==
  ASSUME ~Overlapping, TypeInv, EipInv, NEW w \in Workers, NEW h \in Hosts,
         BeginRelease(w, h) \/ \E e \in Eips : TakeEip(w, h, e)
  PROVE  EipInv'
<1> USE DEF At, InHand, Giving
<1>0. /\ \A v \in Workers : job[v] \in JobType /\ Held(job[v])
      /\ eips \in [Hosts -> SUBSET Eips] /\ pool \subseteq Eips
  BY DEF TypeInv, TableTypes, JobTypes
<1>1. /\ job[w].pc = "idle" /\ eips' = eips
      /\ Busy(w)' /\ job'[w].host = h
      /\ \A v \in Workers \ {w} : job'[v] = job[v]
      /\ \A v \in Workers : Busy(v) => job[v].host # h
  <2>1. Quiet(h)
    BY DEF BeginRelease, TakeEip
  <2>2. CASE BeginRelease(w, h)
    BY <1>0, <2>1, <2>2, QuietHost
       DEF BeginRelease, TypeInv, JobTypes, JobType, Idle, Busy, HostPlaces, hostVars
  <2>3. ASSUME NEW e \in Eips, TakeEip(w, h, e)
        PROVE  /\ job[w].pc = "idle" /\ eips' = eips
               /\ Busy(w)' /\ job'[w].host = h
               /\ \A v \in Workers \ {w} : job'[v] = job[v]
               /\ \A v \in Workers : Busy(v) => job[v].host # h
    BY <1>0, <2>1, <2>3, QuietHost
       DEF TakeEip, Start, TypeInv, JobTypes, Busy, HostPlaces
  <2> QED
    BY <2>2, <2>3
<1>2. OneRequest'
  BY <1>1 DEF EipInv, OneRequest, Busy
<1>3. CASE BeginRelease(w, h)
  <2>1. pool' = pool /\ job'[w].pc = "other" /\ job'[w].todo = eips[h]
    BY <1>0, <1>3 DEF BeginRelease, TypeInv, JobTypes, JobType, Idle, hostVars
  <2>2. \A k \in Hosts, x \in Eips : Giving(k, x)' <=> Giving(k, x)
    BY <1>1, <2>1
  <2>3. \A v \in Workers, x \in Eips : InHand(v, x)' <=> InHand(v, x)
    BY <1>1, <2>1
  <2>4. ListsKnown'
    BY <1>1, <2>1 DEF EipInv, ListsKnown
  <2> QED
    BY <1>1, <1>2, <2>1, <2>2, <2>3, <2>4 DEF EipInv, HandsApart, EipPlaced, EipRows
<1>4. ASSUME NEW e \in Eips, TakeEip(w, h, e) PROVE EipInv'
  <2>1. /\ e \in pool /\ pool' = pool \ {e} /\ job'[w].pc = "configure" /\ job'[w].ip = e
    BY <1>0, <1>4 DEF TakeEip, Start, TypeInv, JobTypes
  <2>2. \A k \in Hosts, x \in Eips : Giving(k, x)' <=> Giving(k, x)
    BY <1>1, <2>1
  <2>3. \A v \in Workers, x \in Eips : InHand(v, x)' <=> InHand(v, x) \/ (v = w /\ x = e)
    BY <1>1, <2>1
  <2>4. \A v \in Workers : ~InHand(v, e)
    BY <2>1 DEF EipInv, HandsApart
  <2>5. ListsKnown'
    BY <1>1, <2>1 DEF EipInv, ListsKnown
  <2>6. HandsApart'
    BY <2>1, <2>3, <2>4 DEF EipInv, HandsApart
  <2>7. EipPlaced'
    BY <1>1, <2>1, <2>2, <2>3 DEF EipInv, EipPlaced
  <2>8. EipRows'
    BY <1>1, <2>1, <2>2, <2>3 DEF EipInv, EipRows
  <2> QED
    BY <1>2, <2>5, <2>6, <2>7, <2>8 DEF EipInv
<1> QED
  BY <1>3, <1>4

LEMMA HostStepKept ==
  ASSUME TypeInv, EipInv, NEW w \in Workers, HostStep(w)
  PROVE  EipInv'
<1> USE DEF At, InHand, Giving
<1>h. PICK h : h = job[w].host
  OBVIOUS
<1>0. /\ \A v \in Workers : job[v] \in JobType /\ Held(job[v])
      /\ job \in [Workers -> JobType]
      /\ eips \in [Hosts -> SUBSET Eips] /\ pool \subseteq Eips
  BY DEF TypeInv, TableTypes, JobTypes
<1>1. /\ Busy(w) /\ h \in Hosts
      /\ Busy(w)' => job'[w].host = h
      /\ \A v \in Workers \ {w} : job'[v] = job[v]
  <2> USE DEF Busy, HostPlaces, Goto, Done, Idle, JobType
  <2>1. Busy(w)
    BY DEF HostStep, Configure, ConfigureFails, ReadList, StoreList, ReadRest, Unconfigure,
           UnconfigureFails, FreeEip, StoreRest
  <2>2. h \in Hosts
    BY <1>h, <1>0, <2>1 DEF Held
  <2>3. CASE Configure(w) \/ ConfigureFails(w) \/ StoreList(w) \/ Unconfigure(w)
               \/ UnconfigureFails(w) \/ StoreRest(w)
    BY <1>h, <1>0, <2>1, <2>2, <2>3
       DEF Configure, ConfigureFails, StoreList, Unconfigure, UnconfigureFails, StoreRest
  <2>4. CASE ReadList(w)
    BY <1>h, <1>0, <2>1, <2>2, <2>4 DEF ReadList
  <2>5. CASE ReadRest(w)
    BY <1>h, <1>0, <2>1, <2>2, <2>5 DEF ReadRest
  <2>6. ASSUME NEW e \in Eips, FreeEip(w, e)
        PROVE  (Busy(w)' => job'[w].host = h) /\ \A v \in Workers \ {w} : job'[v] = job[v]
    BY <1>h, <1>0, <2>1, <2>2, <2>6 DEF FreeEip
  <2> QED
    BY <2>1, <2>2, <2>3, <2>4, <2>5, <2>6 DEF HostStep
<1>2. OneRequest'
  BY <1>h, <1>1 DEF EipInv, OneRequest, Busy
<1>3. \A v \in Workers \ {w} : Busy(v) => job[v].host # h
  BY <1>h, <1>1 DEF EipInv, OneRequest
<1>4. \A v \in Workers \ {w}, x \in Eips : InHand(v, x)' <=> InHand(v, x)
  BY <1>1
<1>5. ASSUME UNCHANGED hostVars, job[w].pc # "free", job'[w].pc # "free",
             \A x \in Eips : InHand(w, x)' <=> InHand(w, x), ListsKnown'
      PROVE  EipInv'
  <2>1. \A k \in Hosts, x \in Eips : Giving(k, x)' <=> Giving(k, x)
    BY <1>1, <1>5
  <2>2. \A v \in Workers, x \in Eips : InHand(v, x)' <=> InHand(v, x)
    BY <1>4, <1>5
  <2>3. pool' = pool /\ eips' = eips
    BY <1>5 DEF hostVars
  <2> QED
    BY <1>2, <1>5, <2>1, <2>2, <2>3 DEF EipInv, HandsApart, EipPlaced, EipRows
<1>6. CASE Configure(w)
  <2>1. UNCHANGED hostVars /\ job[w].pc = "configure" /\ job'[w].pc = "list" /\ job'[w].ip = job[w].ip
    BY <1>h, <1>0, <1>6 DEF Configure, Goto, JobType
  <2>2. ListsKnown'
    BY <1>h, <1>1, <2>1 DEF EipInv, ListsKnown, hostVars
  <2> QED
    BY <1>5, <2>1, <2>2
<1>7. CASE ReadList(w)
  <2>1. /\ UNCHANGED hostVars /\ job[w].pc = "list" /\ job'[w].pc = "store"
        /\ job'[w].ip = job[w].ip /\ job'[w].rest = eips[h] /\ job'[w].host = h
    BY <1>h, <1>0, <1>7 DEF ReadList, JobType
  <2>2. ListsKnown'
    BY <1>h, <1>1, <2>1 DEF EipInv, ListsKnown, hostVars
  <2> QED
    BY <1>5, <2>1, <2>2
<1>8. CASE ReadRest(w)
  <2>1. /\ UNCHANGED hostVars /\ job[w].pc = "other" /\ job'[w].pc = "unconfigure"
        /\ job'[w].todo = job[w].todo /\ job'[w].rest = eips[h] \ job[w].todo
        /\ job'[w].host = h
    BY <1>h, <1>0, <1>8 DEF ReadRest, JobType
  <2>2. job[w].todo = eips[h]
    BY <1>h, <2>1 DEF EipInv, ListsKnown
  <2>3. ListsKnown'
    BY <1>h, <1>1, <2>1, <2>2 DEF EipInv, ListsKnown, hostVars
  <2> QED
    BY <1>5, <2>1, <2>3
<1>9. CASE UnconfigureFails(w)
  <2>1. UNCHANGED hostVars /\ job[w].pc = "unconfigure" /\ job'[w].pc = "idle"
    BY <1>h, <1>0, <1>9 DEF UnconfigureFails, Done, Idle
  <2>2. ListsKnown'
    BY <1>h, <1>1, <2>1 DEF EipInv, ListsKnown, hostVars
  <2> QED
    BY <1>5, <2>1, <2>2
<1>10. CASE ConfigureFails(w)
  <2>e. PICK e : e = job[w].ip
    OBVIOUS
  <2>1. /\ pool' = pool \cup {e} /\ eips' = eips /\ job[w].pc = "configure"
        /\ job'[w].pc = "idle" /\ e \in Eips
    BY <1>h, <2>e, <1>0, <1>10 DEF ConfigureFails, Done, Idle, Held
  <2>2. \A k \in Hosts, x \in Eips : Giving(k, x)' <=> Giving(k, x)
    BY <1>1, <2>1
  <2>3. InHand(w, e) /\ \A x \in Eips : ~InHand(w, x)' /\ (x # e => ~InHand(w, x))
    BY <2>e, <2>1
  <2>4. ListsKnown'
    BY <1>h, <1>1, <2>1 DEF EipInv, ListsKnown
  <2>5. HandsApart'
    BY <1>4, <2>1, <2>3 DEF EipInv, HandsApart
  <2>6. EipPlaced'
    BY <1>4, <2>1, <2>2, <2>3 DEF EipInv, EipPlaced
  <2>7. EipRows'
    BY <1>4, <2>1, <2>2, <2>3 DEF EipInv, EipRows
  <2> QED
    BY <1>2, <2>4, <2>5, <2>6, <2>7 DEF EipInv
<1>11. CASE StoreList(w)
  <2>e. PICK e : e = job[w].ip
    OBVIOUS
  <2>1. /\ pool' = pool /\ job[w].pc = "store" /\ job'[w].pc = "idle" /\ e \in Eips
        /\ eips' = [eips EXCEPT ![h] = job[w].rest \cup {e}]
    BY <1>h, <2>e, <1>0, <1>11 DEF StoreList, Done, Idle, Held
  <2>2. /\ eips'[h] = eips[h] \cup {e}
        /\ \A k \in Hosts \ {h} : eips'[k] = eips[k]
    BY <1>h, <2>e, <1>0, <1>1, <2>1 DEF EipInv, ListsKnown
  <2>3. \A k \in Hosts, x \in Eips : Giving(k, x)' <=> Giving(k, x)
    BY <1>1, <2>1
  <2>4. \A x \in Eips : ~Giving(h, x)
    BY <1>3, <2>1 DEF Busy, HostPlaces
  <2>5. InHand(w, e) /\ \A x \in Eips : ~InHand(w, x)' /\ (x # e => ~InHand(w, x))
    BY <2>e, <2>1
  <2>6. /\ e \notin pool /\ \A v \in Workers : ~InHand(v, e)'
        /\ \A k \in Hosts : e \in eips[k] => Giving(k, e)
    <3> HIDE DEF InHand, Giving
    <3>1. e \in Eips
      BY <2>1
    <3>2. e \notin pool /\ \A v \in Workers \ {w} : ~InHand(v, e)
      BY <2>5, <3>1 DEF EipInv, HandsApart
    <3> QED
      BY <1>4, <2>5, <3>1, <3>2 DEF EipInv, EipRows
  <2>7. ListsKnown'
    <3>1. \A v \in Workers \ {w} : Busy(v) => job[v].host \in Hosts \ {h}
      BY <1>h, <2>e, <1>0, <1>3 DEF Held, Busy
    <3>2. \A v \in Workers \ {w} : Busy(v) => eips'[job[v].host] = eips[job[v].host]
      BY <2>2, <3>1
    <3>3. \A v \in Workers : Busy(v)' => v # w
      BY <2>1 DEF Busy, HostPlaces
    <3>4. \A v \in Workers : Busy(v)' =>
             job'[v] = job[v] /\ Busy(v) /\ eips'[job[v].host] = eips[job[v].host]
      BY <1>1, <3>2, <3>3 DEF Busy
    <3>5. \A v \in Workers : job'[v].pc \in {"store", "other", "unconfigure", "free"} => Busy(v)'
      BY DEF Busy, HostPlaces
    <3> QED
      BY <3>4, <3>5 DEF EipInv, ListsKnown
  <2>8. HandsApart'
    BY <1>4, <2>1, <2>5 DEF EipInv, HandsApart
  <2>9. EipPlaced'
    <3> SUFFICES ASSUME NEW x \in Eips \ {NewEip}
                 PROVE  \/ x \in pool'
                        \/ \E v \in Workers : InHand(v, x)'
                        \/ \E k \in Hosts : x \in eips'[k] /\ ~Giving(k, x)'
      BY DEF EipPlaced
    <3>1. CASE x = e
      BY <1>1, <2>2, <2>3, <2>4, <3>1
    <3>2. CASE x # e
      BY <1>4, <2>1, <2>2, <2>3, <2>5, <3>2 DEF EipInv, EipPlaced
    <3> QED
      BY <3>1, <3>2
  <2>10. EipRows'
    <3> SUFFICES ASSUME NEW k \in Hosts, NEW x \in Eips, x \in eips'[k], ~Giving(k, x)'
                 PROVE  /\ x \notin pool'
                        /\ \A v \in Workers : ~InHand(v, x)'
                        /\ \A l \in Hosts \ {k} : x \in eips'[l] => Giving(l, x)'
      BY DEF EipRows
    <3>1. CASE x = e
      <4>1. k = h
        BY <2>2, <2>3, <2>6, <3>1
      <4> HIDE DEF InHand, Giving
      <4>2. \A l \in Hosts \ {k} : x \in eips'[l] => Giving(l, x)'
        BY <2>2, <2>3, <2>6, <3>1, <4>1
      <4> QED
        BY <2>1, <2>6, <3>1, <4>2
    <3>2. CASE x # e
      <4>1. x \in eips[k] /\ ~Giving(k, x) /\ \A l \in Hosts : x \in eips'[l] => x \in eips[l]
        BY <2>2, <2>3, <3>2
      <4> QED
        BY <1>4, <2>1, <2>3, <2>5, <4>1 DEF EipInv, EipRows
    <3> QED
      BY <3>1, <3>2
  <2> QED
    BY <1>2, <2>7, <2>8, <2>9, <2>10 DEF EipInv
<1>12. CASE Unconfigure(w)
  <2>1. /\ UNCHANGED hostVars /\ job[w].pc = "unconfigure" /\ job'[w].pc = "free"
        /\ job'[w].todo = job[w].todo /\ job'[w].rest = job[w].rest /\ job'[w].host = h
        /\ job[w].todo = eips[h] /\ job[w].rest = {}
    BY <1>h, <1>0, <1>12 DEF Unconfigure, Goto, JobType, EipInv, ListsKnown
  <2>2. pool' = pool /\ eips' = eips
    BY <2>1 DEF hostVars
  <2>3. \A k \in Hosts, x \in Eips : x \in eips[k] => (Giving(k, x)' <=> Giving(k, x))
    BY <1>1, <2>1
  <2>4. \A v \in Workers, x \in Eips : InHand(v, x)' <=> InHand(v, x)
    BY <1>4, <2>1
  <2>5. ListsKnown'
    BY <1>h, <1>1, <2>1, <2>2 DEF EipInv, ListsKnown
  <2> QED
    BY <1>2, <2>2, <2>3, <2>4, <2>5 DEF EipInv, HandsApart, EipPlaced, EipRows
<1>13. ASSUME NEW e \in Eips, FreeEip(w, e) PROVE EipInv'
  <2>1. /\ pool' = pool \cup {e} /\ eips' = eips /\ job[w].pc = "free" /\ job'[w].pc = "free"
        /\ e \in job[w].todo /\ job'[w].todo = job[w].todo \ {e}
        /\ job'[w].rest = job[w].rest /\ job'[w].host = h
    BY <1>h, <1>0, <1>13 DEF FreeEip, JobType
  <2>2. e \in eips[h] /\ ~Giving(h, e)
    BY <1>h, <1>3, <2>1 DEF EipInv, ListsKnown, Busy, HostPlaces
  <2>3. \A k \in Hosts, x \in Eips : Giving(k, x)' <=> Giving(k, x) \/ (k = h /\ x = e)
    BY <1>h, <1>1, <2>1
  <2>4. \A v \in Workers, x \in Eips : InHand(v, x)' <=> InHand(v, x)
    BY <1>4, <2>1
  <2>5. /\ \A v \in Workers : ~InHand(v, e)
        /\ \A k \in Hosts \ {h} : e \in eips[k] => Giving(k, e)
    BY <1>1, <2>2 DEF EipInv, EipRows
  <2>6. ListsKnown'
    BY <1>h, <1>1, <2>1 DEF EipInv, ListsKnown
  <2>7. HandsApart'
    BY <2>1, <2>4, <2>5 DEF EipInv, HandsApart
  <2>8. EipPlaced'
    BY <2>1, <2>3, <2>4 DEF EipInv, EipPlaced
  <2>9. EipRows'
    BY <2>1, <2>3, <2>4, <2>5 DEF EipInv, EipRows
  <2> QED
    BY <1>2, <2>6, <2>7, <2>8, <2>9 DEF EipInv
<1>14. CASE StoreRest(w)
  <2>1. /\ pool' = pool /\ job[w].pc = "free" /\ job[w].todo = {} /\ job'[w].pc = "idle"
        /\ eips' = [eips EXCEPT ![h] = {}]
    BY <1>h, <1>0, <1>14 DEF StoreRest, Done, Idle, EipInv, ListsKnown
  <2>2. eips'[h] = {} /\ \A k \in Hosts \ {h} : eips'[k] = eips[k]
    BY <1>h, <1>0, <1>1, <2>1
  <2>3. \A k \in Hosts \ {h}, x \in Eips : Giving(k, x)' <=> Giving(k, x)
    BY <1>h, <1>1, <2>1
  <2>4. \A x \in Eips : Giving(h, x)
    BY <1>h, <1>1, <2>1
  <2>5. \A v \in Workers, x \in Eips : InHand(v, x)' <=> InHand(v, x)
    BY <1>4, <2>1
  <2>6. ListsKnown'
    <3>1. \A v \in Workers \ {w} : Busy(v) => job[v].host \in Hosts \ {h}
      BY <1>h, <1>0, <1>3 DEF Held, Busy
    <3>2. \A v \in Workers \ {w} : Busy(v) => eips'[job[v].host] = eips[job[v].host]
      BY <2>2, <3>1
    <3> QED
      BY <1>h, <1>1, <2>1, <3>2 DEF EipInv, ListsKnown, Busy, HostPlaces
  <2>7. HandsApart'
    BY <2>1, <2>5 DEF EipInv, HandsApart
  <2>8. EipPlaced'
    BY <2>1, <2>2, <2>3, <2>4, <2>5 DEF EipInv, EipPlaced
  <2>9. EipRows'
    BY <2>1, <2>2, <2>3, <2>5 DEF EipInv, EipRows
  <2> QED
    BY <1>2, <2>6, <2>7, <2>8, <2>9 DEF EipInv
<1> QED
  BY <1>6, <1>7, <1>8, <1>9, <1>10, <1>11, <1>12, <1>13, <1>14 DEF HostStep

LEMMA EipKept ==
  ASSUME ~Overlapping
  PROVE  TypeInv /\ EipInv /\ [Next]_vars => EipInv'
<1> SUFFICES ASSUME TypeInv, EipInv, [Next]_vars PROVE EipInv'
  OBVIOUS
<1>1. CASE AddEip
  <2>1. /\ pool' = pool \cup {NewEip} /\ eips' = eips /\ job' = job
        /\ \A h \in Hosts : NewEip \notin eips[h]
        /\ \A w \in Workers : ~InHand(w, NewEip)
    BY <1>1 DEF AddEip, InHand
  <2> QED
    BY <2>1 DEF EipInv, OneRequest, ListsKnown, HandsApart, EipPlaced, EipRows, Busy, InHand,
                Giving, At
<1>2. CASE DeleteEip
  BY <1>2 DEF DeleteEip, EipInv, OneRequest, ListsKnown, HandsApart, EipPlaced, EipRows, Busy,
              InHand, Giving, At
<1>3. CASE (\E c \in Containers : Reset(c)) \/ UNCHANGED vars
  BY <1>3 DEF Reset, vars, hostVars, EipInv, OneRequest, ListsKnown, HandsApart, EipPlaced, EipRows,
              Busy, InHand, Giving, At
<1>4. ASSUME NEW w \in Workers, Request(w) PROVE EipInv'
  BY <1>4, RequestBesides, EipRequestKept, EipFrame
<1>5. ASSUME NEW w \in Workers, HostStep(w) PROVE EipInv'
  BY <1>5, HostStepKept
<1>6. ASSUME NEW w \in Workers, ConStep(w) PROVE EipInv'
  BY <1>6, ConStepBesides, EipFrame
<1>7. ASSUME NEW w \in Workers, GateStep(w) PROVE EipInv'
  BY <1>7, GateStepBesides, EipFrame
<1> QED
  BY <1>1, <1>2, <1>3, <1>4, <1>5, <1>6, <1>7 DEF Next

(* No elastic IP is lost, and none belongs to two hosts or to a host and   *)
(* the pool but while the first is giving it back, if requests about one   *)
(* host follow one another (Host.bind_eip and release_eip).                *)
THEOREM EipsKept ==
  ASSUME ~Overlapping
  PROVE  Spec => []EipsConserved
<1>1. TypeInv /\ EipInv => EipsConserved
  <2> SUFFICES ASSUME EipInv, NEW e \in Eips
               PROVE  \/ e \in pool \cup (UNION {eips[h] : h \in Hosts}) \cup {NewEip}
                      \/ \E w \in Workers : InHand(w, e)
    BY DEF EipInv, HandsApart, EipRows, EipsConserved
  <2>1. \/ e \in pool \cup {NewEip} \/ \E w \in Workers : InHand(w, e)
        \/ \E h \in Hosts : e \in eips[h]
    BY DEF EipInv, EipPlaced
  <2>2. ASSUME NEW h \in Hosts, e \in eips[h]
        PROVE  e \in UNION {eips[k] : k \in Hosts}
    BY <2>2, Zenon
  <2>3. CASE \E h \in Hosts : e \in eips[h]
    BY <2>2, <2>3
  <2> QED
    BY <2>1, <2>3
<1> QED
  BY <1>1, TypeInit, TypeStep, EipInit, EipKept, PTL DEF Spec

-----------------------------------------------------------------------------
(* Elastic IPs of containers: the invariant behind OneOwner and MarksAgree. *)

Binding(w) == job[w].pc \in {"publish", "own", "mark"}

OneJobPerCon ==
    \A v, w \in Workers : job[v].con = job[w].con /\ job[v].con # None => v = w

\* What is being bound is of the container's host and nobody else's, except of
\* those who have only to forget it.
Bindings ==
    \A w \in Workers : Binding(w) =>
        /\ state[job[w].con] = "alive"
        /\ job[w].ip \in eips[HostOf[job[w].con]]
        /\ mark[job[w].ip] = None
        /\ ~At(w, "mark") => eip[job[w].con] = None
        /\ At(w, "mark") => \/ eip[job[w].con] = job[w].ip
                            \/ eip[job[w].con] = None /\ job[w].con \in wiped
        /\ \A d \in Containers \ {job[w].con} : eip[d] = job[w].ip =>
              \E v \in Workers : At(v, "disown") /\ job[v].con = d

BindsAlone ==
    \A v \in Workers : Binding(v) =>
        /\ \A w \in Workers : Busy(w) => job[w].host # HostOf[job[v].con]
        /\ \A w \in Workers \ {v} : Binding(w) =>
              HostOf[job[w].con] # HostOf[job[v].con] /\ job[w].ip # job[v].ip

Unbindings ==
    \A w \in Workers :
        /\ job[w].pc \in {"unpublish", "unmark", "disown"} =>
              (job[w].ip = None <=> state[job[w].con] = "deleting")
        /\ At(w, "disown") /\ eip[job[w].con] # None => mark[eip[job[w].con]] # job[w].con
        /\ At(w, "forget") => eip[job[w].con] = None /\ state[job[w].con] = "deleting"

Marked == \A e \in Eips, c \in Containers : mark[e] = c => eip[c] = e \/ c \in wiped

Owned ==
    \A c \in Containers : eip[c] # None =>
        \/ mark[eip[c]] = c
        \/ \E w \in Workers : job[w].con = c /\ job[w].pc \in {"mark", "disown"}

Deletions ==
    \A c \in Containers :
        /\ state[c] = "deleted" => eip[c] = None
        /\ state[c] = "deleting" => \E w \in Workers : job[w].con = c

ConInv ==
    OneJobPerCon /\ Bindings /\ BindsAlone /\ Unbindings /\ Marked /\ Owned /\ Deletions

LEMMA ConInit == Init => ConInv
  BY HostNetAssumption
     DEF Init, ConInv, OneJobPerCon, Bindings, BindsAlone, Unbindings, Marked, Owned, Deletions,
         Binding, Busy, HostPlaces, At, Idle

\* A step of w that touches no container, no key and no list.
LEMMA ConFrame ==
  ASSUME ConInv, UNCHANGED <<conVars, eips>>, NEW w \in Workers,
         job[w].con = None, job'[w].con = None,
         job[w].pc \notin ConPlaces, job'[w].pc \notin ConPlaces,
         \A v \in Workers \ {w} : job'[v] = job[v],
         Busy(w)' => \/ Busy(w) /\ job'[w].host = job[w].host
                    \/ \A v \in Workers : Binding(v) => job'[w].host # HostOf[job[v].con]
  PROVE  ConInv'
<1> USE DEF ConPlaces
<1>1. mark' = mark /\ eip' = eip /\ state' = state /\ eips' = eips /\ wiped' = wiped
  BY DEF conVars
<1>2. \A v \in Workers : /\ job'[v].con = job[v].con
                         /\ Binding(v)' <=> Binding(v)
                         /\ job[v].pc \in ConPlaces => job'[v] = job[v]
                         /\ job'[v].pc \in ConPlaces => job'[v] = job[v]
  BY DEF Binding
<1>3. OneJobPerCon'
  BY <1>2 DEF ConInv, OneJobPerCon
<1>4. \A v \in Workers : (At(v, "disown")' <=> At(v, "disown")) /\ (At(v, "mark")' <=> At(v, "mark"))
  BY <1>2 DEF At
<1>5. Bindings'
  BY <1>1, <1>2, <1>4 DEF ConInv, Bindings, Binding
<1>6. BindsAlone'
  <2>1. \A v \in Workers : Busy(v)' => \/ Busy(v) /\ job'[v].host = job[v].host
                  \/ \A u \in Workers : Binding(u) => job'[v].host # HostOf[job[u].con]
    BY DEF Busy
  <2>2. \A v \in Workers : Binding(v) => job'[v] = job[v]
    BY <1>2 DEF Binding
  <2> QED
    BY <1>2, <2>1, <2>2 DEF ConInv, BindsAlone
<1>7. Unbindings'
  BY <1>1, <1>2 DEF ConInv, Unbindings, At
<1>8. Marked'
  BY <1>1 DEF ConInv, Marked
<1>9. Owned'
  BY <1>1, <1>2 DEF ConInv, Owned
<1>10. Deletions'
  BY <1>1, <1>2 DEF ConInv, Deletions
<1> QED
  BY <1>3, <1>5, <1>6, <1>7, <1>8, <1>9, <1>10 DEF ConInv

LEMMA ConStepKept ==
  ASSUME TypeInv, ConInv, NEW w \in Workers, ConStep(w)
  PROVE  ConInv'
<1>c. PICK c : c = job[w].con
  OBVIOUS
<1>e. PICK e : e = job[w].ip
  OBVIOUS
<1> USE HostNetAssumption DEF ConPlaces
<1>0. /\ \A v \in Workers : job[v] \in JobType /\ Held(job[v])
      /\ mark \in [Eips -> Containers \cup {None}] /\ eip \in [Containers -> Eips \cup {None}]
      /\ state \in [Containers -> {"alive", "deleting", "deleted"}]
  BY DEF TypeInv, TableTypes, JobTypes
<1>1. /\ c \in Containers /\ job[w].pc \in ConPlaces
      /\ eips' = eips /\ wiped' = wiped
      /\ \A v \in Workers \ {w} : job'[v] = job[v] /\ job[v].con # c
      /\ ~Busy(w) /\ ~Busy(w)'
  <2>1. job[w].pc \in ConPlaces
    BY DEF ConStep, Publish, Own, MarkBound, Unpublish, Unmark, Disown, Forget, At
  <2>2. c \in Containers
    BY <1>0, <1>c, <2>1 DEF Held
  <2>3. \A v \in Workers \ {w} : job[v].con # c
    BY <1>c, <2>2 DEF ConInv, OneJobPerCon
  <2> QED
    BY <2>1, <2>2, <2>3, ConStepBesides
       DEF Besides, hostVars, ConStep, Publish, Own, MarkBound, Unpublish, Unmark, Disown, Forget
<1>2. \A v \in Workers : Binding(v) \/ job[v].pc \in ConPlaces =>
         job[v].con \in Containers /\ (Binding(v) => job[v].ip \in Eips)
  BY <1>0 DEF Held, Binding
<1>3. CASE Publish(w)
  <2>0. /\ state' = state /\ mark' = mark /\ eip' = eip /\ job[w].pc = "publish"
        /\ job'[w].pc = "own" /\ job'[w].con = c /\ job'[w].ip = e
    BY <1>3, <1>c, <1>e, <1>0 DEF Publish, At, Goto, TypeInv, JobTypes, JobType, Held
  <2>1. OneJobPerCon'
    BY <1>0, <1>1, <1>2, <1>c, <1>e, <2>0 DEF OneJobPerCon, ConInv, Binding, At, Busy, HostPlaces
  <2>2. Bindings'
    BY <1>0, <1>1, <1>2, <1>c, <1>e, <2>0 DEF Bindings, ConInv, Binding, At, Busy, HostPlaces
  <2>3. BindsAlone'
    BY <1>0, <1>1, <1>2, <1>c, <1>e, <2>0 DEF BindsAlone, ConInv, Binding, At, Busy, HostPlaces
  <2>4. Unbindings'
    BY <1>0, <1>1, <1>2, <1>c, <1>e, <2>0 DEF Unbindings, ConInv, Binding, At, Busy, HostPlaces
  <2>5. Marked'
    BY <1>0, <1>1, <1>2, <1>c, <1>e, <2>0 DEF Marked, ConInv, Binding, At, Busy, HostPlaces
  <2>6. Owned'
    BY <1>0, <1>1, <1>2, <1>c, <1>e, <2>0 DEF Owned, ConInv, Binding, At, Busy, HostPlaces
  <2>7. Deletions'
    BY <1>0, <1>1, <1>2, <1>c, <1>e, <2>0 DEF Deletions, ConInv, Binding, At, Busy, HostPlaces
  <2> QED
    BY <2>1, <2>2, <2>3, <2>4, <2>5, <2>6, <2>7 DEF ConInv
<1>4. CASE Own(w)
  <2>0. /\ state' = state /\ mark' = mark /\ eip' = [eip EXCEPT ![c] = e] /\ job[w].pc = "own"
        /\ job'[w].pc = "mark" /\ job'[w].con = c /\ job'[w].ip = e /\ e \in Eips
    BY <1>4, <1>c, <1>e, <1>0 DEF Own, At, Goto, TypeInv, JobTypes, JobType, Held
  <2>1. OneJobPerCon'
    BY <1>0, <1>1, <1>2, <1>c, <1>e, <2>0 DEF OneJobPerCon, ConInv, Binding, At, Busy, HostPlaces
  <2>2. Bindings'
    BY <1>0, <1>1, <1>2, <1>c, <1>e, <2>0 DEF Bindings, ConInv, Binding, At, Busy, HostPlaces, BindsAlone
  <2>3. BindsAlone'
    BY <1>0, <1>1, <1>2, <1>c, <1>e, <2>0 DEF BindsAlone, ConInv, Binding, At, Busy, HostPlaces
  <2>4. Unbindings'
    BY <1>0, <1>1, <1>2, <1>c, <1>e, <2>0 DEF Unbindings, ConInv, Binding, At, Busy, HostPlaces
  <2>5. Marked'
    BY <1>0, <1>1, <1>2, <1>c, <1>e, <2>0 DEF Marked, ConInv, Binding, At, Busy, HostPlaces, Bindings
  <2>6. Owned'
    BY <1>0, <1>1, <1>2, <1>c, <1>e, <2>0 DEF Owned, ConInv, Binding, At, Busy, HostPlaces
  <2>7. Deletions'
    BY <1>0, <1>1, <1>2, <1>c, <1>e, <2>0 DEF Deletions, ConInv, Binding, At, Busy, HostPlaces, Bindings
  <2> QED
    BY <2>1, <2>2, <2>3, <2>4, <2>5, <2>6, <2>7 DEF ConInv
<1>5. CASE MarkBound(w)
  <2>0. /\ state' = state /\ mark' = [mark EXCEPT ![e] = c] /\ eip' = eip /\ job[w].pc = "mark"
        /\ job'[w].pc = "idle" /\ job'[w].con = None /\ e \in Eips
    BY <1>5, <1>c, <1>e, <1>0 DEF MarkBound, At, Done, Idle, TypeInv, JobTypes, JobType, Held
  <2>1. OneJobPerCon'
    BY <1>0, <1>1, <1>2, <1>c, <1>e, <2>0 DEF OneJobPerCon, ConInv, Binding, At, Busy, HostPlaces
  <2>2. Bindings'
    <3>1. \A v \in Workers : Binding(v)' => v # w /\ Binding(v) /\ job'[v] = job[v]
      BY <1>1, <2>0 DEF Binding
    <3>2. \A v \in Workers : Binding(v)' => mark'[job[v].ip] = None
      <4>1. \A v \in Workers : Binding(v)' => job[v].ip # e /\ job[v].ip \in Eips
        BY <1>2, <1>e, <2>0, <3>1 DEF ConInv, BindsAlone, Binding
      <4> QED
        BY <1>0, <2>0, <3>1, <4>1 DEF ConInv, Bindings
    <3>3. \A v \in Workers : At(v, "disown") => At(v, "disown")' /\ job'[v] = job[v]
      BY <1>1, <2>0 DEF At
    <3> QED
      BY <1>1, <2>0, <3>1, <3>2, <3>3 DEF Bindings, ConInv, At
  <2>3. BindsAlone'
    BY <1>0, <1>1, <1>2, <1>c, <1>e, <2>0 DEF BindsAlone, ConInv, Binding, At, Busy, HostPlaces
  <2>4. Unbindings'
    BY <1>0, <1>1, <1>2, <1>c, <1>e, <2>0 DEF Unbindings, ConInv, Binding, At, Busy, HostPlaces
  <2>5. Marked'
    BY <1>0, <1>1, <1>2, <1>c, <1>e, <2>0 DEF Marked, ConInv, Binding, At, Busy, HostPlaces, Bindings
  <2>6. Owned'
    BY <1>0, <1>1, <1>2, <1>c, <1>e, <2>0 DEF Owned, ConInv, Binding, At, Busy, HostPlaces, Bindings
  <2>7. Deletions'
    BY <1>0, <1>1, <1>2, <1>c, <1>e, <2>0 DEF Deletions, ConInv, Binding, At, Busy, HostPlaces, Bindings
  <2> QED
    BY <2>1, <2>2, <2>3, <2>4, <2>5, <2>6, <2>7 DEF ConInv
<1>6. CASE Unpublish(w)
  <2>0. /\ state' = state /\ mark' = mark /\ eip' = eip /\ job[w].pc = "unpublish"
        /\ job'[w].pc = "unmark" /\ job'[w].con = c /\ job'[w].ip = e
    BY <1>6, <1>c, <1>e, <1>0 DEF Unpublish, At, Goto, TypeInv, JobTypes, JobType, Held
  <2>1. OneJobPerCon'
    BY <1>0, <1>1, <1>2, <1>c, <1>e, <2>0 DEF OneJobPerCon, ConInv, Binding, At, Busy, HostPlaces
  <2>2. Bindings'
    BY <1>0, <1>1, <1>2, <1>c, <1>e, <2>0 DEF Bindings, ConInv, Binding, At, Busy, HostPlaces
  <2>3. BindsAlone'
    BY <1>0, <1>1, <1>2, <1>c, <1>e, <2>0 DEF BindsAlone, ConInv, Binding, At, Busy, HostPlaces
  <2>4. Unbindings'
    BY <1>0, <1>1, <1>2, <1>c, <1>e, <2>0 DEF Unbindings, ConInv, Binding, At, Busy, HostPlaces
  <2>5. Marked'
    BY <1>0, <1>1, <1>2, <1>c, <1>e, <2>0 DEF Marked, ConInv, Binding, At, Busy, HostPlaces
  <2>6. Owned'
    BY <1>0, <1>1, <1>2, <1>c, <1>e, <2>0 DEF Owned, ConInv, Binding, At, Busy, HostPlaces
  <2>7. Deletions'
    BY <1>0, <1>1, <1>2, <1>c, <1>e, <2>0 DEF Deletions, ConInv, Binding, At, Busy, HostPlaces
  <2> QED
    BY <2>1, <2>2, <2>3, <2>4, <2>5, <2>6, <2>7 DEF ConInv
<1>7. CASE Unmark(w)
  <2>0. /\ state' = state /\ eip' = eip /\ job[w].pc = "unmark"
        /\ job'[w].pc = "disown" /\ job'[w].con = c /\ job'[w].ip = e
        /\ eip[c] = None => mark' = mark
        /\ eip[c] # None => eip[c] \in Eips /\ mark' = [mark EXCEPT ![eip[c]] = None]
    BY <1>7, <1>c, <1>e, <1>0 DEF Unmark, At, Goto, TypeInv, JobTypes, JobType, Held
  <2>1. OneJobPerCon'
    BY <1>0, <1>1, <1>2, <1>c, <1>e, <2>0 DEF OneJobPerCon, ConInv, Binding, At, Busy, HostPlaces
  <2>2. Bindings'
    BY <1>0, <1>1, <1>2, <1>c, <1>e, <2>0 DEF Bindings, ConInv, Binding, At, Busy, HostPlaces
  <2>3. BindsAlone'
    BY <1>0, <1>1, <1>2, <1>c, <1>e, <2>0 DEF BindsAlone, ConInv, Binding, At, Busy, HostPlaces
  <2>4. Unbindings'
    BY <1>0, <1>1, <1>2, <1>c, <1>e, <2>0 DEF Unbindings, ConInv, Binding, At, Busy, HostPlaces
  <2>5. Marked'
    BY <1>0, <1>1, <1>2, <1>c, <1>e, <2>0 DEF Marked, ConInv, Binding, At, Busy, HostPlaces
  <2>6. Owned'
    BY <1>0, <1>1, <1>2, <1>c, <1>e, <2>0 DEF Owned, ConInv, Binding, At, Busy, HostPlaces, Unbindings
  <2>7. Deletions'
    BY <1>0, <1>1, <1>2, <1>c, <1>e, <2>0 DEF Deletions, ConInv, Binding, At, Busy, HostPlaces
  <2> QED
    BY <2>1, <2>2, <2>3, <2>4, <2>5, <2>6, <2>7 DEF ConInv
<1>8. CASE Disown(w)
  <2>0. /\ state' = state /\ mark' = mark /\ eip' = [eip EXCEPT ![c] = None] /\ job[w].pc = "disown"
        /\ \/ job'[w].pc = "forget" /\ job'[w].con = c /\ state[c] = "deleting"
           \/ job'[w].pc = "idle" /\ job'[w].con = None /\ state[c] # "deleting"
    <3>1. job[w].pc = "disown" /\ (job[w].ip = None <=> state[c] = "deleting")
      BY <1>8, <1>c DEF Disown, At, ConInv, Unbindings
    <3> QED
      BY <1>8, <1>c, <1>e, <1>0, <3>1
         DEF Disown, At, Goto, Done, Idle, TypeInv, JobTypes, JobType, Held
  <2>1. OneJobPerCon'
    BY <1>0, <1>1, <1>2, <1>c, <1>e, <2>0 DEF OneJobPerCon, ConInv, Binding, At, Busy, HostPlaces
  <2>2. Bindings'
    BY <1>0, <1>1, <1>2, <1>c, <1>e, <2>0 DEF Bindings, ConInv, Binding, At, Busy, HostPlaces
  <2>3. BindsAlone'
    BY <1>0, <1>1, <1>2, <1>c, <1>e, <2>0 DEF BindsAlone, ConInv, Binding, At, Busy, HostPlaces
  <2>4. Unbindings'
    BY <1>0, <1>1, <1>2, <1>c, <1>e, <2>0 DEF Unbindings, ConInv, Binding, At, Busy, HostPlaces
  <2>5. Marked'
    BY <1>0, <1>1, <1>2, <1>c, <1>e, <2>0 DEF Marked, ConInv, Binding, At, Busy, HostPlaces, Unbindings
  <2>6. Owned'
    BY <1>0, <1>1, <1>2, <1>c, <1>e, <2>0 DEF Owned, ConInv, Binding, At, Busy, HostPlaces
  <2>7. Deletions'
    BY <1>0, <1>1, <1>2, <1>c, <1>e, <2>0 DEF Deletions, ConInv, Binding, At, Busy, HostPlaces
  <2> QED
    BY <2>1, <2>2, <2>3, <2>4, <2>5, <2>6, <2>7 DEF ConInv
<1>9. CASE Forget(w)
  <2>0. /\ state' = [state EXCEPT ![c] = "deleted"] /\ mark' = mark /\ eip' = eip
        /\ job[w].pc = "forget" /\ job'[w].pc = "idle" /\ job'[w].con = None
    BY <1>9, <1>c, <1>e, <1>0 DEF Forget, At, Done, Idle, TypeInv, JobTypes, JobType, Held
  <2>1. OneJobPerCon'
    BY <1>0, <1>1, <1>2, <1>c, <1>e, <2>0 DEF OneJobPerCon, ConInv, Binding, At, Busy, HostPlaces
  <2>2. Bindings'
    BY <1>0, <1>1, <1>2, <1>c, <1>e, <2>0 DEF Bindings, ConInv, Binding, At, Busy, HostPlaces
  <2>3. BindsAlone'
    BY <1>0, <1>1, <1>2, <1>c, <1>e, <2>0 DEF BindsAlone, ConInv, Binding, At, Busy, HostPlaces
  <2>4. Unbindings'
    BY <1>0, <1>1, <1>2, <1>c, <1>e, <2>0 DEF Unbindings, ConInv, Binding, At, Busy, HostPlaces
  <2>5. Marked'
    BY <1>0, <1>1, <1>2, <1>c, <1>e, <2>0 DEF Marked, ConInv, Binding, At, Busy, HostPlaces
  <2>6. Owned'
    BY <1>0, <1>1, <1>2, <1>c, <1>e, <2>0 DEF Owned, ConInv, Binding, At, Busy, HostPlaces
  <2>7. Deletions'
    BY <1>0, <1>1, <1>2, <1>c, <1>e, <2>0 DEF Deletions, ConInv, Binding, At, Busy, HostPlaces, Unbindings
  <2> QED
    BY <2>1, <2>2, <2>3, <2>4, <2>5, <2>6, <2>7 DEF ConInv
<1> QED
  BY <1>3, <1>4, <1>5, <1>6, <1>7, <1>8, <1>9 DEF ConStep

\* A container's request begins.
LEMMA ConRequestKept ==
  ASSUME ~Overlapping, TypeInv, EipInv, ConInv, NEW w \in Workers, NEW c \in Containers,
         \/ BeginUnbind(w, c) \/ BeginDelete(w, c) \/ \E e \in Eips : PickEip(w, c, e)
  PROVE  ConInv'
<1> USE HostNetAssumption DEF ConPlaces
<1>0. /\ \A v \in Workers : job[v] \in JobType /\ Held(job[v])
      /\ mark \in [Eips -> Containers \cup {None}] /\ eip \in [Containers -> Eips \cup {None}]
      /\ state \in [Containers -> {"alive", "deleting", "deleted"}]
      /\ \A d \in Containers : HostOf[d] \in Hosts
  BY DEF TypeInv, TableTypes, JobTypes
<1>1. /\ job[w].pc = "idle" /\ job[w].con = None /\ state[c] = "alive"
      /\ mark' = mark /\ eip' = eip /\ eips' = eips /\ wiped' = wiped
      /\ job'[w].con = c
      /\ \A v \in Workers \ {w} : job'[v] = job[v] /\ job[v].con # c
      /\ ~Busy(w) /\ ~Busy(w)'
      /\ \A v \in Workers \ {w} : job[v].pc \in ConPlaces => job[v].con \in Containers
  BY <1>0 DEF BeginUnbind, BeginDelete, PickEip, Start, At, Untouched, TypeInv, JobTypes, Busy,
              HostPlaces, Held, Idle, hostVars, conVars
<1>2. \A v \in Workers \ {w} : Binding(v) => job[v].con \in Containers \ {c}
  BY <1>1 DEF Binding
<1>3. ASSUME NEW e \in Eips, PickEip(w, c, e) PROVE ConInv'
  <2>0. /\ state' = state /\ job'[w].pc = "publish" /\ job'[w].ip = e
        /\ e \in eips[HostOf[c]] /\ mark[e] = None /\ eip[c] = None /\ Quiet(HostOf[c])
    BY <1>3 DEF PickEip, Start, TypeInv, JobTypes, conVars
  <2>a. \A v \in Workers : Busy(v) => job[v].host # HostOf[c]
    BY <1>0, <2>0, QuietHost
  <2>b. \A v \in Workers : Binding(v) => HostOf[job[v].con] # HostOf[c]
    <3> SUFFICES ASSUME NEW v \in Workers, Binding(v), HostOf[job[v].con] = HostOf[c]
                 PROVE  FALSE
      OBVIOUS
    <3>1. job[v].con \in Containers /\ job[v].pc \in {"publish", "own", "mark"}
            /\ state[job[v].con] = "alive"
      BY <1>0 DEF Held, Binding, ConInv, Bindings
    <3>2. OnHost(v, HostOf[c])
      BY <3>1 DEF OnHost
    <3> QED
      BY <2>0, <3>1, <3>2 DEF Quiet, GatePlaces
  <2>c. \A v \in Workers : Binding(v) => job[v].ip # e
    <3> SUFFICES ASSUME NEW v \in Workers, Binding(v), job[v].ip = e
                 PROVE  FALSE
      OBVIOUS
    <3>1. job[v].con \in Containers /\ e \in eips[HostOf[job[v].con]]
      BY <1>0 DEF Held, Binding, ConInv, Bindings
    <3>2. HostOf[job[v].con] # HostOf[c]
      BY <2>b
    <3>3. ~Giving(HostOf[c], e) /\ ~Giving(HostOf[job[v].con], e)
      BY <2>a DEF Giving, ConInv, BindsAlone, Busy, HostPlaces, At
    <3> QED
      BY <1>0, <2>0, <3>1, <3>2, <3>3 DEF EipInv, EipRows
  <2>d. \A d \in Containers \ {c} : eip[d] = e => \E v \in Workers \ {w} : At(v, "disown") /\ job[v].con = d
    <3> SUFFICES ASSUME NEW d \in Containers \ {c}, eip[d] = e
                 PROVE  \E v \in Workers \ {w} : At(v, "disown") /\ job[v].con = d
      OBVIOUS
    <3>1. PICK v \in Workers : job[v].con = d /\ job[v].pc \in {"mark", "disown"}
      BY <2>0 DEF ConInv, Owned
    <3>2. job[v].pc # "mark"
      BY <3>1, <2>c DEF ConInv, Bindings, Binding, At
    <3> QED
      BY <1>1, <3>1, <3>2 DEF At
  <2>1. OneJobPerCon'
    BY <1>0, <1>1, <1>2, <2>0, <2>a, <2>b, <2>c, <2>d DEF OneJobPerCon, ConInv, Binding, At, Busy, HostPlaces
  <2>2. Bindings'
    BY <1>0, <1>1, <1>2, <2>0, <2>a, <2>b, <2>c, <2>d DEF Bindings, ConInv, Binding, At, Busy, HostPlaces
  <2>3. BindsAlone'
    BY <1>0, <1>1, <1>2, <2>0, <2>a, <2>b, <2>c, <2>d DEF BindsAlone, ConInv, Binding, At, Busy, HostPlaces
  <2>4. Unbindings'
    BY <1>0, <1>1, <1>2, <2>0, <2>a, <2>b, <2>c, <2>d DEF Unbindings, ConInv, Binding, At, Busy, HostPlaces
  <2>5. Marked'
    BY <1>0, <1>1, <1>2, <2>0, <2>a, <2>b, <2>c, <2>d DEF Marked, ConInv, Binding, At, Busy, HostPlaces
  <2>6. Owned'
    BY <1>0, <1>1, <1>2, <2>0, <2>a, <2>b, <2>c, <2>d DEF Owned, ConInv, Binding, At, Busy, HostPlaces
  <2>7. Deletions'
    BY <1>0, <1>1, <1>2, <2>0, <2>a, <2>b, <2>c, <2>d DEF Deletions, ConInv, Binding, At, Busy, HostPlaces
  <2> QED
    BY <2>1, <2>2, <2>3, <2>4, <2>5, <2>6, <2>7 DEF ConInv
<1>4. CASE BeginUnbind(w, c)
  <2>0. state' = state /\ job'[w].pc = "unpublish" /\ job'[w].ip = eip[c] /\ eip[c] # None
    BY <1>4 DEF BeginUnbind, Start, TypeInv, JobTypes, conVars
  <2>1. OneJobPerCon'
    BY <1>0, <1>1, <1>2, <2>0 DEF OneJobPerCon, ConInv, Binding, At, Busy, HostPlaces
  <2>2. Bindings'
    BY <1>0, <1>1, <1>2, <2>0 DEF Bindings, ConInv, Binding, At, Busy, HostPlaces
  <2>3. BindsAlone'
    BY <1>0, <1>1, <1>2, <2>0 DEF BindsAlone, ConInv, Binding, At, Busy, HostPlaces
  <2>4. Unbindings'
    BY <1>0, <1>1, <1>2, <2>0 DEF Unbindings, ConInv, Binding, At, Busy, HostPlaces
  <2>5. Marked'
    BY <1>0, <1>1, <1>2, <2>0 DEF Marked, ConInv, Binding, At, Busy, HostPlaces
  <2>6. Owned'
    BY <1>0, <1>1, <1>2, <2>0 DEF Owned, ConInv, Binding, At, Busy, HostPlaces
  <2>7. Deletions'
    BY <1>0, <1>1, <1>2, <2>0 DEF Deletions, ConInv, Binding, At, Busy, HostPlaces
  <2> QED
    BY <2>1, <2>2, <2>3, <2>4, <2>5, <2>6, <2>7 DEF ConInv
<1>5. CASE BeginDelete(w, c)
  <2>0. /\ state' = [state EXCEPT ![c] = "deleting"] /\ job'[w].ip = None
        /\ job'[w].pc = IF eip[c] = None THEN "forget" ELSE "unpublish"
    BY <1>5 DEF BeginDelete, Start, TypeInv, JobTypes
  <2>1. OneJobPerCon'
    BY <1>0, <1>1, <1>2, <2>0 DEF OneJobPerCon, ConInv, Binding, At, Busy, HostPlaces
  <2>2. Bindings'
    BY <1>0, <1>1, <1>2, <2>0 DEF Bindings, ConInv, Binding, At, Busy, HostPlaces
  <2>3. BindsAlone'
    BY <1>0, <1>1, <1>2, <2>0 DEF BindsAlone, ConInv, Binding, At, Busy, HostPlaces
  <2>4. Unbindings'
    BY <1>0, <1>1, <1>2, <2>0 DEF Unbindings, ConInv, Binding, At, Busy, HostPlaces
  <2>5. Marked'
    BY <1>0, <1>1, <1>2, <2>0 DEF Marked, ConInv, Binding, At, Busy, HostPlaces
  <2>6. Owned'
    BY <1>0, <1>1, <1>2, <2>0 DEF Owned, ConInv, Binding, At, Busy, HostPlaces
  <2>7. Deletions'
    BY <1>0, <1>1, <1>2, <2>0 DEF Deletions, ConInv, Binding, At, Busy, HostPlaces
  <2> QED
    BY <2>1, <2>2, <2>3, <2>4, <2>5, <2>6, <2>7 DEF ConInv
<1> QED
  BY <1>3, <1>4, <1>5

\* A list that is stored is not of a host on which something is being bound.
LEMMA ConHostStep ==
  ASSUME TypeInv, EipInv, ConInv, NEW w \in Workers, HostStep(w)
  PROVE  ConInv'
<1> USE HostNetAssumption
<1>h. PICK h : h = job[w].host
  OBVIOUS
<1>0. \A v \in Workers : job[v] \in JobType /\ Held(job[v])
  BY DEF TypeInv, JobTypes
<1>1. /\ Busy(w) /\ UNCHANGED conVars
      /\ job'[w].pc \in HostPlaces \cup {"idle"} /\ (Busy(w)' => job'[w].host = h)
      /\ job'[w].con = None
      /\ \A v \in Workers \ {w} : job'[v] = job[v]
      /\ \A k \in Hosts \ {h} : eips'[k] = eips[k]
  <2> USE DEF TypeInv, TableTypes, JobTypes, JobType, Held, Busy, HostPlaces, At, Goto, Done,
              Idle, hostVars
  <2>1. CASE Configure(w) \/ ConfigureFails(w)
    BY <1>h, <1>0, <2>1 DEF Configure, ConfigureFails
  <2>2. CASE ReadList(w)
    BY <1>h, <1>0, <2>2 DEF ReadList
  <2>3. CASE StoreList(w)
    BY <1>h, <1>0, <2>3 DEF StoreList
  <2>4. CASE ReadRest(w)
    BY <1>h, <1>0, <2>4 DEF ReadRest
  <2>5. CASE StoreRest(w)
    BY <1>h, <1>0, <2>5 DEF StoreRest
  <2>6. CASE Unconfigure(w) \/ UnconfigureFails(w)
    BY <1>h, <1>0, <2>6 DEF Unconfigure, UnconfigureFails
  <2>7. ASSUME NEW e \in Eips, FreeEip(w, e)
        PROVE  /\ Busy(w) /\ UNCHANGED conVars
               /\ job'[w].pc \in HostPlaces \cup {"idle"} /\ (Busy(w)' => job'[w].host = h)
               /\ job'[w].con = None
               /\ \A v \in Workers \ {w} : job'[v] = job[v]
               /\ \A k \in Hosts \ {h} : eips'[k] = eips[k]
    BY <1>h, <1>0, <2>7 DEF FreeEip
  <2> QED
    BY <2>1, <2>2, <2>3, <2>4, <2>5, <2>6, <2>7 DEF HostStep
<1>2. mark' = mark /\ eip' = eip /\ state' = state /\ wiped' = wiped /\ job[w].con = None
  BY <1>0, <1>1 DEF conVars, Held, Busy
<1>3. \A v \in Workers : /\ job'[v].con = job[v].con
                         /\ Binding(v)' <=> Binding(v)
                         /\ job[v].pc \in ConPlaces => job'[v] = job[v]
                         /\ job'[v].pc \in ConPlaces => job'[v] = job[v]
  BY <1>1, <1>2 DEF Binding, Busy, HostPlaces, ConPlaces
<1>4. \A v \in Workers : Binding(v) =>
         HostOf[job[v].con] \in Hosts \ {h} /\ job'[v] = job[v] /\ job[v].pc \in ConPlaces
  BY <1>0, <1>1, <1>h, <1>3 DEF ConInv, BindsAlone, Held, Binding, ConPlaces
<1>5. \A v \in Workers : (At(v, "disown")' <=> At(v, "disown")) /\ (At(v, "mark")' <=> At(v, "mark"))
  BY <1>3 DEF At, ConPlaces
<1>6. OneJobPerCon'
  BY <1>3 DEF ConInv, OneJobPerCon
<1>7. Bindings'
  BY <1>1, <1>2, <1>3, <1>4, <1>5 DEF ConInv, Bindings
<1>8. BindsAlone'
  <2>1. \A v \in Workers : Busy(v)' => Busy(v) /\ job'[v].host = job[v].host
    BY <1>h, <1>1 DEF Busy
  <2> QED
    BY <2>1, <1>3, <1>4 DEF ConInv, BindsAlone
<1>9. Unbindings'
  BY <1>2, <1>3 DEF ConInv, Unbindings, At, ConPlaces
<1>10. Marked'
  BY <1>2 DEF ConInv, Marked
<1>11. Owned'
  BY <1>2, <1>3 DEF ConInv, Owned, ConPlaces
<1>12. Deletions'
  BY <1>2, <1>3 DEF ConInv, Deletions
<1> QED
  BY <1>6, <1>7, <1>8, <1>9, <1>10, <1>11, <1>12 DEF ConInv

\* The properties of a container are replaced.
LEMMA ConResetKept ==
  ASSUME TypeInv, ConInv, NEW c \in Containers, Reset(c)
  PROVE  ConInv'
<1> USE HostNetAssumption DEF At
<1>0. /\ \A v \in Workers : job[v] \in JobType /\ Held(job[v])
      /\ eip \in [Containers -> Eips \cup {None}]
  BY DEF TypeInv, TableTypes, JobTypes
<1>1. /\ eip'[c] = None /\ \A d \in Containers \ {c} : eip'[d] = eip[d]
      /\ wiped' = wiped \cup {c} /\ state[c] # "deleted"
      /\ mark' = mark /\ state' = state /\ eips' = eips /\ job' = job
  BY <1>0 DEF Reset, hostVars
<1>2. \A v \in Workers : job[v].pc \in ConPlaces => job[v].con \in Containers
  BY <1>0 DEF Held
<1>3. OneJobPerCon' /\ BindsAlone'
  BY <1>1 DEF ConInv, OneJobPerCon, BindsAlone, Binding, Busy
<1>4. Bindings'
  <2> SUFFICES ASSUME NEW w \in Workers, Binding(w)
               PROVE  /\ ~At(w, "mark") => eip'[job[w].con] = None
                      /\ At(w, "mark") => \/ eip'[job[w].con] = job[w].ip
                                          \/ eip'[job[w].con] = None /\ job[w].con \in wiped'
                      /\ job[w].ip \in Eips
                      /\ \A d \in Containers : eip'[d] \in {None, eip[d]}
    BY <1>1 DEF ConInv, Bindings, Binding
  <2>1. job[w].con \in Containers /\ job[w].ip \in Eips
    BY <1>0 DEF Binding, Held, ConPlaces
  <2> QED
    BY <1>1, <2>1 DEF ConInv, Bindings
<1>5. Unbindings'
  BY <1>1, <1>2 DEF ConInv, Unbindings, ConPlaces
<1>6. Marked'
  BY <1>1 DEF ConInv, Marked
<1>7. Owned'
  BY <1>1 DEF ConInv, Owned
<1>8. Deletions'
  BY <1>1 DEF ConInv, Deletions
<1> QED
  BY <1>3, <1>4, <1>5, <1>6, <1>7, <1>8 DEF ConInv

LEMMA ConKept ==
  ASSUME ~Overlapping
  PROVE  TypeInv /\ EipInv /\ ConInv /\ [Next]_vars => ConInv'
<1> SUFFICES ASSUME TypeInv, EipInv, ConInv, [Next]_vars PROVE ConInv'
  OBVIOUS
<1>0. /\ \A v \in Workers : job[v] \in JobType /\ Held(job[v])
      /\ \A d \in Containers : HostOf[d] \in Hosts
  BY HostNetAssumption DEF TypeInv, JobTypes
<1>1. CASE AddEip \/ DeleteEip \/ UNCHANGED vars
  <2>1. /\ mark' = mark /\ eip' = eip /\ state' = state /\ eips' = eips /\ job' = job
        /\ wiped' = wiped
    BY <1>1 DEF AddEip, DeleteEip, vars, hostVars, conVars
  <2> QED
    BY <2>1 DEF ConInv, OneJobPerCon, Bindings, BindsAlone, Unbindings, Marked, Owned,
                Deletions, Binding, Busy, At
<1>2. ASSUME NEW w \in Workers, Request(w) PROVE ConInv'
  <2> USE DEF Start, At, Idle, TypeInv, JobTypes, JobType, Held, Busy, HostPlaces, ConPlaces,
              GatePlaces
  <2>1. ASSUME NEW h \in Hosts, BeginRelease(w, h) \/ \E e \in Eips : TakeEip(w, h, e)
        PROVE  ConInv'
    <3>1. Quiet(h)
      BY <2>1 DEF BeginRelease, TakeEip
    <3>2. \A v \in Workers : Binding(v) => h # HostOf[job[v].con]
      <4> SUFFICES ASSUME NEW v \in Workers, Binding(v), h = HostOf[job[v].con]
                   PROVE  FALSE
        OBVIOUS
      <4>1. /\ job[v].con \in Containers /\ job[v].pc \in {"publish", "own", "mark"}
            /\ state[job[v].con] = "alive"
        BY <1>0 DEF Binding, ConInv, Bindings
      <4>2. OnHost(v, h)
        BY <4>1, HostNetAssumption DEF OnHost
      <4> QED
        BY <3>1, <4>1, <4>2 DEF Quiet
    <3>3. CASE BeginRelease(w, h)
      <4>1. /\ UNCHANGED <<conVars, eips>> /\ job[w] = Idle
            /\ \A v \in Workers \ {w} : job'[v] = job[v]
            /\ job'[w].pc = "other" /\ job'[w].con = None /\ job'[w].host = h
        BY <1>0, <3>3 DEF BeginRelease, hostVars, TableTypes
      <4> QED
        BY <3>2, <4>1, ConFrame
    <3>4. ASSUME NEW e \in Eips, TakeEip(w, h, e) PROVE ConInv'
      <4>1. /\ UNCHANGED <<conVars, eips>> /\ job[w] = Idle
            /\ \A v \in Workers \ {w} : job'[v] = job[v]
            /\ job'[w].pc = "configure" /\ job'[w].con = None /\ job'[w].host = h
        BY <1>0, <3>4 DEF TakeEip
      <4> QED
        BY <3>2, <4>1, ConFrame
    <3> QED
      BY <2>1, <3>3, <3>4
  <2>2. ASSUME NEW h \in Hosts, BeginGateway(w, h) \/ BeginDrop(w, h) PROVE ConInv'
    <3>1. /\ UNCHANGED <<conVars, eips>> /\ job[w] = Idle
          /\ \A v \in Workers \ {w} : job'[v] = job[v]
          /\ job'[w].pc \in {"pop", "push"} /\ job'[w].con = None
      BY <1>0, <2>2 DEF BeginGateway, BeginDrop, hostVars
    <3> QED
      BY <3>1, ConFrame
  <2>3. ASSUME NEW c \in Containers,
               \/ BeginUnbind(w, c) \/ BeginDelete(w, c) \/ \E e \in Eips : PickEip(w, c, e)
        PROVE  ConInv'
    BY <2>3, ConRequestKept
  <2> QED
    BY <1>2, <2>1, <2>2, <2>3 DEF Request
<1>3. ASSUME NEW w \in Workers, HostStep(w) PROVE ConInv'
  BY <1>3, ConHostStep
<1>4. ASSUME NEW w \in Workers, ConStep(w) PROVE ConInv'
  BY <1>4, ConStepKept
<1>5. ASSUME NEW w \in Workers, GateStep(w) PROVE ConInv'
  <2> USE DEF At, Goto, Done, Idle, TypeInv, JobTypes, JobType, Held, Busy, HostPlaces, ConPlaces,
              GatePlaces
  <2>1. /\ UNCHANGED <<conVars, eips>> /\ job[w].con = None /\ job'[w].con = None
        /\ job[w].pc \in GatePlaces /\ job'[w].pc \in GatePlaces \cup {"idle"}
        /\ \A v \in Workers \ {w} : job'[v] = job[v]
    <3>1. ASSUME NEW g \in Gates, PopGate(w, g) 
          PROVE  /\ UNCHANGED <<conVars, eips>> /\ job[w].con = None /\ job'[w].con = None
                 /\ job[w].pc \in GatePlaces /\ job'[w].pc \in GatePlaces \cup {"idle"}
                 /\ \A v \in Workers \ {w} : job'[v] = job[v]
      BY <1>0, <3>1 DEF PopGate, hostVars
    <3>2. CASE PopNoGate(w) \/ InsertGate(w) \/ InsertGateFails(w)
      BY <1>0, <3>2 DEF PopNoGate, InsertGate, InsertGateFails, hostVars
    <3>3. CASE PushGate(w) \/ EraseGate(w)
      BY <1>0, <3>3 DEF PushGate, EraseGate, hostVars
    <3> QED
      BY <1>5, <3>1, <3>2, <3>3 DEF GateStep
  <2> QED
    BY <2>1, ConFrame
<1>6. ASSUME NEW c \in Containers, Reset(c) PROVE ConInv'
  BY <1>6, ConResetKept
<1> QED
  BY <1>1, <1>2, <1>3, <1>4, <1>5, <1>6 DEF Next

(* If requests about one host do not overlap, two containers have one      *)
(* elastic IP only while one of them is letting go of it, even when the    *)
(* address moves to another host and whoever loses its properties in the   *)
(* meantime (Container.bind_eip, check_eip_bound, kill_container).  If     *)
(* they overlap, the look at the mark and its setting race.                *)
THEOREM OneOwnerKept ==
  ASSUME ~Overlapping
  PROVE  Spec => []OneOwner
<1>1. TypeInv /\ ConInv => OneOwner
  <2> SUFFICES ASSUME TypeInv, ConInv, NEW c \in Containers, NEW d \in Containers,
                      c # d, eip[c] = eip[d], eip[c] # None
               PROVE  \E w \in Workers : At(w, "disown") /\ job[w].con \in {c, d}
    BY DEF OneOwner
  <2>1. ASSUME NEW x \in Containers, NEW y \in Containers, {x, y} = {c, d}, mark[eip[x]] # x
        PROVE  \E w \in Workers : At(w, "disown") /\ job[w].con \in {c, d}
    <3>1. PICK w \in Workers : job[w].con = x /\ job[w].pc \in {"mark", "disown"}
      BY <2>1 DEF ConInv, Owned
    <3>2. CASE At(w, "mark")
      <4>1. job[w].ip = eip[x] /\ y \in Containers \ {x} /\ eip[y] = job[w].ip
        BY <2>1, <3>1, <3>2 DEF ConInv, Bindings, Binding, At
      <4> QED
        BY <2>1, <3>1, <3>2, <4>1 DEF ConInv, Bindings, Binding, At
    <3> QED
      BY <2>1, <3>1, <3>2 DEF At
  <2>2. mark[eip[c]] # c \/ mark[eip[d]] # d
    OBVIOUS
  <2> QED
    BY <2>1, <2>2
<1> QED
  BY <1>1, TypeInit, TypeStep, EipInit, EipKept, ConInit, ConKept, PTL DEF Spec

(* If requests about one host, or container, do not overlap, then between  *)
(* them every elastic IP a container has is marked as the container's,     *)
(* which is not deleted, and a mark outlives what it says only if the      *)
(* container's properties were replaced (Container.bind_eip, release_eip   *)
(* and delete, kill_container).                                            *)
THEOREM MarksKept ==
  ASSUME ~Overlapping
  PROVE  Spec => []MarksAgree
<1>1. TypeInv /\ ConInv => MarksAgree
  <2> SUFFICES ASSUME TypeInv, ConInv, \A w \in Workers : job[w].pc \notin ConPlaces,
                      NEW e \in Eips, NEW c \in Containers
               PROVE  /\ eip[c] = e => mark[e] = c /\ state[c] = "alive"
                      /\ mark[e] = c => eip[c] = e \/ c \in wiped
    BY DEF MarksAgree
  <2>1. e # None /\ c # None
    BY HostNetAssumption
  <2>2. \A w \in Workers : job[w].con # c
    BY <2>1 DEF TypeInv, JobTypes, JobType, Held, Idle
  <2>3. (eip[c] = e => mark[e] = c) /\ (mark[e] = c => eip[c] = e \/ c \in wiped)
    BY <2>1, <2>2 DEF ConInv, Marked, Owned
  <2>4. state[c] \in {"alive", "deleting", "deleted"}
    BY DEF TypeInv, TableTypes
  <2> QED
    BY <2>1, <2>2, <2>3, <2>4 DEF ConInv, Deletions
<1> QED
  BY <1>1, TypeInit, TypeStep, EipInit, EipKept, ConInit, ConKept, PTL DEF Spec

=============================================================================
