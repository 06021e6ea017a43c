------------------------------- MODULE HostNet -------------------------------
(***************************************************************************)
(* What a host holds of the networks: elastic IPs and gateway addresses.   *)
(* An elastic IP moves from the Redis set eru:eip:pool to the property     *)
(* `eips` of a host (a JSON value that is read and written back), and      *)
(* from there to a container, by the key eip:%s:container and the          *)
(* container's property `eip`; the host's agent configures it on the       *)
(* interface and publishes the container's backends under it.  A gateway   *)
(* address moves from a Redis set to an SQL row vlan_gateway, of which a   *)
(* host has at most one in a network.                                      *)
(*                                                                         *)
(* The module models eru/models/eip_pool.py, Host.bind_eip and             *)
(* release_eip, Container.bind_eip and release_eip with the part of        *)
(* Container.delete that calls it, VLanGateway and Network.acquire_gateway *)
(* and release_gateway, as eru/api/host.py, container.py and network.py    *)
(* call them.  A step is one Redis command, SQL commit or call of an agent.*)
(***************************************************************************)
EXTENDS Naturals, FiniteSets

CONSTANTS Hosts, Containers, Eips, Gates, Workers,
          HostOf,       \* the host a container runs on
          OnHostNet,    \* containers whose network_mode is "host"
          NewEip,       \* the elastic IP that is added while the system runs
          Failing,      \* calls of an agent that may fail: "bind", "publish"
          Overlapping,  \* whether requests about one host, or container, overlap
          Starved,      \* containers that may die for want of memory
          None

ASSUME HostNetAssumption ==
    /\ HostOf \in [Containers -> Hosts]
    /\ OnHostNet \subseteq Containers
    /\ NewEip \in Eips
    /\ Failing \subseteq {"bind", "publish"}
    /\ Overlapping \in BOOLEAN
    /\ Starved \subseteq Containers
    /\ None \notin Hosts \cup Containers \cup Eips \cup Gates \cup Workers

VARIABLES pool,     \* eru:eip:pool
          eips,     \* Host.eips
          mark,     \* eip:%s:container
          eip,      \* Container.eip
          nat,      \* <<elastic IP, container>> the agents have published
          state,    \* of the container: "alive", "deleting" or "deleted"
          hasIp,    \* containers that have addresses of a network
          wiped,    \* containers whose properties were replaced
          gates,    \* eru:network:%s:hosts
          gateway,  \* the row of a host, or None
          gateLock, \* holder of 'net:gateway_ip:<id>'
          job       \* the workers

netVars  == <<gates, gateway, gateLock>>
conVars  == <<mark, eip, nat, state, hasIp, wiped>>
hostVars == <<pool, eips>>
vars     == <<hostVars, conVars, netVars, job>>

Idle == [pc |-> "idle", host |-> None, con |-> None, ip |-> None, todo |-> {}, rest |-> {}]
HostPlaces == {"configure", "list", "store", "other", "unconfigure", "free"}
ConPlaces == {"publish", "own", "mark", "unpublish", "unmark", "disown", "forget"}
GatePlaces == {"pop", "insert", "push", "erase"}

TypeOK ==
    /\ pool \subseteq Eips
    /\ eips \in [Hosts -> SUBSET Eips]
    /\ mark \in [Eips -> Containers \cup {None}]
    /\ eip \in [Containers -> Eips \cup {None}]
    /\ nat \subseteq Eips \X Containers
    /\ state \in [Containers -> {"alive", "deleting", "deleted"}]
    /\ hasIp \subseteq Containers
    /\ wiped \subseteq Starved
    /\ gates \subseteq Gates
    /\ gateway \in [Hosts -> Gates \cup {None}]
    /\ gateLock \in Workers \cup {None}
    /\ job \in [Workers -> [pc : {"idle"} \cup HostPlaces \cup ConPlaces \cup GatePlaces,
                            host : Hosts \cup {None}, con : Containers \cup {None},
                            ip : Eips \cup Gates \cup {None},
                            todo : SUBSET Eips, rest : SUBSET Eips]]

Init ==
    /\ pool = Eips \ {NewEip}
    /\ eips = [h \in Hosts |-> {}]
    /\ mark = [e \in Eips |-> None]
    /\ eip = [c \in Containers |-> None]
    /\ nat = {}
    /\ state = [c \in Containers |-> "alive"]
    /\ hasIp = Containers \ OnHostNet
    /\ wiped = {}
    /\ gates = Gates
    /\ gateway = [h \in Hosts |-> None]
    /\ gateLock = None
    /\ job = [w \in Workers |-> Idle]

-----------------------------------------------------------------------------
(* Unless Overlapping, requests about the addresses of one host, and about *)
(* one container, follow one another.  Nothing in the program says so.     *)
(* Requests for a gateway come whenever they do.                           *)

At(w, pc) == job[w].pc = pc
Goto(w, pc) == job' = [job EXCEPT ![w].pc = pc]
Done(w) == job' = [job EXCEPT ![w] = Idle]
OnHost(w, h) == job[w].host = h \/ (job[w].con # None /\ HostOf[job[w].con] = h)
Quiet(h) ==
    \/ Overlapping
    \/ \A w \in Workers :
          OnHost(w, h) =>
              \/ job[w].pc \in GatePlaces
              \/ job[w].con # None /\ state[job[w].con] = "deleting"
Untouched(c) == Overlapping \/ \A w \in Workers : job[w].con # c
Start(w, pc, h, c, ip) ==
    /\ At(w, "idle")
    /\ job' = [job EXCEPT ![w] = [pc |-> pc, host |-> h, con |-> c, ip |-> ip,
                                  todo |-> {}, rest |-> {}]]

-----------------------------------------------------------------------------
(* POST and DELETE of /api/host/<host>/eip/, and /api/network/add_eip/.    *)

AddEip ==
    /\ \A h \in Hosts : NewEip \notin eips[h]
    /\ \A w \in Workers : job[w].ip # NewEip
    /\ pool' = pool \cup {NewEip}
    /\ UNCHANGED <<eips, conVars, netVars, job>>

\* delete_eip: taken from the pool, if it is there, and kept by nobody.
DeleteEip ==
    /\ pool' = pool \ {NewEip}
    /\ UNCHANGED <<eips, conVars, netVars, job>>

\* bind_eip: spop.
TakeEip(w, h, e) ==
    /\ Quiet(h)
    /\ e \in pool
    /\ Start(w, "configure", h, None, e)
    /\ pool' = pool \ {e}
    /\ UNCHANGED <<eips, conVars, netVars>>

Configure(w) ==
    /\ At(w, "configure")
    /\ Goto(w, "list")
    /\ UNCHANGED <<hostVars, conVars, netVars>>

\* Mutant: without ipam.release_eip.
MutantConfigureFails(w) ==
    /\ At(w, "configure")
    /\ "bind" \in Failing
    /\ Done(w)
    /\ UNCHANGED <<hostVars, conVars, netVars>>

\* An error, or no answer.
ConfigureFails(w) ==
    /\ At(w, "configure")
    /\ "bind" \in Failing
    /\ pool' = pool \cup {job[w].ip}
    /\ Done(w)
    /\ UNCHANGED <<eips, conVars, netVars>>

ReadList(w) ==
    /\ At(w, "list")
    /\ job' = [job EXCEPT ![w].pc = "store", ![w].rest = eips[job[w].host]]
    /\ UNCHANGED <<hostVars, conVars, netVars>>

StoreList(w) ==
    /\ At(w, "store")
    /\ eips' = [eips EXCEPT ![job[w].host] = job[w].rest \cup {job[w].ip}]
    /\ Done(w)
    /\ UNCHANGED <<pool, conVars, netVars>>

\* release_eip: what to release is all the host has; ...
BeginRelease(w, h) ==
    /\ Quiet(h)
    /\ At(w, "idle")
    /\ job' = [job EXCEPT ![w] = [Idle EXCEPT !.pc = "other", !.host = h, !.todo = eips[h]]]
    /\ UNCHANGED <<hostVars, conVars, netVars>>

\* ... what to keep is the rest of what it has now.
ReadRest(w) ==
    /\ At(w, "other")
    /\ job' = [job EXCEPT ![w].pc = "unconfigure", ![w].rest = eips[job[w].host] \ job[w].todo]
    /\ UNCHANGED <<hostVars, conVars, netVars>>

Unconfigure(w) ==
    /\ At(w, "unconfigure")
    /\ Goto(w, "free")
    /\ UNCHANGED <<hostVars, conVars, netVars>>

UnconfigureFails(w) ==
    /\ At(w, "unconfigure")
    /\ "bind" \in Failing
    /\ Done(w)
    /\ UNCHANGED <<hostVars, conVars, netVars>>

\* sadd, address by address, then the list.
FreeEip(w, e) ==
    /\ At(w, "free")
    /\ e \in job[w].todo
    /\ pool' = pool \cup {e}
    /\ job' = [job EXCEPT ![w].todo = @ \ {e}]
    /\ UNCHANGED <<eips, conVars, netVars>>

StoreRest(w) ==
    /\ At(w, "free")
    /\ job[w].todo = {}
    /\ eips' = [eips EXCEPT ![job[w].host] = job[w].rest]
    /\ Done(w)
    /\ UNCHANGED <<pool, conVars, netVars>>

-----------------------------------------------------------------------------
(* PUT of /api/container/<cid>/bind_eip/ and release_eip/, and the part of *)
(* Container.delete that releases addresses.                               *)

\* Mutant: without check_eip_bound.
MutantPickEip(w, c, e) ==
    /\ Quiet(HostOf[c]) /\ Untouched(c)
    /\ state[c] = "alive" /\ eip[c] = None
    /\ e \in eips[HostOf[c]]
    /\ Start(w, "publish", None, c, e)
    /\ UNCHANGED <<hostVars, conVars, netVars>>

\* The address the request names, or one of the host's, if it is not bound.
PickEip(w, c, e) ==
    /\ Quiet(HostOf[c]) /\ Untouched(c)
    /\ state[c] = "alive" /\ eip[c] = None
    /\ e \in eips[HostOf[c]] /\ mark[e] = None
    /\ Start(w, "publish", None, c, e)
    /\ UNCHANGED <<hostVars, conVars, netVars>>

HasBackends(c) == c \in OnHostNet \cup hasIp
Outcomes == IF "publish" \in Failing THEN BOOLEAN ELSE {TRUE}

\* The call is made for each backend, and its outcome is ignored.
Publish(w) ==
    LET c == job[w].con IN
    /\ At(w, "publish")
    /\ \E done \in Outcomes :
          nat' = IF done /\ HasBackends(c) THEN nat \cup {<<job[w].ip, c>>} ELSE nat
    /\ Goto(w, "own")
    /\ UNCHANGED <<hostVars, mark, eip, state, hasIp, wiped, netVars>>

Own(w) ==
    /\ At(w, "own")
    /\ eip' = [eip EXCEPT ![job[w].con] = job[w].ip]
    /\ Goto(w, "mark")
    /\ UNCHANGED <<hostVars, mark, nat, state, hasIp, wiped, netVars>>

MarkBound(w) ==
    /\ At(w, "mark")
    /\ mark' = [mark EXCEPT ![job[w].ip] = job[w].con]
    /\ Done(w)
    /\ UNCHANGED <<hostVars, eip, nat, state, hasIp, wiped, netVars>>

BeginUnbind(w, c) ==
    /\ Quiet(HostOf[c]) /\ Untouched(c)
    /\ state[c] = "alive" /\ eip[c] # None
    /\ Start(w, "unpublish", None, c, eip[c])
    /\ UNCHANGED <<hostVars, conVars, netVars>>

\* The addresses of the networks go first, then the elastic IP, which nobody
\* has named.
BeginDelete(w, c) ==
    /\ Untouched(c)
    /\ state[c] = "alive"
    /\ state' = [state EXCEPT ![c] = "deleting"]
    /\ hasIp' = hasIp \ {c}
    /\ Start(w, IF eip[c] = None THEN "forget" ELSE "unpublish", None, c, None)
    /\ UNCHANGED <<hostVars, mark, eip, nat, wiped, netVars>>

\* One call for each backend the container has now.
Unpublish(w) ==
    LET c == job[w].con IN
    /\ At(w, "unpublish")
    /\ \E done \in Outcomes :
          nat' = IF done /\ HasBackends(c) THEN nat \ {<<eip[c], c>>} ELSE nat
    /\ Goto(w, "unmark")
    /\ UNCHANGED <<hostVars, mark, eip, state, hasIp, wiped, netVars>>

\* Mutant: without clean_eip_bound.
MutantUnmark(w) ==
    /\ At(w, "unmark")
    /\ Goto(w, "disown")
    /\ UNCHANGED <<hostVars, conVars, netVars>>

\* The property is read again: it may be gone.
Unmark(w) ==
    LET e == eip[job[w].con] IN
    /\ At(w, "unmark")
    /\ mark' = IF e = None THEN mark ELSE [mark EXCEPT ![e] = None]
    /\ Goto(w, "disown")
    /\ UNCHANGED <<hostVars, eip, nat, state, hasIp, wiped, netVars>>

Disown(w) ==
    /\ At(w, "disown")
    /\ eip' = [eip EXCEPT ![job[w].con] = None]
    /\ IF job[w].ip = None THEN Goto(w, "forget") ELSE Done(w)
    /\ UNCHANGED <<hostVars, mark, nat, state, hasIp, wiped, netVars>>

\* The cores, the properties and the row.
Forget(w) ==
    /\ At(w, "forget")
    /\ state' = [state EXCEPT ![job[w].con] = "deleted"]
    /\ Done(w)
    /\ UNCHANGED <<hostVars, mark, eip, nat, hasIp, wiped, netVars>>

\* kill_container, of a container that ran out of memory: all its properties
\* are replaced by {'oom': 1}.
Reset(c) ==
    /\ c \in Starved /\ state[c] # "deleted"
    /\ eip' = [eip EXCEPT ![c] = None]
    /\ wiped' = wiped \cup {c}
    /\ UNCHANGED <<hostVars, mark, nat, state, hasIp, netVars, job>>

-----------------------------------------------------------------------------
(* POST and DELETE of /api/host/<host>/macvlan/, for one network.          *)

\* POST, when the host has no gateway yet.
BeginGateway(w, h) ==
    /\ gateway[h] = None
    /\ Start(w, "pop", h, None, None)
    /\ UNCHANGED <<hostVars, conVars, netVars>>

\* spop, under the lock that is kept until the row is made.
PopGate(w, g) ==
    /\ At(w, "pop") /\ gateLock = None
    /\ g \in gates
    /\ gates' = gates \ {g}
    /\ gateLock' = w
    /\ job' = [job EXCEPT ![w].pc = "insert", ![w].ip = g]
    /\ UNCHANGED <<hostVars, conVars, gateway>>

\* Mutant: without the test of what spop returned.
MutantPopNoGate(w) ==
    /\ At(w, "pop") /\ gateLock = None
    /\ gates = {}
    /\ gateLock' = w
    /\ Goto(w, "insert")
    /\ UNCHANGED <<hostVars, conVars, gates, gateway>>

PopNoGate(w) ==
    /\ At(w, "pop") /\ gateLock = None
    /\ gates = {}
    /\ Done(w)
    /\ UNCHANGED <<hostVars, conVars, netVars>>

InsertGate(w) ==
    /\ At(w, "insert")
    /\ gateway[job[w].host] = None
    /\ gateway' = [gateway EXCEPT ![job[w].host] = job[w].ip]
    /\ gateLock' = None
    /\ Done(w)
    /\ UNCHANGED <<hostVars, conVars, gates>>

\* Mutant: without sadd.
MutantInsertGateFails(w) ==
    /\ At(w, "insert")
    /\ gateway[job[w].host] # None
    /\ gateLock' = None
    /\ Done(w)
    /\ UNCHANGED <<hostVars, conVars, gates, gateway>>

\* The host got a gateway meanwhile: IntegrityError, and sadd.
InsertGateFails(w) ==
    /\ At(w, "insert")
    /\ gateway[job[w].host] # None
    /\ gates' = gates \cup {job[w].ip}
    /\ gateLock' = None
    /\ Done(w)
    /\ UNCHANGED <<hostVars, conVars, gateway>>

\* DELETE, one at a time for a host.
BeginDrop(w, h) ==
    /\ gateway[h] # None
    /\ \A v \in Workers : job[v].host = h => job[v].pc \notin {"push", "erase"}
    /\ Start(w, "push", h, None, gateway[h])
    /\ UNCHANGED <<hostVars, conVars, netVars>>

\* release_gateway: sadd under the lock ...
PushGate(w) ==
    /\ At(w, "push") /\ gateLock = None
    /\ gates' = gates \cup {job[w].ip}
    /\ Goto(w, "erase")
    /\ UNCHANGED <<hostVars, conVars, gateway, gateLock>>

\* ... and the row is deleted after it.
EraseGate(w) ==
    /\ At(w, "erase")
    /\ gateway' = [gateway EXCEPT ![job[w].host] = None]
    /\ Done(w)
    /\ UNCHANGED <<hostVars, conVars, gates, gateLock>>

-----------------------------------------------------------------------------
HostStep(w) ==
    \/ Configure(w) \/ ConfigureFails(w) \/ ReadList(w) \/ StoreList(w)
    \/ ReadRest(w) \/ Unconfigure(w) \/ UnconfigureFails(w) \/ StoreRest(w)
    \/ \E e \in Eips : FreeEip(w, e)
ConStep(w) ==
    \/ Publish(w) \/ Own(w) \/ MarkBound(w)
    \/ Unpublish(w) \/ Unmark(w) \/ Disown(w) \/ Forget(w)
GateStep(w) ==
    \/ PopNoGate(w) \/ InsertGate(w) \/ InsertGateFails(w) \/ PushGate(w) \/ EraseGate(w)
    \/ \E g \in Gates : PopGate(w, g)
Request(w) ==
    \/ \E h \in Hosts :
          BeginRelease(w, h) \/ BeginGateway(w, h) \/ BeginDrop(w, h)
             \/ \E e \in Eips : TakeEip(w, h, e)
    \/ \E c \in Containers :
          BeginUnbind(w, c) \/ BeginDelete(w, c) \/ \E e \in Eips : PickEip(w, c, e)

Next ==
    \/ AddEip \/ DeleteEip
    \/ \E c \in Containers : Reset(c)
    \/ \E w \in Workers : Request(w) \/ HostStep(w) \/ ConStep(w) \/ GateStep(w)

Spec == Init /\ [][Next]_vars

-----------------------------------------------------------------------------
InHand(w, e) == job[w].ip = e /\ job[w].pc \in {"configure", "list", "store"}
Giving(h, e) == \E w \in Workers : At(w, "free") /\ job[w].host = h /\ e \notin job[w].todo
Erasing(h) == \E w \in Workers : At(w, "erase") /\ job[w].host = h

(* An elastic IP is in the pool, in the list of one host or in the hands   *)
(* of one request; it is in two places only while a host that has given it *)
(* back still lists it.  Host.bind_eip and release_eip, in which the pool, *)
(* the agent and the list are changed one after another and may fail.      *)
EipsConserved ==
    \A e \in Eips :
        /\ \/ e \in pool \cup (UNION {eips[h] : h \in Hosts}) \cup {NewEip}
           \/ \E w \in Workers : InHand(w, e)
        /\ \A w \in Workers :
              InHand(w, e) => e \notin pool /\ \A v \in Workers \ {w} : ~InHand(v, e)
        /\ \A h \in Hosts : e \in eips[h] =>
              \/ Giving(h, e)
              \/ /\ e \notin pool
                 /\ \A w \in Workers : ~InHand(w, e)
                 /\ \A k \in Hosts \ {h} : e \in eips[k] => Giving(k, e)

(* Two containers own one elastic IP only while the first is letting go of *)
(* it, even when it has moved to another host with the first container     *)
(* still bound: the mark outlives the host's list.  Between the look at    *)
(* the mark and its setting two requests may find the same address free    *)
(* (Container.bind_eip and check_eip_bound), so that this is so only when  *)
(* requests about one host do not overlap.                                 *)
OneOwner ==
    \A c, d \in Containers :
        c # d /\ eip[c] = eip[d] /\ eip[c] # None =>
            \E w \in Workers : At(w, "disown") /\ job[w].con \in {c, d}

(* Between requests that do not overlap, an elastic IP that a container    *)
(* has is marked with this container, which is not deleted, and one that   *)
(* is marked is the container's, unless its properties were replaced in    *)
(* the meantime: then the mark is left for good (Container.bind_eip,       *)
(* release_eip and delete, kill_container).                                *)
MarksAgree ==
    (\A w \in Workers : job[w].pc \notin ConPlaces) =>
        \A e \in Eips, c \in Containers :
            /\ eip[c] = e => mark[e] = c /\ state[c] = "alive"
            /\ mark[e] = c => eip[c] = e \/ c \in wiped

(* A gateway address is in the pool, in the row of one host or in the      *)
(* hands of one request; it is in the pool, or in a second row, only while *)
(* the row it has been released from is being deleted.                     *)
GatesConserved ==
    /\ \A g \in Gates :
          \/ g \in gates \/ \E h \in Hosts : gateway[h] = g
          \/ \E w \in Workers : At(w, "insert") /\ job[w].ip = g
    /\ \A h \in Hosts : gateway[h] # None =>
          \/ Erasing(h)
          \/ /\ gateway[h] \notin gates
             /\ \A k \in Hosts \ {h} : gateway[k] = gateway[h] => Erasing(k)

(* A container that was deleted is published nowhere ("when this record is *)
(* deleted, remember to release the resources it occupies").               *)
DeletedIsUnpublished ==
    \A c \in Containers : state[c] = "deleted" => \A e \in Eips : <<e, c>> \notin nat

=============================================================================
