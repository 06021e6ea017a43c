------------------------------- MODULE IPPool -------------------------------
(***************************************************************************)
(* Addresses of containers under the macvlan IPAM: the pool of a network   *)
(* is a Redis set (eru:network:%s:ips), an address in use has a row in the *)
(* SQL table `ip` (ipnum is unique), and the host's agent configures it on *)
(* the container's interface.  The module models eru/models/network.py     *)
(* (acquire_ip, acquire_specific_ip, release_ip, IP.create, IP.release),   *)
(* eru/ipam/macvlan.py (allocate_ips, reallocate_ips,                      *)
(* release_ip_by_container) and eru/helpers/network.py (five tries), as    *)
(* they are used when a container is deployed, bound to more networks,     *)
(* restarted and removed.                                                  *)
(*                                                                         *)
(* Several workers (Celery workers, API processes) run at once.  A step is *)
(* one Redis command, SQL commit or call of the agent; a command given     *)
(* under the Redis lock of a network waits for that lock.                  *)
(***************************************************************************)
EXTENDS Naturals, FiniteSets

CONSTANTS Networks, Addresses, Containers, Workers,
          NetworkOf,      \* the network an address belongs to
          MaxTries,       \* stop_max_attempt_number
          PartialAgent,   \* whether a failed call may have configured addresses
          NoAddress, NoContainer, Nobody,
          NoRow,          \* there is no row for the address
          Unassigned      \* the row names no container yet

ASSUME IPPoolAssumption ==
    /\ NetworkOf \in [Addresses -> Networks]
    /\ MaxTries \in Nat \ {0}
    /\ PartialAgent \in BOOLEAN
    /\ NoAddress \notin Addresses /\ NoContainer \notin Containers /\ Nobody \notin Workers
    /\ NoRow \notin Containers /\ Unassigned \notin Containers /\ NoRow # Unassigned

VARIABLES pool,   \* addresses in the Redis sets
          row,    \* container_id of the address's row, Unassigned or NoRow
          lock,   \* holder of 'net:acquire_ip:<id>'
          wire,   \* containers on whose interface an address is configured
          live,   \* what Docker says of a container; "stale": it runs and was
                  \* rebound while it ran
          pc, kind, con,   \* each worker: where it is, its job, the container
          want,   \* the networks the job asks for
          nets,   \* those it has still to acquire an address from
          spec,   \* the addresses it has still to acquire by name
          hand,   \* the address taken from the pool, without a row
          got,    \* the addresses it made rows for
          drop,   \* the rows it has still to release
          back,   \* the address put into the pool, whose row is still there
          tries

shared == <<pool, row, lock, wire, live>>
local  == <<pc, kind, con, want, nets, spec, hand, got, drop, back, tries>>
vars   == <<shared, local>>

Kinds == {"none", "deploy", "bind", "rebind", "remove"}
Places == {"idle", "list", "acquire", "claim", "create", "agent", "assign", "true",
           "undo", "free", "erase", "dead"}

TypeOK ==
    /\ pool \subseteq Addresses
    /\ row \in [Addresses -> Containers \cup {NoRow, Unassigned}]
    /\ lock \in [Networks -> Workers \cup {Nobody}]
    /\ wire \in [Addresses -> SUBSET Containers]
    /\ live \in [Containers -> {"new", "running", "stale", "stopped", "removed"}]
    /\ pc \in [Workers -> Places]
    /\ kind \in [Workers -> Kinds]
    /\ con \in [Workers -> Containers \cup {NoContainer}]
    /\ want \in [Workers -> SUBSET Networks]
    /\ nets \in [Workers -> SUBSET Networks]
    /\ spec \in [Workers -> SUBSET Addresses]
    /\ hand \in [Workers -> Addresses \cup {NoAddress}]
    /\ got \in [Workers -> SUBSET Addresses]
    /\ drop \in [Workers -> SUBSET Addresses]
    /\ back \in [Workers -> Addresses \cup {NoAddress}]
    /\ tries \in [Workers -> 0 .. MaxTries]

Init ==
    /\ pool = Addresses
    /\ row = [a \in Addresses |-> NoRow]
    /\ lock = [n \in Networks |-> Nobody]
    /\ wire = [a \in Addresses |-> {}]
    /\ live = [c \in Containers |-> "new"]
    /\ pc = [w \in Workers |-> "idle"]
    /\ kind = [w \in Workers |-> "none"]
    /\ con = [w \in Workers |-> NoContainer]
    /\ want = [w \in Workers |-> {}]
    /\ nets = [w \in Workers |-> {}]
    /\ spec = [w \in Workers |-> {}]
    /\ hand = [w \in Workers |-> NoAddress]
    /\ got = [w \in Workers |-> {}]
    /\ drop = [w \in Workers |-> {}]
    /\ back = [w \in Workers |-> NoAddress]
    /\ tries = [w \in Workers |-> 0]

-----------------------------------------------------------------------------
(* Jobs.                                                                   *)

RowsOf(c) == {a \in Addresses : row[a] = c}
Unwired(c) == [a \in Addresses |-> wire[a] \ {c}]
Goto(w, place) == pc' = [pc EXCEPT ![w] = place]

Runs(c) == live[c] \in {"running", "stale"}

\* A container is worked on by one job at a time.
Free(c) == \A w \in Workers : con[w] # c

\* A worker takes up a job for container c on the networks ns.
Begin(w, c, job, ns, place) ==
    /\ pc[w] = "idle"
    /\ Free(c)
    /\ Goto(w, place)
    /\ kind' = [kind EXCEPT ![w] = job]
    /\ con' = [con EXCEPT ![w] = c]
    /\ want' = [want EXCEPT ![w] = ns]
    /\ nets' = [nets EXCEPT ![w] = ns]
    /\ tries' = [tries EXCEPT ![w] = 1]

\* create_containers has created and recorded c and calls allocate_ips.
BeginDeploy(w, c, ns) ==
    /\ live[c] = "new"
    /\ Begin(w, c, "deploy", ns, "acquire")
    /\ live' = [live EXCEPT ![c] = "running"]
    /\ UNCHANGED <<pool, row, lock, wire, spec, hand, got, drop, back>>

\* bind_network: helpers.network.bind_container_ip.
BeginBind(w, c, ns) ==
    /\ Runs(c)
    /\ Begin(w, c, "bind", ns, "acquire")
    /\ UNCHANGED <<shared, spec, hand, got, drop, back>>

\* cure_container and start_container: helpers.network.rebind_container_ip of
\* a container that is recorded as dead.  It may run nevertheless, on a host
\* that was only out of reach (Host.kill) or after a report that came too late,
\* and keeps its interface; the record's own changes are no step here.
BeginRebind(w, c) ==
    /\ Runs(c) \/ live[c] = "stopped"
    /\ Begin(w, c, "rebind", {}, "list")
    /\ live' = [live EXCEPT ![c] = IF @ = "stopped" THEN "running" ELSE "stale"]
    /\ UNCHANGED <<pool, row, lock, wire, spec, hand, got, drop, back>>

\* Mutant: before the container is removed from Docker.
MutantBeginRemove(w, c) ==
    /\ Runs(c) \/ live[c] = "stopped"
    /\ Begin(w, c, "remove", {}, "free")
    /\ drop' = [drop EXCEPT ![w] = RowsOf(c)]
    /\ UNCHANGED <<shared, spec, hand, got, back>>

\* remove_containers has removed c from Docker and calls Container.delete,
\* which reads the rows of c and releases them.
BeginRemove(w, c) ==
    /\ Runs(c) \/ live[c] = "stopped"
    /\ Begin(w, c, "remove", {}, "free")
    /\ wire' = Unwired(c)
    /\ drop' = [drop EXCEPT ![w] = RowsOf(c)]
    /\ UNCHANGED <<pool, row, lock, live, spec, hand, got, back>>

\* A container's process ends and its network namespace goes with it.
Stop(c) ==
    /\ Runs(c)
    /\ Free(c)
    /\ live' = [live EXCEPT ![c] = "stopped"]
    /\ wire' = Unwired(c)
    /\ UNCHANGED <<pool, row, lock, local>>

\* The job is over.
End(w) ==
    /\ Goto(w, "idle")
    /\ kind' = [kind EXCEPT ![w] = "none"]
    /\ con' = [con EXCEPT ![w] = NoContainer]
    /\ want' = [want EXCEPT ![w] = {}]
    /\ tries' = [tries EXCEPT ![w] = 0]
    /\ UNCHANGED <<pool, row, lock, nets, spec, hand, got, drop, back>>

\* Nothing catches the exception (the retry meets a session that was not
\* rolled back and raises again): what the job still held is forgotten.
Die(w) ==
    /\ Goto(w, "dead")
    /\ kind' = [kind EXCEPT ![w] = "none"]
    /\ con' = [con EXCEPT ![w] = NoContainer]
    /\ want' = [want EXCEPT ![w] = {}]
    /\ nets' = [nets EXCEPT ![w] = {}]
    /\ spec' = [spec EXCEPT ![w] = {}]
    /\ tries' = [tries EXCEPT ![w] = 0]
    /\ UNCHANGED <<pool, row, wire, live, hand, got, drop, back>>

-----------------------------------------------------------------------------
(* Network.acquire_ip and acquire_specific_ip.                             *)

\* spop, under the lock that is kept until the row is made.
Pop(w, n, a) ==
    /\ pc[w] = "acquire"
    /\ n \in nets[w]
    /\ lock[n] = Nobody
    /\ a \in pool /\ NetworkOf[a] = n
    /\ lock' = [lock EXCEPT ![n] = w]
    /\ pool' = pool \ {a}
    /\ hand' = [hand EXCEPT ![w] = a]
    /\ nets' = [nets EXCEPT ![w] = @ \ {n}]
    /\ Goto(w, "create")
    /\ UNCHANGED <<row, wire, live, kind, con, want, spec, got, drop, back, tries>>

\* The set is empty: None, which allocate_ips leaves out of its list.
PopNothing(w, n) ==
    /\ pc[w] = "acquire"
    /\ n \in nets[w]
    /\ lock[n] = Nobody
    /\ \A a \in pool : NetworkOf[a] # n
    /\ nets' = [nets EXCEPT ![w] = @ \ {n}]
    /\ UNCHANGED <<shared, pc, kind, con, want, spec, hand, got, drop, back, tries>>

\* Mutant: without redis_lock.
MutantFind(w, a) ==
    /\ pc[w] = "acquire"
    /\ a \in spec[w]
    /\ a \in pool
    /\ hand' = [hand EXCEPT ![w] = a]
    /\ spec' = [spec EXCEPT ![w] = @ \ {a}]
    /\ Goto(w, "claim")
    /\ UNCHANGED <<pool, row, lock, wire, live, kind, con, want, nets, got, drop, back, tries>>

\* sismember, under the lock ...
Find(w, a) ==
    /\ pc[w] = "acquire"
    /\ a \in spec[w]
    /\ lock[NetworkOf[a]] = Nobody
    /\ a \in pool
    /\ lock' = [lock EXCEPT ![NetworkOf[a]] = w]
    /\ hand' = [hand EXCEPT ![w] = a]
    /\ spec' = [spec EXCEPT ![w] = @ \ {a}]
    /\ Goto(w, "claim")
    /\ UNCHANGED <<pool, row, wire, live, kind, con, want, nets, got, drop, back, tries>>

FindNothing(w, a) ==
    /\ pc[w] = "acquire"
    /\ a \in spec[w]
    /\ lock[NetworkOf[a]] = Nobody
    /\ a \notin pool
    /\ spec' = [spec EXCEPT ![w] = @ \ {a}]
    /\ UNCHANGED <<shared, pc, kind, con, want, nets, hand, got, drop, back, tries>>

\* ... and srem.
Claim(w) ==
    /\ pc[w] = "claim"
    /\ pool' = pool \ {hand[w]}
    /\ Goto(w, "create")
    /\ UNCHANGED <<row, lock, wire, live, kind, con, want, nets, spec, hand, got, drop, back,
                   tries>>

\* IP.create commits a row and the lock goes.
CreateRow(w) ==
    /\ pc[w] = "create"
    /\ row[hand[w]] = NoRow
    /\ row' = [row EXCEPT ![hand[w]] = Unassigned]
    /\ got' = [got EXCEPT ![w] = @ \cup {hand[w]}]
    /\ hand' = [hand EXCEPT ![w] = NoAddress]
    /\ lock' = [lock EXCEPT ![NetworkOf[hand[w]]] = Nobody]
    /\ Goto(w, "acquire")
    /\ UNCHANGED <<pool, wire, live, kind, con, want, nets, spec, drop, back, tries>>

\* The address still has a row: IntegrityError.  The lock goes, and the
\* address is in no pool.
CreateRowFails(w) ==
    /\ pc[w] = "create"
    /\ row[hand[w]] # NoRow
    /\ lock' = [lock EXCEPT ![NetworkOf[hand[w]]] = Nobody]
    /\ Die(w)

-----------------------------------------------------------------------------
(* allocate_ips once the addresses are there.                              *)

Acquired(w) ==
    /\ pc[w] = "acquire"
    /\ nets[w] = {} /\ spec[w] = {}
    /\ Goto(w, "agent")
    /\ UNCHANGED <<shared, kind, con, want, nets, spec, hand, got, drop, back, tries>>

Wired(w, A) == [a \in Addresses |-> IF a \in A THEN wire[a] \cup {con[w]} ELSE wire[a]]

AgentOk(w) ==
    /\ pc[w] = "agent"
    /\ wire' = Wired(w, got[w])
    /\ Goto(w, "assign")
    /\ UNCHANGED <<pool, row, lock, live, kind, con, want, nets, spec, hand, got, drop, back,
                   tries>>

\* Mutant: without _release_ips.
MutantAgentFails(w) ==
    /\ pc[w] = "agent"
    /\ Goto(w, "true")
    /\ UNCHANGED <<shared, kind, con, want, nets, spec, hand, got, drop, back, tries>>

\* No answer, an error, or an answer that says not every address succeeded.
AgentFails(w) ==
    /\ pc[w] = "agent"
    /\ \E A \in IF PartialAgent THEN SUBSET got[w] ELSE {{}} : wire' = Wired(w, A)
    /\ Goto(w, "undo")
    /\ UNCHANGED <<pool, row, lock, live, kind, con, want, nets, spec, hand, got, drop, back,
                   tries>>

\* set_vethname and assigned_to_container.
Assign(w, a) ==
    /\ pc[w] = "assign"
    /\ a \in got[w]
    /\ row' = [row EXCEPT ![a] = con[w]]
    /\ got' = [got EXCEPT ![w] = @ \ {a}]
    /\ UNCHANGED <<pool, lock, wire, live, pc, kind, con, want, nets, spec, hand, drop, back,
                   tries>>

AllAssigned(w) ==
    /\ pc[w] = "assign"
    /\ got[w] = {}
    /\ Goto(w, "true")
    /\ UNCHANGED <<shared, kind, con, want, nets, spec, hand, got, drop, back, tries>>

Return(w) ==
    /\ pc[w] = "true"
    /\ End(w)
    /\ UNCHANGED <<wire, live>>

-----------------------------------------------------------------------------
(* IP.release: the address goes into the pool under the lock, then the row *)
(* is deleted and committed without it.                                    *)

GiveBack(w, a) ==
    /\ \/ pc[w] = "undo" /\ a \in got[w]
       \/ pc[w] = "free" /\ a \in drop[w]
    /\ lock[NetworkOf[a]] = Nobody
    /\ pool' = pool \cup {a}
    /\ back' = [back EXCEPT ![w] = a]
    /\ Goto(w, "erase")
    /\ UNCHANGED <<row, lock, wire, live, kind, con, want, nets, spec, hand, got, drop, tries>>

\* A row is deleted by its id: one made since by another job stays.
Erase(w) ==
    /\ pc[w] = "erase"
    /\ row' = [row EXCEPT ![back[w]] = IF back[w] \in got[w] \/ @ = con[w] THEN NoRow ELSE @]
    /\ got' = [got EXCEPT ![w] = @ \ {back[w]}]
    /\ drop' = [drop EXCEPT ![w] = @ \ {back[w]}]
    /\ back' = [back EXCEPT ![w] = NoAddress]
    /\ Goto(w, IF back[w] \in got[w] THEN "undo" ELSE "free")
    /\ UNCHANGED <<pool, lock, wire, live, kind, con, want, nets, spec, hand, tries>>

-----------------------------------------------------------------------------
(* What follows a failed allocation, and the end of the releases.          *)

\* allocate_ips returned False: a new container is cleaned away, the helpers
\* try again, MaxTries times in all.
Undone(w) == pc[w] = "undo" /\ got[w] = {}

\* Mutant: without stop_max_attempt_number.
MutantRetry(w) ==
    /\ Undone(w)
    /\ kind[w] # "deploy"
    /\ tries' = [tries EXCEPT ![w] = @ + 1]
    /\ nets' = [nets EXCEPT ![w] = IF kind[w] = "bind" THEN want[w] ELSE {}]
    /\ Goto(w, IF kind[w] = "bind" THEN "acquire" ELSE "list")
    /\ UNCHANGED <<shared, kind, con, want, spec, hand, got, drop, back>>

Retry(w) ==
    /\ Undone(w)
    /\ kind[w] # "deploy"
    /\ tries[w] < MaxTries
    /\ tries' = [tries EXCEPT ![w] = @ + 1]
    /\ nets' = [nets EXCEPT ![w] = IF kind[w] = "bind" THEN want[w] ELSE {}]
    /\ Goto(w, IF kind[w] = "bind" THEN "acquire" ELSE "list")
    /\ UNCHANGED <<shared, kind, con, want, spec, hand, got, drop, back>>

\* RetryError is logged and passed over.
GiveUp(w) ==
    /\ Undone(w)
    /\ kind[w] # "deploy"
    /\ tries[w] = MaxTries
    /\ End(w)
    /\ UNCHANGED <<wire, live>>

\* _clean_failed_containers; no row names the container.
Clean(w) ==
    /\ Undone(w)
    /\ kind[w] = "deploy"
    /\ wire' = Unwired(con[w])
    /\ live' = [live EXCEPT ![con[w]] = "removed"]
    /\ End(w)

\* reallocate_ips: the container's addresses are the ones to acquire again.
\* A container without any (a retry, say) is done: allocate_ips returns True.
ListRows(w) ==
    /\ pc[w] = "list"
    /\ LET mine == RowsOf(con[w]) IN
       /\ drop' = [drop EXCEPT ![w] = mine]
       /\ spec' = [spec EXCEPT ![w] = mine]
       /\ want' = [want EXCEPT ![w] = IF tries[w] = 1 THEN {NetworkOf[a] : a \in mine} ELSE @]
       /\ Goto(w, IF mine = {} THEN "true" ELSE "free")
    /\ UNCHANGED <<shared, kind, con, nets, hand, got, back, tries>>

Freed(w) ==
    /\ pc[w] = "free"
    /\ drop[w] = {}
    /\ kind[w] = "rebind"
    /\ Goto(w, "acquire")
    /\ UNCHANGED <<shared, kind, con, want, nets, spec, hand, got, drop, back, tries>>

\* The rest of Container.delete.
Forget(w) ==
    /\ pc[w] = "free"
    /\ drop[w] = {}
    /\ kind[w] = "remove"
    /\ live' = [live EXCEPT ![con[w]] = "removed"]
    /\ End(w)
    /\ UNCHANGED wire

-----------------------------------------------------------------------------
Work(w) ==
    \/ \E n \in Networks : PopNothing(w, n) \/ \E a \in Addresses : Pop(w, n, a)
    \/ \E a \in Addresses :
          \/ Find(w, a) \/ FindNothing(w, a) \/ Assign(w, a)
          \/ GiveBack(w, a)
    \/ Claim(w) \/ CreateRow(w) \/ CreateRowFails(w)
    \/ Acquired(w) \/ AgentOk(w) \/ AgentFails(w) \/ AllAssigned(w) \/ Return(w)
    \/ Erase(w) \/ Retry(w) \/ GiveUp(w) \/ Clean(w) \/ ListRows(w) \/ Freed(w) \/ Forget(w)

TakeJob(w, c) ==
    \/ \E ns \in SUBSET Networks \ {{}} : BeginDeploy(w, c, ns) \/ BeginBind(w, c, ns)
    \/ BeginRebind(w, c)
    \/ BeginRemove(w, c)

\* Nothing is left to do; no other state may be without a successor.
AllDone ==
    /\ \A w \in Workers : pc[w] \in {"idle", "dead"}
    /\ UNCHANGED vars

Next ==
    \/ \E w \in Workers : Work(w) \/ \E c \in Containers : TakeJob(w, c)
    \/ \E c \in Containers : Stop(c)
    \/ AllDone

Spec == Init /\ [][Next]_vars

-----------------------------------------------------------------------------
Releasing(a) == \E w \in Workers : pc[w] = "erase" /\ back[w] = a

\* A job that dies of the row of an address it took loses the address.
Lost == {a \in Addresses : \E w \in Workers : pc[w] = "dead" /\ hand[w] = a}

(* An address is in the pool, in use or in the hand of a job that has its  *)
(* network locked, unless a job died of the row it still had; and it       *)
(* leaves the pool for one job only: while its row is being deleted it is  *)
(* both in the pool and in use, which is the one overlap.  acquire_ip,     *)
(* acquire_specific_ip and IP.release, none of which is one transaction.   *)
AddressesConserved ==
    /\ \A a \in Addresses \ Lost :
          \/ a \in pool
          \/ row[a] # NoRow
          \/ \E w \in Workers : hand[w] = a /\ lock[NetworkOf[a]] = w
    /\ \A a \in pool : row[a] # NoRow => Releasing(a)
    /\ \A v, w \in Workers : v # w /\ hand[v] # NoAddress => hand[v] # hand[w]

(* When no job is left, and none died, every address is in the pool or has *)
(* a row that names a container which is still recorded: no failed         *)
(* allocation, retry or removal leaks one.                                 *)
NothingLeaked ==
    (\A w \in Workers : pc[w] = "idle") =>
        \A a \in Addresses :
            IF a \in pool THEN row[a] = NoRow
            ELSE row[a] \in Containers /\ live[row[a]] # "removed"

(* No two containers have one address configured, whatever the order of    *)
(* releases and acquisitions: the unique row is made before the agent is   *)
(* called, and the interface is gone before the row.  The exception is a   *)
(* container that was rebound while it ran, because its record said that   *)
(* it was dead: reallocate_ips releases what it still has configured, and  *)
(* another container may be given it.  It holds of an agent that           *)
(* configures all of a request's addresses or none (~PartialAgent).        *)
NoAddressTwice ==
    \A a \in Addresses : \A c, d \in wire[a] :
        c = d \/ "stale" \in {live[c], live[d]}

-----------------------------------------------------------------------------
\* Who has an address: nobody what is in the pool; the job in whose hand it is
\* or that made its row, until it gives it back; the container its row names.
Holders(a) ==
    IF a \in pool THEN {}
    ELSE {w \in Workers : hand[w] = a \/ (a \in got[w] /\ back[w] # a)}
         \cup {c \in Containers : row[a] = c /\ \A w \in Workers : back[w] # a}

Book == INSTANCE AddressBook WITH holders <- [a \in Addresses |-> Holders(a)]

(* The commands of acquire_ip, acquire_specific_ip, IP.release and the     *)
(* assignment, however those of several jobs interleave, come to taking,   *)
(* granting and returning one address at a time, as AddressBook has it:    *)
(* never does an address have two holders or pass from one to another      *)
(* without having been free, although it is free before its row is gone.   *)
KeepsTheBook == Book!Spec

=============================================================================
