------------------------------- MODULE Calico -------------------------------
(***************************************************************************)
(* Addresses of containers under the Calico IPAM (eru/ipam/calico.py): the *)
(* pools, the profiles, the assigned addresses and the endpoints of the    *)
(* containers are in Calico's datastore, the name of a pool in Redis.  The *)
(* agent assigns: allocate_ips hands it a CIDR per network, or addresses,  *)
(* and it records an endpoint for each address it could assign.            *)
(*                                                                         *)
(* The module models add_ip_pool with profile_rule_add_remove, get_pool,   *)
(* allocate_ips, reallocate_ips and release_ip_by_container as they are    *)
(* called when a network is created and when a container is deployed,      *)
(* bound, restarted and removed.  A step is one call of pycalico, Redis or *)
(* the agent.  Networks of one name are created one at a time; a container *)
(* is worked on by one job at a time.                                      *)
(***************************************************************************)
EXTENDS Naturals, FiniteSets, Sequences

CONSTANTS Networks,       \* networks, known by their CIDR
          Names,          \* names of networks, and so of profiles
          Addresses, Containers, Workers,
          NetworkOf,      \* the network whose CIDR an address is in
          MaxTries,       \* stop_max_attempt_number
          NoName, NoContainer, NoNetwork, NoAddress

VARIABLES ippool,    \* pools in the datastore
          profile,   \* rules of the profile of a name, {} where there is none
          nameOf,    \* eru:ipam:calico:%s:pool
          held,      \* addresses Calico counts as assigned
          endpoint,  \* addresses of the endpoints of a container
          stray,     \* history: addresses a failed call of the agent had asked for
          record,    \* what Docker and the record say of a container
          job        \* what each worker does

store == <<ippool, profile, nameOf>>
vars  == <<store, held, endpoint, stray, record, job>>

Rules == <<"icmp", "tcp", "udp">>
RuleSet == {"icmp", "tcp", "udp"}

Idle == [at |-> "idle", kind |-> "none", con |-> NoContainer, name |-> NoName,
         net |-> NoNetwork, rules |-> <<>>, seen |-> {}, again |-> FALSE, nets |-> {}, spec |-> {}, drop |-> {},
         gone |-> NoAddress, tries |-> 0]

\* The types of the variables.
TypeOK ==
    /\ ippool \subseteq Networks
    /\ profile \in [Names -> SUBSET RuleSet]
    /\ nameOf \in [Networks -> Names \cup {NoName}]
    /\ held \subseteq Addresses
    /\ endpoint \in [Containers -> SUBSET Addresses]
    /\ stray \subseteq Addresses
    /\ record \in [Containers -> {"new", "running", "stopped", "removed"}]
    /\ \A w \in Workers :
        /\ job[w].at \in {"idle", "profile", "rules", "update", "ask", "undo", "list",
                          "free", "detach"}
        /\ job[w].kind \in {"none", "network", "deploy", "bind", "rebind", "remove"}
        /\ job[w].con \in Containers \cup {NoContainer}
        /\ job[w].seen \subseteq RuleSet /\ job[w].again \in BOOLEAN
        /\ job[w].nets \subseteq Networks /\ job[w].spec \subseteq Addresses
        /\ job[w].drop \subseteq Addresses /\ job[w].gone \in Addresses \cup {NoAddress}
        /\ job[w].tries \in 0 .. MaxTries

Init ==
    /\ ippool = {}
    /\ profile = [n \in Names |-> {}]
    /\ nameOf = [n \in Networks |-> NoName]
    /\ held = {}
    /\ endpoint = [c \in Containers |-> {}]
    /\ stray = {}
    /\ record = [c \in Containers |-> "new"]
    /\ job = [w \in Workers |-> Idle]

Set(w, j) == job' = [job EXCEPT ![w] = j]
Goto(w, place) == job' = [job EXCEPT ![w].at = place]

-----------------------------------------------------------------------------
(* add_ip_pool, one call of the datastore after the other.                 *)

\* add_ip_pool replaces a pool of the same CIDR.  History: whether a network
\* has the name already.
AddPool(w, n, name) ==
    /\ job[w].at = "idle"
    /\ \A v \in Workers : job[v].name # name
    /\ ippool' = ippool \cup {n}
    /\ Set(w, [Idle EXCEPT !.at = "profile", !.kind = "network", !.net = n, !.name = name,
                           !.rules = Rules, !.again = \E m \in Networks : nameOf[m] = name])
    /\ UNCHANGED <<profile, nameOf, held, endpoint, stray, record>>

\* create_profile writes the profile anew, without rules.
CreateProfile(w) ==
    /\ job[w].at = "profile"
    /\ profile' = [profile EXCEPT ![job[w].name] = {}]
    /\ Goto(w, "rules")
    /\ UNCHANGED <<ippool, nameOf, held, endpoint, stray, record>>

\* profile_rule_add_remove('add', name, None, 'allow', 'inbound', protocol):
\* a rule that is among those the profile has is left alone ...
ReadRules(w) ==
    LET rules == profile[job[w].name] IN
    /\ job[w].at = "rules"
    /\ job[w].rules # <<>>
    /\ job' = IF Head(job[w].rules) \in rules
              THEN [job EXCEPT ![w].rules = Tail(@)]
              ELSE [job EXCEPT ![w].at = "update", ![w].seen = rules]
    /\ UNCHANGED <<store, held, endpoint, stray, record>>

\* ... and otherwise added to what was read.
WriteRules(w) ==
    /\ job[w].at = "update"
    /\ profile' = [profile EXCEPT ![job[w].name] = job[w].seen \cup {Head(job[w].rules)}]
    /\ job' = [job EXCEPT ![w].at = "rules", ![w].rules = Tail(@), ![w].seen = {}]
    /\ UNCHANGED <<ippool, nameOf, held, endpoint, stray, record>>

\* Mutant: before the rules are there.
MutantNamePool(w) ==
    /\ job[w].at = "rules"
    /\ nameOf' = [nameOf EXCEPT ![job[w].net] = job[w].name]
    /\ Set(w, Idle)
    /\ UNCHANGED <<ippool, profile, held, endpoint, stray, record>>

\* The two Redis keys, of which only the one from the CIDR is ever read.
NamePool(w) ==
    /\ job[w].at = "rules"
    /\ job[w].rules = <<>>
    /\ nameOf' = [nameOf EXCEPT ![job[w].net] = job[w].name]
    /\ Set(w, Idle)
    /\ UNCHANGED <<ippool, profile, held, endpoint, stray, record>>

-----------------------------------------------------------------------------
(* Jobs on containers.                                                     *)

Untouched(c) == \A w \in Workers : job[w].con # c

Begin(w, c, what, place) ==
    /\ job[w].at = "idle"
    /\ Untouched(c)
    /\ Set(w, [Idle EXCEPT !.at = place, !.kind = what.kind, !.con = c, !.nets = what.nets,
                           !.spec = what.spec, !.tries = 1])

\* create_containers has created and recorded c and calls allocate_ips with
\* the CIDRs, or with the addresses the request gave (one, to keep it small).
BeginDeploy(w, c, ns, ips) ==
    /\ record[c] = "new"
    /\ Begin(w, c, [kind |-> "deploy", nets |-> ns, spec |-> ips], "ask")
    /\ record' = [record EXCEPT ![c] = "running"]
    /\ UNCHANGED <<store, held, endpoint, stray>>

\* bind_network: bind_container_ip.
BeginBind(w, c, ns) ==
    /\ record[c] = "running"
    /\ Begin(w, c, [kind |-> "bind", nets |-> ns, spec |-> {}], "ask")
    /\ UNCHANGED <<store, held, endpoint, stray, record>>

\* start_container and cure_container: rebind_container_ip of a container that
\* is recorded as dead, which it may be while it runs.
BeginRebind(w, c) ==
    /\ record[c] \in {"running", "stopped"}
    /\ Begin(w, c, [kind |-> "rebind", nets |-> {}, spec |-> {}], "list")
    /\ record' = [record EXCEPT ![c] = "running"]
    /\ UNCHANGED <<store, held, endpoint, stray>>

\* remove_containers: Container.delete calls release_ip_by_container.
BeginRemove(w, c) ==
    /\ record[c] \in {"running", "stopped"}
    /\ Begin(w, c, [kind |-> "remove", nets |-> {}, spec |-> {}], "list")
    /\ UNCHANGED <<store, held, endpoint, stray, record>>

\* The process of a container ends; its endpoints stay in the datastore.
Stop(c) ==
    /\ record[c] = "running"
    /\ Untouched(c)
    /\ record' = [record EXCEPT ![c] = "stopped"]
    /\ UNCHANGED <<store, held, endpoint, stray, job>>

-----------------------------------------------------------------------------
(* allocate_ips.                                                           *)

\* get_pool finds the pool of every CIDR or address: pools are never removed.
PoolsFound(w) == job[w].nets \cup {NetworkOf[a] : a \in job[w].spec} \subseteq ippool

\* An address outside every pool: get_pool reads the CIDR of None, nothing
\* catches it, and the container stays.
AskFails(w) ==
    /\ job[w].at = "ask"
    /\ ~PoolsFound(w)
    /\ Set(w, Idle)
    /\ UNCHANGED <<store, held, endpoint, stray, record>>

\* What the agent may be asked to assign: the addresses given, or else one
\* of each network.
Wanted(w) ==
    IF job[w].spec # {} THEN {job[w].spec}
    ELSE {A \in SUBSET {a \in Addresses : NetworkOf[a] \in job[w].nets} :
            \A n \in job[w].nets : Cardinality({a \in A : NetworkOf[a] = n}) = 1}

\* The agent assigns A and records the endpoints.
Assign(w, A) ==
    /\ A \cap held = {}
    /\ held' = held \cup A
    /\ endpoint' = [endpoint EXCEPT ![job[w].con] = @ \cup A]

\* Every address succeeded: allocate_ips returns True.
AgentOk(w) ==
    /\ job[w].at = "ask"
    /\ PoolsFound(w)
    /\ \E A \in Wanted(w) : Assign(w, A)
    /\ Set(w, Idle)
    /\ UNCHANGED <<store, stray, record>>

\* No answer, an error, or an answer in which not every address succeeded.
AgentFails(w) ==
    /\ job[w].at = "ask"
    /\ PoolsFound(w)
    /\ \E A \in UNION {SUBSET B : B \in Wanted(w)} : Assign(w, A)
    /\ Goto(w, "undo")
    /\ UNCHANGED <<store, stray, record>>

\* _release_ips(ip_list): a list of CIDRs is no list of addresses, and
\* nothing is released; addresses are, whoever holds them and although some
\* may be on endpoints of this container.  allocate_ips returns False.
ReleaseAsked(w) ==
    /\ job[w].at = "undo"
    /\ held' = held \ job[w].spec
    /\ stray' = stray \cup job[w].spec
    /\ UNCHANGED <<store, endpoint>>

\* The helpers try again: bind_container_ip for every CIDR, also those that
\* succeeded; rebind_container_ip from the endpoints there are now.
Retry(w) ==
    /\ ReleaseAsked(w)
    /\ job[w].kind \in {"bind", "rebind"}
    /\ job[w].tries < MaxTries
    /\ job' = [job EXCEPT ![w].tries = @ + 1, ![w].spec = {},
                          ![w].at = IF job[w].kind = "bind" THEN "ask" ELSE "list"]
    /\ UNCHANGED record

\* RetryError is logged and passed over.
GiveUp(w) ==
    /\ ReleaseAsked(w)
    /\ job[w].kind \in {"bind", "rebind"}
    /\ job[w].tries = MaxTries
    /\ Set(w, Idle)
    /\ UNCHANGED record

\* Mutant: the container is removed without releasing what it has.
MutantClean(w) ==
    /\ ReleaseAsked(w)
    /\ job[w].kind = "deploy"
    /\ record' = [record EXCEPT ![job[w].con] = "removed"]
    /\ Set(w, Idle)

\* _clean_failed_containers removes the container and calls its delete.
Clean(w) ==
    /\ ReleaseAsked(w)
    /\ job[w].kind = "deploy"
    /\ job' = [job EXCEPT ![w].at = "list", ![w].kind = "remove"]
    /\ UNCHANGED record

-----------------------------------------------------------------------------
(* release_ip_by_container, alone or as the first half of reallocate_ips.  *)

\* _get_container_ips and get_endpoints.  A rebind of a container without
\* endpoints ends here: allocate_ips of nothing returns True.
ListEndpoints(w) ==
    /\ job[w].at = "list"
    /\ LET mine == endpoint[job[w].con] IN
       job' = [job EXCEPT ![w].drop = mine, ![w].at = "free",
                             ![w].spec = IF job[w].kind = "rebind" THEN mine ELSE {}]
    /\ UNCHANGED <<store, held, endpoint, stray, record>>

\* release_ips of one endpoint ...
FreeAddress(w, a) ==
    /\ job[w].at = "free"
    /\ a \in job[w].drop
    /\ held' = held \ {a}
    /\ job' = [job EXCEPT ![w].at = "detach", ![w].gone = a]
    /\ UNCHANGED <<store, endpoint, stray, record>>

\* Mutant: the endpoint stays.
MutantRemoveEndpoint(w) ==
    /\ job[w].at = "detach"
    /\ job' = [job EXCEPT ![w].at = "free", ![w].gone = NoAddress, ![w].drop = @ \ {job[w].gone}]
    /\ UNCHANGED <<store, held, endpoint, stray, record>>

\* ... and remove_endpoint: in between the address may be another's.
RemoveEndpoint(w) ==
    /\ job[w].at = "detach"
    /\ endpoint' = [endpoint EXCEPT ![job[w].con] = @ \ {job[w].gone}]
    /\ job' = [job EXCEPT ![w].at = "free", ![w].gone = NoAddress, ![w].drop = @ \ {job[w].gone}]
    /\ UNCHANGED <<store, held, stray, record>>

\* reallocate_ips goes on with the addresses it has listed.
Reallocate(w) ==
    /\ job[w].at = "free"
    /\ job[w].drop = {}
    /\ job[w].kind = "rebind"
    /\ IF job[w].spec = {} THEN Set(w, Idle) ELSE Goto(w, "ask")
    /\ UNCHANGED <<store, held, endpoint, stray, record>>

\* The rest of Container.delete.
Forget(w) ==
    /\ job[w].at = "free"
    /\ job[w].drop = {}
    /\ job[w].kind = "remove"
    /\ record' = [record EXCEPT ![job[w].con] = "removed"]
    /\ Set(w, Idle)
    /\ UNCHANGED <<store, held, endpoint, stray>>

-----------------------------------------------------------------------------
Work(w) ==
    \/ CreateProfile(w) \/ ReadRules(w) \/ WriteRules(w) \/ NamePool(w)
    \/ AskFails(w) \/ AgentOk(w) \/ AgentFails(w)
    \/ Retry(w) \/ GiveUp(w) \/ Clean(w)
    \/ ListEndpoints(w) \/ RemoveEndpoint(w) \/ Reallocate(w) \/ Forget(w)
    \/ \E a \in Addresses : FreeAddress(w, a)

TakeJob(w) ==
    \/ \E n \in Networks, name \in Names : AddPool(w, n, name)
    \/ \E c \in Containers :
        \/ \E ns \in SUBSET ippool \ {{}} : BeginDeploy(w, c, ns, {}) \/ BeginBind(w, c, ns)
        \/ \E a \in Addresses : BeginDeploy(w, c, {}, {a})
        \/ BeginRebind(w, c) \/ BeginRemove(w, c)

Next ==
    \/ \E w \in Workers : Work(w) \/ TakeJob(w)
    \/ \E c \in Containers : Stop(c)

Detaching(c, a) ==
    \E w \in Workers : job[w].at = "detach" /\ job[w].con = c /\ job[w].gone = a

(* An address on an endpoint is assigned, and on the endpoints of one      *)
(* container only, whatever fails and however allocations, retries and     *)
(* releases interleave, but for two reasons: release_ip_by_container       *)
(* releases the address before it removes the endpoint, and a failed call  *)
(* of the agent releases the addresses it asked for, whoever has them      *)
(* (allocate_ips with spec_ips).                                           *)
EndpointsHeld ==
    \A a \in Addresses \ stray :
        LET on == {c \in Containers : a \in endpoint[c] /\ ~Detaching(c, a)} IN
        \A c, d \in on : c = d /\ a \in held

(* When no job is left, every assigned address is on an endpoint of a      *)
(* container that is still recorded: although a failed allocation of CIDRs *)
(* releases nothing, what it has got is on endpoints and goes with the     *)
(* container (release_ip_by_container).                                    *)
HeldForSomebody ==
    (\A w \in Workers : job[w].at = "idle") =>
        \A a \in held : \E c \in Containers : a \in endpoint[c] /\ record[c] # "removed"

(* A network that has its name, under which the agent puts containers into *)
(* a profile, has a pool and all the rules of the profile: add_ip_pool     *)
(* sets the name last, after every rule was read for, added and written.   *)
(* Only a later creation under the same name empties the profile of one    *)
(* that has its name, until that is done.                                  *)
NamedIsWhole ==
    \A n \in Networks : nameOf[n] # NoName =>
        /\ n \in ippool
        /\ \/ profile[nameOf[n]] = RuleSet
           \/ \E w \in Workers : job[w].again /\ job[w].name = nameOf[n]

=============================================================================
