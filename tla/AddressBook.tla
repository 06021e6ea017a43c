----------------------------- MODULE AddressBook -----------------------------
(***************************************************************************)
(* What the macvlan IPAM promises of its addresses: each is free, or taken *)
(* by one job, or one container's; and it becomes a container's by being   *)
(* free and taken by a job first.  Taking, granting and returning an       *)
(* address happen at once.                                                 *)
(***************************************************************************)
CONSTANTS Addresses, Workers, Containers

VARIABLE holders   \* the workers and containers that have an address

Init == holders = [a \in Addresses |-> {}]

\* Network.acquire_ip or acquire_specific_ip.
Acquire(w, a) ==
    /\ holders[a] = {}
    /\ holders' = [holders EXCEPT ![a] = {w}]

\* IP.assigned_to_container.
Assign(w, c, a) ==
    /\ holders[a] = {w}
    /\ holders' = [holders EXCEPT ![a] = {c}]

\* IP.release.
Release(a) == holders' = [holders EXCEPT ![a] = {}]

\* A step of the book changes it: to release what nobody has is none.
Next ==
    /\ holders' # holders
    /\ \E a \in Addresses :
          \/ \E w \in Workers : Acquire(w, a) \/ \E c \in Containers : Assign(w, c, a)
          \/ Release(a)

Spec == Init /\ [][Next]_holders

=============================================================================
