-------------------------------- MODULE IPAM --------------------------------
(***************************************************************************)
(* The two IPAMs behind one interface: eru/ipam/__init__.py makes `ipam` a *)
(* MacVLANIPAM or a CalicoIPAM from NETWORK_PROVIDER when the process      *)
(* starts, and the rest of the program only ever calls `ipam`.             *)
(***************************************************************************)
EXTENDS IPPool, Sequences

CONSTANTS Providers,   \* the values NETWORK_PROVIDER may have
          Names, NoName, NoNetwork

ASSUME IPAMAssumption == Providers \subseteq {"macvlan", "calico"} /\ NoName \notin Names

VARIABLES provider,                                  \* NETWORK_PROVIDER
          ippool, profile, nameOf, held, endpoint, stray, record, job   \* of Calico

CalicoIPAM == INSTANCE Calico

calicoVars == <<ippool, profile, nameOf, held, endpoint, stray, record, job>>

ProviderInit ==
    /\ provider \in Providers
    /\ Init
    /\ CalicoIPAM!Init

ProviderNext ==
    \/ provider = "macvlan" /\ Next /\ UNCHANGED <<provider, calicoVars>>
    \/ provider = "calico" /\ CalicoIPAM!Next /\ UNCHANGED <<provider, vars>>

ProviderSpec == ProviderInit /\ [][ProviderNext]_<<vars, provider, calicoVars>>

-----------------------------------------------------------------------------
(* calico.py's allocate_ips, reallocate_ips and release_ip_by_container    *)
(* never leave one address on the endpoints of two containers, see Calico. *)
EndpointsHeld == CalicoIPAM!EndpointsHeld

(* calico.py leaves no address assigned without a container, see Calico.   *)
HeldForSomebody == CalicoIPAM!HeldForSomebody

(* calico.py's add_ip_pool names a network last, see Calico.               *)
NamedIsWhole == CalicoIPAM!NamedIsWhole

=============================================================================
