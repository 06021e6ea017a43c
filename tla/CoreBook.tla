------------------------------ MODULE CoreBook ------------------------------
(***************************************************************************)
(* What the deployment of containers promises about the fragments of the   *)
(* cores of a pod's hosts: each is free, owed to a task that has not put   *)
(* it into a container yet, or used by one container.  Requests and        *)
(* removals come to moving an amount of fragments, whole, from one of      *)
(* these places to the next; only after a worker died are some lost.       *)
(***************************************************************************)
EXTENDS Integers

CONSTANTS Hosts, Cores, CoresOf, CoreShare, Requests

VARIABLES free,   \* free[h][c]: fragments of core c of host h that are free
          owed,   \* owed[t][c]: of the host of task t, that the task still has
          used,   \* used[b][c]: of the host of container b, that it has
          died    \* whether a worker died

book == <<free, owed, used, died>>

Tasks == Requests \X Hosts
Amounts == [Cores -> 0 .. CoreShare]
Nothing == [c \in Cores |-> 0]
Plus(a, d) == [c \in Cores |-> a[c] + d[c]]
Minus(a, d) == [c \in Cores |-> a[c] - d[c]]
Within(d, a) == \A c \in Cores : d[c] <= a[c]

Init ==
    /\ free = [h \in Hosts |-> [c \in Cores |-> IF c \in CoresOf[h] THEN CoreShare ELSE 0]]
    /\ owed = [t \in Tasks |-> Nothing]
    /\ used = [b \in {} |-> Nothing]
    /\ died = FALSE

\* A task gets, once, what is free on its host.
Grant(t, d) ==
    /\ owed[t] = Nothing
    /\ Within(d, free[t[2]])
    /\ free' = [free EXCEPT ![t[2]] = Minus(@, d)]
    /\ owed' = [owed EXCEPT ![t] = d]
    /\ UNCHANGED <<used, died>>

\* Part of it goes to a new container of the task ...
Start(t, b, d) ==
    /\ b \notin DOMAIN used /\ <<b[1], b[2]>> = t
    /\ Within(d, owed[t])
    /\ owed' = [owed EXCEPT ![t] = Minus(@, d)]
    /\ used' = [a \in DOMAIN used \cup {b} |-> IF a = b THEN d ELSE used[a]]
    /\ UNCHANGED <<free, died>>

\* ... or back, when there is no container.
Return(t, d) ==
    /\ Within(d, owed[t])
    /\ owed' = [owed EXCEPT ![t] = Minus(@, d)]
    /\ free' = [free EXCEPT ![t[2]] = Plus(@, d)]
    /\ UNCHANGED <<used, died>>

\* A container gives back all it has.
Stop(b) ==
    /\ free' = [free EXCEPT ![b[2]] = Plus(@, used[b])]
    /\ used' = [used EXCEPT ![b] = Nothing]
    /\ UNCHANGED <<owed, died>>

\* Nobody knows any more what it had.
Lose(b) ==
    /\ died
    /\ used' = [used EXCEPT ![b] = Nothing]
    /\ UNCHANGED <<free, owed, died>>

Die ==
    /\ died' = TRUE
    /\ UNCHANGED <<free, owed, used>>

\* The containers that can be started are those that are there afterwards.
Next ==
    \/ \E t \in Tasks, d \in Amounts :
          \/ Grant(t, d) \/ Return(t, d)
          \/ \E b \in DOMAIN used' : Start(t, b, d)
    \/ \E b \in DOMAIN used : Stop(b) \/ Lose(b)
    \/ Die

Spec == Init /\ [][Next]_book

=============================================================================
