----------------------------- MODULE IPAMProofs -----------------------------
(***************************************************************************)
(* Proofs about the two IPAMs, for any number of networks, addresses,      *)
(* containers, workers and tries.  IPPool: the type invariant, that        *)
(* addresses are conserved and none is leaked or configured twice, and     *)
(* that it implements AddressBook.  Calico: that endpoints share no        *)
(* address, that none stays assigned to nobody, that a named network is    *)
(* whole.                                                                  *)
(***************************************************************************)
EXTENDS IPAM, TLAPS

-----------------------------------------------------------------------------
(* The type invariant.  A job writes the container it works on and the     *)
(* address in its hand into the tables, so it must have them.              *)

Manned ==
    \A w \in Workers :
        /\ pc[w] \in {"idle", "dead"} => con[w] = NoContainer
        /\ pc[w] \notin {"idle", "dead"} => con[w] \in Containers

Handed == \A w \in Workers : pc[w] \in {"claim", "create"} => hand[w] \in Addresses

TypeInv == TypeOK /\ Manned /\ Handed

LEMMA TypeInit == Init => TypeInv
  BY IPPoolAssumption DEF Init, TypeInv, TypeOK, Manned, Handed, Places, Kinds

LEMMA TypeStep == TypeInv /\ [Next]_vars => TypeInv'
<1> SUFFICES ASSUME TypeInv, [Next]_vars PROVE TypeInv'
  OBVIOUS
<1> USE IPPoolAssumption DEF TypeInv, TypeOK, Manned, Handed, Places, Kinds, shared, Goto
<1>1. ASSUME NEW w \in Workers, NEW c \in Containers, TakeJob(w, c)
      PROVE  TypeInv'
  <2>1. ASSUME NEW ns \in SUBSET Networks, BeginDeploy(w, c, ns)
        PROVE  TypeInv'
    BY <2>1 DEF BeginDeploy, Begin
  <2>2. ASSUME NEW ns \in SUBSET Networks, BeginBind(w, c, ns)
        PROVE  TypeInv'
    BY <2>2 DEF BeginBind, Begin
  <2>3. CASE BeginRebind(w, c)
    BY <2>3 DEF BeginRebind, Begin
  <2>4. CASE BeginRemove(w, c)
    BY <2>4 DEF BeginRemove, Begin, RowsOf, Unwired
  <2> QED
    BY <1>1, <2>1, <2>2, <2>3, <2>4 DEF TakeJob
<1>2. ASSUME NEW c \in Containers, Stop(c)
      PROVE  TypeInv'
  BY <1>2 DEF Stop, Unwired, local
<1>3. ASSUME NEW w \in Workers, Work(w)
      PROVE  TypeInv'
  <2>1. ASSUME NEW n \in Networks, PopNothing(w, n)
        PROVE  TypeInv'
    BY <2>1 DEF PopNothing
  <2>2. ASSUME NEW n \in Networks, NEW a \in Addresses, Pop(w, n, a)
        PROVE  TypeInv'
    BY <2>2 DEF Pop
  <2>3. ASSUME NEW a \in Addresses, Find(w, a)
        PROVE  TypeInv'
    BY <2>3 DEF Find
  <2>4. ASSUME NEW a \in Addresses, FindNothing(w, a)
        PROVE  TypeInv'
    BY <2>4 DEF FindNothing
  <2>5. ASSUME NEW a \in Addresses, Assign(w, a)
        PROVE  TypeInv'
    BY <2>5 DEF Assign
  <2>6. ASSUME NEW a \in Addresses, GiveBack(w, a)
        PROVE  TypeInv'
    BY <2>6 DEF GiveBack
  <2>7. CASE Claim(w)
    BY <2>7 DEF Claim
  <2>8. CASE CreateRow(w)
    BY <2>8 DEF CreateRow
  <2>9. CASE CreateRowFails(w)
    BY <2>9 DEF CreateRowFails, Die
  <2>10. CASE Acquired(w)
    BY <2>10 DEF Acquired
  <2>11. CASE AgentOk(w)
    BY <2>11 DEF AgentOk, Wired
  <2>12. CASE AgentFails(w)
    BY <2>12 DEF AgentFails, Wired
  <2>13. CASE AllAssigned(w)
    BY <2>13 DEF AllAssigned
  <2>14. CASE Return(w)
    BY <2>14 DEF Return, End
  <2>15. CASE Erase(w)
    BY <2>15 DEF Erase
  <2>16. CASE Retry(w)
    BY <2>16 DEF Retry, Undone
  <2>17. CASE GiveUp(w)
    BY <2>17 DEF GiveUp, Undone, End
  <2>18. CASE Clean(w)
    BY <2>18 DEF Clean, Undone, End, Unwired
  <2>19. CASE ListRows(w)
    BY <2>19 DEF ListRows, RowsOf
  <2>20. CASE Freed(w)
    BY <2>20 DEF Freed
  <2>21. CASE Forget(w)
    BY <2>21 DEF Forget, End
  <2> QED
    BY <1>3, <2>1, <2>2, <2>3, <2>4, <2>5, <2>6, <2>7, <2>8, <2>9, <2>10, <2>11,
       <2>12, <2>13, <2>14, <2>15, <2>16, <2>17, <2>18, <2>19, <2>20, <2>21
       DEF Work
<1>4. CASE UNCHANGED vars
  BY <1>4 DEF vars, local
<1> QED
  BY <1>1, <1>2, <1>3, <1>4 DEF Next, AllDone

(* Every state has the types TypeOK gives; in particular no job tries an   *)
(* allocation more than MaxTries times (helpers/network.py).               *)
THEOREM TypeCorrect == Spec => []TypeOK
<1>1. TypeInv => TypeOK
  BY DEF TypeInv
<1> QED
  BY <1>1, TypeInit, TypeStep, PTL DEF Spec

-----------------------------------------------------------------------------
(* Where the addresses are: the invariant behind AddressesConserved.       *)

OneJobPerContainer ==
    \A v, w \in Workers : v # w /\ con[v] = con[w] => con[v] = NoContainer

\* An address is in a job's hand from the command that looks at the pool to
\* the commit of its row, under the lock of its network; the job that died of
\* the row keeps it, outside the pool.
HandLocked ==
    \A w \in Workers :
        pc[w] \in {"claim", "create"} => lock[NetworkOf[hand[w]]] = w
HandPlace ==
    \A w \in Workers : hand[w] # NoAddress =>
        /\ pc[w] \in {"claim", "create", "dead"}
        /\ pc[w] = "claim" <=> hand[w] \in pool
HandsDiffer ==
    \A v, w \in Workers : v # w /\ hand[v] # NoAddress => hand[v] # hand[w]

\* The rows a job made and those it has to release are its own.
GotRows ==
    /\ \A w \in Workers : \A a \in got[w] : row[a] = Unassigned
    /\ \A v, w \in Workers : v # w => got[v] \cap got[w] = {}
DropRows ==
    \A w \in Workers :
        /\ \A a \in drop[w] : row[a] = con[w]
        /\ drop[w] # {} => pc[w] \in {"free", "erase"}

\* Between the two halves of IP.release.
BackRows ==
    \A w \in Workers :
        /\ back[w] # NoAddress => pc[w] = "erase"
        /\ pc[w] = "erase" => \/ back[w] \in got[w] /\ drop[w] = {}
                              \/ back[w] \in drop[w]
BackKept ==
    \A w \in Workers : pc[w] = "erase" =>
        back[w] \in pool \/ \E v \in Workers : hand[v] = back[w]

\* A pooled address, or one in a hand, whose row is still there is one whose
\* row is about to be deleted.
PooledRows == \A a \in pool : row[a] # NoRow => Releasing(a)
HandRows ==
    \A w \in Workers : hand[w] # NoAddress /\ row[hand[w]] # NoRow => Releasing(hand[w])

SomewhereInv ==
    \A a \in Addresses : a \in pool \/ row[a] # NoRow \/ \E w \in Workers : hand[w] = a

PlaceInv ==
    /\ TypeInv
    /\ OneJobPerContainer
    /\ HandLocked /\ HandPlace /\ HandsDiffer
    /\ GotRows /\ DropRows /\ BackRows /\ BackKept
    /\ PooledRows /\ HandRows /\ SomewhereInv

LEMMA PlaceInit == Init => PlaceInv
  BY TypeInit, IPPoolAssumption
  DEF Init, PlaceInv, OneJobPerContainer, HandLocked, HandPlace, HandsDiffer, GotRows,
      DropRows, BackRows, BackKept, PooledRows, HandRows, SomewhereInv, Releasing

\* An address a job is about to release is in nobody's hand.
LEMMA NotInHand ==
  ASSUME PlaceInv, NEW w \in Workers, pc[w] \in {"undo", "free"},
         NEW a \in Addresses, a \in got[w] \/ a \in drop[w]
  PROVE  \A v \in Workers : hand[v] # a
<1> SUFFICES ASSUME NEW v \in Workers, hand[v] = a PROVE FALSE
  OBVIOUS
<1>1. row[a] # NoRow
  BY IPPoolAssumption DEF PlaceInv, TypeInv, Manned, GotRows, DropRows
<1>2. PICK u \in Workers : pc[u] = "erase" /\ back[u] = a
  BY <1>1, IPPoolAssumption DEF PlaceInv, HandRows, Releasing
<1>3. a \in got[u] \/ a \in drop[u]
  BY <1>2 DEF PlaceInv, BackRows
<1>4. u # w /\ con[u] # con[w] /\ {con[u], con[w]} \subseteq Containers
  BY <1>2, IPPoolAssumption DEF PlaceInv, TypeInv, Manned, OneJobPerContainer
<1>5. (a \in got[u] \/ row[a] = con[u]) /\ (a \in got[w] \/ row[a] = con[w])
  BY <1>3 DEF PlaceInv, DropRows
<1> QED
  BY <1>4, <1>5, IPPoolAssumption DEF PlaceInv, GotRows

LEMMA PlaceStep == PlaceInv /\ [Next]_vars => PlaceInv'
<1> SUFFICES ASSUME PlaceInv, [Next]_vars PROVE PlaceInv'
  OBVIOUS
<1>0. TypeInv /\ TypeInv'
  BY TypeStep DEF PlaceInv
<1> USE <1>0, IPPoolAssumption
    DEF TypeInv, TypeOK, Manned, Handed, Places, Kinds, shared, Goto, PlaceInv,
        OneJobPerContainer, HandLocked, HandPlace, HandsDiffer, GotRows,
        DropRows, BackRows, BackKept, PooledRows, HandRows, SomewhereInv, Releasing
<1>1. ASSUME NEW w \in Workers, NEW c \in Containers, TakeJob(w, c)
      PROVE  PlaceInv'
  <2>1. ASSUME NEW ns \in SUBSET Networks, BeginDeploy(w, c, ns)
        PROVE  PlaceInv'
    BY <2>1 DEF BeginDeploy, Begin, Free
  <2>2. ASSUME NEW ns \in SUBSET Networks, BeginBind(w, c, ns)
        PROVE  PlaceInv'
    BY <2>2 DEF BeginBind, Begin, Free
  <2>3. CASE BeginRebind(w, c)
    BY <2>3 DEF BeginRebind, Begin, Free
  <2>4. CASE BeginRemove(w, c)
    BY <2>4 DEF BeginRemove, Begin, RowsOf, Unwired, Free
  <2> QED
    BY <1>1, <2>1, <2>2, <2>3, <2>4 DEF TakeJob
<1>2. ASSUME NEW c \in Containers, Stop(c)
      PROVE  PlaceInv'
  BY <1>2 DEF Stop, Unwired, local
<1>3. ASSUME NEW w \in Workers, Work(w)
      PROVE  PlaceInv'
  <2>1. ASSUME NEW n \in Networks, PopNothing(w, n)
        PROVE  PlaceInv'
    BY <2>1 DEF PopNothing
  \* The lock is taken, and no other hand can hold an address of the pool.
  <2>2. ASSUME NEW n \in Networks, NEW a \in Addresses, Pop(w, n, a)
        PROVE  PlaceInv'
    <3>1. OneJobPerContainer'
      BY <2>2 DEF Pop
    <3>2. HandLocked'
      BY <2>2 DEF Pop
    <3>3. HandPlace'
      BY <2>2 DEF Pop
    <3>4. HandsDiffer'
      BY <2>2 DEF Pop
    <3>5. GotRows'
      BY <2>2 DEF Pop
    <3>6. DropRows'
      BY <2>2 DEF Pop
    <3>7. BackRows'
      BY <2>2 DEF Pop
    <3>8. BackKept'
      BY <2>2 DEF Pop
    <3>9. PooledRows'
      BY <2>2 DEF Pop
    <3>10. HandRows'
      BY <2>2 DEF Pop
    <3>11. SomewhereInv'
      BY <2>2 DEF Pop
    <3> QED
      BY <3>1, <3>2, <3>3, <3>4, <3>5, <3>6, <3>7, <3>8, <3>9, <3>10, <3>11
  \* As Pop, but the address stays in the pool until Claim: only the lock keeps it.
  <2>3. ASSUME NEW a \in Addresses, Find(w, a)
        PROVE  PlaceInv'
    <3>1. OneJobPerContainer'
      BY <2>3 DEF Find
    <3>2. HandLocked'
      BY <2>3 DEF Find
    <3>3. HandPlace'
      BY <2>3 DEF Find
    <3>4. HandsDiffer'
      BY <2>3 DEF Find
    <3>5. GotRows'
      BY <2>3 DEF Find
    <3>6. DropRows'
      BY <2>3 DEF Find
    <3>7. BackRows'
      BY <2>3 DEF Find
    <3>8. BackKept'
      BY <2>3 DEF Find
    <3>9. PooledRows'
      BY <2>3 DEF Find
    <3>10. HandRows'
      BY <2>3 DEF Find
    <3>11. SomewhereInv'
      BY <2>3 DEF Find
    <3> QED
      BY <3>1, <3>2, <3>3, <3>4, <3>5, <3>6, <3>7, <3>8, <3>9, <3>10, <3>11
  <2>4. ASSUME NEW a \in Addresses, FindNothing(w, a)
        PROVE  PlaceInv'
    BY <2>4 DEF FindNothing
  <2>5. ASSUME NEW a \in Addresses, Assign(w, a)
        PROVE  PlaceInv'
    <3>1. OneJobPerContainer'
      BY <2>5 DEF Assign
    <3>2. HandLocked'
      BY <2>5 DEF Assign
    <3>3. HandPlace'
      BY <2>5 DEF Assign
    <3>4. HandsDiffer'
      BY <2>5 DEF Assign
    <3>5. GotRows'
      BY <2>5 DEF Assign
    <3>6. DropRows'
      BY <2>5 DEF Assign
    <3>7. BackRows'
      BY <2>5 DEF Assign
    <3>8. BackKept'
      BY <2>5 DEF Assign
    <3>9. PooledRows'
      BY <2>5 DEF Assign
    <3>10. HandRows'
      BY <2>5 DEF Assign
    <3>11. SomewhereInv'
      BY <2>5 DEF Assign
    <3> QED
      BY <3>1, <3>2, <3>3, <3>4, <3>5, <3>6, <3>7, <3>8, <3>9, <3>10, <3>11
  \* The address is in the pool while its row exists, until Erase.
  <2>6. ASSUME NEW a \in Addresses, GiveBack(w, a)
        PROVE  PlaceInv'
    <3>1. OneJobPerContainer'
      BY <2>6 DEF GiveBack
    <3>2. HandLocked'
      BY <2>6 DEF GiveBack
    <3>3. HandPlace'
      <4>1. \A v \in Workers : hand[v] # a
        BY <2>6, NotInHand DEF GiveBack
      <4>2. hand' = hand /\ \A v \in Workers : hand[v] # NoAddress => v # w /\ pc'[v] = pc[v]
        BY <2>6 DEF GiveBack, HandPlace
      <4>3. \A x \in Addresses : x # a => (x \in pool' <=> x \in pool)
        BY <2>6 DEF GiveBack
      <4> QED
        BY <4>1, <4>2, <4>3 DEF HandPlace
    <3>4. HandsDiffer'
      BY <2>6 DEF GiveBack
    <3>5. GotRows'
      BY <2>6 DEF GiveBack
    <3>6. DropRows'
      BY <2>6 DEF GiveBack
    <3>7. BackRows'
      BY <2>6 DEF GiveBack
    <3>8. BackKept'
      BY <2>6 DEF GiveBack
    <3>9. PooledRows'
      BY <2>6 DEF GiveBack
    <3>10. HandRows'
      BY <2>6 DEF GiveBack
    <3>11. SomewhereInv'
      BY <2>6 DEF GiveBack
    <3> QED
      BY <3>1, <3>2, <3>3, <3>4, <3>5, <3>6, <3>7, <3>8, <3>9, <3>10, <3>11
  <2>7. CASE Claim(w)
    BY <2>7 DEF Claim
  \* The hand becomes a row of this job, and the lock is given up.
  <2>8. CASE CreateRow(w)
    <3>1. OneJobPerContainer'
      BY <2>8 DEF CreateRow
    <3>2. HandLocked'
      BY <2>8 DEF CreateRow
    <3>3. HandPlace'
      BY <2>8 DEF CreateRow
    <3>4. HandsDiffer'
      BY <2>8 DEF CreateRow
    <3>5. GotRows'
      BY <2>8 DEF CreateRow
    <3>6. DropRows'
      BY <2>8 DEF CreateRow
    <3>7. BackRows'
      BY <2>8 DEF CreateRow
    <3>8. BackKept'
      BY <2>8 DEF CreateRow
    <3>9. PooledRows'
      BY <2>8 DEF CreateRow
    <3>10. HandRows'
      BY <2>8 DEF CreateRow
    <3>11. SomewhereInv'
      BY <2>8 DEF CreateRow
    <3> QED
      BY <3>1, <3>2, <3>3, <3>4, <3>5, <3>6, <3>7, <3>8, <3>9, <3>10, <3>11
  <2>9. CASE CreateRowFails(w)
    BY <2>9 DEF CreateRowFails, Die
  <2>10. CASE Acquired(w)
    BY <2>10 DEF Acquired
  <2>11. CASE AgentOk(w)
    BY <2>11 DEF AgentOk, Wired
  <2>12. CASE AgentFails(w)
    BY <2>12 DEF AgentFails, Wired
  <2>13. CASE AllAssigned(w)
    BY <2>13 DEF AllAssigned
  <2>14. CASE Return(w)
    BY <2>14 DEF Return, End
  \* What was in two places is in the pool, or in a hand that waits for the row.
  <2>15. CASE Erase(w)
    <3>1. OneJobPerContainer'
      BY <2>15 DEF Erase
    <3>2. HandLocked'
      BY <2>15 DEF Erase
    <3>3. HandPlace'
      BY <2>15 DEF Erase
    <3>4. HandsDiffer'
      BY <2>15 DEF Erase
    <3>5. GotRows'
      BY <2>15 DEF Erase
    <3>6. DropRows'
      BY <2>15, SMTT(30) DEF Erase
    <3>7. BackRows'
      BY <2>15 DEF Erase
    <3>8. BackKept'
      BY <2>15 DEF Erase
    <3>9. PooledRows'
      BY <2>15 DEF Erase
    <3>10. HandRows'
      BY <2>15 DEF Erase
    <3>11. SomewhereInv'
      BY <2>15 DEF Erase
    <3> QED
      BY <3>1, <3>2, <3>3, <3>4, <3>5, <3>6, <3>7, <3>8, <3>9, <3>10, <3>11
  <2>16. CASE Retry(w)
    BY <2>16 DEF Retry, Undone
  <2>17. CASE GiveUp(w)
    BY <2>17 DEF GiveUp, Undone, End
  <2>18. CASE Clean(w)
    BY <2>18 DEF Clean, Undone, End, Unwired
  <2>19. CASE ListRows(w)
    BY <2>19 DEF ListRows, RowsOf
  <2>20. CASE Freed(w)
    BY <2>20 DEF Freed
  <2>21. CASE Forget(w)
    BY <2>21 DEF Forget, End
  <2> QED
    BY <1>3, <2>1, <2>2, <2>3, <2>4, <2>5, <2>6, <2>7, <2>8, <2>9, <2>10, <2>11,
       <2>12, <2>13, <2>14, <2>15, <2>16, <2>17, <2>18, <2>19, <2>20, <2>21
       DEF Work
<1>4. CASE UNCHANGED vars
  BY <1>4 DEF vars, local
<1> QED
  BY <1>1, <1>2, <1>3, <1>4 DEF Next, AllDone

(* However the jobs interleave, an address is in the pool, in use or in    *)
(* the hand of one job under its network's lock, but for the addresses     *)
(* lost with a job that died of a row not deleted yet; and it is in the    *)
(* pool and in use only while its row is being deleted                     *)
(* (Network.acquire_ip, acquire_specific_ip, IP.release).                  *)
THEOREM Conservation == Spec => []AddressesConserved
<1>1. PlaceInv => AddressesConserved
  <2> SUFFICES ASSUME PlaceInv PROVE AddressesConserved
    OBVIOUS
  <2>1. ASSUME NEW a \in Addresses \ Lost
        PROVE  a \in pool \/ row[a] # NoRow
                 \/ \E w \in Workers : hand[w] = a /\ lock[NetworkOf[a]] = w
    <3>1. CASE \E w \in Workers : hand[w] = a
      <4>1. PICK w \in Workers : hand[w] = a
        BY <3>1
      <4>2. pc[w] \in {"claim", "create"}
        BY <4>1, IPPoolAssumption DEF PlaceInv, HandPlace, Lost
      <4> QED
        BY <4>1, <4>2 DEF PlaceInv, HandLocked
    <3> QED
      BY <3>1 DEF PlaceInv, SomewhereInv
  <2> QED
    BY <2>1 DEF PlaceInv, PooledRows, HandsDiffer, AddressesConserved
<1>2. PlaceInv /\ [Next]_vars => PlaceInv'
  BY PlaceStep
<1> QED
  BY <1>1, <1>2, PlaceInit, PTL DEF Spec

-----------------------------------------------------------------------------
(* The address book.                                                       *)

book == [a \in Addresses |-> Holders(a)]

\* What is in the pool or in a hand is neither in another job's keeping nor a
\* container's, but for the job that is about to delete its row.
LEMMA OneHolder ==
  ASSUME PlaceInv, NEW a \in Addresses, a \in pool \/ \E v \in Workers : hand[v] = a
  PROVE  /\ \A w \in Workers : a \in got[w] => back[w] = a
         /\ row[a] \in Containers => \E w \in Workers : back[w] = a
<1> USE IPPoolAssumption DEF PlaceInv, TypeInv, TypeOK, Manned
<1>1. row[a] # NoRow => Releasing(a)
  BY DEF PooledRows, HandRows
<1>2. ASSUME NEW w \in Workers, a \in got[w]
      PROVE  back[w] = a
  <2>1. row[a] = Unassigned
    BY <1>2 DEF GotRows
  <2>2. PICK u \in Workers : pc[u] = "erase" /\ back[u] = a
    BY <1>1, <2>1 DEF Releasing
  <2>3. a \notin drop[u]
    BY <2>1, <2>2 DEF DropRows
  <2>4. a \in got[u]
    BY <2>2, <2>3 DEF BackRows
  <2> QED
    BY <1>2, <2>2, <2>4 DEF GotRows
<1>3. row[a] \in Containers => \E w \in Workers : back[w] = a
  BY <1>1 DEF Releasing
<1> QED
  BY <1>2, <1>3

\* While a job has a row of its own making, nobody else has the address.
LEMMA OwnRow ==
  ASSUME PlaceInv, NEW w \in Workers, NEW a \in got[w], pc[w] # "erase"
  PROVE  /\ a \in Addresses /\ a \notin pool
         /\ \A v \in Workers : hand[v] # a /\ back[v] # a
         /\ \A v \in Workers : a \in got[v] => v = w
<1> USE IPPoolAssumption DEF PlaceInv, TypeInv, TypeOK, Manned
<1>1. a \in Addresses /\ row[a] = Unassigned
  BY DEF GotRows
<1>2. \A v \in Workers : a \in got[v] => v = w
  BY DEF GotRows
<1>3. ASSUME NEW v \in Workers, back[v] = a
      PROVE  FALSE
  <2>1. pc[v] = "erase"
    BY <1>1, <1>3 DEF BackRows
  <2>2. a \notin drop[v]
    BY <1>1, <2>1 DEF DropRows
  <2> QED
    BY <1>2, <1>3, <2>1, <2>2 DEF BackRows
<1>4. a \notin pool
  BY <1>1, <1>3 DEF PooledRows, Releasing
<1>5. \A v \in Workers : hand[v] # a
  BY <1>1, <1>3 DEF HandRows, Releasing
<1> QED
  BY <1>1, <1>2, <1>3, <1>4, <1>5

LEMMA BookInit == Init => Book!Init
  BY IPPoolAssumption DEF Init, Book!Init, Holders

LEMMA BookKept == UNCHANGED <<pool, row, hand, got, back>> => UNCHANGED book
  BY DEF book, Holders

\* The holders of an address depend on nothing but its own whereabouts.
LEMMA SameHolders ==
  ASSUME NEW x \in Addresses,
         x \in pool' <=> x \in pool,
         row'[x] = row[x],
         \A v \in Workers : hand'[v] = x <=> hand[v] = x,
         \A v \in Workers : x \in got'[v] <=> x \in got[v],
         \A v \in Workers : back'[v] = x <=> back[v] = x
  PROVE  Holders(x)' = Holders(x)
<1>1. {w \in Workers : hand'[w] = x \/ (x \in got'[w] /\ back'[w] # x)}
      = {w \in Workers : hand[w] = x \/ (x \in got[w] /\ back[w] # x)}
  OBVIOUS
<1>2. {c \in Containers : row'[x] = c /\ \A w \in Workers : back'[w] # x}
      = {c \in Containers : row[x] = c /\ \A w \in Workers : back[w] # x}
  OBVIOUS
<1> QED
  BY <1>1, <1>2 DEF Holders

LEMMA SameBook ==
  ASSUME \A x \in Addresses : Holders(x)' = Holders(x)
  PROVE  UNCHANGED book
BY DEF book

LEMMA BookStep == PlaceInv /\ [Next]_vars => [Book!Next]_book
<1> SUFFICES ASSUME PlaceInv, [Next]_vars PROVE [Book!Next]_book
  OBVIOUS
<1>0. PlaceInv'
  BY PlaceStep
<1> USE IPPoolAssumption DEF PlaceInv, TypeInv, TypeOK, Manned, Handed
<1>1. ASSUME NEW w \in Workers, NEW n \in Networks, NEW a \in Addresses, Pop(w, n, a)
      PROVE  Book!Acquire(w, a)
  <2>1. Holders(a) = {}
    BY <1>1 DEF Pop, Holders
  <2>2. Holders(a)' = {w}
    <3>1. a \notin pool' /\ hand'[w] = a
      BY <1>1 DEF Pop
    <3>2. \A v \in Workers : hand'[v] = a => v = w
      BY <1>0, <3>1 DEF HandsDiffer
    <3>3. \A v \in Workers : a \in got[v] => back[v] = a
      BY <1>1, OneHolder DEF Pop
    <3>4. row[a] \in Containers => \E v \in Workers : back[v] = a
      BY <1>1, OneHolder DEF Pop
    <3> QED
      BY <1>1, <3>1, <3>2, <3>3, <3>4 DEF Pop, Holders
  <2>3. ASSUME NEW x \in Addresses, x # a
        PROVE  Holders(x)' = Holders(x)
    <3>1. hand[w] # x /\ hand'[w] # x
      BY <1>1, <2>3 DEF Pop, HandPlace
    <3>2. \A v \in Workers : hand'[v] = x <=> hand[v] = x
      BY <1>1, <3>1 DEF Pop
    <3>3. (x \in pool' <=> x \in pool) /\ row' = row /\ got' = got /\ back' = back
      BY <1>1, <2>3 DEF Pop
    <3> QED
      BY <3>2, <3>3, SameHolders
  <2> QED
    BY <2>1, <2>2, <2>3 DEF Book!Acquire
<1>2. ASSUME NEW w \in Workers, NEW a \in Addresses, Find(w, a)
      PROVE  UNCHANGED book
  <2>1. a \in pool /\ pool' = pool /\ row' = row /\ got' = got /\ back' = back
    BY <1>2 DEF Find
  <2>2. ASSUME NEW x \in Addresses, x # a
        PROVE  Holders(x)' = Holders(x)
    <3>1. hand[w] # x /\ hand'[w] # x
      BY <1>2, <2>2 DEF Find, HandPlace
    <3>2. \A v \in Workers : hand'[v] = x <=> hand[v] = x
      BY <1>2, <3>1 DEF Find
    <3> QED
      BY <2>1, <3>2, SameHolders
  <2>3. Holders(a)' = Holders(a)
    BY <2>1 DEF Holders
  <2> QED
    BY <2>2, <2>3, SameBook
<1>3. ASSUME NEW w \in Workers, NEW a \in Addresses, a = hand[w], Claim(w)
      PROVE  Book!Acquire(w, a)
  <2>1. a \in pool /\ a \notin pool' /\ pc[w] = "claim"
    BY <1>3 DEF Claim, HandPlace
  <2>2. Holders(a) = {}
    BY <2>1 DEF Holders
  <2>3. Holders(a)' = {w}
    <3>1. \A v \in Workers : hand[v] = a => v = w
      BY <1>3, <2>1 DEF HandsDiffer
    <3>2. \A v \in Workers : a \in got[v] => back[v] = a
      BY <2>1, OneHolder
    <3>3. row[a] \in Containers => \E v \in Workers : back[v] = a
      BY <2>1, OneHolder
    <3> QED
      BY <1>3, <2>1, <3>1, <3>2, <3>3 DEF Claim, Holders
  <2>4. ASSUME NEW x \in Addresses, x # a
        PROVE  Holders(x)' = Holders(x)
    <3>1. (x \in pool' <=> x \in pool) /\ row' = row /\ hand' = hand /\ got' = got /\ back' = back
      BY <1>3, <2>4 DEF Claim
    <3> QED
      BY <3>1, SameHolders
  <2> QED
    BY <2>2, <2>3, <2>4 DEF Book!Acquire
<1>4. ASSUME NEW w \in Workers, NEW a \in Addresses, a = hand[w], CreateRow(w)
      PROVE  UNCHANGED book
  <2>1. a \notin pool /\ row[a] = NoRow /\ pc[w] = "create"
    BY <1>4 DEF CreateRow, HandPlace
  <2>2. /\ pool' = pool /\ back' = back
        /\ row' = [row EXCEPT ![a] = Unassigned]
        /\ got' = [got EXCEPT ![w] = @ \cup {a}]
        /\ hand' = [hand EXCEPT ![w] = NoAddress]
    BY <1>4 DEF CreateRow
  <2>3. \A v \in Workers : back[v] # a
    <3> SUFFICES ASSUME NEW v \in Workers, back[v] = a PROVE FALSE
      OBVIOUS
    <3>1. pc[v] = "erase" /\ (a \in got[v] \/ a \in drop[v])
      BY DEF BackRows
    <3>2. con[v] \in Containers
      BY <3>1
    <3> QED
      BY <2>1, <3>1, <3>2 DEF GotRows, DropRows
  <2>4. Holders(a) = {w}
    <3>1. \A v \in Workers : hand[v] = a => v = w
      BY <1>4 DEF HandsDiffer
    <3>2. \A v \in Workers : a \notin got[v]
      BY <2>1 DEF GotRows
    <3> QED
      BY <1>4, <2>1, <3>1, <3>2 DEF Holders
  <2>5. Holders(a)' = {w}
    <3>1. \A v \in Workers : hand'[v] # a
      BY <1>4, <2>2 DEF HandsDiffer
    <3>2. \A v \in Workers : a \in got'[v] <=> v = w
      BY <1>4, <2>1, <2>2 DEF GotRows
    <3>3. row'[a] \notin Containers
      BY <2>2
    <3> QED
      BY <2>1, <2>2, <2>3, <3>1, <3>2, <3>3 DEF Holders
  <2>6. ASSUME NEW x \in Addresses, x # a
        PROVE  Holders(x)' = Holders(x)
    <3>1. \A v \in Workers : hand'[v] = x <=> hand[v] = x
      BY <1>4, <2>2, <2>6
    <3>2. \A v \in Workers : x \in got'[v] <=> x \in got[v]
      BY <2>2, <2>6
    <3>3. row'[x] = row[x]
      BY <2>2, <2>6
    <3> QED
      BY <2>2, <3>1, <3>2, <3>3, SameHolders
  <2> QED
    BY <2>4, <2>5, <2>6, SameBook
<1>5. ASSUME NEW w \in Workers, NEW a \in Addresses, Assign(w, a)
      PROVE  Book!Assign(w, con[w], a)
  <2>1. /\ a \notin pool
        /\ \A v \in Workers : hand[v] # a /\ back[v] # a
        /\ \A v \in Workers : a \in got[v] => v = w
    BY <1>5, OwnRow DEF Assign
  <2>2. a \in got[w] /\ row[a] = Unassigned /\ con[w] \in Containers
    BY <1>5 DEF Assign, GotRows
  <2>3. Holders(a) = {w}
    BY <2>1, <2>2 DEF Holders
  <2>4. Holders(a)' = {con[w]}
    <3>1. \A v \in Workers : a \notin got'[v]
      BY <1>5, <2>1 DEF Assign
    <3>2. row'[a] = con[w]
      BY <1>5 DEF Assign
    <3> QED
      BY <1>5, <2>1, <2>2, <3>1, <3>2 DEF Assign, Holders
  <2>5. ASSUME NEW x \in Addresses, x # a
        PROVE  Holders(x)' = Holders(x)
    <3>1. \A v \in Workers : x \in got'[v] <=> x \in got[v]
      BY <1>5, <2>5 DEF Assign
    <3>2. pool' = pool /\ hand' = hand /\ back' = back /\ row'[x] = row[x]
      BY <1>5, <2>5 DEF Assign
    <3> QED
      BY <3>1, <3>2, SameHolders
  <2> QED
    BY <2>2, <2>3, <2>4, <2>5 DEF Book!Assign
<1>6. ASSUME NEW w \in Workers, NEW a \in Addresses, GiveBack(w, a)
      PROVE  Book!Release(a)
  <2>1. Holders(a)' = {}
    BY <1>6 DEF GiveBack, Holders
  <2>2. back[w] = NoAddress
    BY <1>6 DEF GiveBack, BackRows
  <2>3. ASSUME NEW x \in Addresses, x # a
        PROVE  Holders(x)' = Holders(x)
    <3>1. \A v \in Workers : back'[v] = x <=> back[v] = x
      BY <1>6, <2>2, <2>3 DEF GiveBack
    <3>2. row' = row /\ hand' = hand /\ got' = got /\ (x \in pool' <=> x \in pool)
      BY <1>6, <2>3 DEF GiveBack
    <3> QED
      BY <3>1, <3>2, SameHolders
  <2> QED
    BY <2>1, <2>3 DEF Book!Release
<1>7. ASSUME NEW w \in Workers, NEW a, a = back[w], Erase(w)
      PROVE  UNCHANGED book
  <2>1. pc[w] = "erase" /\ (a \in got[w] \/ a \in drop[w])
    BY <1>7 DEF Erase, BackRows
  <2>2. a \in Addresses /\ (a \in pool \/ \E v \in Workers : hand[v] = a)
    BY <1>7, <2>1 DEF BackKept
  <2>3. /\ pool' = pool /\ hand' = hand
        /\ row' = [row EXCEPT ![a] = IF a \in got[w] \/ @ = con[w] THEN NoRow ELSE @]
        /\ got' = [got EXCEPT ![w] = @ \ {a}]
        /\ back' = [back EXCEPT ![w] = NoAddress]
    BY <1>7 DEF Erase
  <2>4. row'[a] = NoRow
    BY <1>7, <2>1, <2>2, <2>3 DEF DropRows
  <2>5. \A v \in Workers : a \notin got'[v]
    BY <1>0, <2>2, <2>4 DEF GotRows
  <2>6. Holders(a) = IF a \in pool THEN {} ELSE {v \in Workers : hand[v] = a}
    <3>1. \A v \in Workers : a \in got[v] => back[v] = a
      BY <2>2, OneHolder
    <3>2. {c \in Containers : row[a] = c /\ \A v \in Workers : back[v] # a} = {}
      BY <1>7
    <3> QED
      BY <3>1, <3>2 DEF Holders
  <2>7. Holders(a)' = IF a \in pool THEN {} ELSE {v \in Workers : hand[v] = a}
    <3>1. {c \in Containers : row'[a] = c /\ \A v \in Workers : back'[v] # a} = {}
      BY <2>4
    <3>2. {v \in Workers : hand'[v] = a \/ (a \in got'[v] /\ back'[v] # a)}
          = {v \in Workers : hand[v] = a}
      BY <2>3, <2>5
    <3> QED
      BY <2>3, <3>1, <3>2 DEF Holders
  <2>8. ASSUME NEW x \in Addresses, x # a
        PROVE  Holders(x)' = Holders(x)
    <3>1. \A v \in Workers : back'[v] = x <=> back[v] = x
      BY <1>7, <2>3, <2>8
    <3>2. \A v \in Workers : x \in got'[v] <=> x \in got[v]
      BY <2>3, <2>8
    <3>3. row'[x] = row[x]
      BY <2>3, <2>8
    <3> QED
      BY <2>3, <3>1, <3>2, <3>3, SameHolders
  <2> QED
    BY <2>6, <2>7, <2>8, SameBook
<1>8. ASSUME NEW w \in Workers, Work(w)
      PROVE  [Book!Next]_book
  <2>1. CASE \E n \in Networks, a \in Addresses : Pop(w, n, a)
    BY <2>1, <1>1 DEF Book!Next, book
  <2>2. CASE \E a \in Addresses : Find(w, a)
    BY <2>2, <1>2
  <2>3. CASE Claim(w)
    <3>1. hand[w] \in Addresses
      BY <2>3 DEF Claim
    <3>2. Book!Acquire(w, hand[w])
      BY <2>3, <3>1, <1>3
    <3> QED
      BY <3>1, <3>2 DEF Book!Next, book
  <2>4. CASE CreateRow(w)
    <3>1. hand[w] \in Addresses
      BY <2>4 DEF CreateRow, HandPlace
    <3> QED
      BY <2>4, <3>1, <1>4
  <2>5. CASE \E a \in Addresses : Assign(w, a)
    <3>1. con[w] \in Containers
      BY <2>5 DEF Assign
    <3> QED
      BY <2>5, <3>1, <1>5 DEF Book!Next, book
  <2>6. CASE \E a \in Addresses : GiveBack(w, a)
    BY <2>6, <1>6 DEF Book!Next, book
  <2>7. CASE Erase(w)
    BY <2>7, <1>7
  <2>8. CASE \/ \E n \in Networks : PopNothing(w, n)
             \/ \E a \in Addresses : FindNothing(w, a)
             \/ CreateRowFails(w) \/ Acquired(w) \/ AgentOk(w) \/ AgentFails(w)
             \/ AllAssigned(w) \/ Return(w) \/ Retry(w) \/ GiveUp(w) \/ Clean(w)
             \/ ListRows(w) \/ Freed(w) \/ Forget(w)
    BY <2>8, BookKept
    DEF PopNothing, FindNothing, CreateRowFails, Acquired, AgentOk, AgentFails, AllAssigned,
        Return, Retry, GiveUp, Clean, ListRows, Freed, Forget, End, Die, shared
  <2> QED
    BY <1>8, <2>1, <2>2, <2>3, <2>4, <2>5, <2>6, <2>7, <2>8 DEF Work
<1>9. ASSUME NEW w \in Workers, NEW c \in Containers, TakeJob(w, c)
      PROVE  UNCHANGED book
  BY <1>9, BookKept
  DEF TakeJob, BeginDeploy, BeginBind, BeginRebind, BeginRemove, shared
<1>10. ASSUME NEW c \in Containers, Stop(c)
       PROVE  UNCHANGED book
  BY <1>10, BookKept DEF Stop, local
<1>11. CASE UNCHANGED vars
  BY <1>11, BookKept DEF vars, shared, local
<1> QED
  BY <1>8, <1>9, <1>10, <1>11 DEF Next, AllDone

(* The macvlan IPAM implements the address book: for any numbers of        *)
(* networks, addresses, containers and workers, every interleaving of the  *)
(* Redis commands and commits of acquire_ip, acquire_specific_ip,          *)
(* assigned_to_container and IP.release is one of acquiring, assigning and *)
(* releasing addresses at once.                                            *)
THEOREM Refinement == Spec => KeepsTheBook
<1>1. PlaceInv /\ [Next]_vars => [Book!Next]_[a \in Addresses |-> Holders(a)]
  BY BookStep DEF book
<1> QED
  BY <1>1, PlaceInit, PlaceStep, BookInit, PTL DEF Spec, KeepsTheBook, Book!Spec

-----------------------------------------------------------------------------
(* Whose the rows are: the invariant behind NothingLeaked.                 *)

\* A row without a container is one that a job made and has not assigned.
RowsMade == \A a \in Addresses : row[a] = Unassigned => \E w \in Workers : a \in got[w]

\* A job ends, lists or releases rows only after those it made are settled.
GotSettled ==
    \A w \in Workers :
        /\ pc[w] \notin {"idle", "dead"} => kind[w] # "none"
        /\ pc[w] \in {"list", "free"} => kind[w] \in {"rebind", "remove"}
        /\ got[w] # {} => pc[w] \notin {"idle", "list", "true", "free"}
        /\ drop[w] # {} => got[w] = {} /\ kind[w] \in {"rebind", "remove"}
        /\ kind[w] = "remove" => got[w] = {} /\ pc[w] \in {"free", "erase"}

\* A container that is worked on, or that a row names, is recorded.
Recorded(c) == live[c] \in {"running", "stale", "stopped"}
JobsRecorded ==
    \A w \in Workers : con[w] \in Containers =>
        /\ Recorded(con[w])
        /\ kind[w] # "remove" => live[con[w]] \in {"running", "stale"}
RowsRecorded == \A a \in Addresses : row[a] \in Containers => Recorded(row[a])

\* A new container has no row before the agent has configured its addresses;
\* one that is being removed has none but those that will be released.
NewRows ==
    \A w \in Workers :
        kind[w] = "deploy" /\ pc[w] \notin {"idle", "dead", "assign", "true"} =>
            RowsOf(con[w]) = {}
LastRows == \A w \in Workers : kind[w] = "remove" => RowsOf(con[w]) \subseteq drop[w]

RowInv == RowsMade /\ GotSettled /\ JobsRecorded /\ RowsRecorded /\ NewRows /\ LastRows

LEMMA RowInit == Init => RowInv
  BY IPPoolAssumption
  DEF Init, RowInv, RowsMade, GotSettled, JobsRecorded, RowsRecorded, NewRows, LastRows, RowsOf

LEMMA RowStep == PlaceInv /\ RowInv /\ [Next]_vars => RowInv'
<1> SUFFICES ASSUME PlaceInv, RowInv, [Next]_vars PROVE RowInv'
  OBVIOUS
<1>0. TypeInv /\ TypeInv'
  BY TypeStep DEF PlaceInv
<1> USE <1>0, IPPoolAssumption
    DEF TypeInv, TypeOK, Manned, Handed, Places, Kinds, shared, Goto, PlaceInv,
        OneJobPerContainer, GotRows, DropRows, BackRows, RowsOf,
        RowInv, RowsMade, GotSettled, JobsRecorded, RowsRecorded, NewRows, LastRows, Recorded, Runs
<1>1. ASSUME NEW w \in Workers, NEW c \in Containers, TakeJob(w, c)
      PROVE  RowInv'
  <2>1. ASSUME NEW ns \in SUBSET Networks, BeginDeploy(w, c, ns)
        PROVE  RowInv'
    BY <2>1 DEF BeginDeploy, Begin, Free
  <2>2. ASSUME NEW ns \in SUBSET Networks, BeginBind(w, c, ns)
        PROVE  RowInv'
    BY <2>2, SMTT(30) DEF BeginBind, Begin, Free
  <2>3. CASE BeginRebind(w, c)
    BY <2>3 DEF BeginRebind, Begin, Free
  <2>4. CASE BeginRemove(w, c)
    BY <2>4 DEF BeginRemove, Begin, Free, Unwired
  <2> QED
    BY <1>1, <2>1, <2>2, <2>3, <2>4 DEF TakeJob
<1>2. ASSUME NEW c \in Containers, Stop(c)
      PROVE  RowInv'
  <2>1. RowsMade'
    BY <1>2 DEF Stop, Free, Unwired, local
  <2>2. GotSettled'
    BY <1>2 DEF Stop, Free, Unwired, local
  <2>3. JobsRecorded'
    BY <1>2 DEF Stop, Free, Unwired, local
  <2>4. RowsRecorded'
    BY <1>2 DEF Stop, Free, Unwired, local
  <2>5. NewRows'
    BY <1>2 DEF Stop, Free, Unwired, local
  <2>6. LastRows'
    BY <1>2 DEF Stop, Free, Unwired, local
  <2> QED
    BY <2>1, <2>2, <2>3, <2>4, <2>5, <2>6
<1>3. ASSUME NEW w \in Workers, Work(w)
      PROVE  RowInv'
  <2>1. ASSUME NEW n \in Networks, PopNothing(w, n)
        PROVE  RowInv'
    BY <2>1 DEF PopNothing
  <2>2. ASSUME NEW n \in Networks, NEW a \in Addresses, Pop(w, n, a)
        PROVE  RowInv'
    BY <2>2 DEF Pop
  <2>3. ASSUME NEW a \in Addresses, Find(w, a)
        PROVE  RowInv'
    BY <2>3 DEF Find
  <2>4. ASSUME NEW a \in Addresses, FindNothing(w, a)
        PROVE  RowInv'
    BY <2>4 DEF FindNothing
  <2>5. ASSUME NEW a \in Addresses, Assign(w, a)
        PROVE  RowInv'
    BY <2>5, SMTT(30) DEF Assign
  <2>6. ASSUME NEW a \in Addresses, GiveBack(w, a)
        PROVE  RowInv'
    BY <2>6 DEF GiveBack
  <2>7. CASE Claim(w)
    BY <2>7 DEF Claim
  <2>8. CASE CreateRow(w)
    <3>1. RowsMade'
      BY <2>8 DEF CreateRow
    <3>2. GotSettled'
      BY <2>8 DEF CreateRow
    <3>3. JobsRecorded'
      BY <2>8 DEF CreateRow
    <3>4. RowsRecorded'
      BY <2>8 DEF CreateRow
    <3>5. NewRows'
      BY <2>8 DEF CreateRow
    <3>6. LastRows'
      BY <2>8 DEF CreateRow
    <3> QED
      BY <3>1, <3>2, <3>3, <3>4, <3>5, <3>6
  <2>9. CASE CreateRowFails(w)
    BY <2>9 DEF CreateRowFails, Die
  <2>10. CASE Acquired(w)
    BY <2>10 DEF Acquired
  <2>11. CASE AgentOk(w)
    BY <2>11 DEF AgentOk, Wired
  <2>12. CASE AgentFails(w)
    BY <2>12 DEF AgentFails, Wired
  <2>13. CASE AllAssigned(w)
    BY <2>13 DEF AllAssigned
  <2>14. CASE Return(w)
    BY <2>14 DEF Return, End
  <2>15. CASE Erase(w)
    <3>1. RowsMade'
      BY <2>15 DEF Erase
    <3>2. GotSettled'
      BY <2>15 DEF Erase
    <3>3. JobsRecorded'
      BY <2>15 DEF Erase
    <3>4. RowsRecorded'
      BY <2>15 DEF Erase
    <3>5. NewRows'
      BY <2>15 DEF Erase
    <3>6. LastRows'
      BY <2>15 DEF Erase
    <3> QED
      BY <3>1, <3>2, <3>3, <3>4, <3>5, <3>6
  <2>16. CASE Retry(w)
    BY <2>16 DEF Retry, Undone
  <2>17. CASE GiveUp(w)
    BY <2>17 DEF GiveUp, Undone, End
  <2>18. CASE Clean(w)
    <3>1. RowsMade'
      BY <2>18 DEF Clean, Undone, End, Unwired
    <3>2. GotSettled'
      BY <2>18, SMTT(30) DEF Clean, Undone, End, Unwired
    <3>3. JobsRecorded'
      BY <2>18, SMTT(30) DEF Clean, Undone, End, Unwired
    <3>4. RowsRecorded'
      BY <2>18, SMTT(30) DEF Clean, Undone, End, Unwired
    <3>5. NewRows'
      BY <2>18, SMTT(30) DEF Clean, Undone, End, Unwired
    <3>6. LastRows'
      BY <2>18, SMTT(30) DEF Clean, Undone, End, Unwired
    <3> QED
      BY <3>1, <3>2, <3>3, <3>4, <3>5, <3>6
  <2>19. CASE ListRows(w)
    <3>1. RowsMade'
      BY <2>19 DEF ListRows
    <3>2. GotSettled'
      BY <2>19 DEF ListRows
    <3>3. JobsRecorded'
      BY <2>19 DEF ListRows
    <3>4. RowsRecorded'
      BY <2>19 DEF ListRows
    <3>5. NewRows'
      BY <2>19 DEF ListRows
    <3>6. LastRows'
      BY <2>19 DEF ListRows
    <3> QED
      BY <3>1, <3>2, <3>3, <3>4, <3>5, <3>6
  <2>20. CASE Freed(w)
    BY <2>20 DEF Freed
  <2>21. CASE Forget(w)
    BY <2>21 DEF Forget, End
  <2> QED
    BY <1>3, <2>1, <2>2, <2>3, <2>4, <2>5, <2>6, <2>7, <2>8, <2>9, <2>10, <2>11,
       <2>12, <2>13, <2>14, <2>15, <2>16, <2>17, <2>18, <2>19, <2>20, <2>21
       DEF Work
<1>4. CASE UNCHANGED vars
  BY <1>4 DEF vars, local
<1> QED
  BY <1>1, <1>2, <1>3, <1>4 DEF Next, AllDone

\* When every job has come to its end, no hand, no half-made row and no row of
\* a removed container is left.
LEMMA RowsAtRest == PlaceInv /\ RowInv => NothingLeaked
<1> SUFFICES ASSUME PlaceInv, RowInv, \A w \in Workers : pc[w] = "idle", NEW a \in Addresses
             PROVE  IF a \in pool THEN row[a] = NoRow
                    ELSE row[a] \in Containers /\ live[row[a]] # "removed"
  BY DEF NothingLeaked
<1>1. a \in pool => row[a] = NoRow
  BY DEF PlaceInv, PooledRows, Releasing
<1>2. \A w \in Workers : hand[w] # a
  BY IPPoolAssumption DEF PlaceInv, HandPlace
<1>3. row[a] # Unassigned
  BY DEF RowInv, RowsMade, GotSettled
<1>4. row[a] \in Containers \cup {NoRow, Unassigned}
  BY DEF PlaceInv, TypeInv, TypeOK
<1>5. row[a] \in Containers => live[row[a]] # "removed"
  BY DEF RowInv, RowsRecorded, Recorded
<1> QED
  BY <1>1, <1>2, <1>3, <1>4, <1>5 DEF PlaceInv, SomewhereInv

(* When no job is left and none died, every address is in the pool or has  *)
(* a row that names a recorded container: no failed allocation, retry or   *)
(* removal leaks one (allocate_ips, reallocate_ips, IP.release).           *)
THEOREM Settlement == Spec => []NothingLeaked
  BY RowsAtRest, RowInit, RowStep, PlaceInit, PlaceStep, PTL DEF Spec

-----------------------------------------------------------------------------
(* Whose the interfaces are: the invariant behind NoAddressTwice.          *)

\* The row of an address on an interface names its container, or is about to,
\* unless the container was rebound while it ran.
WiresRowed ==
    \A a \in Addresses : \A c \in wire[a] : live[c] # "stale" =>
        row[a] = c \/ \E w \in Workers : con[w] = c /\ a \in got[w] /\ pc[w] = "assign"

\* A container that does not run has no interface, and one whose rows are
\* released gets one only after it has acquired addresses again.
Off(c) == \A a \in Addresses : c \notin wire[a]
StoppedOff == \A c \in Containers : live[c] \notin {"running", "stale"} => Off(c)
ReleasingOff ==
    \A w \in Workers :
        kind[w] \in {"rebind", "remove"} /\ pc[w] \notin {"idle", "dead", "assign", "true"} =>
            Off(con[w]) \/ (kind[w] = "rebind" /\ live[con[w]] = "stale")

WireInv == WiresRowed /\ StoppedOff /\ ReleasingOff

LEMMA WireInit == Init => WireInv
  BY DEF Init, WireInv, WiresRowed, StoppedOff, ReleasingOff, Off

LEMMA WireStep == PlaceInv /\ RowInv /\ WireInv /\ ~PartialAgent /\ [Next]_vars => WireInv'
<1> SUFFICES ASSUME PlaceInv, RowInv, WireInv, ~PartialAgent, [Next]_vars PROVE WireInv'
  OBVIOUS
<1>0. TypeInv /\ TypeInv'
  BY TypeStep DEF PlaceInv
<1> USE <1>0, IPPoolAssumption
    DEF TypeInv, TypeOK, Manned, Handed, Places, Kinds, shared, Goto, PlaceInv,
        OneJobPerContainer, GotRows, DropRows, BackRows, RowsOf,
        RowInv, GotSettled, JobsRecorded, Recorded,
        WireInv, WiresRowed, StoppedOff, ReleasingOff, Off, Runs
<1>1. ASSUME NEW w \in Workers, NEW c \in Containers, TakeJob(w, c)
      PROVE  WireInv'
  <2>1. ASSUME NEW ns \in SUBSET Networks, BeginDeploy(w, c, ns)
        PROVE  WireInv'
    BY <2>1 DEF BeginDeploy, Begin, Free
  <2>2. ASSUME NEW ns \in SUBSET Networks, BeginBind(w, c, ns)
        PROVE  WireInv'
    BY <2>2 DEF BeginBind, Begin, Free
  <2>3. CASE BeginRebind(w, c)
    BY <2>3 DEF BeginRebind, Begin, Free
  <2>4. CASE BeginRemove(w, c)
    BY <2>4 DEF BeginRemove, Begin, Free, Unwired
  <2> QED
    BY <1>1, <2>1, <2>2, <2>3, <2>4 DEF TakeJob
<1>2. ASSUME NEW c \in Containers, Stop(c)
      PROVE  WireInv'
  BY <1>2 DEF Stop, Unwired, local
<1>3. ASSUME NEW w \in Workers, Work(w)
      PROVE  WireInv'
  <2>1. ASSUME NEW n \in Networks, PopNothing(w, n)
        PROVE  WireInv'
    BY <2>1 DEF PopNothing
  <2>2. ASSUME NEW n \in Networks, NEW a \in Addresses, Pop(w, n, a)
        PROVE  WireInv'
    BY <2>2 DEF Pop
  <2>3. ASSUME NEW a \in Addresses, Find(w, a)
        PROVE  WireInv'
    BY <2>3 DEF Find
  <2>4. ASSUME NEW a \in Addresses, FindNothing(w, a)
        PROVE  WireInv'
    BY <2>4 DEF FindNothing
  <2>5. ASSUME NEW a \in Addresses, Assign(w, a)
        PROVE  WireInv'
    BY <2>5 DEF Assign
  <2>6. ASSUME NEW a \in Addresses, GiveBack(w, a)
        PROVE  WireInv'
    BY <2>6 DEF GiveBack
  <2>7. CASE Claim(w)
    BY <2>7 DEF Claim
  <2>8. CASE CreateRow(w)
    BY <2>8 DEF CreateRow
  <2>9. CASE CreateRowFails(w)
    BY <2>9 DEF CreateRowFails, Die
  <2>10. CASE Acquired(w)
    BY <2>10 DEF Acquired
  <2>11. CASE AgentOk(w)
    BY <2>11 DEF AgentOk, Wired
  <2>12. CASE AgentFails(w)
    BY <2>12 DEF AgentFails, Wired
  <2>13. CASE AllAssigned(w)
    BY <2>13 DEF AllAssigned
  <2>14. CASE Return(w)
    BY <2>14 DEF Return, End
  <2>15. CASE Erase(w)
    BY <2>15 DEF Erase
  <2>16. CASE Retry(w)
    BY <2>16 DEF Retry, Undone
  <2>17. CASE GiveUp(w)
    BY <2>17 DEF GiveUp, Undone, End
  <2>18. CASE Clean(w)
    BY <2>18 DEF Clean, Undone, End, Unwired
  <2>19. CASE ListRows(w)
    BY <2>19 DEF ListRows
  <2>20. CASE Freed(w)
    BY <2>20 DEF Freed
  <2>21. CASE Forget(w)
    BY <2>21, SMTT(30) DEF Forget, End
  <2> QED
    BY <1>3, <2>1, <2>2, <2>3, <2>4, <2>5, <2>6, <2>7, <2>8, <2>9, <2>10, <2>11,
       <2>12, <2>13, <2>14, <2>15, <2>16, <2>17, <2>18, <2>19, <2>20, <2>21
       DEF Work
<1>4. CASE UNCHANGED vars
  BY <1>4 DEF vars, local
<1> QED
  BY <1>1, <1>2, <1>3, <1>4 DEF Next, AllDone

LEMMA OneOnTheWire == PlaceInv /\ WireInv => NoAddressTwice
<1> SUFFICES ASSUME PlaceInv, WireInv, NEW a \in Addresses, NEW c \in wire[a], NEW d \in wire[a],
                    live[c] # "stale", live[d] # "stale"
             PROVE  c = d
  BY DEF NoAddressTwice
<1> USE IPPoolAssumption DEF PlaceInv, TypeInv, TypeOK
<1>1. \A w \in Workers : a \in got[w] => row[a] = Unassigned
  BY DEF GotRows
<1>2. \A v, w \in Workers : a \in got[v] /\ a \in got[w] => v = w
  BY DEF GotRows
<1>3. c \in Containers /\ d \in Containers
  OBVIOUS
<1> QED
  BY <1>1, <1>2, <1>3 DEF WireInv, WiresRowed

(* No two containers have one address configured, whatever the order of    *)
(* releases and acquisitions, if the agent configures all addresses of a   *)
(* request or none.                                                        *)
THEOREM OneContainerPerAddress == ~PartialAgent => (Spec => []NoAddressTwice)
<1>1. CASE ~PartialAgent
  BY <1>1, OneOnTheWire, WireInit, WireStep, RowInit, RowStep, PlaceInit, PlaceStep, PTL DEF Spec
<1> QED
  BY <1>1

-----------------------------------------------------------------------------
(* Calico.  The types of its variables and what each step of a job knows:  *)
(* its container, which is recorded and which no other job works on, and   *)
(* the endpoints it has listed.                                            *)

RuleLists == {<<"icmp", "tcp", "udp">>, <<"tcp", "udp">>, <<"udp">>, <<>>}
Creating == {"profile", "rules", "update"}
Allocating == {"ask", "undo"}
Detached == {"free", "detach"}
OnContainer == {"list"} \cup Allocating \cup Detached

CalicoJob ==
    [at : {"idle"} \cup Creating \cup OnContainer,
     kind : {"none", "network", "deploy", "bind", "rebind", "remove"},
     con : Containers \cup {NoContainer}, name : Names \cup {NoName},
     net : Networks \cup {NoNetwork}, rules : RuleLists,
     seen : SUBSET CalicoIPAM!RuleSet, again : BOOLEAN, nets : SUBSET Networks,
     spec : SUBSET Addresses, drop : SUBSET Addresses,
     gone : Addresses \cup {NoAddress}, tries : 0 .. MaxTries]

CalicoTypes ==
    /\ ippool \subseteq Networks
    /\ profile \in [Names -> SUBSET CalicoIPAM!RuleSet]
    /\ nameOf \in [Networks -> Names \cup {NoName}]
    /\ held \subseteq Addresses
    /\ endpoint \in [Containers -> SUBSET Addresses]
    /\ stray \subseteq Addresses
    /\ record \in [Containers -> {"new", "running", "stopped", "removed"}]
    /\ job \in [Workers -> CalicoJob]

\* What a job has at each of its steps.
JobHas(j) ==
    /\ j.at \in {"idle"} \cup OnContainer => j.name = NoName /\ j.kind # "network"
    /\ j.at \in {"idle"} \cup Creating => j.con = NoContainer
    /\ j.at \in Creating => j.name \in Names /\ j.kind = "network"
    /\ j.at \in OnContainer => j.con \in Containers
    /\ j.at = "profile" => j.rules = <<"icmp", "tcp", "udp">>
    /\ j.at = "update" => j.rules # <<>>

\* A container with a job or an endpoint is recorded.
OnRecord == {"running", "stopped"}
PoolsMade == \A w \in Workers : job[w].at \in Creating => job[w].net \in ippool
JobsOnRecorded == \A w \in Workers : job[w].at \in OnContainer => record[job[w].con] \in OnRecord
EndpointsRecorded == \A c \in Containers : endpoint[c] # {} => record[c] \in OnRecord

\* One job at a time works on a container, and one creates a network of a name.
Alone ==
    \A v, w \in Workers : v # w =>
        /\ job[v].con # NoContainer => job[v].con # job[w].con
        /\ job[v].name # NoName => job[v].name # job[w].name

\* What is still to be detached are the endpoints the container has.
Listed ==
    \A w \in Workers :
        /\ job[w].at \in Detached => job[w].drop = endpoint[job[w].con]
        /\ job[w].at = "detach" => job[w].gone \in job[w].drop

CalicoInv ==
    /\ CalicoTypes
    /\ \A w \in Workers : JobHas(job[w])
    /\ PoolsMade /\ JobsOnRecorded /\ EndpointsRecorded /\ Alone /\ Listed

LEMMA CalicoInit == CalicoIPAM!Init => CalicoInv
<1> SUFFICES ASSUME CalicoIPAM!Init PROVE CalicoInv
  OBVIOUS
<1> USE IPPoolAssumption, IPAMAssumption
<1>1. CalicoIPAM!Idle \in CalicoJob
  BY DEF CalicoIPAM!Idle, CalicoJob, RuleLists
<1>2. CalicoTypes
  BY <1>1 DEF CalicoIPAM!Init, CalicoTypes
<1>3. \A w \in Workers : job[w] = CalicoIPAM!Idle
  BY DEF CalicoIPAM!Init
<1>4. \A w \in Workers : JobHas(job[w])
  BY <1>3 DEF JobHas, CalicoIPAM!Idle, OnContainer, Creating, Allocating, Detached
<1>5. PoolsMade /\ JobsOnRecorded /\ Alone /\ Listed
  BY <1>3 DEF PoolsMade, JobsOnRecorded, Alone, Listed, CalicoIPAM!Idle, Creating, OnContainer,
     Allocating, Detached
<1>6. EndpointsRecorded
  BY DEF CalicoIPAM!Init, EndpointsRecorded
<1> QED
  BY <1>2, <1>4, <1>5, <1>6 DEF CalicoInv

\* The step of one job: it keeps the others, and changes no record or
\* endpoint but that of its own container.
LEMMA CalicoJobStep ==
  ASSUME CalicoInv, NEW w \in Workers, NEW j \in CalicoJob,
         job' = [job EXCEPT ![w] = j],
         ippool \subseteq ippool', CalicoTypes',
         JobHas(j), j.at \in Creating => j.net \in ippool',
         j.con \in {job[w].con, NoContainer} \/ \A v \in Workers : job[v].con # j.con,
         j.name \in {job[w].name, NoName} \/ \A v \in Workers : job[v].name # j.name,
         \A c \in Containers : c # j.con /\ c # job[w].con =>
             record'[c] = record[c] /\ endpoint'[c] = endpoint[c],
         \A c \in {j.con, job[w].con} \ {NoContainer} : endpoint'[c] # {} => record'[c] \in OnRecord,
         j.at \in OnContainer => record'[j.con] \in OnRecord,
         j.at \in Detached => j.drop = endpoint'[j.con],
         j.at = "detach" => j.gone \in j.drop
  PROVE  CalicoInv'
<1> USE DEF CalicoInv
<1>1. job \in [Workers -> CalicoJob] /\ job' \in [Workers -> CalicoJob]
  BY DEF CalicoTypes
<1>2. \A v \in Workers : v # w => job'[v] = job[v]
  BY <1>1
<1>3. job'[w] = j
  BY <1>1
<1>4. \A v \in Workers : v # w /\ job[v].con # NoContainer =>
          job[v].con # j.con /\ job[v].con # job[w].con
  BY DEF Alone
<1>5. \A v \in Workers : JobHas(job'[v])
  <2> SUFFICES ASSUME NEW v \in Workers PROVE JobHas(job'[v])
    OBVIOUS
  <2>1. CASE v = w
    BY <1>3, <2>1
  <2>2. CASE v # w
    BY <1>2, <2>2
  <2> QED
    BY <2>1, <2>2
<1>12. PoolsMade'
  BY <1>2, <1>3 DEF PoolsMade
<1>6. \A v \in Workers : job[v].at \in OnContainer => job[v].con \in Containers
  BY DEF JobHas
<1>7. NoContainer \notin Containers
  BY IPPoolAssumption
<1>8. JobsOnRecorded'
  <2> SUFFICES ASSUME NEW v \in Workers, job'[v].at \in OnContainer
               PROVE  record'[job'[v].con] \in OnRecord
    BY DEF JobsOnRecorded
  <2>1. CASE v = w
    BY <1>3, <2>1
  <2>2. CASE v # w
    BY <1>2, <1>4, <1>6, <1>7, <2>2 DEF JobsOnRecorded
  <2> QED
    BY <2>1, <2>2
<1>9. EndpointsRecorded'
  BY <1>7 DEF EndpointsRecorded
<1>10. Alone'
  <2> SUFFICES ASSUME NEW u \in Workers, NEW v \in Workers, u # v
               PROVE  /\ job'[u].con # NoContainer => job'[u].con # job'[v].con
                      /\ job'[u].name # NoName => job'[u].name # job'[v].name
    BY DEF Alone
  <2>1. CASE u # w /\ v # w
    BY <1>2, <2>1 DEF Alone
  <2>2. CASE u = w
    BY <1>2, <1>3, <1>4, <2>2 DEF Alone
  <2>3. CASE v = w
    BY <1>2, <1>3, <1>4, <2>3 DEF Alone
  <2> QED
    BY <2>1, <2>2, <2>3
<1>11. Listed'
  <2> SUFFICES ASSUME NEW v \in Workers
               PROVE  /\ job'[v].at \in Detached => job'[v].drop = endpoint'[job'[v].con]
                      /\ job'[v].at = "detach" => job'[v].gone \in job'[v].drop
    BY DEF Listed
  <2>1. CASE v = w
    BY <1>3, <2>1
  <2>2. CASE v # w
    <3>1. job[v].at \in Detached => job[v].con \in Containers
      BY <1>6 DEF OnContainer
    <3> QED
      BY <1>2, <1>4, <1>7, <2>2, <3>1 DEF Listed
  <2> QED
    BY <2>1, <2>2
<1> QED
  BY <1>5, <1>8, <1>9, <1>10, <1>11, <1>12

\* What a job is at one of its steps, as CalicoJobStep wants it.
LEMMA CalicoJobFacts ==
  ASSUME CalicoInv, NEW w \in Workers
  PROVE  /\ job \in [Workers -> CalicoJob]
         /\ job[w] \in CalicoJob
         /\ JobHas(job[w])
         /\ job[w].at \in Creating => job[w].net \in ippool
         /\ job[w].at \in OnContainer => /\ job[w].con \in Containers
                                         /\ record[job[w].con] \in OnRecord
                                         /\ job[w].con # NoContainer
         /\ job[w].at \in Detached => job[w].drop = endpoint[job[w].con]
         /\ job[w].at = "detach" => job[w].gone \in job[w].drop
         /\ \A v \in Workers : v # w /\ job[w].name # NoName => job[v].name # job[w].name
<1>1. job \in [Workers -> CalicoJob]
  BY DEF CalicoInv, CalicoTypes
<1>2. JobHas(job[w])
  BY DEF CalicoInv
<1>3. NoContainer \notin Containers
  BY IPPoolAssumption
<1> QED
  BY <1>1, <1>2, <1>3 DEF CalicoInv, PoolsMade, JobsOnRecorded, Listed, Alone, JobHas

LEMMA IdleJob ==
  /\ CalicoIPAM!Idle \in CalicoJob
  /\ CalicoIPAM!Idle.at = "idle" /\ CalicoIPAM!Idle.kind = "none"
  /\ CalicoIPAM!Idle.con = NoContainer /\ CalicoIPAM!Idle.name = NoName
  BY IPPoolAssumption DEF CalicoIPAM!Idle, CalicoJob, RuleLists

LEMMA AddPoolKeeps ==
  ASSUME CalicoInv, NEW w \in Workers, NEW n \in Networks, NEW name \in Names,
         CalicoIPAM!AddPool(w, n, name)
  PROVE  CalicoInv'
<1> DEFINE j == [CalicoIPAM!Idle EXCEPT !.at = "profile", !.kind = "network", !.net = n,
                                        !.name = name, !.rules = CalicoIPAM!Rules,
                                        !.again = \E m \in Networks : nameOf[m] = name]
<1>1. j \in CalicoJob /\ JobHas(j)
  <2>1. CalicoIPAM!Rules \in RuleLists
    BY DEF CalicoIPAM!Rules, RuleLists
  <2>2. j \in CalicoJob
    BY <2>1, IdleJob DEF CalicoJob, Creating
  <2>3. /\ j.at = "profile" /\ j.con = NoContainer /\ j.name = name /\ j.net = n
        /\ j.kind = "network" /\ j.rules = CalicoIPAM!Rules
    BY IdleJob DEF CalicoJob
  <2> HIDE DEF j
  <2> QED
    BY <2>2, <2>3 DEF JobHas, OnContainer, Allocating, Detached, Creating, CalicoIPAM!Rules
<1>2. j.con = NoContainer /\ j.at = "profile" /\ j.name = name /\ j.net \in ippool'
  BY IdleJob DEF CalicoJob, CalicoIPAM!AddPool
<1>3. job' = [job EXCEPT ![w] = j]
  BY DEF CalicoIPAM!AddPool, CalicoIPAM!Set
<1>4. CalicoTypes'
  BY <1>1, <1>3 DEF CalicoIPAM!AddPool, CalicoInv, CalicoTypes
<1>5. job[w].con = NoContainer
  BY CalicoJobFacts DEF CalicoIPAM!AddPool, JobHas
<1> HIDE DEF j
<1> QED
  BY <1>1, <1>2, <1>3, <1>4, <1>5, CalicoJobStep
     DEF CalicoIPAM!AddPool, OnContainer, Allocating, Detached

LEMMA RuleListTails ==
  ASSUME NEW s \in RuleLists, s # <<>>
  PROVE  Tail(s) \in RuleLists /\ Head(s) \in CalicoIPAM!RuleSet
<1>1. CASE s = <<"icmp", "tcp", "udp">>
  BY <1>1 DEF RuleLists, CalicoIPAM!RuleSet
<1>2. CASE s = <<"tcp", "udp">>
  BY <1>2 DEF RuleLists, CalicoIPAM!RuleSet
<1>3. CASE s = <<"udp">>
  BY <1>3 DEF RuleLists, CalicoIPAM!RuleSet
<1> QED
  BY <1>1, <1>2, <1>3 DEF RuleLists

\* A creation of a network goes on.
LEMMA CreatingJobKeeps ==
  ASSUME CalicoInv, NEW w \in Workers, NEW j \in CalicoJob, job[w].at \in Creating,
         job' = [job EXCEPT ![w] = j], j.at \in {"rules", "update"},
         j.at = "update" => j.rules # <<>>,
         j.con = NoContainer, j.kind = "network", j.name = job[w].name, j.net = job[w].net,
         UNCHANGED <<ippool, nameOf, held, endpoint, stray, record>>,
         profile' \in [Names -> SUBSET CalicoIPAM!RuleSet]
  PROVE  CalicoInv'
<1>1. CalicoTypes'
  BY DEF CalicoInv, CalicoTypes
<1>2. /\ job[w].con = NoContainer /\ job[w].net \in ippool /\ job[w].name \in Names
  BY CalicoJobFacts DEF JobHas, Creating
<1>3. j.at \notin {"idle"} \cup OnContainer /\ j.at # "profile"
  BY DEF OnContainer, Allocating, Detached
<1>4. JobHas(j)
  BY <1>2, <1>3 DEF JobHas, Creating
<1>5. j.at \notin Detached /\ j.at # "detach"
  BY DEF Detached
<1> QED
  BY <1>1, <1>2, <1>3, <1>4, <1>5, CalicoJobStep

\* What the steps of a creation make of the job.
LEMMA CreatingJobs ==
  ASSUME NEW w \in Workers, job \in [Workers -> CalicoJob], NEW j,
         \/ CalicoIPAM!CreateProfile(w) /\ j = [job[w] EXCEPT !.at = "rules"]
         \/ /\ CalicoIPAM!ReadRules(w) /\ Head(job[w].rules) \in profile[job[w].name]
            /\ j = [job[w] EXCEPT !.rules = Tail(job[w].rules)]
         \/ /\ CalicoIPAM!ReadRules(w) /\ Head(job[w].rules) \notin profile[job[w].name]
            /\ j = [job[w] EXCEPT !.at = "update", !.seen = profile[job[w].name]]
         \/ /\ CalicoIPAM!WriteRules(w)
            /\ j = [job[w] EXCEPT !.at = "rules", !.rules = Tail(job[w].rules), !.seen = {}]
  PROVE  job' = [job EXCEPT ![w] = j]
  BY DEF CalicoIPAM!CreateProfile, CalicoIPAM!ReadRules, CalicoIPAM!WriteRules, CalicoIPAM!Goto,
     CalicoJob

LEMMA CreatingKeeps ==
  ASSUME CalicoInv, NEW w \in Workers,
         CalicoIPAM!CreateProfile(w) \/ CalicoIPAM!ReadRules(w) \/ CalicoIPAM!WriteRules(w)
  PROVE  CalicoInv'
<1>1. /\ job \in [Workers -> CalicoJob] /\ job[w] \in CalicoJob
      /\ profile \in [Names -> SUBSET CalicoIPAM!RuleSet]
  BY CalicoJobFacts DEF CalicoInv, CalicoTypes
<1>2. job[w].at \in Creating
  BY DEF CalicoIPAM!CreateProfile, CalicoIPAM!ReadRules, CalicoIPAM!WriteRules, Creating
<1>3. /\ job[w].con = NoContainer /\ job[w].kind = "network" /\ job[w].name \in Names
      /\ JobHas(job[w])
  BY <1>2, CalicoJobFacts DEF JobHas
<1>4. UNCHANGED <<ippool, nameOf, held, endpoint, stray, record>>
  BY DEF CalicoIPAM!CreateProfile, CalicoIPAM!ReadRules, CalicoIPAM!WriteRules, CalicoIPAM!store
<1>5. job[w].rules # <<>> => /\ Tail(job[w].rules) \in RuleLists
                             /\ Head(job[w].rules) \in CalicoIPAM!RuleSet
  BY <1>1, RuleListTails DEF CalicoJob
<1>6. CASE CalicoIPAM!CreateProfile(w)
  <2> DEFINE j == [job[w] EXCEPT !.at = "rules"]
  <2>1. /\ j \in CalicoJob /\ j.at = "rules" /\ j.con = NoContainer /\ j.kind = "network"
        /\ j.name = job[w].name /\ j.net = job[w].net
    BY <1>1, <1>3 DEF CalicoJob, Creating
  <2>2. job' = [job EXCEPT ![w] = j]
    BY <1>1, <1>6, CreatingJobs
  <2>3. profile' \in [Names -> SUBSET CalicoIPAM!RuleSet]
    BY <1>1, <1>6 DEF CalicoIPAM!CreateProfile
  <2> HIDE DEF j
  <2> QED
    BY <1>2, <1>4, <2>1, <2>2, <2>3, CreatingJobKeeps
<1>7. CASE CalicoIPAM!ReadRules(w) /\ Head(job[w].rules) \in profile[job[w].name]
  <2> DEFINE j == [job[w] EXCEPT !.rules = Tail(job[w].rules)]
  <2>1. job[w].at = "rules" /\ job[w].rules # <<>> /\ profile' = profile
    BY <1>7 DEF CalicoIPAM!ReadRules, CalicoIPAM!store
  <2>2. /\ j \in CalicoJob /\ j.at = "rules" /\ j.con = NoContainer /\ j.kind = "network"
        /\ j.name = job[w].name /\ j.net = job[w].net
    BY <1>1, <1>3, <1>5, <2>1 DEF CalicoJob
  <2>3. job' = [job EXCEPT ![w] = j]
    BY <1>1, <1>7, CreatingJobs
  <2> HIDE DEF j
  <2> QED
    BY <1>1, <1>2, <1>4, <2>1, <2>2, <2>3, CreatingJobKeeps
<1>8. CASE CalicoIPAM!ReadRules(w) /\ Head(job[w].rules) \notin profile[job[w].name]
  <2> DEFINE j == [job[w] EXCEPT !.at = "update", !.seen = profile[job[w].name]]
  <2>1. job[w].at = "rules" /\ job[w].rules # <<>> /\ profile' = profile
    BY <1>8 DEF CalicoIPAM!ReadRules, CalicoIPAM!store
  <2>2. /\ j \in CalicoJob /\ j.at = "update" /\ j.con = NoContainer /\ j.kind = "network"
        /\ j.name = job[w].name /\ j.net = job[w].net /\ j.rules # <<>>
    BY <1>1, <1>3, <2>1 DEF CalicoJob, Creating
  <2>3. job' = [job EXCEPT ![w] = j]
    BY <1>1, <1>8, CreatingJobs
  <2> HIDE DEF j
  <2> QED
    BY <1>1, <1>2, <1>4, <2>1, <2>2, <2>3, CreatingJobKeeps
<1>9. CASE CalicoIPAM!WriteRules(w)
  <2> DEFINE j == [job[w] EXCEPT !.at = "rules", !.rules = Tail(job[w].rules), !.seen = {}]
  <2>1. job[w].at = "update" /\ job[w].rules # <<>>
    BY <1>3, <1>9 DEF CalicoIPAM!WriteRules, JobHas
  <2>2. /\ j \in CalicoJob /\ j.at = "rules" /\ j.con = NoContainer /\ j.kind = "network"
        /\ j.name = job[w].name /\ j.net = job[w].net
    BY <1>1, <1>3, <1>5, <2>1 DEF CalicoJob, Creating
  <2>3. job' = [job EXCEPT ![w] = j]
    BY <1>1, <1>9, CreatingJobs
  <2>4. job[w].seen \subseteq CalicoIPAM!RuleSet
    BY <1>1 DEF CalicoJob
  <2>5. profile' \in [Names -> SUBSET CalicoIPAM!RuleSet]
    BY <1>1, <1>5, <1>9, <2>1, <2>4 DEF CalicoIPAM!WriteRules
  <2> HIDE DEF j
  <2> QED
    BY <1>2, <1>4, <2>2, <2>3, <2>5, CreatingJobKeeps
<1> QED
  BY <1>6, <1>7, <1>8, <1>9

\* A job that ends leaves its container recorded, or without endpoints.
LEMMA EndingKeeps ==
  ASSUME CalicoInv, NEW w \in Workers,
         CalicoIPAM!Set(w, CalicoIPAM!Idle), UNCHANGED ippool, CalicoTypes',
         \A c \in Containers : c # job[w].con => UNCHANGED <<record[c], endpoint[c]>>,
         job[w].con # NoContainer /\ endpoint'[job[w].con] # {} =>
             record'[job[w].con] \in OnRecord
  PROVE  CalicoInv'
<1> DEFINE j == CalicoIPAM!Idle
<1>1. /\ j \in CalicoJob /\ JobHas(j) /\ j.con = NoContainer /\ j.name = NoName
      /\ j.at = "idle" /\ j.kind = "none"
  BY IdleJob DEF JobHas, OnContainer, Creating, Allocating, Detached
<1>2. job' = [job EXCEPT ![w] = j]
  BY DEF CalicoIPAM!Set
<1>3. j.at \notin OnContainer /\ j.at \notin Detached /\ j.at \notin Creating
  BY <1>1 DEF OnContainer, Allocating, Detached, Creating
<1>4. \A c \in {j.con, job[w].con} \ {NoContainer} : endpoint'[c] # {} => record'[c] \in OnRecord
  BY <1>1
<1>5. ippool \subseteq ippool' /\ j.kind # "network" /\ j.at # "detach"
  BY <1>1
<1> HIDE DEF j
<1> QED
  BY <1>1, <1>2, <1>3, <1>4, <1>5, CalicoJobStep

LEMMA BeginKeeps ==
  ASSUME CalicoInv, NEW w \in Workers, NEW c \in Containers,
         NEW what \in [kind : {"deploy", "bind", "rebind", "remove"}, nets : SUBSET Networks,
                       spec : SUBSET Addresses],
         NEW place \in {"ask", "list"}, CalicoIPAM!Begin(w, c, what, place),
         UNCHANGED <<CalicoIPAM!store, held, endpoint, stray>>,
         record' \in [Containers -> {"new", "running", "stopped", "removed"}],
         record'[c] \in OnRecord, \A d \in Containers : d # c => UNCHANGED record[d]
  PROVE  CalicoInv'
<1> DEFINE j == [CalicoIPAM!Idle EXCEPT !.at = place, !.kind = what.kind, !.con = c,
                     !.nets = what.nets, !.spec = what.spec, !.tries = 1]
<1>1. j \in CalicoJob /\ j.con = c /\ j.at = place /\ j.kind # "network" /\ j.name = NoName
  <2>1. 1 \in 0 .. MaxTries
    BY IPPoolAssumption
  <2>2. place \in {"idle"} \cup Creating \cup OnContainer
    BY DEF OnContainer, Allocating
  <2> QED
    BY <2>1, <2>2, IdleJob DEF CalicoJob
<1>2. JobHas(j)
  BY <1>1 DEF JobHas, OnContainer, Creating, Allocating, Detached
<1>3. job' = [job EXCEPT ![w] = j]
  BY DEF CalicoIPAM!Begin, CalicoIPAM!Set
<1>4. CalicoTypes'
  BY <1>1, <1>3 DEF CalicoInv, CalicoTypes, CalicoIPAM!store
<1>5. job[w].con = NoContainer
  BY CalicoJobFacts DEF CalicoIPAM!Begin, JobHas
<1>6. \A v \in Workers : job[v].con # c
  BY DEF CalicoIPAM!Begin, CalicoIPAM!Untouched
<1> HIDE DEF j
<1> QED
  BY <1>1, <1>2, <1>3, <1>4, <1>5, <1>6, CalicoJobStep
     DEF CalicoIPAM!store, OnContainer, Creating, Allocating, Detached

LEMMA TakingKeeps ==
  ASSUME CalicoInv, NEW w \in Workers, CalicoIPAM!TakeJob(w)
  PROVE  CalicoInv'
<1> DEFINE What(k, ns, ips) == [kind |-> k, nets |-> ns, spec |-> ips]
<1> USE DEF OnRecord
<1>1. ippool \subseteq Networks /\ record \in [Containers -> {"new", "running", "stopped", "removed"}]
  BY DEF CalicoInv, CalicoTypes
<1>2. ASSUME NEW c \in Containers, NEW ns \in SUBSET Networks, NEW ips \in SUBSET Addresses,
             CalicoIPAM!BeginDeploy(w, c, ns, ips)
      PROVE  CalicoInv'
  <2>1. What("deploy", ns, ips) \in [kind : {"deploy", "bind", "rebind", "remove"},
                                     nets : SUBSET Networks, spec : SUBSET Addresses]
    OBVIOUS
  <2>2. /\ record' = [record EXCEPT ![c] = "running"]
        /\ CalicoIPAM!Begin(w, c, What("deploy", ns, ips), "ask")
        /\ UNCHANGED <<CalicoIPAM!store, held, endpoint, stray>>
    BY <1>2 DEF CalicoIPAM!BeginDeploy
  <2> HIDE DEF What
  <2> QED
    BY <1>1, <2>1, <2>2, BeginKeeps
<1>3. ASSUME NEW c \in Containers, NEW ns \in SUBSET Networks, CalicoIPAM!BeginBind(w, c, ns)
      PROVE  CalicoInv'
  <2>1. What("bind", ns, {}) \in [kind : {"deploy", "bind", "rebind", "remove"},
                                  nets : SUBSET Networks, spec : SUBSET Addresses]
    OBVIOUS
  <2>2. /\ record' = record /\ record[c] = "running"
        /\ CalicoIPAM!Begin(w, c, What("bind", ns, {}), "ask")
        /\ UNCHANGED <<CalicoIPAM!store, held, endpoint, stray>>
    BY <1>3 DEF CalicoIPAM!BeginBind
  <2> HIDE DEF What
  <2> QED
    BY <1>1, <2>1, <2>2, BeginKeeps
<1>4. ASSUME NEW c \in Containers, CalicoIPAM!BeginRebind(w, c)
      PROVE  CalicoInv'
  <2>1. What("rebind", {}, {}) \in [kind : {"deploy", "bind", "rebind", "remove"},
                                    nets : SUBSET Networks, spec : SUBSET Addresses]
    OBVIOUS
  <2>2. /\ record' = [record EXCEPT ![c] = "running"]
        /\ CalicoIPAM!Begin(w, c, What("rebind", {}, {}), "list")
        /\ UNCHANGED <<CalicoIPAM!store, held, endpoint, stray>>
    BY <1>4 DEF CalicoIPAM!BeginRebind
  <2> HIDE DEF What
  <2> QED
    BY <1>1, <2>1, <2>2, BeginKeeps
<1>5. ASSUME NEW c \in Containers, CalicoIPAM!BeginRemove(w, c)
      PROVE  CalicoInv'
  <2>1. What("remove", {}, {}) \in [kind : {"deploy", "bind", "rebind", "remove"},
                                    nets : SUBSET Networks, spec : SUBSET Addresses]
    OBVIOUS
  <2>2. /\ record' = record /\ record[c] \in {"running", "stopped"}
        /\ CalicoIPAM!Begin(w, c, What("remove", {}, {}), "list")
        /\ UNCHANGED <<CalicoIPAM!store, held, endpoint, stray>>
    BY <1>5 DEF CalicoIPAM!BeginRemove
  <2> HIDE DEF What
  <2> QED
    BY <1>1, <2>1, <2>2, BeginKeeps
<1> QED
  BY <1>1, <1>2, <1>3, <1>4, <1>5, AddPoolKeeps DEF CalicoIPAM!TakeJob

LEMMA StopKeeps ==
  ASSUME CalicoInv, NEW c \in Containers, CalicoIPAM!Stop(c)
  PROVE  CalicoInv'
<1> USE DEF CalicoIPAM!Stop, CalicoInv, OnRecord
<1>1. CalicoTypes'
  BY DEF CalicoTypes, CalicoIPAM!store
<1>2. PoolsMade' /\ Alone' /\ Listed' /\ \A w \in Workers : JobHas(job'[w])
  BY DEF PoolsMade, Alone, Listed, CalicoIPAM!store
<1>3. JobsOnRecorded' /\ EndpointsRecorded'
  BY DEF CalicoTypes, JobsOnRecorded, EndpointsRecorded
<1> QED
  BY <1>1, <1>2, <1>3

\* The agent assigns addresses to the container of a job.
LEMMA Assigned ==
  ASSUME CalicoInv, NEW w \in Workers, CalicoIPAM!AgentOk(w) \/ CalicoIPAM!AgentFails(w)
  PROVE  \E A \in SUBSET Addresses : CalicoIPAM!Assign(w, A)
<1>1. job[w].spec \subseteq Addresses
  BY CalicoJobFacts DEF CalicoJob
<1>2. CalicoIPAM!Wanted(w) \subseteq SUBSET Addresses
  <2>1. CASE job[w].spec # {}
    BY <1>1, <2>1 DEF CalicoIPAM!Wanted
  <2>2. CASE job[w].spec = {}
    BY <2>2 DEF CalicoIPAM!Wanted
  <2> QED
    BY <2>1, <2>2
<1>3. CASE CalicoIPAM!AgentOk(w)
  BY <1>2, <1>3 DEF CalicoIPAM!AgentOk
<1>4. CASE CalicoIPAM!AgentFails(w)
  <2>1. PICK A \in UNION {SUBSET B : B \in CalicoIPAM!Wanted(w)} : CalicoIPAM!Assign(w, A)
    BY <1>4 DEF CalicoIPAM!AgentFails
  <2>2. A \subseteq Addresses
    BY <1>2, <2>1
  <2> QED
    BY <2>1, <2>2
<1> QED
  BY <1>3, <1>4

LEMMA AgentKeeps ==
  ASSUME CalicoInv, NEW w \in Workers, CalicoIPAM!AgentOk(w) \/ CalicoIPAM!AgentFails(w)
  PROVE  CalicoInv'
<1>1. PICK A \in SUBSET Addresses : CalicoIPAM!Assign(w, A)
  BY Assigned
<1>2. job[w].at = "ask" /\ UNCHANGED <<ippool, profile, nameOf, stray, record>>
  BY DEF CalicoIPAM!AgentOk, CalicoIPAM!AgentFails, CalicoIPAM!store
<1>3. /\ job[w].con \in Containers /\ job[w] \in CalicoJob /\ JobHas(job[w])
      /\ record[job[w].con] \in OnRecord /\ job[w].name = NoName /\ job[w].kind # "network"
  BY <1>2, CalicoJobFacts DEF OnContainer, Allocating, JobHas
<1>4. /\ held' \subseteq Addresses /\ endpoint' \in [Containers -> SUBSET Addresses]
      /\ \A c \in Containers : c # job[w].con => endpoint'[c] = endpoint[c]
  BY <1>1, <1>3 DEF CalicoIPAM!Assign, CalicoInv, CalicoTypes
<1>5. CASE CalicoIPAM!AgentOk(w)
  <2>1. CalicoIPAM!Set(w, CalicoIPAM!Idle)
    BY <1>5 DEF CalicoIPAM!AgentOk
  <2>2. CalicoTypes'
    BY <1>2, <1>4, <2>1, IdleJob DEF CalicoIPAM!Set, CalicoInv, CalicoTypes
  <2> QED
    BY <1>2, <1>3, <1>4, <2>1, <2>2, EndingKeeps
<1>6. CASE CalicoIPAM!AgentFails(w)
  <2> DEFINE j == [job[w] EXCEPT !.at = "undo"]
  <2>1. /\ j \in CalicoJob /\ j.at = "undo" /\ j.con = job[w].con
        /\ j.kind = job[w].kind /\ j.name = job[w].name
    BY <1>3 DEF CalicoJob, OnContainer, Allocating
  <2>2. job' = [job EXCEPT ![w] = j]
    BY <1>6, CalicoJobFacts DEF CalicoIPAM!AgentFails, CalicoIPAM!Goto
  <2>3. CalicoTypes'
    BY <1>2, <1>4, <2>1, <2>2 DEF CalicoInv, CalicoTypes
  <2>4. JobHas(j)
    BY <1>3, <2>1 DEF JobHas, OnContainer, Creating, Allocating, Detached
  <2> HIDE DEF j
  <2>5. j.at \notin Detached /\ j.at \notin Creating /\ j.at # "detach" /\ j.kind # "network"
    BY <1>3, <2>1 DEF Detached, Creating
  <2> QED
    BY <1>2, <1>3, <1>4, <2>1, <2>2, <2>3, <2>4, <2>5, CalicoJobStep
<1> QED
  BY <1>5, <1>6

\* A job goes on to another step with its container, and at most the
\* endpoints of that container change.
LEMMA GoingOnKeeps ==
  ASSUME CalicoInv, NEW w \in Workers, NEW j \in CalicoJob,
         job[w].at \in OnContainer, job' = [job EXCEPT ![w] = j],
         j.at \in OnContainer, j.con = job[w].con, j.name = job[w].name, j.kind # "network",
         UNCHANGED <<ippool, profile, nameOf, record>>,
         held' \subseteq Addresses, stray' \subseteq Addresses,
         endpoint' \in [Containers -> SUBSET Addresses],
         \A c \in Containers : c # j.con => endpoint'[c] = endpoint[c],
         j.at \in Detached => j.drop = endpoint'[j.con],
         j.at = "detach" => j.gone \in j.drop
  PROVE  CalicoInv'
<1>1. CalicoTypes'
  BY CalicoJobFacts DEF CalicoInv, CalicoTypes
<1>2. /\ job[w].con \in Containers /\ JobHas(job[w]) /\ job[w].name = NoName
      /\ record[job[w].con] \in OnRecord
  BY CalicoJobFacts DEF JobHas
<1>3. JobHas(j) /\ j.at \notin Creating
  BY <1>2 DEF JobHas, OnContainer, Creating, Allocating, Detached
<1> QED
  BY <1>1, <1>2, <1>3, CalicoJobStep

\* A job that ends and leaves the containers as they are.
LEMMA QuietEndingKeeps ==
  ASSUME CalicoInv, NEW w \in Workers,
         CalicoIPAM!NamePool(w) \/ CalicoIPAM!AskFails(w) \/ CalicoIPAM!GiveUp(w)
  PROVE  CalicoInv'
<1> USE DEF CalicoIPAM!NamePool, CalicoIPAM!AskFails, CalicoIPAM!GiveUp,
            CalicoIPAM!ReleaseAsked, CalicoIPAM!store
<1>1. CalicoIPAM!Set(w, CalicoIPAM!Idle) /\ UNCHANGED <<ippool, profile, record, endpoint>>
  OBVIOUS
<1>2. /\ job \in [Workers -> CalicoJob] /\ job[w] \in CalicoJob
      /\ job[w].at \in Creating => job[w].name \in Names
  BY CalicoJobFacts DEF JobHas
<1>3. nameOf' \in [Networks -> Names \cup {NoName}]
  <2>1. CASE CalicoIPAM!NamePool(w)
    BY <1>2, <2>1 DEF CalicoInv, CalicoTypes, Creating
  <2>2. CASE UNCHANGED nameOf
    BY <2>2 DEF CalicoInv, CalicoTypes
  <2> QED
    BY <2>1, <2>2
<1>4. held' \subseteq Addresses /\ stray' \subseteq Addresses
  BY <1>2 DEF CalicoInv, CalicoTypes, CalicoJob
<1>5. CalicoTypes'
  BY <1>1, <1>2, <1>3, <1>4, IdleJob DEF CalicoInv, CalicoTypes, CalicoIPAM!Set
<1>6. job[w].con # NoContainer /\ endpoint[job[w].con] # {} => record[job[w].con] \in OnRecord
  <2>1. job[w].con # NoContainer => job[w].con \in Containers
    BY <1>2 DEF CalicoJob
  <2> QED
    BY <2>1 DEF CalicoInv, EndpointsRecorded
<1> HIDE DEF CalicoIPAM!NamePool, CalicoIPAM!AskFails, CalicoIPAM!GiveUp,
             CalicoIPAM!ReleaseAsked, CalicoIPAM!store
<1> QED
  BY <1>1, <1>5, <1>6, EndingKeeps

LEMMA AfterFailureKeeps ==
  ASSUME CalicoInv, NEW w \in Workers, CalicoIPAM!Retry(w) \/ CalicoIPAM!Clean(w)
  PROVE  CalicoInv'
<1>1. /\ job[w].at = "undo"
      /\ held' = held \ job[w].spec /\ stray' = stray \cup job[w].spec
      /\ UNCHANGED <<ippool, profile, nameOf, record, endpoint>>
  BY DEF CalicoIPAM!Retry, CalicoIPAM!Clean, CalicoIPAM!ReleaseAsked, CalicoIPAM!store
<1>2. job[w] \in CalicoJob /\ job \in [Workers -> CalicoJob] /\ job[w].kind # "network"
  BY <1>1, CalicoJobFacts DEF JobHas, OnContainer, Allocating
<1>3. \E j \in CalicoJob :
        /\ job' = [job EXCEPT ![w] = j]
        /\ j.at \in {"ask", "list"} /\ j.con = job[w].con /\ j.name = job[w].name
        /\ j.kind # "network"
  <2>1. CASE CalicoIPAM!Retry(w)
    <3> DEFINE more == job[w].tries + 1
    <3>1. more \in 0 .. MaxTries
      BY <1>2, <2>1, IPPoolAssumption DEF CalicoIPAM!Retry, CalicoJob
    <3> DEFINE place == IF job[w].kind = "bind" THEN "ask" ELSE "list"
               j == [job[w] EXCEPT !.tries = more, !.spec = {}, !.at = place]
    <3>2. /\ j \in CalicoJob /\ j.at \in {"ask", "list"} /\ j.con = job[w].con
          /\ j.name = job[w].name /\ j.kind # "network"
      <4>1. place \in {"ask", "list"} /\ place \in {"idle"} \cup Creating \cup OnContainer
        BY DEF OnContainer, Allocating
      <4> HIDE DEF place, more
      <4>2. /\ j.at = place /\ j.con = job[w].con /\ j.name = job[w].name
            /\ j.kind = job[w].kind
        BY <1>2 DEF CalicoJob
      <4>3. j \in CalicoJob
        <5> HIDE DEF Creating, OnContainer
        <5> QED
          BY <1>2, <3>1, <4>1 DEF CalicoJob
      <4> QED
        BY <1>2, <4>1, <4>2, <4>3
    <3>3. job' = [job EXCEPT ![w] = j]
      BY <1>2, <2>1 DEF CalicoIPAM!Retry
    <3> QED
      BY <3>2, <3>3
  <2>2. CASE CalicoIPAM!Clean(w)
    <3> DEFINE j == [job[w] EXCEPT !.at = "list", !.kind = "remove"]
    <3>2. /\ j \in CalicoJob /\ j.at \in {"ask", "list"} /\ j.con = job[w].con
          /\ j.name = job[w].name /\ j.kind # "network"
      BY <1>2 DEF CalicoJob, OnContainer
    <3>3. job' = [job EXCEPT ![w] = j]
      BY <1>2, <2>2 DEF CalicoIPAM!Clean
    <3> QED
      BY <3>2, <3>3
  <2> QED
    BY <2>1, <2>2
<1>4. PICK j \in CalicoJob :
        /\ job' = [job EXCEPT ![w] = j]
        /\ j.at \in {"ask", "list"} /\ j.con = job[w].con /\ j.name = job[w].name
        /\ j.kind # "network"
  BY <1>3
<1>5. job[w].at \in OnContainer /\ j.at \in OnContainer /\ j.at \notin Detached /\ j.at # "detach"
  BY <1>1, <1>4 DEF OnContainer, Allocating, Detached
<1>6. held' \subseteq Addresses /\ stray' \subseteq Addresses
      /\ endpoint' \in [Containers -> SUBSET Addresses]
  BY <1>1, <1>2 DEF CalicoInv, CalicoTypes, CalicoJob
<1> QED
  BY <1>1, <1>4, <1>5, <1>6, GoingOnKeeps

LEMMA ReleasingKeeps ==
  ASSUME CalicoInv, NEW w \in Workers,
         \/ CalicoIPAM!ListEndpoints(w)
         \/ \E a \in Addresses : CalicoIPAM!FreeAddress(w, a)
         \/ CalicoIPAM!RemoveEndpoint(w)
  PROVE  CalicoInv'
<1>1. /\ job[w].at \in {"list"} \cup Detached
      /\ UNCHANGED <<ippool, profile, nameOf, record, stray>>
  BY DEF CalicoIPAM!ListEndpoints, CalicoIPAM!FreeAddress, CalicoIPAM!RemoveEndpoint,
     CalicoIPAM!store, Detached
<1>2. /\ job[w] \in CalicoJob /\ job \in [Workers -> CalicoJob] /\ job[w].kind # "network"
      /\ job[w].at \in Detached => job[w].drop = endpoint[job[w].con]
      /\ job[w].con \in Containers /\ job[w].at \in OnContainer
  BY <1>1, CalicoJobFacts DEF JobHas, OnContainer
<1>3. held \subseteq Addresses /\ endpoint \in [Containers -> SUBSET Addresses]
  BY DEF CalicoInv, CalicoTypes
<1>4. CASE CalicoIPAM!ListEndpoints(w)
  <2> DEFINE mine == endpoint[job[w].con]
  <2> DEFINE j == [job[w] EXCEPT !.drop = mine, !.at = "free",
                                 !.spec = IF job[w].kind = "rebind" THEN mine ELSE {}]
  <2>1. mine \subseteq Addresses
    BY <1>2, <1>3
  <2>2. /\ j \in CalicoJob /\ j.at = "free" /\ j.con = job[w].con
        /\ j.name = job[w].name /\ j.kind = job[w].kind /\ j.drop = mine
    BY <1>2, <2>1 DEF CalicoJob, OnContainer, Detached
  <2>3. job' = [job EXCEPT ![w] = j] /\ UNCHANGED <<held, endpoint>>
    BY <1>2, <1>4 DEF CalicoIPAM!ListEndpoints
  <2> HIDE DEF j
  <2>4. j.at \in OnContainer
    BY <2>2 DEF OnContainer, Detached
  <2>5. stray' \subseteq Addresses
    BY <1>1 DEF CalicoInv, CalicoTypes
  <2> QED
    BY <1>1, <1>2, <1>3, <2>2, <2>3, <2>4, <2>5, GoingOnKeeps
<1>5. CASE \E a \in Addresses : CalicoIPAM!FreeAddress(w, a)
  <2>0. PICK a \in Addresses : CalicoIPAM!FreeAddress(w, a)
    BY <1>5
  <2> DEFINE j == [job[w] EXCEPT !.at = "detach", !.gone = a]
  <2>1. /\ j \in CalicoJob /\ j.at = "detach" /\ j.con = job[w].con /\ j.gone = a
        /\ j.name = job[w].name /\ j.kind = job[w].kind /\ j.drop = job[w].drop
    BY <1>2 DEF CalicoJob, OnContainer, Detached
  <2>2. /\ job' = [job EXCEPT ![w] = j] /\ UNCHANGED endpoint /\ held' \subseteq Addresses
        /\ a \in job[w].drop /\ job[w].at = "free"
    BY <1>2, <1>3, <2>0 DEF CalicoIPAM!FreeAddress
  <2> HIDE DEF j
  <2>3. j.at \in OnContainer /\ job[w].at \in Detached
    BY <2>1, <2>2 DEF OnContainer, Detached
  <2>4. stray' \subseteq Addresses
    BY <1>1 DEF CalicoInv, CalicoTypes
  <2> QED
    BY <1>1, <1>2, <1>3, <2>1, <2>2, <2>3, <2>4, GoingOnKeeps
<1>6. CASE CalicoIPAM!RemoveEndpoint(w)
  <2> DEFINE j == [job[w] EXCEPT !.at = "free", !.gone = NoAddress, !.drop = @ \ {job[w].gone}]
  <2>1. /\ j \in CalicoJob /\ j.at = "free" /\ j.con = job[w].con
        /\ j.name = job[w].name /\ j.kind = job[w].kind
        /\ j.drop = job[w].drop \ {job[w].gone}
    BY <1>2 DEF CalicoJob, OnContainer, Detached
  <2>2. /\ job' = [job EXCEPT ![w] = j] /\ UNCHANGED held /\ job[w].at = "detach"
        /\ endpoint' = [endpoint EXCEPT ![job[w].con] = @ \ {job[w].gone}]
    BY <1>2, <1>6 DEF CalicoIPAM!RemoveEndpoint
  <2> HIDE DEF j
  <2>3. j.at \in OnContainer /\ job[w].at \in Detached
    BY <2>1, <2>2 DEF OnContainer, Detached
  <2>4. stray' \subseteq Addresses
    BY <1>1 DEF CalicoInv, CalicoTypes
  <2>5. /\ endpoint' \in [Containers -> SUBSET Addresses]
        /\ endpoint'[job[w].con] = j.drop
        /\ \A c \in Containers : c # j.con => endpoint'[c] = endpoint[c]
    BY <1>2, <1>3, <2>1, <2>2, <2>3
  <2> QED
    BY <1>1, <1>2, <1>3, <2>1, <2>2, <2>3, <2>4, <2>5, GoingOnKeeps
<1> QED
  BY <1>4, <1>5, <1>6

\* All that was listed has been detached.
LEMMA ReleasedKeeps ==
  ASSUME CalicoInv, NEW w \in Workers, CalicoIPAM!Reallocate(w) \/ CalicoIPAM!Forget(w)
  PROVE  CalicoInv'
<1>1. /\ job[w].at = "free" /\ job[w].drop = {}
      /\ UNCHANGED <<ippool, profile, nameOf, held, endpoint, stray>>
  BY DEF CalicoIPAM!Reallocate, CalicoIPAM!Forget, CalicoIPAM!store
<1>2. /\ job[w] \in CalicoJob /\ job \in [Workers -> CalicoJob] /\ job[w].kind # "network"
      /\ job[w].at \in OnContainer /\ job[w].con \in Containers
      /\ endpoint[job[w].con] = {}
  BY <1>1, CalicoJobFacts DEF JobHas, OnContainer, Detached
<1>3. CASE CalicoIPAM!Set(w, CalicoIPAM!Idle)
  <2>1. /\ record' \in [Containers -> {"new", "running", "stopped", "removed"}]
        /\ \A c \in Containers : c # job[w].con => record'[c] = record[c]
    BY <1>2 DEF CalicoIPAM!Reallocate, CalicoIPAM!Forget, CalicoInv, CalicoTypes
  <2>2. CalicoTypes'
    BY <1>1, <1>3, <2>1, IdleJob DEF CalicoIPAM!Set, CalicoInv, CalicoTypes
  <2> QED
    BY <1>1, <1>2, <1>3, <2>1, <2>2, EndingKeeps
<1>4. CASE CalicoIPAM!Goto(w, "ask") /\ UNCHANGED record
  <2> DEFINE j == [job[w] EXCEPT !.at = "ask"]
  <2>1. /\ j \in CalicoJob /\ j.at = "ask" /\ j.con = job[w].con
        /\ j.name = job[w].name /\ j.kind = job[w].kind
    BY <1>2 DEF CalicoJob, OnContainer, Allocating
  <2>2. job' = [job EXCEPT ![w] = j]
    BY <1>2, <1>4 DEF CalicoIPAM!Goto
  <2> HIDE DEF j
  <2>3. j.at \in OnContainer /\ j.at \notin Detached /\ j.at # "detach"
    BY <2>1 DEF OnContainer, Allocating, Detached
  <2>4. /\ held' \subseteq Addresses /\ stray' \subseteq Addresses
        /\ endpoint' \in [Containers -> SUBSET Addresses]
    BY <1>1 DEF CalicoInv, CalicoTypes
  <2> QED
    BY <1>1, <1>2, <1>4, <2>1, <2>2, <2>3, <2>4, GoingOnKeeps
<1> QED
  BY <1>3, <1>4 DEF CalicoIPAM!Reallocate, CalicoIPAM!Forget

LEMMA CalicoStep == CalicoInv /\ CalicoIPAM!Next => CalicoInv'
<1> SUFFICES ASSUME CalicoInv, CalicoIPAM!Next PROVE CalicoInv'
  OBVIOUS
<1>1. ASSUME NEW w \in Workers, CalicoIPAM!Work(w) PROVE CalicoInv'
  BY <1>1, CreatingKeeps, AgentKeeps, QuietEndingKeeps, AfterFailureKeeps, ReleasingKeeps,
     ReleasedKeeps DEF CalicoIPAM!Work
<1> QED
  BY <1>1, TakingKeeps, StopKeeps DEF CalicoIPAM!Next

-----------------------------------------------------------------------------
(* Calico: who has an address.                                             *)

\* c has an endpoint of address a that is not about to be removed.
On(c, a) == a \in endpoint[c] /\ ~CalicoIPAM!Detaching(c, a)

\* Only an address that a failed call asked for may be on two containers'
\* endpoints, or on one and not be assigned; what is assigned is on one.
OnOne ==
    \A a \in Addresses \ stray : \A c, d \in Containers :
        On(c, a) /\ On(d, a) => c = d /\ a \in held
HeldIsOn == \A a \in held : \E c \in Containers : On(c, a)
HeldInv == OnOne /\ HeldIsOn

LEMMA HeldInit == CalicoIPAM!Init => HeldInv
  BY DEF CalicoIPAM!Init, HeldInv, OnOne, HeldIsOn, On

\* Job w takes a step that neither begins nor ends the removal of an endpoint.
Passes(w) ==
    /\ job[w].at # "detach" /\ job'[w].at # "detach"
    /\ \A v \in Workers : v # w => job'[v] = job[v]

\* Whether an endpoint is about to be removed is a matter of the jobs that
\* are at "detach".
LEMMA SameDetaching ==
  ASSUME NEW w \in Workers, Passes(w)
  PROVE  \A c, a : CalicoIPAM!Detaching(c, a)' <=> CalicoIPAM!Detaching(c, a)
  BY DEF CalicoIPAM!Detaching, Passes

\* Nobody else detaches from the container of a job.
LEMMA NotDetaching ==
  ASSUME CalicoInv, NEW w \in Workers, job[w].at \in OnContainer, job[w].at # "detach"
  PROVE  \A a : ~CalicoIPAM!Detaching(job[w].con, a)
<1>1. job[w].con \in Containers /\ job[w].con # NoContainer
  BY CalicoJobFacts
<1> QED
  BY <1>1 DEF CalicoIPAM!Detaching, CalicoInv, Alone

\* The endpoints stay, and what is not assigned any more is stray.
LEMMA HeldSame ==
  ASSUME HeldInv, NEW w \in Workers, Passes(w),
         UNCHANGED endpoint, stray \subseteq stray', held' \subseteq held,
         held \ held' \subseteq stray'
  PROVE  HeldInv'
<1>1. \A c, a : On(c, a)' <=> On(c, a)
  BY SameDetaching DEF On
<1> QED
  BY <1>1 DEF HeldInv, OnOne, HeldIsOn

LEMMA TakingHeld ==
  ASSUME CalicoInv, HeldInv, NEW w \in Workers, CalicoIPAM!TakeJob(w)
  PROVE  HeldInv'
<1> DEFINE Taken == Passes(w) /\ UNCHANGED <<endpoint, stray, held>>
<1>1. job \in [Workers -> CalicoJob]
  BY DEF CalicoInv, CalicoTypes
<1>2. ASSUME NEW n \in Networks, NEW name \in Names, CalicoIPAM!AddPool(w, n, name)
      PROVE  Taken
  BY <1>1, <1>2, IdleJob DEF CalicoIPAM!AddPool, CalicoIPAM!Set, CalicoJob, Passes
<1>3. ASSUME NEW c, NEW what, NEW place \in {"ask", "list"}, CalicoIPAM!Begin(w, c, what, place)
      PROVE  Passes(w)
  BY <1>1, <1>3, IdleJob DEF CalicoIPAM!Begin, CalicoIPAM!Set, CalicoJob, Passes
<1>4. ASSUME NEW c, NEW ns, NEW ips,
             \/ CalicoIPAM!BeginDeploy(w, c, ns, ips) \/ CalicoIPAM!BeginBind(w, c, ns)
             \/ CalicoIPAM!BeginRebind(w, c) \/ CalicoIPAM!BeginRemove(w, c)
      PROVE  Taken
  BY <1>3, <1>4 DEF CalicoIPAM!BeginDeploy, CalicoIPAM!BeginBind, CalicoIPAM!BeginRebind,
     CalicoIPAM!BeginRemove
<1>5. Taken
  BY <1>2, <1>4 DEF CalicoIPAM!TakeJob
<1> QED
  BY <1>5, HeldSame

LEMMA QuietHeld ==
  ASSUME CalicoInv, HeldInv, NEW w \in Workers,
         \/ CalicoIPAM!CreateProfile(w) \/ CalicoIPAM!ReadRules(w) \/ CalicoIPAM!WriteRules(w)
         \/ CalicoIPAM!NamePool(w)
         \/ CalicoIPAM!AskFails(w) \/ CalicoIPAM!ListEndpoints(w)
         \/ CalicoIPAM!Reallocate(w) \/ CalicoIPAM!Forget(w)
  PROVE  HeldInv'
<1>1. job \in [Workers -> CalicoJob]
  BY DEF CalicoInv, CalicoTypes
<1>2. UNCHANGED <<endpoint, stray, held>>
  BY DEF CalicoIPAM!CreateProfile, CalicoIPAM!ReadRules, CalicoIPAM!WriteRules,
     CalicoIPAM!NamePool, CalicoIPAM!AskFails,
     CalicoIPAM!ListEndpoints, CalicoIPAM!Reallocate, CalicoIPAM!Forget
<1>3. Passes(w)
  <2> USE <1>1, IdleJob DEF CalicoIPAM!Goto, CalicoIPAM!Set, CalicoJob, Passes
  <2>1. CASE CalicoIPAM!CreateProfile(w)
    BY <2>1 DEF CalicoIPAM!CreateProfile
  <2>2. CASE CalicoIPAM!ReadRules(w) \/ CalicoIPAM!WriteRules(w)
    BY <2>2 DEF CalicoIPAM!ReadRules, CalicoIPAM!WriteRules
  <2>3. CASE CalicoIPAM!NamePool(w)
    BY <2>3 DEF CalicoIPAM!NamePool
  <2>4. CASE CalicoIPAM!AskFails(w)
    BY <2>4 DEF CalicoIPAM!AskFails
  <2>5. CASE CalicoIPAM!ListEndpoints(w)
    BY <2>5 DEF CalicoIPAM!ListEndpoints
  <2>6. CASE CalicoIPAM!Reallocate(w)
    BY <2>6 DEF CalicoIPAM!Reallocate
  <2>7. CASE CalicoIPAM!Forget(w)
    BY <2>7 DEF CalicoIPAM!Forget
  <2> QED
    BY <2>1, <2>2, <2>3, <2>4, <2>5, <2>6, <2>7
<1> QED
  BY <1>1, <1>2, <1>3, HeldSame

LEMMA FailureHeld ==
  ASSUME CalicoInv, HeldInv, NEW w \in Workers,
         CalicoIPAM!Retry(w) \/ CalicoIPAM!GiveUp(w) \/ CalicoIPAM!Clean(w)
  PROVE  HeldInv'
<1>1. job \in [Workers -> CalicoJob]
  BY DEF CalicoInv, CalicoTypes
<1>2. /\ job[w].at = "undo" /\ UNCHANGED endpoint
      /\ held' = held \ job[w].spec /\ stray' = stray \cup job[w].spec
  BY DEF CalicoIPAM!Retry, CalicoIPAM!GiveUp, CalicoIPAM!Clean, CalicoIPAM!ReleaseAsked
<1>3. Passes(w)
  <2> USE <1>1, <1>2 DEF CalicoJob, Passes
  <2>1. CASE CalicoIPAM!Retry(w)
    BY <2>1 DEF CalicoIPAM!Retry
  <2>2. CASE CalicoIPAM!GiveUp(w)
    BY <2>2, IdleJob DEF CalicoIPAM!GiveUp, CalicoIPAM!Set
  <2>3. CASE CalicoIPAM!Clean(w)
    BY <2>3 DEF CalicoIPAM!Clean
  <2> QED
    BY <2>1, <2>2, <2>3
<1> QED
  BY <1>1, <1>2, <1>3, HeldSame

\* What the agent assigns was not assigned, so that nobody else was on it.
LEMMA AgentHeld ==
  ASSUME CalicoInv, HeldInv, NEW w \in Workers, CalicoIPAM!AgentOk(w) \/ CalicoIPAM!AgentFails(w)
  PROVE  HeldInv'
<1>1. PICK A \in SUBSET Addresses : CalicoIPAM!Assign(w, A)
  BY Assigned
<1>2. /\ job \in [Workers -> CalicoJob] /\ endpoint \in [Containers -> SUBSET Addresses]
      /\ held \subseteq Addresses
  BY DEF CalicoInv, CalicoTypes
<1>3. job[w].at = "ask" /\ UNCHANGED stray
  BY DEF CalicoIPAM!AgentOk, CalicoIPAM!AgentFails
<1>4. Passes(w)
  BY <1>2, <1>3, IdleJob
     DEF CalicoIPAM!AgentOk, CalicoIPAM!AgentFails, CalicoIPAM!Set, CalicoIPAM!Goto, CalicoJob,
         Passes
<1>5. job[w].con \in Containers /\ \A a : ~CalicoIPAM!Detaching(job[w].con, a)
  BY <1>3, CalicoJobFacts, NotDetaching DEF OnContainer, Allocating
<1>6. \A c, a : CalicoIPAM!Detaching(c, a)' <=> CalicoIPAM!Detaching(c, a)
  BY <1>4, SameDetaching
<1>7. \A c \in Containers, a \in Addresses :
          On(c, a)' <=> On(c, a) \/ (c = job[w].con /\ a \in A)
  BY <1>1, <1>2, <1>5, <1>6 DEF On, CalicoIPAM!Assign
<1>8. held' = held \cup A /\ A \cap held = {}
  BY <1>1 DEF CalicoIPAM!Assign
<1>9. OnOne'
  <2> SUFFICES ASSUME NEW a \in Addresses, a \notin stray, NEW c \in Containers,
                      NEW d \in Containers, On(c, a)', On(d, a)'
               PROVE  c = d /\ a \in held'
    BY <1>3 DEF OnOne
  <2>1. \A e \in Containers : On(e, a) => a \in held
    BY DEF HeldInv, OnOne
  <2>2. CASE a \in A
    BY <1>7, <1>8, <2>1, <2>2
  <2>3. CASE a \notin A
    BY <1>7, <1>8, <2>3 DEF HeldInv, OnOne
  <2> QED
    BY <2>2, <2>3
<1>10. HeldIsOn'
  BY <1>2, <1>5, <1>7, <1>8 DEF HeldInv, HeldIsOn
<1> QED
  BY <1>9, <1>10 DEF HeldInv

\* An address is released while the endpoint is there; from then on it is
\* about to be removed.
LEMMA FreeHeld ==
  ASSUME CalicoInv, HeldInv, NEW w \in Workers, NEW a \in Addresses, CalicoIPAM!FreeAddress(w, a)
  PROVE  HeldInv'
<1>1. /\ job \in [Workers -> CalicoJob] /\ job[w] \in CalicoJob
      /\ held \subseteq Addresses
  BY CalicoJobFacts DEF CalicoInv, CalicoTypes
<1>2. /\ job[w].at = "free" /\ a \in job[w].drop
      /\ held' = held \ {a} /\ UNCHANGED <<endpoint, stray>>
      /\ job'[w].at = "detach" /\ job'[w].gone = a /\ job'[w].con = job[w].con
      /\ \A v \in Workers : v # w => job'[v] = job[v]
  BY <1>1 DEF CalicoIPAM!FreeAddress, CalicoJob
<1>3. /\ job[w].con \in Containers /\ a \in endpoint[job[w].con]
      /\ \A b : ~CalicoIPAM!Detaching(job[w].con, b)
  BY <1>2, CalicoJobFacts, NotDetaching DEF OnContainer, Detached
<1>4. \A c, b : On(c, b)' <=> On(c, b) /\ ~(c = job[w].con /\ b = a)
  BY <1>2 DEF On, CalicoIPAM!Detaching
<1>5. On(job[w].con, a)
  BY <1>3 DEF On
<1>6. OnOne'
  BY <1>2, <1>3, <1>4, <1>5 DEF HeldInv, OnOne
<1>7. HeldIsOn'
  BY <1>2, <1>4 DEF HeldInv, HeldIsOn
<1> QED
  BY <1>6, <1>7 DEF HeldInv

LEMMA DetachHeld ==
  ASSUME CalicoInv, HeldInv, NEW w \in Workers, CalicoIPAM!RemoveEndpoint(w)
  PROVE  HeldInv'
<1>1. /\ job \in [Workers -> CalicoJob] /\ job[w] \in CalicoJob
      /\ held \subseteq Addresses /\ endpoint \in [Containers -> SUBSET Addresses]
  BY CalicoJobFacts DEF CalicoInv, CalicoTypes
<1>2. /\ job[w].at = "detach" /\ UNCHANGED <<held, stray>>
      /\ endpoint' = [endpoint EXCEPT ![job[w].con] = @ \ {job[w].gone}]
      /\ job'[w].at = "free" /\ \A v \in Workers : v # w => job'[v] = job[v]
  BY <1>1 DEF CalicoIPAM!RemoveEndpoint, CalicoJob
<1>3. \A c \in Containers : \A b : On(c, b)' <=> On(c, b)
  <2> SUFFICES ASSUME NEW c \in Containers, NEW b PROVE On(c, b)' <=> On(c, b)
    OBVIOUS
  <2>1. CASE c = job[w].con /\ b = job[w].gone
    BY <1>1, <1>2, <2>1 DEF On, CalicoIPAM!Detaching
  <2>2. CASE ~(c = job[w].con /\ b = job[w].gone)
    <3>1. CalicoIPAM!Detaching(c, b)' <=> CalicoIPAM!Detaching(c, b)
      BY <1>2, <2>2 DEF CalicoIPAM!Detaching
    <3>2. b \in endpoint'[c] <=> b \in endpoint[c]
      BY <1>1, <1>2, <2>2
    <3> QED
      BY <3>1, <3>2 DEF On
  <2> QED
    BY <2>1, <2>2
<1> QED
  BY <1>1, <1>2, <1>3 DEF HeldInv, OnOne, HeldIsOn

LEMMA HeldStep == CalicoInv /\ HeldInv /\ CalicoIPAM!Next => HeldInv'
<1> SUFFICES ASSUME CalicoInv, HeldInv, CalicoIPAM!Next PROVE HeldInv'
  OBVIOUS
<1>1. ASSUME NEW w \in Workers, CalicoIPAM!Work(w) PROVE HeldInv'
  BY <1>1, QuietHeld, FailureHeld, AgentHeld, FreeHeld, DetachHeld DEF CalicoIPAM!Work
<1>2. ASSUME NEW c \in Containers, CalicoIPAM!Stop(c) PROVE HeldInv'
  BY <1>2 DEF CalicoIPAM!Stop, HeldInv, OnOne, HeldIsOn, On, CalicoIPAM!Detaching
<1> QED
  BY <1>1, <1>2, TakingHeld DEF CalicoIPAM!Next

LEMMA OnOneHeld == HeldInv => EndpointsHeld
  BY DEF HeldInv, OnOne, On, EndpointsHeld, CalicoIPAM!EndpointsHeld

LEMMA HeldAtRest == CalicoInv /\ HeldInv => HeldForSomebody
<1> SUFFICES ASSUME CalicoInv, HeldInv, NEW a \in held
             PROVE  \E c \in Containers : a \in endpoint[c] /\ record[c] # "removed"
  BY DEF HeldForSomebody, CalicoIPAM!HeldForSomebody
<1>1. PICK c \in Containers : a \in endpoint[c]
  BY DEF HeldInv, HeldIsOn, On
<1>2. record[c] \in OnRecord
  BY <1>1 DEF CalicoInv, EndpointsRecorded
<1> QED
  BY <1>1, <1>2 DEF OnRecord

-----------------------------------------------------------------------------
(* Calico: the names of networks.                                          *)

\* The rules a job has added to the profile are those it has not still to add;
\* what it has read is what is there.
Written(rules, has) ==
    /\ rules = <<"tcp", "udp">> => "icmp" \in has
    /\ rules = <<"udp">> => {"icmp", "tcp"} \subseteq has
    /\ rules = <<>> => has = CalicoIPAM!RuleSet
Added ==
    \A w \in Workers :
        /\ job[w].at \in {"rules", "update"} =>
               Written(job[w].rules, profile[job[w].name])
        /\ job[w].at = "update" => job[w].seen = profile[job[w].name]

\* Only a creation under a name that a network has is one that comes again.
First ==
    \A w \in Workers : job[w].at \in Creating /\ ~job[w].again =>
        \A n \in Networks : nameOf[n] # job[w].name

\* A network with a name has a pool, and the profile all rules, unless the
\* job that creates a network of the name has reset it.
Named ==
    \A n \in Networks : nameOf[n] # NoName =>
        /\ nameOf[n] \in Names /\ n \in ippool
        /\ \/ profile[nameOf[n]] = CalicoIPAM!RuleSet
           \/ \E w \in Workers : job[w].at \in Creating /\ job[w].name = nameOf[n]
NameInv == Added /\ First /\ Named

LEMMA NameInit == CalicoIPAM!Init => NameInv
<1> SUFFICES ASSUME CalicoIPAM!Init PROVE NameInv
  OBVIOUS
<1>1. \A w \in Workers : job[w].at = "idle"
  BY IdleJob DEF CalicoIPAM!Init
<1>2. Added /\ First
  BY <1>1 DEF Added, First, Creating
<1>3. Named
  BY DEF CalicoIPAM!Init, Named
<1> QED
  BY <1>2, <1>3 DEF NameInv

\* A step that no creation of a network takes.
LEMMA SameNames ==
  ASSUME NameInv, NEW w \in Workers, \A v \in Workers : v # w => job'[v] = job[v],
         job[w].at \notin Creating, job'[w].at \notin Creating,
         UNCHANGED <<ippool, profile, nameOf>>
  PROVE  NameInv'
<1>1. Added'
  <2> SUFFICES ASSUME NEW v \in Workers, job'[v].at \in {"rules", "update"}
               PROVE  /\ Written(job'[v].rules, profile'[job'[v].name])
                      /\ job'[v].at = "update" => job'[v].seen = profile'[job'[v].name]
    BY DEF Added
  <2>1. v # w /\ job'[v] = job[v]
    BY DEF Creating
  <2> QED
    BY <2>1 DEF NameInv, Added
<1>2. First'
  BY DEF NameInv, First
<1>3. Named'
  BY DEF NameInv, Named
<1> QED
  BY <1>1, <1>2, <1>3 DEF NameInv

\* The one job that creates a network of the name is w.
LEMMA OneCreates ==
  ASSUME CalicoInv, NEW w \in Workers, job[w].at \in Creating
  PROVE  /\ job[w].name \in Names /\ job[w].net \in ippool /\ job[w].again \in BOOLEAN
         /\ \A v \in Workers : v # w => job[v].name # job[w].name
<1>1. job[w] \in CalicoJob
  BY CalicoJobFacts
<1>2. job[w].name \in Names /\ NoName \notin Names
  BY IPAMAssumption DEF CalicoInv, JobHas
<1> QED
  BY <1>1, <1>2 DEF CalicoInv, PoolsMade, Alone, CalicoJob

\* A step of a creation that is not its end: the profile of its name is all
\* that changes.
LEMMA CreationNames ==
  ASSUME CalicoInv, NameInv, NEW w \in Workers, job[w].at \in Creating,
         NEW has \in SUBSET CalicoIPAM!RuleSet,
         profile' = [profile EXCEPT ![job[w].name] = has], UNCHANGED <<ippool, nameOf>>,
         \A v \in Workers : v # w => job'[v] = job[v],
         job'[w].at \in {"rules", "update"}, job'[w].name = job[w].name,
         job'[w].again = job[w].again,
         Written(job'[w].rules, has), job'[w].at = "update" => job'[w].seen = has
  PROVE  NameInv'
<1>1. profile \in [Names -> SUBSET CalicoIPAM!RuleSet]
  BY DEF CalicoInv, CalicoTypes
<1>2. /\ job[w].name \in Names /\ job'[w].at \in Creating
      /\ \A v \in Workers : v # w => job[v].name # job[w].name
  BY OneCreates DEF Creating
<1>3. profile'[job[w].name] = has
  BY <1>1, <1>2
<1>4. \A name : name # job[w].name => profile'[name] = profile[name]
  BY <1>1
<1>5. Added'
  <2> SUFFICES ASSUME NEW v \in Workers, job'[v].at \in {"rules", "update"}
               PROVE  /\ Written(job'[v].rules, profile'[job'[v].name])
                      /\ job'[v].at = "update" => job'[v].seen = profile'[job'[v].name]
    BY DEF Added
  <2>1. CASE v = w
    BY <1>3, <2>1
  <2>2. CASE v # w
    <3>1. job'[v] = job[v] /\ profile'[job[v].name] = profile[job[v].name]
      BY <1>2, <1>4, <2>2
    <3> QED
      BY <3>1 DEF NameInv, Added
  <2> QED
    BY <2>1, <2>2
<1>6. First'
  <2> SUFFICES ASSUME NEW v \in Workers, job'[v].at \in Creating, ~job'[v].again,
                      NEW n \in Networks
               PROVE  nameOf[n] # job'[v].name
    BY DEF First
  <2>1. job[v].at \in Creating /\ job'[v].again = job[v].again /\ job'[v].name = job[v].name
    OBVIOUS
  <2> QED
    BY <2>1 DEF NameInv, First
<1>7. Named'
  <2> SUFFICES ASSUME NEW n \in Networks, nameOf[n] # NoName
               PROVE  /\ nameOf[n] \in Names /\ n \in ippool
                      /\ \/ profile'[nameOf[n]] = CalicoIPAM!RuleSet
                         \/ \E v \in Workers : job'[v].at \in Creating /\ job'[v].name = nameOf[n]
    BY DEF Named
  <2>1. nameOf[n] \in Names /\ n \in ippool
    BY DEF NameInv, Named
  <2>2. CASE nameOf[n] = job[w].name
    BY <1>2, <2>1, <2>2
  <2>3. CASE nameOf[n] # job[w].name
    <3>1. profile'[nameOf[n]] = profile[nameOf[n]]
      BY <1>4, <2>3
    <3>2. CASE \E v \in Workers : job[v].at \in Creating /\ job[v].name = nameOf[n]
      <4>1. PICK v \in Workers : job[v].at \in Creating /\ job[v].name = nameOf[n]
        BY <3>2
      <4>2. job'[v] = job[v]
        BY <2>3, <4>1
      <4> QED
        BY <2>1, <4>1, <4>2
    <3> QED
      BY <2>1, <3>1, <3>2 DEF NameInv, Named
  <2> QED
    BY <2>2, <2>3
<1> QED
  BY <1>5, <1>6, <1>7 DEF NameInv

\* A job that begins to create a network.
LEMMA PoolNames ==
  ASSUME CalicoInv, NameInv, NEW w \in Workers, NEW n \in Networks, NEW name \in Names,
         CalicoIPAM!AddPool(w, n, name)
  PROVE  NameInv'
<1>1. job \in [Workers -> CalicoJob]
  BY DEF CalicoInv, CalicoTypes
<1>2. /\ job[w].at = "idle" /\ job'[w].at = "profile" /\ ippool \subseteq ippool'
      /\ job'[w].name = name /\ job'[w].again = (\E m \in Networks : nameOf[m] = name)
      /\ UNCHANGED <<profile, nameOf>> /\ \A v \in Workers : v # w => job'[v] = job[v]
  BY <1>1, IdleJob DEF CalicoIPAM!AddPool, CalicoIPAM!Set, CalicoJob
<1>3. Added'
  <2> SUFFICES ASSUME NEW v \in Workers, job'[v].at \in {"rules", "update"}
               PROVE  /\ Written(job'[v].rules, profile'[job'[v].name])
                      /\ job'[v].at = "update" => job'[v].seen = profile'[job'[v].name]
    BY DEF Added
  <2>1. job'[v] = job[v] /\ profile' = profile
    BY <1>2
  <2> QED
    BY <2>1 DEF NameInv, Added
<1>4. First'
  <2> SUFFICES ASSUME NEW v \in Workers, job'[v].at \in Creating, ~job'[v].again,
                      NEW m \in Networks
               PROVE  nameOf[m] # job'[v].name
    BY <1>2 DEF First
  <2>1. CASE v = w
    BY <1>2, <2>1
  <2>2. CASE v # w
    <3>1. job'[v] = job[v]
      BY <1>2, <2>2
    <3> QED
      BY <3>1 DEF NameInv, First
  <2> QED
    BY <2>1, <2>2
<1>5. Named'
  BY <1>2 DEF NameInv, Named, Creating
<1> QED
  BY <1>3, <1>4, <1>5 DEF NameInv

LEMMA ProfileNames ==
  ASSUME CalicoInv, NameInv, NEW w \in Workers, CalicoIPAM!CreateProfile(w)
  PROVE  NameInv'
<1>1. job \in [Workers -> CalicoJob]
  BY DEF CalicoInv, CalicoTypes
<1>2. /\ job[w].at = "profile" /\ UNCHANGED <<ippool, nameOf>>
      /\ profile' = [profile EXCEPT ![job[w].name] = {}]
      /\ job'[w].at = "rules" /\ job'[w].name = job[w].name /\ job'[w].rules = job[w].rules
      /\ job'[w].again = job[w].again
      /\ \A v \in Workers : v # w => job'[v] = job[v]
  BY <1>1 DEF CalicoIPAM!CreateProfile, CalicoIPAM!Goto, CalicoJob
<1>3. job[w].rules = <<"icmp", "tcp", "udp">>
  BY <1>2 DEF CalicoInv, JobHas
<1>4. Written(job'[w].rules, {})
  <2>1. /\ <<"icmp", "tcp", "udp">> # <<"tcp", "udp">> /\ <<"icmp", "tcp", "udp">> # <<"udp">>
        /\ <<"icmp", "tcp", "udp">> # <<>>
    OBVIOUS
  <2> QED
    BY <1>2, <1>3, <2>1 DEF Written
<1>5. job[w].at \in Creating /\ job'[w].at # "update" /\ {} \in SUBSET CalicoIPAM!RuleSet
  BY <1>2 DEF Creating
<1> QED
  BY <1>2, <1>4, <1>5, CreationNames

\* A rule that is there already is done with.
LEMMA WrittenTail ==
  ASSUME NEW rules \in RuleLists, rules # <<>>, NEW has \in SUBSET CalicoIPAM!RuleSet,
         Written(rules, has)
  PROVE  Written(Tail(rules), has \cup {Head(rules)})
<1>1. CASE rules = <<"icmp", "tcp", "udp">>
  <2>1. Head(rules) = "icmp" /\ Tail(rules) = <<"tcp", "udp">>
    BY <1>1
  <2>2. <<"tcp", "udp">> # <<"udp">> /\ <<"tcp", "udp">> # <<>>
    OBVIOUS
  <2> QED
    BY <2>1, <2>2 DEF Written
<1>2. CASE rules = <<"tcp", "udp">>
  <2>1. Head(rules) = "tcp" /\ Tail(rules) = <<"udp">>
    BY <1>2
  <2>2. <<"udp">> # <<"tcp", "udp">> /\ <<"udp">> # <<>>
    OBVIOUS
  <2> QED
    BY <1>2, <2>1, <2>2 DEF Written
<1>3. CASE rules = <<"udp">>
  <2>1. Head(rules) = "udp" /\ Tail(rules) = <<>>
    BY <1>3
  <2>2. <<>> # <<"tcp", "udp">> /\ <<>> # <<"udp">>
    OBVIOUS
  <2> QED
    BY <1>3, <2>1, <2>2 DEF Written, CalicoIPAM!RuleSet
<1> QED
  BY <1>1, <1>2, <1>3 DEF RuleLists

LEMMA ReadingNames ==
  ASSUME CalicoInv, NameInv, NEW w \in Workers, CalicoIPAM!ReadRules(w)
  PROVE  NameInv'
<1> DEFINE has == profile[job[w].name]
<1>1. /\ job \in [Workers -> CalicoJob] /\ job[w] \in CalicoJob
      /\ profile \in [Names -> SUBSET CalicoIPAM!RuleSet]
  BY DEF CalicoInv, CalicoTypes
<1>2. job[w].at = "rules" /\ job[w].rules # <<>> /\ UNCHANGED <<ippool, profile, nameOf>>
  BY DEF CalicoIPAM!ReadRules, CalicoIPAM!store
<1>3. job[w].name \in Names /\ job[w].at \in Creating
  BY <1>2, OneCreates DEF Creating
<1>4. /\ has \in SUBSET CalicoIPAM!RuleSet /\ Written(job[w].rules, has)
      /\ profile' = [profile EXCEPT ![job[w].name] = has]
  BY <1>1, <1>2, <1>3 DEF NameInv, Added
<1>5. CASE Head(job[w].rules) \in has
  <2>1. job' = [job EXCEPT ![w] = [job[w] EXCEPT !.rules = Tail(job[w].rules)]]
    BY <1>1, <1>5, CreatingJobs
  <2>2. /\ job'[w].at = "rules" /\ job'[w].name = job[w].name /\ job'[w].again = job[w].again
        /\ job'[w].rules = Tail(job[w].rules) /\ \A v \in Workers : v # w => job'[v] = job[v]
    BY <1>1, <1>2, <2>1 DEF CalicoJob
  <2>3. has \cup {Head(job[w].rules)} = has /\ job[w].rules \in RuleLists
    BY <1>1, <1>5 DEF CalicoJob
  <2>4. Written(Tail(job[w].rules), has)
    BY <1>2, <1>4, <2>3, WrittenTail
  <2> HIDE DEF has
  <2> QED
    BY <1>2, <1>3, <1>4, <2>2, <2>4, CreationNames
<1>6. CASE Head(job[w].rules) \notin has
  <2>1. job' = [job EXCEPT ![w] = [job[w] EXCEPT !.at = "update", !.seen = has]]
    BY <1>1, <1>6, CreatingJobs
  <2>2. /\ job'[w].at = "update" /\ job'[w].name = job[w].name /\ job'[w].again = job[w].again
        /\ job'[w].rules = job[w].rules /\ job'[w].seen = has
        /\ \A v \in Workers : v # w => job'[v] = job[v]
    BY <1>1, <1>2, <2>1 DEF CalicoJob
  <2> HIDE DEF has
  <2> QED
    BY <1>2, <1>3, <1>4, <2>2, CreationNames
<1> QED
  BY <1>5, <1>6

LEMMA WritingNames ==
  ASSUME CalicoInv, NameInv, NEW w \in Workers, CalicoIPAM!WriteRules(w)
  PROVE  NameInv'
<1> DEFINE has == profile[job[w].name] \cup {Head(job[w].rules)}
<1>1. /\ job \in [Workers -> CalicoJob] /\ job[w] \in CalicoJob
      /\ profile \in [Names -> SUBSET CalicoIPAM!RuleSet]
  BY DEF CalicoInv, CalicoTypes
<1>2. /\ job[w].at = "update" /\ UNCHANGED <<ippool, nameOf>>
      /\ profile' = [profile EXCEPT ![job[w].name] = job[w].seen \cup {Head(job[w].rules)}]
  BY DEF CalicoIPAM!WriteRules
<1>3. job[w].name \in Names /\ job[w].at \in Creating /\ job[w].rules # <<>>
  BY <1>2, OneCreates, CalicoJobFacts DEF Creating, JobHas
<1>4. job[w].seen = profile[job[w].name] /\ Written(job[w].rules, profile[job[w].name])
  BY <1>2 DEF NameInv, Added
<1>5. job[w].rules \in RuleLists /\ profile[job[w].name] \in SUBSET CalicoIPAM!RuleSet
  BY <1>1, <1>3 DEF CalicoJob
<1>6. /\ has \in SUBSET CalicoIPAM!RuleSet
      /\ Written(Tail(job[w].rules), has)
  BY <1>3, <1>4, <1>5, RuleListTails, WrittenTail
<1>7. job' = [job EXCEPT ![w] = [job[w] EXCEPT !.at = "rules", !.rules = Tail(job[w].rules),
                                               !.seen = {}]]
  BY <1>1, CreatingJobs
<1>8. /\ job'[w].at = "rules" /\ job'[w].name = job[w].name /\ job'[w].again = job[w].again
      /\ job'[w].rules = Tail(job[w].rules) /\ \A v \in Workers : v # w => job'[v] = job[v]
  BY <1>1, <1>7 DEF CalicoJob
<1>9. profile' = [profile EXCEPT ![job[w].name] = has]
  BY <1>2, <1>4
<1> HIDE DEF has
<1> QED
  BY <1>2, <1>3, <1>6, <1>8, <1>9, CreationNames

\* The name is set when every rule is in the profile.
LEMMA NamingNames ==
  ASSUME CalicoInv, NameInv, NEW w \in Workers, CalicoIPAM!NamePool(w)
  PROVE  NameInv'
<1>1. /\ job \in [Workers -> CalicoJob] /\ ippool \subseteq Networks
      /\ nameOf \in [Networks -> Names \cup {NoName}]
  BY DEF CalicoInv, CalicoTypes
<1>2. /\ job[w].at = "rules" /\ job[w].rules = <<>> /\ UNCHANGED <<ippool, profile>>
      /\ nameOf' = [nameOf EXCEPT ![job[w].net] = job[w].name]
      /\ job'[w].at = "idle" /\ \A v \in Workers : v # w => job'[v] = job[v]
  BY <1>1, IdleJob DEF CalicoIPAM!NamePool, CalicoIPAM!Set
<1>3. /\ job[w].name \in Names /\ job[w].net \in ippool
      /\ \A v \in Workers : v # w => job[v].name # job[w].name
  BY <1>2, OneCreates DEF Creating
<1>4. profile[job[w].name] = CalicoIPAM!RuleSet
  BY <1>2 DEF NameInv, Added, Written
<1>5. Added'
  <2> SUFFICES ASSUME NEW v \in Workers, job'[v].at \in {"rules", "update"}
               PROVE  /\ Written(job'[v].rules, profile'[job'[v].name])
                      /\ job'[v].at = "update" => job'[v].seen = profile'[job'[v].name]
    BY DEF Added
  <2>1. job'[v] = job[v]
    BY <1>2
  <2> QED
    BY <1>2, <2>1 DEF NameInv, Added
<1>6. First'
  <2> SUFFICES ASSUME NEW v \in Workers, job'[v].at \in Creating, ~job'[v].again,
                      NEW m \in Networks
               PROVE  nameOf'[m] # job'[v].name
    BY DEF First
  <2>1. v # w /\ job'[v] = job[v]
    BY <1>2 DEF Creating
  <2>2. nameOf[m] # job[v].name
    BY <2>1 DEF NameInv, First
  <2>3. nameOf'[m] = nameOf[m] \/ nameOf'[m] = job[w].name
    BY <1>1, <1>2
  <2> QED
    BY <1>3, <2>1, <2>2, <2>3
<1>7. Named'
  <2> SUFFICES ASSUME NEW n \in Networks, nameOf'[n] # NoName
               PROVE  /\ nameOf'[n] \in Names /\ n \in ippool
                      /\ \/ profile[nameOf'[n]] = CalicoIPAM!RuleSet
                         \/ \E v \in Workers : job'[v].at \in Creating /\ job'[v].name = nameOf'[n]
    BY <1>2 DEF Named
  <2>1. CASE nameOf'[n] = job[w].name /\ n = job[w].net
    BY <1>3, <1>4, <2>1
  <2>2. CASE nameOf'[n] = nameOf[n] /\ nameOf[n] = job[w].name
    BY <1>3, <1>4, <2>2 DEF NameInv, Named
  <2>3. CASE nameOf'[n] = nameOf[n] /\ nameOf[n] # job[w].name
    <3>1. /\ nameOf[n] \in Names /\ n \in ippool
          /\ \/ profile[nameOf[n]] = CalicoIPAM!RuleSet
             \/ \E v \in Workers : job[v].at \in Creating /\ job[v].name = nameOf[n]
      BY <2>3 DEF NameInv, Named
    <3>2. ASSUME NEW v \in Workers, job[v].at \in Creating, job[v].name = nameOf[n]
          PROVE  job'[v].at \in Creating /\ job'[v].name = nameOf[n]
      BY <1>2, <2>3, <3>2
    <3> QED
      BY <2>3, <3>1, <3>2
  <2> QED
    BY <1>1, <1>2, <2>1, <2>2, <2>3
<1> QED
  BY <1>5, <1>6, <1>7 DEF NameInv

\* The other steps of Calico leave the networks alone.
LEMMA OtherNames ==
  ASSUME CalicoInv, NameInv, NEW w \in Workers,
         \/ \E c \in Containers, ns \in SUBSET Networks, ips \in SUBSET Addresses :
               \/ CalicoIPAM!BeginDeploy(w, c, ns, ips) \/ CalicoIPAM!BeginBind(w, c, ns)
               \/ CalicoIPAM!BeginRebind(w, c) \/ CalicoIPAM!BeginRemove(w, c)
         \/ CalicoIPAM!AskFails(w) \/ CalicoIPAM!AgentOk(w) \/ CalicoIPAM!AgentFails(w)
         \/ CalicoIPAM!Retry(w) \/ CalicoIPAM!GiveUp(w) \/ CalicoIPAM!Clean(w)
         \/ CalicoIPAM!ListEndpoints(w) \/ CalicoIPAM!RemoveEndpoint(w)
         \/ CalicoIPAM!Reallocate(w) \/ CalicoIPAM!Forget(w)
         \/ \E a \in Addresses : CalicoIPAM!FreeAddress(w, a)
  PROVE  NameInv'
<1> DEFINE Elsewhere == /\ UNCHANGED <<ippool, profile, nameOf>>
                        /\ \A v \in Workers : v # w => job'[v] = job[v]
                        /\ job[w].at \notin Creating /\ job'[w].at \notin Creating
<1>1. job \in [Workers -> CalicoJob]
  BY DEF CalicoInv, CalicoTypes
<1> USE <1>1, IdleJob
        DEF CalicoJob, Creating, CalicoIPAM!store, CalicoIPAM!Set, CalicoIPAM!Goto
<1>2. ASSUME NEW c, NEW what, NEW place \in {"ask", "list"}, CalicoIPAM!Begin(w, c, what, place),
             UNCHANGED CalicoIPAM!store
      PROVE  Elsewhere
  BY <1>2 DEF CalicoIPAM!Begin
<1>3. ASSUME NEW c, NEW ns, NEW ips,
             \/ CalicoIPAM!BeginDeploy(w, c, ns, ips) \/ CalicoIPAM!BeginBind(w, c, ns)
             \/ CalicoIPAM!BeginRebind(w, c) \/ CalicoIPAM!BeginRemove(w, c)
      PROVE  Elsewhere
  <2> HIDE <1>1 DEF CalicoJob, Creating, CalicoIPAM!store
  <2> QED
    BY <1>2, <1>3 DEF CalicoIPAM!BeginDeploy, CalicoIPAM!BeginBind, CalicoIPAM!BeginRebind,
       CalicoIPAM!BeginRemove
<1>4. ASSUME CalicoIPAM!AskFails(w) \/ CalicoIPAM!AgentOk(w) \/ CalicoIPAM!AgentFails(w)
      PROVE  Elsewhere
  BY <1>4 DEF CalicoIPAM!AskFails, CalicoIPAM!AgentOk, CalicoIPAM!AgentFails
<1>5. ASSUME CalicoIPAM!Retry(w) \/ CalicoIPAM!GiveUp(w) \/ CalicoIPAM!Clean(w)
      PROVE  Elsewhere
  BY <1>5 DEF CalicoIPAM!Retry, CalicoIPAM!GiveUp, CalicoIPAM!Clean, CalicoIPAM!ReleaseAsked
<1>6. ASSUME \/ CalicoIPAM!ListEndpoints(w) \/ CalicoIPAM!RemoveEndpoint(w)
             \/ \E a \in Addresses : CalicoIPAM!FreeAddress(w, a)
      PROVE  Elsewhere
  BY <1>6 DEF CalicoIPAM!ListEndpoints, CalicoIPAM!RemoveEndpoint, CalicoIPAM!FreeAddress
<1>7. ASSUME CalicoIPAM!Reallocate(w) \/ CalicoIPAM!Forget(w)
      PROVE  Elsewhere
  BY <1>7 DEF CalicoIPAM!Reallocate, CalicoIPAM!Forget
<1>8. Elsewhere
  BY <1>3, <1>4, <1>5, <1>6, <1>7
<1> QED
  BY <1>8, SameNames

LEMMA NameStep == CalicoInv /\ NameInv /\ CalicoIPAM!Next => NameInv'
<1> SUFFICES ASSUME CalicoInv, NameInv, CalicoIPAM!Next PROVE NameInv'
  OBVIOUS
<1>1. ASSUME NEW w \in Workers, CalicoIPAM!Work(w) PROVE NameInv'
  BY <1>1, ProfileNames, ReadingNames, WritingNames, NamingNames, OtherNames
     DEF CalicoIPAM!Work
<1>2. ASSUME NEW w \in Workers, CalicoIPAM!TakeJob(w) PROVE NameInv'
  <2>1. ippool \subseteq Networks
    BY DEF CalicoInv, CalicoTypes
  <2>2. CASE \E n \in Networks, name \in Names : CalicoIPAM!AddPool(w, n, name)
    BY <2>2, PoolNames
  <2>3. CASE \E c \in Containers, ns \in SUBSET Networks, ips \in SUBSET Addresses :
                \/ CalicoIPAM!BeginDeploy(w, c, ns, ips) \/ CalicoIPAM!BeginBind(w, c, ns)
                \/ CalicoIPAM!BeginRebind(w, c) \/ CalicoIPAM!BeginRemove(w, c)
    BY <2>3, OtherNames
  <2> QED
    BY <1>2, <2>1, <2>2, <2>3 DEF CalicoIPAM!TakeJob
<1>3. ASSUME NEW c \in Containers, CalicoIPAM!Stop(c) PROVE NameInv'
  BY <1>3 DEF CalicoIPAM!Stop, CalicoIPAM!store, NameInv, Added, First, Named
<1> QED
  BY <1>1, <1>2, <1>3 DEF CalicoIPAM!Next

LEMMA NamedWhole == CalicoInv /\ NameInv => NamedIsWhole
<1> SUFFICES ASSUME CalicoInv, NameInv, NEW n \in Networks, nameOf[n] # NoName
             PROVE  /\ n \in ippool
                    /\ \/ profile[nameOf[n]] = CalicoIPAM!RuleSet
                       \/ \E w \in Workers : job[w].again /\ job[w].name = nameOf[n]
  BY DEF NamedIsWhole, CalicoIPAM!NamedIsWhole
<1> QED
  BY DEF NameInv, Named, First

-----------------------------------------------------------------------------
(* The two IPAMs behind one interface.                                     *)

\* The IPAM that is not configured never moves, so that each of the two is
\* what its own module specifies.
LEMMA ProviderStarts == ProviderInit => Init /\ CalicoInv /\ HeldInv /\ NameInv
  BY CalicoInit, HeldInit, NameInit DEF ProviderInit

LEMMA ProviderStep ==
  [ProviderNext]_<<vars, provider, calicoVars>> =>
      [Next]_vars /\ (CalicoIPAM!Next \/ UNCHANGED calicoVars)
  BY DEF ProviderNext

LEMMA CalicoUnchanged ==
  ASSUME CalicoInv, HeldInv, NameInv, UNCHANGED calicoVars
  PROVE  CalicoInv' /\ HeldInv' /\ NameInv'
<1> USE DEF calicoVars
<1>1. CalicoInv'
  BY DEF CalicoInv, CalicoTypes, PoolsMade, JobsOnRecorded, EndpointsRecorded, Alone, Listed
<1>2. HeldInv'
  BY DEF HeldInv, OnOne, HeldIsOn, On, CalicoIPAM!Detaching
<1>3. NameInv'
  BY DEF NameInv, Added, First, Named
<1> QED
  BY <1>1, <1>2, <1>3

\* With either provider the invariants of Calico hold.
LEMMA CalicoAlways == ProviderSpec => [](CalicoInv /\ HeldInv /\ NameInv)
<1>1. ProviderInit => CalicoInv /\ HeldInv /\ NameInv
  BY ProviderStarts
<1>2. /\ CalicoInv /\ HeldInv /\ NameInv
      /\ [ProviderNext]_<<vars, provider, calicoVars>>
      => (CalicoInv /\ HeldInv /\ NameInv)'
  BY ProviderStep, CalicoUnchanged, CalicoStep, HeldStep, NameStep
<1> QED
  BY <1>1, <1>2, PTL DEF ProviderSpec

(* What is proved of the macvlan IPAM is proved of the IPAM the process    *)
(* uses: eru/ipam/__init__.py chooses one of the two when it starts.       *)
THEOREM ProviderIsIPPool == ProviderSpec => Spec
<1>1. ProviderInit => Init
  BY ProviderStarts
<1> QED
  BY <1>1, ProviderStep, PTL DEF ProviderSpec, Spec

(* No address is on the endpoints of two containers, and each is assigned, *)
(* however allocations, failures, retries and releases of calico.py        *)
(* interleave, but for an address a failed call asked for by name.         *)
THEOREM EndpointsStayHeld == ProviderSpec => []EndpointsHeld
  BY CalicoAlways, OnOneHeld, PTL

(* calico.py leaves no address assigned that is not on an endpoint of a    *)
(* recorded container, when no job is left.                                *)
THEOREM NothingHeldForNobody == ProviderSpec => []HeldForSomebody
  BY CalicoAlways, HeldAtRest, PTL

(* A network that has its name has its pool and all rules of its profile:  *)
(* add_ip_pool of calico.py.                                               *)
THEOREM NamesComeLast == ProviderSpec => []NamedIsWhole
  BY CalicoAlways, NamedWhole, PTL

=============================================================================
