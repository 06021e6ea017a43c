--------------------------- MODULE RegistryProofs ---------------------------
(***************************************************************************)
(* What is registered is whole, for any number of requests, any shas and   *)
(* their beginnings, any app.yaml and any number of processes that die.    *)
(* The invariant says what each step of a request knows of its version and *)
(* path, and that versions and configurations, once there, stay.           *)
(***************************************************************************)
EXTENDS Registry, TLAPS

-----------------------------------------------------------------------------
Required == {"entrypoints", "build"}
Versioned == {Short[s] : s \in Shas}

\* A request that found or made its version.
Resolved(r) ==
    /\ req[r].sha \in Shas
    /\ \E v \in versions \cap Extends[req[r].sha] : req[r].path = Short[v]

\* What a step of a request knows.
Registers(r) ==
    /\ req[r].file \in Yamls /\ Required \subseteq req[r].file.keys
    /\ req[r].sha \in Shas /\ req[r].entry = None
SetsVariable(r) == req[r].file = Variable /\ req[r].entry = None /\ req[r].path = Env
DropsVariables(r) == req[r].file = None /\ req[r].entry = None
Deploys(r) == req[r].file = None /\ req[r].entry \in Entries /\ req[r].sha \in Shas
Checked(r) == req[r].checked # None /\ req[r].entry \in req[r].checked.names

StepKnows(r) ==
    /\ At(r, "new") => req[r] = NewRequest
    /\ req[r].pc \in {"app", "newapp", "version", "newversion"} => Registers(r)
    /\ req[r].pc \in {"load", "save"} =>
          SetsVariable(r) \/ (Registers(r) /\ Resolved(r))
    /\ At(r, "drop") => DropsVariables(r)
    /\ At(r, "find") => Deploys(r)
    /\ req[r].pc \in {"check", "queued"} => Deploys(r) /\ Resolved(r)
    /\ At(r, "queued") => Checked(r)

\* What its last step has seen to.
Served(r) ==
    /\ At(r, "queued") => Whole(config[req[r].path])
    /\ At(r, "done") =>
          \/ SetsVariable(r)
          \/ DropsVariables(r)
          \/ Registers(r) /\ Resolved(r) /\ Whole(config[req[r].path])
          \/ Deploys(r) /\ Whole(req[r].base)
    /\ At(r, "raised") =>
          \/ req[r].entry = None
          \/ Whole(req[r].base) /\ req[r].base["entrypoints"] # req[r].checked

IInv ==
    /\ TypeOK
    /\ ConfigsAreWhole
    /\ \A r \in Requests : StepKnows(r)
    /\ \A r \in Requests : Served(r)

LEMMA PathsApart == Env \notin Versioned /\ Versioned = Paths \ {Env} /\ Versioned \subseteq Paths
BY RegistryAssumption DEF Versioned, Paths

LEMMA EmptyType == Empty \in ConfigType /\ ~Whole(Empty)
BY DEF Empty, ConfigType, Whole, Keys, YamlKeys

LEMMA Verified ==
  ASSUME NEW y \in Yamls
  PROVE  /\ Verify(y) \subseteq {"ok", "refused", "raised"}
         /\ "ok" \in Verify(y) => Required \subseteq y.keys
         /\ y.keys \subseteq YamlKeys /\ y \in FileType
<1>1. y.keys \subseteq YamlKeys /\ y \in FileType
  BY RegistryAssumption
<1> QED
  BY <1>1 DEF Verify, EntryOutcomes, Required

\* An empty registry, before any request (eru/models/app.py).
THEOREM InitOK == Init => IInv
<1> SUFFICES ASSUME Init PROVE IInv
  OBVIOUS
<1>1. TypeOK
  BY EmptyType DEF Init, TypeOK, NewRequest
<1>2. ConfigsAreWhole
  BY DEF Init, ConfigsAreWhole
<1>3. \A r \in Requests : req[r] = NewRequest
  BY DEF Init
<1>4. \A r \in Requests : StepKnows(r) /\ Served(r)
  BY <1>3 DEF StepKnows, Served, At, NewRequest
<1> QED
  BY <1>1, <1>2, <1>4 DEF IInv

-----------------------------------------------------------------------------
(* The requests that a step is not about.                                  *)

\* A step of one request leaves the others what they know, when versions stay
\* and configurations stay whole.
Keeps ==
    /\ versions \subseteq versions'
    /\ \A p \in Versioned : Whole(config[p]) => Whole(config'[p])

LEMMA OthersKept ==
  ASSUME TypeOK, Keeps, NEW q \in Requests, req'[q] = req[q], StepKnows(q), Served(q)
  PROVE  StepKnows(q)' /\ Served(q)'
<1>1. Resolved(q) => Resolved(q)'
  BY DEF Keeps, Resolved
<1>2. Resolved(q) /\ Whole(config[req[q].path]) => Whole(config'[req'[q].path])
  <2>1. Resolved(q) => req[q].path \in Versioned
    BY DEF Resolved, Versioned, TypeOK
  <2> QED
    BY <2>1 DEF Keeps
<1>3. /\ Registers(q) <=> Registers(q)'
      /\ SetsVariable(q) <=> SetsVariable(q)'
      /\ DropsVariables(q) <=> DropsVariables(q)'
      /\ Deploys(q) <=> Deploys(q)'
      /\ Checked(q) <=> Checked(q)'
  BY DEF Registers, SetsVariable, DropsVariables, Deploys, Checked
<1>4. \A pc : At(q, pc) <=> At(q, pc)'
  BY DEF At
<1>5. StepKnows(q)'
  BY <1>1, <1>3, <1>4 DEF StepKnows
<1>6. At(q, "queued") => Resolved(q)
  BY DEF StepKnows, At
<1>7. Served(q)'
  BY <1>1, <1>2, <1>3, <1>4, <1>6 DEF Served, Whole
<1> QED
  BY <1>5, <1>7

\* So a step keeps the invariant when it does for its own request.
LEMMA StepKept ==
  ASSUME IInv, NEW r \in Requests, TypeOK', ConfigsAreWhole', Keeps,
         \A q \in Requests \ {r} : req'[q] = req[q], StepKnows(r)', Served(r)'
  PROVE  IInv'
<1>1. \A q \in Requests \ {r} : StepKnows(q)' /\ Served(q)'
  BY OthersKept DEF IInv
<1>2. \A q \in Requests : StepKnows(q)' /\ Served(q)'
  BY <1>1
<1> QED
  BY <1>2 DEF IInv

\* When neither versions nor configurations change.
LEMMA QuietStep ==
  ASSUME IInv, UNCHANGED <<app, versions, config>> \/ (app' = TRUE /\ UNCHANGED <<versions, config>>)
  PROVE  Keeps /\ ConfigsAreWhole'
BY DEF IInv, Keeps, ConfigsAreWhole, Whole

-----------------------------------------------------------------------------
(* Registering.                                                            *)

\* A request whose fields change stays a request.
RequestType == [pc : {"new"} \cup Running \cup Ended, sha : Shas \cup {None},
                file : FileType \cup {None}, entry : Entries \cup {None},
                checked : FileType \cup {None}, path : Paths \cup {None},
                base : ConfigType]

LEMMA RequestTyped ==
  ASSUME TypeOK, NEW r \in Requests, NEW w \in RequestType, req' = [req EXCEPT ![r] = w],
         app' \in BOOLEAN, versions' \subseteq Shas, config' \in [Paths -> ConfigType]
  PROVE  TypeOK'
BY DEF TypeOK, RequestType

LEMMA RequestIs ==
  ASSUME TypeOK, NEW r \in Requests
  PROVE  req[r] \in RequestType
BY DEF TypeOK, RequestType

LEMMA RegisterKept ==
  ASSUME IInv, NEW r \in Requests, NEW s \in Shas, NEW y \in Yamls, Register(r, s, y)
  PROVE  IInv'
<1>1. At(r, "new") /\ UNCHANGED <<app, versions, config>>
  BY DEF Register
<1>2. PICK outcome \in Verify(y) :
         req' = [req EXCEPT ![r].pc = IF outcome = "ok" THEN "app" ELSE outcome,
                            ![r].sha = s, ![r].file = y]
  BY DEF Register
<1>3. outcome \in {"ok", "refused", "raised"} /\ y \in FileType
      /\ (outcome = "ok" => Required \subseteq y.keys)
  BY Verified
<1>4. TypeOK /\ r \in DOMAIN req /\ req[r].entry = None
  BY <1>1 DEF IInv, TypeOK, StepKnows, NewRequest
<1>5. /\ req'[r].pc = IF outcome = "ok" THEN "app" ELSE outcome
      /\ req'[r].sha = s /\ req'[r].file = y /\ req'[r].entry = None
  <2> DEFINE pc == IF outcome = "ok" THEN "app" ELSE outcome
  <2>1. req' = [req EXCEPT ![r].pc = pc, ![r].sha = s, ![r].file = y]
    BY <1>2
  <2> HIDE DEF pc
  <2>2. req'[r].pc = pc /\ req'[r].sha = s /\ req'[r].file = y /\ req'[r].entry = None
    BY <1>4, <2>1, RequestIs DEF TypeOK, RequestType
  <2> QED
    BY <2>2 DEF pc
<1>6. TypeOK'
  <2> DEFINE pc == IF outcome = "ok" THEN "app" ELSE outcome
             w == [req[r] EXCEPT !.pc = pc, !.sha = s, !.file = y]
  <2>1. pc \in Running \cup Ended /\ y \in FileType
    BY <1>3 DEF Running, Ended
  <2>2. req' = [req EXCEPT ![r] = w]
    BY <1>2
  <2> HIDE DEF pc
  <2>3. w \in RequestType
    BY <1>4, <2>1, RequestIs DEF RequestType
  <2> QED
    BY <1>1, <1>4, <2>2, <2>3, RequestTyped DEF TypeOK
<1>7. StepKnows(r)' /\ Served(r)'
  BY <1>3, <1>5 DEF StepKnows, Served, At, Registers
<1>8. \A q \in Requests \ {r} : req'[q] = req[q]
  BY <1>2, <1>4 DEF TypeOK
<1> QED
  BY <1>1, <1>6, <1>7, <1>8, QuietStep, StepKept

\* Steps that only move the request on.
LEMMA GotoKept ==
  ASSUME IInv, NEW r \in Requests, NEW pc \in Running \cup Ended, Goto(r, pc),
         UNCHANGED <<versions, config>>, app' \in BOOLEAN, app' = app \/ app' = TRUE,
         StepKnows(r)', Served(r)'
  PROVE  IInv'
<1>1. TypeOK'
  BY DEF IInv, TypeOK, Goto
<1>2. \A q \in Requests \ {r} : req'[q] = req[q]
  BY DEF IInv, TypeOK, Goto
<1>3. Keeps /\ ConfigsAreWhole'
  BY QuietStep
<1> QED
  BY <1>1, <1>2, <1>3, StepKept

\* What such a step leaves of its request.
LEMMA GotoFields ==
  ASSUME IInv, NEW r \in Requests, NEW pc, Goto(r, pc)
  PROVE  /\ req'[r].pc = pc /\ req'[r].sha = req[r].sha /\ req'[r].file = req[r].file
         /\ req'[r].entry = req[r].entry /\ req'[r].checked = req[r].checked
         /\ req'[r].path = req[r].path /\ req'[r].base = req[r].base
BY DEF IInv, TypeOK, Goto

LEMMA FindAppKept ==
  ASSUME IInv, NEW r \in Requests, FindApp(r)
  PROVE  IInv'
<1> DEFINE pc == IF app THEN "version" ELSE "newapp"
<1>1. Goto(r, pc) /\ UNCHANGED <<app, versions, config>> /\ app \in BOOLEAN
      /\ pc \in {"version", "newapp"}
  BY DEF FindApp, IInv, TypeOK
<1>2. Registers(r)
  BY DEF FindApp, IInv, StepKnows, At
<1> HIDE DEF pc
<1>3. StepKnows(r)' /\ Served(r)'
  BY <1>1, <1>2, GotoFields DEF StepKnows, Served, At, Registers
<1>4. pc \in Running \cup Ended
  BY <1>1 DEF Running
<1> QED
  BY <1>1, <1>3, <1>4, GotoKept

LEMMA CreateAppKept ==
  ASSUME IInv, NEW r \in Requests, CreateApp(r)
  PROVE  IInv'
<1> DEFINE pc == IF app THEN "raised" ELSE "version"
<1>1. Goto(r, pc) /\ UNCHANGED <<versions, config>> /\ app' = TRUE
      /\ pc \in {"version", "raised"}
  BY DEF CreateApp
<1>2. Registers(r)
  BY DEF CreateApp, IInv, StepKnows, At
<1> HIDE DEF pc
<1>3. StepKnows(r)' /\ Served(r)'
  BY <1>1, <1>2, GotoFields DEF StepKnows, Served, At, Registers
<1>4. pc \in Running \cup Ended
  BY <1>1 DEF Running, Ended
<1> QED
  BY <1>1, <1>3, <1>4, GotoKept

LEMMA FindVersionKept ==
  ASSUME IInv, NEW r \in Requests, FindVersion(r)
  PROVE  IInv'
<1>1. At(r, "version") /\ UNCHANGED <<app, versions, config>> /\ TypeOK
  BY DEF FindVersion, IInv
<1>2. Registers(r)
  BY <1>1 DEF IInv, StepKnows, At
<1>3. CASE Goto(r, "newversion")
  <2>1. StepKnows(r)' /\ Served(r)'
    BY <1>2, <1>3, GotoFields DEF StepKnows, Served, At, Registers
  <2>2. "newversion" \in Running \cup Ended /\ app' \in BOOLEAN
    BY <1>1 DEF Running, TypeOK
  <2> QED
    BY <1>1, <1>3, <2>1, <2>2, GotoKept
<1>4. ASSUME NEW v \in Matches(req[r].sha),
             req' = [req EXCEPT ![r].pc = "load", ![r].path = Short[v]]
      PROVE  IInv'
  <2>1. v \in versions \cap Extends[req[r].sha] /\ v \in Shas
    BY <1>1 DEF Matches, TypeOK
  <2>2. /\ req'[r].pc = "load" /\ req'[r].path = Short[v]
        /\ req'[r].sha = req[r].sha /\ req'[r].file = req[r].file /\ req'[r].entry = req[r].entry
    BY <1>1, <1>4 DEF TypeOK
  <2>3. TypeOK'
    <3> DEFINE w == [req[r] EXCEPT !.pc = "load", !.path = Short[v]]
    <3>1. Short[v] \in Paths
      BY <2>1 DEF Paths
    <3>2. w \in RequestType
      BY <1>1, <3>1, RequestIs DEF RequestType, Running
    <3>3. req' = [req EXCEPT ![r] = w]
      BY <1>4
    <3> QED
      BY <1>1, <3>2, <3>3, RequestTyped DEF TypeOK
  <2>4. Registers(r)' /\ Resolved(r)'
    BY <1>1, <1>2, <2>1, <2>2 DEF Registers, Resolved
  <2>5. StepKnows(r)' /\ Served(r)'
    BY <2>2, <2>4 DEF StepKnows, Served, At
  <2>6. \A q \in Requests \ {r} : req'[q] = req[q]
    BY <1>1, <1>4 DEF TypeOK
  <2> QED
    BY <1>1, <2>3, <2>5, <2>6, QuietStep, StepKept
<1> QED
  BY <1>3, <1>4 DEF FindVersion

LEMMA CreateVersionKept ==
  ASSUME IInv, NEW r \in Requests, CreateVersion(r)
  PROVE  IInv'
<1> DEFINE s == req[r].sha
<1>1. At(r, "newversion") /\ versions' = versions \cup {s} /\ UNCHANGED <<app, config>>
      /\ TypeOK
  BY DEF CreateVersion, IInv
<1>2. Registers(r) /\ s \in Shas
  BY <1>1 DEF IInv, StepKnows, At, Registers
<1>3. Keeps /\ ConfigsAreWhole'
  BY <1>1 DEF IInv, Keeps, ConfigsAreWhole, Whole
<1>4. CASE s \in versions
  <2>1. Goto(r, "refused")
    BY <1>4 DEF CreateVersion, Goto
  <2>2. StepKnows(r)' /\ Served(r)'
    BY <2>1, GotoFields DEF StepKnows, Served, At
  <2>3. TypeOK'
    BY <1>1, <1>2, <2>1 DEF TypeOK, Goto, Ended
  <2>4. \A q \in Requests \ {r} : req'[q] = req[q]
    BY <1>1, <2>1 DEF TypeOK, Goto
  <2> QED
    BY <1>3, <2>2, <2>3, <2>4, StepKept
<1>5. CASE s \notin versions
  <2>1. req' = [req EXCEPT ![r].pc = "load", ![r].path = Short[s]]
    BY <1>5 DEF CreateVersion
  <2>2. /\ req'[r].pc = "load" /\ req'[r].path = Short[s]
        /\ req'[r].sha = s /\ req'[r].file = req[r].file /\ req'[r].entry = req[r].entry
    BY <1>1, <2>1 DEF TypeOK
  <2>3. TypeOK'
    <3>1. Short[s] \in Paths
      BY <1>2 DEF Paths
    <3>2. versions' \subseteq Shas
      BY <1>1, <1>2 DEF TypeOK
    <3> HIDE DEF s
    <3> QED
      BY <1>1, <2>1, <3>1, <3>2 DEF TypeOK, Running
  <2>4. Registers(r)' /\ Resolved(r)'
    <3>1. s \in versions' /\ s \in Extends[s]
      BY <1>1, <1>2, RegistryAssumption
    <3> QED
      BY <1>2, <2>2, <3>1 DEF Registers, Resolved
  <2>5. StepKnows(r)' /\ Served(r)'
    BY <2>2, <2>4 DEF StepKnows, Served, At
  <2>6. \A q \in Requests \ {r} : req'[q] = req[q]
    BY <1>1, <2>1 DEF TypeOK
  <2> QED
    BY <1>3, <2>3, <2>5, <2>6, StepKept
<1> QED
  BY <1>4, <1>5

-----------------------------------------------------------------------------
(* Configurations.                                                         *)

LEMMA LoadKept ==
  ASSUME IInv, NEW r \in Requests, Load(r)
  PROVE  IInv'
<1>1. At(r, "load") /\ UNCHANGED <<app, versions, config>> /\ TypeOK
      /\ req' = [req EXCEPT ![r].pc = "save", ![r].base = config[req[r].path]]
  BY DEF Load, IInv
<1>2. SetsVariable(r) \/ (Registers(r) /\ Resolved(r))
  BY <1>1 DEF IInv, StepKnows, At
<1>3. req[r].path \in Paths
  BY <1>1, <1>2 DEF SetsVariable, Resolved, Paths, TypeOK
<1>4. /\ req'[r].pc = "save" /\ req'[r].path = req[r].path
      /\ req'[r].sha = req[r].sha /\ req'[r].file = req[r].file /\ req'[r].entry = req[r].entry
  BY <1>1 DEF TypeOK
<1>5. TypeOK'
  <2>1. config[req[r].path] \in ConfigType
    BY <1>1, <1>3 DEF TypeOK
  <2> QED
    BY <1>1, <2>1 DEF TypeOK, Running
<1>6. SetsVariable(r)' \/ (Registers(r)' /\ Resolved(r)')
  BY <1>1, <1>2, <1>4 DEF SetsVariable, Registers, Resolved
<1>7. StepKnows(r)' /\ Served(r)'
  BY <1>4, <1>6 DEF StepKnows, Served, At
<1>8. \A q \in Requests \ {r} : req'[q] = req[q]
  BY <1>1 DEF TypeOK
<1> QED
  BY <1>1, <1>5, <1>7, <1>8, QuietStep, StepKept

\* A registration saves a whole configuration, whatever it loaded; a variable
\* is saved elsewhere.
LEMMA SaveKept ==
  ASSUME IInv, NEW r \in Requests, Save(r)
  PROVE  IInv'
<1> DEFINE p == req[r].path
           c == Updated(req[r].base, req[r].file)
<1>1. At(r, "save") /\ UNCHANGED <<app, versions>> /\ TypeOK
      /\ config' = [config EXCEPT ![p] = c]
      /\ req' = [req EXCEPT ![r].pc = "done", ![r].base = Empty]
  BY DEF Save, IInv
<1>2. SetsVariable(r) \/ (Registers(r) /\ Resolved(r))
  BY <1>1 DEF IInv, StepKnows, At
<1>3. p \in Paths
  BY <1>1, <1>2 DEF SetsVariable, Resolved, Paths, TypeOK
<1>4. c \in ConfigType
  BY <1>1 DEF Updated, ConfigType, TypeOK
<1>5. Registers(r) => Whole(c)
  <2> SUFFICES ASSUME Registers(r) PROVE Whole(c)
    OBVIOUS
  <2>1. req[r].file # None /\ req[r].file.keys \subseteq Keys
        /\ {"entrypoints", "build"} \subseteq req[r].file.keys
    BY RegistryAssumption DEF Registers, Required, Keys
  <2>2. \A k \in req[r].file.keys : c[k] = req[r].file
    BY <2>1 DEF Updated
  <2> QED
    BY <2>1, <2>2 DEF Whole
<1>6. /\ req'[r].pc = "done" /\ req'[r].path = p
      /\ req'[r].sha = req[r].sha /\ req'[r].file = req[r].file /\ req'[r].entry = req[r].entry
  BY <1>1 DEF TypeOK
<1> HIDE DEF c
<1>7. TypeOK'
  <2> DEFINE w == [req[r] EXCEPT !.pc = "done", !.base = Empty]
  <2>1. w \in RequestType
    BY <1>1, EmptyType, RequestIs DEF RequestType, Ended
  <2>2. req' = [req EXCEPT ![r] = w] /\ config' \in [Paths -> ConfigType]
    BY <1>1, <1>3, <1>4 DEF TypeOK
  <2> QED
    BY <1>1, <2>1, <2>2, RequestTyped DEF TypeOK
<1>8. \A q \in Paths \ {p} : config'[q] = config[q]
  BY <1>1, <1>3 DEF TypeOK
<1>9. config'[p] = c
  BY <1>1, <1>3 DEF TypeOK
<1>10. p = Env \/ Whole(c)
  BY <1>2, <1>5 DEF SetsVariable
<1> HIDE DEF p
<1>11. Keeps
  BY <1>1, <1>8, <1>9, <1>10, PathsApart DEF Keeps
<1>12. ConfigsAreWhole'
  <2>1. \A q \in Paths \ {Env} : config'[q] = Empty \/ Whole(config'[q])
    BY <1>8, <1>9, <1>10 DEF IInv, ConfigsAreWhole
  <2> QED
    BY <2>1 DEF ConfigsAreWhole, Whole
<1>13. SetsVariable(r)' \/ (Registers(r)' /\ Resolved(r)' /\ Whole(config[req[r].path])')
  <2>1. CASE SetsVariable(r)
    BY <1>6, <2>1 DEF SetsVariable, p
  <2>2. CASE Registers(r) /\ Resolved(r)
    <3>1. Registers(r)' /\ Resolved(r)'
      BY <1>1, <1>6, <2>2 DEF Registers, Resolved, p
    <3>2. config'[req'[r].path] = c /\ Whole(c)
      BY <1>5, <1>6, <1>9, <2>2
    <3> QED
      BY <3>1, <3>2 DEF Whole
  <2> QED
    BY <1>2, <2>1, <2>2
<1>14. StepKnows(r)' /\ Served(r)'
  BY <1>6, <1>13 DEF StepKnows, Served, At
<1>15. \A q \in Requests \ {r} : req'[q] = req[q]
  BY <1>1 DEF TypeOK
<1> QED
  BY <1>7, <1>11, <1>12, <1>14, <1>15, StepKept

LEMMA SetEnvKept ==
  ASSUME IInv, NEW r \in Requests, SetEnv(r)
  PROVE  IInv'
<1>1. At(r, "new") /\ UNCHANGED <<app, versions, config>> /\ TypeOK /\ app \in BOOLEAN
  BY DEF SetEnv, IInv, TypeOK
<1>2. req[r] = NewRequest
  BY <1>1 DEF IInv, StepKnows
<1>3. ASSUME NEW pc \in {"refused", "drop"}, Goto(r, pc) PROVE IInv'
  <2>1. req'[r].pc = pc /\ req'[r].file = None /\ req'[r].entry = None
    BY <1>2, <1>3, GotoFields DEF NewRequest
  <2>2. StepKnows(r)' /\ Served(r)'
    BY <2>1 DEF StepKnows, Served, At, DropsVariables
  <2>3. pc \in Running \cup Ended
    BY DEF Running, Ended
  <2> QED
    BY <1>1, <1>3, <2>2, <2>3, GotoKept
<1>4. CASE req' = [req EXCEPT ![r].pc = "load", ![r].path = Env, ![r].file = Variable]
  <2>1. /\ req'[r].pc = "load" /\ req'[r].path = Env
        /\ req'[r].file = Variable /\ req'[r].entry = None
    BY <1>1, <1>2, <1>4 DEF TypeOK, NewRequest
  <2>2. TypeOK'
    <3> DEFINE w == [req[r] EXCEPT !.pc = "load", !.path = Env, !.file = Variable]
    <3>1. Env \in Paths /\ Variable \in FileType /\ "load" \in Running
      BY DEF Paths, Variable, FileType, Keys, Running
    <3>2. w \in RequestType
      BY <1>1, <3>1, RequestIs DEF RequestType
    <3>3. req' = [req EXCEPT ![r] = w]
      BY <1>4
    <3> QED
      BY <1>1, <3>2, <3>3, RequestTyped DEF TypeOK
  <2>3. StepKnows(r)' /\ Served(r)'
    BY <2>1 DEF StepKnows, Served, At, SetsVariable
  <2>4. \A q \in Requests \ {r} : req'[q] = req[q]
    BY <1>1, <1>4 DEF TypeOK
  <2> QED
    BY <1>1, <2>2, <2>3, <2>4, QuietStep, StepKept
<1> QED
  BY <1>3, <1>4 DEF SetEnv

LEMMA DropEnvKept ==
  ASSUME IInv, NEW r \in Requests, DropEnv(r)
  PROVE  IInv'
<1>1. At(r, "drop") /\ UNCHANGED <<app, versions>> /\ TypeOK
      /\ config' = [config EXCEPT ![Env] = Empty] /\ Goto(r, "done")
  BY DEF DropEnv, IInv
<1>2. DropsVariables(r)
  BY <1>1 DEF IInv, StepKnows
<1>3. \A q \in Paths \ {Env} : config'[q] = config[q]
  BY <1>1 DEF TypeOK
<1>4. TypeOK'
  BY <1>1, EmptyType DEF TypeOK, Goto, Ended
<1>5. Keeps
  BY <1>1, <1>3, PathsApart DEF Keeps
<1>6. ConfigsAreWhole'
  <2>1. \A q \in Paths \ {Env} : config'[q] = Empty \/ Whole(config'[q])
    BY <1>3 DEF IInv, ConfigsAreWhole
  <2> QED
    BY <2>1 DEF ConfigsAreWhole, Whole
<1>7. StepKnows(r)' /\ Served(r)'
  BY <1>1, <1>2, GotoFields DEF StepKnows, Served, At, DropsVariables
<1>8. \A q \in Requests \ {r} : req'[q] = req[q]
  BY <1>1 DEF TypeOK, Goto
<1> QED
  BY <1>4, <1>5, <1>6, <1>7, <1>8, StepKept

-----------------------------------------------------------------------------
(* Deploying, and dying.                                                   *)

LEMMA DeployKept ==
  ASSUME IInv, NEW r \in Requests, NEW s \in Shas, NEW e \in Entries, Deploy(r, s, e)
  PROVE  IInv'
<1> DEFINE pc == IF app THEN "find" ELSE "refused"
<1>1. At(r, "new") /\ UNCHANGED <<app, versions, config>> /\ TypeOK
      /\ req' = [req EXCEPT ![r].pc = pc, ![r].sha = s, ![r].entry = e] /\ pc \in {"find", "refused"}
  BY DEF Deploy, IInv
<1> HIDE DEF pc
<1>2. req[r] = NewRequest
  BY <1>1 DEF IInv, StepKnows
<1>3. req'[r].pc = pc /\ req'[r].sha = s /\ req'[r].file = None /\ req'[r].entry = e
  BY <1>1, <1>2 DEF TypeOK, NewRequest
<1>4. TypeOK'
  <2> DEFINE w == [req[r] EXCEPT !.pc = pc, !.sha = s, !.entry = e]
  <2>1. w \in RequestType
    BY <1>1, RequestIs DEF RequestType, Running, Ended
  <2>2. req' = [req EXCEPT ![r] = w]
    BY <1>1
  <2> QED
    BY <1>1, <2>1, <2>2, RequestTyped DEF TypeOK
<1>5. StepKnows(r)' /\ Served(r)'
  BY <1>1, <1>3 DEF StepKnows, Served, At, Deploys
<1>6. \A q \in Requests \ {r} : req'[q] = req[q]
  BY <1>1 DEF TypeOK
<1> QED
  BY <1>1, <1>4, <1>5, <1>6, QuietStep, StepKept

LEMMA FindDeployedKept ==
  ASSUME IInv, NEW r \in Requests, FindDeployed(r)
  PROVE  IInv'
<1>1. At(r, "find") /\ UNCHANGED <<app, versions, config>> /\ TypeOK
  BY DEF FindDeployed, IInv
<1>2. Deploys(r)
  BY <1>1 DEF IInv, StepKnows, At
<1>3. CASE Goto(r, "refused")
  <2>1. StepKnows(r)' /\ Served(r)'
    BY <1>3, GotoFields DEF StepKnows, Served, At
  <2>2. "refused" \in Running \cup Ended /\ app' \in BOOLEAN
    BY <1>1 DEF Ended, TypeOK
  <2> QED
    BY <1>1, <1>3, <2>1, <2>2, GotoKept
<1>4. ASSUME NEW v \in Matches(req[r].sha),
             req' = [req EXCEPT ![r].pc = "check", ![r].path = Short[v]]
      PROVE  IInv'
  <2>1. v \in versions \cap Extends[req[r].sha] /\ v \in Shas
    BY <1>1 DEF Matches, TypeOK
  <2>2. /\ req'[r].pc = "check" /\ req'[r].path = Short[v]
        /\ req'[r].sha = req[r].sha /\ req'[r].file = req[r].file /\ req'[r].entry = req[r].entry
    BY <1>1, <1>4 DEF TypeOK
  <2>3. TypeOK'
    <3> DEFINE w == [req[r] EXCEPT !.pc = "check", !.path = Short[v]]
    <3>1. Short[v] \in Paths
      BY <2>1 DEF Paths
    <3>2. w \in RequestType
      BY <1>1, <3>1, RequestIs DEF RequestType, Running
    <3>3. req' = [req EXCEPT ![r] = w]
      BY <1>4
    <3> QED
      BY <1>1, <3>2, <3>3, RequestTyped DEF TypeOK
  <2>4. Deploys(r)' /\ Resolved(r)'
    BY <1>1, <1>2, <2>1, <2>2 DEF Deploys, Resolved
  <2>5. StepKnows(r)' /\ Served(r)'
    BY <2>2, <2>4 DEF StepKnows, Served, At
  <2>6. \A q \in Requests \ {r} : req'[q] = req[q]
    BY <1>1, <1>4 DEF TypeOK
  <2> QED
    BY <1>1, <2>3, <2>5, <2>6, QuietStep, StepKept
<1> QED
  BY <1>3, <1>4 DEF FindDeployed

\* An entrypoint that is there is one of a whole configuration.
LEMMA CheckEntrypointKept ==
  ASSUME IInv, NEW r \in Requests, CheckEntrypoint(r)
  PROVE  IInv'
<1> DEFINE p == req[r].path
           c == config[p]
<1>1. At(r, "check") /\ UNCHANGED <<app, versions, config>> /\ TypeOK /\ app' \in BOOLEAN
  BY DEF CheckEntrypoint, IInv, TypeOK
<1>2. Deploys(r) /\ Resolved(r)
  BY <1>1 DEF IInv, StepKnows, At
<1>3. p \in Paths \ {Env}
  BY <1>1, <1>2, PathsApart DEF Resolved, Versioned, TypeOK
<1>4. CASE req[r].entry \notin Names(c)
  <2>1. Goto(r, "refused")
    BY <1>4 DEF CheckEntrypoint
  <2>2. StepKnows(r)' /\ Served(r)'
    BY <2>1, GotoFields DEF StepKnows, Served, At
  <2> QED
    BY <1>1, <2>1, <2>2, GotoKept DEF Ended
<1>5. CASE req[r].entry \in Names(c)
  <2>1. req' = [req EXCEPT ![r].pc = "queued", ![r].checked = c["entrypoints"]]
    BY <1>5 DEF CheckEntrypoint
  <2>2. c["entrypoints"] # None /\ req[r].entry \in c["entrypoints"].names
    BY <1>5 DEF Names
  <2>3. Whole(c)
    <3>1. c = Empty \/ Whole(c)
      BY <1>3 DEF IInv, ConfigsAreWhole
    <3>2. Empty["entrypoints"] = None
      BY DEF Empty, Keys, YamlKeys
    <3> QED
      BY <2>2, <3>1, <3>2
  <2>4. /\ req'[r].pc = "queued" /\ req'[r].path = p /\ req'[r].sha = req[r].sha
        /\ req'[r].file = req[r].file /\ req'[r].entry = req[r].entry
        /\ req'[r].checked = c["entrypoints"]
    BY <1>1, <2>1 DEF TypeOK
  <2>5. TypeOK'
    <3> DEFINE w == [req[r] EXCEPT !.pc = "queued", !.checked = c["entrypoints"]]
    <3>1. c \in ConfigType
      BY <1>1, <1>3 DEF TypeOK
    <3>2. c["entrypoints"] \in FileType \cup {None}
      BY <3>1 DEF ConfigType, Keys, YamlKeys
    <3>3. w \in RequestType
      BY <1>1, <3>2, RequestIs DEF RequestType, Running
    <3>4. req' = [req EXCEPT ![r] = w]
      BY <2>1
    <3> QED
      BY <1>1, <3>3, <3>4, RequestTyped DEF TypeOK
  <2>6. Deploys(r)' /\ Resolved(r)' /\ Checked(r)'
    BY <1>1, <1>2, <2>2, <2>4 DEF Deploys, Resolved, Checked
  <2>7. Whole(config[req[r].path])'
    BY <1>1, <2>3, <2>4 DEF Whole
  <2>8. StepKnows(r)' /\ Served(r)'
    BY <2>4, <2>6, <2>7 DEF StepKnows, Served, At
  <2>9. \A q \in Requests \ {r} : req'[q] = req[q]
    BY <1>1, <2>1 DEF TypeOK
  <2> QED
    BY <1>1, <2>5, <2>8, <2>9, QuietStep, StepKept
<1> QED
  BY <1>4, <1>5

\* The name is gone only with the file in which it was found.
LEMMA UseConfigKept ==
  ASSUME IInv, NEW r \in Requests, UseConfig(r)
  PROVE  IInv'
<1> DEFINE c == config[req[r].path]
           pc == IF req[r].entry \in Names(c) THEN "done" ELSE "raised"
<1>1. At(r, "queued") /\ UNCHANGED <<app, versions, config>> /\ TypeOK
      /\ req' = [req EXCEPT ![r].pc = pc, ![r].base = c]
  BY DEF UseConfig, IInv
<1>2. Deploys(r) /\ Resolved(r) /\ Checked(r) /\ Whole(c)
  BY <1>1 DEF IInv, StepKnows, Served, At
<1>3. req[r].path \in Paths
  BY <1>1, <1>2 DEF Resolved, Paths, TypeOK
<1>4. pc = "raised" => c["entrypoints"] # req[r].checked
  BY <1>2 DEF Names, Whole, Checked
<1>5. pc \in {"done", "raised"}
  OBVIOUS
<1> HIDE DEF pc
<1>6. /\ req'[r].pc = pc /\ req'[r].base = c /\ req'[r].sha = req[r].sha
      /\ req'[r].file = req[r].file /\ req'[r].entry = req[r].entry
      /\ req'[r].checked = req[r].checked
  BY <1>1 DEF TypeOK
<1>7. TypeOK'
  <2> DEFINE w == [req[r] EXCEPT !.pc = pc, !.base = c]
  <2>1. c \in ConfigType
    BY <1>1, <1>3 DEF TypeOK
  <2>2. w \in RequestType
    BY <1>1, <1>5, <2>1, RequestIs DEF RequestType, Ended
  <2>3. req' = [req EXCEPT ![r] = w]
    BY <1>1
  <2> QED
    BY <1>1, <2>2, <2>3, RequestTyped DEF TypeOK
<1>8. Deploys(r)' /\ Whole(req[r].base)'
  BY <1>2, <1>6 DEF Deploys, Whole
<1>9. StepKnows(r)' /\ Served(r)'
  BY <1>4, <1>5, <1>6, <1>8 DEF StepKnows, Served, At
<1>10. \A q \in Requests \ {r} : req'[q] = req[q]
  BY <1>1 DEF TypeOK
<1> QED
  BY <1>1, <1>7, <1>9, <1>10, QuietStep, StepKept

LEMMA CrashKept ==
  ASSUME IInv, NEW r \in Requests, Crash(r)
  PROVE  IInv'
<1>1. UNCHANGED <<app, versions, config>> /\ TypeOK
      /\ req' = [req EXCEPT ![r].pc = "crashed", ![r].base = Empty]
  BY DEF Crash, IInv
<1>2. req'[r].pc = "crashed"
  BY <1>1 DEF TypeOK
<1>3. TypeOK'
  <2> DEFINE w == [req[r] EXCEPT !.pc = "crashed", !.base = Empty]
  <2>1. w \in RequestType
    BY <1>1, EmptyType, RequestIs DEF RequestType, Ended
  <2>2. req' = [req EXCEPT ![r] = w]
    BY <1>1
  <2> QED
    BY <1>1, <2>1, <2>2, RequestTyped DEF TypeOK
<1>4. StepKnows(r)' /\ Served(r)'
  BY <1>2 DEF StepKnows, Served, At
<1>5. \A q \in Requests \ {r} : req'[q] = req[q]
  BY <1>1 DEF TypeOK
<1> QED
  BY <1>1, <1>3, <1>4, <1>5, QuietStep, StepKept

-----------------------------------------------------------------------------
(* The theorems.                                                           *)

\* What each step knows of its version is true, and a configuration is empty
\* or whole, in every state of the registry (eru/api/app.py).
THEOREM Invariant == Spec => []IInv
<1>1. ASSUME IInv, [Next]_vars PROVE IInv'
  <2>1. ASSUME NEW r \in Requests, Receive(r) PROVE IInv'
    BY <1>1, <2>1, SetEnvKept, DeployKept, RegisterKept DEF Receive
  <2>2. ASSUME NEW r \in Requests, Handle(r) PROVE IInv'
    BY <1>1, <2>2, FindAppKept, CreateAppKept, FindVersionKept, CreateVersionKept,
       LoadKept, SaveKept, DropEnvKept, FindDeployedKept, CheckEntrypointKept,
       UseConfigKept DEF Handle
  <2>3. ASSUME NEW r \in Requests, Crash(r) PROVE IInv'
    BY <1>1, <2>3, CrashKept
  <2>4. ASSUME UNCHANGED vars PROVE IInv'
    <3>1. /\ TypeOK' /\ ConfigsAreWhole'
      BY <1>1, <2>4 DEF IInv, TypeOK, ConfigsAreWhole, Whole, vars
    <3>2. Keeps /\ \A q \in Requests : req'[q] = req[q]
      BY <2>4 DEF Keeps, vars
    <3>3. \A q \in Requests : StepKnows(q)' /\ Served(q)'
      BY <1>1, <3>2, OthersKept DEF IInv
    <3> QED
      BY <3>1, <3>3 DEF IInv
  <2> QED
    BY <1>1, <2>1, <2>2, <2>3, <2>4 DEF Next, AllAnswered
<1> QED
  BY <1>1, InitOK, PTL DEF Spec

\* The type invariant of the registry.
THEOREM TypeCorrect == Spec => []TypeOK
<1>1. IInv => TypeOK
  BY DEF IInv
<1> QED
  BY <1>1, Invariant, PTL

\* Registrations of one path, overlapping or dying anywhere, leave all that the
\* last file saved says: what is started, how it is built and the optional keys
\* it has (BaseConfig.update, BaseConfig.save).
THEOREM LastFileIsWhole == Spec => []ConfigsAreWhole
<1>1. IInv => ConfigsAreWhole
  BY DEF IInv
<1> QED
  BY <1>1, Invariant, PTL

\* A registration that was acknowledged has left a version to be found and a
\* whole configuration (register_app_version).
THEOREM Acknowledged == Spec => []AcknowledgedIsDeployable
<1>1. IInv => AcknowledgedIsDeployable
  <2> SUFFICES ASSUME IInv, NEW r \in Requests, At(r, "done"), req[r].file \in Yamls
               PROVE  Matches(req[r].sha) # {} /\ Whole(config[req[r].path])
    BY DEF AcknowledgedIsDeployable
  <2>1. None \notin Yamls /\ Variable \notin Yamls
    BY RegistryAssumption DEF Variable, YamlKeys
  <2>2. Resolved(r) /\ Whole(config[req[r].path])
    BY <2>1 DEF IInv, Served, SetsVariable, DropsVariables, Deploys
  <2> QED
    BY <2>2 DEF Resolved, Matches
<1> QED
  BY <1>1, Invariant, PTL

\* A deployment that was accepted reads a whole configuration, however late its
\* worker comes, and falls over its entrypoint only when another file took the
\* place of the one that was checked (create_private, create_containers).
THEOREM WholeWhenUsed == Spec => []DeployedIsWhole
<1>1. IInv => DeployedIsWhole
  <2> SUFFICES ASSUME IInv, NEW r \in Requests, req[r].pc \in {"done", "raised"},
                      req[r].entry # None
               PROVE  /\ Whole(req[r].base)
                      /\ At(r, "raised") => req[r].base["entrypoints"] # req[r].checked
    BY DEF DeployedIsWhole
  <2>1. CASE At(r, "done")
    BY <2>1 DEF IInv, Served, SetsVariable, DropsVariables, Registers, At
  <2>2. CASE At(r, "raised")
    BY <2>2 DEF IInv, Served
  <2> QED
    BY <2>1, <2>2 DEF At
<1> QED
  BY <1>1, Invariant, PTL

=============================================================================
