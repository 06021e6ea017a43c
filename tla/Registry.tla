------------------------------ MODULE Registry ------------------------------
(***************************************************************************)
(* An application, its versions and their configuration, as they are       *)
(* registered and read.  A registration checks app.yaml, finds or makes    *)
(* the SQL rows of the application and the version, and then loads the     *)
(* configuration at /ERU/<app>/<short sha>/app.yaml, updates it and saves  *)
(* it.  The variables of an environment are kept in the same way.  A       *)
(* deployment looks for its version and reads the configuration, once in   *)
(* the handler and again in the Celery worker.                             *)
(*                                                                         *)
(* The module models eru/api/app.py, models/app.py, models/appconfig.py    *)
(* and storage/redis.py.  A request is handled by one process and a step   *)
(* is one SQL query or commit or one command of Redis; a process may die.  *)
(***************************************************************************)
EXTENDS Naturals, FiniteSets

CONSTANTS Requests,
          Shas,        \* the versions a client may name
          Extends,     \* Extends[s]: the shas that s is a prefix of
          Short,       \* Short[s]: the first seven characters
          Entries,     \* the names of entrypoints
          Yamls,       \* what a client may send as app.yaml
          MaxCrashes,  \* bound: processes that die
          None

\* What verify_appconfig tells apart in an entrypoint: kinds it refuses, and
\* kinds it falls over (a port that is a number, entrypoints in a list).
RefusedEntries == {"underscore", "notdict", "nocmd", "ports", "port", "expose", "route"}
RaisingEntries == {"number", "list"}
EntryKinds == {"good"} \cup RefusedEntries \cup RaisingEntries
YamlKeys == {"entrypoints", "build", "volumes", "binds"}
Keys == YamlKeys \cup {"variable"}
\* A file: its keys, the kinds and the names of its entrypoints, and how many
\* volumes and binds it lists.
FileType == [keys : SUBSET Keys, entries : SUBSET EntryKinds, names : SUBSET Entries,
             build : {"text", "other"}, volumes : Nat, binds : Nat]
\* The variable of an environment.
Variable == [keys |-> {"variable"}, entries |-> {}, names |-> {}, build |-> "other",
             volumes |-> 0, binds |-> 0]

\* /ERU/<app>/resource/<env> is no path of a version: short shas are no longer
\* than seven characters.
Env == "resource/prod"

ASSUME RegistryAssumption ==
    /\ Extends \in [Shas -> SUBSET Shas] /\ \A s \in Shas : s \in Extends[s]
    /\ DOMAIN Short = Shas /\ \A s \in Shas : Short[s] # Env
    /\ \A y \in Yamls : /\ y \in FileType /\ y.keys \subseteq YamlKeys
                        /\ "volumes" \notin y.keys => y.volumes = 0
                        /\ "binds" \notin y.keys => y.binds = 0
    /\ MaxCrashes \in Nat
    /\ None \notin Shas \cup Entries \cup Yamls \cup {Variable}

VARIABLES app,       \* whether the application has a row
          versions,  \* shas of the rows of its versions
          config,    \* config[p][k]: the file that put key k at path p, or None
          req        \* the requests
vars == <<app, versions, config, req>>

Paths == {Short[s] : s \in Shas} \cup {Env}
Empty == [k \in Keys |-> None]
ConfigType == [Keys -> FileType \cup {None}]
Ended == {"done", "refused", "raised", "crashed"}
Running == {"app", "newapp", "version", "newversion", "load", "save", "drop",
            "find", "check", "queued"}

TypeOK ==
    /\ app \in BOOLEAN
    /\ versions \subseteq Shas
    /\ config \in [Paths -> ConfigType]
    /\ req \in [Requests -> [pc : {"new"} \cup Running \cup Ended, sha : Shas \cup {None},
                             file : FileType \cup {None}, entry : Entries \cup {None},
                             checked : FileType \cup {None}, path : Paths \cup {None},
                             base : ConfigType]]

\* A registration has a file, a deployment names an entrypoint and remembers
\* the file in which it was found.
NewRequest == [pc |-> "new", sha |-> None, file |-> None, entry |-> None,
               checked |-> None, path |-> None, base |-> Empty]

Init ==
    /\ app = FALSE
    /\ versions = {}
    /\ config = [p \in Paths |-> Empty]
    /\ req = [r \in Requests |-> NewRequest]

At(r, pc) == req[r].pc = pc
Goto(r, pc) == req' = [req EXCEPT ![r].pc = pc]

\* The versions a sha, or the beginning of one, stands for (LIKE 'sha%').
Matches(s) == versions \cap Extends[s]

-----------------------------------------------------------------------------
(* verify_appconfig.                                                       *)

\* The entrypoints come in the order of a dict: the first bad one decides.
EntryOutcomes(y) ==
    (IF y.entries \cap RefusedEntries # {} THEN {"refused"} ELSE {})
        \cup (IF y.entries \cap RaisingEntries # {} THEN {"raised"} ELSE {})

\* Mutant: without REQUIRED_KEYS.
MutantVerify(y) ==
    IF EntryOutcomes(y) # {} THEN EntryOutcomes(y)
    ELSE IF y.build # "text" \/ y.volumes # y.binds THEN {"refused"}
    ELSE {"ok"}

Verify(y) ==
    IF ~({"entrypoints", "build"} \subseteq y.keys) THEN {"refused"}
    ELSE IF EntryOutcomes(y) # {} THEN EntryOutcomes(y)
    ELSE IF y.build # "text" \/ y.volumes # y.binds THEN {"refused"}
    ELSE {"ok"}

-----------------------------------------------------------------------------
(* register_app_version.                                                   *)

Register(r, s, y) ==
    /\ At(r, "new")
    /\ \E outcome \in Verify(y) :
          req' = [req EXCEPT ![r].pc = IF outcome = "ok" THEN "app" ELSE outcome,
                             ![r].sha = s, ![r].file = y]
    /\ UNCHANGED <<app, versions, config>>

\* App.get_or_create: the query ...
FindApp(r) ==
    /\ At(r, "app")
    /\ Goto(r, IF app THEN "version" ELSE "newapp")
    /\ UNCHANGED <<app, versions, config>>

\* ... and the commit.  Of two the second gets None, which has no add_version.
CreateApp(r) ==
    /\ At(r, "newapp")
    /\ app' = TRUE
    /\ Goto(r, IF app THEN "raised" ELSE "version")
    /\ UNCHANGED <<versions, config>>

\* Mutant: a version that exists is not configured again.
MutantFindVersion(r) ==
    /\ At(r, "version")
    /\ \/ /\ Matches(req[r].sha) = {}
          /\ Goto(r, "newversion")
       \/ \E v \in Matches(req[r].sha) :
             req' = [req EXCEPT ![r].pc = "done", ![r].path = Short[v]]
    /\ UNCHANGED <<app, versions, config>>

\* App.add_version: the first version the sha stands for ...
FindVersion(r) ==
    /\ At(r, "version")
    /\ \/ /\ Matches(req[r].sha) = {}
          /\ Goto(r, "newversion")
       \/ \E v \in Matches(req[r].sha) :
             req' = [req EXCEPT ![r].pc = "load", ![r].path = Short[v]]
    /\ UNCHANGED <<app, versions, config>>

\* ... or a new one.
CreateVersion(r) ==
    LET s == req[r].sha IN
    /\ At(r, "newversion")
    /\ versions' = versions \cup {s}
    /\ req' = IF s \in versions THEN [req EXCEPT ![r].pc = "refused"]
              ELSE [req EXCEPT ![r].pc = "load", ![r].path = Short[s]]
    /\ UNCHANGED <<app, config>>

-----------------------------------------------------------------------------
(* BaseConfig: hget and yaml.load; update; hset.                           *)

Load(r) ==
    /\ At(r, "load")
    /\ req' = [req EXCEPT ![r].pc = "save", ![r].base = config[req[r].path]]
    /\ UNCHANGED <<app, versions, config>>

\* dict.update: the keys the file does not have stay what they were.
Updated(base, file) == [k \in Keys |-> IF k \in file.keys THEN file ELSE base[k]]

Save(r) ==
    /\ At(r, "save")
    /\ config' = [config EXCEPT ![req[r].path] = Updated(req[r].base, req[r].file)]
    /\ req' = [req EXCEPT ![r].pc = "done", ![r].base = Empty]
    /\ UNCHANGED <<app, versions>>

\* set_app_env: PUT of a variable, DELETE of the environment.
SetEnv(r) ==
    /\ At(r, "new")
    /\ IF ~app THEN Goto(r, "refused")
       ELSE \/ req' = [req EXCEPT ![r].pc = "load", ![r].path = Env,
                                  ![r].file = Variable]
            \/ Goto(r, "drop")
    /\ UNCHANGED <<app, versions, config>>

\* Mutant: the whole hash is deleted.
MutantDropEnv(r) ==
    /\ At(r, "drop")
    /\ config' = [p \in Paths \ {Env} |-> config[p]]
    /\ Goto(r, "done")
    /\ UNCHANGED <<app, versions>>

DropEnv(r) ==
    /\ At(r, "drop")
    /\ config' = [config EXCEPT ![Env] = Empty]
    /\ Goto(r, "done")
    /\ UNCHANGED <<app, versions>>

-----------------------------------------------------------------------------
(* A deployment: _get_app_and_version, the entrypoint, and the worker.     *)

Deploy(r, s, e) ==
    /\ At(r, "new")
    /\ req' = [req EXCEPT ![r].pc = IF app THEN "find" ELSE "refused",
                          ![r].sha = s, ![r].entry = e]
    /\ UNCHANGED <<app, versions, config>>

FindDeployed(r) ==
    /\ At(r, "find")
    /\ \/ Matches(req[r].sha) = {} /\ Goto(r, "refused")
       \/ \E v \in Matches(req[r].sha) :
             req' = [req EXCEPT ![r].pc = "check", ![r].path = Short[v]]
    /\ UNCHANGED <<app, versions, config>>

\* The entrypoints of a configuration are those of the file that put them.
Names(c) == IF c["entrypoints"] = None THEN {} ELSE c["entrypoints"].names

\* Mutant: without the test of the entrypoint.
MutantCheckEntrypoint(r) ==
    /\ At(r, "check")
    /\ req' = [req EXCEPT ![r].pc = "queued",
                          ![r].checked = config[req[r].path]["entrypoints"]]
    /\ UNCHANGED <<app, versions, config>>

CheckEntrypoint(r) ==
    LET c == config[req[r].path] IN
    /\ At(r, "check")
    /\ IF req[r].entry \notin Names(c) THEN Goto(r, "refused")
       ELSE req' = [req EXCEPT ![r].pc = "queued", ![r].checked = c["entrypoints"]]
    /\ UNCHANGED <<app, versions, config>>

\* create_containers reads version.appconfig for itself and takes the entry: a
\* KeyError, outside of any try, when a registration took the name away.
UseConfig(r) ==
    LET c == config[req[r].path] IN
    /\ At(r, "queued")
    /\ req' = [req EXCEPT ![r].pc = IF req[r].entry \in Names(c) THEN "done" ELSE "raised",
                          ![r].base = c]
    /\ UNCHANGED <<app, versions, config>>

Crash(r) ==
    /\ req[r].pc \in Running
    /\ Cardinality({q \in Requests : At(q, "crashed")}) < MaxCrashes
    /\ req' = [req EXCEPT ![r].pc = "crashed", ![r].base = Empty]
    /\ UNCHANGED <<app, versions, config>>

-----------------------------------------------------------------------------
Handle(r) ==
    \/ FindApp(r) \/ CreateApp(r) \/ FindVersion(r) \/ CreateVersion(r)
    \/ Load(r) \/ Save(r) \/ DropEnv(r)
    \/ FindDeployed(r) \/ CheckEntrypoint(r) \/ UseConfig(r)

Receive(r) ==
    \/ SetEnv(r)
    \/ \E s \in Shas, e \in Entries : Deploy(r, s, e)
    \/ \E s \in Shas, y \in Yamls : Register(r, s, y)

AllAnswered ==
    /\ \A r \in Requests : req[r].pc \in Ended
    /\ UNCHANGED vars

Next ==
    \/ \E r \in Requests : Receive(r) \/ Handle(r) \/ Crash(r)
    \/ AllAnswered

Spec == Init /\ [][Next]_vars

-----------------------------------------------------------------------------
\* A configuration that can be built and run: everything the file of its
\* entrypoints says is there, and how it is built is part of that.  A key this
\* file does not have may be left from an older one.
Whole(c) ==
    LET last == c["entrypoints"] IN
    /\ last # None /\ c["build"] = last
    /\ \A k \in last.keys : c[k] = last

(* However registrations of one version, or of two that share a path,      *)
(* overlap or die, its configuration is either empty or holds all that one *)
(* app.yaml says, the last one saved.  It may hold more: a key it leaves   *)
(* out stays from an older one (BaseConfig.update and save).               *)
ConfigsAreWhole == \A p \in Paths \ {Env} : config[p] = Empty \/ Whole(config[p])

(* A registration that was answered 201 has left a version that can be     *)
(* deployed, also when another one had died between the row of the version *)
(* and its configuration: the client who repeats it is not told that it is *)
(* done already (register_app_version).                                    *)
AcknowledgedIsDeployable ==
    \A r \in Requests :
        At(r, "done") /\ req[r].file \in Yamls =>
            /\ Matches(req[r].sha) # {}
            /\ Whole(config[req[r].path])

(* A deployment that was accepted finds, when a worker reads it later, a   *)
(* configuration to build and run: a version whose registration is not     *)
(* over is refused, and none is taken away.  Its entrypoint is gone only   *)
(* when another file has been registered since the handler looked, and the *)
(* worker falls over that (create_private, create_containers).             *)
DeployedIsWhole ==
    \A r \in Requests :
        req[r].pc \in {"done", "raised"} /\ req[r].entry # None =>
            /\ Whole(req[r].base)
            /\ At(r, "raised") => req[r].base["entrypoints"] # req[r].checked

=============================================================================
