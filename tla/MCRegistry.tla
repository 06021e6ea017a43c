----------------------------- MODULE MCRegistry -----------------------------
(* Values for the constants of Registry: a version, the beginning of its    *)
(* sha, and another version; files that are accepted, with volumes and      *)
(* without, refused, and fallen over.                                       *)
EXTENDS Registry, TLC

CONSTANTS full, begin, other, web, daemon, r1, r2, r3

Prefixes == (full :> {full}) @@ (begin :> {full, begin}) @@ (other :> {other})
Shorts == (full :> "path1") @@ (begin :> "path1") @@ (other :> "path2")

Plain == [keys |-> {"entrypoints", "build"}, entries |-> {"good"}, names |-> {web},
          build |-> "text", volumes |-> 0, binds |-> 0]
Bound == [Plain EXCEPT !.keys = YamlKeys, !.volumes = 1, !.binds = 1]
Files ==
    {Plain,
     [Bound EXCEPT !.names = {web, daemon}],
     [Plain EXCEPT !.keys = {"entrypoints"}],
     [Bound EXCEPT !.binds = 0],
     [Plain EXCEPT !.entries = {"good", "port", "number"}]}
Alike == Permutations(Requests)
=============================================================================
