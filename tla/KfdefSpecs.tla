----------------------------- MODULE KfdefSpecs -----------------------------
(***************************************************************************)
(* hack/build_kfdef_specs.py: each directory of kfdef/source is a version; *)
(* kustomize builds its KfDefs, and each is written, without its name, to  *)
(* a file of kfdef/ that has the version in its name.  A version is made   *)
(* of patches to the KfDefs of master.  The sources may be edited while    *)
(* the script runs, and any step may fail and end it.                      *)
(***************************************************************************)
EXTENDS Naturals, Sequences, FiniteSets, Functions

CONSTANTS
    Versions,     \* the releases, other than "master"
    Kfdefs,       \* the metadata.names, kfctl-aws
    Underscored,  \* name.replace("-", "_") of each
    MaxEdits,     \* bound: edits of the sources
    MaxBuilds     \* bound: runs of the script

VARIABLES
    source,    \* by version and name: the edit that made it, 0 if there is none
    specs,     \* the files of kfdef/, by name
    building,  \* the version whose output is being written, or Nothing
    output,    \* of it: the files of the temporary directory
    todo,      \* the versions to go; Idle between two runs
    edited,    \* the sources were edited since the last run began
    done,      \* that run has ended well
    edits, builds

kfdefVars == <<source, specs, building, output, todo, edited, done, edits, builds>>

All     == Versions \cup {"master"}
Idle    == {"idle"}
Nothing == "nothing"
Empty   == << >>

\* The name of the file: kfctl_aws.v1.0.0.yaml, kfctl_aws.yaml for master.
FileName(name, version) ==
    Underscored[name] \o (IF version = "master" THEN ".yaml"
                          ELSE "." \o version \o ".yaml")

\* A KfDef has a file of its own in each version.
ASSUME KfdefAssumption ==
    /\ "idle" \notin All /\ Nothing \notin All
    /\ \A k1, k2 \in Kfdefs, v1, v2 \in All :
          FileName(k1, v1) = FileName(k2, v2) => k1 = k2 /\ v1 = v2

\* kustomize build: what master has, as the version patches it.
Built(version) == [name \in {k \in Kfdefs : source["master"][k] > 0} |->
                      <<source["master"][name], version, source[version][name]>>]

\* A patch of what master does not have cannot be built.
Builds(version) == \A k \in Kfdefs : source[version][k] > 0 => source["master"][k] > 0

KfdefInit ==
    /\ source \in [All -> [Kfdefs -> {0, 1}]]
    /\ specs = << >> /\ building = Nothing /\ output = << >> /\ todo = Idle
    /\ edited = FALSE /\ done = FALSE /\ edits = 0 /\ builds = 0

Run == /\ todo = Idle /\ builds < MaxBuilds
       /\ todo' = All /\ builds' = builds + 1
       /\ edited' = FALSE /\ done' = FALSE
       /\ UNCHANGED <<source, specs, building, output, edits>>

Stop == building' = Nothing /\ output' = << >> /\ todo' = Idle

\* os.walk comes to the next version, in whatever order.
Build == /\ todo # Idle /\ building = Nothing
         /\ \E v \in todo : IF Builds(v)
               THEN /\ building' = v /\ output' = Built(v) /\ todo' = todo \ {v}
               ELSE Stop
         /\ UNCHANGED <<source, specs, edited, done, edits, builds>>

\* open(file, "w"), and what is written to it.
\* (Fault: a file that is there is left as it is.)
Written_once(file, content) == [f \in DOMAIN specs \cup {file} |->
                                   IF f \in DOMAIN specs THEN specs[f] ELSE content]

Written(file, content) == [f \in DOMAIN specs \cup {file} |->
                              IF f = file THEN content ELSE specs[f]]

\* del spec["metadata"]["name"] is left out: that is no part of what is told
\* apart here.  Until the spec is dumped the file is empty.
Write ==
    /\ building # Nothing
    /\ \E name \in DOMAIN output :
          LET file == FileName(name, building) IN
          \/ /\ specs' = Written(file, output[name])
             /\ output' = Restrict(output, DOMAIN output \ {name})
             /\ UNCHANGED <<building, todo>>
          \/ /\ specs' = Written(file, Empty)
             /\ Stop
    /\ UNCHANGED <<source, edited, done, edits, builds>>

NextVersion == /\ building # Nothing /\ output = << >>
               /\ building' = Nothing
               /\ done' = (todo = {})
               /\ todo' = IF todo = {} THEN Idle ELSE todo
               /\ UNCHANGED <<source, specs, output, edited, edits, builds>>

BuildFails == /\ todo # Idle /\ building = Nothing
              /\ Stop
              /\ UNCHANGED <<source, specs, edited, done, edits, builds>>

Edit == /\ edits < MaxEdits /\ edits' = edits + 1
        /\ \E v \in All, k \in Kfdefs, there \in BOOLEAN :
              source' = [source EXCEPT ![v][k] = IF there THEN edits + 2 ELSE 0]
        /\ edited' = TRUE
        /\ UNCHANGED <<specs, building, output, todo, done, builds>>

KfdefNext == Run \/ Build \/ Write \/ NextVersion \/ BuildFails \/ Edit

KfdefSpec == KfdefInit /\ [][KfdefNext]_kfdefVars

-----------------------------------------------------------------------------
\* After a run that has ended well, with nothing edited since it began, each
\* KfDef that can be built has a file of its own, made of its version and what
\* master is now, whatever earlier runs have left (build_kfdef_specs.py 27-65).
SpecsAreCurrent ==
    done /\ ~edited => \A v \in All : \A k \in DOMAIN Built(v) :
       /\ FileName(k, v) \in DOMAIN specs
       /\ specs[FileName(k, v)] = Built(v)[k]

=============================================================================
