---------------------------- MODULE LegacyTests ----------------------------
(***************************************************************************)
(* hack/generate_legacy_kustomizations.py: for each application that kfctl *)
(* has built, the parameters of its ConfigMaps are copied to a test        *)
(* directory, and then a kustomization.yaml is written that refers to      *)
(* them.  The script may end at any step, and is run again over what it    *)
(* has left; in between kfctl may have built other applications.           *)
(***************************************************************************)
EXTENDS Naturals, Sequences, FiniteSets, SequencesExt, Functions

CONSTANTS
    Directories,   \* the names that may be in ${KFAPP}/kustomize
    Applications,  \* those that are applications of the KFDef
    KfctlBuilt,    \* what kfctl may build in one: NoFile or
                   \* [paths, maps], the maps with their parameter files
    MaxRuns        \* bound: runs of the script

VARIABLES
    kfapp,    \* what is in ${KFAPP}/kustomize, by directory
    tests,    \* the test directories: [params, kustomization] by directory
    at,       \* the directory that is being written, or Nowhere
    copied,   \* params_index there
    dirsToGo, \* what is left of os.listdir, or NotRunning
    written,  \* the directories that the last run has written to the end
    runs

legacyVars == <<kfapp, tests, at, copied, dirsToGo, written, runs>>

Nowhere    == "nowhere"
NotRunning == {"not running"}
NoFile     == [none |-> TRUE]
NoTest     == [params |-> << >>, kustomization |-> NoFile]
Skipped    == {"mysql", "minio"}     \* APPS_TO_SKIP

ASSUME LegacyAssumption ==
    /\ Nowhere \notin Directories /\ "not running" \notin Directories
    /\ \A b \in KfctlBuilt \ {NoFile} : b.maps \in Seq(Seq(STRING))

\* build_configmap_generators: the maps in their order, each with its files;
\* and all the files, in the order in which they are numbered.
Files(build) == FlattenSeq([m \in DOMAIN build.maps |-> build.maps[m]])

\* params_{params_index}.env: the indices of the files of map m, which go on
\* from map to map.  (Fault: they begin anew with each map.)
Envs_anew(build, m) == [i \in DOMAIN build.maps[m] |-> i - 1]

Envs(build, m) ==
    [i \in DOMAIN build.maps[m] |->
        Len(FlattenSeq(SubSeq(build.maps, 1, m - 1))) + i - 1]

\* The kustomization.yaml: paths below the repository, and a merging generator
\* for each map.
Kustomization(build) ==
    [paths |-> build.paths, envs |-> [m \in DOMAIN build.maps |-> Envs(build, m)]]

\* When kustomization.yaml is written.  (Fault: before the files are copied.)
AllCopied_early(build) == copied <= Len(Files(build))
AllCopied(build)       == copied = Len(Files(build))

-----------------------------------------------------------------------------
LegacyInit ==
    /\ kfapp \in [Directories -> KfctlBuilt] /\ tests = [d \in Directories |-> NoTest]
    /\ at = Nowhere /\ copied = 0 /\ dirsToGo = NotRunning /\ written = {} /\ runs = 0

Start == /\ dirsToGo = NotRunning /\ runs < MaxRuns
         /\ dirsToGo' = Directories /\ written' = {} /\ runs' = runs + 1
         /\ UNCHANGED <<kfapp, tests, at, copied>>

Ended == dirsToGo' = NotRunning /\ at' = Nowhere /\ copied' = 0

\* The next directory.  One that is no application is not skipped, whatever the
\* log says: its first path raises a KeyError (lines 115-132).
Directory ==
    /\ dirsToGo \notin {NotRunning, {}} /\ at = Nowhere
    /\ \E d \in dirsToGo :
          CASE d \in Skipped \/ kfapp[d] = NoFile ->
                  dirsToGo' = dirsToGo \ {d} /\ UNCHANGED <<at, copied>>
            [] OTHER ->
                  IF d \notin Applications /\ kfapp[d].paths THEN Ended
                  ELSE dirsToGo' = dirsToGo \ {d} /\ at' = d /\ copied' = 0
    /\ UNCHANGED <<kfapp, tests, written, runs>>

\* shutil.copy2 of the next file, to the next number.
With(params, k, content) == [i \in DOMAIN params \cup {k} |->
                                IF i = k THEN content ELSE params[i]]

CopyParams ==
    /\ at # Nowhere /\ copied < Len(Files(kfapp[at]))
    /\ tests' = [tests EXCEPT ![at].params =
                    With(@, copied, Files(kfapp[at])[copied + 1])]
    /\ copied' = copied + 1
    /\ UNCHANGED <<kfapp, at, dirsToGo, written, runs>>

\* The file is empty until the dump; the script may die in between.
WriteKustomization ==
    /\ at # Nowhere /\ AllCopied(kfapp[at])
    /\ \/ /\ tests' = [tests EXCEPT ![at].kustomization = Kustomization(kfapp[at])]
          /\ written' = written \cup {at}
          /\ at' = Nowhere /\ copied' = 0 /\ UNCHANGED dirsToGo
       \/ /\ tests' = [tests EXCEPT ![at].kustomization = NoFile]
          /\ Ended /\ UNCHANGED written
    /\ UNCHANGED <<kfapp, runs>>

AllWritten == /\ dirsToGo = {} /\ at = Nowhere
              /\ Ended
              /\ UNCHANGED <<kfapp, tests, written, runs>>

\* An exception, or the end of the process.
Dies == /\ dirsToGo # NotRunning
        /\ Ended
        /\ UNCHANGED <<kfapp, tests, written, runs>>

\* kfctl build, between two runs.
KfctlBuilds == /\ dirsToGo = NotRunning /\ runs < MaxRuns
               /\ \E d \in Directories, b \in KfctlBuilt : kfapp' = [kfapp EXCEPT ![d] = b]
               /\ written' = {}
               /\ UNCHANGED <<tests, at, copied, dirsToGo, runs>>

LegacyNext == Start \/ Directory \/ CopyParams \/ WriteKustomization \/ AllWritten
              \/ Dies \/ KfctlBuilds

LegacySpec == LegacyInit /\ [][LegacyNext]_legacyVars

-----------------------------------------------------------------------------
\* At every moment, whatever runs have died and wherever, the parameter files
\* that a kustomization.yaml of the tests refers to are there; and in a test
\* that the last run has written to its end each map has its own files, over
\* the numbers of all the maps (generate_legacy_kustomizations.py 146-174).
ParamsAreThere ==
    \A d \in Directories :
       LET test == tests[d]
           maps == kfapp[d].maps
       IN /\ test.kustomization # NoFile =>
                \A m \in DOMAIN test.kustomization.envs :
                   Range(test.kustomization.envs[m]) \subseteq DOMAIN test.params
          /\ d \in written =>
                [m \in DOMAIN maps |-> [i \in DOMAIN maps[m] |->
                    test.params[test.kustomization.envs[m][i]]]] = maps

=============================================================================
