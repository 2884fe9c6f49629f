----------------------------- MODULE Installer -----------------------------
(***************************************************************************)
(* bootstrap/components/installer/entrypoint.sh as the pods of the Job     *)
(* kf-installer run it: a script of `kustomize build | kubectl apply'      *)
(* pipelines, grouped in && lists, most of them repeated until the list    *)
(* succeeds.  Any apply may fail, wholly or in part, and a pod may die     *)
(* between any two applies; what was applied stays in the cluster.         *)
(*                                                                         *)
(* The script runs under `set -e', but the lists of a function called in   *)
(* `while ! f' do not exit the shell, and a function returns the status of *)
(* its last list only.  deploy_kf_services has five lists: the blocks head *)
(* (with minio), middle, dashboard and tail.  Only tail decides whether it *)
(* is repeated.                                                            *)
(***************************************************************************)
EXTENDS KubeJob, Sequences

CONSTANTS Packages,   \* the kustomize packages
          Chain,      \* the packages of every block of the script, in order
          Needs,      \* the packages whose CRDs a package's apply requires
          Settings,   \* the pairs DISABLE_ISTIO, DISABLE_NOTEBOOKSERVERS_LINK
          MaxToggles  \* bound on the changes of the external MinIO secret

Blocks == { "jobs", "certManager", "istio", "authservices", "knative",
            "clusterLocalGateway", "head", "minio", "middle", "dashboard",
            "dashboardNoLink", "tail", "prism", "patch" }

Flags == {"true", "false", "other"}

InBlock == [b \in Blocks |-> {Chain[b][i] : i \in 1 .. Len(Chain[b])}]

\* The packages whose CRDs somebody needs: crds follows no others.
Providers == UNION {Needs[q] : q \in Packages}

ASSUME InstallerAssumption ==
    /\ MaxToggles \in Nat
    /\ Chain \in [Blocks -> Seq(Packages)]
    /\ \A b \in Blocks : Len(Chain[b]) > 0
    /\ \A b, c \in Blocks : b # c => InBlock[b] \cap InBlock[c] = {}
    /\ \A b \in Blocks : \A i, j \in 1 .. Len(Chain[b]) :
          Chain[b][i] = Chain[b][j] => i = j
    /\ "istio-crds" \in InBlock["istio"]
    /\ Needs \in [Packages -> SUBSET Packages]
    /\ Settings \subseteq Flags \X Flags

VARIABLES
    disableIstio,  \* DISABLE_ISTIO
    disableLinks,  \* DISABLE_NOTEBOOKSERVERS_LINK
    external,      \* does the secret kubeflow-external-minio exist?
    toggles,       \* how often it has appeared or disappeared
    absentSeen,    \* history: it did not exist at some moment
    misread,       \* history: a call that asked for it failed, while it existed
    applied,       \* the packages of which an apply has succeeded
    crds,          \* the packages whose CRDs the cluster has
    phase,         \* where the running pod stands, or "idle" between two pods,
                   \* or "succeeded" / "failed" when the Job has ended
    pos,           \* the next package of the block
    installMinio,  \* SHOULD_INSTALL_MINIO
    failures       \* the pods of the Job that have failed

settings == <<disableIstio, disableLinks>>
source   == <<external, toggles, absentSeen, misread>>
cluster  == <<applied, crds>>
script   == <<phase, pos, installMinio, failures>>
vars     == <<settings, source, cluster, script>>

Istio == disableIstio # "true"

Provided(p) == {p} \cap Providers

Phases == Blocks \cup {"idle", "testEnv", "fetch", "probe", "succeeded", "failed"}

PodRuns == phase \notin {"idle", "succeeded", "failed"}

-----------------------------------------------------------------------------
\* With DISABLE_ISTIO the cluster has an Istio of its own.
Init == /\ \E s \in Settings : disableIstio = s[1] /\ disableLinks = s[2]
        /\ external \in BOOLEAN
        /\ toggles = 0
        /\ absentSeen = ~external
        /\ misread = FALSE
        /\ applied = {}
        /\ crds = IF disableIstio = "true" THEN Provided("istio-crds") ELSE {}
        /\ phase = "idle"
        /\ pos = 1
        /\ installMinio = FALSE
        /\ failures = 0

Enter(b) == phase' = b /\ pos' = 1

\* The pod exits with a status other than 0; the Job has pods left, or not.
PodExits == /\ Enter(IF failures < BackoffLimit THEN "idle" ELSE "failed")
            /\ failures' = failures + 1
            /\ installMinio' = FALSE

StartPod == /\ phase = "idle"
            /\ Enter("testEnv")
            /\ UNCHANGED <<settings, source, cluster, installMinio, failures>>

\* test_env_vars: both flags are "true" or "false", or the script exits 1.
TestEnvVars ==
    /\ phase = "testEnv"
    /\ \/ /\ "other" \notin {disableIstio, disableLinks}
          /\ Enter("fetch")
          /\ UNCHANGED <<installMinio, failures>>
       \/ /\ "other" \in {disableIstio, disableLinks}
          /\ PodExits
    /\ UNCHANGED <<settings, source, cluster>>

\* curl, mkdir and tar: the manifests are there, or the script exits.
Fetch == /\ phase = "fetch"
         /\ \/ /\ Enter("jobs")
               /\ UNCHANGED <<installMinio, failures>>
            \/ PodExits
         /\ UNCHANGED <<settings, source, cluster>>

\* SHOULD_INSTALL_MINIO=$(minio_needs_to_be_installed): what counts is whether
\* kubectl prints anything.  It does if the secret exists; it does not if the
\* secret is missing, and neither if the call fails.
\* (Fault: the exit status of the function is read, not what it prints.)
Probe_status == /\ phase = "probe"
                /\ installMinio' = TRUE
                /\ Enter("head")
                /\ UNCHANGED <<settings, source, cluster, failures>>

Probe == /\ phase = "probe"
         /\ \/ installMinio' = ~external /\ UNCHANGED misread
            \/ installMinio' = TRUE /\ misread' = (misread \/ external)
         /\ Enter("head")
         /\ UNCHANGED <<settings, external, toggles, absentSeen, cluster, failures>>

\* Where the script goes when a block is through.
After(b) ==
    CASE b = "jobs"                -> "certManager"
      [] b = "certManager"         -> IF Istio THEN "istio" ELSE "authservices"
      [] b = "istio"               -> "authservices"
      [] b = "authservices"        -> "knative"
      [] b = "knative"             -> IF Istio THEN "clusterLocalGateway" ELSE "probe"
      [] b = "clusterLocalGateway" -> "probe"
      [] b = "head"                -> IF installMinio THEN "minio" ELSE "middle"
      [] b = "minio"               -> "middle"
      [] b = "middle"              -> IF disableLinks = "false" THEN "dashboard"
                                                                ELSE "dashboardNoLink"
      [] b = "dashboard"           -> "tail"
      [] b = "dashboardNoLink"     -> "tail"
      [] b = "tail"                -> "prism"
      [] b = "prism"               -> "patch"
      [] b = "patch"               -> "succeeded"

\* The next package of the block, or what follows the block.
\* (Fault: one package too many.)
Advance_pastEnd ==
    /\ IF pos <= Len(Chain[phase]) THEN phase' = phase /\ pos' = pos + 1
                                   ELSE Enter(After(phase))
    /\ UNCHANGED <<installMinio, failures>>

Advance == /\ IF pos < Len(Chain[phase]) THEN phase' = phase /\ pos' = pos + 1
                                         ELSE Enter(After(phase))
           /\ UNCHANGED <<installMinio, failures>>

\* The blocks that are repeated until they succeed: while ! f; do sleep; done.
\* (Fault, though a better script: deploy_prism is repeated like the others.)
Looping_withPrism == {"certManager", "istio", "authservices", "knative",
                      "clusterLocalGateway", "patch", "prism"}

Looping == {"certManager", "istio", "authservices", "knative",
            "clusterLocalGateway", "patch"}

\* What the script does when an apply fails.
\* (Faults: no loops; a list goes on after a failure.)
OnFailure_noLoops ==
    IF phase \in {"jobs", "prism"} THEN PodExits
    ELSE Enter(After(phase)) /\ UNCHANGED <<installMinio, failures>>

OnFailure_goesOn == Advance

OnFailure ==
    \/ /\ phase \in Looping
       /\ Enter(phase)
       /\ UNCHANGED <<installMinio, failures>>
    \/ /\ phase = "tail"                     \* the status of deploy_kf_services
       /\ Enter("probe")
       /\ UNCHANGED <<installMinio, failures>>
    \/ /\ phase = "head"                     \* the rest of the list is skipped,
       /\ Enter("middle")                    \* the minio block with it
       /\ UNCHANGED <<installMinio, failures>>
    \/ /\ phase \in {"middle", "dashboard", "dashboardNoLink"}
       /\ Enter(After(phase))
       /\ UNCHANGED <<installMinio, failures>>
    \/ /\ phase = "minio"                    \* not a list: the next line runs
       /\ Advance
    \/ /\ phase \in {"jobs", "prism"}        \* set -e
       /\ PodExits

Current == Chain[phase][pos]

\* kustomize build ... | kubectl apply -f - exits 0.
ApplySucceeds == /\ phase \in Blocks
                 /\ Needs[Current] \subseteq crds
                 /\ applied' = applied \cup {Current}
                 /\ crds' = crds \cup Provided(Current)
                 /\ Advance
                 /\ UNCHANGED <<settings, source>>

\* It exits with another status, and has or has not created the package's CRDs.
ApplyFails == /\ phase \in Blocks
              /\ crds' \in {crds, crds \cup Provided(Current)}
              /\ OnFailure
              /\ UNCHANGED <<settings, source, applied>>

\* The pod is evicted or killed.
PodDies == /\ PodRuns
           /\ PodExits
           /\ UNCHANGED <<settings, source, cluster>>

\* The administrator creates or deletes the secret of the external MinIO.
ToggleExternal == /\ toggles < MaxToggles
                  /\ toggles' = toggles + 1
                  /\ external' = ~external
                  /\ absentSeen' = (absentSeen \/ external)
                  /\ UNCHANGED <<settings, misread, cluster, script>>

ScriptStep == \/ TestEnvVars \/ Fetch \/ Probe
              \/ ApplySucceeds \/ ApplyFails

Next == \/ StartPod
        \/ ScriptStep
        \/ PodDies
        \/ ToggleExternal

Spec == Init /\ [][Next]_vars

\* A healthy API server: an apply succeeds if its needs are met, and creates
\* the definitions it brings if they are not.
Healthy == ApplyFails =>
               \/ ApplySucceeds   \* a failure that is passed over looks the same
               \/ ~(Needs[Current] \subseteq crds) /\ Provided(Current) \subseteq crds'

\* The pod is scheduled and goes on, and the API server is healthy at last.
Fairness == /\ WF_vars(StartPod \/ ScriptStep)
            /\ <>[][Healthy]_vars

FairSpec == Spec /\ Fairness

-----------------------------------------------------------------------------
\* The values every variable may take.
TypeOK == /\ disableIstio \in Flags
          /\ disableLinks \in Flags
          /\ external \in BOOLEAN
          /\ toggles \in 0 .. MaxToggles
          /\ absentSeen \in BOOLEAN
          /\ misread \in BOOLEAN
          /\ applied \subseteq Packages
          /\ crds \subseteq Packages
          /\ phase \in Phases
          /\ pos \in Nat \ {0}
          /\ phase \in Blocks => pos <= Len(Chain[phase])
          /\ installMinio \in BOOLEAN
          /\ failures \in 0 .. (BackoffLimit + 1)

\* The blocks whose failure the script does not pass over, in its order.
Rank == [b \in Phases |->
    CASE b = "jobs" -> 1
      [] b = "certManager" -> 2
      [] b = "istio" -> 3
      [] b = "authservices" -> 4
      [] b = "knative" -> 5
      [] b = "clusterLocalGateway" -> 6
      [] b \in {"probe", "head", "minio", "middle", "dashboard", "dashboardNoLink"} -> 7
      [] b = "tail" -> 8
      [] b = "prism" -> 9
      [] b = "patch" -> 10
      [] b = "succeeded" -> 11
      [] OTHER -> 0]

Gating == (Looping \cup {"jobs", "tail", "prism"})
            \ (IF Istio THEN {} ELSE {"istio", "clusterLocalGateway"})

\* In the cluster, over all pods of the Job and whatever failed on the way:
\* nothing of a block is applied before every gating block in front of it
\* is applied completely (entrypoint.sh 128-164).
StageOrder ==
    \A b \in Gating, c \in Blocks :
        Rank[b] < Rank[c] /\ InBlock[c] \cap applied # {} => InBlock[b] \subseteq applied

\* What the exit status 0 of the installer does promise: every gating block
\* is completely applied (entrypoint.sh 192-194).
SuccessMeansGates ==
    phase = "succeeded" => \A b \in Gating : InBlock[b] \subseteq applied

\* Within an && list a package is applied only after those in front of it,
\* and the bundled MinIO only after the whole head list (entrypoint.sh 83-95).
ListOrder ==
    /\ \A b \in Blocks \ {"minio"} : \A i, j \in 1 .. Len(Chain[b]) :
          i < j /\ Chain[b][j] \in applied => Chain[b][i] \in applied
    /\ InBlock["minio"] \cap applied # {} => InBlock["head"] \subseteq applied

\* The bundled MinIO is only brought to a cluster in which the secret of the
\* external one was missing at some moment, or in which a call that asked for
\* it has failed: the script takes no answer for "no" (entrypoint.sh 12-16,
\* 81, 91).
BundledMinioJustified ==
    InBlock["minio"] \cap applied # {} => absentSeen \/ misread

\* deploy_prism is not repeated, and prism needs a definition that it brings
\* itself: the first pod that comes to it always fails, so the Job never
\* succeeds without a second pod (entrypoint.sh 159-160).
PrismCostsAPod ==
    LET prism == Chain["prism"][1]
    IN  phase = "succeeded" /\ prism \in Needs[prism] => failures > 0

\* What the repository says of the installer: the services are deployed again
\* and again until that succeeds, and then it is "finished done".
SuccessMeansServices ==
    phase = "succeeded" => \A b \in {"head", "middle"} : InBlock[b] \subseteq applied

\* With applies that succeed at last, the installer does not repeat a list
\* for ever: the order of the lists provides every CRD before it is needed
\* in a place where a failure is repeated (entrypoint.sh 128-164).
InstallEnds == <>(phase \in {"succeeded", "failed"})

=============================================================================
