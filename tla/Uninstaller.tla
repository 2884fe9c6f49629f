---------------------------- MODULE Uninstaller ----------------------------
(***************************************************************************)
(* bootstrap/components/uninstaller/entrypoint.sh: the Job kf-uninstaller, *)
(* and bootstrap/uninstall.sh, which starts it and waits for it.           *)
(*                                                                         *)
(* The script deletes the installer's Job together with its rights, then   *)
(* the packages in about the reverse order of their installation.  It runs *)
(* without `set -e': whatever a delete says, the next line follows.  Only  *)
(* delete_kf_services is repeated, and only when it takes 4 minutes.       *)
(*                                                                         *)
(* Meanwhile the installer may still run, here or in the grace period of   *)
(* its deleted pod, and apply packages as long as it has its rights.       *)
(***************************************************************************)
EXTENDS KubeJob, Sequences

CONSTANTS Packages,      \* what an installation brings
          IstioPackages, \* those it does not bring with DISABLE_ISTIO
          Teardown,      \* the packages of every block of the script, in order
          Needs,         \* the packages whose CRDs a package has instances of
          Settings,      \* the values of DISABLE_ISTIO
          MaxMissed,     \* bound on the packages whose delete fails
          MaxReapplies   \* bound on what the installer still applies

Blocks == {"prism", "services", "gateway", "knative", "auth", "istio",
           "certManager", "jobs"}

InBlock == [b \in Blocks |-> {Teardown[b][i] : i \in 1 .. Len(Teardown[b])}]

ASSUME UninstallerAssumption ==
    /\ MaxMissed \in Nat
    /\ MaxReapplies \in Nat
    /\ IstioPackages \subseteq Packages
    /\ Teardown \in [Blocks -> Seq(Packages)]
    /\ \A b \in Blocks : Len(Teardown[b]) > 0
    /\ Needs \in [Packages -> SUBSET Packages]
    /\ Settings \subseteq {"true", "false", "other"}

VARIABLES
    disableIstio,  \* DISABLE_ISTIO, the same as at the installation
    present,       \* the packages in the cluster
    rights,        \* the installer has its ClusterRoleBinding
    installerJob,  \* the Job kf-installer exists
    installerPod,  \* a pod of it runs
    reapplies,     \* what it has applied since the uninstallation began
    missed,        \* the packages in the cluster whose last delete failed
    phase,         \* where the pod of kf-uninstaller stands; "absent": no such Job
    pos,           \* the next package of the block
    failures,      \* the pods of kf-uninstaller that have failed
    wait,          \* where uninstall.sh stands
    jobsNs         \* the namespace of the jobs exists

installer == <<rights, installerJob, installerPod, reapplies>>
cluster   == <<present, missed>>
script    == <<phase, pos, failures>>
admin     == <<wait, jobsNs>>
vars      == <<disableIstio, installer, cluster, script, admin>>

Phases == Blocks \cup {"absent", "idle", "testEnv", "fetch", "installer",
                       "succeeded", "failed"}

PodRuns == phase \notin {"absent", "idle", "succeeded", "failed"}

Istio == disableIstio # "true"

Installed == IF Istio THEN Packages ELSE Packages \ IstioPackages

\* The packages that bring what p has instances of; with DISABLE_ISTIO the
\* cluster has kinds of its own.
Kinds(p) == (Needs[p] \ {p}) \cap Installed

-----------------------------------------------------------------------------
\* Kubeflow is installed, or the installer is still at it.
Init == /\ disableIstio \in Settings
        /\ rights = TRUE
        /\ installerJob = TRUE
        /\ installerPod \in BOOLEAN
        /\ present \in IF installerPod THEN {{}, Installed} ELSE {Installed}
        /\ reapplies = 0
        /\ missed = {}
        /\ phase = "absent"
        /\ pos = 1
        /\ failures = 0
        /\ wait = "none"
        /\ jobsNs = TRUE

Enter(b) == phase' = b /\ pos' = 1

\* The pod exits with a status other than 0; the Job has pods left, or not.
PodExits == /\ Enter(IF failures < BackoffLimit THEN "idle" ELSE "failed")
            /\ failures' = failures + 1

StartPod == /\ phase = "idle"
            /\ Enter("testEnv")
            /\ UNCHANGED <<disableIstio, installer, cluster, failures, admin>>

\* test_env_vars: the flag is "true" or "false", or the script exits 1.
TestEnvVars == /\ phase = "testEnv"
               /\ IF disableIstio = "other"
                  THEN PodExits
                  ELSE Enter("fetch") /\ UNCHANGED failures
               /\ UNCHANGED <<disableIstio, installer, cluster, admin>>

\* Where the script goes when a block is through.
\* (Fault: the installer is deleted after what it has installed.)
After_installerLast(b) ==
    CASE b = "fetch"       -> "prism"
      [] b = "installer"   -> "succeeded"
      [] b = "prism"       -> "services"
      [] b = "services"    -> IF Istio THEN "gateway" ELSE "knative"
      [] b = "gateway"     -> "knative"
      [] b = "knative"     -> "auth"
      [] b = "auth"        -> IF Istio THEN "istio" ELSE "certManager"
      [] b = "istio"       -> "certManager"
      [] b = "certManager" -> "jobs"
      [] b = "jobs"        -> "installer"

\* (Fault: istio goes before the authservices.)
After_istioFirst(b) ==
    CASE b = "fetch"       -> "installer"
      [] b = "installer"   -> "prism"
      [] b = "prism"       -> "services"
      [] b = "services"    -> IF Istio THEN "gateway" ELSE "knative"
      [] b = "gateway"     -> "knative"
      [] b = "knative"     -> IF Istio THEN "istio" ELSE "auth"
      [] b = "auth"        -> "certManager"
      [] b = "istio"       -> "auth"
      [] b = "certManager" -> "jobs"
      [] b = "jobs"        -> "succeeded"

After(b) ==
    CASE b = "fetch"       -> "installer"
      [] b = "installer"   -> "prism"
      [] b = "prism"       -> "services"
      [] b = "services"    -> IF Istio THEN "gateway" ELSE "knative"
      [] b = "gateway"     -> "knative"
      [] b = "knative"     -> "auth"
      [] b = "auth"        -> IF Istio THEN "istio" ELSE "certManager"
      [] b = "istio"       -> "certManager"
      [] b = "certManager" -> "jobs"
      [] b = "jobs"        -> "succeeded"

\* curl, mkdir and tar: the manifests are there, or the script exits 1.
Fetch == /\ phase = "fetch"
         /\ \/ Enter(After(phase)) /\ UNCHANGED failures
            \/ PodExits
         /\ UNCHANGED <<disableIstio, installer, cluster, admin>>

\* kustomize build installer | kubectl delete: the Job and its rights go, or
\* some of them stay.  The pods of a deleted Job have a grace period.
DeleteInstaller == /\ phase = "installer"
                   /\ rights' \in {rights, FALSE}
                   /\ installerJob' \in {installerJob, FALSE}
                   /\ Enter(After(phase))
                   /\ UNCHANGED <<disableIstio, installerPod, reapplies, cluster,
                                  failures, admin>>

\* (Fault: one package too many.)
Advance_pastEnd == /\ IF pos <= Len(Teardown[phase])
                      THEN phase' = phase /\ pos' = pos + 1
                      ELSE Enter(After(phase))
                   /\ UNCHANGED failures

Advance == /\ IF pos < Len(Teardown[phase]) THEN phase' = phase /\ pos' = pos + 1
                                            ELSE Enter(After(phase))
           /\ UNCHANGED failures

Current == Teardown[phase][pos]

\* kustomize build ... | kubectl delete -f -.  Of a package that is not there
\* kubectl says "not found", and the script goes on as if it had been there.
\* (Fault: it does not go on.)
DeleteSucceeds_onlyIfThere == /\ phase \in Blocks
                              /\ Current \in present
                              /\ present' = present \ {Current}
                              /\ missed' = missed \ {Current}
                              /\ Advance
                              /\ UNCHANGED <<disableIstio, installer, admin>>

DeleteSucceeds == /\ phase \in Blocks
                  /\ present' = present \ {Current}
                  /\ missed' = missed \ {Current}
                  /\ Advance
                  /\ UNCHANGED <<disableIstio, installer, admin>>

DeleteFails == /\ phase \in Blocks
               /\ Current \in present
               /\ Cardinality(missed \cup {Current}) <= MaxMissed
               /\ missed' = missed \cup {Current}
               /\ Advance
               /\ UNCHANGED <<disableIstio, installer, present, admin>>

\* timeout -s SIGINT 4m: the delete under way may be done or not, and
\* delete_kf_services begins anew.
TimesOut == /\ phase = "services"
            /\ \/ UNCHANGED cluster
               \/ present' = present \ {Current} /\ missed' = missed \ {Current}
            /\ Enter("services")
            /\ UNCHANGED <<disableIstio, installer, failures, admin>>

\* The pod is evicted or killed.
PodDies == /\ PodRuns
           /\ PodExits
           /\ UNCHANGED <<disableIstio, installer, cluster, admin>>

-----------------------------------------------------------------------------
\* The installer's pod applies a package: its kinds must be there.
InstallerApplies == /\ installerPod /\ rights
                    /\ reapplies < MaxReapplies
                    /\ reapplies' = reapplies + 1
                    /\ \E p \in Installed :
                          /\ Kinds(p) \subseteq present
                          /\ present' = present \cup {p}
                          /\ missed' = missed \ {p}
                    /\ UNCHANGED <<disableIstio, rights, installerJob, installerPod,
                                   script, admin>>

\* It ends, and a Job that is still there may start another one.
InstallerPodTurns == /\ installerPod \/ installerJob
                     /\ installerPod' = ~installerPod
                     /\ UNCHANGED <<disableIstio, rights, installerJob, reapplies,
                                    cluster, script, admin>>

-----------------------------------------------------------------------------
\* uninstall.sh, for the first time or again: kubectl apply creates the Job,
\* or leaves the one that is there, run or not, as it is.
RunUninstall == /\ wait \in {"none", "error"}
                /\ phase = "absent"
                /\ wait' = "waiting"
                /\ Enter("idle")
                /\ failures' = 0
                /\ UNCHANGED <<disableIstio, installer, cluster, jobsNs>>

RunAgain == /\ wait = "error"
            /\ phase # "absent"
            /\ wait' = "waiting"
            /\ UNCHANGED <<disableIstio, installer, cluster, script, jobsNs>>

\* kubectl wait sees the Job complete: its Job and the namespace are deleted.
\* (Fault: it is not asked how the Job ended.)
CleanUp_anyEnd == /\ wait = "waiting"
                  /\ phase \in {"succeeded", "failed"}
                  /\ wait' = "cleaned"
                  /\ jobsNs' = FALSE
                  /\ installerJob' = FALSE
                  /\ UNCHANGED <<disableIstio, rights, installerPod, reapplies, cluster,
                                 script>>

CleanUp == /\ wait = "waiting"
           /\ phase = "succeeded"
           /\ wait' = "cleaned"
           /\ jobsNs' = FALSE
           /\ installerJob' = FALSE
           /\ UNCHANGED <<disableIstio, rights, installerPod, reapplies, cluster, script>>

\* One of the two deletes fails, and set -e ends the script: the Job may be
\* gone, its namespace is not.
CleanUpFails == /\ wait = "waiting"
                /\ phase = "succeeded"
                /\ wait' = "error"
                /\ phase' \in {phase, "absent"}
                /\ UNCHANGED <<disableIstio, installer, cluster, pos, failures, jobsNs>>

\* kubectl wait gives up after 10 minutes.
WaitTimesOut == /\ wait = "waiting"
                /\ wait' = "error"
                /\ UNCHANGED <<disableIstio, installer, cluster, script, jobsNs>>

ScriptStep == \/ TestEnvVars \/ Fetch \/ DeleteInstaller
              \/ DeleteSucceeds \/ DeleteFails

Next == \/ StartPod
        \/ ScriptStep
        \/ TimesOut
        \/ PodDies
        \/ InstallerApplies
        \/ InstallerPodTurns
        \/ RunUninstall \/ RunAgain
        \/ CleanUp \/ CleanUpFails
        \/ WaitTimesOut

Spec == Init /\ [][Next]_vars

\* The pods are scheduled and go on, and at last the deletes of
\* delete_kf_services take less than 4 minutes together.
Fairness == /\ WF_vars(RunUninstall)
            /\ WF_vars(StartPod \/ ScriptStep)
            /\ <>[][~TimesOut]_vars

FairSpec == Spec /\ Fairness

-----------------------------------------------------------------------------
(* What the repository's lists satisfy, and the properties below rest on.  *)

\* The lists forget no package that the setting installs.
Covered == \A p \in Packages : \E b \in Blocks :
              p \in InBlock[b] /\ (b \in {"gateway", "istio"} => p \in IstioPackages)

\* The order of the blocks.
Order == [b \in Phases |->
    CASE b = "prism" -> 1
      [] b = "services" -> 2
      [] b = "gateway" -> 3
      [] b = "knative" -> 4
      [] b = "auth" -> 5
      [] b = "istio" -> 6
      [] b = "certManager" -> 7
      [] b = "jobs" -> 8
      [] b = "succeeded" -> 9
      [] OTHER -> 0]

\* The lists delete the instances of a kind before the kind.
InstancesFirst ==
    \A b, c \in Blocks : \A i \in 1 .. Len(Teardown[b]), j \in 1 .. Len(Teardown[c]) :
       /\ Teardown[c][j] \in Needs[Teardown[b][i]]
       /\ Teardown[c][j] # Teardown[b][i]
       => Order[b] < Order[c] \/ (b = c /\ i < j)

-----------------------------------------------------------------------------
\* The values every variable may take.
TypeOK == /\ disableIstio \in Settings
          /\ present \subseteq Installed
          /\ rights \in BOOLEAN
          /\ installerJob \in BOOLEAN
          /\ installerPod \in BOOLEAN
          /\ reapplies \in 0 .. MaxReapplies
          /\ missed \subseteq present
          /\ phase \in Phases
          /\ pos \in Nat \ {0}
          /\ phase \in Blocks => pos <= Len(Teardown[phase])
          /\ failures \in 0 .. (BackoffLimit + 1)
          /\ wait \in {"none", "waiting", "error", "cleaned"}
          /\ jobsNs \in BOOLEAN

\* The uninstaller's exit 0 says nothing of itself, since no status is looked
\* at.  But if the installer has lost its rights, whatever is left in the
\* cluster is what a delete failed on: the installer, which may have run
\* beside the whole script, has brought nothing back, and the script has
\* forgotten no package (entrypoint.sh 114-149).
LeftIsMissed == phase = "succeeded" /\ ~rights => present \subseteq missed

\* As long as the installer does not interfere, a package loses the kinds it
\* is made of only after it is deleted itself, or after its delete failed;
\* also when delete_kf_services is begun anew (entrypoint.sh 60-147).
KindsOutlastInstances ==
    reapplies = 0 => \A p \in present \ missed : Kinds(p) \subseteq present

\* A failed uninstallation is final: however often uninstall.sh is run, the
\* failed Job stays, nothing more is deleted, and the namespace of the jobs
\* is not removed (uninstall.sh 12-19).
FailedIsFinal ==
    [][phase = "failed" => /\ phase' = "failed"
                           /\ jobsNs' = jobsNs
                           /\ present \subseteq present']_vars

\* However many deletes fail, the script comes to an end (no `set -e', and no
\* loop but the one on the 4 minutes).
UninstallEnds == <>(phase \in {"succeeded", "failed"})

=============================================================================
