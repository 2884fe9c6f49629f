--------------------------- MODULE PodsValidator ---------------------------
(***************************************************************************)
(* utils/pods-validator.py: is Kubeflow up?  The pods of three namespaces  *)
(* are listed, one namespace after the other while the cluster goes on;    *)
(* each good pod strikes out the first template that its name begins with; *)
(* the exit code is the number of the templates that are left.             *)
(*                                                                         *)
(* A pod belongs to a workload, which is written as its name with a dash:  *)
(* the template of it, when it has one.                                    *)
(***************************************************************************)
EXTENDS Naturals, Sequences, FiniteSets, SequencesExt

CONSTANTS
    Pods,          \* the pods that may be there
    Workload,      \* for each pod, the workload that made it
    Namespace,     \* for each pod, its namespace
    MaxPodChanges  \* bound: the changes of pods while the program runs

ASSUME PodsAssumption == IsFiniteSet(Pods)

VARIABLES
    pods,      \* pods: the status of each pod
    listed,    \* how many of the namespaces have been listed
    queue,     \* the pods of those lists that are still to be looked at
    left,      \* pods_templates
    exit,      \* the exit code
    good,      \* the pods that were good when they were listed (history)
    podChanges

podVars == <<pods, listed, queue, left, exit, good, podChanges>>

Running == 1000   \* no exit code yet

\* pods_templates: one is the beginning of others.
Generic  == "ml-pipeline-"
Specific == << "ml-pipeline-ml-pipeline-visualizationserver-",
    "ml-pipeline-persistenceagent-", "ml-pipeline-scheduledworkflow-",
    "ml-pipeline-ui-", "ml-pipeline-viewer-controller-deployment-" >>

BeforePipelines ==
    << "authservice-", "cluster-local-", "istio-citadel-", "istio-galley-",
       "istio-ingressgateway-", "istio-nodeagent-", "istio-pilot-", "istio-policy-",
       "istio-security-post-install-", "istio-sidecar-injector-", "istio-telemetry-",
       "kfserving-ingressgateway-", "prometheus-", "admission-webhook-deployment-",
       "application-controller-stateful-set-", "argo-ui-", "centraldashboard-",
       "jupyter-web-app-deployment-", "katib-controller-", "katib-db-manager-",
       "katib-mysql-", "katib-ui-", "kfserving-controller-manager-", "minio-" >>
AfterPipelines ==
    << "mysql-", "notebook-controller-deployment-", "profiles-deployment-",
       "pytorch-operator-", "seldon-controller-manager-", "spartakus-volunteer-",
       "tf-job-operator-", "workflow-controller-", "dex-" >>

\* The short one stands behind those that begin with it.  (Fault: before them.)
Templates_genericFirst == BeforePipelines \o <<Generic>> \o Specific \o AfterPipelines

Templates == BeforePipelines \o Specific \o <<Generic>> \o AfterPipelines

Namespaces == << "istio-system", "kubeflow", "auth" >>

\* The workloads of the manifests whose names begin with the template of another:
\* some have a template of their own, and some have none.
Unlisted == {"ml-pipeline-visualizationserver-", "ml-pipeline-viewer-crd-",
             "minio-console-", "dex-authenticator-"}
Longer ==
    { <<w, Generic>> : w \in ToSet(Specific) \cup {"ml-pipeline-visualizationserver-",
                                                 "ml-pipeline-viewer-crd-"} }
    \cup { <<"minio-console-", "minio-">>, <<"dex-authenticator-", "dex-">> }

\* name.startswith(template).
StartsWith(workload, template) ==
    workload = template \/ <<workload, template>> \in Longer

\* Of the containers that run only the first is asked.  (A pod with a second
\* one that is not ready is "Sidecar".)
Statuses == {"Absent", "Pending", "Sidecar", "Ready", "Succeeded"}
Good(status) == status \in {"Sidecar", "Ready", "Succeeded"}

PodsInit == /\ pods \in [Pods -> Statuses]
            /\ listed = 0 /\ queue = << >> /\ left = Templates
            /\ exit = Running /\ good = {} /\ podChanges = 0

\* list_namespaced_pod of the next namespace, in whatever order the pods come.
List ==
    /\ exit = Running /\ listed < Len(Namespaces)
    /\ LET there == {p \in Pods : /\ Namespace[p] = Namespaces[listed + 1]
                                  /\ pods[p] # "Absent"}
       IN /\ \E order \in SetToSeqs(there) :
                queue' = queue \o [i \in DOMAIN order |->
                                      [pod |-> order[i], status |-> pods[order[i]]]]
          /\ good' = good \cup {p \in there : Good(pods[p])}
    /\ listed' = listed + 1
    /\ UNCHANGED <<pods, left, exit, podChanges>>

\* A call that fails ends the program with the code of an exception.
ListFails == /\ exit = Running /\ listed < Len(Namespaces)
             /\ exit' = 1
             /\ UNCHANGED <<pods, listed, queue, left, good, podChanges>>

\* The loop over the pods.
Look ==
    /\ exit = Running /\ listed = Len(Namespaces) /\ queue # << >>
    /\ LET hits == {i \in DOMAIN left : StartsWith(Workload[Head(queue).pod], left[i])}
       IN left' = IF Good(Head(queue).status) /\ hits # {}
                  THEN RemoveAt(left, CHOOSE i \in hits : \A j \in hits : i <= j)
                  ELSE left
    /\ queue' = Tail(queue)
    /\ UNCHANGED <<pods, listed, exit, good, podChanges>>

Exit == /\ exit = Running /\ listed = Len(Namespaces) /\ queue = << >>
        /\ exit' = Len(left)
        /\ UNCHANGED <<pods, listed, queue, left, good, podChanges>>

\* The cluster goes on.
PodChanges == /\ exit = Running /\ podChanges < MaxPodChanges
              /\ \E p \in Pods, s \in Statuses : pods' = [pods EXCEPT ![p] = s]
              /\ podChanges' = podChanges + 1
              /\ UNCHANGED <<listed, queue, left, exit, good>>

PodsNext == List \/ ListFails \/ Look \/ Exit \/ PodChanges

PodsSpec == PodsInit /\ [][PodsNext]_podVars

-----------------------------------------------------------------------------
\* The workloads without a pod that was good when its namespace was listed.
Missing == ToSet(Templates) \ {Workload[p] : p \in good}

\* A good pod that may have struck out the template of another workload: it has no
\* template of its own, or a second pod of its workload is good as well.
PassedFor(t) ==
    \E p \in good : /\ <<Workload[p], t>> \in Longer
                   /\ \/ Workload[p] \in Unlisted
                      \/ \E q \in good \ {p} : Workload[q] = Workload[p]

\* Whatever order the pods come in, no workload is reported that has a good pod;
\* every workload without one is reported, unless a pod passed for it whose name
\* begins alike and was not needed for a template of its own.  A failed call never
\* passes for a cluster that is up (pods-validator.py 49-64).
VerdictIsRight ==
    exit # Running =>
       IF listed < Len(Namespaces) THEN exit # 0
       ELSE /\ exit = Len(left)
            /\ ToSet(left) \subseteq Missing
            /\ \A t \in Missing \ ToSet(left) : PassedFor(t)

=============================================================================
