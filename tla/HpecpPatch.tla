----------------------------- MODULE HpecpPatch -----------------------------
(***************************************************************************)
(* bootstrap/components/hpecpconfig-patch: the Job that announces the      *)
(* dashboard in the cluster's HPECPConfig.  The script reads the names in  *)
(* spec.tenantServiceImports, and if none of them contains "kf-dashboard"  *)
(* appends an entry by a JSON patch.  Between the two calls the list may   *)
(* change: the administrator edits it, or another pod of the Job patches.  *)
(***************************************************************************)
EXTENDS KubeJob, Sequences, SequencesExt

CONSTANTS Names,     \* the importNames that may be in the list
          Alike,     \* those that contain "kf-dashboard"
          NoList,    \* the HPECPConfig has no spec.tenantServiceImports
          MaxEdits   \* bound on the edits of the administrator

ASSUME HpecpPatchAssumption ==
    /\ MaxEdits \in Nat
    /\ Alike \subseteq Names
    /\ "kf-dashboard" \in Alike
    /\ NoList \notin Seq(Names)

VARIABLES
    imports,  \* the importNames of spec.tenantServiceImports, in order
    edits,    \* how often the administrator has edited them
    pods      \* the pods of the Job: [pc, lost]

vars == <<imports, edits, pods>>

List == IF imports = NoList THEN << >> ELSE imports

\* grep -q kf-dashboard
Mentioned == \E i \in DOMAIN List : List[i] \in Alike

Own == {i \in DOMAIN List : List[i] = "kf-dashboard"}

-----------------------------------------------------------------------------
NewPod == [pc |-> "idle", lost |-> FALSE]

\* A fresh cluster, one with imports of others, or one that had Kubeflow
\* before: the uninstaller does not take the entry out.
Init == /\ imports \in {NoList, << >>} \cup {<<n>> : n \in Names}
        /\ edits = 0
        /\ pods = [p \in Pods |-> NewPod]

Goto(p, label) == pods' = [pods EXCEPT ![p].pc = label]

\* The Job controller starts a pod, for the first time or after a failure.
StartPod(p) == /\ ~JobComplete(pods)
               /\ MayStart(pods, p)
               /\ Goto(p, "check")
               /\ UNCHANGED <<imports, edits>>

\* kubectl get and grep: "Patch not needed", or the patch comes next.
\* (Fault: the entry is not looked for.)
CheckImports_skipped(p) == /\ pods[p].pc = "check"
                           /\ Goto(p, "patch")
                           /\ UNCHANGED <<imports, edits>>

CheckImports(p) == /\ pods[p].pc = "check"
                   /\ Goto(p, IF Mentioned THEN "succeeded" ELSE "patch")
                   /\ UNCHANGED <<imports, edits>>

\* kubectl patch --type json: the API server appends to the list of that
\* moment.  The reply may be lost after the patch is stored.
\* (Faults: the entry has the target's name; --type merge, which puts a new
\* list in the place of the old.)
PatchImports_target(p) == /\ pods[p].pc = "patch"
                          /\ imports # NoList
                          /\ imports' = Append(imports, "istio-ingressgateway")
                          /\ \E label \in {"succeeded", "failed"} : Goto(p, label)
                          /\ UNCHANGED edits

PatchImports_merge(p) == /\ pods[p].pc = "patch"
                         /\ imports # NoList
                         /\ imports' = << "kf-dashboard" >>
                         /\ \E label \in {"succeeded", "failed"} : Goto(p, label)
                         /\ UNCHANGED edits

PatchImports(p) == /\ pods[p].pc = "patch"
                   /\ imports # NoList
                   /\ imports' = Append(imports, "kf-dashboard")
                   /\ \E label \in {"succeeded", "failed"} : Goto(p, label)
                   /\ UNCHANGED edits

\* There is no list to append to: the path of the patch does not exist.
\* (Fault: no set -e, and the script says "Patch applied".)
PatchRejected_goesOn(p) == /\ pods[p].pc = "patch"
                           /\ imports = NoList
                           /\ Goto(p, "succeeded")
                           /\ UNCHANGED <<imports, edits>>

PatchRejected(p) == /\ pods[p].pc = "patch"
                    /\ imports = NoList
                    /\ Goto(p, "failed")
                    /\ UNCHANGED <<imports, edits>>

\* A call fails without effect, or the pod dies.
PodFails(p) == /\ Running(pods[p])
               /\ Goto(p, "failed")
               /\ UNCHANGED <<imports, edits>>

\* The node stops answering: the controller gives the pod up, its process runs on.
NodeLost(p) == /\ Running(pods[p])
               /\ ~pods[p].lost
               /\ pods' = [pods EXCEPT ![p].lost = TRUE]
               /\ UNCHANGED <<imports, edits>>

\* The administrator adds an import, removes one, or gives the cluster a list.
EditImports == /\ edits < MaxEdits
               /\ edits' = edits + 1
               /\ \/ \E n \in Names : imports' = Append(List, n)
                  \/ \E i \in DOMAIN List : imports' = RemoveAt(List, i)
               /\ UNCHANGED pods

PodStep(p) == \/ CheckImports(p)
              \/ PatchImports(p)
              \/ PatchRejected(p)

Next == \/ \E p \in Pods : \/ StartPod(p)
                           \/ PodStep(p)
                           \/ PodFails(p)
                           \/ NodeLost(p)
        \/ EditImports

Spec == Init /\ [][Next]_vars

-----------------------------------------------------------------------------
\* The values every variable may take.
TypeOK == /\ imports \in Seq(Names) \cup {NoList}
          /\ edits \in 0 .. MaxEdits
          /\ pods \in [Pods -> [pc   : {"idle", "check", "patch", "succeeded", "failed"},
                                lost : BOOLEAN]]

\* Every kf-dashboard beyond the first has cost a lost node or an edit: a pod
\* that has failed, however late and whether its patch was stored or not,
\* does not make the next one append again (entrypoint.sh 4-8).
DuplicatesAreExplained ==
    Cardinality(Own) <= 1 + edits + Cardinality({p \in Pods : pods[p].lost})

\* No pod takes an import of somebody else out, or moves it, also if the list
\* has changed since the pod has read it (entrypoint.sh 8-12).
OthersKept ==
    [][\A p \in Pods : PodStep(p) => imports' = imports \/ IsPrefix(List, List')]_vars

\* As long as nobody edits the list, a Job that is complete has seen to it
\* that the list mentions the dashboard (entrypoint.sh 2-28).
SuccessIsMention == edits = 0 /\ JobComplete(pods) => Mentioned

=============================================================================
