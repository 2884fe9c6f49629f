------------------------------ MODULE KubeJob ------------------------------
(***************************************************************************)
(* The part of a Kubernetes batch Job that the bootstrap jobs rely on.     *)
(* Their manifests (bootstrap/components/*/job.yaml) set                   *)
(* restartPolicy: Never and leave parallelism, completions and             *)
(* backoffLimit at their defaults, so a failed pod is never restarted: the *)
(* controller starts a new pod, which runs the script from its first line, *)
(* until one pod exits 0 or more than BackoffLimit pods have failed.       *)
(*                                                                         *)
(* A pod whose node is lost counts as failed and is replaced, but its      *)
(* process may go on: two pods of one Job can then run the same script at  *)
(* the same time.                                                          *)
(*                                                                         *)
(* A pod is a record with at least the fields pc (where its script stands) *)
(* and lost (its node was given up).  `pods' is a function from the pods   *)
(* the Job may ever start, 1 .. BackoffLimit + 1, to these records.        *)
(***************************************************************************)
EXTENDS Naturals, FiniteSets

CONSTANT BackoffLimit      \* spec.backoffLimit of the Job (6 by default)

ASSUME BackoffLimitAssumption == BackoffLimit \in Nat

Pods == 1 .. (BackoffLimit + 1)

Idle(pod)    == pod.pc = "idle"
Ended(pod)   == pod.pc \in {"succeeded", "failed"}
Running(pod) == ~Idle(pod) /\ ~Ended(pod)

\* The controller sees one pod at a time run: the others are done or given up.
JobComplete(pods) == \E p \in Pods : pods[p].pc = "succeeded" /\ ~pods[p].lost

Failures(pods) == {p \in Pods : pods[p].pc = "failed" \/ pods[p].lost}

JobFailed(pods) == /\ ~JobComplete(pods)
                   /\ Failures(pods) = Pods

JobOver(pods) == JobComplete(pods) \/ JobFailed(pods)

\* The pods are numbered in the order the controller starts them.
MayStart(pods, p) == /\ Idle(pods[p])
                     /\ \A q \in 1 .. (p - 1) : q \in Failures(pods)
=============================================================================
