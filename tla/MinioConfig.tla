---------------------------- MODULE MinioConfig ----------------------------
(***************************************************************************)
(* bootstrap/components/minio-config: the Job minio-config-generator reads *)
(* the secret with the parameters of an external MinIO, or falls back to   *)
(* the defaults of the MinIO that the installer brings, and creates the    *)
(* secret kubeflow/minio-params that the rest of Kubeflow reads.           *)
(*                                                                         *)
(* Every call to the API server is an action of its own; between two calls *)
(* the pod may crash, another pod may run, and the administrator may edit  *)
(* the external secret.                                                    *)
(***************************************************************************)
EXTENDS KubeJob

CONSTANTS RequiredFields,  \* the fields that entrypoint.py asks for
          Revisions,       \* tell two contents with the same fields apart
          NoSecret,        \* a secret that does not exist
          MaxEdits         \* bound on the edits of the external secret

ASSUME MinioConfigAssumption ==
    /\ MaxEdits \in Nat
    /\ "default" \notin Revisions
    /\ NoSecret \notin [fields : SUBSET RequiredFields,
                        rev : Revisions \cup {"default"}]

VARIABLES
    ext,          \* the external MinIO secret (kubeflow-minio/kubeflow-external-minio)
    edits,        \* how often the administrator has edited it
    seen,         \* history: every value that ext has had
    minioParams,  \* the secret kubeflow/minio-params
    pods          \* the pods of the Job: [pc, lost, data]

vars == <<ext, edits, seen, minioParams, pods>>

\* data of a secret: the required fields that are present and not empty.
Contents == [fields : SUBSET RequiredFields, rev : Revisions]

\* default_config.json has every required field.
Default == [fields |-> RequiredFields, rev |-> "default"]

Values == Contents \cup {Default}

Valid(content) == RequiredFields \subseteq content.fields

\* What a pod that reads e takes for the data of minio-params, if anything.
Usable(e) == e # NoSecret => Valid(e)

\* (Fault: the values of the default configuration are not base64-encoded.)
DataFor_plain(e) == IF e = NoSecret THEN [Default EXCEPT !.rev = "plain"] ELSE e

DataFor(e) == IF e = NoSecret THEN Default ELSE e

Offered == {DataFor(e) : e \in {x \in seen : Usable(x)}}

-----------------------------------------------------------------------------
NewPod == [pc |-> "idle", lost |-> FALSE, data |-> NoSecret]

Init == /\ ext \in Contents \cup {NoSecret}
        /\ edits = 0
        /\ seen = {ext}
        /\ minioParams = NoSecret
        /\ pods = [p \in Pods |-> NewPod]

Goto(p, label) == pods' = [pods EXCEPT ![p].pc = label]

\* The Job controller starts a pod, for the first time or after a failure.
StartPod(p) == /\ ~JobComplete(pods)
               /\ MayStart(pods, p)
               /\ Goto(p, "read")
               /\ UNCHANGED <<ext, edits, seen, minioParams>>

\* read_namespaced_secret, the check of every required field, and on a 404
\* the default configuration: the script goes on with the data it has read.
ReadExternal(p) == /\ pods[p].pc = "read"
                   /\ Usable(ext)
                   /\ pods' = [pods EXCEPT ![p].pc = "create",
                                           ![p].data = DataFor(ext)]
                   /\ UNCHANGED <<ext, edits, seen, minioParams>>

\* A required field is missing or empty: sys.exit.
\* (Fault: the script waits for the field.)
RejectExternal_waits(p) == /\ pods[p].pc = "read"
                           /\ ~Usable(ext)
                           /\ UNCHANGED vars

RejectExternal(p) == /\ pods[p].pc = "read"
                     /\ ~Usable(ext)
                     /\ Goto(p, "failed")
                     /\ UNCHANGED <<ext, edits, seen, minioParams>>

\* create_namespaced_secret finds no secret of that name.  The reply may be
\* lost after the API server has stored the secret: the script then exits 1.
CreateParams(p) == /\ pods[p].pc = "create"
                   /\ minioParams = NoSecret
                   /\ minioParams' = pods[p].data
                   /\ \E label \in {"succeeded", "failed"} : Goto(p, label)
                   /\ UNCHANGED <<ext, edits, seen>>

\* 409: the secret is there already, and the script exits 1.
\* (Faults: the conflict is taken for success; the secret is replaced.)
CreateConflict_accepted(p) == /\ pods[p].pc = "create"
                              /\ minioParams # NoSecret
                              /\ Goto(p, "succeeded")
                              /\ UNCHANGED <<ext, edits, seen, minioParams>>

CreateConflict_replaces(p) == /\ pods[p].pc = "create"
                              /\ minioParams # NoSecret
                              /\ minioParams' = pods[p].data
                              /\ Goto(p, "failed")
                              /\ UNCHANGED <<ext, edits, seen>>

CreateConflict(p) == /\ pods[p].pc = "create"
                     /\ minioParams # NoSecret
                     /\ Goto(p, "failed")
                     /\ UNCHANGED <<ext, edits, seen, minioParams>>

\* Either call fails without effect (any other ApiException), or the pod dies.
PodFails(p) == /\ Running(pods[p])
               /\ Goto(p, "failed")
               /\ UNCHANGED <<ext, edits, seen, minioParams>>

\* The node stops answering: the controller gives the pod up, its process runs on.
NodeLost(p) == /\ Running(pods[p])
               /\ ~pods[p].lost
               /\ pods' = [pods EXCEPT ![p].lost = TRUE]
               /\ UNCHANGED <<ext, edits, seen, minioParams>>

\* The administrator creates, edits or deletes the external secret.
EditExternal == /\ edits < MaxEdits
                /\ edits' = edits + 1
                /\ ext' \in (Contents \cup {NoSecret}) \ {ext}
                /\ seen' = seen \cup {ext'}
                /\ UNCHANGED <<minioParams, pods>>

PodStep(p) == \/ ReadExternal(p)
              \/ RejectExternal(p)
              \/ CreateParams(p)
              \/ CreateConflict(p)

Next == \/ \E p \in Pods : \/ StartPod(p)
                           \/ PodStep(p)
                           \/ PodFails(p)
                           \/ NodeLost(p)
        \/ EditExternal

Spec == Init /\ [][Next]_vars

\* A started pod is scheduled, and the Job controller keeps replacing pods.
Fairness == \A p \in Pods : WF_vars(StartPod(p)) /\ WF_vars(PodStep(p))

FairSpec == Spec /\ Fairness

-----------------------------------------------------------------------------
PodState == [pc : {"idle", "read", "create", "succeeded", "failed"},
             lost : BOOLEAN,
             data : Values \cup {NoSecret}]

\* The values every variable may take.
TypeOK == /\ ext \in Contents \cup {NoSecret}
          /\ edits \in 0 .. MaxEdits
          /\ seen \subseteq Contents \cup {NoSecret}
          /\ minioParams \in Values \cup {NoSecret}
          /\ pods \in [Pods -> PodState]

\* minio-params is never partial and never a mixture of two edits: it has
\* every required field, and it is the default configuration or what the
\* external secret was as a whole at one moment, even when that secret is
\* edited between the reading and the creating (entrypoint.py 32-66).
ParamsComplete ==
    minioParams # NoSecret =>
        /\ Valid(minioParams)
        /\ \/ minioParams \in seen
           \/ minioParams = Default /\ NoSecret \in seen

\* Of all the pods that run the script, overlapping or one after the other,
\* at most one exits 0, and what it wrote is what stands in minio-params:
\* exit 0 is never a claim about somebody else's write (entrypoint.py 54-68).
SuccessIsOwnWrite ==
    \A p \in Pods : pods[p].pc = "succeeded" =>
        /\ minioParams = pods[p].data
        /\ \A q \in Pods \ {p} : pods[q].pc # "succeeded"

\* A pod that fails after its create was stored is never made good by a
\* retry: from then on every create is a conflict, so no pod succeeds any
\* more and the Job ends as failed although minio-params is there
\* (entrypoint.py 54-66 has no answer to a 409).
NoLateSuccess ==
    [][minioParams # NoSecret =>
         \A p \in Pods : pods'[p].pc = "succeeded" => pods[p].pc = "succeeded"]_vars

\* The readers' view: minio-params is written once, with an offered value.
Promise == INSTANCE SecretOnce WITH secret <- minioParams, offered <- Offered
ImplementsSecretOnce == Promise!Spec

\* However often the external secret is rejected, a create is lost or a node
\* is, the Job comes to an end: a pod that has done its work, or all pods spent.
\* A lost pod that still runs cannot keep it open (entrypoint.py 32-68).
JobEnds == <>[](JobOver(pods))

=============================================================================
