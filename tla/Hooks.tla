------------------------------- MODULE Hooks -------------------------------
(***************************************************************************)
(* The three programs sync.py that the repository has for one webhook: of  *)
(* apps/pipeline, of apps/kfp-tekton, and of distributions/stacks/         *)
(* openshift.  A program is a record:                                      *)
(*   env       what it reads from its environment when it starts           *)
(*   enabledBy the values of the namespace's label that enable it ("" is   *)
(*             no label)                                                   *)
(*   children  what it wants in an enabled namespace, as kind and name     *)
(*   counts    how many children of a kind it takes for a ready namespace  *)
(*   secret    the name under which it copies MinIO's credentials          *)
(***************************************************************************)
EXTENDS Naturals, FiniteSets

Visualization == "ml-pipeline-visualizationserver"
Artifact      == "ml-pipeline-ui-artifact"
Metadata      == <<"ConfigMap", "metadata-grpc-configmap">>

Server(name) == {<<"Deployment", name>>, <<"Service", name>>}

\* childResources of the CompositeController, which apps/pipeline and
\* apps/kfp-tekton have alike: the kinds whose children are observed.
Declared == {"Secret", "ConfigMap", "Deployment", "Service",
             "DestinationRule", "AuthorizationPolicy"}

\* updateStrategy: the kinds of which an existing child is brought up to date.
\* (Fault: deployments are left alone, as secrets are.)
InPlace_noDeployments == {"Service", "DestinationRule", "AuthorizationPolicy"}
InPlace_secrets == {"Deployment", "Service", "DestinationRule",
                    "AuthorizationPolicy", "Secret"}
InPlace == {"Deployment", "Service", "DestinationRule", "AuthorizationPolicy"}

Labels == {"", "true", "false", "other"}

-----------------------------------------------------------------------------
(* apps/pipeline                                                           *)

PipelinesEnv == {"KFP_VERSION", "MINIO_ACCESS_KEY", "MINIO_SECRET_KEY",
                 "MINIO_HOST", "MINIO_PORT", "MINIO_SECURE", "airgapRegistry"}

\* deployment.yaml: what its container finds there.
PipelinesPod == {"KFP_VERSION", "MINIO_ACCESS_KEY", "MINIO_SECRET_KEY", "MINIO_HOST",
                 "MINIO_PORT", "MINIO_SECURE", "airgapRegistry", "DISABLE_ISTIO_SIDECAR"}

PipelinesEnabledBy == {"true"}

PipelinesCounts ==
    [k \in Declared |-> IF k \in {"Deployment", "Service"} THEN 2 ELSE 1]

PipelinesVisualization == Server(Visualization) \cup
    {<<"DestinationRule", Visualization>>, <<"AuthorizationPolicy", Visualization>>}

PipelinesArtifact == Server(Artifact)

PipelinesRoles == {<<"Role", "workflow-role">>,
                   <<"RoleBinding", "workflow-default-binding">>}

Pipelines ==
    [ env       |-> PipelinesEnv,
      enabledBy |-> PipelinesEnabledBy,
      secret    |-> "minio-params",
      counts    |-> PipelinesCounts,
      children  |-> {Metadata, <<"Secret", "minio-params">>}
                      \cup PipelinesVisualization \cup PipelinesArtifact
                      \cup PipelinesRoles ]

-----------------------------------------------------------------------------
(* apps/kfp-tekton: the older secret, no addresses of MinIO, no roles.     *)

TektonEnv == {"KFP_VERSION", "MINIO_ACCESS_KEY", "MINIO_SECRET_KEY"}

TektonPod == {"KFP_VERSION", "MINIO_ACCESS_KEY", "MINIO_SECRET_KEY", "DISABLE_ISTIO_SIDECAR"}

TektonEnabledBy == {"true"}

TektonCounts ==
    [k \in {"Secret", "ConfigMap", "Deployment", "Service", "DestinationRule",
            "AuthorizationPolicy"} |-> IF k \in {"Deployment", "Service"} THEN 2 ELSE 1]

TektonVisualization == Server(Visualization) \cup
    {<<"DestinationRule", Visualization>>, <<"AuthorizationPolicy", Visualization>>}

TektonArtifact == Server(Artifact)

Tekton ==
    [ env       |-> TektonEnv,
      enabledBy |-> TektonEnabledBy,
      secret    |-> "mlpipeline-minio-artifact",
      counts    |-> TektonCounts,
      children  |-> {Metadata, <<"Secret", "mlpipeline-minio-artifact">>}
                      \cup TektonVisualization \cup TektonArtifact ]

-----------------------------------------------------------------------------
(* distributions/stacks/openshift: Istio's older kinds, any label at all.  *)

OpenShiftEnv == {"KFP_VERSION", "MINIO_ACCESS_KEY", "MINIO_SECRET_KEY"}

OpenShiftEnabledBy == Labels \ {""}

OpenShiftCounts ==
    [k \in {"Secret", "ConfigMap", "Deployment", "Service", "DestinationRule",
            "ServiceRole", "ServiceRoleBinding"} |->
        IF k \in {"Deployment", "Service"} THEN 2 ELSE 1]

OpenShiftVisualization == Server(Visualization) \cup
    {<<k, Visualization>> : k \in {"DestinationRule", "ServiceRole", "ServiceRoleBinding"}}

OpenShiftArtifact == Server(Artifact)

OpenShift ==
    [ env       |-> OpenShiftEnv,
      enabledBy |-> OpenShiftEnabledBy,
      secret    |-> "mlpipeline-minio-artifact",
      counts    |-> OpenShiftCounts,
      children  |-> {Metadata, <<"Secret", "mlpipeline-minio-artifact">>}
                      \cup OpenShiftVisualization \cup OpenShiftArtifact ]

-----------------------------------------------------------------------------
\* A variable that is not set ends the program in its first lines.
Starts(program, pod) == program.env \subseteq pod

\* children[kind] of the request is there for the declared kinds only: with
\* any other kind in its counts sync() ends in a KeyError, and never answers.
Answers(program) == DOMAIN program.counts \subseteq Declared

\* The numbers that sync() compares with are those of its own children, and
\* every child that can be observed is counted.
CountsRight(program) ==
    /\ {c[1] : c \in program.children} \cap Declared \subseteq DOMAIN program.counts
    /\ \A k \in DOMAIN program.counts :
          Cardinality({c \in program.children : c[1] = k}) = program.counts[k]

\* What the theorems about ProfileController need is true of the two programs
\* that are deployed.  The third cannot answer under this CompositeController;
\* its kustomization has it commented out.
ASSUME HooksAssumption ==
    /\ \A program \in {Pipelines, Tekton} :
          Answers(program) /\ CountsRight(program)
    /\ \A program \in {Pipelines, Tekton, OpenShift} :
          program.enabledBy \subseteq Labels \ {""}
    /\ Starts(Pipelines, PipelinesPod) /\ Starts(Tekton, TektonPod)
    /\ ~Answers(OpenShift) /\ CountsRight(OpenShift)
=============================================================================
