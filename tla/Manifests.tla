----------------------------- MODULE Manifests -----------------------------
(***************************************************************************)
(* The kustomize packages that bootstrap/components/installer/entrypoint.sh*)
(* applies, in the order of the script, and the custom resources that make *)
(* one package depend on another.                                          *)
(*                                                                         *)
(* Packages that stand next to each other in the script, and that no other *)
(* package depends on, are taken together under one name:                  *)
(*   kubeflow-base      kubeflow-namespace, the pull secret,               *)
(*                      kubeflow-roles, kubeflow-istio-resources           *)
(*   minio              third-party/minio overlays/ldap and options/istio  *)
(*   admission-webhook  admission-webhook, jupyter-web-app,                *)
(*                      notebook-controller                                *)
(*   workloads          volumes-web-app, tensorboard, tf, pytorch, mpi,    *)
(*                      mxnet, xgboost                                     *)
(***************************************************************************)

\* deploy_kf_services: the list up to pipelines, and the list that decides
\* whether the function succeeds.
HeadChain == << "kubeflow-base", "pipeline-cluster-scoped",
                "application-crd-established", "pipelines" >>

\* (Fault: user-namespace comes before profiles brings its definition.)
TailChain_userFirst == << "admission-webhook", "user-namespace", "workloads",
                          "profiles", "application-crds", "seldon" >>

TailChain == << "admission-webhook", "profiles", "workloads",
                "user-namespace", "application-crds", "seldon" >>

\* install() and the deploy_* functions, and the two jobs applied before them.
\* deploy_knative tries knative-serving twice before it returns; the caller
\* repeats the whole function, so one entry stands for both tries.
InstallChain ==
    [ jobs                |-> << "minio-config", "dex-secret-ldap" >>,
      certManager         |-> << "cert-manager-rbac", "cert-manager-crds",
                                 "cert-manager" >>,
      istio               |-> << "istio-crds", "istio-namespace", "istio-install" >>,
      authservices        |-> << "oidc-authservice", "dex" >>,
      knative             |-> << "knative-serving", "knative-eventing",
                                 "eventing-pull-secret" >>,
      clusterLocalGateway |-> << "cluster-local-gateway" >>,
      head                |-> HeadChain,
      minio               |-> << "minio", "minio-console" >>,
      middle              |-> << "kfserving", "katib" >>,
      dashboard           |-> << "centraldashboard" >>,
      dashboardNoLink     |-> << "centraldashboard-no-notebooks" >>,
      tail                |-> TailChain,
      prism               |-> << "prism" >>,
      patch               |-> << "hpecpconfig-patch" >> ]

InstallPackages == UNION { {InstallChain[b][i] : i \in DOMAIN InstallChain[b]} :
                           b \in DOMAIN InstallChain }

\* The packages whose CustomResourceDefinitions a package's resources are
\* instances of.  A package that needs itself brings a definition and an
\* instance of it: kubectl cannot map the instance in the first apply
\* (the Image of knative, CompositeController, HPECPModelDefault).
InstallNeeds ==
    LET Certificates == {"cert-manager", "kfserving", "katib",
                         "admission-webhook", "seldon"}
        Networking   == {"istio-install", "oidc-authservice", "dex",
                         "knative-serving", "cluster-local-gateway",
                         "kubeflow-base", "pipelines", "minio", "katib",
                         "centraldashboard", "centraldashboard-no-notebooks",
                         "admission-webhook", "profiles", "workloads"}
        Itself       == {"knative-serving", "pipelines", "prism"}
        Only(s, p)   == IF s THEN {p} ELSE {}
    IN [p \in InstallPackages |->
           Only(p \in Certificates, "cert-manager-crds")
             \cup Only(p \in Networking, "istio-crds")
             \cup Only(p = "application-crd-established", "pipeline-cluster-scoped")
             \cup Only(p = "user-namespace", "profiles")
             \cup Only(p = "seldon", "application-crds")
             \cup Only(p \in Itself, p)]

-----------------------------------------------------------------------------
(* bootstrap/components/uninstaller/entrypoint.sh.  The two dashboards have *)
(* the same resources, and go by the name of the first.                     *)

\* delete_kf_services, from line 63 on.
ServicesTeardown ==
    << "seldon", "application-crds", "user-namespace", "workloads", "profiles",
       "admission-webhook", "centraldashboard", "katib", "kfserving",
       "minio-console", "minio", "pipelines", "pipeline-cluster-scoped",
       "kubeflow-base" >>

\* The blocks of the script, and what each deletes, in order.
UninstallTeardown ==
    [ prism       |-> << "hpecpconfig-patch", "prism" >>,
      services    |-> ServicesTeardown,
      gateway     |-> << "cluster-local-gateway" >>,
      knative     |-> << "knative-eventing", "eventing-pull-secret", "knative-serving" >>,
      auth        |-> << "dex", "oidc-authservice" >>,
      istio       |-> << "istio-install", "istio-namespace", "istio-crds" >>,
      certManager |-> << "cert-manager", "cert-manager-crds", "cert-manager-rbac" >>,
      jobs        |-> << "dex-secret-ldap", "minio-config" >> ]

\* What an installation leaves in the cluster: application-crd-established is
\* a wait, not a package.
InstalledPackages ==
    InstallPackages \ {"application-crd-established", "centraldashboard-no-notebooks"}

IstioOnly == {"istio-crds", "istio-namespace", "istio-install",
              "cluster-local-gateway"}

\* A package that needs a wait needs what is waited for.
UninstallNeeds == [p \in InstalledPackages |-> InstallNeeds[p] \cap InstalledPackages]
=============================================================================
