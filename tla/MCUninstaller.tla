--------------------------- MODULE MCUninstaller ---------------------------
(* The uninstaller with the repository's lists, less the packages that are  *)
(* like another one: enough that every block has one, and every dependency  *)
(* within and between blocks is there.                                      *)
EXTENDS Uninstaller, Manifests

MCPackages == InstalledPackages \cap
    { "prism", "seldon", "application-crds", "user-namespace", "profiles",
      "minio-console", "pipelines", "kubeflow-base", "cluster-local-gateway",
      "knative-serving", "dex", "istio-install", "istio-crds",
      "cert-manager", "cert-manager-crds", "minio-config" }

MCTeardown == [b \in Blocks |-> SelectSeq(UninstallTeardown[b],
                                          LAMBDA p : p \in MCPackages)]

MCNeeds == [p \in MCPackages |-> UninstallNeeds[p] \cap MCPackages]

MCIstio == IstioOnly \cap MCPackages

\* The lists forget nothing and delete instances before kinds: those of the
\* run, and the whole ones.
Whole == INSTANCE Uninstaller WITH Packages <- InstalledPackages,
            IstioPackages <- IstioOnly, Teardown <- UninstallTeardown,
            Needs <- UninstallNeeds

ASSUME ListsAssumption == /\ Covered /\ Whole!Covered
                          /\ InstancesFirst /\ Whole!InstancesFirst

MCSettings == {"false", "true", "other"}
=============================================================================
