---------------------------- MODULE MCBootstrap ----------------------------
(* The bootstrap with one package for each block of the installer, and the *)
(* two of the minio block; prism and knative need a definition of their    *)
(* own, everything behind Istio needs Istio's.                             *)
EXTENDS Bootstrap

MCChain == [ jobs                |-> << "minio-config" >>,
             certManager         |-> << "cert-manager" >>,
             istio               |-> << "istio-crds" >>,
             authservices        |-> << "dex" >>,
             knative             |-> << "knative-serving" >>,
             clusterLocalGateway |-> << "cluster-local-gateway" >>,
             head                |-> << "pipelines" >>,
             minio               |-> << "minio", "minio-console" >>,
             middle              |-> << "katib" >>,
             dashboard           |-> << "centraldashboard" >>,
             dashboardNoLink     |-> << "centraldashboard-no-notebooks" >>,
             tail                |-> << "profiles" >>,
             prism               |-> << "prism" >>,
             patch               |-> << "hpecpconfig-patch" >> ]

MCPackages == UNION {{MCChain[b][i] : i \in DOMAIN MCChain[b]} : b \in DOMAIN MCChain}

MCNeeds == [p \in MCPackages |->
                CASE p = "prism" -> {"prism"}
                  [] p \in {"dex", "pipelines", "minio", "katib", "profiles"} -> {"istio-crds"}
                  [] OTHER -> {}]

MCSettings == {<<"false", "false">>, <<"true", "true">>}
=============================================================================
