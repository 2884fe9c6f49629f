------------------------------ MODULE MCTools ------------------------------
(* The programs that are run by hand, beside any installation: they share   *)
(* nothing, so that one of them is run while the others are at rest.        *)
EXTENDS ImageSearch, PodsValidator, Kptfile, KfdefSpecs, LegacyTests, TLC

VARIABLE tool   \* the program that is run

toolVars == <<tool, searchVars, podVars, kptVars, kfdefVars, legacyVars>>

-----------------------------------------------------------------------------
(* ImageSearch on all documents of some shapes: objects within objects and  *)
(* lists, four levels deep, with every kind of string.                      *)
Dict(f) == [t |-> "dict", fields |-> f]
ListOf(s) == [t |-> "list", items |-> s]
Json(v) == [t |-> "json", value |-> v]
Yaml(s) == [t |-> "yaml", images |-> s]
Name(n, tagged) == [t |-> "name", name |-> n, tagged |-> tagged]

Plainest == [t |-> "text"]
Tagged   == Name("a", TRUE)
Untagged == Name("b", FALSE)

\* An image, with a default version or without, and what is none.
ImageFields == { ("image" :> i) : i \in {Tagged, Untagged, [t |-> "other"],
                                         ListOf(<<Plainest>>)} }
                 \cup { ("image" :> i @@ "defaultImageVersion" :> Plainest) :
                        i \in {Tagged, Untagged} }

\* Strings and what is inside of them.
Strings == { Plainest, Tagged, Yaml(<<"c">>), Yaml(<<"c", "d">>),
             Json(Dict("image" :> Name("e", TRUE))),
             Json(Dict("spec" :> Dict("image" :> Name("e", TRUE)))),
             Json(ListOf(<< Dict("image" :> Name("e", TRUE)) >>)) }

Leaves == { Dict(f) : f \in ImageFields } \cup Strings \cup {[t |-> "other"]}

\* A level more: as a field next to an image, or in a list.
Around(values) == { Dict("x" :> v) : v \in values }
                    \cup { Dict("x" :> v @@ "image" :> Tagged) : v \in values }
Listed(values) == { ListOf(<<v>>) : v \in values }
                    \cup { ListOf(<<v, Dict("image" :> Name("f", TRUE))>>) : v \in values }

One   == Around(Leaves) \cup Listed(Leaves)
Two   == Around(One) \cup Listed(One)
Three == Around(Two)

MCDocuments == {d \in Leaves \cup One \cup Two \cup Three \cup Around(Three) :
                   d.t = "dict"}

-----------------------------------------------------------------------------
\* PodsValidator on the names that begin alike, with a second pod of one, and a
\* workload that has no template.
MCPods == {"ui-1", "ui-2", "ml-1", "crd-1", "dex-1"}
MCWorkload == "ui-1" :> "ml-pipeline-ui-" @@ "ui-2" :> "ml-pipeline-ui-"
              @@ "ml-1" :> "ml-pipeline-" @@ "crd-1" :> "ml-pipeline-viewer-crd-"
              @@ "dex-1" :> "dex-"
MCNamespace == [p \in MCPods |-> IF p = "dex-1" THEN "auth" ELSE "kubeflow"]

\* The pods of the start: one of any status, the others not there, or there and
\* ready or not (a change brings each of them any status).
MCPodsInit == /\ PodsInit
              /\ \A p \in Pods \ {"ui-1"} : pods[p] \in {"Absent", "Pending", "Ready"}

-----------------------------------------------------------------------------
\* Kptfile on fields of each kind that the test data have, and of the packages
\* that the two other scripts are for.
Field(file, path, value, mark, means) ==
    [file |-> file, dir |-> "gcp/v2", at |-> path, value |-> value, mark |-> mark,
     means |-> means]
Plainly(file, means) == Field(file, "", Fill(means, Here), Unmarked, means)

GcpFields ==
    << Plainly("cluster.yaml", <<"${name}">>),
       Plainly("cluster.yaml", <<"${location}">>),
       Plainly("cluster.yaml", Cluster("/")),
       Plainly("cluster.yaml", <<Project, "_", "${location}", "_", "${name}">>),
       Plainly("cluster.yaml", <<Project, ".svc.id.goog">>),
       Plainly("cluster.yaml", <<"${name}", "-vm">>),
       Plainly("cluster.yaml", <<"${name}", "-cpu-pool-v1">>),
       Field("nat.yaml", "", "us-central1", Old, <<"${gcloud.compute.region}">>),
       Field("nat.yaml", "spec.enableLogging", "false", Old, <<"${log-firewalls}">>),
       Field("nat.yaml", "spec.enableOther", "false", Old, << >>),
       Plainly("nat.yaml", <<"${name}", "-goog-a">>),
       Plainly("cluster.yaml", <<"${name}", "-admin-viewer">>),
       Plainly("cluster.yaml", <<"${name}", "-user-viewer">>),
       Plainly("cluster.yaml", <<"${name}", "-vm-logging">>),
       Plainly("cluster.yaml", <<"projects/", Project>>),
       Plainly("cluster.yaml", <<"serviceAccount:">> \o Account("admin")),
       Plainly("cluster.yaml", Account("user")),
       Plainly("cluster.yaml", Member("kubeflow", "kf-admin")),
       Plainly("cluster.yaml", Member("kubeflow", "pipeline-runner")),
       Plainly("cluster.yaml", <<"${name}", "-user-workload-identity-user-pipeline-runner">>),
       Field("cluster.yaml", "", "project-id/us-central1/name", Unmarked, Cluster("/")),
       Field("cluster.yaml", "", "project-id|147474701642|name|us-central1-c", Unmarked,
             <<Project, "|", "${gcloud.project.projectNumber}", "|", "${name}", "|",
               "${location}">>),
       Plainly("cluster.yaml", <<"gcr.io/", Project, "/mirror/metacontroller">>),
       Field("nat.yaml", "", "mgmt-pool", "mgmt-pool", <<"${mgmt-name}", "-pool">>),
       [Plainly("ingress.yaml", <<"${name}">>) EXCEPT !.dir = "gcp/iap-ingress"],
       [Plainly("ingress.yaml", <<"${name}", "-ip">>) EXCEPT !.dir = "gcp/iap-ingress",
                                                             !.mark = Old] >>

ThePackages ==
    "gcp" :> [script |-> "create_subst", fields |-> GcpFields,
              defs   |-> "mgmt-name" :> <<"${mgmt-name}">>
                         @@ "mgmt-pool" :> <<"${mgmt-name}", "-pool">>,
              values |-> "mgmt-name" :> "mgmt"]
    @@ "management" :>
       [script |-> "create_subst_mgmt", defs |-> << >>, values |-> << >>, fields |->
          << Field("cluster.yaml", "", "us-central1-f", Old, <<"${location}">>),
             Field("cluster.yaml", "", "name", Unmarked, <<"${name}">>),
             Field("cluster.yaml", "", "project-id/mgmt-location/mgmt-name", Unmarked,
                   Cluster("/")),
             Field("cluster.yaml", "", "name-pool", Unmarked, <<"${name}", "-pool">>) >>]
    @@ "stacks" :>
       [script |-> "create_subst_stacks", defs |-> << >>, values |-> << >>, fields |->
          << Field("profiles.yaml", "", "name", Old, <<"${name}">>),
             Plainly("profiles.yaml", Account("admin")),
             Plainly("profiles.yaml", Account("user")) >>]

\* A definition of its own: TLC evaluates that of a constant each time it is used.
MCPackages == ThePackages

-----------------------------------------------------------------------------
\* KfdefSpecs with a release next to master.
MCUnderscored == "kfctl-aws" :> "kfctl_aws" @@ "kfctl-k8s-istio" :> "kfctl_k8s_istio"

\* LegacyTests with maps of one file and of more, and a directory that is no
\* application.
MCKfctlBuilt == { NoFile, [paths |-> TRUE,  maps |-> << <<"a">>, <<"b", "c">> >>],
                  [paths |-> FALSE, maps |-> << <<"b">>, <<"a">> >>] }

-----------------------------------------------------------------------------
Init == /\ tool \in {"kf_parse", "pods-validator", "kpt", "kfdef", "legacy"}
        /\ SearchInit /\ (tool = "kf_parse" \/ doc = Dict("x" :> Plainest))
        /\ MCPodsInit /\ (tool = "pods-validator" \/ pods = [p \in Pods |-> "Absent"])
        /\ KptInit    /\ (tool = "kpt" \/ package = "gcp")
        /\ KfdefInit  /\ (tool = "kfdef" \/ source = [v \in All |-> [k \in Kfdefs |-> 0]])
        /\ LegacyInit /\ (tool = "legacy" \/ kfapp = [d \in Directories |-> NoFile])

Next == \/ /\ tool = "kf_parse" /\ SearchNext
           /\ UNCHANGED <<tool, podVars, kptVars, kfdefVars, legacyVars>>
        \/ /\ tool = "pods-validator" /\ PodsNext
           /\ UNCHANGED <<tool, searchVars, kptVars, kfdefVars, legacyVars>>
        \/ /\ tool = "kpt" /\ KptNext
           /\ UNCHANGED <<tool, searchVars, podVars, kfdefVars, legacyVars>>
        \/ /\ tool = "kfdef" /\ KfdefNext
           /\ UNCHANGED <<tool, searchVars, podVars, kptVars, legacyVars>>
        \/ /\ tool = "legacy" /\ LegacyNext
           /\ UNCHANGED <<tool, searchVars, podVars, kptVars, kfdefVars>>

Spec == Init /\ [][Next]_toolVars

=============================================================================
