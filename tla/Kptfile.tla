------------------------------ MODULE Kptfile ------------------------------
(***************************************************************************)
(* hack/create_kptfile.py and hack/generate_gcp_kpt_data.py.               *)
(*                                                                         *)
(* A package is a tree of YAML files and a Kptfile.  The Kptfile defines   *)
(* setters, each with a value, and substitutions, each with a pattern of   *)
(* setters; the comment behind a field, its mark, names the one that its   *)
(* value is computed from.  The first script makes them with a hundred or  *)
(* so calls of kpt, each of which marks the fields that have some value;   *)
(* any call may fail, and the script is then run from its start again.     *)
(* The second one copies the package and sets all setters in the copy.     *)
(***************************************************************************)
EXTENDS Naturals, Sequences, Functions

CONSTANTS
    Packages,   \* by name: the script and the fields, see PackageOK
    MaxUses     \* bound: how often a script is used or the tree checked out

VARIABLES
    package,   \* the package that is worked on
    marks,     \* the mark of each field
    kptfile,   \* [defs: the patterns, values: of the setters]
    lost,      \* the files that strip_comments has emptied
    stripped,  \* strip_comments has been through since the last checkout
    use,       \* what is being run: "none", "strip", "create" or "set"
    step,      \* its next command, or for "strip" the files to go
    complete,  \* the last run of the package's script has ended well
    data,      \* tests/testdata_gcp_kpt
    uses

kptVars == <<package, marks, kptfile, lost, stripped, use, step, complete, data, uses>>

Unmarked == ""
Old      == "x-kustomize"     \* a mark of an earlier kpt
NoData   == [set |-> 0]

Fields == Packages[package].fields

-----------------------------------------------------------------------------
(* Patterns are sequences of parts, some of them setters.                  *)

Setters == {"gcloud.core.project", "gcloud.project.projectNumber",
            "gcloud.compute.zone", "gcloud.compute.region", "location", "name",
            "log-firewalls", "mgmt-name"}
Marker(setter) == "${" \o setter \o "}"
Markers == {Marker(s) : s \in Setters}
SetterOf == [m \in Markers |-> CHOOSE s \in Setters : Marker(s) = m]
Used(pattern) == {SetterOf[m] : m \in Markers \cap Range(pattern)}

\* The text of a pattern.
TextOf(texts) ==
    LET text[i \in 0 .. Len(texts)] == IF i = 0 THEN "" ELSE text[i - 1] \o texts[i]
    IN  text[Len(texts)]

Fill(pattern, values) ==
    TextOf([i \in DOMAIN pattern |-> IF pattern[i] \in Markers
                                     THEN values[SetterOf[pattern[i]]] ELSE pattern[i]])

\* kpt cfg create-setter and create-subst.  Most values are the patterns with
\* the values that the setters have in the repository.
create_setter(name, value) ==
    [name |-> name, value |-> value, pattern |-> <<Marker(name)>>, field |-> ""]
create_subst(name, value, pattern) ==
    [name |-> name, value |-> value, pattern |-> pattern, field |-> ""]

Here == [s \in Setters |->
    CASE s = "gcloud.core.project" -> "project-id" [] s = "location" -> "us-east1-d"
      [] s = "name" -> "name" [] OTHER -> ""]
Subst(name, pattern) == create_subst(name, Fill(pattern, Here), pattern)
Own(suffix) == Subst("name-" \o suffix, <<"${name}", "-" \o suffix>>)
Each(Op(_), names) == [i \in DOMAIN names |-> Op(names[i])]

Project == "${gcloud.core.project}"
Member(ns, ksa) == <<"serviceAccount:", Project, ".svc.id.goog[", ns \o "/" \o ksa, "]">>
Account(user) == <<"${name}", "-" \o user \o "@", Project, ".iam.gserviceaccount.com">>
Cluster(separator) == <<Project, separator, "${location}", separator, "${name}">>

-----------------------------------------------------------------------------
(* The scripts, as the sequences of their commands.                        *)

Deployment == << create_setter("gcloud.core.project", "project-id"),
                 create_setter("name", "name") >>
Location   == << create_setter("location", "us-east1-d") >>
Places     == << create_setter("gcloud.compute.zone", "us-east1-d"),
                 create_setter("gcloud.compute.region", "us-central1") >>
Bindings   == Each(LAMBDA ns : Subst("iampolicy-member-kfadmin-" \o ns,
                                     Member(ns, "kf-admin")),
                   <<"kubeflow", "istio-system">>)
Firewalls  == << [create_setter("log-firewalls", "false")
                    EXCEPT !.field = "spec.enableLogging"] >>

\* Zone and region come before location, which takes the fields of the zone's
\* value.
SetterCommands == Deployment \o Places \o Bindings \o Location \o Firewalls

NetworkCommands ==
    Each(Own, << "storage-metadata-store", "storage-artifact-store", "ip", "gcr",
                 "gcr-cname", "gcr-a", "goog-apis", "goog-cname", "goog-a", "google-apis",
                 "internet", "deny-egress", "health-ingress", "health-egress",
                 "apis-egress", "master-egress", "int-egress", "istio", "cm",
                 "dockerhub", "iap-jwks" >>)

Ksas == << "ml-pipeline-ui", "ml-pipeline-visualization",
           "ml-pipeline-visualizationserver", "pipeline-runner" >>

AccountCommands ==
    Each(LAMBDA ksa : Own("user-workload-identity-user-" \o ksa), Ksas)
    \o Each(LAMBDA ksa : Subst("name-user-workload-identity-user-" \o ksa \o "-member",
                               Member("kubeflow", ksa)), Ksas)
    \o Each(LAMBDA s : Own("user-" \o s),
            << "cloudbuild", "viewer", "source", "storage", "bigquery", "dataflow", "ml",
               "dataproc", "cloudsql", "logging", "metricwriter", "monitoringviewer" >>)
    \o << Subst("name-vm-policy-logging", <<"${name}", "-vm-logging">>) >>
    \o Each(LAMBDA a : Own("vm-policy-" \o a),
            << "monitoring", "meshtelemetry", "cloudtrace", "monitoring-viewer",
               "storage" >>)

ClusterCommands ==
    << Subst("cluster-name", Cluster("/")),
       Subst("identity-ns", <<Project, ".svc.id.goog">>),
       Subst("admin-sa-name", <<"${name}", "-admin">>),
       Subst("user-sa-name", <<"${name}", "-user">>),
       Subst("name-admin-wi", <<"${name}", "-admin-workload-identity-user">>),
       Subst("admin-profiles-sa-wi",
             Member("kubeflow", "profiles-controller-service-account")) >>
    \o Each(LAMBDA s : Subst("user-wi-" \o s,
                             <<"${name}", "-user-workload-identity-user-" \o s>>),
            SelectSeq(Ksas, LAMBDA s : s # "ml-pipeline-visualization"))
    \o << Subst("projects", <<"projects/", Project>>) >>
    \o Each(LAMBDA u : Subst(u[1], <<"serviceAccount:">> \o Account(u[2])),
            << <<"admin-service-account", "admin">>, <<"user-service-account", "user">>,
               <<"vm-service-account", "vm">> >>)
    \o Each(LAMBDA u : Subst(u \o "-sa-ref", Account(u)), <<"vm", "admin", "user">>)
    \o << Subst("node-pool-cpu", <<"${name}", "-cpu-pool-v1">>) >>

AdminCommands ==
    << Own("admin-manages-user") >>
    \o Each(LAMBDA a : Subst("admin-" \o a \o "-iam", <<"${name}", "-admin-" \o a>>),
            << "source", "servicemanagement", "network", "cloudbuild", "viewer", "storage",
               "bigquery", "dataflow", "ml", "dataproc", "cloudsql", "logging",
               "metricwriter", "monitoringviewer" >>)
    \o << Own("vm") >>

create_subst_asm ==
    << create_setter("gcloud.project.projectNumber", "147474701642"),
       create_subst("asm-gcp-metadata", "project-id|147474701642|name|us-central1-c",
                    <<Project, "|", "${gcloud.project.projectNumber}", "|", "${name}", "|",
                      "${location}">>),
       create_subst("asm-cluster-url", "https://container.googleapis.com/v1/projects/"
                      \o "project-id/locations/us-central1/clusters/name",
                    <<"https://container.googleapis.com/v1/projects/", Project,
                      "/locations/", "${location}", "/clusters/", "${name}">>),
       create_subst("asm-mesh-id", "project-id_us-central1_name",
                    <<Project, "_", "${location}", "_", "${name}">>),
       create_subst("mesh-id", "project-id_us-east1-d_name",
                    <<Project, "_", "${location}", "_", "${name}">>),
       create_subst("asm-cluster-name", "project-id/us-central1/name", Cluster("/")) >>

create_subst_private ==
    Each(LAMBDA r : Subst("image-mirror-" \o r[1], <<"gcr.io/", Project, "/mirror/" \o r[2]>>),
         << <<"quay.io.jetstack", "quay.io/jetstack">>,
            <<"gcr.io.kubeflow-images-public", "gcr.io/kubeflow-images-public">>,
            <<"metacontroller", "metacontroller">> >>)

\* git checkout of the directories that keep what they have upstream.
Upstream == << "gcp/cloud-endpoints", "gcp/deployment_manager_configs",
    "gcp/gpu-driver", "gcp/iap-ingress", "gcp/prometheus", "gcp/privateutil" >>
restore == Each(LAMBDA dir : [restore |-> dir], Upstream)

create_subst_mgmt ==
    << create_setter("location", "us-central1-f"), create_setter("name", "name"),
       create_setter("gcloud.core.project", "project"),
       create_subst("cluster-name", "project-id/mgmt-location/mgmt-name", Cluster("/")),
       create_subst("pool", "name-pool", <<"${name}", "-pool">>),
       create_subst("cnrm-sa", "serviceAccount:mgmt-project-id.svc.id.goog"
                      \o "[cnrm-system/cnrm-controller-manager]",
                    Member("cnrm-system", "cnrm-controller-manager")) >>

create_subst_stacks ==
    << create_setter("name", "name"), create_setter("gcloud.core.project", "project-id"),
       Subst("admin-sa-ref", Account("admin")), Subst("user-sa-ref", Account("user")) >>

Scripts ==
    [create_subst |-> SetterCommands \o NetworkCommands \o AccountCommands
                        \o ClusterCommands \o AdminCommands \o create_subst_asm
                        \o create_subst_private \o restore,
     create_subst_mgmt   |-> create_subst_mgmt,
     create_subst_stacks |-> create_subst_stacks]

CommandsOf(p) == Scripts[Packages[p].script]
Commands == CommandsOf(package)

\* The values that the test data are made with.
TestValues ==
    << <<"gcloud.core.project", "customerProject">>,
       <<"gcloud.project.projectNumber", "999911112222">>,
       <<"gcloud.compute.zone", "testZone">>, <<"gcloud.compute.region", "testRegion">>,
       <<"location", "testLocation">>, <<"name", "testKptName">>,
       <<"log-firewalls", "true">>, <<"mgmt-name", "testMgmtName">> >>

-----------------------------------------------------------------------------
\* The package as it is in the repository: with the marks of an earlier kpt,
\* and with those of the Kptfile that are made by hand.
Committed(p) ==
    [marks   |-> [f \in DOMAIN Packages[p].fields |-> Packages[p].fields[f].mark],
     kptfile |-> [defs   |-> Packages[p].defs, values |-> Packages[p].values]]

KptInit ==
    /\ package \in DOMAIN Packages
    /\ marks = Committed(package).marks /\ kptfile = Committed(package).kptfile
    /\ lost = {} /\ stripped = FALSE /\ use = "none" /\ step = 0
    /\ complete = FALSE /\ data = NoData /\ uses = 0

Begin(what) == /\ use = "none" /\ uses < MaxUses
               /\ use' = what /\ uses' = uses + 1

End == use' = "none" /\ step' = 0

\* git checkout of everything.
Checkout ==
    /\ use = "none" /\ uses < MaxUses /\ uses' = uses + 1
    /\ marks' = Committed(package).marks /\ kptfile' = Committed(package).kptfile
    /\ lost' = {} /\ stripped' = FALSE /\ complete' = FALSE
    /\ UNCHANGED <<package, use, step, data>>

\* strip_comments: each file is read, and written without its old marks.
Strip == /\ Begin("strip")
         /\ step' = {Fields[f].file : f \in DOMAIN Fields}
         /\ UNCHANGED <<package, marks, kptfile, lost, stripped, complete, data>>

StripFile ==
    /\ use = "strip"
    /\ \E file \in step :
          /\ marks' = [f \in DOMAIN marks |->
                          IF Fields[f].file = file /\ marks[f] = Old THEN Unmarked
                          ELSE marks[f]]
          /\ IF step = {file} THEN End /\ stripped' = TRUE
             ELSE step' = step \ {file} /\ UNCHANGED <<use, stripped>>
    /\ UNCHANGED <<package, kptfile, lost, complete, data, uses>>

\* The file is opened for writing, and with that empty, when the script dies.
StripDies ==
    /\ use = "strip"
    /\ \E file \in step : lost' = lost \cup {file}
    /\ End
    /\ UNCHANGED <<package, marks, kptfile, stripped, complete, data, uses>>

Create == /\ Begin("create")
          /\ step' = 1 /\ complete' = FALSE
          /\ UNCHANGED <<package, marks, kptfile, lost, stripped, data>>

\* kpt defines the name and marks every field with the value, whatever mark it
\* has; git brings a directory back.
Restores(c) == "restore" \in DOMAIN c
Touches(c, field) == IF Restores(c) THEN field.dir = c.restore
                     ELSE field.value = c.value /\ c.field \in {"", field.at}

Marked(c) == [f \in DOMAIN marks |-> IF Touches(c, Fields[f]) /\ Fields[f].file \notin lost
                                     THEN c.name ELSE marks[f]]
Put(map, key, value) == [k \in {key} \cup DOMAIN map |-> IF k = key THEN value ELSE map[k]]
Defined(c) == [defs   |-> Put(kptfile.defs, c.name, c.pattern),
               values |-> IF c.pattern = <<Marker(c.name)>>
                          THEN Put(kptfile.values, c.name, c.value) ELSE kptfile.values]
Restored(c) == [f \in DOMAIN marks |-> IF Touches(c, Fields[f]) THEN Fields[f].mark
                                       ELSE marks[f]]

Execute(c) == IF Restores(c)
              THEN /\ marks' = Restored(c) /\ UNCHANGED kptfile
                   /\ lost' = lost \ {Fields[f].file :
                                         f \in {g \in DOMAIN Fields : Touches(c, Fields[g])}}
              ELSE marks' = Marked(c) /\ kptfile' = Defined(c) /\ UNCHANGED lost

Command ==
    /\ use = "create"
    /\ Execute(Commands[step])
    /\ IF step = Len(Commands) THEN End /\ complete' = TRUE
       ELSE step' = step + 1 /\ UNCHANGED <<use, complete>>
    /\ UNCHANGED <<package, stripped, data, uses>>

\* check_call raises: the command has had its effect, or has not.
\* (Fault: call, which does not raise, for check_call.)
CommandFails_goesOn ==
    /\ use = "create"
    /\ \/ Execute(Commands[step])
       \/ UNCHANGED <<marks, kptfile, lost>>
    /\ IF step = Len(Commands) THEN End /\ complete' = TRUE
       ELSE step' = step + 1 /\ UNCHANGED <<use, complete>>
    /\ UNCHANGED <<package, stripped, data, uses>>

CommandFails ==
    /\ use = "create"
    /\ \/ Execute(Commands[step])
       \/ UNCHANGED <<marks, kptfile, lost>>
    /\ End
    /\ UNCHANGED <<package, stripped, complete, data, uses>>

\* write_gcp_kpt: the directory is removed, and of the package v2 and the
\* Kptfile are copied.
Copy == /\ package = "gcp" /\ Begin("set")
        /\ data' = [set |-> 0, whole |-> complete, lost |-> lost, marks |-> marks,
                    kptfile |-> kptfile,
                    fields |-> [f \in {g \in DOMAIN Fields : Fields[g].dir = "gcp/v2"} |->
                                   Fields[f].value]]
        /\ step' = 1
        /\ UNCHANGED <<package, marks, kptfile, lost, stripped, complete>>

\* kpt cfg set computes the fields of the setter and of the substitutions that
\* use it from the values that the setters have.
\* (Fault: only the setter's own fields.)
SetData_plain(setter, value) ==
    LET values == Put(data.kptfile.values, setter, value) IN
    [data EXCEPT !.kptfile.values = values, !.set = step,
        !.fields = [f \in DOMAIN @ |-> IF data.marks[f] = setter THEN value ELSE @[f]]]

SetData(setter, value) ==
    LET values == Put(data.kptfile.values, setter, value) IN
    [data EXCEPT !.kptfile.values = values, !.set = step,
        !.fields = [f \in DOMAIN @ |->
            LET mark == data.marks[f] IN
            IF /\ mark \in DOMAIN data.kptfile.defs
               /\ setter \in Used(data.kptfile.defs[mark])
            THEN Fill(data.kptfile.defs[mark], values) ELSE @[f]]]

Set ==
    /\ use = "set"
    /\ LET setter == TestValues[step][1]
       IN IF setter \in DOMAIN data.kptfile.values
          THEN /\ data' = SetData(setter, TestValues[step][2])
               /\ IF step = Len(TestValues) THEN End
                  ELSE step' = step + 1 /\ UNCHANGED use
          ELSE End /\ UNCHANGED data
    /\ UNCHANGED <<package, marks, kptfile, lost, stripped, complete, uses>>

SetFails == /\ use = "set"
            /\ End
            /\ UNCHANGED <<package, marks, kptfile, lost, stripped, complete, data, uses>>

KptNext == \/ Checkout \/ Strip \/ StripFile \/ StripDies \/ Create \/ Command
           \/ CommandFails \/ Copy \/ Set \/ SetFails

KptSpec == KptInit /\ [][KptNext]_kptVars

-----------------------------------------------------------------------------
(* What an undisturbed run makes of the packages, which only their fields  *)
(* and the order of the commands can tell.                                 *)

LastFor(p, field, i) == /\ i \in DOMAIN CommandsOf(p) /\ Touches(CommandsOf(p)[i], field)
                        /\ \A j \in DOMAIN CommandsOf(p) :
                              j > i => ~Touches(CommandsOf(p)[j], field)
Defines(c, name) == ~Restores(c) /\ c.name = name
Untouched(p, field) == \A c \in Range(CommandsOf(p)) : ~Touches(c, field)

\* A field that means something gets the mark of its meaning last, or has one that
\* is made by hand; one that means nothing gets none.
FieldOK(p, field) ==
    LET cs == CommandsOf(p) IN
    CASE field.dir \in Range(Upstream) ->
            \E i \in DOMAIN cs : LastFor(p, field, i) /\ Restores(cs[i])
      [] field.dir \notin Range(Upstream) /\ field.means # << >> ->
            \/ \E i \in DOMAIN cs : /\ LastFor(p, field, i) /\ ~Restores(cs[i])
                                    /\ cs[i].pattern = field.means
                                    /\ \A j \in DOMAIN cs :
                                          j > i => ~Defines(cs[j], cs[i].name)
            \/ /\ Untouched(p, field)
               /\ field.mark \in DOMAIN Packages[p].defs
               /\ Packages[p].defs[field.mark] = field.means
               /\ \A c \in Range(cs) : ~Defines(c, field.mark)
      [] OTHER -> Untouched(p, field) /\ field.mark \in {Old, Unmarked}

\* A mark is a name, a meaning a pattern that has a setter, a file in one
\* directory.
PackageOK(p) ==
    LET fields == Packages[p].fields
        names  == DOMAIN Packages[p].defs
                    \cup {c.name : c \in {d \in Range(CommandsOf(p)) : ~Restores(d)}}
    IN  /\ CommandsOf(p) \in Seq(Range(CommandsOf(p))) /\ CommandsOf(p) # << >>
        /\ names \cap {Old, Unmarked} = {}
        /\ \A f \in DOMAIN fields :
              /\ FieldOK(p, fields[f])
              /\ fields[f].means \in Seq(STRING)
              /\ fields[f].means # << >> => Used(fields[f].means) # {}
              /\ \A g \in DOMAIN fields :
                    fields[f].file = fields[g].file => fields[f].dir = fields[g].dir

ASSUME KptAssumption == \A p \in DOMAIN Packages : PackageOK(p)

-----------------------------------------------------------------------------
\* When a script has ended well, however many of its runs had failed before and
\* wherever, each field has the mark of its meaning, one that means nothing has
\* none if the old marks were stripped, and the directories that are kept as
\* upstream are as they were, but for old marks that are stripped later
\* (create_kptfile.py 31-57, 94-351).
MarksAreRight ==
    complete => \A f \in DOMAIN Fields : LET field == Fields[f] IN
       \/ field.file \in lost
       \/ CASE field.dir \in Range(Upstream) ->
                  marks[f] = field.mark \/ (field.mark = Old /\ marks[f] = Unmarked)
            [] field.dir \notin Range(Upstream) /\ field.means # << >> ->
                  marks[f] \in DOMAIN kptfile.defs /\ kptfile.defs[marks[f]] = field.means
            [] OTHER -> marks[f] = Unmarked \/ (marks[f] = field.mark /\ ~stripped)

\* The test data show each field with the new values of all the setters that it
\* is made of, however often the two scripts failed before
\* (generate_gcp_kpt_data.py 20-53, tests/testdata_gcp_kpt).
Expected == [s \in Setters |-> CHOOSE v \in {t[2] : t \in Range(TestValues)} :
                                  <<s, v>> \in Range(TestValues)]

TestDataAreRight ==
    data.set = Len(TestValues) /\ data.whole =>
       \A f \in DOMAIN data.fields :
          \/ Fields[f].file \in data.lost
          \/ data.fields[f] = IF Fields[f].means = << >> THEN Fields[f].value
                              ELSE Fill(Fields[f].means, Expected)

=============================================================================
