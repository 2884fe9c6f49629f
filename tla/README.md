# A verification project for the Kubeflow bootstrap

This directory holds TLA+ specifications of the programs in this repository, the
TLC configurations that check them on small instances, and proofs that TLAPS
checks for all instances. `PROJECT.json` lists components, runs, theorems and
hazards, and the source lines that every definition models.

The repository is a distribution of Kubeflow: thousands of YAML files for
kustomize, and a few thousand lines of shell and Python which bring them into a
cluster, take them out again, and look after user namespaces. The YAML has no
behaviour of its own. The programs have: they run in Kubernetes Jobs whose pods
are killed, repeated and sometimes doubled; nearly each of their steps is a call
that may fail or lose its answer; and they meet each other, and people, in the
objects of the cluster.

## The system

| component | its state | operations | what makes it correct |
|---|---|---|---|
| minio-config job (`bootstrap/components/minio-config`) | secret `kubeflow/minio-params` | read the external MinIO's secret, or fall back; create | written once, whole, with a value that was offered |
| dex-secret-ldap job (`bootstrap/components/dex-secret-ldap`) | secret `auth/dex-config-secret` | read the LDAP settings, make a connector, look, create | written once, connector and password from one version of the settings |
| installer job (`bootstrap/components/installer`) | the packages in the cluster | `kustomize build \| kubectl apply` of some forty packages in lists that are repeated | nothing before what it rests on; success means something; it ends |
| hpecpconfig-patch job (`bootstrap/components/hpecpconfig-patch`) | `spec.tenantServiceImports` of the HPECPConfig | read, append | the dashboard is announced once, nobody else's entry is lost |
| uninstaller job, `bootstrap/uninstall.sh` | the packages; the jobs' namespace | delete the installer, then everything in reverse; wait; remove the namespace | nothing is left but what a delete failed on; instances go before their kinds |
| pipelines-profile-controller (`apps/pipeline/.../pipelines-profile-controller`) | the children of every user namespace | the webhook `sync.py`, which metacontroller asks | namespaces agree, converge, and "ready" means complete |
| cluster inventory (`utils/kf_collect.sh`, `kf_parse.py`) | files of a working directory | `scan`, `scan_kf`, `clear`, `clear_kf`; the search in ConfigMaps | all images of the installation, and of no more than the last of the others |
| `bootstrap/install.sh` | the jobs' namespace and what is in it | check the settings, create the namespace, certificate, pull secret, installer | what the installer runs in is the work of one run |
| `sync.py` of kfp-tekton and of OpenShift | as pipelines-profile-controller | two more programs for the same webhook | it starts, it answers, its counts are those of its children |
| `utils/pods-validator.py` | none; lists of pods | list three namespaces, strike out templates | what is not counted has a pod, or one that passes for it |
| `hack/create_kptfile.py`, `generate_gcp_kpt_data.py` | the marks of a package's fields, its Kptfile, the test data | a hundred calls of kpt, in order | each field has the mark of its meaning; setting the setters shows |
| `hack/build_kfdef_specs.py` | the files of `kfdef/` | build each version, write its KfDefs | a file for each, made of the present sources |
| `hack/generate_legacy_kustomizations.py` | the test directories | copy the parameters, write the kustomization | what a kustomization refers to is there |
| manifest tests, workload identity, other scripts | | | *not modelled*, see below |

How they interact: `install.sh` starts the installer. The installer applies the
minio-config and dex-secret jobs and does not wait for them; Dex and the webhook's
pods wait for the secrets by not starting without them. The installer decides
from the same external secret as the minio-config job whether to bring a MinIO,
but at another moment. Its last block is the hpecpconfig-patch job. The
uninstaller deletes the installer's Job and runs beside what is left of it. The
webhook copies `minio-params` into every user namespace.

What is hard here is nowhere in one place of the code: a pod that dies between
two calls and a new one that begins at the first line; two pods of one job after
the loss of a node; an answer that is lost after the API server has stored the
object; `set -e` that does not hold within `while ! f`; a function whose status is
that of its last list; something that was read, and changed before it was used.

## The modules

`KubeJob` is what the jobs rely on of Kubernetes: pods start one after the other,
up to `BackoffLimit + 1`, and a pod on a lost node counts as failed but runs on, so
that two may overlap. `MinioConfig`, `DexSecret` and `HpecpPatch` extend it and
have an action for each call to the API server, since everything may happen
between two. `SecretOnce` is the abstract view of a secret that a job creates:
written once, with one of the values on offer. `MinioConfig` and `DexSecret` are
shown to implement it, and `ProfileController` uses its action as all it needs to
know of the minio-config job.

| module | code | state and actions |
|---|---|---|
| `MinioConfig` | `minio-config/entrypoint.py` | `ext`, the administrator's secret, and `minioParams`; a pod's `pc` is the call it comes to, its `data` the Python variable. `ReadExternal`, `RejectExternal`, `CreateParams` (answer kept or lost), `CreateConflict`, `PodFails`, `NodeLost`, `EditExternal` |
| `DexSecret` | `dex-secret-ldap/entrypoint.py` | as above, with the look for the secret as a call of its own. The functions that make the connector are operators (`Security`, `GroupBaseDN`, `Connector`), the `sys.exit`s and the uncaught exceptions are `Accepted` |
| `HpecpPatch` | `hpecpconfig-patch/entrypoint.sh` | `imports`, a sequence of names; a pod looks (`CheckImports`), then appends (`PatchImports`) to the list of *that* moment |
| `Installer` | `installer/entrypoint.sh` | `phase` and `pos` say which apply comes next; `applied` and `crds` are the cluster. `After` is the control flow, `OnFailure` what a failing apply leads to in each kind of list: repeat, skip, go on, or exit |
| `Manifests` | both entrypoints, kustomize packages | the lists of packages, in order, and what needs the CustomResourceDefinitions of what. `InstallNeeds` was derived from the `kind`s in the packages' YAML: who has an instance of a kind that another package defines |
| `Uninstaller` | `uninstaller/entrypoint.sh`, `uninstall.sh` | the script's place as in `Installer`; `missed` are the packages whose delete failed; beside it what is left of the installer, and the administrator's script with its timeout |
| `ProfileController` | `sync.py`, `composite-controller.yaml`, `deployment.yaml` | `hooks` are the webhook's pods with the release and the credentials they have frozen; `sync[n]` is a round of metacontroller: observe, ask, apply child by child, set the status. A child is the version of its content |
| `Hooks` | the three `sync.py`, their Deployments and `childResources` | what each reads from its environment, which labels enable it, what it wants, what it counts. `ProfileController` extends it and is about any such `Program` |
| `Bootstrap` | `install.sh`, composed with `Installer` and `SecretOnce` | `place` is the call that install.sh comes to, `inNamespace` what there is for the jobs. It extends `Installer`, whose steps are steps of it once the Job is there; the minio-config job is what `SecretOnce` promises, `offered` what that job may have seen since it was created |
| `Inventory` | `kf_collect.sh` | the files, by name; a command runs call by call, over the namespaces in order |
| `ImageSearch` | `kf_parse.py` | `ImagesAt` is what a call of the recursive function finds by itself, `Calls` the calls it makes, `Searched` all of them, level by level; `Images` is what there is to find |
| `PodsValidator` | `pods-validator.py` | the namespaces are listed one by one, while pods change; `left` is `pods_templates`, struck out pod by pod in any order |
| `Kptfile` | `create_kptfile.py`, `generate_gcp_kpt_data.py` | `Commands` is a script as the sequence of its calls, spelled out from the patterns; `step` the next one; `marks` and `kptfile` the package; `data` the copy in which the setters are set |
| `KfdefSpecs` | `build_kfdef_specs.py` | `todo`, `building` and `output` say where the run stands; a KfDef is the edits it is made of |
| `LegacyTests` | `generate_legacy_kustomizations.py` | `tests`: for each directory its parameter files and its kustomization; file by file |

A definition with a suffix, such as `CreateConflict_accepted`, is not part of a
model: it is the form its namesake would have with a plausible bug, and a check
puts it in place to see that the property named in `PROJECT.json` notices.

`MCTools` puts the five programs that are run by hand into one specification: they
share nothing, and `tool` says which of them runs.

Modelled from the way the code uses them, since they are not in the repository:
the Job controller, metacontroller, the Deployment controller, kpt, and people. Of
kpt the scripts themselves say what matters (`create_kptfile.py:156`: location comes
after zone "so that location overrides it"), and `tests/testdata_gcp_kpt` shows what
setting does. Each
may do everything Kubernetes lets them do to the objects in question.

## The runs

| run | states | bounds | what it shows |
|---|---|---|---|
| `minio_config` | 69,871 | 3 pods, 2 fields for 5, 2 edits | `SuccessIsOwnWrite`: exit 0 is no claim about another's write. `NoLateSuccess`: after a lost answer the job fails although its work is done. `ImplementsSecretOnce`: one write, of a whole valid value; `JobEnds` |
| `dex_secret` | 223,644 | 3 pods, 11 versions of the settings, 1 edit | `ConnectorJustified`: connector and password from one version; the static password only if the settings were missing at some moment. `ConflictNeedsOverlap`: the 409 that nothing catches costs a lost node. `ImplementsSecretOnce` |
| `dex_groups` | violated | as above | finding 2 |
| `hpecp_patch` | 171,434 | 4 pods, 2 edits, 3 names | `DuplicatesAreExplained`: an entry beyond the first has cost a lost node or an edit. `OthersKept`, `SuccessIsMention` |
| `installer` | 410,758 | the whole lists, 2 pods, 1 change of the external secret, any failing call | `StageOrder` and `ListOrder`: the order of the cluster's content over all pods and failures. `PrismCostsAPod`: no first pod ever gets through. `InstallEnds` |
| `installer_services` | violated | as above | finding 1 |
| `uninstaller` | 670,518 | 16 packages for 30, 2 pods, 1 failed delete, 1 package from the installer | `LeftIsMissed`: what is left after exit 0. `KindsOutlastInstances`: no definition goes before its instances. `FailedIsFinal`: a failed Job is never run again. `UninstallEnds` |
| `profile_controller` | 438,466 | 1 namespace, 3 kinds, 2 releases, 1 rotation, 1 edit | `CopiesAgree`, `CopyIsStable`, `ReadyIsComplete`, `Converges` |
| `inventory` | 1,494,692 | 2 namespaces, 4 commands, 2 changes | `ForeignIsLast`: of the namespaces that were there before, only the last one can get into a report. `ScanIsComplete` |
| `inventory_rescan` | violated | as above | finding 3 |
| `bootstrap` | 1,220,268 | 2 runs of install.sh, 2 pods, 2 changes of the external secret, a package for each kind of list | `OneRunPrepares`: no installer in a namespace that two runs have made half each. `MinioAgrees`: the two jobs disagree about MinIO only if the external secret has changed since the second was created, or the first asked for it in vain |
| `tools` | 561,481 | 1,490 documents; 5 pods; 33 fields in 3 packages, all commands, 3 uses; 2 versions; 3 directories, 2 runs | `FoundAreImages`, `PlainIsFound`: the search of `kf_parse.py` finds images and nothing else. `VerdictIsRight`: the exit code of `pods-validator.py`. `MarksAreRight`, `TestDataAreRight`: the kpt scripts, whatever failed before. `SpecsAreCurrent`, `ParamsAreThere`: what the two other scripts leave |

Why the bounds are enough. Two pods that overlap and one that follows show every
pair of orders of two calls; what matters of edits is one between two calls. The
installer's lists are the whole ones of the repository, since their order is the
subject; a second pod meets all that a first can leave, and so would a third. The
uninstaller keeps a package for every block and every dependency, and an
assumption that TLC evaluates says of the whole lists what the theorems need. In
a namespace the kinds are one for each treatment: left alone, updated in place,
not seen; a release and a rotation more would only repeat the step from old to
new. Namespaces do not touch each other. An inventory needs a namespace that was
there and one that is new, and scan, scan_kf, and two commands more. The Kptfile
has a field for each kind of pattern, and the pairs whose values collide (location
and zone, two fields that say false); pods-validator has the templates that begin
alike, with two pods of one, and a workload without a template; versions, directories and runs are two or three, as one
can only disturb the next. These are
reasons, not proofs; the proofs are below.

Deadlock is not checked: jobs and scripts end, and all bounds are used up.

### Fairness

Weak fairness is assumed of the steps of pods that run, and of the controllers
that start pods: Kubernetes schedules them again and again. No fairness is
assumed of faults, people, or of the choice between success and failure, with
these exceptions, without which the property in question is false of any program:

* `Installer`: at last the API server is healthy (`<>[][Healthy]_vars`): an apply
  whose needs are met succeeds, and one whose needs are not met still creates the
  definitions it brings, as `kubectl apply` does. With a permanent error the
  script goes on for ever; its `MAX_RETRIES` only prints.
* `Uninstaller`: at last `delete_kf_services` takes less than its 4 minutes.
* `ProfileController`: that the minio-config job writes in the end (`WF` of
  `StoreParams`), which is more than the job promises: with an
  incomplete external secret it fails for good, and no namespace ever gets its copy.
* `ProfileController`, besides: from some moment on calls go through and pods stay up. The
  moment is a step (`CalmDown`), since a failing call that changes nothing cannot
  be told from a succeeding one that changes nothing by looking at the states.

### What was found

1. `deploy_kf_services` returns the status of its last list only. When
   kubeflow-namespace, pipelines, kfserving or katib fail to be applied, nothing is
   repeated, the bundled MinIO may be skipped, and the script says "finished done"
   and exits 0, where the README has the user repeat the same step "until it
   succeeds" (`SuccessMeansServices`).
2. The dex-secret job says that it verifies that all groups have one base DN, and
   takes the first (`GroupsShareBase`).
3. `kf_collect.sh` says that it can scan Kubeflow again at any time; what an
   earlier scan has written of the ConfigMaps is never fetched again, not even
   after `clear_kf`, which removes files of another name (`RescanIsComplete`).

Facts that are no disagreement with a text of the repository, but that the models
show or had to take account of:

* `install.sh` cannot be run again after a failure: its namespace is there, and
  under `set -e` that is the end. This is what makes `OneRunPrepares` true.
* The installer asks for the external MinIO's secret with
  `kubectl get secret ... | grep .` and looks at the output: a call that fails has
  none, and the bundled MinIO is installed although the external one is configured
  (`misread` in `Installer`; `BundledMinioJustified`, `MinioAgrees`). Its first line
  asks for `/bin/sh`, but `((` is bash's; the image is not in the repository, and the
  model takes the shell for one that knows it.
* `kf_collect.sh` takes the lines that `diff` marks for the new namespaces. Its lists
  have no newline at their end, so when a namespace comes behind the last old one, the
  line of that one is marked as well, and its images are reported. `ForeignIsLast` says
  that it is never any other.
* Two ready pods of `ml-pipeline-ui` hide a missing `ml-pipeline` from
  `pods-validator.py`. So does any good pod of `ml-pipeline-visualizationserver` or
  `ml-pipeline-viewer-crd`, whose names are in no template, and one of `minio-console`
  hides a missing `minio` (the exception in `VerdictIsRight`, `PassedFor`). A failing
  call gives the exit code 1 of one missing workload.
* `generate_legacy_kustomizations.py` logs that it skips a directory that is no
  application, and does not: the first path of it ends the script with a KeyError.
  A run that ends between the two kinds of files leaves an older kustomization with
  newer parameters under the same names, which `ParamsAreThere` does not exclude.
* `strip_comments` and the dumps of the other scripts open a file for writing
  before they have written it: a script that dies there leaves it empty, and running
  it again does not bring the text back (`lost` in `Kptfile`).
* `build_kfdef_specs.py` looks in `kfdef/source`, which this repository has under
  `distributions/`.
* The OpenShift `sync.py` counts kinds that the CompositeController of the
  repository does not declare, and could not answer it (`Answers`).

## The proofs

In eight modules TLAPS proves, for all values of the constants that satisfy the
named assumptions (every number of pods, edits, settings, packages, releases,
namespaces), the type invariant and the safety properties of the runs, and that
`MinioConfig` and `DexSecret` implement `SecretOnce`. Each module has an inductive
invariant (`IInv`, in `Bootstrap` `BootInv`), shown to hold initially and to be kept by each action.

* `MinioConfigProofs`, `DexSecretProofs`. What is stored is what a pod holds, and
  a pod holds what it read some steps ago. So: every value a pod holds was on offer
  (`HeldWasOffered`), offers are remembered (`SeenExt`), and an exit 0 left the
  pod's own value behind (`SuccessStored`, `OneSuccess`). That a conflict costs a lost
  node needs the order in which pods start (`OneAtATime`). The refinement maps the
  create to the abstract `Write` and all else to stuttering.
* `HpecpPatchProofs`. A pod that has looked will append whatever comes, so the
  entries can only be counted together with the pods about to append (`Counted`);
  that these are few follows from `InTurn`. This is an induction on cardinalities of
  sets of pods and of places in a sequence.
* `BootstrapProofs`, first part. `StageOrder` and `ListOrder` speak of the cluster, and a new
  pod starts with a cluster that others have left. They become inductive with
  what a pod knows by being where it is: the gating blocks behind it are applied
  (`Behind`), and its list up to its place (`InList`, `InMinio`). `PrismReason` and
  `MinioReason` say where a definition and a decision come from. Proved for all
  lists and dependencies; not assumed is that the lists are in a good order.
* `UninstallerProofs`. `Swept`: behind the pod nothing is left but what a delete
  failed on, as long as the installer has brought nothing back, or can no longer.
  `LeftIsMissed` needs that the lists forget nothing (`Covered`), and
  `KindsOutlastInstances` also that they delete instances before kinds
  (`InstancesFirst`). Both are hypotheses of the theorems, and TLC evaluates them
  for the lists of the repository (`ListsAssumption` in `MCUninstaller`).
* `ProfileControllerProofs`. `NotNewer`: no pod, no answer under way and no copy is
  newer than `minio-params`. `Undisturbed`: what a round remembers of a namespace is
  still true of it when the status is set. That equal counts mean equal sets
  (`ReadyCounts`) uses that the numbers in `sync.py` are those of its children
  (`ExpectedAssumption`, which TLC evaluates). The webhook's program is a parameter:
  what is proved holds for that of kfp-tekton as well (`HooksAssumption`).
* `BootstrapProofs`, second part. The composition implies `Installer!Spec`, so that all that is
  proved of the installer holds in it. `OneRunPrepares` needs where
  install.sh stands (the certificate, if there is to be one, comes before all that
  follows it); `MinioAgrees` needs that a decision against MinIO, or for it, was made
  when the minio-config job was there to see the same, unless the call failed
  (`Witnessed`).
* `InventoryProofs`. `ForeignIsLast` is about the report; what it rests on is about
  every file (`Sound`): the list of the first scan is the one in `base`, the lists of
  images have lines of at most one namespace of `base`, and the later ones are gone; and
  once the first list is gone, the lists of images are empty or about to be removed. `ScanIsComplete`, a property of the step that
  writes the report, needs what an undisturbed scan has listed so far (`Listed`) and
  that no file of its own is in its way (`NotFetched`). That the next namespace of `scan_kf` is one that
  is left (`CurrentIsToDo`) is the well-foundedness of the naturals.
* `ToolsProofs`. The five programs of `tools`, each by itself.
  `FoundAreImages` and `PlainIsFound` are inductions over trees: a call that is *n* calls
  deep is for an object that is at least as deep in the document (`CallsAreDeep`), so
  that the search ends and each of its calls is for what is in the document; and all that
  is in a plain document belongs to a call (`Covers`), level by level. Of the documents
  they use that they are objects and of finite depth (`DocumentsAssumption`).
  `VerdictIsRight` is about the last state of a run. `Struck` says of every template
  what its presence or absence tells of the pods that were looked at so far,
  `QueueRight` that each pod is looked at once, as good as it was listed, `LeftRight` that
  `ml-pipeline-` stays behind the templates that begin so; that the list of the program
  is such a list, and has none of the names without a template (`TemplatesAreRight`), is
  proved of its 39 names. `SpecsAreCurrent` and
  `ParamsAreThere` are about a run that ends well after runs that did not: what it has
  done up to now is right whatever was there (`Through`, `InWork`; `Complete`,
  `Copied`), and of the numbers of the parameter files that each is as far behind those
  of the maps before as in its own map (`FlattenKeepsPlace`). The assumptions say that
  two KfDefs do not share a file (`KfdefAssumption`), that the pods are finitely many, and
  that a directory is none of the two values that stand for none. The library's theorems
  on induction take an operator and cannot be cited; `Least` (a set of numbers has a
  least one) does instead: the least counterexample follows one that is none.
  `MarksAreRight` and `TestDataAreRight` are about packages of any fields. What the marks
  owe to the commands so far (`Executed`) is that a field has the mark of the last
  command that touches it (`MarkedSoFar`) and a name the pattern of the last one that
  defines it (`DefinedSoFar`), whatever dead runs had made of both; besides, what no
  command touches stays as it was (`Kept`). A copy inherits that, and while its setters
  are set, a field shows their present values as soon as one of its own is among them
  (`DataField`). Which command touches a field last is a matter of its value and of the
  order of the script, and no invariant: `KptAssumption` says of each package that it is
  the command that means the field, and TLC evaluates it on fields of each kind (a
  location that came before the zone, whose value it has, would be found there). The
  theorems are about what scripts that die anywhere and are run again make of such fields.

`ParamsComplete`, `SuccessMeansGates`, `BundledMinioJustified`, `BootTypeOK` and the
`SuccessIsOwnWrite` of `DexSecret` are proved, and are in no run: the first is part of
what `ImplementsSecretOnce` says, the third of `MinioAgrees`.

Only model-checked: all liveness (`JobEnds`, `InstallEnds`, `UninstallEnds`,
`Converges`), since the provers do not treat fairness.

## What is not modelled

* RBAC, images, TLS, and what is in the YAML beyond names, kinds and order. The
  controllers that the packages bring are images from elsewhere.
* The workload identity scripts: create-if-absent and bind, in a short sequence for a
  platform that the bootstrap does not install.
* The manifest tests (`tests/`) compare files with files; `generate_tests.py` and the
  `pull_*.sh` scripts write and copy files, without state of their own;
  `notebook-patch.sh` is three calls.
* The OpenShift `sync.py` beyond what it reads, wants and counts: it is commented out
  where it would be used.
* Within what is modelled: the text of secrets (a field is there or not, a
  password is a name), the loop of `deploy_knative` that tries twice before its
  caller tries again (one entry stands for both), and `uniq -c`. Namespaces are listed
  by name and once each, as kubectl does when none has a label `name`. Of the workloads
  that pods-validator may see, the model has those of the repository's manifests.
  `PlainIsFound` is silent about lists in inner objects, which `kf_parse.py` does not
  search.

## Plan

1. Done: the jobs, the installer and the uninstaller, the webhook, the inventory, and
   their proofs.
2. Done: `Bootstrap` (install.sh, the installer, and the minio-config job), with
   proofs; `Hooks`; the programs of `MCTools`; the proofs of `Inventory`; `ToolsProofs`.
3. Left: the installation, its removal and the next
   installation as one story (what `hpecpconfig-patch` and the failed Job leave
   behind); the algorithms of the manifest tests, if any of them is worth a model.
