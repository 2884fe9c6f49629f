------------------------- MODULE ProfileController -------------------------
(***************************************************************************)
(* apps/pipeline/upstream/base/installs/multi-user/                        *)
(* pipelines-profile-controller: the webhook sync.py, its Deployment, and  *)
(* the CompositeController through which metacontroller asks it what a     *)
(* namespace is to contain.                                                *)
(*                                                                         *)
(* metacontroller looks at a namespace and its children, asks one of the   *)
(* webhook's pods, then creates, updates and deletes the children one by   *)
(* one, and sets the status that the webhook has computed from what was    *)
(* seen.  Meanwhile users label the namespace or delete a child, the       *)
(* webhook is rolled out anew, and the MinIO credentials, which a pod of   *)
(* it reads when it starts and never again, may change.                    *)
(***************************************************************************)
EXTENDS Hooks

CONSTANTS Program,       \* the program sync.py that is deployed, see Hooks
          Namespaces,    \* the user namespaces
          Kinds,         \* the kinds of children that are looked at
          MaxReleases,   \* bound on the releases of the webhook
          MaxRotations,  \* bound on the changes of the credentials
          MaxEdits       \* bound on what users do to a namespace

ASSUME ProfileControllerAssumption ==
    /\ MaxReleases \in Nat \ {0}
    /\ MaxRotations \in Nat
    /\ MaxEdits \in Nat

\* The copy of MinIO's credentials.
Copy == <<"Secret", Program.secret>>

Children == {c \in Program.children : c[1] \in Kinds}

\* What metacontroller sees: only these are updated in place, and deleted when
\* they are not wanted.
Observable == {c \in Children : c[1] \in Declared}

\* The numbers in desired_status.
Expected == [k \in Kinds \cap DOMAIN Program.counts |-> Program.counts[k]]

ASSUME ExpectedAssumption ==
    /\ IsFiniteSet(Program.children)
    /\ {c[1] : c \in Observable} \subseteq DOMAIN Expected
    /\ \A k \in DOMAIN Expected : Cardinality({c \in Observable : c[1] = k}) = Expected[k]

VARIABLES
    minioParams,  \* kubeflow/minio-params: 0 if it is not there, or its version
    release,      \* the release of the webhook that its Deployment asks for
    hooks,        \* the running pods of the webhook: [release, creds]
    enabled,      \* the label pipelines.kubeflow.org/enabled is "true"
    child,        \* the content of every child of a namespace, 0 if not there
    ready,        \* status kubeflow-pipelines-ready is "True"
    sync,         \* where metacontroller stands with a namespace
    edits,        \* how often users have done something
    calm          \* pods stay up and calls go through from now on

webhook == <<minioParams, release, hooks>>
tenants == <<enabled, child, ready, sync>>
vars    == <<webhook, tenants, edits, calm>>

Params == INSTANCE SecretOnce WITH Values <- {1}, NoSecret <- 0,
                                   secret <- minioParams, offered <- {1}

Hook == [release : 1 .. MaxReleases, creds : 1 .. (1 + MaxRotations)]
NoHook == [release |-> 0, creds |-> 0]

\* What a pod wants a child to contain: the images have its release, the
\* secret has the credentials from its environment, the rest is fixed.
Content(hook, c) == CASE c[1] = "Deployment" -> hook.release
                      [] c[1] = "Secret"     -> hook.creds
                      [] OTHER               -> 1

\* desired_status: the counts of what was observed.
\* (Fault: one of a kind is enough.)
Ready_some(observed) ==
    \A k \in DOMAIN Expected : {c \in observed : c[1] = k} # {}

Ready(observed) ==
    \A k \in DOMAIN Expected : Cardinality({c \in observed : c[1] = k}) = Expected[k]

-----------------------------------------------------------------------------
Rest == [phase |-> "idle", enabled |-> FALSE, observed |-> {}, hook |-> NoHook,
         pending |-> {}]

Init == /\ minioParams = 0
        /\ release = 1
        /\ hooks = {}
        /\ enabled \in [Namespaces -> BOOLEAN]
        /\ child = [n \in Namespaces |-> [c \in Children |-> 0]]
        /\ ready = [n \in Namespaces |-> FALSE]
        /\ sync = [n \in Namespaces |-> Rest]
        /\ edits = 0
        /\ calm = FALSE

-----------------------------------------------------------------------------
(* The webhook's pods.                                                     *)

\* The minio-config job writes the credentials, once.
StoreParams == Params!Write /\ UNCHANGED <<release, hooks, tenants, edits, calm>>

\* A container starts when the secret it takes its environment from is there.
\* (Faults: the environment is optional; there is a default for it.)
StartHook_unset == /\ \A h \in hooks : h.release # release
                   /\ hooks' = hooks \cup {[release |-> release, creds |-> minioParams]}
                   /\ UNCHANGED <<minioParams, release, tenants, edits, calm>>

StartHook_default ==
    /\ \A h \in hooks : h.release # release
    /\ hooks' = hooks \cup
          {[ release |-> release,
             creds   |-> IF minioParams = 0 THEN 1 + MaxRotations ELSE minioParams ]}
    /\ UNCHANGED <<minioParams, release, tenants, edits, calm>>

StartHook == /\ minioParams # 0
             /\ \A h \in hooks : h.release # release
             /\ hooks' = hooks \cup {[release |-> release, creds |-> minioParams]}
             /\ UNCHANGED <<minioParams, release, tenants, edits, calm>>

\* The rollout ends an old pod when a new one serves.
StopHook == \E h, g \in hooks :
                /\ h.release # release /\ g.release = release
                /\ hooks' = hooks \ {h}
                /\ UNCHANGED <<minioParams, release, tenants, edits, calm>>

HookDies == \E h \in hooks :
                /\ hooks' = hooks \ {h}
                /\ UNCHANGED <<minioParams, release, tenants, edits, calm>>

\* A new release is deployed.
Deploy == /\ release < MaxReleases
          /\ release' = release + 1
          /\ UNCHANGED <<minioParams, hooks, tenants, edits, calm>>

\* The administrator deletes minio-params and has the job write another one.
Rotate == /\ minioParams \in 1 .. MaxRotations
          /\ minioParams' = minioParams + 1
          /\ UNCHANGED <<release, hooks, tenants, edits, calm>>

-----------------------------------------------------------------------------
(* metacontroller and a namespace.                                         *)

\* It looks at the namespace and at its children of the declared kinds.
Observe(n) ==
    /\ sync[n].phase = "idle"
    /\ sync' = [sync EXCEPT ![n] =
           [Rest EXCEPT !.phase = "asked", !.enabled = enabled[n],
                        !.observed = {c \in Observable : child[n][c] # 0}]]
    /\ UNCHANGED <<webhook, enabled, child, ready, edits, calm>>

\* sync() of one of the pods: nothing is wanted, or all the children.
Answer(n) ==
    /\ sync[n].phase = "asked"
    /\ \E h \in hooks :
          sync' = [sync EXCEPT ![n].phase = "manage",
                      ![n].hook = IF sync[n].enabled THEN h ELSE NoHook,
                      ![n].pending = IF sync[n].enabled THEN Children
                                     ELSE sync[n].observed]
    /\ UNCHANGED <<webhook, enabled, child, ready, edits, calm>>

\* No pod answers, or metacontroller itself is restarted.
Abandon(n) ==
    /\ sync[n].phase # "idle"
    /\ sync' = [sync EXCEPT ![n] = Rest]
    /\ UNCHANGED <<webhook, enabled, child, ready, edits, calm>>

Done(n, c) == /\ sync[n].phase = "manage"
              /\ c \in sync[n].pending
              /\ sync' = [sync EXCEPT ![n].pending = @ \ {c}]
              /\ UNCHANGED <<webhook, enabled, ready, edits, calm>>

Wanted(n) == sync[n].hook # NoHook

\* What was seen and is not wanted is deleted.
DeleteChild(n, c) == /\ ~Wanted(n)
                     /\ child' = [child EXCEPT ![n][c] = 0]
                     /\ Done(n, c)

\* What is wanted and was not seen is created; what is there all the same,
\* always so with the kinds that are not declared, is left as it is.
CreateChild(n, c) ==
    /\ Wanted(n) /\ c \notin sync[n].observed
    /\ child' = [child EXCEPT ![n][c] = IF @ = 0 THEN Content(sync[n].hook, c) ELSE @]
    /\ Done(n, c)

\* What is wanted and was seen is updated, if its kind is, and if it is there.
UpdateChild(n, c) ==
    /\ Wanted(n) /\ c \in sync[n].observed
    /\ child' = [child EXCEPT ![n][c] =
                    IF c[1] \in InPlace /\ @ # 0 THEN Content(sync[n].hook, c) ELSE @]
    /\ Done(n, c)

\* The call fails; metacontroller goes on with the others.
ChildFails(n, c) == UNCHANGED child /\ Done(n, c)

\* The status is computed from what was observed, not from what was done.
SetStatus(n) == /\ sync[n].phase = "manage"
                /\ sync[n].pending = {}
                /\ ready' = [ready EXCEPT ![n] = Wanted(n) /\ Ready(sync[n].observed)]
                /\ sync' = [sync EXCEPT ![n] = Rest]
                /\ UNCHANGED <<webhook, enabled, child, edits, calm>>

-----------------------------------------------------------------------------
\* A user sets or removes the label, or deletes a child.
Edit(n) == /\ edits < MaxEdits
           /\ edits' = edits + 1
           /\ \/ enabled' = [enabled EXCEPT ![n] = ~@] /\ UNCHANGED child
              \/ \E c \in Children : /\ child[n][c] # 0
                                     /\ child' = [child EXCEPT ![n][c] = 0]
                                     /\ UNCHANGED enabled
           /\ UNCHANGED <<webhook, ready, sync, calm>>

SyncStep(n) == \/ Observe(n)
               \/ Answer(n)
               \/ \E c \in Children : \/ DeleteChild(n, c)
                                      \/ CreateChild(n, c)
                                      \/ UpdateChild(n, c)
               \/ SetStatus(n)

HookStep == StoreParams \/ StartHook \/ StopHook

Fault == /\ ~calm
         /\ \/ HookDies
            \/ \E n \in Namespaces : \/ Abandon(n)
                                     \/ \E c \in Children : ChildFails(n, c)

\* The last fault has been.
CalmDown == /\ ~calm
            /\ calm' = TRUE
            /\ UNCHANGED <<webhook, tenants, edits>>

Next == \/ HookStep
        \/ Deploy
        \/ Rotate
        \/ \E n \in Namespaces : SyncStep(n) \/ Edit(n)
        \/ Fault
        \/ CalmDown

Spec == Init /\ [][Next]_vars

\* The pods are scheduled, every namespace is looked at again (every 10
\* seconds), and at last calls go through and pods stay up.
Fairness == /\ WF_vars(StoreParams)
            /\ WF_vars(StartHook)
            /\ WF_vars(StopHook)
            /\ \A n \in Namespaces : WF_vars(SyncStep(n))
            /\ WF_vars(CalmDown)

FairSpec == Spec /\ Fairness

-----------------------------------------------------------------------------
Versions == 0 .. (1 + MaxRotations + MaxReleases)

\* The values every variable may take.
TypeOK == /\ minioParams \in 0 .. (1 + MaxRotations)
          /\ release \in 1 .. MaxReleases
          /\ hooks \subseteq Hook
          /\ enabled \in [Namespaces -> BOOLEAN]
          /\ child \in [Namespaces -> [Children -> Versions]]
          /\ ready \in [Namespaces -> BOOLEAN]
          /\ sync \in [Namespaces -> [ phase    : {"idle", "asked", "manage"},
                                       enabled  : BOOLEAN,
                                       observed : SUBSET Observable,
                                       hook     : Hook \cup {NoHook},
                                       pending  : SUBSET Children ]]
          /\ edits \in 0 .. MaxEdits
          /\ calm \in BOOLEAN

\* As long as the credentials are what the minio-config job promises, written
\* once, all namespaces have the same ones, and those of the cluster, whichever
\* pod has made a secret, in whichever round (sync.py 22-31, 264-278).
CopiesAgree ==
    minioParams <= 1 => \A n \in Namespaces : Copy \in Children =>
                            child[n][Copy] \in {0, minioParams}

\* A user's workload never sees the credentials of its namespace change: they
\* go only when somebody deletes them or the label, also after a rotation, and
\* whatever pod answers (composite-controller.yaml 12-15).
CopyIsStable ==
    [][\A n \in Namespaces : Copy \in Children /\ child[n][Copy] # 0 =>
          child'[n][Copy] \in {0, child[n][Copy]}]_vars

\* As long as users keep off, a namespace that is said to be ready has all its
\* declared children, whatever has failed and been repeated, though the status
\* is one of an earlier moment (sync.py 44-53).
ReadyIsComplete ==
    edits = 0 => \A n \in Namespaces : ready[n] =>
                     \A c \in Observable : child[n][c] # 0

\* An enabled namespace is ready and complete, its Deployments as the current
\* release wants them; any other is not, and has nothing metacontroller knows of.
Settled(n) ==
    IF enabled[n]
    THEN /\ ready[n]
         /\ \A c \in Children : child[n][c] # 0
         /\ \A c \in Children : c[1] = "Deployment" => child[n][c] = release
    ELSE /\ ~ready[n]
         /\ \A c \in Observable : child[n][c] = 0

\* At last every namespace is settled for good, whatever was rolled out, failed,
\* labelled or deleted while a round was under way (sync.py 36-53, 326).
Converges == <>[](\A n \in Namespaces : Settled(n))

=============================================================================
