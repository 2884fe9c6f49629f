----------------------------- MODULE Bootstrap -----------------------------
(***************************************************************************)
(* The bootstrap as a whole, up to the end of the installer: the script    *)
(* bootstrap/install.sh that an administrator runs, perhaps several times; *)
(* the installer Job that it creates (Installer); and the minio-config Job *)
(* that the installer creates and does not wait for, of which only the     *)
(* promise of SecretOnce is used.                                          *)
(*                                                                         *)
(* The installer and the minio-config job both look whether there is an    *)
(* external MinIO, each when it comes to it.  One then brings a MinIO or   *)
(* does not, the other one writes its address.                             *)
(***************************************************************************)
EXTENDS Installer

CONSTANT MaxAttempts    \* bound on the runs of install.sh

ASSUME BootstrapAssumption == /\ MaxAttempts \in Nat
                              /\ "minio-config" \in InBlock["jobs"]

VARIABLES
    place,        \* the call that install.sh comes to, or "idle"
    attempts,     \* how often it has been started
    tls,          \* it has been given a certificate
    inNamespace,  \* what there is of the jobs' namespace and in it
    preparedFor,  \* history: the tls of the run that made the namespace
    offered,      \* the MinIOs that the minio-config job may have seen,
                  \* none as long as there is no such job
    minioParams   \* the MinIO in the secret minio-params, or "none"

install   == <<place, attempts, tls, inNamespace, preparedFor>>
minio     == <<offered, minioParams>>
bootVars  == <<vars, install, minio>>

MinIOs == {"bundled", "external"}

Params == INSTANCE SecretOnce WITH Values <- MinIOs, NoSecret <- "none",
                                   secret <- minioParams

Objects == {"namespace", "certificate", "pullSecret", "installer"}

-----------------------------------------------------------------------------
BootInit == /\ Init
            /\ place = "idle"
            /\ attempts = 0
            /\ tls = FALSE
            /\ inNamespace = {}
            /\ preparedFor = FALSE
            /\ offered = {}
            /\ minioParams = "none"

\* The script is started; test_env_vars ends it if the settings do not fit.
Launch == /\ place = "idle"
          /\ attempts < MaxAttempts
          /\ attempts' = attempts + 1
          /\ tls' \in BOOLEAN
          /\ place' \in {"namespace", "idle"}
          /\ UNCHANGED <<vars, inNamespace, preparedFor, minio>>

\* kubectl create ns, which fails if there is one.
\* (Fault: a namespace that is there is good enough.)
CreateNamespace_ifMissing ==
    /\ place = "namespace"
    /\ inNamespace' = inNamespace \cup {"namespace"}
    /\ preparedFor' = IF "namespace" \in inNamespace THEN preparedFor ELSE tls
    /\ place' = IF tls THEN "certificate" ELSE "pullSecret"
    /\ UNCHANGED <<vars, attempts, tls, minio>>

CreateNamespace ==
    /\ place = "namespace"
    /\ "namespace" \notin inNamespace
    /\ inNamespace' = inNamespace \cup {"namespace"}
    /\ preparedFor' = tls
    /\ place' = IF tls THEN "certificate" ELSE "pullSecret"
    /\ UNCHANGED <<vars, attempts, tls, minio>>

\* The certificate is copied or made, the pull secret and the installer applied.
PutInNamespace(object, next) ==
    /\ place = object
    /\ inNamespace' = inNamespace \cup {object}
    /\ place' = next
    /\ UNCHANGED <<vars, attempts, tls, preparedFor, minio>>

\* set -e: a call fails, of which the API server may have done its part.
CallFails ==
    /\ place # "idle"
    /\ inNamespace' \in {inNamespace, inNamespace \cup {place}}
    /\ preparedFor' = IF inNamespace = {} THEN tls ELSE preparedFor
    /\ place' = "idle"
    /\ UNCHANGED <<vars, attempts, tls, minio>>

\* The administrator removes what a failed run has left.
RemoveNamespace ==
    /\ place = "idle"
    /\ "installer" \notin inNamespace
    /\ inNamespace # {}
    /\ inNamespace' = {}
    /\ UNCHANGED <<vars, place, attempts, tls, preparedFor, minio>>

InstallScript == \/ Launch
                 \/ CreateNamespace
                 \/ PutInNamespace("certificate", "pullSecret")
                 \/ PutInNamespace("pullSecret", "installer")
                 \/ PutInNamespace("installer", "idle")
                 \/ CallFails
                 \/ RemoveNamespace

-----------------------------------------------------------------------------
\* default_config.json names the MinIO that the installer brings.
Named(present) == IF present THEN "external" ELSE "bundled"

\* Once there is a minio-config job, it may see what there is at any moment.
\* An apply that fails may have created it.
Watch ==
    \/ /\ offered # {} \/ "minio-config" \in applied'
       /\ offered' = offered \cup {Named(external')}
    \/ /\ offered = {} /\ "minio-config" \notin applied'
       /\ offered' = {}
    \/ /\ offered = {} /\ ApplyFails /\ Current = "minio-config"
       /\ offered' = {Named(external')}

InstallerStep == /\ "installer" \in inNamespace
                 /\ StartPod \/ ScriptStep \/ PodDies
                 /\ Watch
                 /\ UNCHANGED <<install, minioParams>>

ChangeExternal == ToggleExternal /\ Watch /\ UNCHANGED <<install, minioParams>>

\* The minio-config job creates minio-params.
WriteParams == Params!Write /\ UNCHANGED <<vars, install>>

BootNext == \/ InstallScript
            \/ InstallerStep
            \/ ChangeExternal
            \/ WriteParams

BootSpec == BootInit /\ [][BootNext]_bootVars

-----------------------------------------------------------------------------
\* The values the variables beside the installer's may take.
BootTypeOK == /\ TypeOK
              /\ place \in {"idle"} \cup Objects
              /\ attempts \in 0 .. MaxAttempts
              /\ tls \in BOOLEAN
              /\ inNamespace \subseteq Objects
              /\ preparedFor \in BOOLEAN
              /\ offered \subseteq MinIOs
              /\ minioParams \in {"none"} \cup MinIOs

\* The namespace in which the installer runs is the work of one run of
\* install.sh, whatever runs there were before, how they failed, and which
\* run comes after: it has the pull secret, and a certificate exactly if that
\* run was given one (install.sh 67-77).
OneRunPrepares ==
    "installer" \in inNamespace =>
        /\ {"namespace", "pullSecret"} \subseteq inNamespace
        /\ "certificate" \in inNamespace <=> preparedFor

Decided == phase \in {"head", "minio", "middle", "dashboard", "dashboardNoLink",
                      "tail", "prism", "patch", "succeeded"}

\* The installer and the minio-config job disagree only for a reason.  There
\* is a bundled MinIO that nobody uses, since minio-params names the external
\* one, only if the external secret has come or gone since the job was created,
\* or a call of the installer that asked for the secret failed while it existed
\* (the minio-config job does not take a failed call for an answer).  And the
\* installer has decided against the bundled MinIO that minio-params names only
\* if the secret has come or gone: no failed call can bring that about
\* (installer/entrypoint.sh 12-16, 81, 91; minio-config/entrypoint.py 22-66).
MinioAgrees ==
    /\ minioParams = "external" /\ InBlock["minio"] \cap applied # {} =>
          offered = MinIOs \/ misread
    /\ minioParams = "bundled" /\ Decided /\ ~installMinio => offered = MinIOs
=============================================================================
