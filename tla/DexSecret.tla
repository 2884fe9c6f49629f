----------------------------- MODULE DexSecret -----------------------------
(***************************************************************************)
(* bootstrap/components/dex-secret-ldap: the Job dex-secret-generator      *)
(* reads the cluster's LDAP or Active Directory settings, turns them into  *)
(* a Dex connector, and creates the secret auth/dex-config-secret.  When   *)
(* there are no settings, Dex gets a static password instead.              *)
(*                                                                         *)
(* The script reads the settings, then looks whether its own secret is     *)
(* there, then creates it: three calls, between which the pod may crash,   *)
(* another pod may run and the administrator may edit the settings.        *)
(***************************************************************************)
EXTENDS KubeJob, Sequences

CONSTANTS Sources,   \* the settings that the administrator may give
          NoSecret,  \* a secret, or a part of one, that does not exist
          MaxEdits   \* bound on the edits of the settings

\* The data of hpecp-ext-auth-secret.  A field that is missing or empty is ""
\* or FALSE; groups are the ::::-separated entries, each split at its commas.
Source == [ type       : STRING,    \* "LDAP", "Active Directory"
            protocol   : STRING,    \* security_protocol: "none", "ldaps", "starttls"
            bindType   : STRING,    \* "search_bind"
            host       : BOOLEAN,   \* auth_service_locations
            bindDN     : BOOLEAN,
            bindPwd    : STRING,
            caCert     : BOOLEAN,
            userSearch : BOOLEAN,   \* base_dn and user_attr
            groups     : Seq(Seq(STRING)) ]

ASSUME DexSecretAssumption ==
    /\ MaxEdits \in Nat
    /\ Sources \subseteq Source
    /\ \A s \in Sources : \A i \in DOMAIN s.groups : Len(s.groups[i]) > 0
    /\ NoSecret \notin Sources

VARIABLES
    ext,        \* the settings (hpecp/hpecp-ext-auth-secret)
    edits,      \* how often the administrator has edited them
    seen,       \* history: every value that ext has had
    dexSecret,  \* the secret auth/dex-config-secret
    pods        \* the pods of the Job: [pc, lost, data]

vars == <<ext, edits, seen, dexSecret, pods>>

-----------------------------------------------------------------------------
\* get_group_search_configured takes the base DN from the first group that
\* does not say "none", and raises an IndexError on a group without a comma
\* that it comes to before.
Deciding(groups) == {i \in DOMAIN groups : Len(groups[i]) < 2 \/ groups[i][2] # "none"}

First(indices) == CHOOSE i \in indices : \A j \in indices : i <= j

GroupsReadable(groups) ==
    IF Len(groups) = 1 THEN Len(groups[1]) >= 2
    ELSE Deciding(groups) # {} => Len(groups[First(Deciding(groups))]) >= 2

GroupBaseDN(groups) ==
    IF Len(groups) = 1           THEN groups[1][2]
    ELSE IF Deciding(groups) = {} THEN "none"
    ELSE groups[First(Deciding(groups))][2]

GroupSearch(groups) ==
    IF groups = << >> THEN NoSecret
    ELSE [ baseDN |-> GroupBaseDN(groups),
           filter |-> {groups[i][1] : i \in DOMAIN groups} ]

\* get_security_configured: without TLS, with TLS, or with STARTTLS.
\* (Fault: the return of the case "none" is missing.)
Security_fallsThrough(s) == [ startTLS           |-> s.protocol = "starttls",
                              insecureNoSSL      |-> FALSE,
                              insecureSkipVerify |-> ~s.caCert,
                              rootCAData         |-> s.caCert ]

Security(s) ==
    IF s.protocol = "none"
    THEN [ startTLS |-> FALSE, insecureNoSSL |-> TRUE,
           insecureSkipVerify |-> TRUE, rootCAData |-> FALSE ]
    ELSE [ startTLS           |-> s.protocol = "starttls",
           insecureNoSSL      |-> FALSE,
           insecureSkipVerify |-> ~s.caCert,
           rootCAData         |-> s.caCert ]

\* get_connector_for_ldap, get_connector_for_ad; bindPW says whether the
\* connector refers to the password that is stored next to it.
Connector(s) == [ server      |-> s.type,
                  security    |-> Security(s),
                  bindPW      |-> s.bindDN,
                  groupSearch |-> GroupSearch(s.groups) ]

\* The script gets to the end of the connector without sys.exit or exception.
Accepted(s) == /\ s.type \in {"LDAP", "Active Directory"}
               /\ s.protocol # ""
               /\ s.bindType = "search_bind"
               /\ s.host
               /\ s.bindDN => s.bindPwd # ""
               /\ s.userSearch
               /\ GroupsReadable(s.groups)

Usable(e) == e # NoSecret => Accepted(e)

\* enablePasswordDB and the static password of admin.
Fallback == [connector |-> NoSecret, bindPW |-> ""]

\* (Fault: the password is taken although the search is anonymous.)
DataFor_anyPassword(e) ==
    IF e = NoSecret THEN Fallback
    ELSE [connector |-> Connector(e), bindPW |-> e.bindPwd]

DataFor(e) ==
    IF e = NoSecret THEN Fallback
    ELSE [ connector |-> Connector(e),
           bindPW    |-> IF e.bindDN THEN e.bindPwd ELSE "" ]

Values == {DataFor(e) : e \in {x \in Sources \cup {NoSecret} : Usable(x)}}

ASSUME NoSecretAssumption ==
    /\ NoSecret \notin Values
    /\ \A s \in Sources : Accepted(s) => Connector(s) # NoSecret

Offered == {DataFor(e) : e \in {x \in seen : Usable(x)}}

-----------------------------------------------------------------------------
NewPod == [pc |-> "idle", lost |-> FALSE, data |-> NoSecret]

Init == /\ ext \in Sources \cup {NoSecret}
        /\ edits = 0
        /\ seen = {ext}
        /\ dexSecret = NoSecret
        /\ pods = [p \in Pods |-> NewPod]

Goto(p, label) == pods' = [pods EXCEPT ![p].pc = label]

\* The Job controller starts a pod, for the first time or after a failure.
StartPod(p) == /\ ~JobComplete(pods)
               /\ MayStart(pods, p)
               /\ Goto(p, "read")
               /\ UNCHANGED <<ext, edits, seen, dexSecret>>

\* read_namespaced_secret and the whole connector, or on a 404 the password.
ReadSettings(p) == /\ pods[p].pc = "read"
                   /\ Usable(ext)
                   /\ pods' = [pods EXCEPT ![p].pc = "check",
                                           ![p].data = DataFor(ext)]
                   /\ UNCHANGED <<ext, edits, seen, dexSecret>>

\* A field is missing or not supported: sys.exit or an exception.
\* (Fault: the script goes on with what it has of the connector.)
RejectSettings_goesOn(p) ==
    /\ pods[p].pc = "read"
    /\ ~Usable(ext)
    /\ pods' = [pods EXCEPT ![p].pc = "check",
                            ![p].data = [connector |-> [server |-> ext.type],
                                         bindPW |-> ""]]
    /\ UNCHANGED <<ext, edits, seen, dexSecret>>

RejectSettings(p) == /\ pods[p].pc = "read"
                     /\ ~Usable(ext)
                     /\ Goto(p, "failed")
                     /\ UNCHANGED <<ext, edits, seen, dexSecret>>

\* Is dex-config-secret there already?  An exception if it is.
\* (Fault: it is not looked for.)
CheckSecret_skipped(p) == /\ pods[p].pc = "check"
                          /\ Goto(p, "create")
                          /\ UNCHANGED <<ext, edits, seen, dexSecret>>

CheckSecret(p) == /\ pods[p].pc = "check"
                  /\ Goto(p, IF dexSecret = NoSecret THEN "create" ELSE "failed")
                  /\ UNCHANGED <<ext, edits, seen, dexSecret>>

\* create_namespaced_secret.  The reply may be lost after the secret is stored.
CreateSecret(p) == /\ pods[p].pc = "create"
                   /\ dexSecret = NoSecret
                   /\ dexSecret' = pods[p].data
                   /\ \E label \in {"succeeded", "failed"} : Goto(p, label)
                   /\ UNCHANGED <<ext, edits, seen>>

\* Another pod was faster: 409, which nothing catches.
\* (Fault: the secret is replaced.)
CreateConflict_replaces(p) == /\ pods[p].pc = "create"
                              /\ dexSecret # NoSecret
                              /\ dexSecret' = pods[p].data
                              /\ Goto(p, "failed")
                              /\ UNCHANGED <<ext, edits, seen>>

CreateConflict(p) == /\ pods[p].pc = "create"
                     /\ dexSecret # NoSecret
                     /\ Goto(p, "failed")
                     /\ UNCHANGED <<ext, edits, seen, dexSecret>>

\* A call fails without effect (any other ApiException), or the pod dies.
PodFails(p) == /\ Running(pods[p])
               /\ Goto(p, "failed")
               /\ UNCHANGED <<ext, edits, seen, dexSecret>>

\* The node stops answering: the controller gives the pod up, its process runs on.
NodeLost(p) == /\ Running(pods[p])
               /\ ~pods[p].lost
               /\ pods' = [pods EXCEPT ![p].lost = TRUE]
               /\ UNCHANGED <<ext, edits, seen, dexSecret>>

\* The administrator creates, edits or deletes the settings.
EditSettings == /\ edits < MaxEdits
                /\ edits' = edits + 1
                /\ ext' \in (Sources \cup {NoSecret}) \ {ext}
                /\ seen' = seen \cup {ext'}
                /\ UNCHANGED <<dexSecret, pods>>

PodStep(p) == \/ ReadSettings(p)
              \/ RejectSettings(p)
              \/ CheckSecret(p)
              \/ CreateSecret(p)
              \/ CreateConflict(p)

Next == \/ \E p \in Pods : \/ StartPod(p)
                           \/ PodStep(p)
                           \/ PodFails(p)
                           \/ NodeLost(p)
        \/ EditSettings

Spec == Init /\ [][Next]_vars

-----------------------------------------------------------------------------
PodState == [pc   : {"idle", "read", "check", "create", "succeeded", "failed"},
             lost : BOOLEAN,
             data : Values \cup {NoSecret}]

\* The values every variable may take.
TypeOK == /\ ext \in Sources \cup {NoSecret}
          /\ edits \in 0 .. MaxEdits
          /\ seen \subseteq Sources \cup {NoSecret}
          /\ dexSecret \in Values \cup {NoSecret}
          /\ pods \in [Pods -> PodState]

\* A connector never speaks without TLS, or refers to a password, or leaves
\* one out, unless one and the same earlier version of the settings, which was
\* complete, says so; and the static password stands only if there were no
\* settings at some moment (entrypoint.py 88-142, 236-291).
ConnectorJustified ==
    dexSecret # NoSecret =>
        LET c == dexSecret.connector
        IN IF c = NoSecret THEN NoSecret \in seen
           ELSE \E s \in seen \ {NoSecret} :
                    /\ s.host /\ s.userSearch
                    /\ c.server = s.type
                    /\ c.security.insecureNoSSL <=> s.protocol = "none"
                    /\ c.security.startTLS => ~c.security.insecureNoSSL
                    /\ c.security.rootCAData <=> ~c.security.insecureSkipVerify
                    /\ c.bindPW <=> dexSecret.bindPW # ""
                    /\ dexSecret.bindPW \in {"", s.bindPwd}

\* Of all the pods that run the script at most one exits 0, and what it wrote
\* is what stands in dex-config-secret (entrypoint.py 271-293).
SuccessIsOwnWrite ==
    \A p \in Pods : pods[p].pc = "succeeded" =>
        /\ dexSecret = pods[p].data
        /\ \A q \in Pods \ {p} : pods[q].pc # "succeeded"

\* The look before the create does its work unless two pods overlap: a pod is
\* about to create what exists only after some node was lost
\* (entrypoint.py 271-279).
ConflictNeedsOverlap ==
    \A p \in Pods : pods[p].pc = "create" /\ dexSecret # NoSecret =>
        \E q \in Pods : pods[q].lost

\* Dex's view: the configuration is written once, with an offered value.
Promise == INSTANCE SecretOnce WITH secret <- dexSecret, offered <- Offered
ImplementsSecretOnce == Promise!Spec

\* What the comment in get_group_search_configured says of the groups: the
\* base DN of the search is verified to be the one of every group.
GroupsShareBase ==
    dexSecret # NoSecret /\ dexSecret.connector # NoSecret
      /\ dexSecret.connector.groupSearch # NoSecret =>
        \E s \in seen \ {NoSecret} :
            /\ DataFor(s) = dexSecret
            /\ \A i \in DOMAIN s.groups :
                  s.groups[i][2] \in {"none", dexSecret.connector.groupSearch.baseDN}

=============================================================================
