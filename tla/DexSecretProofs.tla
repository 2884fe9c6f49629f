-------------------------- MODULE DexSecretProofs --------------------------
(***************************************************************************)
(* For all settings, every number of pods and every number of edits: the   *)
(* invariants of DexSecret hold, and DexSecret implements SecretOnce.      *)
(*                                                                         *)
(* The inductive invariant says of a pod that is past the reading that it  *)
(* holds an offered value, of an exit 0 that it left the pod's own value   *)
(* behind, and of the Job that its pods start one after the other: that is *)
(* why a conflict needs a lost node.                                       *)
(***************************************************************************)
EXTENDS DexSecret, TLAPS

\* What a pod is about to store was offered when it read the settings.
HeldWasOffered ==
    \A p \in Pods : pods[p].pc \in {"check", "create"} => pods[p].data \in Offered

\* What is stored was offered.
StoredWasOffered == dexSecret # NoSecret => dexSecret \in Offered

\* History is complete.
SeenExt == ext \in seen

\* An exit 0 left the pod's own value behind.
SuccessStored == \A p \in Pods : pods[p].pc = "succeeded" =>
                    dexSecret = pods[p].data /\ dexSecret # NoSecret

OneSuccess == \A p, q \in Pods :
                 pods[p].pc = "succeeded" /\ pods[q].pc = "succeeded" => p = q

\* A pod starts only when every pod before it has failed or is given up.
OneAtATime == \A p, q \in Pods :
                 q < p /\ pods[p].pc # "idle" => pods[q].pc = "failed" \/ pods[q].lost

IInv == /\ TypeOK
        /\ SeenExt
        /\ HeldWasOffered
        /\ StoredWasOffered
        /\ SuccessStored
        /\ OneSuccess
        /\ OneAtATime
        /\ ConflictNeedsOverlap

-----------------------------------------------------------------------------
\* A usable value of the source yields a value that is not NoSecret.
LEMMA DataForIsValue ==
    ASSUME NEW e \in Sources \cup {NoSecret}, Usable(e)
    PROVE  DataFor(e) \in Values /\ DataFor(e) # NoSecret
  BY NoSecretAssumption DEF Values

\* What is offered is a value.
LEMMA OfferedIsValue ==
    ASSUME TypeOK, NEW v \in Offered
    PROVE  v \in Values /\ v # NoSecret
  BY DataForIsValue DEF Offered, TypeOK

\* The initial states satisfy the inductive invariant.
LEMMA InitIInv == Init => IInv
  <1> SUFFICES ASSUME Init PROVE IInv
    OBVIOUS
  <1>1. TypeOK
    BY DexSecretAssumption DEF Init, TypeOK, NewPod, PodState
  <1>2. \A p \in Pods : pods[p].pc = "idle"
    BY DEF Init, NewPod
  <1> QED
    BY <1>1, <1>2 DEF Init, IInv, SeenExt, HeldWasOffered, StoredWasOffered,
                      SuccessStored, OneSuccess, OneAtATime, ConflictNeedsOverlap

-----------------------------------------------------------------------------
(* One lemma per kind of step.                                             *)

\* A step that moves one running pod to "failed", or to "create" while no
\* secret is there, keeps the invariant.
LEMMA MoveKeeps ==
    ASSUME IInv, NEW p \in Pods,
           NEW label \in {"create", "failed"},
           Running(pods[p]),
           label = "create" => pods[p].pc = "check" /\ dexSecret = NoSecret,
           Goto(p, label), UNCHANGED <<ext, edits, seen, dexSecret>>
    PROVE  IInv'
  <1> USE DEF IInv
  <1>1. TypeOK'
    BY DEF TypeOK, Goto, PodState
  <1>2. Offered' = Offered
    BY DEF Offered
  <1>3. \A q \in Pods : /\ pods'[q].data = pods[q].data
                        /\ pods'[q].lost = pods[q].lost
                        /\ q # p => pods'[q].pc = pods[q].pc
                        /\ q = p => pods'[q].pc = label
    BY DEF TypeOK, Goto, PodState
  <1>4. HeldWasOffered' /\ StoredWasOffered' /\ SeenExt'
    BY <1>2, <1>3 DEF HeldWasOffered, StoredWasOffered, SeenExt
  <1>5. SuccessStored' /\ OneSuccess'
    BY <1>3 DEF SuccessStored, OneSuccess
  <1>6. pods[p].pc # "idle" /\ pods[p].pc # "failed"
    BY DEF Running, Idle, Ended
  <1>7. OneAtATime'
    BY <1>3, <1>6 DEF OneAtATime
  <1>8. ConflictNeedsOverlap'
    BY <1>3 DEF ConflictNeedsOverlap
  <1> QED BY <1>1, <1>4, <1>5, <1>7, <1>8

\* A started pod has only failed and lost pods before it.
LEMMA StartKeeps ==
    ASSUME IInv, NEW p \in Pods, StartPod(p)
    PROVE  IInv'
  <1> USE DEF IInv
  <1>1. TypeOK'
    BY DEF TypeOK, StartPod, Goto, PodState
  <1>2. Offered' = Offered
    BY DEF Offered, StartPod
  <1>3. \A q \in Pods : /\ pods'[q].data = pods[q].data
                        /\ pods'[q].lost = pods[q].lost
                        /\ q # p => pods'[q].pc = pods[q].pc
                        /\ q = p => pods'[q].pc = "read"
    BY DEF TypeOK, StartPod, Goto, PodState
  <1>4. HeldWasOffered' /\ StoredWasOffered' /\ SeenExt'
    BY <1>2, <1>3 DEF HeldWasOffered, StoredWasOffered, SeenExt, StartPod
  <1>5. SuccessStored' /\ OneSuccess'
    BY <1>3 DEF SuccessStored, OneSuccess, StartPod
  <1>6. pods[p].pc = "idle"
    BY DEF StartPod, MayStart, Idle
  <1>7. \A q \in Pods : q < p => pods[q].pc = "failed" \/ pods[q].lost
    BY BackoffLimitAssumption DEF StartPod, MayStart, Failures, Pods
  <1>8. OneAtATime'
    BY <1>3, <1>6, <1>7 DEF OneAtATime
  <1>9. ConflictNeedsOverlap'
    BY <1>3 DEF ConflictNeedsOverlap, StartPod
  <1> QED BY <1>1, <1>4, <1>5, <1>8, <1>9

\* Reading takes over an offered value, because ext is in the history.
LEMMA ReadKeeps ==
    ASSUME IInv, NEW p \in Pods, ReadSettings(p)
    PROVE  IInv'
  <1> USE DEF IInv
  <1>1. ext \in Sources \cup {NoSecret} /\ Usable(ext) /\ ext \in seen
    BY DEF TypeOK, SeenExt, ReadSettings
  <1>2. DataFor(ext) \in Values /\ DataFor(ext) \in Offered
    BY <1>1, DataForIsValue DEF Offered
  <1>3. Offered' = Offered
    BY DEF Offered, ReadSettings
  <1>4. TypeOK'
    BY <1>2 DEF TypeOK, ReadSettings, PodState
  <1>5. \A q \in Pods : /\ q # p => pods'[q] = pods[q]
                        /\ q = p => /\ pods'[q].pc = "check"
                                    /\ pods'[q].data = DataFor(ext)
                                    /\ pods'[q].lost = pods[q].lost
    BY DEF TypeOK, ReadSettings, PodState
  <1>6. HeldWasOffered'
    BY <1>2, <1>3, <1>5 DEF HeldWasOffered
  <1>7. dexSecret' = dexSecret /\ pods[p].pc = "read"
    BY DEF ReadSettings
  <1>8. SuccessStored' /\ OneSuccess'
    <2>1. \A q \in Pods : pods'[q].pc = "succeeded" =>
                             pods[q].pc = "succeeded" /\ pods'[q] = pods[q]
      BY <1>5
    <2> QED BY <1>7, <2>1 DEF SuccessStored, OneSuccess
  <1>9. StoredWasOffered' /\ SeenExt'
    BY <1>3 DEF StoredWasOffered, SeenExt, ReadSettings
  <1>10. OneAtATime'
    <2>1. \A q \in Pods : /\ pods'[q].lost = pods[q].lost
                          /\ pods[q].pc = "failed" => pods'[q].pc = "failed"
                          /\ pods'[q].pc # "idle" => pods[q].pc # "idle"
      BY <1>5, <1>7
    <2> QED BY <2>1 DEF OneAtATime
  <1>11. ConflictNeedsOverlap'
    <2>1. \A q \in Pods : /\ pods'[q].lost = pods[q].lost
                          /\ pods'[q].pc = "create" => pods[q].pc = "create"
      BY <1>5, <1>7
    <2> QED BY <1>7, <2>1 DEF ConflictNeedsOverlap
  <1> QED BY <1>4, <1>6, <1>8, <1>9, <1>10, <1>11

\* Creating stores what the pod holds.  Nobody has succeeded before, and
\* whoever else is about to create runs beside this pod: one of them is lost.
LEMMA CreateKeeps ==
    ASSUME IInv, NEW p \in Pods, CreateSecret(p)
    PROVE  IInv'
  <1> USE DEF IInv
  <1>1. PICK label \in {"succeeded", "failed"} : Goto(p, label)
    BY DEF CreateSecret
  <1>2. pods[p].data \in Offered
    BY DEF CreateSecret, HeldWasOffered
  <1>3. pods[p].data \in Values /\ pods[p].data # NoSecret
    BY <1>2, OfferedIsValue
  <1>4. Offered' = Offered
    BY DEF Offered, CreateSecret
  <1>5. TypeOK'
    BY <1>1, <1>3 DEF TypeOK, CreateSecret, Goto, PodState
  <1>6. \A q \in Pods : /\ pods'[q].data = pods[q].data
                        /\ pods'[q].lost = pods[q].lost
                        /\ q # p => pods'[q].pc = pods[q].pc
                        /\ q = p => pods'[q].pc = label
    BY <1>1 DEF TypeOK, Goto, PodState
  <1>7. \A q \in Pods : pods[q].pc # "succeeded"
    BY DEF CreateSecret, SuccessStored
  <1>8. HeldWasOffered'
    BY <1>1, <1>4, <1>6 DEF HeldWasOffered
  <1>9. StoredWasOffered' /\ SeenExt'
    BY <1>2, <1>4 DEF CreateSecret, StoredWasOffered, SeenExt
  <1>10. SuccessStored' /\ OneSuccess'
    BY <1>3, <1>6, <1>7 DEF CreateSecret, SuccessStored, OneSuccess
  <1>11. pods[p].pc = "create"
    BY DEF CreateSecret
  <1>12. OneAtATime'
    BY <1>1, <1>6, <1>11 DEF OneAtATime
  <1>13. ConflictNeedsOverlap'
    <2> SUFFICES ASSUME NEW q \in Pods, pods'[q].pc = "create"
                 PROVE  \E r \in Pods : pods'[r].lost
      BY DEF ConflictNeedsOverlap
    <2>1. q # p /\ pods[q].pc = "create"
      BY <1>1, <1>6
    <2>2. q < p \/ p < q
      BY <2>1, BackoffLimitAssumption DEF Pods
    <2>3. pods[q].lost \/ pods[p].lost
      BY <2>1, <2>2, <1>11 DEF OneAtATime
    <2> QED BY <2>3, <1>6
  <1> QED BY <1>5, <1>8, <1>9, <1>10, <1>12, <1>13

\* A lost node only makes the exceptions of the invariant more likely.
LEMMA NodeLostKeeps ==
    ASSUME IInv, NEW p \in Pods, NodeLost(p)
    PROVE  IInv'
  <1> USE DEF IInv
  <1>1. TypeOK'
    BY DEF TypeOK, NodeLost, PodState
  <1>2. Offered' = Offered
    BY DEF Offered, NodeLost
  <1>3. \A q \in Pods : /\ pods'[q].data = pods[q].data
                        /\ pods'[q].pc = pods[q].pc
                        /\ pods[q].lost => pods'[q].lost
    BY DEF TypeOK, NodeLost, PodState
  <1>4. HeldWasOffered' /\ StoredWasOffered' /\ SeenExt'
    BY <1>2, <1>3 DEF HeldWasOffered, StoredWasOffered, SeenExt, NodeLost
  <1>5. SuccessStored' /\ OneSuccess'
    BY <1>3 DEF SuccessStored, OneSuccess, NodeLost
  <1>6. OneAtATime' /\ ConflictNeedsOverlap'
    BY <1>3 DEF OneAtATime, ConflictNeedsOverlap, NodeLost
  <1> QED BY <1>1, <1>4, <1>5, <1>6

\* An edit of the settings only adds to what was offered.
LEMMA EditKeeps ==
    ASSUME IInv, EditSettings
    PROVE  IInv'
  <1> USE DEF IInv
  <1>1. TypeOK'
    BY DexSecretAssumption DEF TypeOK, EditSettings
  <1>2. Offered \subseteq Offered'
    BY DEF Offered, EditSettings
  <1>3. pods' = pods /\ dexSecret' = dexSecret
    BY DEF EditSettings
  <1>4. HeldWasOffered' /\ StoredWasOffered' /\ SuccessStored' /\ OneSuccess'
    BY <1>2, <1>3 DEF HeldWasOffered, StoredWasOffered, SuccessStored, OneSuccess
  <1>5. SeenExt' /\ OneAtATime' /\ ConflictNeedsOverlap'
    BY <1>3 DEF EditSettings, SeenExt, OneAtATime, ConflictNeedsOverlap
  <1> QED BY <1>1, <1>4, <1>5

\* Every step of the specification keeps the inductive invariant.
LEMMA NextIInv == IInv /\ [Next]_vars => IInv'
  <1> SUFFICES ASSUME IInv, [Next]_vars PROVE IInv'
    OBVIOUS
  <1>1. ASSUME NEW p \in Pods, StartPod(p) PROVE IInv'
    BY <1>1, StartKeeps
  <1>2. ASSUME NEW p \in Pods, ReadSettings(p) PROVE IInv'
    BY <1>2, ReadKeeps
  <1>3. ASSUME NEW p \in Pods, RejectSettings(p) PROVE IInv'
    BY <1>3, MoveKeeps DEF RejectSettings, Running, Idle, Ended
  <1>4. ASSUME NEW p \in Pods, CheckSecret(p) PROVE IInv'
    <2>1. CASE dexSecret = NoSecret
      BY <1>4, <2>1, MoveKeeps DEF CheckSecret, Running, Idle, Ended
    <2>2. CASE dexSecret # NoSecret
      BY <1>4, <2>2, MoveKeeps DEF CheckSecret, Running, Idle, Ended
    <2> QED BY <2>1, <2>2
  <1>5. ASSUME NEW p \in Pods, CreateSecret(p) PROVE IInv'
    BY <1>5, CreateKeeps
  <1>6. ASSUME NEW p \in Pods, CreateConflict(p) PROVE IInv'
    BY <1>6, MoveKeeps DEF CreateConflict, Running, Idle, Ended
  <1>7. ASSUME NEW p \in Pods, PodFails(p) PROVE IInv'
    BY <1>7, MoveKeeps DEF PodFails
  <1>8. ASSUME NEW p \in Pods, NodeLost(p) PROVE IInv'
    BY <1>8, NodeLostKeeps
  <1>9. CASE EditSettings
    BY <1>9, EditKeeps
  <1>10. CASE UNCHANGED vars
    BY <1>10 DEF IInv, TypeOK, SeenExt, HeldWasOffered, StoredWasOffered,
                 SuccessStored, OneSuccess, OneAtATime, ConflictNeedsOverlap,
                 Offered, vars
  <1> QED
    BY <1>1, <1>2, <1>3, <1>4, <1>5, <1>6, <1>7, <1>8, <1>9, <1>10
       DEF Next, PodStep

\* The inductive invariant holds in every reachable state.
LEMMA Inductive == Spec => []IInv
  BY InitIInv, NextIInv, PTL DEF Spec

-----------------------------------------------------------------------------
\* Every variable keeps its type, whatever the pods do.
THEOREM TypeCorrect == Spec => []TypeOK
  <1>1. IInv => TypeOK
    BY DEF IInv
  <1> QED BY Inductive, <1>1, PTL

\* Every part of the stored configuration is what one complete version of
\* the settings asked for (entrypoint.py 88-142, 236-291).
THEOREM ConnectorIsJustified == Spec => []ConnectorJustified
  <1>1. ASSUME IInv PROVE ConnectorJustified
    <2> SUFFICES ASSUME dexSecret # NoSecret PROVE ConnectorJustified
      BY DEF ConnectorJustified
    <2>1. PICK e \in seen : Usable(e) /\ dexSecret = DataFor(e)
      BY <1>1 DEF IInv, StoredWasOffered, Offered
    <2>2. CASE e = NoSecret
      BY <2>1, <2>2 DEF DataFor, Fallback, ConnectorJustified
    <2>3. CASE e # NoSecret
      <3>1. e \in Sources /\ Accepted(e)
        BY <1>1, <2>1, <2>3 DEF IInv, TypeOK, Usable
      <3>2. /\ dexSecret.connector = Connector(e)
            /\ dexSecret.bindPW = IF e.bindDN THEN e.bindPwd ELSE ""
        BY <2>1, <2>3 DEF DataFor
      <3>3. Connector(e) # NoSecret
        BY <3>1, NoSecretAssumption
      <3>4. e.caCert \in BOOLEAN /\ e.bindDN \in BOOLEAN
        BY <3>1, DexSecretAssumption DEF Source
      <3>5. /\ Connector(e).server = e.type
            /\ Connector(e).security = Security(e)
            /\ Connector(e).bindPW = e.bindDN
        BY DEF Connector
      <3>6. /\ e.host /\ e.userSearch
            /\ Security(e).insecureNoSSL <=> e.protocol = "none"
            /\ Security(e).startTLS => ~Security(e).insecureNoSSL
            /\ Security(e).rootCAData <=> ~Security(e).insecureSkipVerify
        BY <3>1, <3>4 DEF Accepted, Security
      <3>7. /\ e.bindDN <=> dexSecret.bindPW # ""
            /\ dexSecret.bindPW \in {"", e.bindPwd}
        BY <3>1, <3>2, <3>4 DEF Accepted
      <3> QED
        BY <2>1, <2>3, <3>2, <3>3, <3>5, <3>6, <3>7 DEF ConnectorJustified
    <2> QED BY <2>2, <2>3
  <1> QED BY Inductive, <1>1, PTL

\* Exit 0 means that this very pod wrote the secret (entrypoint.py 271-293).
THEOREM SuccessIsOwn == Spec => []SuccessIsOwnWrite
  <1>1. IInv => SuccessIsOwnWrite
    BY DEF IInv, SuccessStored, OneSuccess, SuccessIsOwnWrite
  <1> QED BY Inductive, <1>1, PTL

\* The look before the create leaves a conflict to pods that overlap
\* (entrypoint.py 271-279).
THEOREM ConflictTakesOverlap == Spec => []ConflictNeedsOverlap
  <1>1. IInv => ConflictNeedsOverlap
    BY DEF IInv
  <1> QED BY Inductive, <1>1, PTL

\* DexSecret implements SecretOnce: Dex sees a secret that is written at
\* most once, with a value that the settings offered.
THEOREM DexSecretImplementsSecretOnce == Spec => ImplementsSecretOnce
  <1>1. Init => Promise!Init
    BY InitIInv, OfferedIsValue DEF Init, Promise!Init, IInv
  <1>2. ASSUME IInv, IInv', [Next]_vars PROVE [Promise!Next]_(Promise!vars)
    <2> USE <1>2
    <2>1. Offered \subseteq Values /\ Offered' \subseteq Values
      <3>1. Offered \subseteq Values
        BY OfferedIsValue DEF IInv
      <3>2. TypeOK'
        BY DEF IInv
      <3>3. \A e \in seen' : Usable(e) => DataFor(e) \in Values
        BY <3>2, DataForIsValue DEF TypeOK
      <3> QED BY <3>1, <3>3 DEF Offered
    <2>2. CASE EditSettings
      <3>1. Offered \subseteq Offered' /\ dexSecret' = dexSecret
        BY <2>2 DEF Offered, EditSettings
      <3> QED BY <3>1, <2>1 DEF Promise!Next, Promise!Offer
    <2>3. ASSUME NEW p \in Pods, CreateSecret(p) PROVE Promise!Next
      <3>1. Offered' = Offered
        BY <2>3 DEF CreateSecret, Offered
      <3>2. dexSecret = NoSecret /\ dexSecret' \in Offered
        BY <2>3 DEF CreateSecret, IInv, HeldWasOffered
      <3> QED BY <3>1, <3>2 DEF Promise!Next, Promise!Write
    <2>4. ASSUME UNCHANGED <<seen, dexSecret>> PROVE UNCHANGED Promise!vars
      BY <2>4 DEF Offered, Promise!vars
    <2> QED
      BY <2>2, <2>3, <2>4
         DEF Next, PodStep, StartPod, ReadSettings, RejectSettings, CheckSecret,
             CreateConflict, PodFails, NodeLost, vars
  <1> QED
    BY <1>1, <1>2, Inductive, PTL DEF Spec, ImplementsSecretOnce, Promise!Spec
=============================================================================
