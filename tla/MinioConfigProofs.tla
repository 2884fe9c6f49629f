------------------------- MODULE MinioConfigProofs -------------------------
(***************************************************************************)
(* For every set of required fields, every number of pods and every number *)
(* of edits of the external secret: the type invariant, ParamsComplete,    *)
(* SuccessIsOwnWrite and NoLateSuccess of MinioConfig hold, and            *)
(* MinioConfig implements SecretOnce.                                      *)
(*                                                                         *)
(* ParamsComplete and SuccessIsOwnWrite are not inductive: a create writes *)
(* what its pod read earlier, so the invariant must say that what a pod    *)
(* holds was offered, and that an exit 0 excludes a missing secret.        *)
(***************************************************************************)
EXTENDS MinioConfig, TLAPS

\* What a pod is about to create was offered when it read the source.
HeldWasOffered == \A p \in Pods : pods[p].pc = "create" => pods[p].data \in Offered

\* What stands in minio-params was offered.
StoredWasOffered == minioParams # NoSecret => minioParams \in Offered

\* History is complete.
SeenExt == ext \in seen

\* An exit 0 left the pod's own data behind.
SuccessStored == \A p \in Pods : pods[p].pc = "succeeded" =>
                    minioParams = pods[p].data /\ minioParams # NoSecret

OneSuccess == \A p, q \in Pods :
                 pods[p].pc = "succeeded" /\ pods[q].pc = "succeeded" => p = q

IInv == /\ TypeOK
        /\ SeenExt
        /\ HeldWasOffered
        /\ StoredWasOffered
        /\ SuccessStored
        /\ OneSuccess

-----------------------------------------------------------------------------
\* No value is the missing secret, and every usable source yields a value.
LEMMA DataForIsValue ==
    ASSUME NEW e \in Contents \cup {NoSecret}, Usable(e)
    PROVE  DataFor(e) \in Values /\ Valid(DataFor(e)) /\ DataFor(e) # NoSecret
  BY MinioConfigAssumption
     DEF DataFor, Usable, Values, Valid, Default, Contents

\* NoSecret is none of the values.
LEMMA NoSecretIsNoValue == NoSecret \notin Values
  BY MinioConfigAssumption DEF Values, Default, Contents

\* What is offered is a valid value: the whole external secret as it was at
\* one moment, or the default configuration.
LEMMA OfferedIsValid ==
    ASSUME TypeOK, NEW v \in Offered
    PROVE  /\ v \in Values
           /\ Valid(v)
           /\ v \in seen \/ (v = Default /\ NoSecret \in seen)
  <1>1. PICK e \in seen : Usable(e) /\ v = DataFor(e)
    BY DEF Offered
  <1>2. e \in Contents \cup {NoSecret}
    BY DEF TypeOK
  <1>3. v \in Values /\ Valid(v)
    BY <1>1, <1>2, DataForIsValue
  <1>4. v \in seen \/ (v = Default /\ NoSecret \in seen)
    BY <1>1 DEF DataFor
  <1> QED BY <1>3, <1>4

\* The initial states satisfy the inductive invariant.
LEMMA InitIInv == Init => IInv
  <1> SUFFICES ASSUME Init PROVE IInv
    OBVIOUS
  <1>1. TypeOK
    BY MinioConfigAssumption DEF Init, TypeOK, NewPod, PodState
  <1>2. \A p \in Pods : pods[p].pc = "idle"
    BY DEF Init, NewPod
  <1> QED
    BY <1>1, <1>2 DEF Init, IInv, SeenExt, HeldWasOffered, StoredWasOffered,
                      SuccessStored, OneSuccess

-----------------------------------------------------------------------------
(* One lemma per kind of step.                                             *)

\* A step of one pod that neither writes minio-params nor exits 0 nor comes
\* to the create keeps the invariant: the bookkeeping steps of the Job.
LEMMA Bookkeeping ==
    ASSUME IInv, NEW p \in Pods,
           NEW label \in {"read", "failed"},
           Goto(p, label), UNCHANGED <<ext, edits, seen, minioParams>>
    PROVE  IInv'
  <1> USE DEF IInv
  <1>1. TypeOK'
    BY DEF TypeOK, Goto, PodState
  <1>2. Offered' = Offered
    BY DEF Offered
  <1>3. \A q \in Pods : /\ pods'[q].data = pods[q].data
                        /\ q # p => pods'[q].pc = pods[q].pc
                        /\ q = p => pods'[q].pc = label
    BY DEF TypeOK, Goto, PodState
  <1>4. HeldWasOffered' /\ StoredWasOffered' /\ SeenExt'
    BY <1>2, <1>3 DEF HeldWasOffered, StoredWasOffered, SeenExt
  <1>5. SuccessStored' /\ OneSuccess'
    BY <1>3 DEF SuccessStored, OneSuccess
  <1> QED BY <1>1, <1>4, <1>5

\* Reading takes over an offered value, because ext is in the history.
LEMMA ReadKeeps ==
    ASSUME IInv, NEW p \in Pods, ReadExternal(p)
    PROVE  IInv'
  <1> USE DEF IInv
  <1>1. ext \in Contents \cup {NoSecret} /\ Usable(ext) /\ ext \in seen
    BY DEF TypeOK, SeenExt, ReadExternal
  <1>2. DataFor(ext) \in Values /\ DataFor(ext) \in Offered
    BY <1>1, DataForIsValue DEF Offered
  <1>3. Offered' = Offered
    BY DEF Offered, ReadExternal
  <1>4. TypeOK'
    BY <1>2 DEF TypeOK, ReadExternal, PodState
  <1>5. \A q \in Pods : /\ q # p => pods'[q] = pods[q]
                        /\ q = p => /\ pods'[q].pc = "create"
                                    /\ pods'[q].data = DataFor(ext)
    BY DEF TypeOK, ReadExternal, PodState
  <1>6. HeldWasOffered'
    BY <1>2, <1>3, <1>5 DEF HeldWasOffered
  <1>7. minioParams' = minioParams
    BY DEF ReadExternal
  <1>9. \A q \in Pods : pods'[q].pc = "succeeded" =>
                           pods[q].pc = "succeeded" /\ pods'[q] = pods[q]
    BY <1>5
  <1>10. SuccessStored' /\ OneSuccess'
    BY <1>7, <1>9 DEF SuccessStored, OneSuccess
  <1>8. StoredWasOffered' /\ SeenExt'
    BY <1>3 DEF StoredWasOffered, SeenExt, ReadExternal
  <1> QED BY <1>4, <1>6, <1>10, <1>8

\* Creating writes what the pod holds; nobody can have succeeded before,
\* since an exit 0 leaves minio-params in place.
LEMMA CreateKeeps ==
    ASSUME IInv, NEW p \in Pods, CreateParams(p)
    PROVE  IInv'
  <1> USE DEF IInv
  <1>1. PICK label \in {"succeeded", "failed"} : Goto(p, label)
    BY DEF CreateParams
  <1>2. pods[p].data \in Offered
    BY DEF CreateParams, HeldWasOffered
  <1>3. pods[p].data \in Values /\ pods[p].data # NoSecret
    BY <1>2, OfferedIsValid, NoSecretIsNoValue
  <1>4. Offered' = Offered
    BY DEF Offered, CreateParams
  <1>5. TypeOK'
    BY <1>1, <1>3 DEF TypeOK, CreateParams, Goto, PodState
  <1>6. \A q \in Pods : /\ pods'[q].data = pods[q].data
                        /\ q # p => pods'[q].pc = pods[q].pc
                        /\ q = p => pods'[q].pc = label
    BY <1>1 DEF TypeOK, Goto, PodState
  <1>7. \A q \in Pods : pods[q].pc # "succeeded"
    BY DEF CreateParams, SuccessStored
  <1>8. HeldWasOffered'
    BY <1>1, <1>4, <1>6 DEF HeldWasOffered
  <1>9. StoredWasOffered' /\ SeenExt'
    BY <1>2, <1>4 DEF CreateParams, StoredWasOffered, SeenExt
  <1>10. SuccessStored' /\ OneSuccess'
    BY <1>3, <1>6, <1>7 DEF CreateParams, SuccessStored, OneSuccess
  <1> QED BY <1>5, <1>8, <1>9, <1>10

\* A lost node changes nothing that the invariant speaks of.
LEMMA NodeLostKeeps ==
    ASSUME IInv, NEW p \in Pods, NodeLost(p)
    PROVE  IInv'
  <1> USE DEF IInv
  <1>1. TypeOK'
    BY DEF TypeOK, NodeLost, PodState
  <1>2. Offered' = Offered
    BY DEF Offered, NodeLost
  <1>3. \A q \in Pods : pods'[q].data = pods[q].data /\ pods'[q].pc = pods[q].pc
    BY DEF TypeOK, NodeLost, PodState
  <1>4. HeldWasOffered' /\ StoredWasOffered' /\ SeenExt'
    BY <1>2, <1>3 DEF HeldWasOffered, StoredWasOffered, SeenExt, NodeLost
  <1>5. SuccessStored' /\ OneSuccess'
    BY <1>3 DEF SuccessStored, OneSuccess, NodeLost
  <1> QED BY <1>1, <1>4, <1>5

\* An edit of the external secret only adds to what was offered.
LEMMA EditKeeps ==
    ASSUME IInv, EditExternal
    PROVE  IInv'
  <1> USE DEF IInv
  <1>1. TypeOK'
    BY MinioConfigAssumption DEF TypeOK, EditExternal
  <1>2. Offered \subseteq Offered'
    BY DEF Offered, EditExternal
  <1>3. pods' = pods /\ minioParams' = minioParams
    BY DEF EditExternal
  <1>4. HeldWasOffered' /\ StoredWasOffered' /\ SuccessStored' /\ OneSuccess'
    BY <1>2, <1>3 DEF HeldWasOffered, StoredWasOffered, SuccessStored, OneSuccess
  <1>5. SeenExt'
    BY DEF EditExternal, SeenExt
  <1> QED BY <1>1, <1>4, <1>5

\* Every step of the specification keeps the inductive invariant.
LEMMA NextIInv == IInv /\ [Next]_vars => IInv'
  <1> SUFFICES ASSUME IInv, [Next]_vars PROVE IInv'
    OBVIOUS
  <1>1. ASSUME NEW p \in Pods, StartPod(p) PROVE IInv'
    BY <1>1, Bookkeeping DEF StartPod
  <1>2. ASSUME NEW p \in Pods, ReadExternal(p) PROVE IInv'
    BY <1>2, ReadKeeps
  <1>3. ASSUME NEW p \in Pods, RejectExternal(p) PROVE IInv'
    BY <1>3, Bookkeeping DEF RejectExternal
  <1>4. ASSUME NEW p \in Pods, CreateParams(p) PROVE IInv'
    BY <1>4, CreateKeeps
  <1>5. ASSUME NEW p \in Pods, CreateConflict(p) PROVE IInv'
    BY <1>5, Bookkeeping DEF CreateConflict
  <1>6. ASSUME NEW p \in Pods, PodFails(p) PROVE IInv'
    BY <1>6, Bookkeeping DEF PodFails
  <1>7. ASSUME NEW p \in Pods, NodeLost(p) PROVE IInv'
    BY <1>7, NodeLostKeeps
  <1>8. CASE EditExternal
    BY <1>8, EditKeeps
  <1>9. CASE UNCHANGED vars
    BY <1>9 DEF IInv, TypeOK, SeenExt, HeldWasOffered, StoredWasOffered,
                SuccessStored, OneSuccess, Offered, vars
  <1> QED
    BY <1>1, <1>2, <1>3, <1>4, <1>5, <1>6, <1>7, <1>8, <1>9 DEF Next, PodStep

\* The inductive invariant holds in every reachable state.
LEMMA Inductive == Spec => []IInv
  BY InitIInv, NextIInv, PTL DEF Spec

-----------------------------------------------------------------------------
\* Every variable keeps its type, whatever the pods do.
THEOREM TypeCorrect == Spec => []TypeOK
  <1>1. IInv => TypeOK
    BY DEF IInv
  <1> QED BY Inductive, <1>1, PTL

\* minio-params is complete and untorn (entrypoint.py 32-66).
THEOREM ParamsAreComplete == Spec => []ParamsComplete
  <1>1. IInv => ParamsComplete
    BY OfferedIsValid DEF IInv, StoredWasOffered, ParamsComplete
  <1> QED BY Inductive, <1>1, PTL

\* Exit 0 means that this very pod wrote minio-params, and no other pod
\* exits 0 (entrypoint.py 54-68).
THEOREM SuccessIsOwn == Spec => []SuccessIsOwnWrite
  <1>1. IInv => SuccessIsOwnWrite
    BY DEF IInv, SuccessStored, OneSuccess, SuccessIsOwnWrite
  <1> QED BY Inductive, <1>1, PTL

\* Once minio-params is there no pod exits 0 any more: a pod that died
\* after its create cannot be made good (entrypoint.py 54-66).
THEOREM LateSuccessImpossible == Spec => NoLateSuccess
  <1> DEFINE Late == minioParams # NoSecret =>
               \A p \in Pods : pods'[p].pc = "succeeded" => pods[p].pc = "succeeded"
  <1>1. ASSUME IInv, [Next]_vars PROVE [Late]_vars
    <2> SUFFICES ASSUME Next, minioParams # NoSecret, NEW p \in Pods,
                        pods'[p].pc = "succeeded"
                 PROVE  pods[p].pc = "succeeded"
      BY <1>1
    <2> USE <1>1 DEF IInv, TypeOK, PodState
    <2>1. ASSUME NEW q \in Pods, NEW label \in {"read", "failed"}, Goto(q, label)
          PROVE  pods[p].pc = "succeeded"
      BY <2>1 DEF Goto
    <2>2. ASSUME NEW q \in Pods, ReadExternal(q) PROVE pods[p].pc = "succeeded"
      BY <2>2 DEF ReadExternal
    <2>3. ASSUME NEW q \in Pods, NodeLost(q) PROVE pods[p].pc = "succeeded"
      BY <2>3 DEF NodeLost
    <2>4. ASSUME NEW q \in Pods, CreateParams(q) PROVE FALSE
      BY <2>4 DEF CreateParams
    <2>5. CASE EditExternal
      BY <2>5 DEF EditExternal
    <2> QED
      BY <2>1, <2>2, <2>3, <2>4, <2>5
         DEF Next, PodStep, StartPod, RejectExternal, CreateConflict, PodFails
  <1> QED BY <1>1, Inductive, PTL DEF Spec, NoLateSuccess

\* MinioConfig implements SecretOnce: its readers see a secret that is
\* written at most once, with a value its source offered.
THEOREM MinioConfigImplementsSecretOnce == Spec => ImplementsSecretOnce
  <1>1. Init => Promise!Init
    BY InitIInv, OfferedIsValid DEF Init, Promise!Init, IInv
  <1>2. ASSUME IInv, IInv', [Next]_vars PROVE [Promise!Next]_(Promise!vars)
    <2> USE <1>2
    <2>1. Offered \subseteq Values /\ Offered' \subseteq Values
      <3>1. Offered \subseteq Values
        BY OfferedIsValid DEF IInv
      <3>2. TypeOK'
        BY DEF IInv
      <3>3. \A e \in seen' : Usable(e) => DataFor(e) \in Values
        BY <3>2, DataForIsValue DEF TypeOK
      <3> QED BY <3>1, <3>3 DEF Offered
    <2>2. CASE EditExternal
      <3>1. Offered \subseteq Offered' /\ minioParams' = minioParams
        BY <2>2 DEF Offered, EditExternal
      <3> QED BY <3>1, <2>1 DEF Promise!Next, Promise!Offer
    <2>3. ASSUME NEW p \in Pods, CreateParams(p) PROVE Promise!Next
      <3>1. Offered' = Offered
        BY <2>3 DEF CreateParams, Offered
      <3>2. minioParams = NoSecret /\ minioParams' \in Offered
        BY <2>3 DEF CreateParams, IInv, HeldWasOffered
      <3> QED BY <3>1, <3>2 DEF Promise!Next, Promise!Write
    <2>4. ASSUME UNCHANGED <<seen, minioParams>> PROVE UNCHANGED Promise!vars
      BY <2>4 DEF Offered, Promise!vars
    <2> QED
      BY <2>2, <2>3, <2>4
         DEF Next, PodStep, StartPod, ReadExternal, RejectExternal,
             CreateConflict, PodFails, NodeLost, vars
  <1> QED
    BY <1>1, <1>2, Inductive, PTL DEF Spec, ImplementsSecretOnce, Promise!Spec
=============================================================================
