---------------------- MODULE ProfileControllerProofs ----------------------
(***************************************************************************)
(* For every program whose counts are those of its children, and all       *)
(* namespaces, kinds, releases, rotations and edits: the type invariant,   *)
(* CopiesAgree, ReadyIsComplete and CopyIsStable.                          *)
(*                                                                         *)
(* A copy is not newer than minio-params because no pod, and no answer     *)
(* under way, is (NotNewer).  That a status of an earlier moment is still  *)
(* true rests on what metacontroller remembers of the children (Undis-     *)
(* turbed): as long as users keep off, nothing that was observed in an     *)
(* enabled namespace goes away.                                            *)
(***************************************************************************)
EXTENDS ProfileController, FiniteSetTheorems, TLAPS

NotNewer == /\ \A h \in hooks : h.creds <= minioParams
            /\ \A n \in Namespaces : /\ sync[n].hook.creds <= minioParams
                                     /\ Copy \in Children =>
                                           child[n][Copy] <= minioParams

Undisturbed(n) ==
    /\ sync[n].phase # "idle" => sync[n].enabled = enabled[n]
    /\ Wanted(n) => sync[n].phase = "manage" /\ sync[n].enabled
    /\ sync[n].phase = "manage" /\ sync[n].enabled => Wanted(n)
    /\ \A c \in sync[n].observed : child[n][c] # 0
    /\ ~enabled[n] => ~ready[n] /\ \A c \in Children : child[n][c] = 0
    /\ ready[n] => \A c \in Observable : child[n][c] # 0

IInv == /\ TypeOK
        /\ NotNewer
        /\ edits = 0 => \A n \in Namespaces : Undisturbed(n)

Syncs == [ phase    : {"idle", "asked", "manage"},
           enabled  : BOOLEAN,
           observed : SUBSET Observable,
           hook     : Hook \cup {NoHook},
           pending  : SUBSET Children ]

-----------------------------------------------------------------------------
\* There are finitely many children.
LEMMA FiniteChildren == IsFiniteSet(Observable)
  <1>1. Observable \subseteq Program.children
    BY DEF Observable, Children
  <1> QED BY <1>1, ExpectedAssumption, FS_Subset

\* The counts of sync() are right: what is counted as ready is complete.
LEMMA ReadyCounts ==
    ASSUME NEW observed \in SUBSET Observable, Ready(observed)
    PROVE  Observable \subseteq observed
  <1> SUFFICES ASSUME NEW c \in Observable
               PROVE  c \in observed
    OBVIOUS
  <1> DEFINE k == c[1]
             All == {d \in Observable : d[1] = k}
             Seen == {d \in observed : d[1] = k}
  <1>1. k \in DOMAIN Expected
    BY ExpectedAssumption
  <1>2. Cardinality(All) = Expected[k] /\ Cardinality(Seen) = Expected[k]
    BY <1>1, ExpectedAssumption DEF Ready
  <1>3. IsFiniteSet(All) /\ Seen \in SUBSET All
    <2>1. All \in SUBSET Observable
      OBVIOUS
    <2> QED BY <2>1, FiniteChildren, FS_Subset
  <1>4. All = Seen
    <2> HIDE DEF All, Seen, k
    <2> QED BY <1>2, <1>3, FS_Subset
  <1>5. c \in All
    OBVIOUS
  <1> QED BY <1>4, <1>5

\* What a pod wants a child to contain is a version, and it is something.
LEMMA ContentIsVersion ==
    ASSUME NEW h \in Hook, NEW c \in Children
    PROVE  Content(h, c) \in Versions \ {0}
  <1>1. h.release \in 1 .. MaxReleases /\ h.creds \in 1 .. (1 + MaxRotations)
    BY DEF Hook
  <1>2. MaxReleases \in Nat \ {0} /\ MaxRotations \in Nat
    BY ProfileControllerAssumption
  <1> QED BY <1>1, <1>2 DEF Content, Versions

\* A pod that answers is not the one that stands for no pod.
LEMMA HooksAreHooks == ASSUME NEW h \in Hook PROVE h # NoHook
  BY DEF Hook, NoHook

-----------------------------------------------------------------------------
(* The initial states, and what every step preserves.                      *)

LEMMA InitIInv == Init => IInv
  <1> SUFFICES ASSUME Init PROVE IInv
    OBVIOUS
  <1> USE ProfileControllerAssumption
  <1>1. Rest \in Syncs /\ Rest.hook.creds = 0 /\ Rest.phase = "idle"
        /\ Rest.observed = {} /\ Rest.hook = NoHook
    BY DEF Rest, Syncs, NoHook
  <1>2. TypeOK
    <2>1. sync \in [Namespaces -> Syncs]
      BY <1>1 DEF Init
    <2>2. child \in [Namespaces -> [Children -> Versions]]
      BY DEF Init, Versions
    <2>3. release \in 1 .. MaxReleases /\ minioParams \in 0 .. (1 + MaxRotations)
          /\ edits \in 0 .. MaxEdits
      BY DEF Init
    <2> QED BY <2>1, <2>2, <2>3 DEF Init, TypeOK, Syncs
  <1>3. NotNewer
    BY <1>1 DEF Init, NotNewer
  <1>4. ASSUME NEW n \in Namespaces PROVE Undisturbed(n)
    BY <1>1 DEF Init, Undisturbed, Wanted
  <1> QED BY <1>2, <1>3, <1>4 DEF IInv

\* Every step keeps the types.
LEMMA TypeStep == TypeOK /\ [Next]_vars => TypeOK'
  <1> SUFFICES ASSUME TypeOK, [Next]_vars PROVE TypeOK'
    OBVIOUS
  <1> USE ProfileControllerAssumption
  <1>0. sync \in [Namespaces -> Syncs]
    BY DEF TypeOK, Syncs
  <1>1. CASE HookStep \/ Deploy \/ Rotate
    <2>1. CASE StoreParams
      BY <2>1 DEF StoreParams, Params!Write, tenants, TypeOK
    <2>2. CASE StartHook
      BY <2>2 DEF StartHook, tenants, TypeOK, Hook
    <2>3. CASE StopHook
      BY <2>3 DEF StopHook, tenants, TypeOK
    <2>4. CASE Deploy
      BY <2>4 DEF Deploy, tenants, TypeOK
    <2>5. CASE Rotate
      BY <2>5 DEF Rotate, tenants, TypeOK
    <2> QED BY <1>1, <2>1, <2>2, <2>3, <2>4, <2>5 DEF HookStep
  <1>2. ASSUME NEW n \in Namespaces, SyncStep(n) \/ Edit(n)
        PROVE  TypeOK'
    <2>1. CASE Observe(n)
      <3> DEFINE r == [Rest EXCEPT !.phase = "asked", !.enabled = enabled[n],
                                   !.observed = {c \in Observable : child[n][c] # 0}]
      <3>1. r \in Syncs
        BY DEF Syncs, Rest, NoHook, TypeOK
      <3>2. sync' \in [Namespaces -> Syncs]
        BY <1>0, <2>1, <3>1 DEF Observe
      <3> QED BY <2>1, <3>2 DEF Observe, TypeOK, Syncs, webhook
    <2>2. CASE Answer(n)
      <3>1. PICK h \in hooks :
               sync' = [sync EXCEPT ![n].phase = "manage",
                           ![n].hook = IF sync[n].enabled THEN h ELSE NoHook,
                           ![n].pending = IF sync[n].enabled THEN Children
                                          ELSE sync[n].observed]
        BY <2>2 DEF Answer
      <3>2. h \in Hook /\ Observable \subseteq Children
        BY DEF TypeOK, Observable
      <3> DEFINE r == [sync[n] EXCEPT !.phase = "manage",
                          !.hook = IF sync[n].enabled THEN h ELSE NoHook,
                          !.pending = IF sync[n].enabled THEN Children
                                      ELSE sync[n].observed]
      <3>4. r \in Syncs
        <4>1. sync[n] \in Syncs
          BY <1>0
        <4>2. (IF sync[n].enabled THEN h ELSE NoHook) \in Hook \cup {NoHook}
          BY <3>2
        <4>3. (IF sync[n].enabled THEN Children ELSE sync[n].observed)
                \in SUBSET Children
          BY <3>2, <4>1 DEF Syncs
        <4> QED BY <4>1, <4>2, <4>3 DEF Syncs
      <3>5. sync' = [sync EXCEPT ![n] = r]
        BY <1>0, <3>1
      <3>3. sync' \in [Namespaces -> Syncs]
        <4> HIDE DEF r
        <4> QED BY <1>0, <3>4, <3>5
      <3> QED BY <2>2, <3>3 DEF Answer, TypeOK, Syncs, webhook
    <2>3. ASSUME NEW c \in Children,
                 DeleteChild(n, c) \/ CreateChild(n, c) \/ UpdateChild(n, c)
          PROVE  TypeOK'
      <3>1. Done(n, c)
        BY <2>3 DEF DeleteChild, CreateChild, UpdateChild
      <3>2. sync' \in [Namespaces -> Syncs]
        BY <1>0, <3>1 DEF Done, Syncs
      <3>3. Wanted(n) => Content(sync[n].hook, c) \in Versions
        BY <1>0, ContentIsVersion DEF Wanted, Syncs
      <3>4. child' \in [Namespaces -> [Children -> Versions]]
        <4>1. child \in [Namespaces -> [Children -> Versions]] /\ 0 \in Versions
          BY DEF TypeOK, Versions
        <4>2. CASE DeleteChild(n, c)
          BY <4>1, <4>2 DEF DeleteChild
        <4>3. CASE CreateChild(n, c)
          BY <3>3, <4>1, <4>3 DEF CreateChild
        <4>4. CASE UpdateChild(n, c)
          BY <3>3, <4>1, <4>4 DEF UpdateChild
        <4> QED BY <2>3, <4>2, <4>3, <4>4
      <3> QED BY <3>1, <3>2, <3>4 DEF Done, TypeOK, Syncs, webhook
    <2>4. CASE SetStatus(n)
      <3>1. Rest \in Syncs
        BY DEF Rest, Syncs
      <3>2. sync' \in [Namespaces -> Syncs]
        BY <1>0, <2>4, <3>1 DEF SetStatus
      <3>3. (Wanted(n) /\ Ready(sync[n].observed)) \in BOOLEAN
        BY DEF Wanted, Ready
      <3>4. ready' \in [Namespaces -> BOOLEAN]
        BY <2>4, <3>3 DEF SetStatus, TypeOK
      <3> QED BY <2>4, <3>2, <3>4 DEF SetStatus, TypeOK, Syncs, webhook
    <2>5. CASE Edit(n)
      <3>1. edits' \in 0 .. MaxEdits
        BY <2>5 DEF Edit, TypeOK
      <3>2. enabled' \in [Namespaces -> BOOLEAN]
        BY <2>5 DEF Edit, TypeOK
      <3>3. child' \in [Namespaces -> [Children -> Versions]]
        <4>1. child \in [Namespaces -> [Children -> Versions]] /\ 0 \in Versions
          BY DEF TypeOK, Versions
        <4>2. CASE UNCHANGED child
          BY <4>1, <4>2
        <4>3. ASSUME NEW c \in Children, child' = [child EXCEPT ![n][c] = 0]
              PROVE  child' \in [Namespaces -> [Children -> Versions]]
          BY <4>1, <4>3
        <4> QED BY <2>5, <4>2, <4>3 DEF Edit
      <3> QED BY <2>5, <3>1, <3>2, <3>3 DEF Edit, TypeOK, webhook
    <2> QED BY <1>2, <2>1, <2>2, <2>3, <2>4, <2>5 DEF SyncStep
  <1>3. CASE Fault
    <2>1. CASE HookDies
      BY <2>1 DEF HookDies, tenants, TypeOK
    <2>2. ASSUME NEW n \in Namespaces, Abandon(n) PROVE TypeOK'
      <3>1. Rest \in Syncs
        BY DEF Rest, Syncs
      <3>2. sync' \in [Namespaces -> Syncs]
        BY <1>0, <2>2, <3>1 DEF Abandon
      <3> QED BY <2>2, <3>2 DEF Abandon, TypeOK, Syncs, webhook
    <2>3. ASSUME NEW n \in Namespaces, NEW c \in Children, ChildFails(n, c)
          PROVE  TypeOK'
      <3>1. sync' \in [Namespaces -> Syncs]
        BY <1>0, <2>3 DEF ChildFails, Done, Syncs
      <3> QED BY <2>3, <3>1 DEF ChildFails, Done, TypeOK, Syncs, webhook
    <2> QED BY <1>3, <2>1, <2>2, <2>3 DEF Fault
  <1>4. CASE CalmDown
    BY <1>4 DEF CalmDown, webhook, tenants, TypeOK
  <1>5. CASE UNCHANGED vars
    BY <1>5 DEF vars, webhook, tenants, TypeOK
  <1> QED BY <1>1, <1>2, <1>3, <1>4, <1>5 DEF Next

\* No step makes a pod, an answer or a copy newer than minio-params.
LEMMA NotNewerStep == TypeOK /\ NotNewer /\ [Next]_vars => NotNewer'
  <1> SUFFICES ASSUME TypeOK, NotNewer, [Next]_vars PROVE NotNewer'
    OBVIOUS
  <1> USE ProfileControllerAssumption
  <1>0. /\ sync \in [Namespaces -> Syncs]
        /\ child \in [Namespaces -> [Children -> Versions]]
        /\ minioParams \in Nat
        /\ Rest.hook.creds = 0
    BY DEF TypeOK, Syncs, Rest, NoHook
  <1>1. CASE HookStep \/ Deploy \/ Rotate
    <2>1. CASE StoreParams
      <3>1. minioParams = 0 /\ minioParams' = 1
        BY <2>1 DEF StoreParams, Params!Write
      <3>2. ASSUME NEW h \in hooks PROVE h.creds \in Nat
        BY <3>2 DEF TypeOK, Hook
      <3>3. ASSUME NEW n \in Namespaces
            PROVE  /\ sync[n].hook.creds \in Nat
                   /\ Copy \in Children => child[n][Copy] \in Nat
        BY <1>0, <3>3 DEF Syncs, Hook, NoHook, Versions
      <3> QED BY <2>1, <3>1, <3>2, <3>3 DEF StoreParams, tenants, NotNewer
    <2>2. CASE StartHook
      BY <1>0, <2>2 DEF StartHook, tenants, NotNewer
    <2>3. CASE StopHook
      BY <2>3 DEF StopHook, tenants, NotNewer
    <2>4. CASE Deploy
      BY <2>4 DEF Deploy, tenants, NotNewer
    <2>5. CASE Rotate
      <3>1. minioParams' = minioParams + 1
        BY <2>5 DEF Rotate
      <3>2. ASSUME NEW h \in hooks PROVE h.creds \in Nat
        BY <3>2 DEF TypeOK, Hook
      <3>3. ASSUME NEW n \in Namespaces
            PROVE  /\ sync[n].hook.creds \in Nat
                   /\ Copy \in Children => child[n][Copy] \in Nat
        BY <1>0, <3>3 DEF Syncs, Hook, NoHook, Versions
      <3> QED BY <1>0, <2>5, <3>1, <3>2, <3>3 DEF Rotate, tenants, NotNewer
    <2> QED BY <1>1, <2>1, <2>2, <2>3, <2>4, <2>5 DEF HookStep
  <1>2. ASSUME NEW n \in Namespaces, SyncStep(n) \/ Edit(n)
        PROVE  NotNewer'
    <2>1. CASE Observe(n)
      <3>1. sync'[n].hook = Rest.hook
        BY <1>0, <2>1 DEF Observe, Rest
      <3>2. \A m \in Namespaces \ {n} : sync'[m] = sync[m]
        BY <1>0, <2>1 DEF Observe
      <3> QED BY <1>0, <2>1, <3>1, <3>2 DEF Observe, NotNewer, webhook
    <2>2. CASE Answer(n)
      <3>1. PICK h \in hooks :
               /\ sync'[n].hook = IF sync[n].enabled THEN h ELSE NoHook
               /\ \A m \in Namespaces \ {n} : sync'[m] = sync[m]
        BY <1>0, <2>2 DEF Answer, Syncs
      <3>2. sync'[n].hook.creds <= minioParams
        BY <1>0, <3>1 DEF NotNewer, NoHook
      <3> QED BY <2>2, <3>1, <3>2 DEF Answer, NotNewer, webhook
    <2>3. ASSUME NEW c \in Children,
                 DeleteChild(n, c) \/ CreateChild(n, c) \/ UpdateChild(n, c)
          PROVE  NotNewer'
      <3>1. Done(n, c)
        BY <2>3 DEF DeleteChild, CreateChild, UpdateChild
      <3>2. \A m \in Namespaces : sync'[m].hook = sync[m].hook
        BY <1>0, <3>1 DEF Done, Syncs
      <3>3. Copy = c => /\ c[1] = "Secret"
                        /\ Content(sync[n].hook, c) = sync[n].hook.creds
        BY DEF Copy, Content
      <3>4. ASSUME Copy \in Children, NEW m \in Namespaces
            PROVE  child'[m][Copy] <= minioParams
        <4>1. child[m][Copy] <= minioParams /\ sync[n].hook.creds <= minioParams
          BY <3>4 DEF NotNewer
        <4>2. CASE DeleteChild(n, c)
          BY <1>0, <3>4, <4>1, <4>2 DEF DeleteChild
        <4>3. CASE CreateChild(n, c)
          BY <1>0, <3>3, <3>4, <4>1, <4>3 DEF CreateChild
        <4>4. CASE UpdateChild(n, c)
          BY <1>0, <3>3, <3>4, <4>1, <4>4 DEF UpdateChild
        <4> QED BY <2>3, <4>2, <4>3, <4>4
      <3> QED BY <3>1, <3>2, <3>4 DEF Done, NotNewer, webhook
    <2>4. CASE SetStatus(n)
      <3>1. sync'[n] = Rest /\ \A m \in Namespaces \ {n} : sync'[m] = sync[m]
        BY <1>0, <2>4 DEF SetStatus
      <3> QED BY <1>0, <2>4, <3>1 DEF SetStatus, NotNewer, webhook
    <2>5. CASE Edit(n)
      <3>1. ASSUME NEW m \in Namespaces, Copy \in Children
            PROVE  child'[m][Copy] <= minioParams
        <4>1. child[m][Copy] <= minioParams
          BY <3>1 DEF NotNewer
        <4>2. CASE UNCHANGED child
          BY <4>1, <4>2
        <4>3. ASSUME NEW c \in Children, child' = [child EXCEPT ![n][c] = 0]
              PROVE  child'[m][Copy] <= minioParams
          BY <1>0, <3>1, <4>1, <4>3
        <4> QED BY <2>5, <4>2, <4>3 DEF Edit
      <3> QED BY <2>5, <3>1 DEF Edit, NotNewer, webhook
    <2> QED BY <1>2, <2>1, <2>2, <2>3, <2>4, <2>5 DEF SyncStep
  <1>3. CASE Fault
    <2>1. CASE HookDies
      BY <2>1 DEF HookDies, tenants, NotNewer
    <2>2. ASSUME NEW n \in Namespaces, Abandon(n) PROVE NotNewer'
      <3>1. sync'[n] = Rest /\ \A m \in Namespaces \ {n} : sync'[m] = sync[m]
        BY <1>0, <2>2 DEF Abandon
      <3> QED BY <1>0, <2>2, <3>1 DEF Abandon, NotNewer, webhook
    <2>3. ASSUME NEW n \in Namespaces, NEW c \in Children, ChildFails(n, c)
          PROVE  NotNewer'
      <3>1. \A m \in Namespaces : sync'[m].hook = sync[m].hook
        BY <1>0, <2>3 DEF ChildFails, Done, Syncs
      <3> QED BY <2>3, <3>1 DEF ChildFails, Done, NotNewer, webhook
    <2> QED BY <1>3, <2>1, <2>2, <2>3 DEF Fault
  <1>4. CASE CalmDown
    BY <1>4 DEF CalmDown, webhook, tenants, NotNewer
  <1>5. CASE UNCHANGED vars
    BY <1>5 DEF vars, webhook, tenants, NotNewer
  <1> QED BY <1>1, <1>2, <1>3, <1>4, <1>5 DEF Next

\* As long as users keep off, what metacontroller remembers of a namespace
\* stays true of it, and so does its status.
LEMMA UndisturbedStep ==
    ASSUME TypeOK, edits = 0, NEW m \in Namespaces, Undisturbed(m), [Next]_vars
    PROVE  edits' = 0 => Undisturbed(m)'
  <1> USE ProfileControllerAssumption
  <1>0. /\ sync \in [Namespaces -> Syncs]
        /\ child \in [Namespaces -> [Children -> Versions]]
        /\ ready \in [Namespaces -> BOOLEAN]
        /\ Rest.hook = NoHook /\ Rest.phase = "idle" /\ Rest.observed = {}
        /\ Observable \subseteq Children
    BY DEF TypeOK, Syncs, Rest, Observable
  <1>1. CASE HookStep \/ Deploy \/ Rotate \/ HookDies \/ CalmDown
    <2>1. UNCHANGED tenants
      BY <1>1 DEF HookStep, StoreParams, StartHook, StopHook, Deploy, Rotate,
                  HookDies, CalmDown
    <2> QED BY <2>1 DEF tenants, Undisturbed, Wanted
  <1>2. ASSUME NEW n \in Namespaces, SyncStep(n) \/ Edit(n)
        PROVE  edits' = 0 => Undisturbed(m)'
    <2>1. CASE Observe(n)
      <3>1. CASE n # m
        <4>1. sync'[m] = sync[m]
          BY <1>0, <2>1, <3>1 DEF Observe
        <4> QED BY <2>1, <4>1 DEF Observe, Undisturbed, Wanted
      <3>2. CASE n = m
        <4>1. /\ sync'[m].phase = "asked" /\ sync'[m].enabled = enabled[m]
              /\ sync'[m].observed = {c \in Observable : child[m][c] # 0}
              /\ sync'[m].hook = NoHook
          BY <1>0, <2>1, <3>2 DEF Observe, Rest
        <4> QED BY <2>1, <4>1 DEF Observe, Undisturbed, Wanted
      <3> QED BY <3>1, <3>2
    <2>2. CASE Answer(n)
      <3>1. CASE n # m
        <4>1. sync'[m] = sync[m]
          BY <1>0, <2>2, <3>1 DEF Answer
        <4> QED BY <2>2, <4>1 DEF Answer, Undisturbed, Wanted
      <3>2. CASE n = m
        <4>1. PICK h \in hooks :
                 /\ sync'[m].phase = "manage"
                 /\ sync'[m].enabled = sync[m].enabled
                 /\ sync'[m].observed = sync[m].observed
                 /\ sync'[m].hook = IF sync[m].enabled THEN h ELSE NoHook
          BY <1>0, <2>2, <3>2 DEF Answer, Syncs
        <4>2. h # NoHook
          BY HooksAreHooks DEF TypeOK
        <4>3. sync[m].phase # "idle"
          BY <2>2, <3>2 DEF Answer
        <4> QED BY <2>2, <4>1, <4>2, <4>3 DEF Answer, Undisturbed, Wanted
      <3> QED BY <3>1, <3>2
    <2>3. ASSUME NEW c \in Children,
                 DeleteChild(n, c) \/ CreateChild(n, c) \/ UpdateChild(n, c)
          PROVE  Undisturbed(m)'
      <3>1. Done(n, c)
        BY <2>3 DEF DeleteChild, CreateChild, UpdateChild
      <3>2. /\ sync'[m].phase = sync[m].phase
            /\ sync'[m].enabled = sync[m].enabled
            /\ sync'[m].observed = sync[m].observed
            /\ sync'[m].hook = sync[m].hook
        BY <1>0, <3>1 DEF Done, Syncs
      <3>3. UNCHANGED <<enabled, ready>>
        BY <3>1 DEF Done
      <3>4. CASE n # m
        <4>1. child'[m] = child[m]
          BY <1>0, <2>3, <3>4 DEF DeleteChild, CreateChild, UpdateChild
        <4> QED BY <3>2, <3>3, <4>1 DEF Undisturbed, Wanted
      <3>5. CASE n = m
        <4>1. CASE DeleteChild(n, c)
          <5>1. ~enabled[m]
            BY <3>1, <3>5, <4>1 DEF DeleteChild, Done, Undisturbed
          <5>2. \A d \in Children : child'[m][d] = child[m][d]
            BY <1>0, <3>5, <4>1, <5>1 DEF DeleteChild, Undisturbed
          <5> QED BY <1>0, <3>2, <3>3, <5>1, <5>2 DEF Undisturbed, Wanted, TypeOK, Syncs
        <4>2. CASE CreateChild(n, c) \/ UpdateChild(n, c)
          <5>1. Wanted(m) /\ enabled[m]
            BY <3>5, <4>2 DEF CreateChild, UpdateChild, Undisturbed
          <5>2. Content(sync[m].hook, c) # 0
            BY <1>0, <5>1, ContentIsVersion DEF Wanted, Syncs
          <5>3. \A d \in Children : child[m][d] # 0 => child'[m][d] # 0
            <6>1. CASE CreateChild(n, c)
              BY <1>0, <3>5, <5>2, <6>1 DEF CreateChild
            <6>2. CASE UpdateChild(n, c)
              BY <1>0, <3>5, <5>2, <6>2 DEF UpdateChild
            <6> QED BY <4>2, <6>1, <6>2
          <5>4. sync[m].observed \subseteq Children
            BY <1>0 DEF Syncs
          <5> QED BY <1>0, <3>2, <3>3, <5>1, <5>3, <5>4 DEF Undisturbed, Wanted
        <4> QED BY <2>3, <4>1, <4>2
      <3> QED BY <3>4, <3>5
    <2>4. CASE SetStatus(n)
      <3>1. CASE n # m
        <4>1. sync'[m] = sync[m] /\ ready'[m] = ready[m]
          BY <1>0, <2>4, <3>1 DEF SetStatus
        <4> QED BY <2>4, <4>1 DEF SetStatus, Undisturbed, Wanted
      <3>2. CASE n = m
        <4>1. sync'[m] = Rest /\ ready'[m] = (Wanted(m) /\ Ready(sync[m].observed))
          BY <1>0, <2>4, <3>2 DEF SetStatus
        <4>2. UNCHANGED <<enabled, child>>
          BY <2>4 DEF SetStatus
        <4>3. ready'[m] => Observable \subseteq sync[m].observed
          <5>1. sync[m].observed \in SUBSET Observable
            BY <1>0 DEF Syncs
          <5> QED BY <4>1, <5>1, ReadyCounts
        <4>4. ready'[m] => enabled[m]
          BY <2>4, <3>2, <4>1 DEF SetStatus, Undisturbed
        <4> QED BY <1>0, <4>1, <4>2, <4>3, <4>4 DEF Undisturbed, Wanted
      <3> QED BY <3>1, <3>2
    <2>5. CASE Edit(n)
      <3>1. edits' # 0
        BY <2>5 DEF Edit
      <3> QED BY <3>1
    <2> QED BY <1>2, <2>1, <2>2, <2>3, <2>4, <2>5 DEF SyncStep
  <1>3. ASSUME NEW n \in Namespaces, Abandon(n) PROVE Undisturbed(m)'
    <2>1. sync'[m] = IF n = m THEN Rest ELSE sync[m]
      BY <1>0, <1>3 DEF Abandon
    <2> QED BY <1>0, <1>3, <2>1 DEF Abandon, Undisturbed, Wanted
  <1>4. ASSUME NEW n \in Namespaces, NEW c \in Children, ChildFails(n, c)
        PROVE  Undisturbed(m)'
    <2>1. /\ sync'[m].phase = sync[m].phase
          /\ sync'[m].enabled = sync[m].enabled
          /\ sync'[m].observed = sync[m].observed
          /\ sync'[m].hook = sync[m].hook
      BY <1>0, <1>4 DEF ChildFails, Done, Syncs
    <2> QED BY <1>4, <2>1 DEF ChildFails, Done, Undisturbed, Wanted
  <1>5. CASE UNCHANGED vars
    BY <1>5 DEF vars, tenants, Undisturbed, Wanted
  <1> QED BY <1>1, <1>2, <1>3, <1>4, <1>5 DEF Next, Fault

\* Users do not take back what they have done.
LEMMA EditsGrow == TypeOK /\ [Next]_vars /\ edits' = 0 => edits = 0
  <1> SUFFICES ASSUME TypeOK, [Next]_vars, edits # 0 PROVE edits' # 0
    OBVIOUS
  <1>1. edits \in Nat
    BY ProfileControllerAssumption DEF TypeOK
  <1>2. ASSUME NEW n \in Namespaces, Edit(n) PROVE edits' # 0
    BY <1>1, <1>2 DEF Edit
  <1>3. CASE \E n \in Namespaces : SyncStep(n)
    BY <1>3 DEF SyncStep, Observe, Answer, DeleteChild, CreateChild, UpdateChild, Done,
                SetStatus
  <1>4. CASE HookStep \/ Deploy \/ Rotate \/ Fault \/ CalmDown
    BY <1>4 DEF HookStep, StoreParams, StartHook, StopHook, Deploy, Rotate, Fault,
                HookDies, Abandon, ChildFails, Done, CalmDown
  <1> QED BY <1>2, <1>3, <1>4 DEF Next, vars

\* The inductive invariant holds in every reachable state.
THEOREM Invariance == Spec => []IInv
  <1>1. IInv /\ [Next]_vars => IInv'
    <2> SUFFICES ASSUME IInv, [Next]_vars PROVE IInv'
      OBVIOUS
    <2>1. TypeOK'
      BY TypeStep DEF IInv
    <2>2. NotNewer'
      BY NotNewerStep DEF IInv
    <2>3. edits' = 0 => edits = 0
      BY EditsGrow DEF IInv
    <2>4. ASSUME NEW n \in Namespaces, edits' = 0 PROVE Undisturbed(n)'
      BY <2>3, <2>4, UndisturbedStep DEF IInv
    <2> QED BY <2>1, <2>2, <2>4 DEF IInv
  <1> QED BY <1>1, InitIInv, PTL DEF Spec

-----------------------------------------------------------------------------
(* The theorems.                                                           *)

\* Every reachable state is well typed.
THEOREM TypeCorrect == Spec => []TypeOK
  <1>1. IInv => TypeOK
    BY DEF IInv
  <1> QED BY <1>1, Invariance, PTL

\* With credentials that are written once, all namespaces have the same ones,
\* whichever of the webhook's pods (sync.py 22-31) has made them.
THEOREM CopiesAlwaysAgree == Spec => []CopiesAgree
  <1>1. IInv => CopiesAgree
    <2> SUFFICES ASSUME IInv, minioParams <= 1, NEW n \in Namespaces, Copy \in Children
                 PROVE  child[n][Copy] \in {0, minioParams}
      BY DEF CopiesAgree
    <2>1. child[n][Copy] \in Nat /\ minioParams \in Nat
      BY ProfileControllerAssumption DEF IInv, TypeOK, Versions
    <2>2. child[n][Copy] <= minioParams
      BY DEF IInv, NotNewer
    <2> QED BY <2>1, <2>2
  <1> QED BY <1>1, Invariance, PTL

\* As long as users keep off, a namespace that is said to be ready is complete
\* (sync.py 44-53).
THEOREM ReadyMeansComplete == Spec => []ReadyIsComplete
  <1>1. IInv => ReadyIsComplete
    BY DEF IInv, Undisturbed, ReadyIsComplete
  <1> QED BY <1>1, Invariance, PTL

\* The credentials of a namespace are never changed under its workloads
\* (composite-controller.yaml 12-15).
THEOREM CopiesAreStable == Spec => CopyIsStable
  <1> DEFINE Stable == \A n \in Namespaces : Copy \in Children /\ child[n][Copy] # 0 =>
                           child'[n][Copy] \in {0, child[n][Copy]}
  <1>1. TypeOK /\ [Next]_vars => [Stable]_vars
    <2> SUFFICES ASSUME TypeOK, Next, NEW n \in Namespaces, Copy \in Children,
                        child[n][Copy] # 0
                 PROVE  child'[n][Copy] \in {0, child[n][Copy]}
      OBVIOUS
    <2>0. child \in [Namespaces -> [Children -> Versions]]
      BY DEF TypeOK
    <2>1. CASE UNCHANGED child
      BY <2>1
    <2>2. ASSUME NEW m \in Namespaces, NEW c \in Children,
                 DeleteChild(m, c) \/ CreateChild(m, c) \/ UpdateChild(m, c)
          PROVE  child'[n][Copy] \in {0, child[n][Copy]}
      <3>1. c = Copy => c[1] \notin InPlace
        BY DEF Copy, InPlace
      <3>2. CASE DeleteChild(m, c)
        BY <2>0, <3>2 DEF DeleteChild
      <3>3. CASE CreateChild(m, c)
        BY <2>0, <3>3 DEF CreateChild
      <3>4. CASE UpdateChild(m, c)
        BY <2>0, <3>1, <3>4 DEF UpdateChild
      <3> QED BY <2>2, <3>2, <3>3, <3>4
    <2>3. ASSUME NEW m \in Namespaces, NEW c \in Children,
                 child' = [child EXCEPT ![m][c] = 0]
          PROVE  child'[n][Copy] \in {0, child[n][Copy]}
      BY <2>0, <2>3
    <2>4. CASE \E m \in Namespaces : SyncStep(m) \/ Edit(m)
      BY <2>1, <2>2, <2>3, <2>4 DEF SyncStep, Observe, Answer, SetStatus, Edit
    <2>5. CASE HookStep \/ Deploy \/ Rotate \/ Fault \/ CalmDown
      <3>1. UNCHANGED child
        BY <2>5 DEF HookStep, StoreParams, StartHook, StopHook, Deploy, Rotate, Fault,
                    HookDies, Abandon, ChildFails, CalmDown, tenants
      <3> QED BY <2>1, <3>1
    <2> QED BY <2>4, <2>5 DEF Next
  <1> QED BY <1>1, TypeCorrect, PTL DEF Spec, CopyIsStable

=============================================================================
