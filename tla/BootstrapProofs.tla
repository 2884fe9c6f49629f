-------------------------- MODULE BootstrapProofs --------------------------
(***************************************************************************)
(* The installer, and install.sh with what it starts.                      *)
(*                                                                         *)
(* For every list of packages in every block, all dependencies, settings   *)
(* and backoff limits: the type invariant, StageOrder, SuccessMeansGates,  *)
(* ListOrder, BundledMinioJustified and PrismCostsAPod of the installer.   *)
(* StageOrder speaks of the cluster only.  To be inductive it needs what   *)
(* the running pod knows by being where it is: every gating block behind   *)
(* it is applied (Behind), and so is the part of its block behind pos      *)
(* (InList).                                                               *)
(*                                                                         *)
(* For all bounds and runs of install.sh besides: the composition          *)
(* implements the installer; the type invariant, OneRunPrepares and        *)
(* MinioAgrees.  MinioAgrees rests on the installer's own inductive        *)
(* invariant: a pod that decides about the bundled MinIO has the block     *)
(* jobs behind it, so the minio-config job is there and may see what the   *)
(* pod sees, unless the call of the pod fails (Witnessed).                 *)
(***************************************************************************)
EXTENDS Bootstrap, TLAPS

-----------------------------------------------------------------------------
(* The installer by itself.                                                *)


\* The running pod has seen every gating block behind it succeed.
Behind == \A b \in Gating : Rank[b] < Rank[phase] => InBlock[b] \subseteq applied

\* It has applied the part of its list that is behind it.
InList == phase \in Blocks \ {"minio"} =>
             \A i \in 1 .. Len(Chain[phase]) : i < pos => Chain[phase][i] \in applied

\* It is in the minio block only after a complete head list, and on purpose.
InMinio == phase = "minio" => installMinio /\ InBlock["head"] \subseteq applied

\* It is in Istio's blocks only if Istio is to be installed.
InIstio == phase \in {"istio", "clusterLocalGateway"} => Istio

\* installMinio and external are explained by the history.
MinioReason == /\ ~external => absentSeen
               /\ installMinio => absentSeen \/ misread

Prism == Chain["prism"][1]

\* Prism's definition got into the cluster by an apply that cost a pod.
PrismReason == Prism \in Needs[Prism] =>
                  /\ Prism \in crds => failures > 0
                  /\ Prism \in applied => Prism \in crds

\* A pod is only started while the Job has failures left.
Counted == phase # "failed" => failures <= BackoffLimit

IInv == /\ TypeOK
        /\ Counted
        /\ Behind
        /\ InList
        /\ InMinio
        /\ InIstio
        /\ MinioReason
        /\ PrismReason
        /\ StageOrder
        /\ ListOrder
        /\ BundledMinioJustified

-----------------------------------------------------------------------------
(* Facts about the constants and the control of the script.                *)

\* A block's packages are packages, and pos of a block names one of them.
LEMMA ChainElements ==
    ASSUME NEW b \in Blocks
    PROVE  /\ Len(Chain[b]) \in Nat /\ Len(Chain[b]) > 0
           /\ InBlock[b] = {Chain[b][i] : i \in 1 .. Len(Chain[b])}
           /\ \A i \in 1 .. Len(Chain[b]) : Chain[b][i] \in Packages /\ Chain[b][i] \in InBlock[b]
  <1>1. Chain[b] \in Seq(Packages) /\ Len(Chain[b]) > 0
    BY InstallerAssumption
  <1>2. InBlock[b] = {Chain[b][i] : i \in 1 .. Len(Chain[b])}
    BY DEF InBlock
  <1>3. \A i \in 1 .. Len(Chain[b]) : Chain[b][i] \in Packages
    BY <1>1
  <1> QED BY <1>1, <1>2, <1>3

\* The ranks, one by one.
LEMMA Ranks ==
    /\ Rank["jobs"] = 1 /\ Rank["certManager"] = 2 /\ Rank["istio"] = 3
    /\ Rank["authservices"] = 4 /\ Rank["knative"] = 5
    /\ Rank["clusterLocalGateway"] = 6 /\ Rank["probe"] = 7
    /\ Rank["head"] = 7 /\ Rank["minio"] = 7 /\ Rank["middle"] = 7
    /\ Rank["dashboard"] = 7 /\ Rank["dashboardNoLink"] = 7
    /\ Rank["tail"] = 8 /\ Rank["prism"] = 9 /\ Rank["patch"] = 10
    /\ Rank["succeeded"] = 11 /\ Rank["idle"] = 0 /\ Rank["testEnv"] = 0
    /\ Rank["fetch"] = 0 /\ Rank["failed"] = 0
  BY DEF Rank, Phases, Blocks

\* The gating blocks.
LEMMA GatingBlocks ==
    ASSUME NEW b \in Gating
    PROVE  /\ b \in {"jobs", "certManager", "istio", "authservices", "knative",
                     "clusterLocalGateway", "tail", "prism", "patch"}
           /\ b \in Blocks
           /\ b \in {"istio", "clusterLocalGateway"} => Istio
  BY DEF Gating, Looping, Blocks

\* After a block the script goes to another place, and no gating block lies
\* between the two: what is behind the new place was behind the block, or is
\* the block.
LEMMA AfterSteps ==
    ASSUME NEW b \in Blocks, b \in {"istio", "clusterLocalGateway"} => Istio
    PROVE  /\ After(b) \in Phases
           /\ \A c \in Gating : Rank[c] < Rank[After(b)] => Rank[c] < Rank[b] \/ c = b
           /\ After(b) = "minio" => b = "head" /\ installMinio
           /\ After(b) \in {"istio", "clusterLocalGateway"} => Istio
           /\ After(b) = "succeeded" <=> b = "patch"
  <1>1. After(b) \in Phases
    BY DEF After, Blocks, Phases
  <1>2. ASSUME NEW c \in Gating, Rank[c] < Rank[After(b)]
        PROVE  Rank[c] < Rank[b] \/ c = b
    <2>1. /\ c \in {"jobs", "certManager", "istio", "authservices", "knative",
                    "clusterLocalGateway", "tail", "prism", "patch"}
          /\ c \in {"istio", "clusterLocalGateway"} => Istio
      BY GatingBlocks
    <2>2. CASE b = "jobs"
      BY <1>2, <2>1, <2>2, Ranks DEF After
    <2>3. CASE b = "certManager"
      <3>1. CASE Istio
        BY <1>2, <2>1, <2>3, <3>1, Ranks DEF After
      <3>2. CASE ~Istio
        <4>1. After(b) = "authservices"
          BY <2>3, <3>2 DEF After
        <4>2. Rank[After(b)] = 4
          BY <4>1, Ranks
        <4>3. c \in {"jobs", "certManager"}
          BY <1>2, <2>1, <3>2, <4>2, Ranks
        <4> QED BY <2>3, <4>3, Ranks
      <3> QED BY <3>1, <3>2
    <2>4. CASE b = "istio"
      BY <1>2, <2>1, <2>4, Ranks DEF After
    <2>12. CASE b = "authservices"
      BY <1>2, <2>1, <2>12, Ranks DEF After
    <2>5. CASE b = "knative"
      BY <1>2, <2>1, <2>5, Ranks DEF After
    <2>6. CASE b = "clusterLocalGateway"
      BY <1>2, <2>1, <2>6, Ranks DEF After
    <2>7. CASE b \in {"head", "minio", "middle"}
      <3>1. Rank[After(b)] = 7 /\ Rank[b] = 7
        BY <2>7, Ranks DEF After
      <3> QED BY <1>2, <3>1
    <2>8. CASE b \in {"dashboard", "dashboardNoLink"}
      <3>1. Rank[After(b)] = 8 /\ Rank[b] = 7
        BY <2>8, Ranks DEF After
      <3> QED BY <1>2, <2>1, <3>1, Ranks
    <2>9. CASE b = "tail"
      BY <1>2, <2>1, <2>9, Ranks DEF After
    <2>10. CASE b = "prism"
      BY <1>2, <2>1, <2>10, Ranks DEF After
    <2>11. CASE b = "patch"
      BY <1>2, <2>1, <2>11, Ranks DEF After
    <2> QED
      BY <2>2, <2>3, <2>4, <2>5, <2>6, <2>7, <2>8, <2>9, <2>10, <2>11, <2>12 DEF Blocks
  <1>3. After(b) = "minio" => b = "head" /\ installMinio
    BY DEF After, Blocks
  <1>4. After(b) \in {"istio", "clusterLocalGateway"} => Istio
    BY DEF After, Blocks
  <1>5. After(b) = "succeeded" <=> b = "patch"
    BY DEF After, Blocks
  <1> QED BY <1>1, <1>2, <1>3, <1>4, <1>5

\* What depends on the settings only is unchanged with them.
LEMMA Settled ==
    ASSUME UNCHANGED settings
    PROVE  Gating' = Gating /\ Istio' = Istio
  BY DEF settings, Gating, Istio

-----------------------------------------------------------------------------
\* The initial states satisfy the inductive invariant.
LEMMA InitIInv == Init => IInv
  <1> SUFFICES ASSUME Init PROVE IInv
    OBVIOUS
  <1>1. "istio-crds" \in Packages /\ "istio-crds" \in InBlock["istio"]
    <2>1. "istio-crds" \in InBlock["istio"] /\ "istio" \in Blocks
      BY InstallerAssumption DEF Blocks
    <2>2. PICK i \in 1 .. Len(Chain["istio"]) : "istio-crds" = Chain["istio"][i]
      BY <2>1, ChainElements
    <2> QED BY <2>1, <2>2, ChainElements
  <1>2. TypeOK
    <2>1. disableIstio \in Flags /\ disableLinks \in Flags
      BY InstallerAssumption DEF Init
    <2>2. crds \subseteq Packages
      BY <1>1 DEF Init, Provided
    <2>3. /\ absentSeen \in BOOLEAN /\ misread \in BOOLEAN
          /\ installMinio \in BOOLEAN /\ external \in BOOLEAN
      BY DEF Init
    <2>4. phase \in Phases /\ phase \notin Blocks
      BY DEF Init, Phases, Blocks
    <2>5. /\ toggles \in 0 .. MaxToggles /\ failures \in 0 .. (BackoffLimit + 1)
          /\ pos \in Nat \ {0} /\ applied \subseteq Packages
      BY InstallerAssumption, BackoffLimitAssumption DEF Init
    <2> QED BY <2>1, <2>2, <2>3, <2>4, <2>5 DEF TypeOK
  <1>3. Behind /\ InList /\ InMinio /\ InIstio
    <2>1. \A b \in Gating : Rank[b] >= 0
      BY GatingBlocks, Ranks
    <2>2. Rank[phase] = 0
      BY Ranks DEF Init
    <2>3. \A b \in Gating : ~(Rank[b] < Rank[phase])
      BY <2>2, GatingBlocks, Ranks
    <2>4. phase \notin Blocks
      BY DEF Init, Blocks
    <2> QED BY <2>3, <2>4 DEF Behind, InList, InMinio, InIstio, Init, Blocks
  <1>4. MinioReason
    BY DEF Init, MinioReason
  <1>5. PrismReason
    <2>1. Prism \in InBlock["prism"]
      BY ChainElements DEF Prism, Blocks
    <2>2. Prism # "istio-crds"
      BY <1>1, <2>1, InstallerAssumption DEF Blocks
    <2> QED BY <2>2 DEF Init, PrismReason, Provided
  <1>6. StageOrder /\ ListOrder /\ BundledMinioJustified
    BY DEF Init, StageOrder, ListOrder, BundledMinioJustified
  <1>7. Counted
    BY BackoffLimitAssumption DEF Init, Counted
  <1> QED BY <1>2, <1>3, <1>4, <1>5, <1>6, <1>7 DEF IInv

-----------------------------------------------------------------------------
(* Steps that apply nothing.                                               *)

\* The pod, or the next pod, goes to the start of another place that has
\* nothing more behind it; definitions may appear, and only prism's cost a pod.
LEMMA MoveKeeps ==
    ASSUME IInv, UNCHANGED <<settings, external, toggles, absentSeen, applied>>,
           NEW x \in Phases, Enter(x),
           \A c \in Gating : Rank[c] < Rank[x] => Rank[c] < Rank[phase],
           x \in {"istio", "clusterLocalGateway"} => Istio,
           x = "minio" => installMinio' /\ InBlock["head"] \subseteq applied,
           installMinio' \in BOOLEAN,
           misread' \in {misread, TRUE},
           installMinio' = TRUE => installMinio = TRUE \/ external = FALSE \/ misread' = TRUE,
           failures' \in failures .. (BackoffLimit + 1),
           x # "failed" => failures' <= BackoffLimit,
           crds' \subseteq Packages, crds \subseteq crds',
           Prism \in crds' => Prism \in crds \/ failures' > 0
    PROVE  IInv'
  <1> USE DEF IInv
  <1>1. Gating' = Gating /\ Istio' = Istio
    BY Settled
  <1>2. phase' = x /\ pos' = 1 /\ applied' = applied
    BY DEF Enter
  <1>3. failures \in Nat /\ failures' \in 0 .. (BackoffLimit + 1) /\ failures' >= failures
    BY BackoffLimitAssumption DEF TypeOK
  <1>4. TypeOK'
    <2>1. x \in Blocks => 1 <= Len(Chain[x])
      BY ChainElements
    <2>2. misread' \in BOOLEAN
      BY DEF TypeOK
    <2> QED BY <1>2, <1>3, <2>1, <2>2 DEF TypeOK, settings
  <1>5. Behind'
    BY <1>1, <1>2 DEF Behind
  <1>6. InList'
    BY <1>2 DEF InList
  <1>7. InMinio' /\ InIstio'
    BY <1>1, <1>2 DEF InMinio, InIstio
  <1>8. MinioReason'
    BY DEF MinioReason
  <1>9. PrismReason'
    BY <1>2, <1>3 DEF PrismReason, Prism
  <1>10. StageOrder'
    BY <1>1, <1>2 DEF StageOrder
  <1>11. ListOrder'
    BY <1>2 DEF ListOrder
  <1>12. BundledMinioJustified'
    BY <1>2 DEF BundledMinioJustified
  <1>13. Counted'
    BY <1>2 DEF Counted
  <1> QED
    BY <1>4, <1>5, <1>6, <1>7, <1>8, <1>9, <1>10, <1>11, <1>12, <1>13

\* A pod that exits or dies leaves the cluster as it is.
LEMMA ExitKeeps ==
    ASSUME IInv, PodExits, PodRuns, UNCHANGED <<settings, source, applied>>,
           crds' \subseteq Packages, crds \subseteq crds'
    PROVE  IInv'
  <1> DEFINE x == IF failures < BackoffLimit THEN "idle" ELSE "failed"
  <1>1. Enter(x) /\ x \in Phases /\ Rank[x] = 0
    BY Ranks DEF PodExits, Phases
  <1>2. x \notin {"istio", "clusterLocalGateway", "minio"}
    OBVIOUS
  <1>3. failures \in Nat /\ failures <= BackoffLimit /\ failures' = failures + 1
    BY BackoffLimitAssumption DEF PodExits, PodRuns, IInv, TypeOK, Counted
  <1>4. /\ failures' \in failures .. (BackoffLimit + 1) /\ failures' > 0
        /\ x # "failed" => failures' <= BackoffLimit
    BY <1>3, BackoffLimitAssumption
  <1>5. \A c \in Gating : ~(Rank[c] < Rank[x])
    BY <1>1, GatingBlocks, Ranks
  <1>6. installMinio' = FALSE
    BY DEF PodExits
  <1>7. UNCHANGED <<external, toggles, absentSeen, misread>> /\ misread \in BOOLEAN
    BY DEF source, IInv, TypeOK
  <1> HIDE DEF x
  <1> QED
    BY <1>1, <1>2, <1>4, <1>5, <1>6, <1>7, MoveKeeps

\* The steps before the first apply, and the probe.
LEMMA PreparationKeeps ==
    ASSUME IInv, StartPod \/ TestEnvVars \/ Fetch \/ Probe
    PROVE  IInv'
  <1>1. /\ crds \subseteq Packages /\ failures \in 0 .. (BackoffLimit + 1)
        /\ installMinio \in BOOLEAN /\ external \in BOOLEAN /\ misread \in BOOLEAN
    BY DEF IInv, TypeOK
  <1>2. \A c \in Gating : Rank[c] >= 1 /\ Rank[c] # 7
    BY GatingBlocks, Ranks
  <1>3. failures \in Nat /\ failures \in failures .. (BackoffLimit + 1)
    BY <1>1, BackoffLimitAssumption
  <1>4. ASSUME StartPod PROVE IInv'
    <2>1. /\ Enter("testEnv") /\ phase = "idle"
          /\ UNCHANGED <<settings, source, applied, crds, installMinio, failures>>
      BY <1>4 DEF StartPod, cluster
    <2>2. "testEnv" \in Phases /\ failures <= BackoffLimit
      BY <2>1 DEF Phases, IInv, Counted
    <2> QED BY <2>1, <2>2, <1>1, <1>2, <1>3, Ranks, MoveKeeps DEF source
  <1>5. ASSUME TestEnvVars PROVE IInv'
    <2>1. phase = "testEnv" /\ UNCHANGED <<settings, source, applied, crds>>
      BY <1>5 DEF TestEnvVars, cluster
    <2>2. CASE Enter("fetch") /\ UNCHANGED <<installMinio, failures>>
      <3>1. "fetch" \in Phases /\ failures <= BackoffLimit
        BY <2>1 DEF Phases, IInv, Counted
      <3> QED BY <2>1, <2>2, <3>1, <1>1, <1>2, <1>3, Ranks, MoveKeeps DEF source
    <2>3. CASE PodExits
      <3>1. PodRuns
        BY <2>1 DEF PodRuns
      <3> QED BY <2>1, <2>3, <3>1, <1>1, ExitKeeps
    <2> QED BY <1>5, <2>2, <2>3 DEF TestEnvVars
  <1>6. ASSUME Fetch PROVE IInv'
    <2>1. phase = "fetch" /\ UNCHANGED <<settings, source, applied, crds>>
      BY <1>6 DEF Fetch, cluster
    <2>2. CASE Enter("jobs") /\ UNCHANGED <<installMinio, failures>>
      <3>1. "jobs" \in Phases /\ failures <= BackoffLimit
        BY <2>1 DEF Phases, Blocks, IInv, Counted
      <3>2. \A c \in Gating : ~(Rank[c] < Rank["jobs"])
        BY GatingBlocks, Ranks
      <3> QED BY <2>1, <2>2, <3>1, <3>2, <1>1, <1>3, MoveKeeps DEF source
    <2>3. CASE PodExits
      <3>1. PodRuns
        BY <2>1 DEF PodRuns
      <3> QED BY <2>1, <2>3, <3>1, <1>1, ExitKeeps
    <2> QED BY <1>6, <2>2, <2>3 DEF Fetch
  <1>7. ASSUME Probe PROVE IInv'
    <2>1. /\ phase = "probe" /\ Enter("head")
          /\ UNCHANGED <<settings, external, toggles, absentSeen, applied, crds, failures>>
      BY <1>7 DEF Probe, cluster
    <2>4. /\ installMinio' \in BOOLEAN /\ misread' \in {misread, TRUE}
          /\ installMinio' = TRUE =>
                installMinio = TRUE \/ external = FALSE \/ misread' = TRUE
      BY <1>7, <1>1 DEF Probe
    <2>2. "head" \in Phases /\ failures <= BackoffLimit
      BY <2>1 DEF Phases, Blocks, IInv, Counted
    <2>3. Rank["head"] = Rank[phase]
      BY <2>1, Ranks
    <2>5. /\ \A c \in Gating : Rank[c] < Rank["head"] => Rank[c] < Rank[phase]
          /\ UNCHANGED <<settings, external, toggles, absentSeen, applied>>
          /\ crds' = crds /\ failures' = failures
      BY <2>1, <2>3
    <2>6. Prism \in crds' => Prism \in crds \/ failures' > 0
      BY <2>5
    <2>7. failures' \in failures .. (BackoffLimit + 1) /\ failures' <= BackoffLimit
      BY <2>2, <2>5, <1>3
    <2>8. crds' \subseteq Packages /\ crds \subseteq crds' /\ Enter("head")
      BY <2>1, <2>5, <1>1
    <2>9. /\ "head" \notin {"istio", "clusterLocalGateway"}
          /\ "head" # "minio" /\ "head" # "failed"
      OBVIOUS
    <2> QED BY <2>2, <2>4, <2>5, <2>6, <2>7, <2>8, <2>9, MoveKeeps
  <1> QED BY <1>4, <1>5, <1>6, <1>7

-----------------------------------------------------------------------------
(* Steps that apply a package, or fail to.                                 *)

\* The package at pos is one of its block, and of no other block.
LEMMA CurrentBlock ==
    ASSUME TypeOK, phase \in Blocks
    PROVE  /\ pos \in 1 .. Len(Chain[phase])
           /\ Current \in Packages /\ Current \in InBlock[phase]
           /\ \A b \in Blocks : Current \in InBlock[b] => b = phase
           /\ \A j \in 1 .. Len(Chain[phase]) : Chain[phase][j] = Current => j = pos
  <1>1. pos \in 1 .. Len(Chain[phase])
    BY ChainElements DEF TypeOK
  <1>2. Current \in Packages /\ Current \in InBlock[phase]
    BY <1>1, ChainElements DEF Current
  <1>3. \A b \in Blocks : Current \in InBlock[b] => b = phase
    BY <1>2, InstallerAssumption
  <1>4. \A j \in 1 .. Len(Chain[phase]) : Chain[phase][j] = Current => j = pos
    BY <1>1, InstallerAssumption DEF Current
  <1> QED BY <1>1, <1>2, <1>3, <1>4

\* Going on inside the block, or to what follows it, after an apply that
\* succeeded, or that need not succeed.
LEMMA AdvanceKeeps ==
    ASSUME IInv, phase \in Blocks, Advance, UNCHANGED <<settings, source>>,
           applied' = applied \cup {Current} \/ (phase = "minio" /\ applied' = applied),
           crds' \subseteq Packages, crds \subseteq crds',
           Prism \in Needs[Prism] =>
               /\ Prism \in crds' => Prism \in crds
               /\ Prism \in applied' => Prism \in crds'
    PROVE  IInv'
  <1> USE DEF IInv
  <1>1. /\ pos \in 1 .. Len(Chain[phase]) /\ Len(Chain[phase]) \in Nat
        /\ Current \in Packages /\ Current \in InBlock[phase]
        /\ \A b \in Blocks : Current \in InBlock[b] => b = phase
        /\ \A j \in 1 .. Len(Chain[phase]) : Chain[phase][j] = Current => j = pos
    BY CurrentBlock, ChainElements
  <1>2. Gating' = Gating /\ Istio' = Istio
    BY Settled
  <1>3. applied \subseteq applied' /\ applied' \subseteq applied \cup {Current}
    OBVIOUS
  <1>4. /\ After(phase) \in Phases
        /\ \A c \in Gating : Rank[c] < Rank[After(phase)] => Rank[c] < Rank[phase] \/ c = phase
        /\ After(phase) = "minio" => phase = "head" /\ installMinio
        /\ After(phase) \in {"istio", "clusterLocalGateway"} => Istio
    BY AfterSteps DEF InIstio
  <1>5. UNCHANGED <<installMinio, failures>>
    BY DEF Advance
  <1>6. \/ pos < Len(Chain[phase]) /\ phase' = phase /\ pos' = pos + 1
        \/ pos = Len(Chain[phase]) /\ phase' = After(phase) /\ pos' = 1
    BY <1>1 DEF Advance, Enter
  <1>7. pos = Len(Chain[phase]) /\ phase # "minio" => InBlock[phase] \subseteq applied'
    <2> SUFFICES ASSUME pos = Len(Chain[phase]), phase # "minio",
                        NEW i \in 1 .. Len(Chain[phase])
                 PROVE  Chain[phase][i] \in applied'
      BY ChainElements
    <2>1. CASE i = pos
      BY <2>1 DEF Current
    <2>2. CASE i # pos
      BY <2>2, <1>1, <1>3 DEF InList
    <2> QED BY <2>1, <2>2
  <1>8. TypeOK'
    <2>1. pos' \in Nat \ {0} /\ (phase' \in Blocks => pos' <= Len(Chain[phase']))
      BY <1>1, <1>6, ChainElements
    <2>2. phase' \in Phases
      BY <1>4, <1>6 DEF Phases
    <2>3. applied' \subseteq Packages
      BY <1>1, <1>3 DEF TypeOK
    <2> QED BY <2>1, <2>2, <2>3, <1>5 DEF TypeOK, settings, source
  <1>9. Counted'
    BY <1>5 DEF Counted, Blocks
  <1>10. Behind'
    <2> SUFFICES ASSUME NEW c \in Gating, Rank[c] < Rank[phase']
                 PROVE  InBlock[c] \subseteq applied'
      BY <1>2 DEF Behind
    <2>1. CASE Rank[c] < Rank[phase]
      BY <2>1, <1>3 DEF Behind
    <2>2. CASE ~(Rank[c] < Rank[phase])
      <3>1. c = phase /\ pos = Len(Chain[phase])
        BY <2>2, <1>4, <1>6
      <3>2. phase # "minio"
        BY <3>1, GatingBlocks
      <3> QED BY <3>1, <3>2, <1>7
    <2> QED BY <2>1, <2>2
  <1>11. InList'
    <2>1. CASE phase' = phase /\ pos' = pos + 1
      <3> SUFFICES ASSUME phase # "minio", NEW i \in 1 .. Len(Chain[phase]), i < pos + 1
                   PROVE  Chain[phase][i] \in applied'
        BY <2>1 DEF InList
      <3>1. CASE i = pos
        BY <3>1 DEF Current
      <3>2. CASE i # pos
        BY <3>2, <1>1, <1>3 DEF InList
      <3> QED BY <3>1, <3>2
    <2>2. CASE pos' = 1
      BY <2>2 DEF InList
    <2> QED BY <1>6, <2>1, <2>2
  <1>12. InMinio'
    <2>1. CASE phase' = phase
      BY <2>1, <1>3, <1>5 DEF InMinio
    <2>2. CASE phase' = After(phase) /\ pos = Len(Chain[phase])
      BY <2>2, <1>4, <1>5, <1>7 DEF InMinio
    <2> QED BY <1>6, <2>1, <2>2
  <1>13. InIstio'
    BY <1>2, <1>4, <1>6 DEF InIstio
  <1>14. MinioReason'
    BY <1>5 DEF MinioReason, source
  <1>15. PrismReason'
    BY <1>5 DEF PrismReason, Prism
  <1>16. \A c \in Blocks : InBlock[c] \cap applied' # {} =>
                              c = phase \/ InBlock[c] \cap applied # {}
    BY <1>1, <1>3
  <1>17. StageOrder'
    <2> SUFFICES ASSUME NEW b \in Gating, NEW c \in Blocks, Rank[b] < Rank[c],
                        InBlock[c] \cap applied' # {}
                 PROVE  InBlock[b] \subseteq applied'
      BY <1>2 DEF StageOrder
    <2>1. CASE c = phase
      BY <2>1, <1>3 DEF Behind
    <2>2. CASE InBlock[c] \cap applied # {}
      BY <2>2, <1>3 DEF StageOrder
    <2> QED BY <2>1, <2>2, <1>16
  <1>18. ListOrder'
    <2>1. ASSUME NEW b \in Blocks \ {"minio"},
                 NEW i \in 1 .. Len(Chain[b]), NEW j \in 1 .. Len(Chain[b]),
                 i < j, Chain[b][j] \in applied'
          PROVE  Chain[b][i] \in applied'
      <3>1. CASE Chain[b][j] \in applied
        BY <2>1, <3>1, <1>3 DEF ListOrder
      <3>2. CASE Chain[b][j] = Current
        <4>1. b = phase
          BY <3>2, <2>1, <1>1, ChainElements
        <4>2. j = pos
          BY <4>1, <3>2, <1>1
        <4> QED BY <2>1, <4>1, <4>2, <1>3 DEF InList
      <3> QED BY <3>1, <3>2, <2>1, <1>3
    <2>2. InBlock["minio"] \cap applied' # {} => InBlock["head"] \subseteq applied'
      BY <1>3, <1>16 DEF ListOrder, InMinio, Blocks
    <2> QED BY <2>1, <2>2 DEF ListOrder
  <1>19. BundledMinioJustified'
    BY <1>16 DEF BundledMinioJustified, InMinio, MinioReason, source, Blocks
  <1> QED
    BY <1>8, <1>9, <1>10, <1>11, <1>12, <1>13, <1>14, <1>15, <1>17, <1>18, <1>19

\* An apply that succeeds.
LEMMA ApplySucceedsKeeps ==
    ASSUME IInv, ApplySucceeds
    PROVE  IInv'
  <1>1. /\ phase \in Blocks /\ Advance /\ UNCHANGED <<settings, source>>
        /\ applied' = applied \cup {Current} /\ crds' = crds \cup Provided(Current)
        /\ Needs[Current] \subseteq crds
    BY DEF ApplySucceeds
  <1>2. Current \in Packages /\ crds \subseteq Packages /\ TypeOK
    BY <1>1, CurrentBlock DEF IInv, TypeOK
  <1>3. crds' \subseteq Packages /\ crds \subseteq crds'
    BY <1>1, <1>2 DEF Provided
  <1>4. Prism \in Needs[Prism] =>
               /\ Prism \in crds' => Prism \in crds
               /\ Prism \in applied' => Prism \in crds'
    BY <1>1 DEF Provided, IInv, PrismReason
  <1> QED BY <1>1, <1>3, <1>4, AdvanceKeeps

\* An apply that fails, with or without the definitions of its package.
LEMMA ApplyFailsKeeps ==
    ASSUME IInv, ApplyFails
    PROVE  IInv'
  <1>1. /\ phase \in Blocks /\ OnFailure /\ UNCHANGED <<settings, source, applied>>
        /\ crds' \subseteq crds \cup {Current} /\ crds \subseteq crds'
    BY DEF ApplyFails, Provided
  <1>2. /\ TypeOK /\ crds \subseteq Packages /\ failures \in 0 .. (BackoffLimit + 1)
        /\ installMinio \in BOOLEAN /\ misread \in BOOLEAN
    BY DEF IInv, TypeOK
  <1>3. /\ Current \in Packages
        /\ \A b \in Blocks : Current \in InBlock[b] => b = phase
    BY <1>1, <1>2, CurrentBlock
  <1>4. crds' \subseteq Packages
    BY <1>1, <1>2, <1>3
  <1>5. phase # "prism" => (Prism \in crds' => Prism \in crds)
    <2>1. Prism \in InBlock["prism"]
      BY ChainElements DEF Prism, Blocks
    <2> QED BY <1>1, <1>3, <2>1 DEF Blocks
  <1>6. /\ failures \in Nat /\ failures \in failures .. (BackoffLimit + 1)
        /\ failures <= BackoffLimit
    BY <1>1, <1>2, BackoffLimitAssumption DEF IInv, Counted, Blocks
  <1>7. ASSUME NEW x \in Phases, Enter(x), UNCHANGED <<installMinio, failures>>,
               phase # "prism", x # "minio",
               x \in {"istio", "clusterLocalGateway"} => Istio,
               \A c \in Gating : Rank[c] < Rank[x] => Rank[c] < Rank[phase]
        PROVE  IInv'
    BY <1>1, <1>2, <1>4, <1>5, <1>6, <1>7, MoveKeeps DEF source
  <1>8. \A c \in Gating : Rank[c] # 7
    BY GatingBlocks, Ranks
  <1>9. CASE phase \in Looping /\ Enter(phase) /\ UNCHANGED <<installMinio, failures>>
    BY <1>9, <1>7 DEF Looping, Phases, Blocks, IInv, InIstio
  <1>10. CASE phase = "tail" /\ Enter("probe") /\ UNCHANGED <<installMinio, failures>>
    <2>1. \A c \in Gating : Rank[c] < Rank["probe"] => Rank[c] < Rank["tail"]
      BY GatingBlocks, Ranks
    <2> QED BY <1>10, <2>1, <1>7 DEF Phases
  <1>11. CASE phase = "head" /\ Enter("middle") /\ UNCHANGED <<installMinio, failures>>
    <2>1. Rank["middle"] = Rank["head"]
      BY Ranks
    <2> QED BY <1>11, <2>1, <1>7 DEF Phases, Blocks
  <1>12. CASE /\ phase \in {"middle", "dashboard", "dashboardNoLink"}
              /\ Enter(After(phase)) /\ UNCHANGED <<installMinio, failures>>
    <2>1. /\ After(phase) \in {"dashboard", "dashboardNoLink", "tail"}
      BY <1>12 DEF After
    <2>2. \A c \in Gating : Rank[c] < Rank[After(phase)] => Rank[c] < Rank[phase]
      BY <1>12, <2>1, GatingBlocks, Ranks
    <2> QED BY <1>12, <2>1, <2>2, <1>7 DEF Phases, Blocks
  <1>13. CASE phase = "minio" /\ Advance
    BY <1>1, <1>4, <1>5, <1>13, AdvanceKeeps DEF IInv, PrismReason
  <1>14. CASE phase \in {"jobs", "prism"} /\ PodExits
    <2>1. PodRuns
      BY <1>14 DEF PodRuns
    <2> QED BY <1>1, <1>4, <1>14, <2>1, ExitKeeps
  <1> QED BY <1>1, <1>9, <1>10, <1>11, <1>12, <1>13, <1>14 DEF OnFailure

\* The external secret appears or disappears.
LEMMA ToggleKeeps ==
    ASSUME IInv, ToggleExternal
    PROVE  IInv'
  <1> USE DEF IInv
  <1>1. UNCHANGED <<settings, misread, applied, crds, phase, pos, installMinio, failures>>
    BY DEF ToggleExternal, cluster, script
  <1>2. TypeOK'
    BY <1>1, InstallerAssumption DEF TypeOK, ToggleExternal, settings
  <1>3. Gating' = Gating /\ Istio' = Istio
    BY <1>1, Settled
  <1>4. Behind' /\ InList' /\ InMinio' /\ InIstio' /\ Counted'
    BY <1>1, <1>3 DEF Behind, InList, InMinio, InIstio, Counted
  <1>5. MinioReason'
    BY <1>1 DEF MinioReason, ToggleExternal, TypeOK
  <1>6. PrismReason' /\ StageOrder' /\ ListOrder'
    BY <1>1, <1>3 DEF PrismReason, Prism, StageOrder, ListOrder
  <1>7. BundledMinioJustified'
    BY <1>1 DEF BundledMinioJustified, ToggleExternal, TypeOK
  <1> QED BY <1>2, <1>4, <1>5, <1>6, <1>7

\* Every step of the specification keeps the inductive invariant.
LEMMA NextIInv == IInv /\ [Next]_vars => IInv'
  <1> SUFFICES ASSUME IInv, [Next]_vars PROVE IInv'
    OBVIOUS
  <1>1. CASE StartPod \/ TestEnvVars \/ Fetch \/ Probe
    BY <1>1, PreparationKeeps
  <1>2. CASE ApplySucceeds
    BY <1>2, ApplySucceedsKeeps
  <1>3. CASE ApplyFails
    BY <1>3, ApplyFailsKeeps
  <1>4. CASE PodDies
    <2>1. crds \subseteq Packages
      BY DEF IInv, TypeOK
    <2> QED BY <1>4, <2>1, ExitKeeps DEF PodDies, cluster
  <1>5. CASE ToggleExternal
    BY <1>5, ToggleKeeps
  <1>6. CASE UNCHANGED vars
    <2>1. UNCHANGED <<settings, source, applied, crds, phase, pos, installMinio, failures>>
      BY <1>6 DEF vars, cluster, script
    <2>2. Gating' = Gating /\ Istio' = Istio
      BY <2>1, Settled
    <2> QED
      BY <2>1, <2>2
         DEF IInv, TypeOK, Counted, Behind, InList, InMinio, InIstio, MinioReason,
             PrismReason, Prism, StageOrder, ListOrder, BundledMinioJustified,
             settings, source
  <1> QED
    BY <1>1, <1>2, <1>3, <1>4, <1>5, <1>6 DEF Next, ScriptStep

\* The inductive invariant holds in every reachable state.
LEMMA Inductive == Spec => []IInv
  BY InitIInv, NextIInv, PTL DEF Spec

-----------------------------------------------------------------------------
\* Every variable keeps its type; in particular pos stays inside its list.
THEOREM TypeCorrect == Spec => []TypeOK
  <1>1. IInv => TypeOK
    BY DEF IInv
  <1> QED BY Inductive, <1>1, PTL

\* In the cluster no block is begun before every gating block in front of it
\* is complete, over all pods of the Job (entrypoint.sh 128-164).
THEOREM StagesAreOrdered == Spec => []StageOrder
  <1>1. IInv => StageOrder
    BY DEF IInv
  <1> QED BY Inductive, <1>1, PTL

\* The exit status 0 of the installer means that every gating block is
\* completely applied (entrypoint.sh 192-194).
THEOREM SuccessPromisesGates == Spec => []SuccessMeansGates
  <1>1. IInv => SuccessMeansGates
    <2> SUFFICES ASSUME IInv, phase = "succeeded", NEW b \in Gating
                 PROVE  InBlock[b] \subseteq applied
      BY DEF SuccessMeansGates
    <2>1. Rank[b] < Rank[phase]
      BY GatingBlocks, Ranks
    <2> QED BY <2>1 DEF IInv, Behind
  <1> QED BY Inductive, <1>1, PTL

\* Inside an && list the order of the list is the order of the cluster, and
\* the bundled MinIO comes after the whole head list (entrypoint.sh 83-95).
THEOREM ListsAreOrdered == Spec => []ListOrder
  <1>1. IInv => ListOrder
    BY DEF IInv
  <1> QED BY Inductive, <1>1, PTL

\* The bundled MinIO is brought only to a cluster that lacked the secret of
\* an external one at some moment, or after a call that asked for the secret
\* and failed (entrypoint.sh 12-16, 81, 91).
THEOREM BundledMinioIsJustified == Spec => []BundledMinioJustified
  <1>1. IInv => BundledMinioJustified
    BY DEF IInv
  <1> QED BY Inductive, <1>1, PTL

\* If prism needs a definition that it brings itself, the Job never succeeds
\* with its first pod (entrypoint.sh 159-160).
THEOREM PrismTakesAPod == Spec => []PrismCostsAPod
  <1>1. IInv => PrismCostsAPod
    <2> SUFFICES ASSUME IInv, phase = "succeeded", Prism \in Needs[Prism]
                 PROVE  failures > 0
      BY DEF PrismCostsAPod, Prism
    <2>1. "prism" \in Gating /\ Rank["prism"] < Rank[phase]
      BY Ranks DEF Gating
    <2>2. Prism \in InBlock["prism"]
      BY ChainElements DEF Prism, Blocks
    <2> QED BY <2>1, <2>2 DEF IInv, Behind, PrismReason
  <1> QED BY Inductive, <1>1, PTL

-----------------------------------------------------------------------------
(* Together with install.sh and the minio-config job.                      *)


\* The minio-config job may see what there is now, and what the installer has
\* acted upon; minio-params is something it may have seen.
Witnessed ==
    /\ "minio-config" \in applied => offered # {}
    /\ offered # {} => Named(external) \in offered
    /\ installMinio \/ InBlock["minio"] \cap applied # {} =>
          "bundled" \in offered \/ misread
    /\ Decided /\ ~installMinio => "external" \in offered
    /\ minioParams # "none" => minioParams \in offered

\* What is in the namespace when install.sh comes to a call.
Prepared ==
    /\ inNamespace # {} => "namespace" \in inNamespace
    /\ place \in {"certificate", "pullSecret", "installer"} =>
          /\ "namespace" \in inNamespace
          /\ "installer" \notin inNamespace
          /\ preparedFor = tls
    /\ place = "certificate" => tls
    /\ place \in {"pullSecret", "installer"} =>
          ("certificate" \in inNamespace <=> preparedFor)
    /\ place = "installer" => "pullSecret" \in inNamespace

BootInv == /\ IInv
           /\ BootTypeOK
           /\ Witnessed
           /\ Prepared
           /\ OneRunPrepares

-----------------------------------------------------------------------------
(* What a step of the installer does to the decision about MinIO.          *)

\* A pod that exits has no decision, and is in no block.
LEMMA ExitForgets ==
    ASSUME PodExits
    PROVE  installMinio' = FALSE /\ ~Decided'
  BY DEF PodExits, Enter, Decided

\* From one place of the script to the next nothing is decided.
LEMMA EnterKeepsDecided ==
    ASSUME NEW b \in Blocks, phase = b, Enter(After(b)), Decided'
    PROVE  Decided
  <1>1. phase' = After(b)
    BY DEF Enter
  <1>2. After(b) \in {"head", "minio", "middle", "dashboard", "dashboardNoLink",
                      "tail", "prism", "patch", "succeeded"}
    BY <1>1 DEF Decided
  <1>3. b \notin {"jobs", "certManager", "istio", "authservices", "knative",
                  "clusterLocalGateway"}
    BY <1>2 DEF After
  <1> QED BY <1>3 DEF Decided, Blocks

\* Neither does the next package of a block.
LEMMA AdvanceKeepsDecided ==
    ASSUME phase \in Blocks, Advance
    PROVE  installMinio' = installMinio /\ (Decided' => Decided)
  <1>1. CASE pos < Len(Chain[phase])
    BY <1>1 DEF Advance, Decided
  <1>2. CASE ~(pos < Len(Chain[phase]))
    BY <1>2, EnterKeepsDecided DEF Advance
  <1> QED BY <1>1, <1>2

\* Nor what follows a failure, which may end the pod.
LEMMA FailureKeepsDecided ==
    ASSUME phase \in Blocks, OnFailure
    PROVE  (installMinio' => installMinio) /\ (Decided' => Decided /\ installMinio' = installMinio)
  <1>1. CASE phase \in Looping /\ Enter(phase) /\ UNCHANGED <<installMinio, failures>>
    BY <1>1 DEF Enter, Decided
  <1>2. CASE phase \in {"tail", "head"} /\ UNCHANGED <<installMinio, failures>>
    BY <1>2 DEF Decided
  <1>3. CASE /\ phase \in {"middle", "dashboard", "dashboardNoLink"}
             /\ Enter(After(phase)) /\ UNCHANGED <<installMinio, failures>>
    BY <1>3 DEF Decided
  <1>4. CASE Advance
    BY <1>4, AdvanceKeepsDecided
  <1>5. CASE PodExits
    BY <1>5, ExitForgets
  <1> QED BY <1>1, <1>2, <1>3, <1>4, <1>5 DEF OnFailure

\* In one step of the installer: the external secret and the applied packages
\* stay; MinIO is applied only on a decision; and it is decided only where the
\* minio-config job is there, according to the external secret or to a call
\* that failed.
LEMMA InstallerEffect ==
    ASSUME IInv, StartPod \/ ScriptStep \/ PodDies
    PROVE  /\ external' = external
           /\ applied \subseteq applied'
           /\ InBlock["minio"] \cap applied' # {} =>
                 InBlock["minio"] \cap applied # {} \/ installMinio
           /\ misread => misread'
           /\ installMinio' => installMinio \/ misread' \/ (phase = "probe" /\ ~external)
           /\ Decided' /\ ~installMinio' =>
                 (Decided /\ ~installMinio) \/ (phase = "probe" /\ external)
  <1>1. CASE StartPod
    BY <1>1 DEF StartPod, Enter, Decided, source, cluster
  <1>2. CASE TestEnvVars
    <2>1. UNCHANGED <<external, misread, applied>>
      BY <1>2 DEF TestEnvVars, source, cluster
    <2>2. CASE Enter("fetch") /\ UNCHANGED <<installMinio, failures>>
      BY <2>1, <2>2 DEF Enter, Decided
    <2>3. CASE PodExits
      BY <2>1, <2>3, ExitForgets
    <2> QED BY <1>2, <2>2, <2>3 DEF TestEnvVars
  <1>3. CASE Fetch
    <2>1. UNCHANGED <<external, misread, applied>>
      BY <1>3 DEF Fetch, source, cluster
    <2>2. CASE Enter("jobs") /\ UNCHANGED <<installMinio, failures>>
      BY <2>1, <2>2 DEF Enter, Decided
    <2>3. CASE PodExits
      BY <2>1, <2>3, ExitForgets
    <2> QED BY <1>3, <2>2, <2>3 DEF Fetch
  <1>4. CASE Probe
    <2>1. /\ phase = "probe" /\ UNCHANGED <<external, applied>>
          /\ \/ installMinio' = ~external /\ misread' = misread
             \/ installMinio' = TRUE /\ misread' = (misread \/ external)
      BY <1>4 DEF Probe, cluster
    <2>2. external \in BOOLEAN /\ misread \in BOOLEAN
      BY DEF IInv, TypeOK
    <2> QED BY <2>1, <2>2
  <1>5. CASE ApplySucceeds
    <2>1. /\ phase \in Blocks /\ Advance /\ UNCHANGED <<external, misread>>
          /\ applied' = applied \cup {Current}
      BY <1>5 DEF ApplySucceeds, source
    <2>2. Current \in InBlock["minio"] => installMinio
      <3> SUFFICES ASSUME Current \in InBlock["minio"] PROVE installMinio
        OBVIOUS
      <3>1. \A b \in Blocks : Current \in InBlock[b] => b = phase
        BY <2>1, CurrentBlock DEF IInv
      <3>2. phase = "minio"
        BY <3>1 DEF Blocks
      <3> QED BY <3>2 DEF IInv, InMinio
    <2> QED BY <2>1, <2>2, AdvanceKeepsDecided
  <1>6. CASE ApplyFails
    <2>1. /\ phase \in Blocks /\ OnFailure /\ UNCHANGED <<external, misread>>
          /\ applied' = applied
      BY <1>6 DEF ApplyFails, source
    <2> QED BY <2>1, FailureKeepsDecided
  <1>7. CASE PodDies
    BY <1>7, ExitForgets DEF PodDies, source, cluster
  <1> QED BY <1>1, <1>2, <1>3, <1>4, <1>5, <1>6, <1>7 DEF ScriptStep

-----------------------------------------------------------------------------
(* The inductive invariant.                                                *)

LEMMA BootInitInv == BootInit => BootInv
  <1> SUFFICES ASSUME BootInit PROVE BootInv
    OBVIOUS
  <1>1. IInv
    BY InitIInv DEF BootInit
  <1>2. BootTypeOK
    <2>1. TypeOK
      BY <1>1 DEF IInv
    <2>2. attempts \in 0 .. MaxAttempts
      BY BootstrapAssumption DEF BootInit
    <2>3. inNamespace \subseteq Objects /\ offered \subseteq MinIOs
      BY DEF BootInit
    <2> QED BY <2>1, <2>2, <2>3, Zenon DEF BootInit, BootTypeOK
  <1>3. Witnessed
    BY DEF BootInit, Witnessed, Init, Decided
  <1>4. Prepared /\ OneRunPrepares
    BY DEF BootInit, Prepared, OneRunPrepares
  <1> QED BY <1>1, <1>2, <1>3, <1>4 DEF BootInv

\* Steps beside the installer leave its variables alone, and its invariant.
LEMMA InstallerRests ==
    ASSUME BootInv, UNCHANGED vars
    PROVE  IInv' /\ TypeOK'
  <1>1. IInv'
    BY NextIInv DEF BootInv
  <1> QED BY <1>1 DEF IInv

\* A call of install.sh, made, failed or undone.
LEMMA InstallScriptKeeps ==
    ASSUME BootInv, InstallScript
    PROVE  BootInv'
  <1>1. UNCHANGED <<vars, minio>>
    BY DEF InstallScript, Launch, CreateNamespace, PutInNamespace, CallFails,
           RemoveNamespace
  <1>2. IInv' /\ TypeOK'
    BY <1>1, InstallerRests
  <1>3. Witnessed'
    BY <1>1 DEF BootInv, Witnessed, Decided, vars, source, cluster, script, minio
  <1>4. Prepared' /\ OneRunPrepares' /\ BootTypeOK'
    <2> USE <1>1, <1>2 DEF BootInv, Prepared, OneRunPrepares, BootTypeOK, minio, Objects
    <2>1. CASE Launch
      BY <2>1, BootstrapAssumption DEF Launch
    <2>2. CASE CreateNamespace
      BY <2>2 DEF CreateNamespace
    <2>3. CASE PutInNamespace("certificate", "pullSecret")
      BY <2>3 DEF PutInNamespace
    <2>4. CASE PutInNamespace("pullSecret", "installer")
      BY <2>4 DEF PutInNamespace
    <2>5. CASE PutInNamespace("installer", "idle")
      BY <2>5 DEF PutInNamespace
    <2>6. CASE CallFails
      BY <2>6 DEF CallFails
    <2>7. CASE RemoveNamespace
      BY <2>7 DEF RemoveNamespace
    <2> QED BY <2>1, <2>2, <2>3, <2>4, <2>5, <2>6, <2>7 DEF InstallScript
  <1> QED BY <1>2, <1>3, <1>4 DEF BootInv

\* What the minio-config job may see includes what there is, and grows.
LEMMA WatchSees ==
    ASSUME BootInv, Watch, external' \in BOOLEAN
    PROVE  /\ offered \subseteq offered' /\ offered' \subseteq MinIOs
           /\ offered' # {} => Named(external') \in offered'
           /\ "minio-config" \in applied' => offered' # {}
  BY DEF Watch, Named, MinIOs, BootInv, BootTypeOK

\* A step of a pod of the installer.
LEMMA InstallerStepKeeps ==
    ASSUME BootInv, InstallerStep
    PROVE  BootInv'
  <1>1. /\ StartPod \/ ScriptStep \/ PodDies
        /\ Watch /\ UNCHANGED <<install, minioParams>>
    BY DEF InstallerStep
  <1>2. IInv' /\ TypeOK'
    <2>1. IInv'
      BY <1>1, NextIInv DEF BootInv, Next
    <2> QED BY <2>1 DEF IInv
  <1>3. /\ external' = external
        /\ applied \subseteq applied'
        /\ InBlock["minio"] \cap applied' # {} =>
              InBlock["minio"] \cap applied # {} \/ installMinio
        /\ misread => misread'
        /\ installMinio' => installMinio \/ misread' \/ (phase = "probe" /\ ~external)
        /\ Decided' /\ ~installMinio' =>
              (Decided /\ ~installMinio) \/ (phase = "probe" /\ external)
    BY <1>1, InstallerEffect DEF BootInv
  <1>4. /\ offered \subseteq offered' /\ offered' \subseteq MinIOs
        /\ offered' # {} => Named(external') \in offered'
        /\ "minio-config" \in applied' => offered' # {}
    BY <1>1, <1>2, WatchSees DEF TypeOK
  \* The pod that decides has the block jobs behind it.
  <1>5. phase = "probe" => Named(external) \in offered
    <2> SUFFICES ASSUME phase = "probe" PROVE Named(external) \in offered
      OBVIOUS
    <2>1. "jobs" \in Gating /\ Rank["jobs"] < Rank[phase]
      BY Ranks DEF Gating
    <2>2. "minio-config" \in applied
      BY <2>1, BootstrapAssumption DEF BootInv, IInv, Behind
    <2> QED BY <2>2 DEF BootInv, Witnessed
  <1>6. Witnessed'
    <2>1. minioParams' # "none" => minioParams' \in offered'
      BY <1>1, <1>4 DEF BootInv, Witnessed
    <2>2. installMinio' \/ InBlock["minio"] \cap applied' # {} =>
             "bundled" \in offered' \/ misread'
      BY <1>3, <1>4, <1>5 DEF BootInv, Witnessed, Named
    <2>3. Decided' /\ ~installMinio' => "external" \in offered'
      BY <1>3, <1>4, <1>5 DEF BootInv, Witnessed, Named
    <2> QED BY <1>4, <2>1, <2>2, <2>3 DEF Witnessed
  <1>7. Prepared' /\ OneRunPrepares' /\ BootTypeOK'
    BY <1>1, <1>2, <1>4
       DEF BootInv, Prepared, OneRunPrepares, BootTypeOK, install
  <1> QED BY <1>2, <1>6, <1>7 DEF BootInv

\* The external secret comes or goes.
LEMMA ChangeExternalKeeps ==
    ASSUME BootInv, ChangeExternal
    PROVE  BootInv'
  <1>1. /\ ToggleExternal /\ Watch /\ UNCHANGED <<install, minioParams>>
        /\ UNCHANGED <<cluster, script>>
    BY DEF ChangeExternal, ToggleExternal
  <1>2. IInv' /\ TypeOK'
    <2>1. IInv'
      BY <1>1, NextIInv DEF BootInv, Next
    <2> QED BY <2>1 DEF IInv
  <1>3. /\ offered \subseteq offered' /\ offered' \subseteq MinIOs
        /\ offered' # {} => Named(external') \in offered'
        /\ "minio-config" \in applied' => offered' # {}
    BY <1>1, <1>2, WatchSees DEF TypeOK
  <1>4. Witnessed'
    <2>1. misread' = misread
      BY <1>1 DEF ToggleExternal
    <2> QED
      BY <1>1, <1>3, <2>1 DEF BootInv, Witnessed, Decided, cluster, script
  <1>5. Prepared' /\ OneRunPrepares' /\ BootTypeOK'
    BY <1>1, <1>2, <1>3
       DEF BootInv, Prepared, OneRunPrepares, BootTypeOK, install
  <1> QED BY <1>2, <1>4, <1>5 DEF BootInv

\* The minio-config job writes what it has seen.
LEMMA WriteParamsKeeps ==
    ASSUME BootInv, WriteParams
    PROVE  BootInv'
  <1>1. UNCHANGED <<vars, install, offered>> /\ minioParams' \in offered
    BY DEF WriteParams, Params!Write
  <1>2. IInv' /\ TypeOK'
    BY <1>1, InstallerRests
  <1>3. Witnessed'
    BY <1>1 DEF BootInv, Witnessed, Decided, vars, source, cluster, script
  <1>4. Prepared' /\ OneRunPrepares' /\ BootTypeOK'
    BY <1>1, <1>2 DEF BootInv, Prepared, OneRunPrepares, BootTypeOK, install
  <1> QED BY <1>2, <1>3, <1>4 DEF BootInv

LEMMA BootNextInv == BootInv /\ [BootNext]_bootVars => BootInv'
  <1> SUFFICES ASSUME BootInv, [BootNext]_bootVars PROVE BootInv'
    OBVIOUS
  <1>1. CASE UNCHANGED bootVars
    <2>1. UNCHANGED <<vars, install, minio>>
      BY <1>1 DEF bootVars
    <2>2. IInv' /\ TypeOK'
      BY <2>1, InstallerRests
    <2> QED
      BY <2>1, <2>2 DEF BootInv, Witnessed, Decided, Prepared, OneRunPrepares, BootTypeOK,
                        vars, source, cluster, script, install, minio
  <1> QED
    BY <1>1, InstallScriptKeeps, InstallerStepKeeps, ChangeExternalKeeps, WriteParamsKeeps
       DEF BootNext

LEMMA BootInductive == BootSpec => []BootInv
  BY BootInitInv, BootNextInv, PTL DEF BootSpec

-----------------------------------------------------------------------------
\* Every variable of the composition keeps its type.
THEOREM BootTypeCorrect == BootSpec => []BootTypeOK
  <1>1. BootInv => BootTypeOK
    BY DEF BootInv
  <1> QED BY BootInductive, <1>1, PTL

\* The namespace that the installer runs in is the work of one run of
\* install.sh, whatever runs there were (install.sh 67-77).
THEOREM OneRunHasPrepared == BootSpec => []OneRunPrepares
  <1>1. BootInv => OneRunPrepares
    BY DEF BootInv
  <1> QED BY BootInductive, <1>1, PTL

\* A bundled MinIO next to a minio-params that names the external one has
\* cost a change of the external secret since the job was created, or a failed
\* call; a decision against the bundled one that minio-params names has cost a
\* change (installer/entrypoint.sh 12-16, 81, 91).
THEOREM DisagreementHasACause == BootSpec => []MinioAgrees
  <1>1. BootInv => MinioAgrees
    <2> SUFFICES ASSUME BootInv PROVE MinioAgrees
      OBVIOUS
    <2>1. /\ minioParams # "none" => minioParams \in offered
          /\ InBlock["minio"] \cap applied # {} => "bundled" \in offered \/ misread
          /\ Decided /\ ~installMinio => "external" \in offered
      BY DEF BootInv, Witnessed
    <2>2. "bundled" \in offered /\ "external" \in offered => offered = MinIOs
      BY DEF BootInv, BootTypeOK, MinIOs
    <2> QED BY <2>1, <2>2 DEF MinioAgrees
  <1> QED BY BootInductive, <1>1, PTL

\* The composition is an installer: what is proved of Installer holds in it.
THEOREM BootstrapImplementsInstaller == BootSpec => Spec
  <1>1. BootInit => Init
    BY DEF BootInit
  <1>2. [BootNext]_bootVars => [Next]_vars
    BY DEF BootNext, bootVars, InstallScript, Launch, CreateNamespace, PutInNamespace,
           CallFails, RemoveNamespace, InstallerStep, ChangeExternal, WriteParams, Next
  <1> QED BY <1>1, <1>2, PTL DEF BootSpec, Spec
=============================================================================
