------------------------- MODULE UninstallerProofs -------------------------
(***************************************************************************)
(* For all lists, dependencies, settings and bounds: the type invariant,   *)
(* LeftIsMissed, KindsOutlastInstances and FailedIsFinal of the            *)
(* uninstaller.                                                            *)
(*                                                                         *)
(* What the pod knows by being where it is, is Swept: behind it nothing is *)
(* left but what a delete failed on, if the installer cannot, or did not,  *)
(* bring anything back.                                                    *)
(***************************************************************************)
EXTENDS Uninstaller, TLAPS

\* The blocks the script comes through.
Executed == Blocks \ (IF Istio THEN {} ELSE {"gateway", "istio"})

\* The script is through with the package i of the block b.
Passed(b, i) == Order[b] < Order[phase] \/ (b = phase /\ i < pos)

Quiet == ~rights \/ reapplies = 0

Swept == Quiet => \A b \in Executed : \A i \in 1 .. Len(Teardown[b]) :
                     Passed(b, i) => Teardown[b][i] \notin present \ missed

\* It is in Istio's blocks only if Istio was installed.
InIstio == phase \in {"gateway", "istio"} => Istio

\* A pod is only started while the Job has failures left.
Counted == phase # "failed" => failures <= BackoffLimit

IInv == TypeOK /\ Counted /\ InIstio /\ Swept

-----------------------------------------------------------------------------
(* Facts about the constants and the control of the script.                *)

\* A block's packages are packages, and the places of a block name them.
LEMMA TeardownElements ==
    ASSUME NEW b \in Blocks
    PROVE  /\ Len(Teardown[b]) \in Nat /\ Len(Teardown[b]) > 0
           /\ InBlock[b] = {Teardown[b][i] : i \in 1 .. Len(Teardown[b])}
           /\ \A i \in 1 .. Len(Teardown[b]) : Teardown[b][i] \in Packages
  <1>1. Teardown[b] \in Seq(Packages) /\ Len(Teardown[b]) > 0
    BY UninstallerAssumption
  <1>2. InBlock[b] = {Teardown[b][i] : i \in 1 .. Len(Teardown[b])}
    BY DEF InBlock
  <1> QED BY <1>1, <1>2

\* The order, one by one.
LEMMA Ordered ==
    /\ Order["prism"] = 1 /\ Order["services"] = 2 /\ Order["gateway"] = 3
    /\ Order["knative"] = 4 /\ Order["auth"] = 5 /\ Order["istio"] = 6
    /\ Order["certManager"] = 7 /\ Order["jobs"] = 8 /\ Order["succeeded"] = 9
    /\ Order["absent"] = 0 /\ Order["idle"] = 0 /\ Order["testEnv"] = 0
    /\ Order["fetch"] = 0 /\ Order["installer"] = 0 /\ Order["failed"] = 0
  BY DEF Order, Phases, Blocks

\* No block that is executed lies between a block and what follows it.
LEMMA AfterSteps ==
    ASSUME NEW b \in Blocks, b \in {"gateway", "istio"} => Istio
    PROVE  /\ After(b) \in Phases \ {"failed", "absent", "idle"}
           /\ After(b) \in {"gateway", "istio"} => Istio
           /\ \A c \in Executed : Order[c] < Order[After(b)] => Order[c] < Order[b] \/ c = b
  <1>1. After(b) \in Phases \ {"failed", "absent", "idle"}
    BY DEF After, Blocks, Phases
  <1>2. After(b) \in {"gateway", "istio"} => Istio
    BY DEF After, Blocks
  <1>3. ASSUME NEW c \in Executed, Order[c] < Order[After(b)]
        PROVE  Order[c] < Order[b] \/ c = b
    <2>1. c \in Blocks /\ (c \in {"gateway", "istio"} => Istio)
      BY DEF Executed, Blocks
    <2>2. CASE b = "prism"
      BY <1>3, <2>1, <2>2, Ordered DEF After, Blocks
    <2>5. CASE b = "gateway"
      BY <1>3, <2>1, <2>5, Ordered DEF After, Blocks
    <2>6. CASE b = "knative"
      BY <1>3, <2>1, <2>6, Ordered DEF After, Blocks
    <2>7. CASE b = "istio"
      BY <1>3, <2>1, <2>7, Ordered DEF After, Blocks
    <2>8. CASE b = "certManager"
      BY <1>3, <2>1, <2>8, Ordered DEF After, Blocks
    <2>9. CASE b = "jobs"
      BY <1>3, <2>1, <2>9, Ordered DEF After, Blocks
    <2>3. CASE b = "services"
      <3>1. CASE Istio
        BY <1>3, <2>1, <2>3, <3>1, Ordered DEF After, Blocks
      <3>2. CASE ~Istio
        <4>1. Order[After(b)] = 4
          BY <2>3, <3>2, Ordered DEF After
        <4> QED BY <1>3, <2>1, <2>3, <3>2, <4>1, Ordered DEF Blocks
      <3> QED BY <3>1, <3>2
    <2>4. CASE b = "auth"
      <3>1. CASE Istio
        BY <1>3, <2>1, <2>4, <3>1, Ordered DEF After, Blocks
      <3>2. CASE ~Istio
        <4>1. Order[After(b)] = 7
          BY <2>4, <3>2, Ordered DEF After
        <4> QED BY <1>3, <2>1, <2>4, <3>2, <4>1, Ordered DEF Blocks
      <3> QED BY <3>1, <3>2
    <2> QED BY <2>2, <2>3, <2>4, <2>5, <2>6, <2>7, <2>8, <2>9 DEF Blocks
  <1> QED BY <1>1, <1>2, <1>3

\* What depends on the setting only is unchanged with it.
LEMMA Settled ==
    ASSUME UNCHANGED disableIstio
    PROVE  Executed' = Executed /\ Istio' = Istio /\ Installed' = Installed
  BY DEF Executed, Installed, Istio

\* Whatever is installed has its place in a block that is executed.
LEMMA HasPlace ==
    ASSUME Covered, NEW p \in Installed
    PROVE  \E b \in Executed : \E i \in 1 .. Len(Teardown[b]) : p = Teardown[b][i]
  <1>1. p \in Packages
    BY DEF Installed
  <1>2. PICK b \in Blocks : /\ p \in InBlock[b]
                            /\ b \in {"gateway", "istio"} => p \in IstioPackages
    BY <1>1 DEF Covered
  <1>3. b \in Executed
    BY <1>2 DEF Executed, Installed
  <1>4. PICK i \in 1 .. Len(Teardown[b]) : p = Teardown[b][i]
    BY <1>2, TeardownElements
  <1> QED BY <1>3, <1>4

-----------------------------------------------------------------------------
\* The initial states satisfy the inductive invariant.
LEMMA InitIInv == Init => IInv
  <1> SUFFICES ASSUME Init PROVE IInv
    OBVIOUS
  <1>1. TypeOK
    <2>1. present \subseteq Installed
      BY DEF Init
    <2>2. phase \in Phases /\ phase \notin Blocks
      BY DEF Init, Phases, Blocks
    <2> QED
      BY <2>1, <2>2, BackoffLimitAssumption, UninstallerAssumption DEF Init, TypeOK
  <1>2. Counted /\ InIstio
    BY BackoffLimitAssumption DEF Init, Counted, InIstio
  <1>3. \A b \in Executed : b # phase /\ ~(Order[b] < Order[phase])
    BY Ordered DEF Init, Executed, Blocks
  <1> QED BY <1>1, <1>2, <1>3 DEF IInv, Swept, Passed

-----------------------------------------------------------------------------
(* Steps of the pod that delete no package.                                *)

\* The pod, or the next one, goes to the start of a place that has nothing
\* more behind it.
LEMMA MoveKeeps ==
    ASSUME IInv, UNCHANGED <<disableIstio, reapplies, wait, jobsNs>>,
           NEW x \in Phases, Enter(x),
           \A c \in Executed : ~(Order[c] < Order[x]) \/ Order[c] < Order[phase],
           x \in {"gateway", "istio"} => Istio,
           present' \subseteq present, missed' \subseteq present', 
           present' \ missed' \subseteq present \ missed,
           rights' \in BOOLEAN, rights' => rights,
           installerJob' \in BOOLEAN, installerPod' \in BOOLEAN,
           rights' = rights \/ Order[x] <= 1,
           failures' \in 0 .. (BackoffLimit + 1),
           x # "failed" => failures' <= BackoffLimit
    PROVE  IInv'
  <1> USE DEF IInv
  <1>1. Executed' = Executed /\ Istio' = Istio /\ Installed' = Installed
    BY Settled
  <1>2. phase' = x /\ pos' = 1
    BY DEF Enter
  <1>3. TypeOK'
    <2>1. x \in Blocks => 1 <= Len(Teardown[x])
      BY TeardownElements
    <2> QED BY <1>1, <1>2, <2>1 DEF TypeOK
  <1>4. Counted' /\ InIstio'
    BY <1>1, <1>2 DEF Counted, InIstio
  <1>5. Swept'
    <2> SUFFICES ASSUME Quiet', NEW b \in Executed, NEW i \in 1 .. Len(Teardown[b]),
                        Passed(b, i)'
                 PROVE  Teardown[b][i] \notin present' \ missed'
      BY <1>1 DEF Swept
    <2>1. i \in Nat /\ i >= 1 /\ b \in Blocks
      BY TeardownElements DEF Executed
    <2>2. Order[b] < Order[x]
      BY <1>2, <2>1 DEF Passed
    <2>3. Order[b] >= 1
      BY <2>1, Ordered DEF Blocks
    <2>4. Order[b] \in Nat
      BY <2>1, Ordered DEF Blocks
    <2>7. Order[x] \in Nat
      <3>1. x \in Blocks => Order[x] \in Nat
        BY Ordered DEF Blocks
      <3>2. x \in {"absent", "idle", "testEnv", "fetch", "installer", "succeeded", "failed"}
               => Order[x] \in Nat
        BY Ordered
      <3> QED BY <3>1, <3>2 DEF Phases
    <2>5. rights' = rights
      BY <2>2, <2>3, <2>4, <2>7
    <2>8. Quiet
      BY <2>5 DEF Quiet
    <2>6. Passed(b, i)
      BY <2>2 DEF Passed
    <2> QED BY <2>8, <2>6 DEF Swept
  <1> QED BY <1>3, <1>4, <1>5

\* A pod that exits or dies leaves the cluster as it is.
LEMMA ExitKeeps ==
    ASSUME IInv, PodExits, PodRuns, UNCHANGED <<disableIstio, installer, cluster, admin>>
    PROVE  IInv'
  <1> DEFINE x == IF failures < BackoffLimit THEN "idle" ELSE "failed"
  <1>1. Enter(x) /\ x \in Phases /\ Order[x] = 0
    BY Ordered DEF PodExits, Phases
  <1>2. x \notin {"gateway", "istio"}
    OBVIOUS
  <1>3. failures \in Nat /\ failures <= BackoffLimit /\ failures' = failures + 1
    BY BackoffLimitAssumption DEF PodExits, PodRuns, IInv, TypeOK, Counted
  <1>4. failures' \in 0 .. (BackoffLimit + 1) /\ (x # "failed" => failures' <= BackoffLimit)
    BY <1>3, BackoffLimitAssumption
  <1>5. \A c \in Executed : ~(Order[c] < Order[x])
    BY <1>1, Ordered DEF Executed, Blocks
  <1>6. /\ UNCHANGED <<disableIstio, reapplies, wait, jobsNs, present, missed, rights,
                      installerJob, installerPod>>
        /\ missed \subseteq present /\ rights \in BOOLEAN /\ installerJob \in BOOLEAN
        /\ installerPod \in BOOLEAN
    BY DEF IInv, TypeOK, installer, cluster, admin
  <1> HIDE DEF x
  <1> QED BY <1>1, <1>2, <1>4, <1>5, <1>6, MoveKeeps

\* The pod begins, and comes to its first delete.
LEMMA PreparationKeeps ==
    ASSUME IInv, StartPod \/ TestEnvVars \/ Fetch \/ DeleteInstaller
    PROVE  IInv'
  <1>1. /\ missed \subseteq present /\ rights \in BOOLEAN /\ installerJob \in BOOLEAN
        /\ installerPod \in BOOLEAN /\ failures \in 0 .. (BackoffLimit + 1)
    BY DEF IInv, TypeOK
  <1>2. \A c \in Executed : Order[c] >= 1 /\ Order[c] \in Nat
    BY Ordered DEF Executed, Blocks
  <1>3. ASSUME StartPod PROVE IInv'
    <2>1. /\ phase = "idle" /\ Enter("testEnv")
          /\ UNCHANGED <<disableIstio, reapplies, wait, jobsNs, present, missed, rights,
                         installerJob, installerPod, failures>>
      BY <1>3 DEF StartPod, installer, cluster, admin
    <2>2. "testEnv" \in Phases /\ failures <= BackoffLimit
      BY <2>1 DEF Phases, IInv, Counted
    <2> QED BY <1>1, <1>2, <2>1, <2>2, Ordered, MoveKeeps
  <1>4. ASSUME TestEnvVars PROVE IInv'
    <2>1. phase = "testEnv" /\ UNCHANGED <<disableIstio, installer, cluster, admin>>
      BY <1>4 DEF TestEnvVars
    <2>2. CASE Enter("fetch") /\ UNCHANGED failures
      <3>1. "fetch" \in Phases /\ failures <= BackoffLimit
        BY <2>1 DEF Phases, IInv, Counted
      <3>2. UNCHANGED <<disableIstio, reapplies, wait, jobsNs, present, missed, rights,
                        installerJob, installerPod, failures>>
        BY <2>1, <2>2 DEF installer, cluster, admin
      <3> QED BY <1>1, <1>2, <2>2, <3>1, <3>2, Ordered, MoveKeeps
    <2>3. CASE PodExits
      BY <2>1, <2>3, ExitKeeps DEF PodRuns
    <2> QED BY <1>4, <2>2, <2>3 DEF TestEnvVars
  <1>5. ASSUME Fetch PROVE IInv'
    <2>1. phase = "fetch" /\ UNCHANGED <<disableIstio, installer, cluster, admin>>
      BY <1>5 DEF Fetch
    <2>2. CASE Enter(After(phase)) /\ UNCHANGED failures
      <3>1. Enter("installer") /\ "installer" \in Phases /\ failures <= BackoffLimit
        BY <2>1, <2>2 DEF Phases, IInv, Counted, After
      <3>2. UNCHANGED <<disableIstio, reapplies, wait, jobsNs, present, missed, rights,
                        installerJob, installerPod, failures>>
        BY <2>1, <2>2 DEF installer, cluster, admin
      <3> QED BY <1>1, <1>2, <3>1, <3>2, Ordered, MoveKeeps
    <2>3. CASE PodExits
      BY <2>1, <2>3, ExitKeeps DEF PodRuns
    <2> QED BY <1>5, <2>2, <2>3 DEF Fetch
  <1>6. ASSUME DeleteInstaller PROVE IInv'
    <2>1. /\ phase = "installer" /\ Enter("prism")
          /\ rights' \in {rights, FALSE} /\ installerJob' \in {installerJob, FALSE}
          /\ UNCHANGED <<disableIstio, reapplies, wait, jobsNs, present, missed,
                         installerPod, failures>>
      BY <1>6 DEF DeleteInstaller, After, cluster, admin
    <2>2. "prism" \in Phases /\ failures <= BackoffLimit
      BY <2>1 DEF Phases, Blocks, IInv, Counted
    <2>3. \A c \in Executed : ~(Order[c] < Order["prism"])
      BY <1>2, Ordered
    <2>4. Order["prism"] <= 1
      BY Ordered
    <2>5. /\ rights' \in BOOLEAN /\ (rights' => rights)
          /\ installerJob' \in BOOLEAN /\ installerPod' \in BOOLEAN
      <3>1. rights' = rights \/ rights' = FALSE
        BY <2>1
      <3>2. installerJob' = installerJob \/ installerJob' = FALSE
        BY <2>1
      <3>5. rights \in BOOLEAN
        BY <1>1
      <3>3. rights' \in BOOLEAN /\ (rights' => rights)
        <4>1. CASE rights' = rights
          BY <3>5, <4>1
        <4>2. CASE rights' = FALSE
          BY <4>2
        <4> QED BY <3>1, <4>1, <4>2
      <3>4. installerJob' \in BOOLEAN
        BY <1>1, <3>2
      <3> QED BY <1>1, <2>1, <3>3, <3>4
    <2>6. /\ present' \subseteq present /\ missed' \subseteq present'
          /\ present' \ missed' \subseteq present \ missed
          /\ failures' \in 0 .. (BackoffLimit + 1) /\ failures' <= BackoffLimit
      BY <1>1, <2>1, <2>2
    <2> QED BY <2>1, <2>2, <2>3, <2>4, <2>5, <2>6, MoveKeeps
  <1> QED BY <1>3, <1>4, <1>5, <1>6

\* delete_kf_services begins anew.
LEMMA TimesOutKeeps ==
    ASSUME IInv, TimesOut
    PROVE  IInv'
  <1>1. /\ phase = "services" /\ Enter("services")
        /\ UNCHANGED <<disableIstio, reapplies, wait, jobsNs, rights, installerJob,
                       installerPod, failures>>
    BY DEF TimesOut, installer, admin
  <1>2. /\ missed \subseteq present /\ rights \in BOOLEAN /\ installerJob \in BOOLEAN
        /\ installerPod \in BOOLEAN /\ failures \in 0 .. (BackoffLimit + 1)
    BY DEF IInv, TypeOK
  <1>3. /\ present' \subseteq present /\ missed' \subseteq present'
        /\ present' \ missed' \subseteq present \ missed
    BY <1>2 DEF TimesOut, cluster
  <1>4. "services" \in Phases /\ failures <= BackoffLimit
    BY <1>1 DEF Phases, Blocks, IInv, Counted
  <1> QED BY <1>1, <1>2, <1>3, <1>4, MoveKeeps

-----------------------------------------------------------------------------
(* Steps that delete a package, and those that bring one.                  *)

\* After a delete the package is gone, or missed.
LEMMA DeleteKeeps ==
    ASSUME IInv, DeleteSucceeds \/ DeleteFails
    PROVE  IInv'
  <1> USE DEF IInv
  <1>1. /\ phase \in Blocks /\ Advance
        /\ UNCHANGED <<disableIstio, reapplies, wait, jobsNs, rights, installerJob,
                       installerPod, failures>>
    BY DEF DeleteSucceeds, DeleteFails, Advance, installer, admin
  <1>2. pos \in 1 .. Len(Teardown[phase]) /\ Len(Teardown[phase]) \in Nat
    BY <1>1, TeardownElements DEF TypeOK
  <1>3. /\ present' \subseteq present /\ missed' \subseteq present'
        /\ present' \ missed' \subseteq (present \ missed) \ {Current}
    BY DEF DeleteSucceeds, DeleteFails, TypeOK
  <1>4. /\ Executed' = Executed /\ Istio' = Istio /\ Installed' = Installed
        /\ failures <= BackoffLimit
    BY <1>1, Settled DEF Counted, Blocks
  <1>5. /\ Swept => (Quiet => \A b \in Executed : \A i \in 1 .. Len(Teardown[b]) :
                        Order[b] < Order[phase] \/ (b = phase /\ i <= pos) =>
                           Teardown[b][i] \notin present' \ missed')
    <2> SUFFICES ASSUME Swept, Quiet, NEW b \in Executed,
                        NEW i \in 1 .. Len(Teardown[b]),
                        Order[b] < Order[phase] \/ (b = phase /\ i <= pos)
                 PROVE  Teardown[b][i] \notin present' \ missed'
      OBVIOUS
    <2>1. CASE b = phase /\ i = pos
      BY <1>3, <2>1 DEF Current
    <2>2. CASE ~(b = phase /\ i = pos)
      <3>1. Passed(b, i)
        BY <1>2, <2>2 DEF Passed, Executed
      <3> QED BY <1>3, <3>1 DEF Swept
    <2> QED BY <2>1, <2>2
  <1>8. Quiet' = Quiet
    BY <1>1 DEF Quiet
  <1>6. CASE pos < Len(Teardown[phase])
    <2>1. phase' = phase /\ pos' = pos + 1
      BY <1>1, <1>6 DEF Advance
    <2>2. TypeOK' /\ Counted' /\ InIstio'
      BY <1>1, <1>2, <1>3, <1>4, <1>6, <2>1 DEF TypeOK, Counted, InIstio
    <2>3. Swept'
      <3> SUFFICES ASSUME Quiet', NEW b \in Executed, NEW i \in 1 .. Len(Teardown[b]),
                          Passed(b, i)'
                   PROVE  Teardown[b][i] \notin present' \ missed'
        BY <1>4 DEF Swept
      <3>1. Order[b] < Order[phase] \/ (b = phase /\ i <= pos)
        BY <1>2, <2>1 DEF Passed
      <3> QED BY <1>5, <1>8, <3>1
    <2> QED BY <2>2, <2>3
  <1>7. CASE ~(pos < Len(Teardown[phase]))
    <2>1. Enter(After(phase))
      BY <1>1, <1>7 DEF Advance
    <2>2. /\ After(phase) \in Phases \ {"failed", "absent", "idle"}
          /\ After(phase) \in {"gateway", "istio"} => Istio
          /\ \A c \in Executed :
                Order[c] < Order[After(phase)] => Order[c] < Order[phase] \/ c = phase
      BY <1>1, AfterSteps DEF InIstio
    <2>3. phase' = After(phase) /\ pos' = 1
      BY <2>1 DEF Enter
    <2>4. TypeOK' /\ Counted' /\ InIstio'
      <3>1. After(phase) \in Blocks => 1 <= Len(Teardown[After(phase)])
        BY TeardownElements
      <3> QED BY <1>1, <1>3, <1>4, <2>2, <2>3, <3>1 DEF TypeOK, Counted, InIstio
    <2>5. Swept'
      <3> SUFFICES ASSUME Quiet', NEW b \in Executed, NEW i \in 1 .. Len(Teardown[b]),
                          Passed(b, i)'
                   PROVE  Teardown[b][i] \notin present' \ missed'
        BY <1>4 DEF Swept
      <3>1. Order[b] < Order[After(phase)]
        BY <2>3, TeardownElements DEF Passed, Executed
      <3>2. Order[b] < Order[phase] \/ b = phase
        BY <2>2, <3>1
      <3>3. b = phase => i <= pos
        BY <1>2, <1>7
      <3> QED BY <1>5, <1>8, <3>2, <3>3
    <2> QED BY <2>4, <2>5
  <1> QED BY <1>6, <1>7

\* The installer and the administrator do not touch what is swept.
LEMMA OthersKeep ==
    ASSUME IInv,
           \/ InstallerApplies \/ InstallerPodTurns
           \/ RunAgain \/ CleanUp \/ WaitTimesOut
    PROVE  IInv'
  <1> USE DEF IInv
  <1>1. /\ UNCHANGED <<disableIstio, rights, phase, pos, failures>>
        /\ UNCHANGED <<cluster, reapplies>> \/ (rights /\ reapplies' = reapplies + 1)
    BY DEF InstallerApplies, InstallerPodTurns, RunAgain, CleanUp, WaitTimesOut,
           installer, script
  <1>2. Executed' = Executed /\ Istio' = Istio /\ Installed' = Installed
    BY <1>1, Settled
  <1>3. /\ present' \subseteq Installed /\ missed' \subseteq present'
        /\ reapplies' \in 0 .. MaxReapplies
    BY UninstallerAssumption
       DEF TypeOK, InstallerApplies, InstallerPodTurns, RunAgain, CleanUp, WaitTimesOut,
           installer, cluster
  <1>4. /\ installerJob' \in BOOLEAN /\ installerPod' \in BOOLEAN /\ jobsNs' \in BOOLEAN
        /\ wait' \in {"none", "waiting", "error", "cleaned"}
    BY DEF TypeOK, InstallerApplies, InstallerPodTurns, RunAgain, CleanUp, WaitTimesOut,
           installer, cluster, admin
  <1>5. TypeOK'
    BY <1>1, <1>2, <1>3, <1>4 DEF TypeOK
  <1>6. Counted' /\ InIstio'
    BY <1>1, <1>2 DEF Counted, InIstio
  <1>7. Swept'
    <2>1. CASE UNCHANGED <<cluster, reapplies>>
      BY <1>1, <1>2, <2>1 DEF Swept, Passed, Quiet, cluster
    <2>2. CASE rights /\ reapplies' = reapplies + 1
      <3>1. rights' /\ reapplies' # 0
        BY <1>1, <2>2, UninstallerAssumption DEF TypeOK
      <3> QED BY <3>1 DEF Swept, Quiet
    <2> QED BY <1>1, <2>1, <2>2
  <1> QED BY <1>5, <1>6, <1>7

\* uninstall.sh creates the Job, or loses it.
LEMMA AdminKeeps ==
    ASSUME IInv, RunUninstall \/ CleanUpFails
    PROVE  IInv'
  <1> USE DEF IInv
  <1>1. /\ UNCHANGED <<disableIstio, installer, cluster, jobsNs>>
        /\ wait' \in {"waiting", "error"}
        /\ phase' \in {"idle", "absent", phase}
        /\ pos' \in {1, pos}
        /\ failures' \in {0, failures}
        /\ phase' = phase => pos' = pos
        /\ phase # "failed"
    BY DEF RunUninstall, CleanUpFails, Enter
  <1>2. Executed' = Executed /\ Istio' = Istio /\ Installed' = Installed
    BY <1>1, Settled
  <1>3. failures' \in 0 .. (BackoffLimit + 1) /\ failures' <= BackoffLimit
    BY <1>1, BackoffLimitAssumption DEF TypeOK, Counted
  <1>4. TypeOK'
    BY <1>1, <1>2, <1>3 DEF TypeOK, installer, cluster, Phases, Blocks
  <1>5. Counted' /\ InIstio'
    BY <1>1, <1>2, <1>3 DEF Counted, InIstio
  <1>6. Swept'
    <2>1. CASE phase' = phase
      BY <1>1, <1>2, <2>1 DEF Swept, Passed, Quiet, installer, cluster
    <2>2. CASE phase' \in {"idle", "absent"}
      <3>1. \A b \in Executed : b # phase' /\ ~(Order[b] < Order[phase'])
        BY <2>2, Ordered DEF Executed, Blocks
      <3> QED BY <1>2, <3>1 DEF Swept, Passed
    <2> QED BY <1>1, <2>1, <2>2
  <1> QED BY <1>4, <1>5, <1>6

-----------------------------------------------------------------------------
\* Every step of the specification keeps the inductive invariant.
LEMMA NextIInv == IInv /\ [Next]_vars => IInv'
  <1> SUFFICES ASSUME IInv, [Next]_vars PROVE IInv'
    OBVIOUS
  <1>1. CASE StartPod \/ TestEnvVars \/ Fetch \/ DeleteInstaller
    BY <1>1, PreparationKeeps
  <1>2. CASE DeleteSucceeds \/ DeleteFails
    BY <1>2, DeleteKeeps
  <1>3. CASE TimesOut
    BY <1>3, TimesOutKeeps
  <1>4. CASE PodDies
    BY <1>4, ExitKeeps DEF PodDies
  <1>5. CASE InstallerApplies \/ InstallerPodTurns \/ RunAgain \/ CleanUp \/ WaitTimesOut
    BY <1>5, OthersKeep
  <1>6. CASE RunUninstall \/ CleanUpFails
    BY <1>6, AdminKeeps
  <1>7. CASE UNCHANGED vars
    <2>1. UNCHANGED <<disableIstio, present, missed, rights, installerJob, installerPod,
                      reapplies, phase, pos, failures, wait, jobsNs>>
      BY <1>7 DEF vars, installer, cluster, script, admin
    <2>2. Executed' = Executed /\ Istio' = Istio /\ Installed' = Installed
      BY <2>1, Settled
    <2> QED BY <2>1, <2>2 DEF IInv, TypeOK, Counted, InIstio, Swept, Passed, Quiet
  <1> QED
    BY <1>1, <1>2, <1>3, <1>4, <1>5, <1>6, <1>7 DEF Next, ScriptStep

\* The inductive invariant holds in every reachable state.
LEMMA Inductive == Spec => []IInv
  BY InitIInv, NextIInv, PTL DEF Spec

-----------------------------------------------------------------------------
\* Every variable keeps its type; in particular pos stays inside its list.
THEOREM TypeCorrect == Spec => []TypeOK
  <1>1. IInv => TypeOK
    BY DEF IInv
  <1> QED BY Inductive, <1>1, PTL

\* If the lists forget no package, a script that ends leaves behind only what
\* a delete failed on, whatever the installer did until it lost its rights
\* (entrypoint.sh 114-149).
THEOREM NothingIsForgotten ==
    ASSUME Covered
    PROVE  Spec => []LeftIsMissed
  <1>1. IInv => LeftIsMissed
    <2> SUFFICES ASSUME IInv, phase = "succeeded", ~rights, NEW p \in present
                 PROVE  p \in missed
      BY DEF LeftIsMissed
    <2>1. PICK b \in Executed : \E i \in 1 .. Len(Teardown[b]) : p = Teardown[b][i]
      BY HasPlace DEF IInv, TypeOK
    <2>2. PICK i \in 1 .. Len(Teardown[b]) : p = Teardown[b][i]
      BY <2>1
    <2>3. Passed(b, i)
      BY Ordered DEF Passed, Executed, Blocks
    <2> QED BY <2>2, <2>3 DEF IInv, Swept, Quiet
  <1> QED BY Inductive, <1>1, PTL

\* If moreover the lists delete instances before kinds, no package loses its
\* kinds before its own delete, however often delete_kf_services is begun anew
\* (entrypoint.sh 60-147).
THEOREM InstancesGoFirst ==
    ASSUME Covered, InstancesFirst
    PROVE  Spec => []KindsOutlastInstances
  <1>1. Init => KindsOutlastInstances
    <2> SUFFICES ASSUME Init, NEW p \in present \ missed
                 PROVE  Kinds(p) \subseteq present
      BY DEF KindsOutlastInstances
    <2>1. present = Installed
      BY DEF Init
    <2> QED BY <2>1 DEF Kinds
  <1>2. IInv /\ KindsOutlastInstances /\ [Next]_vars => KindsOutlastInstances'
    <2> SUFFICES ASSUME IInv, KindsOutlastInstances, [Next]_vars, reapplies' = 0,
                        NEW p \in present' \ missed'
                 PROVE  Kinds(p)' \subseteq present'
      BY DEF KindsOutlastInstances
    <2>1. /\ reapplies = 0 /\ disableIstio' = disableIstio
          /\ \/ UNCHANGED cluster
             \/ /\ phase \in Blocks
                /\ \/ present' = present \ {Current} /\ missed' = missed \ {Current}
                   \/ present' = present /\ missed' = missed \cup {Current}
      <3>1. reapplies \in Nat
        BY UninstallerAssumption DEF IInv, TypeOK
      <3>2. ~InstallerApplies
        BY <3>1 DEF InstallerApplies
      <3>3. CASE StartPod \/ TestEnvVars \/ Fetch \/ DeleteInstaller \/ PodDies
        BY <3>3 DEF StartPod, TestEnvVars, Fetch, DeleteInstaller, PodDies, installer
      <3>4. CASE DeleteSucceeds \/ DeleteFails \/ TimesOut
        BY <3>4 DEF DeleteSucceeds, DeleteFails, TimesOut, installer, Blocks
      <3>5. CASE InstallerPodTurns \/ RunUninstall \/ RunAgain \/ CleanUp
                    \/ CleanUpFails \/ WaitTimesOut
        BY <3>5 DEF InstallerPodTurns, RunUninstall, RunAgain, CleanUp, CleanUpFails,
                    WaitTimesOut, installer
      <3>6. CASE UNCHANGED vars
        BY <3>6 DEF vars, installer
      <3> QED BY <3>2, <3>3, <3>4, <3>5, <3>6 DEF Next, ScriptStep
    <2>2. Kinds(p)' = Kinds(p)
      BY <2>1, Settled DEF Kinds
    <2>3. p \in present \ missed
      BY <2>1 DEF cluster
    <2>4. Kinds(p) \subseteq present
      BY <2>1, <2>3 DEF KindsOutlastInstances
    <2>5. ASSUME phase \in Blocks, Current \in Kinds(p)
          PROVE  FALSE
      <3>1. PICK b \in Executed : \E i \in 1 .. Len(Teardown[b]) : p = Teardown[b][i]
        BY <2>3, HasPlace DEF IInv, TypeOK
      <3>2. PICK i \in 1 .. Len(Teardown[b]) : p = Teardown[b][i]
        BY <3>1
      <3>3. pos \in 1 .. Len(Teardown[phase]) /\ b \in Blocks
        BY <2>5, TeardownElements DEF IInv, TypeOK, Executed
      <3>4. Order[b] < Order[phase] \/ (b = phase /\ i < pos)
        BY <2>5, <3>2, <3>3 DEF InstancesFirst, Kinds, Current
      <3> QED BY <2>1, <2>3, <3>2, <3>4 DEF IInv, Swept, Quiet, Passed
    <2> QED BY <2>1, <2>2, <2>4, <2>5 DEF cluster
  <1> QED BY Inductive, <1>1, <1>2, PTL DEF Spec

\* A failed uninstallation is final: uninstall.sh never deletes anything more
\* (uninstall.sh 12-19).
THEOREM FailureIsFinal == Spec => FailedIsFinal
  <1>1. [Next]_vars =>
           [phase = "failed" => /\ phase' = "failed"
                                /\ jobsNs' = jobsNs
                                /\ present \subseteq present']_vars
    <2> SUFFICES ASSUME Next, phase = "failed"
                 PROVE  phase' = "failed" /\ jobsNs' = jobsNs /\ present \subseteq present'
      OBVIOUS
    <2>1. "failed" \notin Blocks
      BY DEF Blocks
    <2>2. \/ InstallerApplies \/ InstallerPodTurns \/ RunAgain \/ WaitTimesOut
      BY <2>1
         DEF Next, ScriptStep, StartPod, TestEnvVars, Fetch, DeleteInstaller,
             DeleteSucceeds, DeleteFails, TimesOut, PodDies, PodRuns, RunUninstall,
             CleanUp, CleanUpFails
    <2> QED
      BY <2>2
         DEF InstallerApplies, InstallerPodTurns, RunAgain, WaitTimesOut, script, admin,
             cluster
  <1> QED BY <1>1, PTL DEF Spec, FailedIsFinal
=============================================================================
