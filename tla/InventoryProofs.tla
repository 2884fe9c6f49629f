-------------------------- MODULE InventoryProofs --------------------------
(***************************************************************************)
(* For all namespaces and bounds: the type invariant, ForeignIsLast and    *)
(* ScanIsComplete of the inventory.                                        *)
(*                                                                         *)
(* ForeignIsLast is about the report alone.  That it holds rests on what   *)
(* every file keeps to while nothing has broken off half-way: the list of  *)
(* the first scan is the one in base; what a scan_kf is to visit, and its  *)
(* lists of images, name one namespace of base at most, the last one that  *)
(* has not gone; and once the first list is removed, so that the next scan *)
(* may take another base, the lists of images are empty or are still to be *)
(* removed.  That the one is the last rests on the list of all namespaces: *)
(* a namespace of base is in it unless it has gone.                        *)
(*                                                                         *)
(* ScanIsComplete needs, of a scan_kf that nothing has disturbed, what it  *)
(* has listed so far, and that no file of its own is in its way.           *)
(***************************************************************************)
EXTENDS Inventory, WellFoundedInduction, SequenceTheorems, TLAPS

ImageFiles == {"images", "cmImages", "report"}

\* The files, as a function, and what is left of a command.
Shape == /\ DOMAIN file = Names
         /\ phase \notin {"pods", "cm"} => todo = {}
         /\ phase = "diff" => file["after"] # NoFile
         /\ phase = "remove" => toRemove # << >>
         /\ toRemove \in Seq(Names \ {"before"})

ToRemove(f) == \E i \in 1 .. Len(toRemove) : toRemove[i] = f

\* The list of images f is empty, or the running clear will remove it.
Forgotten(f) == \/ file[f] \in {NoFile, {}}
                \/ phase = "clear_kf"
                \/ phase = "remove" /\ ToRemove(f)

BaseKept  == file["before"] # NoFile => file["before"] = base
Renewable == file["before"] = NoFile => todo = {} /\ \A f \in ImageFiles : Forgotten(f)

\* Every namespace of base that follows n has gone.
IsLast(n) == \A m \in base : n < m => m \in gone

\* f has a line of the namespace n.
HasLine(f, n) == file[f] # NoFile /\ \E l \in file[f] : l[2] = n

\* The scan_kf is to visit n, or has.
Visits(n) == n \in todo \/ HasLine("images", n) \/ HasLine("cmImages", n)

VisitsOne == \A n \in base : Visits(n) =>
                IsLast(n) /\ \A m \in base : Visits(m) => m = n
ReportsOne == \A n \in base : HasLine("report", n) =>
                IsLast(n) /\ \A m \in base : HasLine("report", m) => m = n

Sound == ~broken => BaseKept /\ VisitsOne /\ ReportsOne /\ Renewable

\* Of base only what has gone may be missing, in the cluster and in its list.
BaseThere == \A n \in base \ gone : version[n] # 0
AllListed == phase = "diff" => file["after"] = {} \/ base \ gone \subseteq file["after"]

\* Where no file of an earlier scan_kf is in the way, none is until its
\* namespace has been visited.
NotFetched ==
    /\ phase \in {"scan_kf", "diff"} => \A n \in Namespaces \ old : cm[n] = NoFile
    /\ phase \in {"pods", "cm"} => \A n \in todo \ old : cm[n] = NoFile

PodListed(n) == <<"pod", n, version[n]>> \in file["images"]
CmListed(n)  == <<"cm", n, version[n]>> \in file["cmImages"]

\* A scan_kf that nothing has disturbed has listed what is there in the new
\* namespaces that it has visited, and half of the one where it is.
Listed ==
    ~disturbed =>
        /\ phase = "diff" => file["after"] = Existing
        /\ phase = "cm" => version[Current] = 0 \/ PodListed(Current)
        /\ phase \in {"pods", "cm"} /\ file["before"] # NoFile =>
              \A n \in Kubeflow \ todo : PodListed(n) /\ (n \notin old => CmListed(n))

IInv == TypeOK /\ Shape /\ BaseThere /\ AllListed /\ Sound /\ NotFetched /\ Listed

-----------------------------------------------------------------------------
\* scan_kf visits one of the namespaces that are left (kf_collect.sh 66).
LEMMA CurrentIsToDo == ASSUME todo \subseteq Nat, todo # {} PROVE Current \in todo
<1> DEFINE Less == {ss \in Nat \X Nat : ss[1] < ss[2]}
<1>0. OpToRel(<, Nat) = Less
  BY DEF OpToRel
<1>1. PICK n \in todo : \A m \in todo : ~ (<<m, n>> \in Less)
  BY <1>0, WFMin, NatLessThanWellFounded
<1>2. ASSUME NEW m \in todo PROVE n <= m
  <2>1. <<m, n>> \in Nat \X Nat /\ ~ (<<m, n>> \in Less)
    BY <1>1
  <2>2. ~ (<<m, n>>[1] < <<m, n>>[2])
    BY <2>1
  <2> QED
    BY <2>2
<1> QED
  BY <1>2 DEF Current, Min

\* An image that is listed is a line (kf_collect.sh 68, 88).
LEMMA ImagesAreLines ==
    ASSUME NEW kind \in {"pod", "cm"}, NEW n \in Namespaces, NEW v \in Versions
    PROVE  /\ Images(kind, n, v) \subseteq Lines
           /\ \A l \in Images(kind, n, v) : l[2] = n
BY DEF Images, Lines

LEMMA NoFileIsNoSet == /\ \A S \in SUBSET Namespaces : S # NoFile
                       /\ \A S \in SUBSET Lines : S # NoFile
BY InventoryAssumption DEF InventoryAssumption

\* TypeOK, but for the Booleans.
Typed == /\ version \in [Namespaces -> Versions]
         /\ changes \in 0 .. MaxChanges
         /\ \A f \in {"before", "after", "nsList"} :
               file[f] = NoFile \/ file[f] \subseteq Namespaces
         /\ \A f \in ImageFiles : file[f] = NoFile \/ file[f] \subseteq Lines
         /\ cm \in [Namespaces -> Versions \cup {NoFile}]
         /\ phase \in {"idle", "scan", "scan_kf", "diff", "pods", "cm", "clear",
                       "clear_kf", "remove"}
         /\ phase \in {"pods", "cm"} => file["images"] # NoFile /\ file["cmImages"] # NoFile
         /\ phase = "cm" => todo # {}
         /\ todo \subseteq Namespaces
         /\ toRemove \in Seq(Names)
         /\ commands \in 0 .. MaxCommands
         /\ base \subseteq Namespaces
         /\ gone \subseteq base
         /\ old \subseteq Namespaces

Booleans == broken \in BOOLEAN /\ disturbed \in BOOLEAN

LEMMA TypeParts == TypeOK <=> Typed /\ Booleans
BY DEF TypeOK, Typed, Booleans, ImageFiles

\* The two histories that are Booleans stay Booleans.
LEMMA NextBooleans == ASSUME Booleans, [Next]_vars PROVE Booleans'
<1>1. CASE Command
  BY <1>1, Zenon DEF Booleans, Command, cluster, history
<1>2. CASE Scan
  BY <1>2, Zenon DEF Booleans, Scan, cluster, history
<1>3. CASE ListAfter
  BY <1>3, Zenon DEF Booleans, ListAfter, cluster, history
<1>4. CASE Diff
  BY <1>4, Zenon DEF Booleans, Diff, cluster, history
<1>5. CASE GetPods
  BY <1>5, Zenon DEF Booleans, GetPods, cluster, history
<1>6. CASE GetConfigMaps
  BY <1>6, Zenon DEF Booleans, GetConfigMaps, cluster, history
<1>7. CASE Report
  BY <1>7, Zenon DEF Booleans, Report, cluster, history
<1>8. CASE Clear
  BY <1>8, Zenon DEF Booleans, Clear, cluster, history
<1>9. CASE ClearKF
  BY <1>9, Zenon DEF Booleans, ClearKF, cluster, history
<1>10. CASE Remove
  BY <1>10, Zenon DEF Booleans, Remove, cluster, history
<1>11. CASE Interrupt
  BY <1>11, Zenon DEF Booleans, Interrupt, cluster, history
<1>12. CASE ClusterChanges
  BY <1>12, Zenon DEF Booleans, ClusterChanges, cluster, history
<1>13. CASE UNCHANGED vars
  BY <1>13 DEF Booleans, vars, history
<1> QED
  BY <1>1, <1>2, <1>3, <1>4, <1>5, <1>6, <1>7, <1>8, <1>9, <1>10, <1>11, <1>12, <1>13 DEF Next, ScriptStep

\* A write changes one file.
LEMMA Written ==
    ASSUME Shape, NEW f \in Names, NEW content, Write(f, content)
    PROVE  /\ DOMAIN file' = Names
           /\ file'[f] = content
           /\ \A g \in Names \ {f} : file'[g] = file[g]
BY DEF Shape, Write

\* The types and the shape, over each action.
LEMMA InitTyped == Init => Typed /\ Booleans /\ Shape
<1>1. Init => Booleans
  BY Zenon DEF Init, Booleans
<1>2. Init => Typed /\ Shape
  BY InventoryAssumption DEF InventoryAssumption, Init, Typed, Shape, Names, Versions, ImageFiles
<1> QED
  BY <1>1, <1>2

LEMMA NextTyped == ASSUME Typed, Shape, [Next]_vars PROVE Typed' /\ Shape'
<1>1. CASE Command
  BY <1>1, NoFileIsNoSet, InventoryAssumption
     DEF InventoryAssumption, Typed, Shape, Names, ImageFiles, Command, cluster, history
<1>2. CASE Scan
  <2>1. Existing \subseteq Namespaces
    BY DEF Existing
  <2>2. CASE file' = file /\ base' = base /\ gone' = gone
    BY <1>2, <2>2 DEF Typed, Shape, Names, ImageFiles, Scan, cluster
  <2>3. CASE /\ base' = Existing /\ gone' = {}
             /\ \E S \in {Existing, {}} : Write("before", S)
    <3>1. PICK S \in SUBSET Namespaces : Write("before", S)
      BY <2>1, <2>3
    <3>2. /\ DOMAIN file' = Names /\ file'["before"] = S
          /\ \A g \in Names \ {"before"} : file'[g] = file[g]
      BY <3>1, Written DEF Names
    <3> QED
      BY <1>2, <2>1, <2>3, <3>2 DEF Typed, Shape, Names, ImageFiles, Scan, cluster
  <2> QED
    BY <1>2, <2>2, <2>3 DEF Scan
<1>3. CASE ListAfter
  BY <1>3, NoFileIsNoSet, InventoryAssumption
     DEF InventoryAssumption, Typed, Shape, Names, ImageFiles, ListAfter, Existing, Write, cluster, history
<1>4. CASE Diff
  BY <1>4, NoFileIsNoSet, InventoryAssumption
     DEF InventoryAssumption, Typed, Shape, Names, ImageFiles, Diff, New, cluster, history
<1>5. CASE GetPods
  <2>1. Current \in todo /\ Current \in Namespaces
    BY <1>5, CurrentIsToDo, InventoryAssumption DEF InventoryAssumption, GetPods, Typed
  <2>2. Images("pod", Current, version[Current]) \subseteq Lines
    BY <2>1, ImagesAreLines DEF Typed
  <2>3. CASE file' = file
    BY <1>5, <2>1, <2>3 DEF Typed, Shape, Names, ImageFiles, GetPods, cluster
  <2>4. CASE Write("images", file["images"] \cup Images("pod", Current, version[Current]))
    <3>1. /\ DOMAIN file' = Names
          /\ file'["images"] = file["images"] \cup Images("pod", Current, version[Current])
          /\ \A g \in Names \ {"images"} : file'[g] = file[g]
      BY <2>4, Written DEF Names
    <3>2. file'["images"] \subseteq Lines /\ file'["images"] # NoFile
      BY <1>5, <2>2, <3>1, NoFileIsNoSet DEF Typed, GetPods, ImageFiles
    <3> QED
      BY <1>5, <2>1, <3>1, <3>2 DEF Typed, Shape, Names, ImageFiles, GetPods, cluster
  <2> QED
    BY <1>5, <2>3, <2>4 DEF GetPods
<1>6. CASE GetConfigMaps
  <2>1. Current \in todo /\ Current \in Namespaces
    BY <1>6, CurrentIsToDo, InventoryAssumption DEF InventoryAssumption, GetConfigMaps, Typed
  <2>2. /\ cm' \in [Namespaces -> Versions \cup {NoFile}]
        /\ cm'[Current] \in Versions
    BY <1>6, <2>1, InventoryAssumption
       DEF InventoryAssumption, GetConfigMaps, Typed, Versions
  <2>3. Images("cm", Current, cm'[Current]) \subseteq Lines
    BY <2>1, <2>2, ImagesAreLines
  <2>4. /\ DOMAIN file' = Names
        /\ file'["cmImages"] = file["cmImages"] \cup Images("cm", Current, cm'[Current])
        /\ \A g \in Names \ {"cmImages"} : file'[g] = file[g]
    BY <1>6, Written DEF GetConfigMaps, Names
  <2>5. file'["cmImages"] \subseteq Lines /\ file'["cmImages"] # NoFile
    BY <1>6, <2>3, <2>4, NoFileIsNoSet DEF Typed, GetConfigMaps, ImageFiles
  <2> QED
    BY <1>6, <2>2, <2>4, <2>5 DEF Typed, Shape, Names, ImageFiles, GetConfigMaps, cluster
<1>7. CASE Report
  BY <1>7, NoFileIsNoSet, InventoryAssumption
     DEF InventoryAssumption, Typed, Shape, Names, ImageFiles, Report, Write, cluster, history
<1>8. CASE Clear
  BY <1>8, NoFileIsNoSet, InventoryAssumption
     DEF InventoryAssumption, Typed, Shape, Names, ImageFiles, Clear, Write, cluster, history
<1>9. CASE ClearKF
  BY <1>9, NoFileIsNoSet, InventoryAssumption
     DEF InventoryAssumption, Typed, Shape, Names, ImageFiles, ClearKF, cluster, history
<1>10. CASE Remove
  <2>1. toRemove # << >>
    BY <1>10 DEF Shape, Remove
  <2>2. /\ Head(toRemove) \in Names /\ Tail(toRemove) \in Seq(Names)
        /\ Tail(toRemove) \in Seq(Names \ {"before"})
    BY <2>1 DEF Typed, Shape
  <2>3. /\ DOMAIN file' = Names /\ file'[Head(toRemove)] = NoFile
        /\ \A g \in Names \ {Head(toRemove)} : file'[g] = file[g]
    BY <1>10, <2>2, Written DEF Remove
  <2> QED
    BY <1>10, <2>2, <2>3 DEF Typed, Shape, Names, ImageFiles, Remove, cluster, history
<1>11. CASE Interrupt
  <2>0. Existing \subseteq Namespaces /\ 0 \in Versions
    BY InventoryAssumption DEF InventoryAssumption, Existing, Versions
  <2>1. (base' = base /\ gone' = gone) \/ (base' = Existing /\ gone' = {})
    BY <1>11 DEF Interrupt
  <2>2. base' \subseteq Namespaces /\ gone' \subseteq base'
    BY <2>0, <2>1 DEF Typed
  <2>3. cm' = cm \/ cm' = [cm EXCEPT ![Current] = 0]
    BY <1>11 DEF Interrupt
  <2>4. cm' \in [Namespaces -> Versions \cup {NoFile}]
    BY <2>0, <2>3 DEF Typed
  <2>5. /\ phase' = "idle" /\ todo' = {} /\ toRemove' = << >>
        /\ UNCHANGED <<cluster, commands, old>>
    BY <1>11 DEF Interrupt
  <2>6. toRemove' \in Seq(Names) /\ toRemove' \in Seq(Names \ {"before"})
    BY <2>5
  <2>7. CASE file' = file
    BY <2>2, <2>4, <2>5, <2>6, <2>7 DEF Typed, Shape, ImageFiles, cluster
  <2>8. CASE \E f \in {"before", "after"} : Write(f, {})
    <3>1. PICK f \in {"before", "after"} : Write(f, {})
      BY <2>8
    <3>2. /\ DOMAIN file' = Names /\ file'[f] = {}
          /\ \A g \in Names \ {f} : file'[g] = file[g]
      BY <3>1, Written DEF Names
    <3> QED
      BY <2>2, <2>4, <2>5, <2>6, <3>2 DEF Typed, Shape, Names, ImageFiles, cluster
  <2> QED
    BY <1>11, <2>7, <2>8 DEF Interrupt
<1>12. CASE ClusterChanges
  <2>1. gone' \subseteq base'
    BY <1>12 DEF Typed, ClusterChanges
  <2> QED
    BY <1>12, <2>1, NoFileIsNoSet, InventoryAssumption
       DEF InventoryAssumption, Typed, Shape, Names, ImageFiles, ClusterChanges, cluster, history, Versions
<1>13. CASE UNCHANGED vars
  BY <1>13 DEF Typed, Shape, vars, cluster, history
<1> QED
  BY <1>1, <1>2, <1>3, <1>4, <1>5, <1>6, <1>7, <1>8, <1>9, <1>10, <1>11, <1>12, <1>13 DEF Next, ScriptStep

-----------------------------------------------------------------------------
\* What is there of base, and in the list of scan_kf.
LEMMA NextThere ==
    ASSUME Typed, Shape, BaseThere, AllListed, [Next]_vars
    PROVE  BaseThere' /\ AllListed'
<1>1. CASE Scan \/ Interrupt
  <2>1. \/ base' = base /\ gone' = gone
        \/ base' = Existing
    BY <1>1 DEF Scan, Interrupt
  <2>2. version' = version /\ phase' = "idle"
    BY <1>1 DEF Scan, Interrupt, cluster
  <2> QED
    BY <2>1, <2>2 DEF BaseThere, AllListed, Existing
<1>2. CASE ListAfter
  <2>1. Write("after", Existing) \/ Write("after", {})
    BY <1>2 DEF ListAfter
  <2>2. file'["after"] \in {Existing, {}}
    BY <2>1, Written DEF Names
  <2>3. UNCHANGED <<version, base, gone>>
    BY <1>2 DEF ListAfter, cluster
  <2> QED
    BY <2>2, <2>3 DEF BaseThere, AllListed, Existing, Typed
<1>3. CASE ClusterChanges
  <2>1. UNCHANGED <<file, phase, base>> /\ gone' = gone \cup {n \in base : version'[n] = 0}
    BY <1>3 DEF ClusterChanges
  <2> QED
    BY <2>1 DEF BaseThere, AllListed
<1>4. CASE UNCHANGED vars
  BY <1>4 DEF BaseThere, AllListed, vars, cluster, history
<1>5. CASE Command \/ Diff \/ GetPods \/ GetConfigMaps \/ Report \/ Clear \/ ClearKF \/ Remove
  <2>1. UNCHANGED <<version, base, gone>> /\ phase' # "diff"
    BY <1>5 DEF Command, Diff, GetPods, GetConfigMaps, Report, Clear, ClearKF, Remove,
                cluster, history
  <2> QED
    BY <2>1 DEF BaseThere, AllListed
<1> QED
  BY <1>1, <1>2, <1>3, <1>4, <1>5 DEF Next, ScriptStep

\* Sound, over each action.
LEMMA InitSound == Init => Sound
BY DEF Init, Sound, Names, BaseKept, VisitsOne, ReportsOne, Renewable, Forgotten, ImageFiles

\* Visiting a namespace that is to be visited adds lines of no other one.
LEMMA AddedIsToDo ==
    ASSUME NEW kind \in {"pod", "cm"}, NEW n \in Namespaces, NEW v \in Versions,
           NEW S, NEW l \in S \cup Images(kind, n, v)
    PROVE  l \in S \/ l[2] = n
BY ImagesAreLines

\* What diff marks is one of base at most, the last one that has not gone
\* (kf_collect.sh 61).
LEMMA NewIsLast ==
    ASSUME Typed, Shape, BaseKept, AllListed, phase = "diff", NEW n \in base \cap New
    PROVE  IsLast(n) /\ \A m \in base \cap New : m = n
<1>1. file["before"] = base /\ file["after"] \subseteq Namespaces
  BY DEF New, BaseKept, Typed, Shape
<1>2. \A k \in base \cap New : \A m \in base \cap file["after"] : ~(k < m)
  BY <1>1 DEF New, Ended
<1>3. IsLast(n)
  <2>1. base \ gone \subseteq file["after"]
    BY DEF AllListed, New
  <2> QED
    BY <1>2, <2>1 DEF IsLast
<1>4. ASSUME NEW m \in base \cap New PROVE m = n
  <2>1. m \in file["after"] /\ n \in file["after"]
    BY DEF New
  <2>2. m \in Nat /\ n \in Nat
    BY InventoryAssumption DEF InventoryAssumption, Typed
  <2> QED
    BY <1>2, <2>1, <2>2
<1> QED
  BY <1>3, <1>4

\* What is visited or reported may become less, and more may go.
LEMMA LessIsSound ==
    ASSUME VisitsOne, ReportsOne, base' = base, gone \subseteq gone',
           \A n \in base : Visits(n)' => Visits(n),
           \A n \in base : HasLine("report", n)' =>
               \/ HasLine("report", n)
               \/ Visits(n) /\ (\A m \in base : HasLine("report", m)' => Visits(m))
    PROVE  VisitsOne' /\ ReportsOne'
BY DEF VisitsOne, ReportsOne, IsLast

LEMMA NextSound ==
    ASSUME Typed, Shape, Sound, AllListed, [Next]_vars, ~broken' PROVE Sound'
<1> USE DEF ImageFiles
\* A step after which no file of images has a line that it had not before.
<1>0. ASSUME ~broken, base' = base, gone' = gone, todo' \subseteq todo,
             \A f \in ImageFiles : file'[f] \in {file[f], NoFile, {}}
      PROVE  VisitsOne' /\ ReportsOne'
  <2>1. \A f \in ImageFiles : \A n \in base : HasLine(f, n)' => HasLine(f, n)
    BY <1>0 DEF HasLine
  <2>2. \A n \in base : Visits(n)' => Visits(n)
    BY <1>0, <2>1 DEF Visits
  <2>3. VisitsOne /\ ReportsOne
    BY <1>0 DEF Sound
  <2>4. \A n \in base : HasLine("report", n)' => HasLine("report", n)
    BY <2>1
  <2> QED
    BY <1>0, <2>2, <2>3, <2>4, LessIsSound
<1>1. CASE Command
  <2>1. ~broken /\ UNCHANGED <<base, gone, todo, file>> /\ phase = "idle"
    BY <1>1, Zenon DEF Command
  <2> QED
    BY <2>1, <1>0 DEF Sound, BaseKept, Renewable, Forgotten
<1>2. CASE Scan
  <2>1. CASE file["before"] # NoFile
    <3>1. ~broken /\ UNCHANGED <<base, gone, todo, file>>
      BY <1>2, <2>1, Zenon DEF Scan
    <3> QED
      BY <2>1, <3>1, <1>0 DEF Sound, BaseKept, Renewable
  <2>2. CASE file["before"] = NoFile
    <3>1. ~broken /\ Write("before", Existing) /\ base' = Existing /\ todo' = todo
      BY <1>2, <2>2, Zenon DEF Scan
    <3>2. /\ DOMAIN file' = Names /\ file'["before"] = Existing
          /\ \A g \in Names \ {"before"} : file'[g] = file[g]
      BY <3>1, Written DEF Names
    <3>3. todo = {} /\ \A f \in ImageFiles : file[f] \in {NoFile, {}}
      BY <1>2, <2>2, <3>1 DEF Scan, Sound, Renewable, Forgotten
    <3>4. file'["before"] # NoFile
      BY <3>2, NoFileIsNoSet DEF Existing
    <3>5. \A n : ~Visits(n)' /\ ~HasLine("report", n)'
      BY <3>1, <3>2, <3>3 DEF Visits, HasLine, Names
    <3> QED
      BY <3>1, <3>2, <3>4, <3>5 DEF Sound, BaseKept, VisitsOne, ReportsOne, Renewable
  <2> QED
    BY <2>1, <2>2
<1>3. CASE ListAfter
  <2>1. PICK S : Write("after", S)
    BY <1>3 DEF ListAfter
  <2>2. /\ DOMAIN file' = Names
        /\ \A g \in Names \ {"after"} : file'[g] = file[g]
    BY <2>1, Written DEF Names
  <2>3. /\ ~broken /\ UNCHANGED <<base, gone, todo>>
        /\ phase = "scan_kf"
    BY <1>3, Zenon DEF ListAfter
  <2> QED
    BY <2>2, <2>3, <1>0 DEF Names, Sound, BaseKept, Renewable, Forgotten
<1>4. CASE Diff
  <2>1. /\ file'["before"] = file["before"] /\ file'["report"] = file["report"]
        /\ file'["images"] = {} /\ file'["cmImages"] = {}
        /\ todo' = New /\ base' = base /\ gone' = gone /\ broken' = broken
        /\ phase = "diff"
    BY <1>4 DEF Diff, Shape, Names, history
  <2>2. BaseKept /\ ReportsOne /\ Renewable
    BY <2>1 DEF Sound
  <2>3. ReportsOne'
    BY <2>1, <2>2 DEF ReportsOne, HasLine, IsLast
  <2>4. \A n : Visits(n)' => n \in New
    BY <2>1 DEF Visits, HasLine
  <2>5. \A n \in base \cap New : IsLast(n) /\ \A m \in base \cap New : m = n
    BY <2>1, <2>2, NewIsLast
  <2>6. VisitsOne'
    BY <2>1, <2>4, <2>5 DEF VisitsOne, IsLast
  <2>7. Renewable'
    BY <2>1, <2>2 DEF Renewable, Forgotten, New
  <2> QED
    BY <2>1, <2>2, <2>3, <2>6, <2>7 DEF Sound, BaseKept
<1>5. CASE GetPods
  <2>1. Current \in todo /\ Current \in Namespaces /\ version[Current] \in Versions
    BY <1>5, CurrentIsToDo, InventoryAssumption DEF InventoryAssumption, GetPods, Typed
  <2>2. /\ ~broken /\ todo # {} /\ file["images"] # NoFile
        /\ UNCHANGED <<base, gone, todo>>
    BY <1>5 DEF GetPods, Typed
  <2>3. file["before"] # NoFile
    BY <2>2 DEF Sound, Renewable
  <2>4. CASE file' = file
    BY <2>2, <2>3, <2>4, <1>0 DEF Sound, BaseKept, Renewable
  <2>5. CASE Write("images", file["images"] \cup Images("pod", Current, version[Current]))
    <3>1. /\ file'["images"] = file["images"] \cup Images("pod", Current, version[Current])
          /\ \A g \in Names \ {"images"} : file'[g] = file[g]
      BY <2>5, Written DEF Names
    <3>2. \A n \in base : HasLine("images", n)' => HasLine("images", n) \/ n = Current
      BY <2>1, <2>2, <3>1, AddedIsToDo DEF HasLine
    <3>3. \A f \in {"cmImages", "report"} : \A n \in base : HasLine(f, n)' => HasLine(f, n)
      BY <3>1 DEF HasLine, Names
    <3>4. \A n \in base : Visits(n)' => Visits(n)
      BY <2>1, <2>2, <3>2, <3>3 DEF Visits
    <3>5. \A n \in base : HasLine("report", n)' => HasLine("report", n)
      BY <3>3
    <3>6. VisitsOne /\ ReportsOne
      BY <2>2 DEF Sound
    <3>7. VisitsOne' /\ ReportsOne'
      BY <2>2, <3>4, <3>5, <3>6, LessIsSound
    <3> QED
      BY <2>2, <2>3, <3>1, <3>7 DEF Names, Sound, BaseKept, Renewable
  <2> QED
    BY <1>5, <2>4, <2>5 DEF GetPods
<1>6. CASE GetConfigMaps
  <2>1. Current \in todo /\ Current \in Namespaces
    BY <1>6, CurrentIsToDo, InventoryAssumption DEF InventoryAssumption, GetConfigMaps, Typed
  <2>2. cm'[Current] \in Versions
    BY <1>6, <2>1, InventoryAssumption
       DEF InventoryAssumption, GetConfigMaps, Typed, Versions
  <2>3. /\ file'["cmImages"] = file["cmImages"] \cup Images("cm", Current, cm'[Current])
        /\ \A g \in Names \ {"cmImages"} : file'[g] = file[g]
    BY <1>6, Written DEF GetConfigMaps, Names
  <2>4. /\ ~broken /\ todo # {} /\ file["cmImages"] # NoFile
        /\ UNCHANGED <<base, gone>> /\ todo' = todo \ {Current}
    BY <1>6 DEF GetConfigMaps, Typed
  <2>5. file["before"] # NoFile
    BY <2>4 DEF Sound, Renewable
  <2>6. \A n \in base : HasLine("cmImages", n)' => HasLine("cmImages", n) \/ n = Current
    BY <2>1, <2>2, <2>3, <2>4, AddedIsToDo DEF HasLine
  <2>7. \A f \in {"images", "report"} : \A n \in base : HasLine(f, n)' => HasLine(f, n)
    BY <2>3 DEF HasLine, Names
  <2>8. \A n \in base : Visits(n)' => Visits(n)
    BY <2>1, <2>4, <2>6, <2>7 DEF Visits
  <2>9. \A n \in base : HasLine("report", n)' => HasLine("report", n)
    BY <2>7
  <2>10. VisitsOne /\ ReportsOne
    BY <2>4 DEF Sound
  <2>11. VisitsOne' /\ ReportsOne'
    BY <2>4, <2>8, <2>9, <2>10, LessIsSound
  <2> QED
    BY <2>3, <2>4, <2>5, <2>11 DEF Names, Sound, BaseKept, Renewable
<1>7. CASE Report
  <2>1. /\ DOMAIN file' = Names
        /\ file'["report"] = file["images"] \cup file["cmImages"]
        /\ \A g \in Names \ {"report"} : file'[g] = file[g]
    BY <1>7, Written DEF Report, Names
  <2>2. /\ file["images"] # NoFile /\ file["cmImages"] # NoFile /\ ~broken
        /\ UNCHANGED <<base, gone, todo>>
    BY <1>7 DEF Report, Typed, history
  <2>3. file["before"] = NoFile => file["images"] = {} /\ file["cmImages"] = {}
    BY <1>7, <2>2 DEF Report, Sound, Renewable, Forgotten
  <2>4. \A n \in base : HasLine("report", n)' => Visits(n)
    BY <2>1, <2>2 DEF HasLine, Visits
  <2>5. \A n \in base : Visits(n)' => Visits(n)
    BY <2>1, <2>2 DEF HasLine, Visits, Names
  <2>6. VisitsOne' /\ ReportsOne'
    BY <2>2, <2>4, <2>5, LessIsSound DEF Sound
  <2>7. BaseKept'
    BY <2>1, <2>2 DEF Sound, BaseKept, Names
  <2>8. Renewable'
    BY <1>7, <2>1, <2>2, <2>3 DEF Names, Sound, Renewable, Forgotten, Report
  <2> QED
    BY <2>6, <2>7, <2>8 DEF Sound
<1>8. CASE Clear
  <2>1. /\ file'["before"] = NoFile
        /\ \A g \in Names \ {"before"} : file'[g] = file[g]
    BY <1>8, Written DEF Clear, Names
  <2>2. ~broken /\ UNCHANGED <<base, gone, todo>> /\ todo = {} /\ phase' = "clear_kf"
    BY <1>8 DEF Clear, Shape, history
  <2> QED
    BY <2>1, <2>2, <1>0 DEF Names, Sound, BaseKept, Renewable, Forgotten
<1>9. CASE ClearKF
  <2>1. \A f \in ImageFiles : ToRemove(f)'
    <3>1. toRemove'[2] = "cmImages" /\ toRemove'[4] = "report" /\ toRemove'[5] = "images"
          /\ Len(toRemove') = 5
      BY <1>9 DEF ClearKF
    <3> QED
      BY <3>1 DEF ToRemove
  <2>2. ~broken /\ UNCHANGED <<base, gone, todo, file>> /\ phase' = "remove"
    BY <1>9 DEF ClearKF, history
  <2> QED
    BY <2>1, <2>2, <1>0 DEF Sound, BaseKept, Renewable, Forgotten
<1>10. CASE Remove
  <2>1. toRemove # << >> /\ toRemove \in Seq(Names \ {"before"})
    BY <1>10 DEF Shape, Remove
  <2>2. Head(toRemove) \in Names \ {"before"}
    BY <2>1
  <2>3. /\ file'[Head(toRemove)] = NoFile
        /\ \A g \in Names \ {Head(toRemove)} : file'[g] = file[g]
    BY <1>10, <2>2, Written DEF Remove
  <2>4. \A f \in ImageFiles : ToRemove(f) => f = Head(toRemove) \/ ToRemove(f)'
    <3> TAKE f \in ImageFiles
    <3>1. ASSUME NEW i \in 2 .. Len(toRemove), f = toRemove[i] PROVE ToRemove(f)'
      <4>1. i - 1 \in 1 .. Len(toRemove') /\ toRemove'[i - 1] = toRemove[i]
        BY <1>10, <2>1 DEF Remove
      <4> QED
        BY <3>1, <4>1 DEF ToRemove
    <3>2. \A i \in 1 .. Len(toRemove) : i = 1 \/ i \in 2 .. Len(toRemove)
      BY <2>1
    <3>3. toRemove[1] = Head(toRemove)
      BY <2>1
    <3> QED
      BY <3>1, <3>2, <3>3 DEF ToRemove
  <2>5. \A f \in ImageFiles : Forgotten(f) => Forgotten(f)'
    <3> SUFFICES ASSUME NEW f \in ImageFiles, Forgotten(f) PROVE Forgotten(f)'
      OBVIOUS
    <3>1. CASE f = Head(toRemove)
      BY <2>3, <3>1 DEF Forgotten
    <3>2. CASE f # Head(toRemove) /\ ToRemove(f)
      <4>1. ToRemove(f)'
        BY <2>4, <3>2
      <4>2. toRemove' # << >>
        BY <4>1 DEF ToRemove
      <4>3. phase' = "remove"
        BY <1>10, <4>2 DEF Remove
      <4> QED
        BY <4>1, <4>3 DEF Forgotten
    <3>3. CASE f # Head(toRemove) /\ ~ToRemove(f)
      BY <1>10, <2>3, <3>3 DEF Forgotten, Remove, Names
    <3> QED
      BY <3>1, <3>2, <3>3
  <2>6. ~broken /\ UNCHANGED <<base, gone>> /\ todo = {} /\ todo' = {}
    BY <1>10 DEF Remove, Shape, history
  <2>7. file'["before"] = file["before"]
    BY <2>2, <2>3 DEF Names
  <2>8. \A f \in ImageFiles : file'[f] \in {file[f], NoFile}
    BY <2>3 DEF Names
  <2>9. file'["before"] = NoFile => \A f \in ImageFiles : Forgotten(f)'
    BY <2>5, <2>6, <2>7 DEF Sound, Renewable
  <2>10. VisitsOne' /\ ReportsOne'
    BY <2>6, <2>8, <1>0
  <2> QED
    BY <2>6, <2>7, <2>9, <2>10 DEF Sound, BaseKept, Renewable
<1>11. CASE Interrupt
  <2>1. ~broken /\ phase \notin {"scan", "clear", "clear_kf", "remove"}
    BY <1>11, Zenon DEF Interrupt
  <2>2. /\ base' = base /\ gone' = gone /\ todo' = {}
        /\ file' = file \/ Write("after", {})
    BY <1>11, <2>1 DEF Interrupt
  <2>3. \A g \in Names \ {"after"} : file'[g] = file[g]
    BY <2>2, Written DEF Names
  <2>4. VisitsOne' /\ ReportsOne'
    BY <2>1, <2>2, <2>3, <1>0 DEF Names
  <2> QED
    BY <2>1, <2>2, <2>3, <2>4 DEF Names, Sound, BaseKept, Renewable, Forgotten
<1>12. CASE ClusterChanges
  <2>1. /\ ~broken /\ UNCHANGED <<base, todo, file, phase, toRemove>>
        /\ gone \subseteq gone'
    BY <1>12, Zenon DEF ClusterChanges
  <2>2. /\ \A n \in base : Visits(n)' => Visits(n)
        /\ \A n \in base : HasLine("report", n)' => HasLine("report", n)
    BY <2>1 DEF Visits, HasLine
  <2>4. VisitsOne /\ ReportsOne
    BY <2>1 DEF Sound
  <2>3. VisitsOne' /\ ReportsOne'
    BY <2>1, <2>2, <2>4, LessIsSound
  <2> QED
    BY <2>1, <2>3 DEF Sound, BaseKept, Renewable, Forgotten, ToRemove
<1>13. CASE UNCHANGED vars
  <2>1. ~broken /\ UNCHANGED <<base, gone, todo, file, phase, toRemove>>
    BY <1>13 DEF vars, history
  <2>2. VisitsOne' /\ ReportsOne'
    BY <2>1, <1>0
  <2> QED
    BY <2>1, <2>2 DEF Sound, BaseKept, Renewable, Forgotten, ToRemove
<1> QED
  BY <1>1, <1>2, <1>3, <1>4, <1>5, <1>6, <1>7, <1>8, <1>9, <1>10, <1>11, <1>12, <1>13 DEF Next, ScriptStep

\* NotFetched and Listed, over each action.
LEMMA InitListed == Init => NotFetched /\ Listed
BY DEF Init, NotFetched, Listed

LEMMA NextNotFetched ==
    ASSUME Typed, Shape, NotFetched, [Next]_vars PROVE NotFetched'
<1>1. CASE Command
  BY <1>1 DEF NotFetched, Command
<1>2. CASE ListAfter
  BY <1>2 DEF NotFetched, ListAfter
<1>3. CASE Diff
  <2>1. todo' \subseteq Namespaces
    BY <1>3 DEF Typed, Shape, Diff, New
  <2> QED
    BY <1>3, <2>1 DEF NotFetched, Diff, history
<1>4. CASE GetPods
  BY <1>4 DEF NotFetched, GetPods
<1>5. CASE GetConfigMaps
  <2>1. cm' = cm \/ \E v : cm' = [cm EXCEPT ![Current] = v]
    BY <1>5 DEF GetConfigMaps
  <2>2. \A n \in todo \ {Current} : cm'[n] = cm[n]
    BY <2>1 DEF Typed
  <2> QED
    BY <1>5, <2>2 DEF NotFetched, GetConfigMaps
<1>6. CASE ClusterChanges
  BY <1>6 DEF NotFetched, ClusterChanges
<1>7. CASE UNCHANGED vars
  BY <1>7 DEF NotFetched, vars, history
<1>8. CASE Scan \/ Report \/ Clear \/ ClearKF \/ Remove \/ Interrupt
  <2>1. phase' \in {"idle", "clear_kf", "remove"}
    BY <1>8 DEF Scan, Report, Clear, ClearKF, Remove, Interrupt
  <2> QED
    BY <2>1 DEF NotFetched
<1> QED
  BY <1>1, <1>2, <1>3, <1>4, <1>5, <1>6, <1>7, <1>8 DEF Next, ScriptStep

LEMMA NextListed ==
    ASSUME Typed, Shape, NotFetched, Listed, [Next]_vars, ~disturbed' PROVE Listed'
<1>1. CASE ListAfter
  <2>1. Write("after", Existing) /\ phase' = "diff" /\ version' = version
    BY <1>1, Zenon DEF ListAfter, cluster
  <2>2. file'["after"] = Existing
    BY <2>1, Written DEF Names
  <2> QED
    BY <2>1, <2>2 DEF Listed, Existing
<1>2. CASE Diff
  <2>1. ~disturbed /\ version' = version /\ phase = "diff" /\ phase' = "pods"
    BY <1>2, Zenon DEF Diff, cluster, history
  <2>2. file["after"] = Existing
    BY <2>1 DEF Listed
  <2>3. file'["before"] = file["before"] /\ todo' = New
    BY <1>2 DEF Diff, Shape, Names
  <2>4. file'["before"] # NoFile => (Kubeflow \ todo)' = {}
    BY <2>1, <2>2, <2>3 DEF New, Kubeflow, Existing
  <2> QED
    BY <2>1, <2>4 DEF Listed
<1>3. CASE GetPods
  <2>0. ~disturbed /\ Write("images", file["images"] \cup Images("pod", Current, version[Current]))
    <3>1. \/ /\ Write("images", file["images"]
                             \cup Images("pod", Current, version[Current]))
             /\ disturbed' = disturbed
          \/ disturbed' = TRUE
      BY <1>3 DEF GetPods
    <3>2. CASE disturbed' = TRUE
      BY <3>2, Zenon
    <3> QED
      BY <3>1, <3>2, Zenon
  <2>1. /\ ~disturbed /\ version' = version /\ todo' = todo /\ old' = old
        /\ phase = "pods" /\ phase' = "cm"
        /\ Write("images", file["images"] \cup Images("pod", Current, version[Current]))
    BY <1>3, <2>0 DEF GetPods, cluster
  <2>2. /\ file'["images"] = file["images"] \cup Images("pod", Current, version[Current])
        /\ \A g \in Names \ {"images"} : file'[g] = file[g]
    BY <2>1, Written DEF Names
  <2>3. Current' = Current
    BY <2>1 DEF Current
  <2>4. (version[Current] = 0 \/ PodListed(Current))'
    BY <2>1, <2>2, <2>3 DEF PodListed, Images
  <2>5. ASSUME (file["before"] # NoFile)', NEW n \in (Kubeflow \ todo)'
        PROVE  (PodListed(n) /\ (n \notin old => CmListed(n)))'
    <3>1. file["before"] # NoFile /\ n \in Kubeflow \ todo
      BY <2>1, <2>2, <2>5 DEF Kubeflow, Existing, Names
    <3>2. PodListed(n) /\ (n \notin old => CmListed(n))
      BY <2>1, <3>1 DEF Listed
    <3> QED
      BY <2>1, <2>2, <3>2 DEF PodListed, CmListed, Names
  <2> QED
    BY <2>1, <2>4, <2>5 DEF Listed
<1>4. CASE GetConfigMaps
  <2>0. /\ ~disturbed
        /\ \/ cm[Current] # NoFile
           \/ cm' = [cm EXCEPT ![Current] = version[Current]]
    <3>1. \/ cm[Current] # NoFile /\ disturbed' = disturbed
          \/ cm' = [cm EXCEPT ![Current] = version[Current]] /\ disturbed' = disturbed
          \/ disturbed' = TRUE
      BY <1>4 DEF GetConfigMaps
    <3>2. CASE disturbed' = TRUE
      BY <3>2, Zenon
    <3> QED
      BY <3>1, <3>2, Zenon
  <2>1. /\ ~disturbed /\ version' = version /\ todo' = todo \ {Current} /\ old' = old
        /\ phase = "cm" /\ phase' = "pods"
        /\ Write("cmImages", file["cmImages"] \cup Images("cm", Current, cm'[Current]))
        /\ \/ cm[Current] # NoFile
           \/ cm' = [cm EXCEPT ![Current] = version[Current]]
    BY <1>4, <2>0 DEF GetConfigMaps, cluster
  <2>2. /\ file'["cmImages"] = file["cmImages"] \cup Images("cm", Current, cm'[Current])
        /\ \A g \in Names \ {"cmImages"} : file'[g] = file[g]
    BY <2>1, Written DEF Names
  <2>3. Current \in todo /\ Current \in Namespaces
    BY <2>1, CurrentIsToDo, InventoryAssumption DEF InventoryAssumption, Typed
  <2>4. Current \notin old => cm'[Current] = version[Current]
    BY <2>1, <2>3 DEF NotFetched, Typed
  <2>5. ASSUME (file["before"] # NoFile)', NEW n \in (Kubeflow \ todo)'
        PROVE  (PodListed(n) /\ (n \notin old => CmListed(n)))'
    <3>1. /\ file["before"] # NoFile /\ n \in Kubeflow
          /\ n \in todo => n = Current
      BY <2>1, <2>2, <2>5 DEF Kubeflow, Existing, Names
    <3>2. CASE n = Current
      <4>1. version[n] # 0 /\ PodListed(n)
        BY <2>1, <3>1, <3>2 DEF Listed, Kubeflow, Existing
      <4>2. n \notin old => <<"cm", n, version[n]>> \in file'["cmImages"]
        BY <2>2, <2>4, <3>2, <4>1 DEF Images
      <4> QED
        BY <2>1, <2>2, <4>1, <4>2 DEF PodListed, CmListed, Names
    <3>3. CASE n \notin todo
      <4>1. PodListed(n) /\ (n \notin old => CmListed(n))
        BY <2>1, <3>1, <3>3 DEF Listed
      <4> QED
        BY <2>1, <2>2, <4>1 DEF PodListed, CmListed, Names
    <3> QED
      BY <3>1, <3>2, <3>3
  <2> QED
    BY <2>1, <2>5 DEF Listed
<1>5. CASE UNCHANGED vars
  BY <1>5 DEF Listed, PodListed, CmListed, Kubeflow, Existing, Current, vars, cluster, history
<1>6. CASE Command \/ Scan \/ Report \/ Clear \/ ClearKF \/ Remove \/ Interrupt
  <2>1. phase' \in {"idle", "scan", "scan_kf", "clear", "clear_kf", "remove"}
    BY <1>6 DEF Command, Scan, Report, Clear, ClearKF, Remove, Interrupt
  <2> QED
    BY <2>1 DEF Listed
<1>7. CASE ClusterChanges
  <2>1. phase = "idle" /\ phase' = phase
    BY <1>7, Zenon DEF ClusterChanges
  <2> QED
    BY <2>1 DEF Listed
<1> QED
  BY <1>1, <1>2, <1>3, <1>4, <1>5, <1>6, <1>7 DEF Next, ScriptStep

LEMMA Inductive == Spec => []IInv
<1>1. Init => IInv
  <2>1. Init => BaseThere /\ AllListed
    BY DEF Init, BaseThere, AllListed
  <2> QED
    BY <2>1, InitTyped, InitSound, InitListed, TypeParts DEF IInv
<1>2. IInv /\ [Next]_vars => IInv'
  <2> SUFFICES ASSUME IInv, [Next]_vars PROVE IInv'
    OBVIOUS
  <2>1. Typed /\ Booleans /\ Shape /\ BaseThere /\ AllListed /\ Sound /\ NotFetched /\ Listed
    BY TypeParts DEF IInv
  <2>2. Typed' /\ Shape' /\ Booleans'
    BY <2>1, NextTyped, NextBooleans
  <2>3. Sound'
    BY <2>1, NextSound, Zenon DEF Sound
  <2>7. BaseThere' /\ AllListed'
    BY <2>1, NextThere
  <2>4. TypeOK'
    BY <2>2, Zenon DEF TypeOK, Typed, Booleans, ImageFiles
  <2>5. NotFetched'
    BY <2>1, NextNotFetched
  <2>6. Listed'
    BY <2>1, NextListed, Zenon DEF Listed
  <2> QED
    BY <2>2, <2>3, <2>4, <2>5, <2>6, <2>7 DEF IInv
<1> QED
  BY <1>1, <1>2, PTL DEF Spec

\* The type invariant of the inventory, for every set of namespaces.
THEOREM TypeCorrect == Spec => []TypeOK
<1>1. IInv => TypeOK
  BY DEF IInv
<1> QED
  BY <1>1, Inductive, PTL

\* Of the namespaces that were there before the installation a report names
\* at most one, and only if each that follows it in the list has been deleted
\* since, whatever commands have been given and interrupted, unless a scan or a
\* clear broke off half-way (kf_collect.sh 24-29, 47-112).
THEOREM OnlyTheLastIsForeign == Spec => []ForeignIsLast
<1>1. IInv => ForeignIsLast
  <2> SUFFICES ASSUME IInv, ~broken, file["report"] # NoFile,
                      NEW k \in file["report"], NEW l \in file["report"],
                      k[2] \in base, l[2] \in base
               PROVE  k[2] = l[2] /\ \A n \in base : l[2] < n => n \in gone
    BY DEF ForeignIsLast
  <2>1. HasLine("report", k[2]) /\ HasLine("report", l[2])
    BY DEF HasLine
  <2> QED
    BY <2>1 DEF IInv, Sound, ReportsOne, IsLast
<1> QED
  BY <1>1, Inductive, PTL

\* A scan_kf that nothing disturbs reports all that is in the new namespaces,
\* but for the ConfigMaps of which an earlier one has left a file
\* (kf_collect.sh 56-88).
THEOREM ScanReportsAll == Spec => ScanIsComplete
<1> DEFINE Whole == Report /\ ~disturbed /\ file["before"] # NoFile =>
                      \A n \in Kubeflow :
                         /\ <<"pod", n, version[n]>> \in file'["report"]
                         /\ n \notin old => <<"cm", n, version[n]>> \in file'["report"]
<1>1. IInv => Whole
  <2> SUFFICES ASSUME IInv, Report, ~disturbed, file["before"] # NoFile, NEW n \in Kubeflow
               PROVE  /\ <<"pod", n, version[n]>> \in file'["report"]
                      /\ n \notin old => <<"cm", n, version[n]>> \in file'["report"]
    OBVIOUS
  <2>1. file'["report"] = file["images"] \cup file["cmImages"]
    BY Written DEF IInv, Report, Names
  <2>2. PodListed(n) /\ (n \notin old => CmListed(n))
    BY DEF IInv, Listed, Report
  <2> QED
    BY <2>1, <2>2 DEF PodListed, CmListed
<1>2. IInv => [Whole]_vars
  BY <1>1
<1> QED
  BY <1>2, Inductive, PTL DEF ScanIsComplete

=============================================================================
