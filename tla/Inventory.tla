----------------------------- MODULE Inventory -----------------------------
(***************************************************************************)
(* utils/kf_collect.sh: which images has an installation of Kubeflow       *)
(* brought?  An administrator runs `scan' before the installation and      *)
(* `scan_kf' after it, again and again if need be; `clear' and `clear_kf'  *)
(* are to forget what was found.  All that one command knows of another is *)
(* in files of the working directory.                                      *)
(*                                                                         *)
(* The script runs without `set -e': a call that fails leaves an empty     *)
(* file, and the next line follows.  The administrator may interrupt a     *)
(* command, and the cluster changes while one runs.                        *)
(*                                                                         *)
(* An image is known by its namespace, by the version that is deployed     *)
(* there, and by whether a pod or a ConfigMap names it.  What kf_parse.py  *)
(* makes of a ConfigMap is the subject of ImageSearch.                     *)
(***************************************************************************)
EXTENDS Naturals, Sequences, FiniteSets, FiniteSetsExt

CONSTANTS Namespaces,   \* those that the cluster may have, numbered by name
          NoFile,       \* a file that does not exist
          MaxChanges,   \* bound on the changes of the cluster
          MaxCommands   \* bound on the commands

Versions == 0 .. (MaxChanges + 1)

\* What a line in a file of images may be: who names it, where, and which.
Lines == {"pod", "cm"} \X Namespaces \X Versions

ASSUME InventoryAssumption ==
    /\ MaxChanges \in Nat
    /\ MaxCommands \in Nat
    /\ Namespaces \subseteq Nat
    /\ NoFile \notin Nat
    /\ \A S \in (SUBSET Namespaces) \cup (SUBSET Lines) : S # NoFile

Names == {"before", "after", "nsList", "images", "cmImages", "report"}

VARIABLES
    version,   \* what is deployed in every namespace; 0: it does not exist
    changes,   \* how often the cluster has changed
    file,      \* the files of one line for each namespace or image
    cm,        \* the files cm-$ns.json: the version, 0 if nothing is in it
    phase,     \* where the running command stands, or "idle"
    todo,      \* the namespaces that scan_kf has still to visit
    toRemove,  \* the files that clear_kf has still to remove
    commands,  \* how many commands there have been
    base,      \* history: the namespaces when `scan' last listed them
    gone,      \* history: those of base that have been missing since
    broken,    \* history: a `scan' or a `clear' has failed half-way
    old,       \* history: the cm files that scan_kf has found
    disturbed  \* history: a call of it has failed, or the cluster has changed

cluster == <<version, changes>>
history == <<base, gone, broken, old, disturbed>>
vars    == <<cluster, file, cm, phase, todo, toRemove, commands, history>>

Existing == {n \in Namespaces : version[n] # 0}

\* The line in a file for the images that pods, or ConfigMaps, name.
Images(kind, n, v) == IF v = 0 THEN {} ELSE {<<kind, n, v>>}

-----------------------------------------------------------------------------
Init == /\ version \in [Namespaces -> {0, 1}]
        /\ changes = 0
        /\ file = [f \in Names |-> NoFile]
        /\ cm = [n \in Namespaces |-> NoFile]
        /\ phase = "idle"
        /\ todo = {}
        /\ toRemove = << >>
        /\ commands = 0
        /\ base = {}
        /\ gone = {}
        /\ broken = FALSE
        /\ old = {}
        /\ disturbed = FALSE

\* `scan', `scan_kf', `clear' or `clear_kf' on the command line.
Command == /\ phase = "idle"
           /\ commands < MaxCommands
           /\ commands' = commands + 1
           /\ phase' \in {"scan", "scan_kf", "clear", "clear_kf"}
           /\ old' = {n \in Namespaces : cm[n] # NoFile}
           /\ disturbed' = FALSE
           /\ UNCHANGED <<cluster, file, cm, todo, toRemove, base, gone, broken>>

Write(f, content) == file' = [file EXCEPT ![f] = content]

\* scan: the namespaces, unless they have been listed before.  A list that
\* cannot be had leaves an empty file.
\* (Fault: an earlier list is overwritten.)
Scan_again == /\ phase = "scan"
              /\ Write("before", Existing) /\ base' = Existing /\ gone' = {}
              /\ phase' = "idle"
              /\ UNCHANGED <<cluster, cm, todo, toRemove, commands, broken, old, disturbed>>

Scan == /\ phase = "scan"
        /\ IF file["before"] # NoFile
           THEN UNCHANGED <<file, base, gone, broken>>
           ELSE /\ base' = Existing /\ gone' = {}
                /\ \/ Write("before", Existing) /\ UNCHANGED broken
                   \/ Write("before", {}) /\ broken' = TRUE
        /\ phase' = "idle"
        /\ UNCHANGED <<cluster, cm, todo, toRemove, commands, old, disturbed>>

\* scan_kf: the namespaces of this moment.
ListAfter == /\ phase = "scan_kf"
             /\ \/ Write("after", Existing) /\ UNCHANGED disturbed
                \/ Write("after", {}) /\ disturbed' = TRUE
             /\ phase' = "diff"
             /\ UNCHANGED <<cluster, cm, todo, toRemove, commands, base, gone, broken, old>>

\* A newline follows a name in a list of namespaces, unless it is the last one.
Ended(f, n) == \E m \in file[f] : n < m

\* What diff marks with `>': nothing, if one of its files is not there.  A line
\* with a newline is not the same as one without.
New == IF file["before"] = NoFile THEN {}
       ELSE {n \in file["after"] :
                n \in file["before"] => ~(Ended("before", n) <=> Ended("after", n))}

\* The new namespaces are noted, and the lists of images begun.
\* (Fault: diff has nothing to compare, and no list is written.)
Diff_noFile == /\ phase = "diff"
               /\ todo' = New
               /\ file' = [file EXCEPT !["nsList"] = IF New = {} THEN NoFile ELSE New]
               /\ phase' = "pods"
               /\ UNCHANGED <<cluster, cm, toRemove, commands, history>>

Diff == /\ phase = "diff"
        /\ todo' = New
        /\ file' = [file EXCEPT !["nsList"] = New, !["images"] = {}, !["cmImages"] = {}]
        /\ phase' = "pods"
        /\ UNCHANGED <<cluster, cm, toRemove, commands, history>>

Current == Min(todo)

\* The images of the pods of a namespace.
\* (Fault: > in the place of >>.)
GetPods_overwrites == /\ phase = "pods" /\ todo # {}
                      /\ Write("images", Images("pod", Current, version[Current]))
                      /\ phase' = "cm"
                      /\ UNCHANGED <<cluster, cm, todo, toRemove, commands, history>>

GetPods == /\ phase = "pods" /\ todo # {}
           /\ \/ /\ Write("images", file["images"]
                             \cup Images("pod", Current, version[Current]))
                 /\ UNCHANGED disturbed
              \/ UNCHANGED file /\ disturbed' = TRUE
           /\ phase' = "cm"
           /\ UNCHANGED <<cluster, cm, todo, toRemove, commands, base, gone, broken, old>>

\* The ConfigMaps of a namespace, unless there is a file with them, and what
\* kf_parse.py finds in the file.
GetConfigMaps ==
    /\ phase = "cm"
    /\ \/ cm[Current] # NoFile /\ UNCHANGED <<cm, disturbed>>
       \/ /\ cm[Current] = NoFile
          /\ cm' = [cm EXCEPT ![Current] = version[Current]]
          /\ UNCHANGED disturbed
       \/ /\ cm[Current] = NoFile
          /\ cm' = [cm EXCEPT ![Current] = 0]
          /\ disturbed' = TRUE
    /\ Write("cmImages", file["cmImages"] \cup Images("cm", Current, cm'[Current]))
    /\ todo' = todo \ {Current}
    /\ phase' = "pods"
    /\ UNCHANGED <<cluster, toRemove, commands, base, gone, broken, old>>

\* kubeflow_images.txt, from both lists.
Report == /\ phase = "pods" /\ todo = {}
          /\ Write("report", file["images"] \cup file["cmImages"])
          /\ phase' = "idle"
          /\ UNCHANGED <<cluster, cm, todo, toRemove, commands, history>>

\* clear: the first list, then clear_kf: all others.  The files it calls
\* $ns.json are not those that scan_kf has written.
Clear == /\ phase = "clear"
         /\ Write("before", NoFile)
         /\ phase' = "clear_kf"
         /\ UNCHANGED <<cluster, cm, todo, toRemove, commands, history>>

ClearKF == /\ phase = "clear_kf"
           /\ toRemove' = <<"after", "cmImages", "nsList", "report", "images">>
           /\ phase' = "remove"
           /\ UNCHANGED <<cluster, file, cm, todo, commands, history>>

Remove == /\ phase = "remove"
          /\ Write(Head(toRemove), NoFile)
          /\ toRemove' = Tail(toRemove)
          /\ phase' = IF Tail(toRemove) = << >> THEN "idle" ELSE "remove"
          /\ UNCHANGED <<cluster, cm, todo, commands, history>>

\* The administrator interrupts a command.  A file that is being filled from
\* the cluster is there, and empty.
Interrupt ==
    /\ phase # "idle"
    /\ \/ UNCHANGED <<file, cm, base, gone>>
       \/ /\ phase = "scan" /\ file["before"] = NoFile
          /\ Write("before", {}) /\ base' = Existing /\ gone' = {}
          /\ UNCHANGED cm
       \/ phase = "scan_kf" /\ Write("after", {}) /\ UNCHANGED <<cm, base, gone>>
       \/ /\ phase = "cm" /\ cm[Current] = NoFile
          /\ cm' = [cm EXCEPT ![Current] = 0]
          /\ UNCHANGED <<file, base, gone>>
    /\ phase' = "idle"
    /\ todo' = {}
    /\ toRemove' = << >>
    /\ broken' = (broken \/ phase \in {"scan", "clear", "clear_kf", "remove"})
    /\ UNCHANGED <<cluster, commands, old, disturbed>>

\* A namespace is created, upgraded or deleted.
ClusterChanges == /\ changes < MaxChanges
                  /\ changes' = changes + 1
                  /\ \E n \in Namespaces, v \in 0 .. (MaxChanges + 1) :
                        /\ v \in {0, changes + 2} \ {version[n]}
                        /\ version' = [version EXCEPT ![n] = v]
                  /\ gone' = gone \cup {n \in base : version'[n] = 0}
                  /\ disturbed' = (disturbed \/ phase # "idle")
                  /\ UNCHANGED <<file, cm, phase, todo, toRemove, commands, base, broken,
                                 old>>

ScriptStep == \/ Scan
              \/ ListAfter \/ Diff \/ GetPods \/ GetConfigMaps \/ Report
              \/ Clear \/ ClearKF \/ Remove

Next == \/ Command
        \/ ScriptStep
        \/ Interrupt
        \/ ClusterChanges

Spec == Init /\ [][Next]_vars

\* A command that is begun and not interrupted goes on.
FairSpec == Spec /\ WF_vars(ScriptStep)

-----------------------------------------------------------------------------
\* The values every variable may take.
TypeOK == /\ version \in [Namespaces -> Versions]
          /\ changes \in 0 .. MaxChanges
          /\ \A f \in {"before", "after", "nsList"} :
                file[f] = NoFile \/ file[f] \subseteq Namespaces
          /\ \A f \in {"images", "cmImages", "report"} :
                file[f] = NoFile \/ file[f] \subseteq Lines
          /\ cm \in [Namespaces -> Versions \cup {NoFile}]
          /\ phase \in {"idle", "scan", "scan_kf", "diff", "pods", "cm", "clear",
                        "clear_kf", "remove"}
          /\ phase \in {"pods", "cm"} => file["images"] # NoFile /\ file["cmImages"] # NoFile
          /\ phase = "cm" => todo # {}
          /\ todo \subseteq Namespaces
          /\ toRemove \in Seq(Names)
          /\ commands \in 0 .. MaxCommands
          /\ base \subseteq Namespaces
          /\ gone \subseteq base
          /\ broken \in BOOLEAN
          /\ old \subseteq Namespaces
          /\ disturbed \in BOOLEAN

\* Of the namespaces that were there before the installation at most one is
\* reported, and only if each that follows it in the list has been deleted since:
\* a newline at the end of its line makes diff take it for new.  This holds for any
\* sequence of commands, interrupted or not, unless a scan or a clear broke off
\* half-way (kf_collect.sh 24-29, 47-112).
ForeignIsLast ==
    ~broken /\ file["report"] # NoFile =>
        \A k, l \in file["report"] : {k[2], l[2]} \subseteq base =>
            /\ k[2] = l[2]
            /\ \A n \in base : l[2] < n => n \in gone

\* The namespaces that are to be reported on.
Kubeflow == Existing \ file["before"]

\* A scan_kf that nothing disturbs reports all that is in the new namespaces:
\* the images of the pods always, and those of the ConfigMaps where no file of
\* an earlier scan_kf is in the way (kf_collect.sh 56-88).
ScanIsComplete ==
    [][Report /\ ~disturbed /\ file["before"] # NoFile =>
          \A n \in Kubeflow :
             /\ <<"pod", n, version[n]>> \in file'["report"]
             /\ n \notin old => <<"cm", n, version[n]>> \in file'["report"]]_vars

\* What the head of the script says (kf_collect.sh 9): it can be run again any
\* time, and then reports the images that are there.
RescanIsComplete ==
    [][Report /\ ~disturbed /\ file["before"] # NoFile =>
          \A n \in Kubeflow :
             {<<"pod", n, version[n]>>, <<"cm", n, version[n]>>} \subseteq file'["report"]]_vars

=============================================================================
