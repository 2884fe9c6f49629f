---------------------------- MODULE ToolsProofs ----------------------------
(***************************************************************************)
(* The programs that are run by hand: FoundAreImages and PlainIsFound of    *)
(* kf_parse.py for all documents, VerdictIsRight of pods-validator.py for  *)
(* all pods, SpecsAreCurrent of build_kfdef_specs.py for all versions and  *)
(* KfDefs, ParamsAreThere of generate_legacy_kustomizations.py for all     *)
(* directories and applications, MarksAreRight of create_kptfile.py and    *)
(* TestDataAreRight of generate_gcp_kpt_data.py for all fields.            *)
(*                                                                         *)
(* The first two are about trees: by induction over the calls, each is for *)
(* what is in the document; by induction over the depth, what is in a      *)
(* plain document belongs to a call.  VerdictIsRight is about the last     *)
(* state of a run; that it holds rests on what the templates and the pods  *)
(* that are still to be looked at tell of those that were (Struck), and on *)
(* the order of the templates.  The others are about runs that end well    *)
(* after runs that did not: what was done so far is what it should be,     *)
(* whatever was there before.                                              *)
(***************************************************************************)
EXTENDS ImageSearch, PodsValidator, Kptfile, KfdefSpecs, LegacyTests,
        FiniteSetTheorems, SequenceTheorems, WellFoundedInduction, TLAPS

-----------------------------------------------------------------------------
(* kf_parse.py                                                             *)

SearchInv == /\ doc \in Documents
             /\ found # NotSearched => found = IF Raises(doc) THEN {} ELSE Extract(doc)

-----------------------------------------------------------------------------
(* pods-validator.py                                                       *)

Entries == [pod : Pods, status : Statuses]

Queued == {queue[i].pod : i \in DOMAIN queue}
Looked == good \ Queued

PodsTyped == /\ pods \in [Pods -> Statuses]
             /\ listed \in 0 .. Len(Namespaces)
             /\ queue \in Seq(Entries)
             /\ left \in Seq(ToSet(Templates))
             /\ good \subseteq Pods

\* A pod is queued once, from a namespace that was listed, as good as it was
\* then.
QueueRight ==
    /\ \A i, j \in DOMAIN queue : queue[i].pod = queue[j].pod => i = j
    /\ \A i \in DOMAIN queue : Good(queue[i].status) <=> queue[i].pod \in good
    /\ \A p \in Queued \cup good : \E k \in 1 .. listed : Namespace[p] = Namespaces[k]

\* Nothing is in the sequence twice.
Once(s) == \A i, j \in DOMAIN s : s[i] = s[j] => i = j

\* The templates keep their order: ml-pipeline- is behind all that begin so.
LeftRight ==
    /\ Once(left)
    /\ \A i, j \in DOMAIN left : left[i] \in ToSet(Specific) /\ left[j] = Generic => i < j

\* A pod that was looked at may have passed for the template.
LookedFor(t) ==
    \E p \in Looked : /\ <<Workload[p], t>> \in Longer
                     /\ \/ Workload[p] \in Unlisted
                        \/ \E q \in Looked \ {p} : Workload[q] = Workload[p]

\* A template is struck out because of its pod, or of one that passed for it; and
\* it is struck out if there was a pod.
Struck == \A t \in ToSet(Templates) :
             IF t \in ToSet(left) THEN \A p \in Looked : Workload[p] # t
             ELSE (\E p \in Looked : Workload[p] = t) \/ LookedFor(t)

PodsInv == PodsTyped /\ QueueRight /\ LeftRight /\ Struck /\ VerdictIsRight

-----------------------------------------------------------------------------
(* build_kfdef_specs.py                                                    *)

KfdefShape == /\ todo = Idle \/ todo \subseteq All
              /\ building \in All \cup {Nothing}
              /\ todo = Idle => building = Nothing
              /\ building \notin todo
              /\ done => todo = Idle

\* The KfDef k of version v has its file.
HasFile(k, v) == /\ FileName(k, v) \in DOMAIN specs
                 /\ specs[FileName(k, v)] = Built(v)[k]

\* The versions that this run is through with.
Through == \A v \in All \ (todo \cup {building}) : \A k \in DOMAIN Built(v) : HasFile(k, v)

\* What the temporary directory still has, and what it had.
InWork == building # Nothing =>
             /\ DOMAIN output \subseteq DOMAIN Built(building)
             /\ \A k \in DOMAIN Built(building) :
                   IF k \in DOMAIN output THEN output[k] = Built(building)[k]
                   ELSE HasFile(k, building)

KfdefInv == /\ KfdefShape
            /\ todo # Idle /\ ~edited => Through /\ InWork
            /\ SpecsAreCurrent

-----------------------------------------------------------------------------
(* generate_legacy_kustomizations.py                                       *)

Apps   == KfctlBuilt \ {NoFile}
Copies == UNION {[0 .. n - 1 -> STRING] : n \in Nat}

LegacyTyped ==
    /\ kfapp \in [Directories -> KfctlBuilt]
    /\ tests \in [Directories -> [params : Copies,
                                  kustomization : {NoFile} \cup {Kustomization(b) : b \in Apps}]]
    /\ at \in Directories \cup {Nowhere}
    /\ copied \in Nat
    /\ dirsToGo = NotRunning \/ dirsToGo \subseteq Directories
    /\ written \subseteq Directories

\* What is being written was begun by this run, and what was written is not
\* written again.
InTurn == /\ dirsToGo # NotRunning => written \cap dirsToGo = {}
          /\ at # Nowhere => /\ dirsToGo # NotRunning
                             /\ kfapp[at] # NoFile
                             /\ at \notin dirsToGo \cup written

\* The first n parameter files of a directory are those of the application.
Copied(d, n) == /\ n <= Len(Files(kfapp[d]))
                /\ \A k \in 0 .. n - 1 : /\ k \in DOMAIN tests[d].params
                                         /\ tests[d].params[k] = Files(kfapp[d])[k + 1]

\* What a kustomization refers to is there.
Refers(d) == tests[d].kustomization # NoFile =>
                \A m \in DOMAIN tests[d].kustomization.envs :
                   Range(tests[d].kustomization.envs[m]) \subseteq DOMAIN tests[d].params

Complete(d) == /\ kfapp[d] # NoFile
               /\ tests[d].kustomization = Kustomization(kfapp[d])
               /\ Copied(d, Len(Files(kfapp[d])))

LegacyInv == /\ LegacyTyped
             /\ InTurn
             /\ at # Nowhere => Copied(at, copied)
             /\ \A d \in Directories : Refers(d)
             /\ \A d \in written : Complete(d)

-----------------------------------------------------------------------------
(* create_kptfile.py, generate_gcp_kpt_data.py                             *)

KptTyped == /\ package \in DOMAIN Packages
            /\ marks = [f \in DOMAIN Fields |-> marks[f]]
            /\ kptfile = [defs |-> kptfile.defs, values |-> kptfile.values]
            /\ use \in {"none", "strip", "create", "set"}
            /\ stripped \in BOOLEAN /\ complete \in BOOLEAN
            /\ use = "create" => step \in 1 .. Len(Commands) /\ ~complete
            /\ use = "set" => step \in 1 .. Len(TestValues)

\* How many commands the package owes its marks to: those of a run that has
\* ended well, or of the one that is under way.
Executed == IF complete THEN Len(Commands) ELSE IF use = "create" THEN step - 1 ELSE 0

TouchedLast(f, i) == /\ i \in 1 .. Executed /\ Touches(Commands[i], Fields[f])
                     /\ \A j \in 1 .. Executed : j > i => ~Touches(Commands[j], Fields[f])
DefinedLast(i) == /\ i \in 1 .. Executed /\ ~Restores(Commands[i])
                  /\ \A j \in 1 .. Executed : j > i => ~Defines(Commands[j], Commands[i].name)

\* As in the repository, but for an old mark that is stripped.
Original(f) == marks[f] = Fields[f].mark \/ (Fields[f].mark = Old /\ marks[f] = Unmarked)

\* What these commands have made, of whatever was there.
MarkedSoFar ==
    \A f \in DOMAIN Fields : \A i \in 1 .. Executed : TouchedLast(f, i) =>
       \/ Fields[f].file \in lost
       \/ IF Restores(Commands[i]) THEN Original(f) ELSE marks[f] = Commands[i].name
DefinedSoFar ==
    \A i \in 1 .. Executed : DefinedLast(i) =>
       /\ Commands[i].name \in DOMAIN kptfile.defs
       /\ kptfile.defs[Commands[i].name] = Commands[i].pattern

\* What no command touches, in whatever run.
Kept ==
    /\ \A f \in DOMAIN Fields : Untouched(package, Fields[f]) =>
          /\ Original(f)
          /\ stripped \/ (use = "strip" /\ Fields[f].file \notin step) => marks[f] # Old
    /\ \A n \in DOMAIN Packages[package].defs :
          (\A c \in Range(Commands) : ~Defines(c, n)) =>
             n \in DOMAIN kptfile.defs /\ kptfile.defs[n] = Packages[package].defs[n]
    /\ DOMAIN kptfile.defs \cap {Old, Unmarked} = {}

\* The fields of the test data, after the setters that were set.
SetSoFar == {TestValues[j][1] : j \in 1 .. data.set}

DataField(f) ==
    IF Fields[f].means = << >>
    THEN data.marks[f] \notin DOMAIN data.kptfile.defs /\ data.fields[f] = Fields[f].value
    ELSE /\ data.marks[f] \in DOMAIN data.kptfile.defs
         /\ data.kptfile.defs[data.marks[f]] = Fields[f].means
         /\ data.fields[f] = IF Used(Fields[f].means) \cap SetSoFar = {} THEN Fields[f].value
                             ELSE Fill(Fields[f].means, data.kptfile.values)

DataShaped ==
    /\ DOMAIN data = {"set", "whole", "lost", "marks", "fields", "kptfile"}
    /\ DOMAIN data.kptfile = {"defs", "values"}

DataRight ==
    /\ data.set \in Nat
    /\ use = "set" => data.set = step - 1
    /\ use = "set" \/ data.set # 0 =>
          /\ DataShaped
          /\ DOMAIN data.fields \subseteq DOMAIN Fields
          /\ data.fields = [f \in DOMAIN data.fields |-> data.fields[f]]
          /\ data.set <= Len(TestValues)
          /\ \A j \in 1 .. data.set :
                /\ TestValues[j][1] \in DOMAIN data.kptfile.values
                /\ data.kptfile.values[TestValues[j][1]] = TestValues[j][2]
          /\ data.whole /\ Setters \subseteq DOMAIN data.kptfile.values =>
                \A f \in DOMAIN data.fields : Fields[f].file \in data.lost \/ DataField(f)

KptInv == KptTyped /\ MarkedSoFar /\ DefinedSoFar /\ Kept /\ DataRight

-----------------------------------------------------------------------------
(* Least numbers, and the concatenation of a sequence of sequences.  The    *)
(* library's theorems on induction take an operator and cannot be cited;    *)
(* the least counterexample, taken from a set, does the same.               *)

\* A set of numbers has a least one.
LEMMA Least ==
  ASSUME NEW S \in SUBSET Nat, S # {}
  PROVE  \E n \in S : \A m \in S : n <= m
<1> DEFINE Less == {ss \in Nat \X Nat : ss[1] < ss[2]}
<1>0. OpToRel(<, Nat) = Less
  BY DEF OpToRel
<1>1. PICK n \in S : \A m \in S : ~ (<<m, n>> \in Less)
  BY <1>0, WFMin, NatLessThanWellFounded
<1>2. ASSUME NEW m \in S PROVE n <= m
  <2>1. <<m, n>> \in Nat \X Nat /\ ~ (<<m, n>> \in Less)
    BY <1>1
  <2>2. ~ (<<m, n>>[1] < <<m, n>>[2])
    BY <2>1
  <2> QED
    BY <2>2
<1> QED
  BY <1>2

\* The concatenations of the first 1, 2, ... of the sequences in s.
Parts(X, s, g) == /\ g \in [1 .. Len(s) -> Seq(X)]
                  /\ \A i \in 1 .. Len(s) : g[i] = IF i = 1 THEN s[i] ELSE g[i - 1] \o s[i]

\* There are such parts: the least n without would follow one with.
LEMMA PartsExist ==
  ASSUME NEW X, NEW s \in Seq(Seq(X))
  PROVE  \E g : Parts(X, s, g)
<1> DEFINE Has(n) == \E g \in [1 .. n -> Seq(X)] :
                        \A i \in 1 .. n : g[i] = IF i = 1 THEN s[i] ELSE g[i - 1] \o s[i]
           Lacks == {n \in 0 .. Len(s) : ~Has(n)}
<1>1. SUFFICES ASSUME Lacks # {} PROVE FALSE
  <2>1. Len(s) \in 0 .. Len(s)
    OBVIOUS
  <2>2. CASE Has(Len(s))
    BY <2>2 DEF Parts
  <2> QED
    BY <2>1, <2>2
<1>2. PICK n \in Lacks : \A m \in Lacks : n <= m
  <2>1. Lacks \in SUBSET Nat
    OBVIOUS
  <2> HIDE DEF Lacks
  <2> QED
    BY <1>1, <2>1, Least
<1>3. n \in 0 .. Len(s) /\ ~Has(n)
  OBVIOUS
<1>4. n # 0
  <2>1. 1 .. 0 = {}
    OBVIOUS
  <2>2. [i \in 1 .. 0 |-> << >>] \in [1 .. 0 -> Seq(X)]
    BY <2>1
  <2>3. Has(0)
    BY <2>1, <2>2
  <2> QED
    BY <1>3, <2>3
<1>5. Has(n - 1)
  <2>1. n - 1 \in 0 .. Len(s) /\ ~(n <= n - 1)
    BY <1>3, <1>4
  <2>2. n - 1 \notin Lacks
    BY <1>2, <2>1
  <2> QED
    BY <2>1, <2>2
<1>6. PICK g \in [1 .. n - 1 -> Seq(X)] :
         \A i \in 1 .. n - 1 : g[i] = IF i = 1 THEN s[i] ELSE g[i - 1] \o s[i]
  BY <1>5
<1> DEFINE last == IF n = 1 THEN s[n] ELSE g[n - 1] \o s[n]
           h == [i \in 1 .. n |-> IF i = n THEN last ELSE g[i]]
<1>7. last \in Seq(X)
  <2>1. s[n] \in Seq(X)
    BY <1>3, <1>4
  <2>2. CASE n # 1
    <3>1. g[n - 1] \in Seq(X)
      BY <1>3, <1>4, <2>2
    <3> QED
      BY <2>1, <2>2, <3>1
  <2> QED
    BY <2>1, <2>2
<1>8. h \in [1 .. n -> Seq(X)]
  BY <1>3, <1>7
<1>9. ASSUME NEW i \in 1 .. n PROVE h[i] = IF i = 1 THEN s[i] ELSE h[i - 1] \o s[i]
  <2>1. CASE i = n
    BY <1>3, <1>4, <2>1
  <2>2. CASE i # n
    <3>1. i \in 1 .. n - 1 /\ h[i] = g[i]
      BY <1>3, <2>2
    <3>2. i # 1 => h[i - 1] = g[i - 1]
      BY <1>3, <3>1
    <3> QED
      BY <1>6, <3>1, <3>2
  <2> QED
    BY <2>1, <2>2
<1>10. Has(n)
  <2> HIDE DEF h
  <2> QED
    BY <1>8, <1>9
<1> QED
  BY <1>3, <1>10

\* The recursive function in FlattenSeq computes them.
LEMMA FlattenIsLastPart ==
  ASSUME NEW X, NEW s \in Seq(Seq(X)), Len(s) # 0, NEW g, Parts(X, s, g)
  PROVE  FlattenSeq(s) = g[Len(s)]
<1> DEFINE Flat(f) == f = [i \in 1 .. Len(s) |-> IF i = 1 THEN s[i] ELSE f[i - 1] \o s[i]]
           flatten == CHOOSE f : Flat(f)
<1>1. FlattenSeq(s) = flatten[Len(s)]
  BY DEF FlattenSeq
<1>2. Flat(g)
  BY DEF Parts
<1>3. Flat(flatten)
  BY <1>2
<1> DEFINE Differ == {n \in 1 .. Len(s) : flatten[n] # g[n]}
<1>4. CASE Differ = {}
  <2>1. Len(s) \in 1 .. Len(s)
    OBVIOUS
  <2> HIDE DEF flatten
  <2> QED
    BY <1>1, <1>4, <2>1
<1>5. CASE Differ # {}
  <2> HIDE DEF flatten
  <2>1. PICK n \in Differ : \A m \in Differ : n <= m
    <3>1. Differ \in SUBSET Nat
      OBVIOUS
    <3> HIDE DEF Differ
    <3> QED
      BY <1>5, <3>1, Least
  <2>2. n \in 1 .. Len(s) /\ flatten[n] # g[n]
    OBVIOUS
  <2>3. n # 1 => flatten[n - 1] = g[n - 1]
    <3>1. SUFFICES ASSUME n # 1 PROVE n - 1 \in 1 .. Len(s) /\ ~(n <= n - 1)
      BY <2>1
    <3> QED
      BY <2>2, <3>1
  <2>4. flatten[n] = IF n = 1 THEN s[n] ELSE flatten[n - 1] \o s[n]
    BY <1>3, <2>2
  <2>5. g[n] = IF n = 1 THEN s[n] ELSE g[n - 1] \o s[n]
    BY <2>2 DEF Parts
  <2> QED
    BY <2>2, <2>3, <2>4, <2>5
<1> QED
  BY <1>4, <1>5

\* The part of n sequences is what the first n have together.
LEMMA PrefixIsPart ==
  ASSUME NEW X, NEW s \in Seq(Seq(X)), NEW g, Parts(X, s, g), NEW n \in 1 .. Len(s)
  PROVE  FlattenSeq(SubSeq(s, 1, n)) = g[n]
<1> DEFINE t == SubSeq(s, 1, n)
           h == [i \in 1 .. n |-> g[i]]
<1>1. t \in Seq(Seq(X)) /\ Len(t) = n /\ \A i \in 1 .. n : t[i] = s[i]
  OBVIOUS
<1> HIDE DEF t
<1>2. h \in [1 .. n -> Seq(X)]
  <2>1. \A i \in 1 .. n : i \in 1 .. Len(s)
    OBVIOUS
  <2>2. \A i \in 1 .. n : g[i] \in Seq(X)
    BY <2>1 DEF Parts
  <2> QED
    BY <2>2
<1>3. ASSUME NEW i \in 1 .. n PROVE h[i] = IF i = 1 THEN t[i] ELSE h[i - 1] \o t[i]
  <2>1. i \in 1 .. Len(s) /\ (i # 1 => i - 1 \in 1 .. n)
    OBVIOUS
  <2>2. g[i] = IF i = 1 THEN s[i] ELSE g[i - 1] \o s[i]
    BY <2>1 DEF Parts
  <2> QED
    BY <1>1, <2>1, <2>2
<1>4. h[n] = g[n]
  OBVIOUS
<1>5. Parts(X, t, h)
  <2> HIDE DEF h
  <2> QED
    BY <1>1, <1>2, <1>3 DEF Parts
<1>6. FlattenSeq(t) = h[Len(t)]
  <2> HIDE DEF h
  <2> QED
    BY <1>1, <1>5, FlattenIsLastPart
<1> QED
  BY <1>1, <1>4, <1>6 DEF t

\* The concatenation of sequences is one.
LEMMA FlattenIsSeq ==
  ASSUME NEW X, NEW s \in Seq(Seq(X))
  PROVE  FlattenSeq(s) \in Seq(X)
<1>1. PICK g : Parts(X, s, g)
  BY PartsExist
<1>2. CASE Len(s) = 0
  <2>1. s = << >>
    BY <1>2
  <2>2. FlattenSeq(s) = << >>
    BY <1>2, <2>1 DEF FlattenSeq
  <2> QED
    BY <2>2
<1>3. CASE Len(s) # 0
  <2>1. FlattenSeq(s) = g[Len(s)] /\ Len(s) \in 1 .. Len(s)
    BY <1>1, <1>3, FlattenIsLastPart
  <2> QED
    BY <1>1, <2>1 DEF Parts
<1> QED
  BY <1>2, <1>3

\* In a concatenation each element is as far behind the ones of the sequences
\* before as in its own.
LEMMA FlattenKeepsPlace ==
  ASSUME NEW X, NEW s \in Seq(Seq(X)), NEW m \in 1 .. Len(s), NEW i \in 1 .. Len(s[m])
  PROVE  LET k == Len(FlattenSeq(SubSeq(s, 1, m - 1))) + i
         IN  k \in 1 .. Len(FlattenSeq(s)) /\ FlattenSeq(s)[k] = s[m][i]
<1> DEFINE before == FlattenSeq(SubSeq(s, 1, m - 1))
           k == Len(before) + i
<1>1. PICK g : Parts(X, s, g)
  BY PartsExist
<1>2. s[m] \in Seq(X) /\ \A n \in 1 .. Len(s) : g[n] \in Seq(X) /\ s[n] \in Seq(X)
  <2>1. \A n \in 1 .. Len(s) : s[n] \in Seq(X)
    BY ElementOfSeq
  <2>2. \A n \in 1 .. Len(s) : g[n] \in Seq(X)
    BY <1>1 DEF Parts
  <2> QED
    BY <2>1, <2>2
<1>3. before \in Seq(X) /\ g[m] = before \o s[m]
  <2>1. CASE m = 1
    <3>1. SubSeq(s, 1, m - 1) = << >>
      BY <2>1
    <3>2. before = << >>
      BY <3>1 DEF FlattenSeq
    <3>3. g[m] = s[m]
      BY <1>1, <2>1 DEF Parts
    <3>4. << >> \o s[m] = s[m] /\ << >> \in Seq(X)
      BY <1>2, ConcatEmptySeq, EmptySeq
    <3> QED
      BY <3>2, <3>3, <3>4
  <2>2. CASE m # 1
    <3>1. m - 1 \in 1 .. Len(s)
      BY <2>2
    <3>2. before = g[m - 1]
      BY <1>1, <3>1, PrefixIsPart
    <3>3. g[m] = g[m - 1] \o s[m]
      BY <1>1, <2>2 DEF Parts
    <3> QED
      BY <1>2, <3>1, <3>2, <3>3
  <2> QED
    BY <2>1, <2>2
<1> HIDE DEF before
<1> DEFINE InPlace(n) == k \in 1 .. Len(g[n]) /\ g[n][k] = s[m][i]
           Displaced == {n \in m .. Len(s) : ~InPlace(n)}
<1>4. InPlace(m)
  BY <1>2, <1>3
<1>5. Displaced = {}
  <2>1. SUFFICES ASSUME Displaced # {} PROVE FALSE
    OBVIOUS
  <2>2. PICK n \in Displaced : \A l \in Displaced : n <= l
    <3>1. Displaced \in SUBSET Nat
      OBVIOUS
    <3> HIDE DEF Displaced
    <3> QED
      BY <2>1, <3>1, Least
  <2>3. n \in m .. Len(s) /\ n # m /\ ~InPlace(n)
    BY <1>4
  <2>4. InPlace(n - 1)
    <3>1. n - 1 \in m .. Len(s) /\ ~(n <= n - 1)
      BY <2>3
    <3> QED
      BY <2>2, <3>1
  <2>5. g[n] = g[n - 1] \o s[n] /\ g[n - 1] \in Seq(X) /\ s[n] \in Seq(X)
    <3>1. n \in 1 .. Len(s) /\ n # 1 /\ n - 1 \in 1 .. Len(s)
      BY <2>3
    <3> QED
      BY <1>1, <1>2, <3>1 DEF Parts
  <2>6. InPlace(n)
    <3>1. Len(g[n - 1]) \in Nat /\ Len(s[n]) \in Nat
      BY <2>5
    <3>2. Len(g[n]) = Len(g[n - 1]) + Len(s[n])
      BY <2>5
    <3>3. k \in 1 .. Len(g[n - 1]) /\ g[n - 1][k] = s[m][i]
      BY <2>4
    <3>4. g[n][k] = g[n - 1][k]
      BY <2>5, <3>1, <3>3, ConcatProperties
    <3>5. k \in 1 .. Len(g[n])
      <4>1. ASSUME NEW a \in Nat, NEW b \in Nat, NEW l \in 1 .. a PROVE l \in 1 .. (a + b)
        OBVIOUS
      <4> HIDE DEF k
      <4>2. k \in 1 .. (Len(g[n - 1]) + Len(s[n]))
        BY <3>1, <3>3, <4>1
      <4> QED
        BY <3>2, <4>2
    <3> QED
      BY <3>3, <3>4, <3>5
  <2> QED
    BY <2>3, <2>6
<1>6. FlattenSeq(s) = g[Len(s)] /\ Len(s) \in m .. Len(s)
  BY <1>1, FlattenIsLastPart
<1>7. InPlace(Len(s))
  BY <1>5, <1>6
<1> QED
  BY <1>6, <1>7 DEF before

-----------------------------------------------------------------------------
(* The proof for kf_parse.py.                                              *)

\* The recursive function in WithinAt: what is n steps below the value.
LEMMA WithinLevels ==
  ASSUME MaxDepth \in Nat, NEW value, NEW n \in 0 .. MaxDepth
  PROVE  WithinAt(value)[n] = IF n = 0 THEN {value}
                        ELSE UNION {Children(x) : x \in WithinAt(value)[n - 1]}
<1> DEFINE Next(g, i) == IF i = 0 THEN {value} ELSE UNION {Children(x) : x \in g[i - 1]}
           Levels(g, m) == g = [i \in 0 .. m |-> Next(g, i)]
           Has(m) == \E g : Levels(g, m)
           Lacks == {m \in 0 .. MaxDepth : ~Has(m)}
           all == CHOOSE g : Levels(g, MaxDepth)
<1>1. Lacks = {}
  <2> SUFFICES ASSUME Lacks # {} PROVE FALSE
    OBVIOUS
  <2>1. PICK m \in Lacks : \A l \in Lacks : m <= l
    <3>1. Lacks \in SUBSET Nat
      OBVIOUS
    <3> HIDE DEF Lacks
    <3> QED
      BY <3>1, Least
  <2>2. m \in 0 .. MaxDepth /\ ~Has(m)
    OBVIOUS
  <2>3. m # 0
    <3> DEFINE g == [i \in 0 .. 0 |-> {value}]
    <3>1. Levels(g, 0)
      OBVIOUS
    <3> QED
      BY <2>2, <3>1
  <2>4. Has(m - 1)
    <3>1. m - 1 \in 0 .. MaxDepth /\ ~(m <= m - 1)
      BY <2>2, <2>3
    <3>2. m - 1 \notin Lacks
      BY <2>1, <3>1
    <3> QED
      BY <3>1, <3>2
  <2>5. PICK g : Levels(g, m - 1)
    BY <2>4
  <2> DEFINE h == [i \in 0 .. m |-> IF i = m THEN UNION {Children(x) : x \in g[m - 1]} ELSE g[i]]
  <2>6. ASSUME NEW i \in 0 .. m PROVE h[i] = Next(h, i)
    <3>1. CASE i = m
      <4>1. m # 0 /\ h[m] = UNION {Children(x) : x \in g[m - 1]} /\ h[m - 1] = g[m - 1]
        BY <2>2, <2>3
      <4> HIDE DEF h
      <4> QED
        BY <3>1, <4>1, Zenon
    <3>2. CASE i # m
      <4>1. i \in 0 .. m - 1 /\ h[i] = g[i]
        BY <2>2, <3>2
      <4>2. g[i] = Next(g, i)
        BY <2>5, <4>1
      <4>3. i # 0 => h[i - 1] = g[i - 1]
        BY <2>2, <4>1
      <4> HIDE DEF h
      <4>4. Next(h, i) = Next(g, i)
        BY <4>3, Zenon
      <4> QED
        BY <4>1, <4>2, <4>4, Zenon
    <3> QED
      BY <3>1, <3>2
  <2>7. Levels(h, m)
    <3>1. h = [i \in 0 .. m |-> h[i]]
      OBVIOUS
    <3> HIDE DEF h
    <3> QED
      BY <2>6, <3>1
  <2> HIDE DEF h
  <2> QED
    BY <2>2, <2>7
<1>2. Has(MaxDepth)
  <2>1. MaxDepth \in 0 .. MaxDepth
    OBVIOUS
  <2> HIDE DEF Has
  <2> QED
    BY <1>1, <2>1
<1>3. Levels(all, MaxDepth)
  BY <1>2
<1>4. WithinAt(value) = all
  BY DEF WithinAt
<1> HIDE DEF all
<1> QED
  BY <1>3, <1>4

\* And that in CallsAt: the calls that are n calls deep.
LEMMA CallLevels ==
  ASSUME MaxDepth \in Nat, NEW value, NEW n \in 0 .. MaxDepth
  PROVE  CallsAt(value)[n] = IF n = 0 THEN {x \in {value} : x.t = "dict"}
                        ELSE UNION {Calls(x) : x \in CallsAt(value)[n - 1]}
<1> DEFINE Next(g, i) == IF i = 0 THEN {x \in {value} : x.t = "dict"} ELSE UNION {Calls(x) : x \in g[i - 1]}
           Levels(g, m) == g = [i \in 0 .. m |-> Next(g, i)]
           Has(m) == \E g : Levels(g, m)
           Lacks == {m \in 0 .. MaxDepth : ~Has(m)}
           all == CHOOSE g : Levels(g, MaxDepth)
<1>1. Lacks = {}
  <2> SUFFICES ASSUME Lacks # {} PROVE FALSE
    OBVIOUS
  <2>1. PICK m \in Lacks : \A l \in Lacks : m <= l
    <3>1. Lacks \in SUBSET Nat
      OBVIOUS
    <3> HIDE DEF Lacks
    <3> QED
      BY <3>1, Least
  <2>2. m \in 0 .. MaxDepth /\ ~Has(m)
    OBVIOUS
  <2>3. m # 0
    <3> DEFINE g == [i \in 0 .. 0 |-> {x \in {value} : x.t = "dict"}]
    <3>1. Levels(g, 0)
      OBVIOUS
    <3> QED
      BY <2>2, <3>1
  <2>4. Has(m - 1)
    <3>1. m - 1 \in 0 .. MaxDepth /\ ~(m <= m - 1)
      BY <2>2, <2>3
    <3>2. m - 1 \notin Lacks
      BY <2>1, <3>1
    <3> QED
      BY <3>1, <3>2
  <2>5. PICK g : Levels(g, m - 1)
    BY <2>4
  <2> DEFINE h == [i \in 0 .. m |-> IF i = m THEN UNION {Calls(x) : x \in g[m - 1]} ELSE g[i]]
  <2>6. ASSUME NEW i \in 0 .. m PROVE h[i] = Next(h, i)
    <3>1. CASE i = m
      <4>1. m # 0 /\ h[m] = UNION {Calls(x) : x \in g[m - 1]} /\ h[m - 1] = g[m - 1]
        BY <2>2, <2>3
      <4> HIDE DEF h
      <4> QED
        BY <3>1, <4>1, Zenon
    <3>2. CASE i # m
      <4>1. i \in 0 .. m - 1 /\ h[i] = g[i]
        BY <2>2, <3>2
      <4>2. g[i] = Next(g, i)
        BY <2>5, <4>1
      <4>3. i # 0 => h[i - 1] = g[i - 1]
        BY <2>2, <4>1
      <4> HIDE DEF h
      <4>4. Next(h, i) = Next(g, i)
        BY <4>3, Zenon
      <4> QED
        BY <4>1, <4>2, <4>4, Zenon
    <3> QED
      BY <3>1, <3>2
  <2>7. Levels(h, m)
    <3>1. h = [i \in 0 .. m |-> h[i]]
      OBVIOUS
    <3> HIDE DEF h
    <3> QED
      BY <2>6, <3>1
  <2> HIDE DEF h
  <2> QED
    BY <2>2, <2>7
<1>2. Has(MaxDepth)
  <2>1. MaxDepth \in 0 .. MaxDepth
    OBVIOUS
  <2> HIDE DEF Has
  <2> QED
    BY <1>1, <2>1
<1>3. Levels(all, MaxDepth)
  BY <1>2
<1>4. CallsAt(value) = all
  BY DEF CallsAt
<1> HIDE DEF all
<1> QED
  BY <1>3, <1>4


\* The deepest level is empty, so that what is within a value has what is within
\* it there, too.
LEMMA WithinGoesOn ==
  ASSUME MaxDepth \in Nat, NEW value, WithinAt(value)[MaxDepth] = {},
         NEW n \in 0 .. MaxDepth, NEW x \in WithinAt(value)[n], NEW y \in Children(x)
  PROVE  n + 1 \in 0 .. MaxDepth /\ y \in WithinAt(value)[n + 1]
<1>1. n + 1 \in 0 .. MaxDepth /\ n + 1 # 0 /\ (n + 1) - 1 = n
  OBVIOUS
<1>2. WithinAt(value)[n + 1] = UNION {Children(z) : z \in WithinAt(value)[n]}
  BY <1>1, WithinLevels
<1> QED
  BY <1>1, <1>2

LEMMA WithinIsClosed ==
  ASSUME MaxDepth \in Nat, NEW value, WithinAt(value)[MaxDepth] = {},
         NEW x \in Within(value), NEW y \in Children(x)
  PROVE  y \in Within(value)
BY WithinGoesOn DEF Within

\* What is within each type of value.
LEMMA ChildrenAre ==
  ASSUME NEW x
  PROVE  /\ x.t = "dict" => Children(x) = FieldsOf(x)
         /\ x.t = "list" => Children(x) = Range(x.items)
         /\ x.t = "json" => Children(x) = {x.value}
         /\ x.t \notin {"dict", "list", "json"} => Children(x) = {}
BY DEF Children

\* A call is for what is in a value that is in the caller's object.
LEMMA CallsAreBelow ==
  ASSUME NEW d, d.t = "dict", NEW c \in Calls(d)
  PROVE  /\ c.t = "dict"
         /\ \E x \in Children(d) : \/ c \in Children(x)
                                   \/ \E y \in Children(x) : c \in Children(y)
<1>1. /\ c.t = "dict"
      /\ \/ c \in InLists(d)
         \/ \E o \in Inner(d) : c \in FieldsOf(o)
         \/ c \in InTexts(d)
  <2>1. c.t = "dict" /\ c \in InLists(d) \cup InInner(d) \cup InTexts(d)
    BY DEF Calls
  <2> QED
    BY <2>1 DEF InInner
<1>2. CASE c \in InLists(d)
  <2>1. PICK v \in FieldsOf(d) : v.t = "list" /\ c \in Range(v.items)
    BY <1>2 DEF InLists
  <2> QED
    BY <1>1, <2>1, ChildrenAre
<1>3. CASE \E o \in Inner(d) : c \in FieldsOf(o)
  <2>1. PICK o \in FieldsOf(d) : o.t = "dict" /\ c \in FieldsOf(o)
    BY <1>3 DEF Inner
  <2> QED
    BY <1>1, <2>1, ChildrenAre
<1>4. CASE c \in InTexts(d)
  <2>1. PICK o \in Owners(d) : \E w \in FieldsOf(o) : w.t = "json" /\ c = w.value
    BY <1>4 DEF InTexts, FieldsOf
  <2>2. PICK w \in FieldsOf(o) : w.t = "json" /\ c = w.value
    BY <2>1
  <2>3. c \in Children(w)
    BY <2>2, ChildrenAre
  <2>4. CASE o = d
    BY <1>1, <2>2, <2>3, <2>4, ChildrenAre
  <2>5. CASE o \in FieldsOf(d) /\ o.t = "dict"
    BY <1>1, <2>2, <2>3, <2>5, ChildrenAre
  <2> QED
    BY <2>1, <2>4, <2>5 DEF Owners, Inner
<1> QED
  BY <1>1, <1>2, <1>3, <1>4

\* A call that is n calls deep is for an object that is as deep in the document.
LEMMA CallsAreDeep ==
  ASSUME MaxDepth \in Nat, NEW value, WithinAt(value)[MaxDepth] = {},
         NEW n \in 0 .. MaxDepth, NEW d \in CallsAt(value)[n]
  PROVE  d.t = "dict" /\ \E k \in n .. MaxDepth : d \in WithinAt(value)[k]
<1> DEFINE Deep(m) == \A c \in CallsAt(value)[m] :
                         c.t = "dict" /\ \E k \in m .. MaxDepth : c \in WithinAt(value)[k]
           Shallow == {m \in 0 .. MaxDepth : ~Deep(m)}
<1>1. Shallow = {}
  <2> SUFFICES ASSUME Shallow # {} PROVE FALSE
    OBVIOUS
  <2>1. PICK m \in Shallow : \A l \in Shallow : m <= l
    <3>1. Shallow \in SUBSET Nat
      OBVIOUS
    <3> HIDE DEF Shallow
    <3> QED
      BY <3>1, Least
  <2>2. m \in 0 .. MaxDepth /\ ~Deep(m)
    OBVIOUS
  <2>3. CASE m = 0
    <3>1. CallsAt(value)[0] = {x \in {value} : x.t = "dict"} /\ WithinAt(value)[0] = {value}
      BY <2>2, <2>3, CallLevels, WithinLevels
    <3> QED
      BY <2>2, <2>3, <3>1
  <2>4. CASE m # 0
    <3>1. m - 1 \in 0 .. MaxDepth /\ ~(m <= m - 1)
      BY <2>2, <2>4
    <3>2. Deep(m - 1)
      <4>1. m - 1 \notin Shallow
        BY <2>1, <3>1
      <4> QED
        BY <3>1, <4>1
    <3>3. CallsAt(value)[m] = UNION {Calls(c) : c \in CallsAt(value)[m - 1]}
      BY <2>2, <2>4, CallLevels
    <3>4. ASSUME NEW c \in CallsAt(value)[m]
          PROVE  c.t = "dict" /\ \E k \in m .. MaxDepth : c \in WithinAt(value)[k]
      <4>1. PICK e \in CallsAt(value)[m - 1] : c \in Calls(e)
        BY <3>3
      <4>2. PICK k \in m - 1 .. MaxDepth : e \in WithinAt(value)[k]
        BY <3>2, <4>1
      <4>3. /\ e.t = "dict" /\ c.t = "dict"
            /\ \E x \in Children(e) : \/ c \in Children(x)
                                      \/ \E y \in Children(x) : c \in Children(y)
        BY <3>2, <4>1, CallsAreBelow
      <4>4. k \in 0 .. MaxDepth
        BY <3>1
      <4>5. PICK x \in Children(e) : \/ c \in Children(x)
                                     \/ \E y \in Children(x) : c \in Children(y)
        BY <4>3
      <4>6. k + 1 \in 0 .. MaxDepth /\ x \in WithinAt(value)[k + 1]
        BY <4>2, <4>4, WithinGoesOn
      <4>7. CASE c \in Children(x)
        <5>1. (k + 1) + 1 \in 0 .. MaxDepth /\ c \in WithinAt(value)[(k + 1) + 1]
          BY <4>6, <4>7, WithinGoesOn
        <5>2. (k + 1) + 1 \in m .. MaxDepth
          BY <2>2, <5>1
        <5> QED
          BY <4>3, <5>1, <5>2
      <4>8. ASSUME NEW y \in Children(x), c \in Children(y)
            PROVE  \E l \in m .. MaxDepth : c \in WithinAt(value)[l]
        <5>1. (k + 1) + 1 \in 0 .. MaxDepth /\ y \in WithinAt(value)[(k + 1) + 1]
          BY <4>6, WithinGoesOn
        <5>2. /\ ((k + 1) + 1) + 1 \in 0 .. MaxDepth
              /\ c \in WithinAt(value)[((k + 1) + 1) + 1]
          BY <4>8, <5>1, WithinGoesOn
        <5>3. ((k + 1) + 1) + 1 \in m .. MaxDepth
          BY <2>2, <5>2
        <5> QED
          BY <5>2, <5>3
      <4> QED
        BY <4>3, <4>5, <4>7, <4>8
    <3> QED
      BY <2>2, <3>4
  <2> QED
    BY <2>3, <2>4
<1>2. Deep(n)
  BY <1>1
<1> QED
  BY <1>2

\* So the search comes to an end, and every call that a call makes is one of it.
LEMMA SearchIsClosed ==
  ASSUME MaxDepth \in Nat, NEW value, WithinAt(value)[MaxDepth] = {}
  PROVE  /\ \A d \in Searched(value) : d.t = "dict" /\ d \in Within(value)
         /\ \A d \in Searched(value) : Calls(d) \subseteq Searched(value)
         /\ value.t = "dict" => value \in Searched(value)
<1>1. ASSUME NEW d \in Searched(value) PROVE d.t = "dict" /\ d \in Within(value)
  <2>1. PICK n \in 0 .. MaxDepth : d \in CallsAt(value)[n]
    BY DEF Searched
  <2>2. d.t = "dict" /\ \E k \in n .. MaxDepth : d \in WithinAt(value)[k]
    BY <2>1, CallsAreDeep
  <2>3. n .. MaxDepth \subseteq 0 .. MaxDepth
    OBVIOUS
  <2> QED
    BY <2>2, <2>3 DEF Within
<1>2. ASSUME NEW d \in Searched(value), NEW c \in Calls(d) PROVE c \in Searched(value)
  <2>1. PICK n \in 0 .. MaxDepth : d \in CallsAt(value)[n]
    BY DEF Searched
  <2>2. n # MaxDepth
    <3>1. \E k \in n .. MaxDepth : d \in WithinAt(value)[k]
      BY <2>1, CallsAreDeep
    <3> QED
      BY <3>1
  <2>3. n + 1 \in 0 .. MaxDepth /\ n + 1 # 0 /\ (n + 1) - 1 = n
    BY <2>2
  <2>4. CallsAt(value)[n + 1] = UNION {Calls(e) : e \in CallsAt(value)[n]}
    BY <2>3, CallLevels
  <2> QED
    BY <2>1, <2>3, <2>4 DEF Searched
<1>3. value.t = "dict" => value \in Searched(value)
  <2>1. 0 \in 0 .. MaxDepth
    OBVIOUS
  <2>2. CallsAt(value)[0] = {x \in {value} : x.t = "dict"}
    BY <2>1, CallLevels
  <2> QED
    BY <2>1, <2>2 DEF Searched
<1> QED
  BY <1>1, <1>2, <1>3

\* The owners of images are in the document, and what they have is.
LEMMA OwnersAreWithin ==
  ASSUME MaxDepth \in Nat, NEW value, WithinAt(value)[MaxDepth] = {},
         NEW d \in Searched(value), NEW o \in Owners(d)
  PROVE  o.t = "dict" /\ o \in Within(value) /\ FieldsOf(o) \subseteq Within(value)
<1>1. d.t = "dict" /\ d \in Within(value)
  BY SearchIsClosed
<1>2. FieldsOf(d) \subseteq Within(value)
  BY <1>1, WithinIsClosed, ChildrenAre
<1>3. o.t = "dict" /\ o \in Within(value)
  BY <1>1, <1>2 DEF Owners, Inner
<1> QED
  BY <1>3, WithinIsClosed, ChildrenAre

\* What a call finds is an image.
LEMMA ExtractedAreImages ==
  ASSUME MaxDepth \in Nat, NEW value, WithinAt(value)[MaxDepth] = {}
  PROVE  Extract(value) \subseteq Images(value)
<1> SUFFICES ASSUME NEW i \in Extract(value) PROVE i \in Images(value)
  OBVIOUS
<1>1. PICK d \in Searched(value) : i \in ImagesAt(d)
  BY DEF Extract
<1>2. PICK o \in Owners(d) : \E key \in Keys(o) :
         i \in LET v == o.fields[key] IN
               IF key # "image" THEN Inline(v) ELSE IF v.t = "name" THEN Concat(o, v) ELSE {}
  BY <1>1 DEF ImagesAt
<1>3. PICK key \in Keys(o) :
         i \in LET v == o.fields[key] IN
               IF key # "image" THEN Inline(v) ELSE IF v.t = "name" THEN Concat(o, v) ELSE {}
  BY <1>2
<1> DEFINE v == o.fields[key]
<1>4. /\ o \in Objects(value) /\ v \in Within(value)
  BY OwnersAreWithin DEF Objects, FieldsOf
<1>5. CASE key # "image"
  <2>1. i \in Inline(v)
    BY <1>3, <1>5
  <2>2. v.t = "yaml" /\ 1 \in DOMAIN v.images /\ i = <<v.images[1], "own">>
    BY <2>1 DEF Inline
  <2> HIDE DEF v
  <2>3. i \in NamesIn(v)
    BY <2>2 DEF NamesIn, Range
  <2> QED
    BY <1>4, <2>2, <2>3 DEF Images
<1>6. CASE key = "image"
  <2>1. v.t = "name" /\ i \in Concat(o, v)
    BY <1>3, <1>6
  <2>2. i \in {<<v.name, w>> : w \in IF v.tagged THEN {"own"} ELSE Keys(o) \cap Defaults}
    <3> HIDE DEF v
    <3> QED
      BY <2>1 DEF Concat
  <2>3. "image" \in Keys(o) /\ v = o.fields["image"]
    BY <1>6
  <2> HIDE DEF v
  <2>4. i \in ImageOf(o)
    BY <2>1, <2>2, <2>3 DEF ImageOf
  <2> QED
    BY <1>4, <2>4 DEF Images
<1> QED
  BY <1>5, <1>6

\* What a plain object has, and its inner ones.
LEMMA PlainFields ==
  ASSUME NEW d, PlainAt(d), NEW o \in Owners(d), NEW key \in Keys(o)
  PROVE  LET v == o.fields[key]
         IN  /\ v.t = "list" => /\ v \in FieldsOf(d) /\ key \in Keys(d)
                                /\ \A x \in Range(v.items) : x.t = "dict"
             /\ v.t = "json" => v.value.t = "dict" /\ key # "image"
             /\ v.t = "yaml" => DOMAIN v.images \subseteq {1} /\ key # "image"
             /\ o \in Inner(d) => ~(key = "image" /\ v.t \in {"list", "other"})
<1> DEFINE v == o.fields[key]
<1>1. CASE o \in Inner(d)
  <2>1. v.t = "dict" \/ (Text(v) /\ (key = "image" => v.t = "name"))
    BY <1>1 DEF PlainAt
  <2> HIDE DEF v
  <2> QED
    BY <2>1 DEF Text, v
<1>2. CASE o = d /\ o \notin Inner(d)
  <2>1. \/ v.t = "dict"
        \/ v.t = "list" /\ \A x \in Range(v.items) : x.t = "dict"
        \/ Text(v) /\ (key = "image" => v.t \in {"name", "other"})
    BY <1>2 DEF PlainAt
  <2>2. v \in FieldsOf(d) /\ key \in Keys(d)
    BY <1>2 DEF FieldsOf
  <2> HIDE DEF v
  <2> QED
    BY <1>2, <2>1, <2>2 DEF Text, v
<1> QED
  BY <1>1, <1>2 DEF Owners

\* In a plain document all is an owner of a call, or is a text or a list of one.
Covers(value, x) == \E d \in Searched(value) : \E o \in Owners(d) :
                       x = o \/ (x \in FieldsOf(o) /\ x.t # "dict")

LEMMA CoverGoesOn ==
  ASSUME MaxDepth \in Nat, NEW value, WithinAt(value)[MaxDepth] = {}, Plain(value),
         NEW x, Covers(value, x), NEW y \in Children(x)
  PROVE  Covers(value, y)
<1>1. PICK d \in Searched(value) : \E o \in Owners(d) :
         x = o \/ (x \in FieldsOf(o) /\ x.t # "dict")
  BY DEF Covers
<1>2. PICK o \in Owners(d) : x = o \/ (x \in FieldsOf(o) /\ x.t # "dict")
  BY <1>1
<1>3. /\ d.t = "dict" /\ PlainAt(d) /\ Calls(d) \subseteq Searched(value)
      /\ o.t = "dict"
  BY SearchIsClosed, OwnersAreWithin DEF Plain
<1>4. ASSUME NEW c, c \in InLists(d) \cup InInner(d) \cup InTexts(d), c.t = "dict"
      PROVE  Covers(value, c)
  BY <1>3, <1>4 DEF Calls, Covers, Owners
<1>5. CASE x = o
  <2>1. y \in FieldsOf(o)
    BY <1>3, <1>5, ChildrenAre
  <2>2. CASE y.t # "dict"
    BY <2>1, <2>2 DEF Covers
  <2>3. CASE y.t = "dict" /\ o = d
    BY <2>1, <2>3 DEF Covers, Owners, Inner
  <2>4. CASE y.t = "dict" /\ o \in Inner(d)
    BY <1>4, <2>1, <2>4 DEF InInner
  <2> QED
    BY <2>2, <2>3, <2>4 DEF Owners
<1>6. CASE x \in FieldsOf(o) /\ x.t # "dict"
  <2>1. PICK key \in Keys(o) : x = o.fields[key]
    BY <1>6 DEF FieldsOf
  <2>2. CASE x.t = "list"
    <3>1. x \in FieldsOf(d) /\ \A z \in Range(x.items) : z.t = "dict"
      BY <1>3, <2>1, <2>2, PlainFields
    <3>2. y \in Range(x.items)
      BY <2>2, ChildrenAre
    <3> QED
      BY <1>4, <2>2, <3>1, <3>2 DEF InLists
  <2>3. CASE x.t = "json"
    <3>1. x.value.t = "dict" /\ key # "image"
      BY <1>3, <2>1, <2>3, PlainFields
    <3>2. y = x.value
      BY <2>3, ChildrenAre
    <3>3. y \in InTexts(d)
      BY <2>1, <2>3, <3>1, <3>2 DEF InTexts
    <3> QED
      BY <1>4, <3>1, <3>2, <3>3
  <2> QED
    BY <1>6, <2>2, <2>3, ChildrenAre
<1> QED
  BY <1>2, <1>5, <1>6

LEMMA PlainIsCovered ==
  ASSUME MaxDepth \in Nat, NEW value, WithinAt(value)[MaxDepth] = {}, Plain(value),
         value.t = "dict", NEW x \in Within(value)
  PROVE  Covers(value, x)
<1> DEFINE Covered(n) == \A y \in WithinAt(value)[n] : Covers(value, y)
           Bare == {n \in 0 .. MaxDepth : ~Covered(n)}
<1>1. Bare = {}
  <2> SUFFICES ASSUME Bare # {} PROVE FALSE
    OBVIOUS
  <2>1. PICK n \in Bare : \A m \in Bare : n <= m
    <3>1. Bare \in SUBSET Nat
      OBVIOUS
    <3> HIDE DEF Bare
    <3> QED
      BY <3>1, Least
  <2>2. n \in 0 .. MaxDepth /\ ~Covered(n)
    OBVIOUS
  <2>3. CASE n = 0
    <3>1. WithinAt(value)[0] = {value}
      BY <2>2, <2>3, WithinLevels
    <3>2. Covers(value, value)
      BY SearchIsClosed DEF Covers, Owners
    <3> QED
      BY <2>2, <2>3, <3>1, <3>2
  <2>4. CASE n # 0
    <3>1. n - 1 \in 0 .. MaxDepth /\ ~(n <= n - 1)
      BY <2>2, <2>4
    <3>2. Covered(n - 1)
      <4>1. n - 1 \notin Bare
        BY <2>1, <3>1
      <4> QED
        BY <3>1, <4>1
    <3>3. WithinAt(value)[n] = UNION {Children(y) : y \in WithinAt(value)[n - 1]}
      BY <2>2, <2>4, WithinLevels
    <3>4. ASSUME NEW y \in WithinAt(value)[n] PROVE Covers(value, y)
      <4>1. PICK z \in WithinAt(value)[n - 1] : y \in Children(z)
        BY <3>3
      <4>2. Covers(value, z)
        BY <3>2
      <4> QED
        BY <4>1, <4>2, CoverGoesOn
    <3> QED
      BY <2>2, <3>4
  <2> QED
    BY <2>3, <2>4
<1>2. PICK n \in 0 .. MaxDepth : x \in WithinAt(value)[n]
  BY DEF Within
<1>3. Covered(n)
  BY <1>1
<1> QED
  BY <1>2, <1>3

\* In a plain document the search finds each image, and does not raise.
LEMMA PlainIsExtracted ==
  ASSUME MaxDepth \in Nat, NEW value, WithinAt(value)[MaxDepth] = {}, Plain(value),
         value.t = "dict"
  PROVE  ~Raises(value) /\ Images(value) \subseteq Extract(value)
<1>1. ~Raises(value)
  <2> SUFFICES ASSUME NEW d \in Searched(value), NEW o \in Inner(d), "image" \in Keys(o),
                      o.fields["image"].t \in {"list", "other"}
               PROVE  FALSE
    BY DEF Raises, RaisesAt
  <2>1. PlainAt(d) /\ o \in Owners(d)
    BY DEF Plain, Owners
  <2> QED
    BY <2>1, PlainFields
<1>2. ASSUME NEW o \in Objects(value), NEW i \in ImageOf(o) PROVE i \in Extract(value)
  <2>1. o.t = "dict" /\ Covers(value, o)
    BY PlainIsCovered DEF Objects
  <2>2. PICK d \in Searched(value) : o \in Owners(d)
    BY <2>1 DEF Covers
  <2>3. "image" \in Keys(o) /\ o.fields["image"].t = "name"
    BY DEF ImageOf
  <2>4. i \in Concat(o, o.fields["image"])
    BY <2>3 DEF ImageOf, Concat
  <2>5. i \in ImagesAt(d)
    BY <2>2, <2>3, <2>4 DEF ImagesAt
  <2> QED
    BY <2>5 DEF Extract
<1>3. ASSUME NEW x \in Within(value), x.t = "yaml", NEW i \in NamesIn(x)
      PROVE  i \in Extract(value)
  <2>1. Covers(value, x)
    BY PlainIsCovered
  <2>2. PICK d \in Searched(value) : \E o \in Owners(d) :
           x = o \/ (x \in FieldsOf(o) /\ x.t # "dict")
    BY <2>1 DEF Covers
  <2>3. PICK o \in Owners(d) : x \in FieldsOf(o)
    BY <1>3, <2>2, OwnersAreWithin
  <2>4. PICK key \in Keys(o) : x = o.fields[key]
    BY <2>3 DEF FieldsOf
  <2>5. DOMAIN x.images \subseteq {1} /\ key # "image"
    BY <1>3, <2>4, PlainFields DEF Plain
  <2>6. i \in Inline(x)
    BY <1>3, <2>5 DEF NamesIn, Inline, Range
  <2>7. i \in ImagesAt(d)
    BY <2>4, <2>5, <2>6 DEF ImagesAt
  <2> QED
    BY <2>7 DEF Extract
<1> QED
  BY <1>1, <1>2, <1>3 DEF Images

LEMMA SearchKeeps == SearchSpec => []SearchInv
<1>1. SearchInit => SearchInv
  BY DEF SearchInit, SearchInv
<1>2. SearchInv /\ [SearchNext]_searchVars => SearchInv'
  <2>1. CASE Search
    BY <2>1 DEF Search, SearchInv
  <2>2. CASE UNCHANGED searchVars
    BY <2>2 DEF searchVars, SearchInv
  <2> QED
    BY <2>1, <2>2 DEF SearchNext
<1> QED
  BY <1>1, <1>2, PTL DEF SearchSpec

\* Of whatever documents, nothing is reported that a document does not name
\* (kf_parse.py 32-100).
THEOREM FoundAreAlwaysImages == SearchSpec => []FoundAreImages
<1>1. SearchInv => FoundAreImages
  <2> SUFFICES ASSUME SearchInv, found # NotSearched PROVE found \subseteq Images(doc)
    BY DEF FoundAreImages
  <2>1. MaxDepth \in Nat /\ WithinAt(doc)[MaxDepth] = {}
    BY DocumentsAssumption DEF SearchInv
  <2>2. Extract(doc) \subseteq Images(doc)
    BY <2>1, ExtractedAreImages
  <2> QED
    BY <2>2 DEF SearchInv
<1> QED
  BY <1>1, SearchKeeps, PTL

\* And in a plain one all is found, at whatever depth and in whatever text within
\* text (kf_parse.py 32-100).
THEOREM PlainIsAlwaysFound == SearchSpec => []PlainIsFound
<1>1. SearchInv => PlainIsFound
  <2> SUFFICES ASSUME SearchInv, found # NotSearched, Plain(doc) PROVE found = Images(doc)
    BY DEF PlainIsFound
  <2>1. MaxDepth \in Nat /\ WithinAt(doc)[MaxDepth] = {} /\ doc.t = "dict"
    BY DocumentsAssumption DEF SearchInv
  <2>2. ~Raises(doc) /\ Images(doc) \subseteq Extract(doc)
    BY <2>1, PlainIsExtracted
  <2>3. Extract(doc) \subseteq Images(doc)
    BY <2>1, ExtractedAreImages
  <2> QED
    BY <2>2, <2>3 DEF SearchInv
<1> QED
  BY <1>1, SearchKeeps, PTL

-----------------------------------------------------------------------------
(* The proof for pods-validator.py.                                        *)

\* A sequence is joined to another that has none of its elements.

LEMMA Joined ==
  ASSUME NEW X, NEW s \in Seq(X), NEW t \in Seq(X),
         Once(s), Once(t), ToSet(s) \cap ToSet(t) = {}
  PROVE  /\ s \o t \in Seq(X) /\ Once(s \o t)
         /\ ToSet(s \o t) = ToSet(s) \cup ToSet(t)
         /\ \A i \in DOMAIN (s \o t) : (s \o t)[i] \in ToSet(s) => /\ i \in DOMAIN s
                                                                   /\ (s \o t)[i] = s[i]
         /\ \A i, j \in DOMAIN (s \o t) :
               (s \o t)[i] \in ToSet(s) /\ (s \o t)[j] \in ToSet(t) => i < j
<1> DEFINE u == s \o t
           m == Len(s)
           n == Len(t)
<1>1. /\ m \in Nat /\ n \in Nat /\ u \in Seq(X)
      /\ DOMAIN s = 1 .. m /\ DOMAIN t = 1 .. n /\ DOMAIN u = 1 .. m + n
      /\ \A i \in 1 .. m + n : u[i] = IF i <= m THEN s[i] ELSE t[i - m]
  BY ConcatProperties
<1> HIDE DEF u, m, n
<1>2. /\ \A i \in 1 .. m : i \in 1 .. m + n /\ u[i] = s[i]
      /\ \A i \in 1 .. n : m + i \in 1 .. m + n /\ u[m + i] = t[i]
      /\ \A i \in 1 .. m + n : i \in 1 .. m \/ (i > m /\ i - m \in 1 .. n)
      /\ \A i \in 1 .. m + n : i > m => u[i] = t[i - m]
  BY <1>1
<1>3. ToSet(s) = {s[i] : i \in 1 .. m} /\ ToSet(t) = {t[i] : i \in 1 .. n}
      /\ ToSet(u) = {u[i] : i \in 1 .. m + n}
  BY <1>1 DEF ToSet
<1>4. ToSet(u) = ToSet(s) \cup ToSet(t)
  BY <1>2, <1>3
<1>5. \A i \in 1 .. m + n : /\ u[i] \in ToSet(s) => i \in 1 .. m
                            /\ u[i] \in ToSet(t) => i > m
  BY <1>2, <1>3
<1>6. Once(u)
  <2>1. ASSUME NEW i \in 1 .. m + n, NEW j \in 1 .. m + n, u[i] = u[j] PROVE i = j
    <3>1. CASE i \in 1 .. m
      <4>1. u[i] \in ToSet(s) /\ j \in 1 .. m
        BY <1>2, <1>3, <1>5, <2>1, <3>1
      <4> QED
        BY <1>1, <1>2, <2>1, <3>1, <4>1 DEF Once
    <3>2. CASE i > m /\ i - m \in 1 .. n
      <4>1. u[i] \in ToSet(t) /\ j > m /\ j - m \in 1 .. n
        BY <1>2, <1>3, <1>5, <2>1, <3>2
      <4>2. i - m = j - m
        BY <1>1, <1>2, <2>1, <3>2, <4>1 DEF Once
      <4> QED
        BY <1>1, <4>2
    <3> QED
      BY <1>2, <3>1, <3>2
  <2> QED
    BY <1>1, <2>1 DEF Once
<1>7. \A i, j \in 1 .. m + n : u[i] \in ToSet(s) /\ u[j] \in ToSet(t) => i < j
  BY <1>1, <1>5
<1>8. \A i \in 1 .. m + n : u[i] \in ToSet(s) => i \in DOMAIN s /\ u[i] = s[i]
  BY <1>1, <1>2, <1>5
<1> QED
  BY <1>1, <1>4, <1>6, <1>7, <1>8 DEF u

\* Each template is there once, and ml-pipeline- behind those that begin with it
\* (pods-validator.py 8-47).
LEMMA TemplatesAreRight ==
  /\ Templates \in Seq(ToSet(Templates)) /\ Once(Templates)
  /\ \A i, j \in DOMAIN Templates :
        Templates[i] \in ToSet(Specific) /\ Templates[j] = Generic => i < j
  /\ ToSet(Specific) \subseteq ToSet(Templates)
  /\ Generic \notin ToSet(Specific)
  /\ \A w \in Unlisted : w \notin ToSet(Templates)
  /\ "minio-" \notin ToSet(Specific) /\ "dex-" \notin ToSet(Specific)
<1> DEFINE X == ToSet(BeforePipelines) \cup ToSet(Specific) \cup {Generic}
                  \cup ToSet(AfterPipelines)
           G  == <<Generic>>
           s1 == BeforePipelines \o Specific
           s2 == s1 \o G
<1>1. /\ BeforePipelines \in Seq(X) /\ Once(BeforePipelines)
      /\ ToSet(BeforePipelines) = {BeforePipelines[i] : i \in 1 .. 24}
  <2>1. BeforePipelines \in Seq(ToSet(BeforePipelines)) /\ DOMAIN BeforePipelines = 1 .. 24
    BY DEF BeforePipelines, ToSet
  <2>2. \A i, j \in 1 .. 24 : BeforePipelines[i] = BeforePipelines[j] => i = j
    BY SMTT(60) DEF BeforePipelines
  <2> QED
    BY <2>1, <2>2, SeqMonotonic DEF Once, ToSet
<1>2. /\ AfterPipelines \in Seq(X) /\ Once(AfterPipelines)
      /\ ToSet(AfterPipelines) = {AfterPipelines[i] : i \in 1 .. 9}
  <2>1. AfterPipelines \in Seq(ToSet(AfterPipelines)) /\ DOMAIN AfterPipelines = 1 .. 9
    BY DEF AfterPipelines, ToSet
  <2>2. \A i, j \in 1 .. 9 : AfterPipelines[i] = AfterPipelines[j] => i = j
    BY DEF AfterPipelines
  <2> QED
    BY <2>1, <2>2, SeqMonotonic DEF Once, ToSet
<1>3. /\ Specific \in Seq(X) /\ Once(Specific)
      /\ ToSet(Specific) = {Specific[i] : i \in 1 .. 5}
  <2>1. Specific \in Seq(ToSet(Specific)) /\ DOMAIN Specific = 1 .. 5
    BY DEF Specific, ToSet
  <2>2. \A i, j \in 1 .. 5 : Specific[i] = Specific[j] => i = j
    BY DEF Specific
  <2> QED
    BY <2>1, <2>2, SeqMonotonic DEF Once, ToSet
<1>4. G \in Seq(X) /\ Once(G) /\ ToSet(G) = {Generic}
  BY DEF Once, ToSet
<1>5. /\ \A i \in 1 .. 24, j \in 1 .. 9 : BeforePipelines[i] # AfterPipelines[j]
      /\ \A i \in 1 .. 24 : BeforePipelines[i] # Generic
      /\ \A i \in 1 .. 9 : AfterPipelines[i] # Generic
      /\ \A i \in 1 .. 5 : Specific[i] # Generic
  BY DEF BeforePipelines, AfterPipelines, Specific, Generic
<1>6. /\ \A i \in 1 .. 24, j \in 1 .. 5 : BeforePipelines[i] # Specific[j]
      /\ \A i \in 1 .. 9, j \in 1 .. 5 : AfterPipelines[i] # Specific[j]
  BY DEF BeforePipelines, AfterPipelines, Specific
<1>7. Templates = s2 \o AfterPipelines
  BY DEF Templates
<1> HIDE DEF X, G
<1>8. /\ s1 \in Seq(X) /\ Once(s1)
      /\ ToSet(s1) = ToSet(BeforePipelines) \cup ToSet(Specific)
  <2>1. ToSet(BeforePipelines) \cap ToSet(Specific) = {}
    BY <1>1, <1>3, <1>6
  <2> QED
    BY <1>1, <1>3, <2>1, Joined
<1> HIDE DEF s1
<1>9. /\ s2 \in Seq(X) /\ Once(s2) /\ ToSet(s2) = ToSet(s1) \cup {Generic}
      /\ \A i, j \in DOMAIN s2 : s2[i] \in ToSet(s1) /\ s2[j] = Generic => i < j
  <2>1. ToSet(s1) \cap ToSet(G) = {}
    BY <1>1, <1>3, <1>4, <1>5, <1>8
  <2> QED
    BY <1>4, <1>8, <2>1, Joined
<1> HIDE DEF s2
<1>10. /\ Templates \in Seq(X) /\ Once(Templates)
       /\ ToSet(Templates) = ToSet(s2) \cup ToSet(AfterPipelines)
       /\ \A i \in DOMAIN Templates : Templates[i] \in ToSet(s2) =>
             i \in DOMAIN s2 /\ Templates[i] = s2[i]
  <2>1. ToSet(s2) \cap ToSet(AfterPipelines) = {}
    BY <1>1, <1>2, <1>3, <1>5, <1>6, <1>8, <1>9
  <2> QED
    BY <1>2, <1>7, <1>9, <2>1, Joined
<1>11. Templates \in Seq(ToSet(Templates))
  <2>1. \A i \in 1 .. Len(Templates) : Templates[i] \in ToSet(Templates)
    BY <1>10 DEF ToSet
  <2>2. Templates \in [1 .. Len(Templates) -> ToSet(Templates)] /\ Len(Templates) \in Nat
    BY <1>10, <2>1
  <2> QED
    BY <2>2
<1>12. Generic \notin ToSet(Specific)
  BY <1>3, <1>5
<1>13. ASSUME NEW w \in Unlisted PROVE w \notin ToSet(Templates)
  <2>1. \A i \in 1 .. 24 : BeforePipelines[i] # w
    BY DEF BeforePipelines, Unlisted
  <2>2. \A i \in 1 .. 9 : AfterPipelines[i] # w
    BY DEF AfterPipelines, Unlisted
  <2>3. w # Generic /\ \A i \in 1 .. 5 : Specific[i] # w
    BY DEF Specific, Generic, Unlisted
  <2> QED
    BY <1>1, <1>2, <1>3, <1>8, <1>9, <1>10, <2>1, <2>2, <2>3
<1>14. "minio-" \notin ToSet(Specific) /\ "dex-" \notin ToSet(Specific)
  <2>1. \A i \in 1 .. 5 : Specific[i] # "minio-" /\ Specific[i] # "dex-"
    BY DEF Specific
  <2> QED
    BY <1>3, <2>1
<1> QED
  BY <1>8, <1>9, <1>10, <1>11, <1>12, <1>13, <1>14

\* A name that begins with the template of another is one of those of ml-pipeline-,
\* or none of the templates (pods-validator.py 60).
LEMMA LongerIsKnown ==
  ASSUME NEW w, NEW t, <<w, t>> \in Longer
  PROVE  /\ w \in ToSet(Specific) \/ w \in Unlisted
         /\ w \in ToSet(Specific) => t = Generic
         /\ w \in ToSet(Templates) => w \in ToSet(Specific)
         /\ t \notin ToSet(Specific)
<1>1. t \in {Generic, "minio-", "dex-"}
  BY DEF Longer
<1>2. \/ w \in ToSet(Specific) /\ t = Generic
      \/ w \in Unlisted
  BY DEF Longer, Unlisted
<1> HIDE DEF Generic
<1> QED
  BY <1>1, <1>2, TemplatesAreRight

\* The sequence without its element m.
LEMMA Removed ==
  ASSUME NEW X, NEW s \in Seq(X), NEW m \in 1 .. Len(s)
  PROVE  /\ RemoveAt(s, m) \in Seq(X)
         /\ Len(RemoveAt(s, m)) = Len(s) - 1
         /\ \A i \in 1 .. Len(s) - 1 :
               RemoveAt(s, m)[i] = IF i < m THEN s[i] ELSE s[i + 1]
<1> DEFINE a == SubSeq(s, 1, m - 1)
           b == SubSeq(s, m + 1, Len(s))
<1>1. a \in Seq(X) /\ Len(a) = m - 1 /\ \A i \in 1 .. m - 1 : a[i] = s[i]
  BY SubSeqProperties, ElementOfSeq
<1>2. b \in Seq(X) /\ Len(b) = Len(s) - m /\ \A i \in 1 .. Len(s) - m : b[i] = s[m + i]
  BY SubSeqProperties, ElementOfSeq
<1>3. RemoveAt(s, m) = a \o b
  BY DEF RemoveAt
<1> HIDE DEF a, b
<1>4. /\ a \o b \in Seq(X) /\ Len(a \o b) = Len(s) - 1
      /\ \A i \in 1 .. Len(s) - 1 : (a \o b)[i] = IF i < m THEN a[i] ELSE b[i - (m - 1)]
  BY <1>1, <1>2
<1>5. ASSUME NEW i \in 1 .. Len(s) - 1
      PROVE  RemoveAt(s, m)[i] = IF i < m THEN s[i] ELSE s[i + 1]
  <2>1. CASE i < m
    <3>1. i \in 1 .. m - 1
      BY <2>1
    <3> QED
      BY <1>1, <1>3, <1>4, <2>1, <3>1
  <2>2. CASE ~(i < m)
    <3>1. i - (m - 1) \in 1 .. Len(s) - m /\ m + (i - (m - 1)) = i + 1
      BY <2>2
    <3> QED
      BY <1>2, <1>3, <1>4, <2>2, <3>1
  <2> QED
    BY <2>1, <2>2
<1> QED
  BY <1>3, <1>4, <1>5

\* An order of a finite set has each of its elements, once.
LEMMA Ordered ==
  ASSUME NEW S, IsFiniteSet(S), NEW order \in SetToSeqs(S)
  PROVE  /\ order \in Seq(S)
         /\ \A i, j \in DOMAIN order : order[i] = order[j] => i = j
         /\ {order[i] : i \in DOMAIN order} = S
<1> DEFINE n == Cardinality(S)
<1>1. n \in Nat
  BY FS_CardinalityType
<1>2. /\ order \in [1 .. n -> S]
      /\ \A i, j \in 1 .. n : i # j => order[i] # order[j]
  BY DEF SetToSeqs
<1>3. order \in Injection(1 .. n, S)
  BY <1>2 DEF Injection, IsInjective
<1>4. IsFiniteSet(1 .. n) /\ Cardinality(1 .. n) = n
  BY <1>1, FS_Interval
<1>5. order \in Surjection(1 .. n, S)
  BY <1>3, <1>4, FS_Injection
<1> HIDE DEF n
<1>6. order \in Seq(S)
  BY <1>1, <1>2
<1> QED
  BY <1>2, <1>5, <1>6 DEF Surjection

LEMMA InitPods == PodsInit => PodsInv
<1> SUFFICES ASSUME PodsInit PROVE PodsInv
  OBVIOUS
<1>1. PodsTyped
  BY TemplatesAreRight DEF PodsInit, PodsTyped, Namespaces
<1>2. QueueRight /\ Looked = {}
  BY DEF PodsInit, QueueRight, Queued, Looked
<1>3. LeftRight
  BY TemplatesAreRight DEF PodsInit, LeftRight
<1>4. Struck
  BY <1>2 DEF PodsInit, Struck
<1>5. VerdictIsRight
  BY DEF PodsInit, VerdictIsRight
<1> QED
  BY <1>1, <1>2, <1>3, <1>4, <1>5 DEF PodsInv

\* What was struck out is right while neither the templates nor the pods that
\* were looked at change.
LEMMA StruckRests ==
  ASSUME LeftRight, Struck, left' = left, Looked' = Looked
  PROVE  LeftRight' /\ Struck'
<1>1. \A t \in ToSet(Templates) : LookedFor(t) => LookedFor(t)'
  BY DEF LookedFor
<1> QED
  BY <1>1 DEF LeftRight, Struck

\* No pod of a namespace has been listed before it is.
LEMMA ListKeeps == PodsInv /\ List => PodsInv'
<1> SUFFICES ASSUME PodsInv, List PROVE PodsInv'
  OBVIOUS
<1> DEFINE there == {p \in Pods : /\ Namespace[p] = Namespaces[listed + 1]
                                  /\ pods[p] # "Absent"}
           fresh(order) == [i \in DOMAIN order |-> [pod |-> order[i], status |-> pods[order[i]]]]
<1>0. /\ PodsTyped /\ QueueRight /\ LeftRight /\ Struck
      /\ exit = Running /\ exit' = exit /\ UNCHANGED <<pods, left>>
      /\ listed \in Nat /\ listed < 3 /\ listed' = listed + 1
      /\ Len(Namespaces) = 3
  BY DEF PodsInv, PodsTyped, List, Namespaces
<1>1. PICK order \in SetToSeqs(there) : queue' = queue \o fresh(order)
  BY DEF List
<1>2. good' = good \cup {p \in there : Good(pods[p])}
  BY DEF List
<1>3. /\ order \in Seq(there) /\ Once(order)
      /\ {order[i] : i \in DOMAIN order} = there
  <2>1. IsFiniteSet(there)
    BY PodsAssumption, FS_Subset
  <2> HIDE DEF there
  <2> QED
    BY <1>1, <2>1, Ordered DEF Once
<1> DEFINE m == Len(queue)
           n == Len(order)
           new == fresh(order)
<1>4. /\ m \in Nat /\ n \in Nat /\ DOMAIN queue = 1 .. m /\ DOMAIN order = 1 .. n
      /\ \A i \in 1 .. n : order[i] \in there
  BY <1>0, <1>3 DEF PodsTyped
<1>5. /\ \A i \in 1 .. n : /\ new[i] \in Entries /\ new[i].pod = order[i]
                           /\ new[i].status = pods[order[i]]
      /\ new \in Seq(Entries) /\ Len(new) = n
  <2>1. \A i \in 1 .. n : /\ new[i] = [pod |-> order[i], status |-> pods[order[i]]]
                          /\ order[i] \in Pods
    BY <1>4
  <2>2. \A i \in 1 .. n : new[i] \in Entries
    <3>1. \A p \in Pods : pods[p] \in Statuses
      BY <1>0 DEF PodsTyped
    <3>2. ASSUME NEW p \in Pods PROVE [pod |-> p, status |-> pods[p]] \in Entries
      BY <3>1 DEF Entries
    <3> HIDE DEF new
    <3> QED
      BY <2>1, <3>2
  <2>3. new \in [1 .. n -> Entries]
    BY <1>4, <2>2
  <2> QED
    BY <1>4, <2>1, <2>2, <2>3
<1> HIDE DEF new, fresh
<1>6. /\ queue' \in Seq(Entries) /\ DOMAIN queue' = 1 .. m + n
      /\ \A i \in 1 .. m + n : \/ i \in 1 .. m /\ queue'[i] = queue[i]
                               \/ i > m /\ i - m \in 1 .. n /\ queue'[i] = new[i - m]
      /\ \A i \in 1 .. m : i \in 1 .. m + n /\ queue'[i] = queue[i]
      /\ \A i \in 1 .. n : m + i \in 1 .. m + n /\ queue'[m + i] = new[i]
  <2>1. /\ queue' \in Seq(Entries) /\ Len(queue') = m + n
        /\ \A i \in 1 .. m + n : queue'[i] = IF i <= m THEN queue[i] ELSE new[i - m]
    <3>1. queue' = queue \o new /\ queue \in Seq(Entries)
      BY <1>0, <1>1 DEF new, PodsTyped
    <3>2. new \in Seq(Entries) /\ Len(new) = n
      BY <1>5
    <3>3. /\ queue \o new \in Seq(Entries) /\ Len(queue \o new) = Len(queue) + Len(new)
          /\ \A i \in 1 .. Len(queue) + Len(new) :
                (queue \o new)[i] = IF i <= Len(queue) THEN queue[i] ELSE new[i - Len(queue)]
      BY <3>1, <3>2, ConcatProperties
    <3> QED
      BY <3>1, <3>2, <3>3
  <2> HIDE DEF m, n
  <2> QED
    BY <1>4, <2>1
<1>7. there \cap (Queued \cup good) = {}
  <2>1. \A k \in 1 .. listed : Namespaces[k] # Namespaces[listed + 1]
    BY <1>0 DEF Namespaces
  <2> QED
    BY <1>0, <2>1 DEF QueueRight
<1>8. Queued = {queue[i].pod : i \in 1 .. m}
  BY <1>4 DEF Queued
<1>9. Queued' = Queued \cup there
  <2>1. Queued' = {queue'[i].pod : i \in 1 .. m + n}
    BY <1>6 DEF Queued
  <2>2. there = {new[i].pod : i \in 1 .. n}
    BY <1>3, <1>4, <1>5
  <2> HIDE DEF m, n, there
  <2> QED
    BY <1>6, <1>8, <2>1, <2>2
<1>10. Looked' = Looked
  BY <1>2, <1>7, <1>9 DEF Looked
<1>11. QueueRight'
  <2> HIDE DEF m, n
  <2>1. ASSUME NEW i \in 1 .. m + n, NEW j \in 1 .. m + n, queue'[i].pod = queue'[j].pod
        PROVE  i = j
    <3>1. CASE i \in 1 .. m /\ j \in 1 .. m
      BY <1>0, <1>4, <1>6, <2>1, <3>1 DEF QueueRight
    <3>2. CASE i > m /\ i - m \in 1 .. n /\ j > m /\ j - m \in 1 .. n
      <4>1. order[i - m] = order[j - m]
        BY <1>4, <1>5, <1>6, <2>1, <3>2
      <4>2. i - m = j - m
        BY <1>3, <1>4, <3>2, <4>1 DEF Once
      <4> QED
        BY <1>4, <4>2
    <3>3. CASE i \in 1 .. m /\ j > m /\ j - m \in 1 .. n
      <4>1. queue'[i].pod \in Queued /\ queue'[j].pod \in there
        BY <1>4, <1>5, <1>6, <1>8, <3>3
      <4> QED
        BY <1>7, <2>1, <4>1
    <3>4. CASE j \in 1 .. m /\ i > m /\ i - m \in 1 .. n
      <4>1. queue'[j].pod \in Queued /\ queue'[i].pod \in there
        BY <1>4, <1>5, <1>6, <1>8, <3>4
      <4> QED
        BY <1>7, <2>1, <4>1
    <3> QED
      BY <1>6, <3>1, <3>2, <3>3, <3>4
  <2>2. ASSUME NEW i \in 1 .. m + n
        PROVE  Good(queue'[i].status) <=> queue'[i].pod \in good'
    <3>1. CASE i \in 1 .. m
      <4>1. queue'[i] = queue[i] /\ queue[i].pod \in Queued
        BY <1>4, <1>6, <1>8, <3>1
      <4>2. Good(queue[i].status) <=> queue[i].pod \in good
        BY <1>0, <1>4, <3>1 DEF QueueRight
      <4> QED
        BY <1>2, <1>7, <4>1, <4>2
    <3>2. CASE i > m /\ i - m \in 1 .. n
      <4>1. /\ queue'[i].pod = order[i - m] /\ queue'[i].status = pods[order[i - m]]
            /\ order[i - m] \in there
        BY <1>4, <1>5, <1>6, <3>2
      <4> QED
        BY <1>2, <1>7, <4>1
    <3> QED
      BY <1>6, <3>1, <3>2
  <2>3. ASSUME NEW p \in Queued' \cup good'
        PROVE  \E k \in 1 .. listed' : Namespace[p] = Namespaces[k]
    <3>1. CASE p \in there
      <4>1. listed + 1 \in 1 .. listed'
        BY <1>0
      <4> QED
        BY <3>1, <4>1
    <3>2. CASE p \in Queued \cup good
      <4>1. PICK k \in 1 .. listed : Namespace[p] = Namespaces[k]
        BY <1>0, <3>2 DEF QueueRight
      <4>2. k \in 1 .. listed'
        BY <1>0
      <4> QED
        BY <4>1, <4>2
    <3> QED
      BY <1>2, <1>9, <2>3, <3>1, <3>2
  <2> QED
    BY <1>6, <2>1, <2>2, <2>3 DEF QueueRight
<1>12. PodsTyped'
  BY <1>0, <1>2, <1>6 DEF PodsTyped
<1>13. LeftRight' /\ Struck'
  BY <1>0, <1>10, StruckRests
<1>14. VerdictIsRight'
  BY <1>0 DEF VerdictIsRight
<1> QED
  BY <1>11, <1>12, <1>13, <1>14 DEF PodsInv

LEMMA ListFailsKeeps == PodsInv /\ ListFails => PodsInv'
<1> SUFFICES ASSUME PodsInv, ListFails PROVE PodsInv'
  OBVIOUS
<1>1. /\ listed < Len(Namespaces) /\ exit' = 1
      /\ UNCHANGED <<pods, listed, queue, left, good>>
  BY DEF ListFails
<1>2. PodsTyped' /\ QueueRight'
  BY <1>1 DEF PodsInv, PodsTyped, QueueRight, Queued
<1>3. LeftRight' /\ Struck'
  BY <1>1, StruckRests DEF PodsInv, Looked, Queued
<1>4. VerdictIsRight'
  BY <1>1 DEF VerdictIsRight
<1> QED
  BY <1>2, <1>3, <1>4 DEF PodsInv

\* A pod is looked at: the queue has the others.
LEMMA LookTakes ==
  ASSUME PodsInv, Look
  PROVE  LET p == Head(queue).pod
         IN  /\ PodsTyped /\ QueueRight /\ LeftRight /\ Struck /\ exit = Running
             /\ UNCHANGED <<pods, listed, exit, good>>
             /\ p \in Queued /\ (Good(Head(queue).status) <=> p \in good)
             /\ queue' \in Seq(Entries) /\ QueueRight'
             /\ Queued' = Queued \ {p}
<1> DEFINE p == Head(queue).pod
           n == Len(queue)
<1>0. /\ PodsTyped /\ QueueRight /\ LeftRight /\ Struck
      /\ exit = Running /\ UNCHANGED <<pods, listed, exit, good>>
      /\ queue # << >> /\ queue' = Tail(queue)
  BY DEF PodsInv, Look
<1>1. queue \in Seq(Entries)
  BY <1>0 DEF PodsTyped
<1>2. /\ n \in Nat /\ n > 0 /\ DOMAIN queue = 1 .. n /\ 1 \in 1 .. n
      /\ Head(queue) = queue[1]
      /\ queue' \in Seq(Entries) /\ DOMAIN queue' = 1 .. n - 1
      /\ \A i \in 1 .. n - 1 : i + 1 \in 1 .. n /\ queue'[i] = queue[i + 1]
  BY <1>0, <1>1, EmptySeq
<1> HIDE DEF n
<1>3. /\ p \in Queued /\ (Good(Head(queue).status) <=> p \in good)
  BY <1>0, <1>2 DEF Queued, QueueRight
<1>4. \A i, j \in 1 .. n : queue[i].pod = queue[j].pod => i = j
  BY <1>0, <1>2 DEF QueueRight
<1>5. Queued' = Queued \ {p}
  <2>1. Queued' = {queue'[i].pod : i \in 1 .. n - 1} /\ Queued = {queue[i].pod : i \in 1 .. n}
    BY <1>2 DEF Queued
  <2>2. ASSUME NEW i \in 1 .. n - 1 PROVE queue'[i].pod \in Queued \ {p}
    <3>1. i + 1 \in 1 .. n /\ i + 1 # 1 /\ queue'[i] = queue[i + 1]
      BY <1>2
    <3>2. queue[i + 1].pod # queue[1].pod
      BY <1>2, <1>4, <3>1
    <3> QED
      BY <1>2, <2>1, <3>1, <3>2
  <2>3. ASSUME NEW r \in Queued \ {p} PROVE \E i \in 1 .. n - 1 : r = queue'[i].pod
    <3>1. PICK j \in 1 .. n : r = queue[j].pod
      BY <2>1
    <3>2. j # 1
      BY <1>2, <3>1
    <3>3. j - 1 \in 1 .. n - 1 /\ (j - 1) + 1 = j
      BY <1>2, <3>2
    <3>4. queue'[j - 1] = queue[j]
      BY <1>2, <3>3
    <3> QED
      BY <3>1, <3>3, <3>4
  <2>4. Queued' \subseteq Queued \ {p}
    BY <2>1, <2>2
  <2>5. Queued \ {p} \subseteq Queued'
    BY <2>1, <2>3
  <2> QED
    BY <2>4, <2>5
<1>6. QueueRight'
  <2>1. ASSUME NEW i \in 1 .. n - 1, NEW j \in 1 .. n - 1, queue'[i].pod = queue'[j].pod
        PROVE  i = j
    <3>1. /\ i + 1 \in 1 .. n /\ queue'[i] = queue[i + 1]
          /\ j + 1 \in 1 .. n /\ queue'[j] = queue[j + 1]
      BY <1>2
    <3>2. i + 1 = j + 1
      BY <1>4, <2>1, <3>1
    <3> QED
      BY <3>2
  <2>2. \A i \in 1 .. n - 1 : Good(queue'[i].status) <=> queue'[i].pod \in good
    BY <1>0, <1>2 DEF QueueRight
  <2>3. \A r \in Queued' \cup good : \E k \in 1 .. listed : Namespace[r] = Namespaces[k]
    BY <1>0, <1>5 DEF QueueRight
  <2> QED
    BY <1>0, <1>2, <2>1, <2>2, <2>3 DEF QueueRight
<1> QED
  BY <1>0, <1>2, <1>3, <1>5, <1>6

\* A template less keeps the order of the others.
LEMMA StrikeKeepsOrder ==
  ASSUME LeftRight, left \in Seq(ToSet(Templates)), NEW m \in 1 .. Len(left),
         left' = RemoveAt(left, m)
  PROVE  /\ left' \in Seq(ToSet(Templates)) /\ LeftRight'
         /\ ToSet(left') = ToSet(left) \ {left[m]}
<1> DEFINE n == Len(left)
           from(i) == IF i < m THEN i ELSE i + 1
<1>1. /\ left' \in Seq(ToSet(Templates)) /\ n \in Nat /\ m \in 1 .. n
      /\ DOMAIN left = 1 .. n /\ DOMAIN left' = 1 .. n - 1
      /\ \A i \in 1 .. n - 1 : left'[i] = IF i < m THEN left[i] ELSE left[i + 1]
  BY Removed
<1> HIDE DEF n
<1>2. \A i \in 1 .. n - 1 : from(i) \in 1 .. n /\ from(i) # m /\ left'[i] = left[from(i)]
  BY <1>1
<1>3. \A i, j \in 1 .. n - 1 : /\ from(i) = from(j) => i = j
                               /\ from(i) < from(j) => i < j
  BY <1>1
<1>4. \A j \in 1 .. n : j # m => \E i \in 1 .. n - 1 : from(i) = j
  <2>1. ASSUME NEW j \in 1 .. n, j # m PROVE \E i \in 1 .. n - 1 : from(i) = j
    <3>1. CASE j < m
      <4>1. j \in 1 .. n - 1 /\ from(j) = j
        BY <1>1, <3>1
      <4> QED
        BY <4>1
    <3>2. CASE j > m
      <4>1. j - 1 \in 1 .. n - 1 /\ from(j - 1) = j
        BY <1>1, <3>2
      <4> QED
        BY <4>1
    <3> QED
      BY <1>1, <2>1, <3>1, <3>2
  <2> QED
    BY <2>1
<1> HIDE DEF from
<1>5. \A i, j \in 1 .. n : /\ left[i] = left[j] => i = j
                           /\ left[i] \in ToSet(Specific) /\ left[j] = Generic => i < j
  BY <1>1 DEF LeftRight, Once
<1>6. LeftRight'
  BY <1>1, <1>2, <1>3, <1>5 DEF LeftRight, Once
<1>7. ToSet(left') = ToSet(left) \ {left[m]}
  <2>1. /\ ToSet(left) = {left[i] : i \in 1 .. n}
        /\ ToSet(left') = {left'[i] : i \in 1 .. n - 1}
    BY <1>1 DEF ToSet
  <2>2. \A i \in 1 .. n - 1 : left'[i] \in ToSet(left) \ {left[m]}
    BY <1>1, <1>2, <1>5, <2>1
  <2>3. ASSUME NEW t \in ToSet(left) \ {left[m]} PROVE t \in ToSet(left')
    <3>1. PICK j \in 1 .. n : t = left[j] /\ j # m
      BY <2>1
    <3>2. PICK i \in 1 .. n - 1 : from(i) = j
      BY <1>4, <3>1
    <3> QED
      BY <1>2, <2>1, <3>1, <3>2
  <2>4. ToSet(left') \subseteq ToSet(left) \ {left[m]}
    BY <2>1, <2>2
  <2> QED
    BY <2>3, <2>4
<1> QED
  BY <1>1, <1>6, <1>7

\* A pod that was not good, or for which no template is left, leaves the
\* templates as they are.
LEMMA LookLeavesKeeps ==
  ASSUME PodsInv, Look, left' = left,
         \/ ~Good(Head(queue).status)
         \/ \A i \in DOMAIN left : ~StartsWith(Workload[Head(queue).pod], left[i])
  PROVE  LeftRight' /\ Struck'
<1> DEFINE p == Head(queue).pod
<1>1. /\ LeftRight /\ Struck /\ good' = good
      /\ p \in Queued /\ (Good(Head(queue).status) <=> p \in good)
      /\ Queued' = Queued \ {p}
  BY LookTakes
<1> HIDE DEF p
<1>2. CASE p \notin good
  <2>1. Looked' = Looked
    BY <1>1, <1>2 DEF Looked
  <2> QED
    BY <1>1, <2>1, StruckRests
<1>3. CASE p \in good
  <2>1. Looked' = Looked \cup {p}
    BY <1>1, <1>3 DEF Looked
  <2>2. \A t \in ToSet(left) : Workload[p] # t
    BY <1>1, <1>3 DEF p, ToSet, StartsWith
  <2>3. \A t \in ToSet(Templates) : LookedFor(t) => LookedFor(t)'
    BY <2>1 DEF LookedFor
  <2>4. ToSet(left') = ToSet(left) /\ LeftRight'
    BY <1>1 DEF LeftRight
  <2>5. Struck'
    BY <1>1, <2>1, <2>2, <2>3, <2>4 DEF Struck
  <2> QED
    BY <2>4, <2>5
<1> QED
  BY <1>2, <1>3

\* The first template that a good pod's name begins with is its own, if that is
\* left; another is struck out only if an earlier pod has taken it.
LEMMA LookStrikesKeeps ==
  ASSUME PodsInv, Look, Good(Head(queue).status), NEW m \in 1 .. Len(left),
         left' = RemoveAt(left, m),
         StartsWith(Workload[Head(queue).pod], left[m]),
         \A i \in 1 .. Len(left) : StartsWith(Workload[Head(queue).pod], left[i]) => m <= i
  PROVE  left' \in Seq(ToSet(Templates)) /\ LeftRight' /\ Struck'
<1> DEFINE p == Head(queue).pod
           w == Workload[p]
           n == Len(left)
<1>1. /\ left \in Seq(ToSet(Templates)) /\ LeftRight /\ Struck /\ good' = good
      /\ p \in Queued /\ p \in good /\ Queued' = Queued \ {p}
  BY LookTakes DEF PodsTyped
<1>2. /\ left' \in Seq(ToSet(Templates)) /\ LeftRight'
      /\ ToSet(left') = ToSet(left) \ {left[m]}
  BY <1>1, StrikeKeepsOrder
<1>3. /\ n \in Nat /\ DOMAIN left = 1 .. n /\ ToSet(left) = {left[i] : i \in 1 .. n}
      /\ ToSet(left) \subseteq ToSet(Templates)
  BY <1>1 DEF ToSet
<1>4. /\ StartsWith(w, left[m])
      /\ \A i \in 1 .. n : StartsWith(w, left[i]) => m <= i
  OBVIOUS
<1> HIDE DEF p, n
<1>5. Looked' = Looked \cup {p} /\ p \notin Looked
  BY <1>1 DEF Looked
<1>6. \A t \in ToSet(Templates) : LookedFor(t) => LookedFor(t)'
  BY <1>5 DEF LookedFor
<1>7. w \in ToSet(left) => w = left[m]
  <2> SUFFICES ASSUME NEW j \in 1 .. n, left[j] = w, w # left[m] PROVE FALSE
    BY <1>3
  <2>1. m <= j
    BY <1>4 DEF StartsWith
  <2>2. w \in ToSet(Templates) /\ <<w, left[m]>> \in Longer
    BY <1>3, <1>4 DEF StartsWith
  <2>3. w \in ToSet(Specific) /\ left[m] = Generic
    BY <2>2, LongerIsKnown
  <2>4. j < m
    BY <1>1, <1>3, <2>3 DEF LeftRight
  <2> QED
    BY <1>3, <2>1, <2>4
<1>8. ASSUME NEW t, t = left[m] PROVE w = t \/ LookedFor(t)'
  <2> SUFFICES ASSUME w # t PROVE LookedFor(t)'
    OBVIOUS
  <2>1. <<w, t>> \in Longer /\ w \notin ToSet(left) /\ p \in Looked'
    BY <1>4, <1>5, <1>7, <1>8 DEF StartsWith
  <2>2. CASE w \in Unlisted
    BY <2>1, <2>2 DEF w, LookedFor
  <2>3. CASE w \in ToSet(Specific)
    <3>1. w \in ToSet(Templates) /\ ~LookedFor(w)
      BY <2>3, TemplatesAreRight, LongerIsKnown DEF LookedFor
    <3>2. PICK q \in Looked : Workload[q] = w
      BY <1>1, <2>1, <3>1 DEF Struck
    <3>3. q \in Looked' \ {p}
      BY <1>5, <3>2
    <3> QED
      BY <2>1, <3>2, <3>3 DEF w, LookedFor
  <2> QED
    BY <2>1, <2>2, <2>3, LongerIsKnown
<1>9. ASSUME NEW t \in ToSet(Templates)
      PROVE  IF t \in ToSet(left') THEN \A q \in Looked' : Workload[q] # t
             ELSE (\E q \in Looked' : Workload[q] = t) \/ LookedFor(t)'
  <2>1. CASE t \in ToSet(left')
    BY <1>1, <1>2, <1>5, <1>7, <2>1 DEF Struck
  <2>2. CASE t = left[m]
    BY <1>2, <1>5, <1>8, <2>2 DEF LookedFor
  <2>3. CASE t \notin ToSet(left)
    BY <1>1, <1>2, <1>5, <1>6, <2>3 DEF Struck
  <2> QED
    BY <1>2, <2>1, <2>2, <2>3
<1>10. Struck'
  BY <1>9 DEF Struck
<1> QED
  BY <1>2, <1>10

LEMMA LookKeeps == PodsInv /\ Look => PodsInv'
<1> SUFFICES ASSUME PodsInv, Look PROVE PodsInv'
  OBVIOUS
<1> DEFINE hits == {i \in DOMAIN left : StartsWith(Workload[Head(queue).pod], left[i])}
           Ready == Good(Head(queue).status) /\ hits # {}
<1>1. left' = IF Ready THEN RemoveAt(left, CHOOSE i \in hits : \A j \in hits : i <= j) ELSE left
  BY DEF Look
<1>2. /\ PodsTyped /\ QueueRight' /\ queue' \in Seq(Entries)
      /\ exit = Running /\ UNCHANGED <<pods, listed, exit, good>>
  BY LookTakes
<1>3. DOMAIN left = 1 .. Len(left) /\ Len(left) \in Nat /\ left \in Seq(ToSet(Templates))
  BY <1>2 DEF PodsTyped
<1>4. left' \in Seq(ToSet(Templates)) /\ LeftRight' /\ Struck'
  <2>1. CASE Ready
    <3>1. hits \in SUBSET Nat
      BY <1>3
    <3> DEFINE m == CHOOSE i \in hits : \A j \in hits : i <= j
    <3>2. m \in hits /\ \A j \in hits : m <= j
      <4> HIDE DEF hits
      <4>1. \E i \in hits : \A j \in hits : i <= j
        BY <2>1, <3>1, Least
      <4> QED
        BY <4>1
    <3>3. left' = RemoveAt(left, m)
      BY <1>1, <2>1
    <3> HIDE DEF m
    <3>4. /\ m \in 1 .. Len(left) /\ StartsWith(Workload[Head(queue).pod], left[m])
          /\ \A i \in 1 .. Len(left) :
                StartsWith(Workload[Head(queue).pod], left[i]) => m <= i
      BY <1>3, <3>2
    <3> QED
      BY <2>1, <3>3, <3>4, LookStrikesKeeps
  <2>2. CASE ~Ready
    <3>1. left' = left
      BY <1>1, <2>2
    <3>2. \/ ~Good(Head(queue).status)
          \/ \A i \in DOMAIN left : ~StartsWith(Workload[Head(queue).pod], left[i])
      BY <2>2
    <3> QED
      BY <1>3, <3>1, <3>2, LookLeavesKeeps
  <2> QED
    BY <2>1, <2>2
<1>5. PodsTyped'
  BY <1>2, <1>4 DEF PodsTyped
<1>6. VerdictIsRight'
  BY <1>2 DEF VerdictIsRight
<1> QED
  BY <1>2, <1>4, <1>5, <1>6 DEF PodsInv

\* When no pod is to be looked at any more, each good one was.
LEMMA ExitKeeps == PodsInv /\ Exit => PodsInv'
<1> SUFFICES ASSUME PodsInv, Exit PROVE PodsInv'
  OBVIOUS
<1>1. /\ listed = Len(Namespaces) /\ queue = << >> /\ exit' = Len(left)
      /\ UNCHANGED <<pods, listed, queue, left, good>>
  BY DEF Exit
<1>2. PodsTyped' /\ QueueRight'
  BY <1>1 DEF PodsInv, PodsTyped, QueueRight, Queued
<1>3. LeftRight' /\ Struck'
  BY <1>1, StruckRests DEF PodsInv, Looked, Queued
<1>4. Looked = good
  BY <1>1 DEF Looked, Queued
<1>5. ToSet(left) \subseteq Missing /\ \A t \in Missing \ ToSet(left) : PassedFor(t)
  <2>1. ToSet(left) \subseteq ToSet(Templates)
    BY DEF PodsInv, PodsTyped, ToSet
  <2>2. ToSet(left) \subseteq Missing
    BY <1>4, <2>1 DEF PodsInv, Struck, Missing
  <2>3. \A t \in Missing : LookedFor(t) => PassedFor(t)
    BY <1>4 DEF LookedFor, PassedFor
  <2>4. \A t \in Missing \ ToSet(left) : PassedFor(t)
    BY <1>4, <2>3 DEF PodsInv, Struck, Missing
  <2> QED
    BY <2>2, <2>4
<1>6. VerdictIsRight'
  <2>1. ToSet(left)' = ToSet(left) /\ Missing' = Missing /\ good' = good
    BY <1>1 DEF Missing
  <2>2. ~(listed' < Len(Namespaces))
    BY <1>1 DEF Namespaces
  <2> QED
    BY <1>1, <1>5, <2>1, <2>2 DEF VerdictIsRight, PassedFor
<1> QED
  BY <1>2, <1>3, <1>6 DEF PodsInv

LEMMA RestKeeps ==
  ASSUME PodsInv, pods' \in [Pods -> Statuses], UNCHANGED <<listed, queue, left, exit, good>>
  PROVE  PodsInv'
<1>1. PodsTyped' /\ QueueRight'
  BY DEF PodsInv, PodsTyped, QueueRight, Queued
<1>2. LeftRight' /\ Struck'
  BY StruckRests DEF PodsInv, Looked, Queued
<1>3. VerdictIsRight'
  BY DEF PodsInv, VerdictIsRight, Missing, PassedFor
<1> QED
  BY <1>1, <1>2, <1>3 DEF PodsInv

LEMMA NextPods == PodsInv /\ [PodsNext]_podVars => PodsInv'
<1> SUFFICES ASSUME PodsInv, [PodsNext]_podVars PROVE PodsInv'
  OBVIOUS
<1>1. CASE PodChanges
  <2>1. pods' \in [Pods -> Statuses]
    BY <1>1 DEF PodChanges, PodsInv, PodsTyped
  <2> QED
    BY <1>1, <2>1, RestKeeps DEF PodChanges
<1>2. CASE UNCHANGED podVars
  BY <1>2, RestKeeps DEF podVars, PodsInv, PodsTyped
<1> QED
  BY <1>1, <1>2, ListKeeps, ListFailsKeeps, LookKeeps, ExitKeeps DEF PodsNext

\* For all pods, of whatever workloads, in whatever order they are listed and
\* however they change meanwhile: what the exit code counts are workloads without
\* a good pod; one that is not counted has had its template struck out by a good pod
\* whose name begins with it and which has no template of its own or is not the
\* only one of its workload; and a call that failed is no success
\* (pods-validator.py 49-64).
THEOREM VerdictIsAlwaysRight == PodsSpec => []VerdictIsRight
<1>1. PodsInv => VerdictIsRight
  BY DEF PodsInv
<1> QED
  BY InitPods, NextPods, <1>1, PTL DEF PodsSpec

-----------------------------------------------------------------------------
(* The proof for build_kfdef_specs.py.                                     *)

LEMMA InitKfdef == KfdefInit => KfdefInv
<1> SUFFICES ASSUME KfdefInit PROVE KfdefInv
  OBVIOUS
<1>1. KfdefShape
  BY DEF KfdefInit, KfdefShape, Idle, Nothing
<1>2. todo = Idle /\ ~done
  BY DEF KfdefInit
<1> QED
  BY <1>1, <1>2 DEF KfdefInv, SpecsAreCurrent

\* Idle is no set of versions (build_kfdef_specs.py 28-29).
LEMMA IdleIsNoVersions == ~(Idle \subseteq All) /\ Idle # {}
BY KfdefAssumption DEF Idle

LEMMA RunKeeps == KfdefInv /\ Run => KfdefInv'
<1> SUFFICES ASSUME KfdefInv, Run PROVE KfdefInv'
  OBVIOUS
<1>1. /\ todo' = All /\ building' = Nothing /\ ~done'
      /\ UNCHANGED <<source, specs, output>>
  BY DEF Run, KfdefInv, KfdefShape
<1>2. KfdefShape'
  BY <1>1, KfdefAssumption DEF KfdefShape
<1>3. Through' /\ InWork'
  BY <1>1 DEF Through, InWork
<1> QED
  BY <1>1, <1>2, <1>3 DEF KfdefInv, SpecsAreCurrent

LEMMA StopKeeps ==
  ASSUME KfdefInv, todo # Idle, Stop, UNCHANGED <<edited, done>>
  PROVE  KfdefInv'
<1>1. ~done
  BY DEF KfdefInv, KfdefShape
<1>2. KfdefShape'
  BY <1>1 DEF Stop, KfdefShape, Idle, Nothing
<1> QED
  BY <1>1, <1>2 DEF Stop, KfdefInv, SpecsAreCurrent

LEMMA BuildKeeps == KfdefInv /\ Build => KfdefInv'
<1> SUFFICES ASSUME KfdefInv, Build PROVE KfdefInv'
  OBVIOUS
<1>1. CASE Stop
  BY <1>1, StopKeeps DEF Build
<1>2. CASE ~Stop
  <2>1. PICK v \in todo : building' = v /\ output' = Built(v) /\ todo' = todo \ {v}
    BY <1>2 DEF Build
  <2>2. /\ todo # Idle /\ todo \subseteq All /\ building = Nothing /\ ~done
        /\ UNCHANGED <<source, specs, edited, done>>
    BY DEF Build, KfdefInv, KfdefShape
  <2>3. v # Nothing /\ todo' # Idle
    BY <2>1, <2>2, IdleIsNoVersions, KfdefAssumption
  <2>4. KfdefShape'
    BY <2>1, <2>2, <2>3 DEF KfdefShape
  <2>5. ASSUME ~edited PROVE Through' /\ InWork'
    <3>1. Through
      BY <2>2, <2>5 DEF KfdefInv
    <3>2. \A w \in All \ (todo' \cup {building'}) : w \in All \ (todo \cup {building})
      BY <2>1, <2>2, KfdefAssumption
    <3>3. Through'
      BY <2>2, <3>1, <3>2 DEF Through, HasFile, Built
    <3>4. InWork'
      BY <2>1, <2>2 DEF InWork, Built
    <3> QED
      BY <3>3, <3>4
  <2> QED
    BY <2>2, <2>3, <2>4, <2>5 DEF KfdefInv, SpecsAreCurrent
<1> QED
  BY <1>1, <1>2

\* Writing a file leaves the files of all other KfDefs and versions alone.
LEMMA WrittenFile ==
  ASSUME NEW k \in Kfdefs, NEW v \in All, NEW content,
         specs' = Written(FileName(k, v), content), UNCHANGED source
  PROVE  /\ FileName(k, v) \in DOMAIN specs' /\ specs'[FileName(k, v)] = content
         /\ \A k2 \in Kfdefs, v2 \in All :
               HasFile(k2, v2) /\ (k2 # k \/ v2 # v) => HasFile(k2, v2)'
<1>1. /\ DOMAIN specs' = DOMAIN specs \cup {FileName(k, v)}
      /\ \A f \in DOMAIN specs' : specs'[f] = IF f = FileName(k, v) THEN content
                                             ELSE specs[f]
  BY DEF Written
<1>2. ASSUME NEW k2 \in Kfdefs, NEW v2 \in All, HasFile(k2, v2), k2 # k \/ v2 # v
      PROVE  HasFile(k2, v2)'
  <2>1. FileName(k2, v2) # FileName(k, v)
    BY <1>2, KfdefAssumption
  <2> QED
    BY <1>1, <1>2, <2>1 DEF HasFile, Built
<1> QED
  BY <1>1, <1>2

LEMMA WriteKeeps == KfdefInv /\ Write => KfdefInv'
<1> SUFFICES ASSUME KfdefInv, Write PROVE KfdefInv'
  OBVIOUS
<1>0. /\ building # Nothing /\ building \in All /\ todo # Idle /\ ~done
      /\ UNCHANGED <<source, edited, done>>
  BY DEF Write, KfdefInv, KfdefShape
<1>1. CASE Stop
  BY <1>0, <1>1, StopKeeps
<1>2. CASE ~Stop
  <2>1. PICK name \in DOMAIN output :
           /\ specs' = Written(FileName(name, building), output[name])
           /\ output' = Restrict(output, DOMAIN output \ {name})
           /\ UNCHANGED <<building, todo>>
    BY <1>2 DEF Write
  <2>2. KfdefShape'
    BY <1>0, <2>1 DEF KfdefInv, KfdefShape
  <2>3. ASSUME ~edited PROVE Through' /\ InWork'
    <3>1. Through /\ InWork
      BY <1>0, <2>3 DEF KfdefInv
    <3>2. name \in DOMAIN Built(building) /\ output[name] = Built(building)[name]
      BY <1>0, <3>1 DEF InWork
    <3>3. \A v : DOMAIN Built(v) \subseteq Kfdefs
      BY DEF Built
    <3>4. /\ FileName(name, building) \in DOMAIN specs'
          /\ specs'[FileName(name, building)] = output[name]
          /\ \A k2 \in Kfdefs, v2 \in All :
               HasFile(k2, v2) /\ (k2 # name \/ v2 # building) => HasFile(k2, v2)'
      BY <1>0, <2>1, <3>2, <3>3, WrittenFile
    <3>5. \A v : Built(v)' = Built(v)
      BY <1>0 DEF Built
    <3>6. Through'
      BY <2>1, <3>1, <3>3, <3>4, <3>5 DEF Through
    <3>7. /\ DOMAIN output' = DOMAIN output \ {name}
          /\ \A k \in DOMAIN output' : output'[k] = output[k]
      BY <2>1 DEF Restrict
    <3>8. HasFile(name, building)'
      BY <2>1, <3>2, <3>4, <3>5 DEF HasFile
    <3>9. InWork'
      BY <1>0, <2>1, <3>1, <3>3, <3>4, <3>5, <3>7, <3>8 DEF InWork
    <3> QED
      BY <3>6, <3>9
  <2> QED
    BY <1>0, <2>2, <2>3 DEF KfdefInv, SpecsAreCurrent
<1> QED
  BY <1>1, <1>2

LEMMA NextVersionKeeps == KfdefInv /\ NextVersion => KfdefInv'
<1> SUFFICES ASSUME KfdefInv, NextVersion PROVE KfdefInv'
  OBVIOUS
<1>0. /\ building # Nothing /\ output = << >> /\ building' = Nothing
      /\ done' = (todo = {}) /\ todo' = IF todo = {} THEN Idle ELSE todo
      /\ UNCHANGED <<source, specs, output, edited>>
  BY DEF NextVersion
<1>1. todo # Idle /\ todo \subseteq All /\ building \in All
  BY <1>0 DEF KfdefInv, KfdefShape
<1>2. KfdefShape'
  <2>1. CASE todo = {}
    BY <1>0, <1>1, <2>1 DEF KfdefShape, Idle, Nothing
  <2>2. CASE todo # {}
    <3>1. ~done'
      BY <1>0, <2>2
    <3> QED
      BY <1>0, <1>1, <2>2, <3>1, KfdefAssumption DEF KfdefShape
  <2> QED
    BY <2>1, <2>2
<1>3. ASSUME ~edited
      PROVE  \A v \in All \ todo : \A k \in DOMAIN Built(v) : HasFile(k, v)
  <2>1. Through /\ InWork
    BY <1>1, <1>3 DEF KfdefInv
  <2>2. DOMAIN output = {}
    BY <1>0
  <2>3. \A k \in DOMAIN Built(building) : HasFile(k, building)
    BY <1>0, <2>1, <2>2 DEF InWork
  <2> QED
    BY <2>1, <2>3 DEF Through
<1>4. \A v, k : Built(v)' = Built(v) /\ (HasFile(k, v) => HasFile(k, v)')
  BY <1>0 DEF Built, HasFile
<1>5. CASE todo = {}
  BY <1>0, <1>2, <1>3, <1>4, <1>5 DEF KfdefInv, SpecsAreCurrent, HasFile
<1>6. CASE todo # {}
  BY <1>0, <1>2, <1>3, <1>4, <1>6 DEF KfdefInv, SpecsAreCurrent, Through, InWork
<1> QED
  BY <1>5, <1>6

LEMMA EditKeeps == KfdefInv /\ Edit => KfdefInv'
<1> SUFFICES ASSUME KfdefInv, Edit PROVE KfdefInv'
  OBVIOUS
<1>1. edited' /\ UNCHANGED <<building, todo, done>>
  BY DEF Edit
<1>2. KfdefShape'
  BY <1>1 DEF KfdefInv, KfdefShape
<1> QED
  BY <1>1, <1>2 DEF KfdefInv, SpecsAreCurrent

LEMMA NextKfdef == KfdefInv /\ [KfdefNext]_kfdefVars => KfdefInv'
<1> SUFFICES ASSUME KfdefInv, [KfdefNext]_kfdefVars PROVE KfdefInv'
  OBVIOUS
<1>1. CASE BuildFails
  BY <1>1, StopKeeps DEF BuildFails
<1>2. CASE UNCHANGED kfdefVars
  <2>1. \A v : Built(v)' = Built(v)
    BY <1>2 DEF Built, kfdefVars
  <2>2. \A v, k : HasFile(k, v)' = HasFile(k, v)
    BY <1>2, <2>1 DEF HasFile, kfdefVars
  <2>3. KfdefShape' /\ Through' = Through /\ InWork' = InWork
    BY <1>2, <2>1, <2>2 DEF KfdefInv, KfdefShape, Through, InWork, kfdefVars
  <2>4. SpecsAreCurrent'
    BY <1>2, <2>1 DEF KfdefInv, SpecsAreCurrent, kfdefVars
  <2> QED
    BY <1>2, <2>3, <2>4 DEF KfdefInv, kfdefVars
<1> QED
  BY <1>1, <1>2, RunKeeps, BuildKeeps, WriteKeeps, NextVersionKeeps, EditKeeps DEF KfdefNext

\* After a run that has ended well, with nothing edited since it began, each
\* KfDef has its file, made of what the sources are now, whatever other runs
\* have left (build_kfdef_specs.py 27-65).
THEOREM SpecsAreAlwaysCurrent == KfdefSpec => []SpecsAreCurrent
<1>1. KfdefInv => SpecsAreCurrent
  BY DEF KfdefInv
<1> QED
  BY InitKfdef, NextKfdef, <1>1, PTL DEF KfdefSpec

-----------------------------------------------------------------------------
(* The proof for generate_legacy_kustomizations.py.                        *)

\* The numbers of the parameter files go on from map to map, so that each file
\* has one of its own (generate_legacy_kustomizations.py 147-163).
LEMMA NumbersAreRight ==
  ASSUME NEW b \in Apps
  PROVE  /\ b.maps \in Seq(Seq(STRING)) /\ Files(b) \in Seq(STRING)
         /\ DOMAIN Kustomization(b).envs = DOMAIN b.maps
         /\ \A m \in DOMAIN b.maps :
               /\ Kustomization(b).envs[m] = Envs(b, m)
               /\ DOMAIN Envs(b, m) = DOMAIN b.maps[m]
               /\ \A i \in DOMAIN b.maps[m] :
                     /\ Envs(b, m)[i] \in 0 .. Len(Files(b)) - 1
                     /\ Files(b)[Envs(b, m)[i] + 1] = b.maps[m][i]
<1>1. b.maps \in Seq(Seq(STRING))
  BY LegacyAssumption DEF Apps
<1>2. [m \in DOMAIN b.maps |-> b.maps[m]] = b.maps
  BY <1>1
<1>3. Files(b) = FlattenSeq(b.maps)
  BY <1>2 DEF Files
<1>4. Files(b) \in Seq(STRING)
  BY <1>1, <1>3, FlattenIsSeq
<1>5. ASSUME NEW m \in DOMAIN b.maps
      PROVE  /\ Kustomization(b).envs[m] = Envs(b, m)
             /\ DOMAIN Envs(b, m) = DOMAIN b.maps[m]
  BY DEF Kustomization, Envs
<1>6. ASSUME NEW m \in DOMAIN b.maps, NEW i \in DOMAIN b.maps[m]
      PROVE  /\ Envs(b, m)[i] \in 0 .. Len(Files(b)) - 1
             /\ Files(b)[Envs(b, m)[i] + 1] = b.maps[m][i]
  <2> DEFINE before == FlattenSeq(SubSeq(b.maps, 1, m - 1))
  <2>1. m \in 1 .. Len(b.maps)
    BY <1>1
  <2>2. b.maps[m] \in Seq(STRING)
    BY <1>1, <2>1, ElementOfSeq
  <2>3. i \in 1 .. Len(b.maps[m])
    BY <2>2
  <2>4. SubSeq(b.maps, 1, m - 1) \in Seq(Seq(STRING))
    BY <1>1, <2>1
  <2>5. Len(before) \in Nat
    BY <2>4, FlattenIsSeq
  <2>6. Envs(b, m)[i] = Len(before) + i - 1
    BY DEF Envs
  <2>7. /\ Len(before) + i \in 1 .. Len(FlattenSeq(b.maps))
        /\ FlattenSeq(b.maps)[Len(before) + i] = b.maps[m][i]
    BY <1>1, <2>1, <2>3, FlattenKeepsPlace
  <2>8. Envs(b, m)[i] + 1 = Len(before) + i
    BY <2>3, <2>5, <2>6
  <2> HIDE DEF before
  <2> QED
    BY <1>3, <1>4, <2>3, <2>5, <2>6, <2>7, <2>8
<1>7. DOMAIN Kustomization(b).envs = DOMAIN b.maps
  BY DEF Kustomization
<1> QED
  BY <1>1, <1>4, <1>5, <1>6, <1>7

\* What is written to the end is what the property asks for.
LEMMA CompleteIsRight ==
  ASSUME LegacyTyped, NEW d \in Directories, Complete(d)
  PROVE  LET test == tests[d]
             maps == kfapp[d].maps
         IN  [m \in DOMAIN maps |-> [i \in DOMAIN maps[m] |->
                test.params[test.kustomization.envs[m][i]]]] = maps
<1> DEFINE b == kfapp[d]
           copy(m) == [i \in DOMAIN b.maps[m] |->
                          tests[d].params[tests[d].kustomization.envs[m][i]]]
<1>1. b \in Apps /\ tests[d].kustomization = Kustomization(b)
  BY DEF LegacyTyped, Complete, Apps
<1>2. Len(Files(b)) \in Nat
  BY <1>1, NumbersAreRight
<1>3. \A k \in 0 .. Len(Files(b)) - 1 : tests[d].params[k] = Files(b)[k + 1]
  BY DEF Complete, Copied
<1>4. ASSUME NEW m \in DOMAIN b.maps PROVE copy(m) = b.maps[m]
  <2>1. m \in 1 .. Len(b.maps) /\ b.maps[m] \in Seq(STRING)
    BY <1>1, NumbersAreRight, ElementOfSeq
  <2>2. ASSUME NEW i \in DOMAIN b.maps[m]
        PROVE  tests[d].params[tests[d].kustomization.envs[m][i]] = b.maps[m][i]
    <3>1. /\ tests[d].kustomization.envs[m][i] = Envs(b, m)[i]
          /\ Envs(b, m)[i] \in 0 .. Len(Files(b)) - 1
          /\ Files(b)[Envs(b, m)[i] + 1] = b.maps[m][i]
      BY <1>1, NumbersAreRight
    <3> QED
      BY <1>3, <3>1
  <2>3. b.maps[m] = [i \in DOMAIN b.maps[m] |-> b.maps[m][i]]
    BY <2>1
  <2> QED
    BY <2>2, <2>3
<1>5. b.maps = [m \in DOMAIN b.maps |-> b.maps[m]]
  BY <1>1, NumbersAreRight
<1> QED
  BY <1>4, <1>5

LEMMA InitLegacy == LegacyInit => LegacyInv
<1> SUFFICES ASSUME LegacyInit PROVE LegacyInv
  OBVIOUS
<1>1. << >> \in Copies
  <2>1. 0 .. 0 - 1 = {} /\ DOMAIN << >> = {}
    OBVIOUS
  <2>2. << >> \in [0 .. 0 - 1 -> STRING]
    BY <2>1
  <2> QED
    BY <2>2 DEF Copies
<1>2. LegacyTyped
  BY <1>1 DEF LegacyInit, LegacyTyped, NoTest
<1>3. at = Nowhere /\ dirsToGo = NotRunning /\ written = {}
  BY DEF LegacyInit
<1>4. \A d \in Directories : Refers(d)
  BY DEF LegacyInit, Refers, NoTest
<1> QED
  BY <1>2, <1>3, <1>4 DEF LegacyInv, InTurn

\* What was written stays as it is while neither the tests nor the applications
\* change.
LEMMA FilesRest ==
  ASSUME UNCHANGED <<kfapp, tests>>
  PROVE  /\ \A d : Refers(d) => Refers(d)'
         /\ \A d, n : Copied(d, n) => Copied(d, n)'
         /\ \A d : Complete(d) => Complete(d)'
<1>1. \A b : Files(b)' = Files(b) /\ Kustomization(b)' = Kustomization(b)
  OBVIOUS
<1>2. \A d, n : Copied(d, n) => Copied(d, n)'
  BY DEF Copied
<1>3. \A d : Refers(d) => Refers(d)'
  BY DEF Refers
<1> QED
  BY <1>2, <1>3 DEF Complete

\* The script starts, ends or dies, or comes to a directory.
LEMMA StartKeeps == LegacyInv /\ Start => LegacyInv'
<1> SUFFICES ASSUME LegacyInv, Start PROVE LegacyInv'
  OBVIOUS
<1>1. /\ dirsToGo' = Directories /\ written' = {} /\ at' = Nowhere
      /\ UNCHANGED <<kfapp, tests, copied>>
  BY DEF LegacyInv, InTurn, Start
<1>2. LegacyTyped'
  BY <1>1 DEF LegacyInv, LegacyTyped
<1>3. InTurn'
  BY <1>1 DEF InTurn
<1>4. \A d \in Directories : Refers(d)'
  BY <1>1, FilesRest DEF LegacyInv
<1> QED
  BY <1>1, <1>2, <1>3, <1>4 DEF LegacyInv

LEMMA EndKeeps ==
  ASSUME LegacyInv, Ended, UNCHANGED <<kfapp, tests, written>>
  PROVE  LegacyInv'
<1>1. LegacyTyped' /\ InTurn'
  BY DEF LegacyInv, LegacyTyped, InTurn, Ended
<1>2. \A d \in Directories : Refers(d)'
  BY FilesRest DEF LegacyInv
<1>3. \A d \in written' : Complete(d)'
  BY FilesRest DEF LegacyInv
<1> QED
  BY <1>1, <1>2, <1>3 DEF LegacyInv, Ended

LEMMA DirectoryKeeps == LegacyInv /\ Directory => LegacyInv'
<1> SUFFICES ASSUME LegacyInv, Directory PROVE LegacyInv'
  OBVIOUS
<1>0. /\ dirsToGo # NotRunning /\ dirsToGo \subseteq Directories /\ at = Nowhere
      /\ UNCHANGED <<kfapp, tests, written>>
  BY DEF Directory, LegacyInv, LegacyTyped
<1>1. PICK d \in dirsToGo :
         \/ dirsToGo' = dirsToGo \ {d} /\ UNCHANGED <<at, copied>>
         \/ Ended
         \/ /\ kfapp[d] # NoFile
            /\ dirsToGo' = dirsToGo \ {d} /\ at' = d /\ copied' = 0
  BY DEF Directory
<1>2. d \in Directories /\ dirsToGo \ {d} # NotRunning
  BY <1>0, LegacyAssumption DEF NotRunning
<1>3. /\ \A c \in Directories : Refers(c)'
      /\ \A c \in written' : Complete(c)'
  BY <1>0, FilesRest DEF LegacyInv
<1>4. CASE dirsToGo' = dirsToGo \ {d} /\ UNCHANGED <<at, copied>>
  <2>1. LegacyTyped' /\ InTurn'
    BY <1>0, <1>2, <1>4 DEF LegacyInv, LegacyTyped, InTurn
  <2> QED
    BY <1>0, <1>3, <1>4, <2>1 DEF LegacyInv
<1>5. CASE Ended
  BY <1>0, <1>5, EndKeeps
<1>6. CASE /\ kfapp[d] # NoFile
           /\ dirsToGo' = dirsToGo \ {d} /\ at' = d /\ copied' = 0
  <2>1. LegacyTyped' /\ InTurn'
    BY <1>0, <1>2, <1>6 DEF LegacyInv, LegacyTyped, InTurn
  <2>2. Len(Files(kfapp[d])) \in Nat
    <3>1. kfapp[d] \in Apps
      BY <1>2, <1>6 DEF LegacyInv, LegacyTyped, Apps
    <3> QED
      BY <3>1, NumbersAreRight
  <2>3. Copied(d, 0)'
    BY <1>0, <2>2 DEF Copied
  <2> QED
    BY <1>3, <1>6, <2>1, <2>3 DEF LegacyInv
<1> QED
  BY <1>1, <1>4, <1>5, <1>6

\* A copy more: the files with other numbers stay.
LEMMA CopyKeeps == LegacyInv /\ CopyParams => LegacyInv'
<1> SUFFICES ASSUME LegacyInv, CopyParams PROVE LegacyInv'
  OBVIOUS
<1> DEFINE files == Files(kfapp[at])
           params == tests[at].params
<1>0. /\ at \in Directories /\ at # Nowhere /\ copied < Len(files)
      /\ kfapp[at] \in Apps /\ copied \in Nat
      /\ tests' = [tests EXCEPT ![at].params = With(@, copied, files[copied + 1])]
      /\ copied' = copied + 1
      /\ UNCHANGED <<kfapp, at, dirsToGo, written>>
  BY DEF CopyParams, LegacyInv, LegacyTyped, InTurn, Apps
<1>1. files \in Seq(STRING) /\ copied + 1 \in 1 .. Len(files)
  BY <1>0, NumbersAreRight
<1>2. files[copied + 1] \in STRING
  BY <1>1, ElementOfSeq
<1>3. /\ tests[at] \in [params : Copies, kustomization : {NoFile}
                                                   \cup {Kustomization(b) : b \in Apps}]
      /\ Copied(at, copied)
  BY <1>0 DEF LegacyInv, LegacyTyped
<1>4. /\ tests'[at].params = With(params, copied, files[copied + 1])
      /\ tests'[at].kustomization = tests[at].kustomization
      /\ \A d \in Directories \ {at} : tests'[d] = tests[d]
  BY <1>0, <1>3 DEF LegacyInv, LegacyTyped
<1>5. /\ DOMAIN tests'[at].params = DOMAIN params \cup {copied}
      /\ \A k \in DOMAIN tests'[at].params :
            tests'[at].params[k] = IF k = copied THEN files[copied + 1] ELSE params[k]
  BY <1>4 DEF With
<1>6. With(params, copied, files[copied + 1]) \in Copies
  <2>1. PICK n \in Nat : params \in [0 .. n - 1 -> STRING]
    BY <1>3 DEF Copies
  <2>2. \A k \in 0 .. copied - 1 : k \in DOMAIN params
    BY <1>3 DEF Copied
  <2>3. copied <= n
    <3>1. copied = 0 \/ copied - 1 \in 0 .. copied - 1
      BY <1>0
    <3>2. copied = 0 \/ copied - 1 \in 0 .. n - 1
      BY <2>1, <2>2, <3>1
    <3> QED
      BY <1>0, <3>2
  <2> DEFINE l == IF copied < n THEN n ELSE copied + 1
  <2>4. l \in Nat /\ 0 .. l - 1 = DOMAIN params \cup {copied}
    BY <1>0, <2>1, <2>3
  <2>5. With(params, copied, files[copied + 1]) \in [0 .. l - 1 -> STRING]
    <3> HIDE DEF l
    <3> QED
      BY <1>2, <2>1, <2>4 DEF With
  <2> QED
    BY <2>4, <2>5 DEF Copies
<1>7. LegacyTyped'
  BY <1>0, <1>3, <1>6 DEF LegacyInv, LegacyTyped
<1>8. InTurn'
  BY <1>0 DEF LegacyInv, InTurn
<1>9. Copied(at, copied)'
  <2>1. ASSUME NEW k \in 0 .. copied
        PROVE  k \in DOMAIN tests'[at].params /\ tests'[at].params[k] = files[k + 1]
    <3>1. CASE k = copied
      BY <1>5, <3>1
    <3>2. CASE k # copied
      <4>1. k \in 0 .. copied - 1
        BY <1>0, <3>2
      <4> QED
        BY <1>3, <1>5, <3>2, <4>1 DEF Copied
    <3> QED
      BY <3>1, <3>2
  <2>2. copied + 1 <= Len(files) /\ (copied + 1) - 1 = copied
    BY <1>0, <1>1
  <2> QED
    BY <1>0, <2>1, <2>2 DEF Copied
<1>10. ASSUME NEW d \in Directories PROVE Refers(d)'
  <2>1. Refers(d)
    BY DEF LegacyInv
  <2>2. /\ tests'[d].kustomization = tests[d].kustomization
        /\ DOMAIN tests[d].params \subseteq DOMAIN tests'[d].params
    BY <1>4, <1>5
  <2> QED
    BY <2>1, <2>2 DEF Refers
<1>11. ASSUME NEW d \in written' PROVE Complete(d)'
  <2>1. Complete(d) /\ d # at /\ d \in Directories
    BY <1>0, <1>11 DEF LegacyInv, LegacyTyped, InTurn
  <2>2. tests'[d] = tests[d] /\ kfapp'[d] = kfapp[d]
    BY <1>0, <1>4, <2>1
  <2> QED
    BY <2>1, <2>2 DEF Complete, Copied
<1> QED
  BY <1>0, <1>7, <1>8, <1>9, <1>10, <1>11 DEF LegacyInv

\* A kustomization is written when the files it refers to are there, all of
\* them; or it is left empty.
LEMMA WriteKustomizationKeeps == LegacyInv /\ WriteKustomization => LegacyInv'
<1> SUFFICES ASSUME LegacyInv, WriteKustomization PROVE LegacyInv'
  OBVIOUS
<1> DEFINE b == kfapp[at]
<1>0. /\ at \in Directories /\ at # Nowhere /\ b \in Apps /\ copied = Len(Files(b))
      /\ UNCHANGED <<kfapp, runs>>
  BY DEF WriteKustomization, AllCopied, LegacyInv, LegacyTyped, InTurn, Apps
<1>1. PICK new \in {NoFile, Kustomization(b)} :
         /\ tests' = [tests EXCEPT ![at].kustomization = new]
         /\ \/ /\ new = Kustomization(b) /\ written' = written \cup {at}
               /\ at' = Nowhere /\ copied' = 0 /\ UNCHANGED dirsToGo
            \/ new = NoFile /\ Ended /\ UNCHANGED written
  BY DEF WriteKustomization
<1>2. tests[at] \in [params : Copies, kustomization : {NoFile}
                                           \cup {Kustomization(c) : c \in Apps}]
  BY <1>0 DEF LegacyInv, LegacyTyped
<1>3. /\ tests'[at].params = tests[at].params /\ tests'[at].kustomization = new
      /\ \A d \in Directories \ {at} : tests'[d] = tests[d]
  BY <1>0, <1>1, <1>2 DEF LegacyInv, LegacyTyped
<1>4. LegacyTyped'
  BY <1>0, <1>1, <1>2 DEF LegacyInv, LegacyTyped, Ended
<1>5. InTurn' /\ at' = Nowhere
  BY <1>0, <1>1 DEF LegacyInv, InTurn, Ended
<1>6. Copied(at, Len(Files(b)))
  BY <1>0 DEF LegacyInv
<1>7. \A d \in Directories : \A n : Copied(d, n) => /\ n <= Len(Files(kfapp'[d]))
         /\ \A k \in 0 .. n - 1 : /\ k \in DOMAIN tests'[d].params
                                  /\ tests'[d].params[k] = Files(kfapp'[d])[k + 1]
  <2>1. \A d \in Directories : tests'[d].params = tests[d].params
    BY <1>3
  <2> QED
    BY <1>0, <2>1 DEF Copied
<1>8. ASSUME NEW d \in Directories PROVE Refers(d)'
  <2>1. Refers(d)
    BY DEF LegacyInv
  <2>2. CASE d # at
    BY <1>3, <2>1, <2>2 DEF Refers
  <2>3. CASE d = at /\ new = NoFile
    BY <1>3, <2>3 DEF Refers
  <2>4. CASE d = at /\ new = Kustomization(b)
    <3>1. ASSUME NEW m \in DOMAIN new.envs
          PROVE  Range(new.envs[m]) \subseteq DOMAIN tests'[at].params
      <4>1. /\ m \in DOMAIN b.maps /\ new.envs[m] = Envs(b, m)
            /\ DOMAIN Envs(b, m) = DOMAIN b.maps[m]
            /\ \A i \in DOMAIN b.maps[m] : Envs(b, m)[i] \in 0 .. Len(Files(b)) - 1
        BY <1>0, <2>4, NumbersAreRight
      <4>2. Range(Envs(b, m)) \subseteq 0 .. Len(Files(b)) - 1
        BY <4>1 DEF Range
      <4> QED
        BY <1>0, <1>6, <1>7, <4>1, <4>2
    <3> QED
      BY <1>3, <2>4, <3>1 DEF Refers
  <2> QED
    BY <1>1, <2>2, <2>3, <2>4
<1>9. ASSUME NEW d \in written' PROVE Complete(d)'
  <2>1. CASE d = at /\ new = Kustomization(b)
    <3>1. kfapp'[d] = b /\ b # NoFile /\ tests'[d].kustomization = Kustomization(b)
      BY <1>0, <1>3, <2>1 DEF Apps
    <3> QED
      BY <1>0, <1>6, <1>7, <2>1, <3>1 DEF Complete, Copied
  <2>2. CASE d \in written
    <3>1. d \in Directories /\ d # at /\ Complete(d)
      BY <1>0, <2>2 DEF LegacyInv, LegacyTyped, InTurn
    <3>2. tests'[d] = tests[d] /\ kfapp'[d] = kfapp[d]
      BY <1>0, <1>3, <3>1
    <3> QED
      BY <3>1, <3>2 DEF Complete, Copied
  <2> QED
    BY <1>1, <1>9, <2>1, <2>2
<1> QED
  BY <1>4, <1>5, <1>8, <1>9 DEF LegacyInv

LEMMA KfctlBuildsKeeps == LegacyInv /\ KfctlBuilds => LegacyInv'
<1> SUFFICES ASSUME LegacyInv, KfctlBuilds PROVE LegacyInv'
  OBVIOUS
<1>1. /\ dirsToGo = NotRunning /\ at = Nowhere /\ written' = {}
      /\ UNCHANGED <<tests, at, copied, dirsToGo>>
  BY DEF KfctlBuilds, LegacyInv, InTurn
<1>2. kfapp' \in [Directories -> KfctlBuilt]
  BY DEF KfctlBuilds, LegacyInv, LegacyTyped
<1>3. LegacyTyped' /\ InTurn'
  BY <1>1, <1>2 DEF LegacyInv, LegacyTyped, InTurn
<1>4. \A d \in Directories : Refers(d)'
  BY <1>1 DEF LegacyInv, Refers
<1> QED
  BY <1>1, <1>3, <1>4 DEF LegacyInv

LEMMA NextLegacy == LegacyInv /\ [LegacyNext]_legacyVars => LegacyInv'
<1> SUFFICES ASSUME LegacyInv, [LegacyNext]_legacyVars PROVE LegacyInv'
  OBVIOUS
<1>1. CASE AllWritten \/ Dies
  BY <1>1, EndKeeps DEF AllWritten, Dies
<1>2. CASE UNCHANGED legacyVars
  <2>1. /\ UNCHANGED <<kfapp, tests, at, copied, dirsToGo, written>>
    BY <1>2 DEF legacyVars
  <2>2. LegacyTyped' /\ InTurn'
    BY <2>1 DEF LegacyInv, LegacyTyped, InTurn
  <2>3. at # Nowhere => Copied(at, copied)'
    BY <2>1, FilesRest DEF LegacyInv
  <2>4. (\A d \in Directories : Refers(d)') /\ \A d \in written : Complete(d)'
    BY <2>1, FilesRest DEF LegacyInv
  <2> QED
    BY <2>1, <2>2, <2>3, <2>4 DEF LegacyInv
<1> QED
  BY <1>1, <1>2, StartKeeps, DirectoryKeeps, CopyKeeps, WriteKustomizationKeeps,
     KfctlBuildsKeeps DEF LegacyNext

\* At every moment, whatever runs have died and wherever, what a kustomization
\* refers to is there; and in a test that the last run has written to its end
\* each map has its own files (generate_legacy_kustomizations.py 146-174).
THEOREM ParamsAreAlwaysThere == LegacySpec => []ParamsAreThere
<1>1. LegacyInv => ParamsAreThere
  <2> SUFFICES ASSUME LegacyInv, NEW d \in Directories
               PROVE  /\ Refers(d)
                      /\ d \in written => Complete(d)
    BY CompleteIsRight DEF ParamsAreThere, LegacyInv, Refers
  <2> QED
    BY DEF LegacyInv
<1> QED
  BY InitLegacy, NextLegacy, <1>1, PTL DEF LegacySpec

-----------------------------------------------------------------------------
(* The proof for create_kptfile.py and generate_gcp_kpt_data.py.           *)

\* A text depends on the setters that its pattern uses.
LEMMA FillAgrees ==
  ASSUME NEW p \in Seq(STRING), NEW v, NEW w, \A s \in Used(p) : v[s] = w[s]
  PROVE  Fill(p, v) = Fill(p, w)
<1> DEFINE texts(x) == [i \in DOMAIN p |-> IF p[i] \in Markers THEN x[SetterOf[p[i]]] ELSE p[i]]
<1>1. \A i \in DOMAIN p : p[i] \in Markers => SetterOf[p[i]] \in Used(p)
  BY DEF Used, Range
<1>2. texts(v) = texts(w)
  BY <1>1
<1> HIDE DEF texts
<1>3. TextOf(texts(v)) = TextOf(texts(w))
  BY <1>2
<1> QED
  BY <1>3 DEF Fill, texts

LEMMA UsedAreSetters == ASSUME NEW p PROVE Used(p) \subseteq Setters
<1>1. ASSUME NEW m \in Markers PROVE SetterOf[m] \in Setters
  <2>1. \E s \in Setters : Marker(s) = m
    BY DEF Markers
  <2> QED
    BY <2>1 DEF SetterOf
<1> QED
  BY <1>1 DEF Used

\* The test values: one for each setter.
LEMMA TestValuesAreRight ==
  /\ Len(TestValues) = 8
  /\ Setters = {TestValues[j][1] : j \in 1 .. 8}
  /\ \A j, k \in 1 .. 8 : TestValues[j][1] = TestValues[k][1] => j = k
  /\ \A j \in 1 .. 8 : Expected[TestValues[j][1]] = TestValues[j][2]
<1>1. Len(TestValues) = 8
  BY DEF TestValues
<1>2. Setters = {TestValues[j][1] : j \in 1 .. 8}
  BY DEF TestValues, Setters
<1>3. \A j, k \in 1 .. 8 : TestValues[j][1] = TestValues[k][1] => j = k
  BY SMTT(60) DEF TestValues
<1>4. /\ \A j \in 1 .. 8 : TestValues[j] = <<TestValues[j][1], TestValues[j][2]>>
      /\ DOMAIN TestValues = 1 .. 8
  BY DEF TestValues
<1>5. ASSUME NEW j \in 1 .. 8 PROVE Expected[TestValues[j][1]] = TestValues[j][2]
  <2> DEFINE s == TestValues[j][1]
             v == CHOOSE w \in {t[2] : t \in Range(TestValues)} : <<s, w>> \in Range(TestValues)
  <2>1. TestValues[j] \in Range(TestValues)
    BY <1>4 DEF Range
  <2>2. \E w \in {t[2] : t \in Range(TestValues)} : <<s, w>> \in Range(TestValues)
    BY <1>4, <2>1
  <2>3. <<s, v>> \in Range(TestValues)
    BY <2>2
  <2> HIDE DEF v
  <2>4. PICK k \in 1 .. 8 : TestValues[k] = <<s, v>>
    BY <1>4, <2>3 DEF Range
  <2>5. k = j
    BY <1>3, <2>4
  <2>6. v = TestValues[j][2]
    BY <2>4, <2>5
  <2>7. s \in Setters
    BY <1>2
  <2> QED
    BY <2>6, <2>7 DEF Expected, v
<1> QED
  BY <1>1, <1>2, <1>3, <1>5

\* What the assumption says of the package.
LEMMA ThePackage ==
  ASSUME package \in DOMAIN Packages
  PROVE  /\ Commands \in Seq(Range(Commands)) /\ Len(Commands) \in Nat \ {0}
         /\ DOMAIN Commands = 1 .. Len(Commands)
         /\ \A c \in Range(Commands) : ~Restores(c) => c.name \notin {Old, Unmarked}
         /\ DOMAIN Packages[package].defs \cap {Old, Unmarked} = {}
         /\ \A f \in DOMAIN Fields : /\ FieldOK(package, Fields[f])
                                     /\ Fields[f].means \in Seq(STRING)
                                     /\ Fields[f].means # << >> => Used(Fields[f].means) # {}
         /\ \A f, g \in DOMAIN Fields :
               Fields[f].file = Fields[g].file => Fields[f].dir = Fields[g].dir
<1>1. PackageOK(package)
  BY KptAssumption
<1>2. /\ Commands \in Seq(Range(Commands)) /\ Commands # << >>
      /\ \A c \in Range(Commands) : ~Restores(c) => c.name \notin {Old, Unmarked}
      /\ DOMAIN Packages[package].defs \cap {Old, Unmarked} = {}
  BY <1>1 DEF PackageOK, Commands
<1> QED
  BY <1>1, <1>2, EmptySeq DEF PackageOK, Fields

\* A step leaves the package alone, and so what is fixed about it.
LEMMA TheSame ==
  ASSUME package' = package
  PROVE  /\ Fields' = Fields /\ Commands' = Commands
         /\ \A f \in DOMAIN Fields :
               Untouched(package, Fields[f])' <=> Untouched(package, Fields[f])
BY DEF Fields, Commands, Untouched

\* The marks that follow from the commands so far, at the end of a script.
LEMMA MarksFollow == KptInv => MarksAreRight
<1> SUFFICES ASSUME KptInv, complete, NEW f \in DOMAIN Fields, Fields[f].file \notin lost
             PROVE  CASE Fields[f].dir \in Range(Upstream) -> Original(f)
                      [] Fields[f].dir \notin Range(Upstream) /\ Fields[f].means # << >> ->
                            /\ marks[f] \in DOMAIN kptfile.defs
                            /\ kptfile.defs[marks[f]] = Fields[f].means
                      [] OTHER -> marks[f] = Unmarked
                                    \/ (marks[f] = Fields[f].mark /\ ~stripped)
  BY DEF MarksAreRight, Original
<1> USE DEF KptInv
<1>1. /\ package \in DOMAIN Packages /\ Executed = Len(Commands)
      /\ MarkedSoFar /\ DefinedSoFar /\ Kept
  BY DEF KptTyped, Executed
<1>2. /\ DOMAIN Commands = 1 .. Len(Commands) /\ FieldOK(package, Fields[f])
      /\ DOMAIN Packages[package].defs \cap {Old, Unmarked} = {}
  BY <1>1, ThePackage
<1>3. ASSUME NEW i \in DOMAIN Commands, LastFor(package, Fields[f], i)
      PROVE  IF Restores(Commands[i]) THEN Original(f) ELSE marks[f] = Commands[i].name
  <2>1. TouchedLast(f, i)
    BY <1>1, <1>2, <1>3 DEF LastFor, TouchedLast, Commands
  <2> QED
    BY <1>1, <1>2, <2>1 DEF MarkedSoFar
<1>4. ASSUME Untouched(package, Fields[f])
      PROVE  Original(f) /\ (stripped => marks[f] # Old)
  BY <1>1, <1>4 DEF Kept
<1>5. CASE Fields[f].dir \in Range(Upstream)
  <2>1. \E i \in DOMAIN Commands : LastFor(package, Fields[f], i) /\ Restores(Commands[i])
    BY <1>2, <1>5 DEF FieldOK, Commands
  <2> QED
    BY <1>3, <1>5, <2>1
<1>6. CASE Fields[f].dir \notin Range(Upstream) /\ Fields[f].means # << >>
  <2> SUFFICES marks[f] \in DOMAIN kptfile.defs /\ kptfile.defs[marks[f]] = Fields[f].means
    BY <1>6
  <2>1. CASE \E i \in DOMAIN Commands :
                /\ LastFor(package, Fields[f], i) /\ ~Restores(Commands[i])
                /\ Commands[i].pattern = Fields[f].means
                /\ \A j \in DOMAIN Commands :
                      j > i => ~Defines(Commands[j], Commands[i].name)
    <3>1. PICK i \in DOMAIN Commands :
                /\ LastFor(package, Fields[f], i) /\ ~Restores(Commands[i])
                /\ Commands[i].pattern = Fields[f].means
                /\ \A j \in DOMAIN Commands :
                      j > i => ~Defines(Commands[j], Commands[i].name)
      BY <2>1
    <3>2. DefinedLast(i)
      BY <1>1, <1>2, <3>1 DEF DefinedLast
    <3> QED
      BY <1>1, <1>2, <1>3, <3>1, <3>2 DEF DefinedSoFar
  <2>2. CASE /\ Untouched(package, Fields[f])
             /\ Fields[f].mark \in DOMAIN Packages[package].defs
             /\ Packages[package].defs[Fields[f].mark] = Fields[f].means
             /\ \A c \in Range(Commands) : ~Defines(c, Fields[f].mark)
    BY <1>1, <1>2, <1>4, <2>2 DEF Kept, Original
  <2> QED
    BY <1>2, <1>6, <2>1, <2>2 DEF FieldOK, Commands
<1>7. CASE Fields[f].dir \notin Range(Upstream) /\ Fields[f].means = << >>
  <2>1. Untouched(package, Fields[f]) /\ Fields[f].mark \in {Old, Unmarked}
    BY <1>2, <1>7 DEF FieldOK
  <2> QED
    BY <1>4, <1>7, <2>1 DEF Original
<1> QED
  BY <1>5, <1>6, <1>7

\* The data that every setter was set in.
LEMMA DataFollow == KptInv => TestDataAreRight
<1> SUFFICES ASSUME KptInv, data.set = 8, data.whole, NEW f \in DOMAIN data.fields,
                    Fields[f].file \notin data.lost
             PROVE  data.fields[f] = IF Fields[f].means = << >> THEN Fields[f].value
                                     ELSE Fill(Fields[f].means, Expected)
  BY TestValuesAreRight DEF TestDataAreRight
<1>1. /\ DOMAIN data.fields \subseteq DOMAIN Fields
      /\ \A j \in 1 .. 8 : /\ TestValues[j][1] \in DOMAIN data.kptfile.values
                           /\ data.kptfile.values[TestValues[j][1]] = TestValues[j][2]
      /\ Setters \subseteq DOMAIN data.kptfile.values => DataField(f)
  BY DEF KptInv, DataRight
<1>2. /\ Setters \subseteq DOMAIN data.kptfile.values
      /\ \A s \in Setters : data.kptfile.values[s] = Expected[s]
      /\ SetSoFar = Setters
  BY <1>1, TestValuesAreRight DEF SetSoFar
<1>3. CASE Fields[f].means = << >>
  BY <1>1, <1>2, <1>3 DEF DataField
<1>4. CASE Fields[f].means # << >>
  <2>1. package \in DOMAIN Packages
    BY DEF KptInv, KptTyped
  <2>2. Fields[f].means \in Seq(STRING) /\ Used(Fields[f].means) # {}
    BY <1>1, <1>4, <2>1, ThePackage
  <2>3. Used(Fields[f].means) \cap SetSoFar # {}
    BY <1>2, <2>2, UsedAreSetters
  <2>4. Fill(Fields[f].means, data.kptfile.values) = Fill(Fields[f].means, Expected)
    BY <1>2, <2>2, UsedAreSetters, FillAgrees
  <2> QED
    BY <1>1, <1>2, <1>4, <2>3, <2>4 DEF DataField
<1> QED
  BY <1>3, <1>4

\* Data that nobody touches.
LEMMA DataStay ==
  ASSUME DataRight, package' = package, data' = data,
         use' = "set" => use = "set" /\ step' = step
  PROVE  DataRight'
<1>1. /\ Fields' = Fields
      /\ SetSoFar' = SetSoFar
      /\ \A f : DataField(f)' <=> DataField(f)
      /\ DataShaped' <=> DataShaped
  BY DEF Fields, SetSoFar, DataField, DataShaped
<1> QED
  BY <1>1 DEF DataRight

LEMMA NoneExecuted == Executed = 0 => MarkedSoFar /\ DefinedSoFar
BY DEF MarkedSoFar, DefinedSoFar, TouchedLast, DefinedLast

\* The same marks, definitions and files, and as many commands as before.
LEMMA MarksStay ==
  ASSUME MarkedSoFar, DefinedSoFar, UNCHANGED <<package, marks, kptfile>>,
         lost \subseteq lost', Executed' = Executed
  PROVE  MarkedSoFar' /\ DefinedSoFar'
<1>1. /\ Fields' = Fields /\ Commands' = Commands
      /\ \A f, i : TouchedLast(f, i)' <=> TouchedLast(f, i)
      /\ \A i : DefinedLast(i)' <=> DefinedLast(i)
      /\ \A f : Original(f)' <=> Original(f)
  BY TheSame DEF TouchedLast, DefinedLast, Original, Fields, Commands
<1> QED
  BY <1>1 DEF MarkedSoFar, DefinedSoFar

LEMMA KeptStay ==
  ASSUME Kept, UNCHANGED <<package, marks, kptfile>>, stripped' = stripped,
         use' = "strip" => step' = {Fields[f].file : f \in DOMAIN Fields}
  PROVE  Kept'
<1>1. /\ Fields' = Fields /\ Commands' = Commands
      /\ \A f \in DOMAIN Fields :
            Untouched(package, Fields[f])' <=> Untouched(package, Fields[f])
      /\ \A f : Original(f)' <=> Original(f)
  BY TheSame DEF Original, Fields
<1> QED
  BY <1>1 DEF Kept

LEMMA InitKpt == KptInit => KptInv
<1> SUFFICES ASSUME KptInit
             PROVE  KptInv
  OBVIOUS
<1> USE DEF KptInit, Committed
<1>1. KptTyped
  BY DEF KptTyped, Fields
<1>2. MarkedSoFar /\ DefinedSoFar
  BY NoneExecuted DEF Executed
<1>3. Kept
  BY ThePackage DEF Kept, Original, Fields
<1>4. DataRight
  BY DEF DataRight, NoData
<1> QED
  BY <1>1, <1>2, <1>3, <1>4 DEF KptInv

LEMMA CheckoutKeeps == KptInv /\ Checkout => KptInv'
<1> SUFFICES ASSUME KptInv, Checkout
             PROVE  KptInv'
  OBVIOUS
<1> USE DEF KptInv, Checkout, Committed
<1>1. Fields' = Fields /\ Commands' = Commands /\ package' = package
  BY TheSame
<1>2. KptTyped'
  BY <1>1 DEF KptTyped, Fields
<1>3. MarkedSoFar' /\ DefinedSoFar'
  <2>1. Executed' = 0
    BY DEF Executed
  <2> QED
    BY <2>1 DEF MarkedSoFar, DefinedSoFar, TouchedLast, DefinedLast
<1>4. Kept'
  BY <1>1, ThePackage DEF Kept, Original, Fields, KptTyped
<1>5. DataRight'
  BY DataStay
<1> QED
  BY <1>2, <1>3, <1>4, <1>5

LEMMA StripKeeps == KptInv /\ Strip => KptInv'
<1> SUFFICES ASSUME KptInv, Strip
             PROVE  KptInv'
  OBVIOUS
<1> USE DEF KptInv, Strip, Begin
<1>1. Fields' = Fields /\ Commands' = Commands
  BY TheSame
<1>2. KptTyped'
  BY <1>1 DEF KptTyped
<1>3. MarkedSoFar' /\ DefinedSoFar'
  BY <1>1, MarksStay DEF Executed
<1>4. Kept' /\ DataRight'
  BY KeptStay, DataStay
<1> QED
  BY <1>2, <1>3, <1>4

LEMMA StripFileKeeps == KptInv /\ StripFile => KptInv'
<1> SUFFICES ASSUME KptInv, use = "strip", NEW file \in step,
                    marks' = [f \in DOMAIN marks |->
                                 IF Fields[f].file = file /\ marks[f] = Old THEN Unmarked
                                 ELSE marks[f]],
                    IF step = {file} THEN End /\ stripped' = TRUE
                    ELSE step' = step \ {file} /\ UNCHANGED <<use, stripped>>,
                    UNCHANGED <<package, kptfile, lost, complete, data, uses>>
             PROVE  KptInv'
  BY DEF StripFile
<1> USE DEF KptInv, End
<1>1. /\ Fields' = Fields /\ Commands' = Commands
      /\ \A f \in DOMAIN Fields :
            Untouched(package, Fields[f])' <=> Untouched(package, Fields[f])
  BY TheSame
<1>2. KptTyped'
  BY <1>1 DEF KptTyped
<1>3. \A f \in DOMAIN Fields :
         /\ marks'[f] = IF Fields[f].file = file /\ marks[f] = Old THEN Unmarked
                        ELSE marks[f]
         /\ Original(f) => Original(f)'
  BY <1>1 DEF KptTyped, Original, Old, Unmarked
<1>4. MarkedSoFar' /\ DefinedSoFar'
  <2>1. Executed' = Executed
    BY <1>1 DEF Executed
  <2>2. /\ \A f, i : TouchedLast(f, i)' <=> TouchedLast(f, i)
        /\ \A i : DefinedLast(i)' <=> DefinedLast(i)
    BY <1>1, <2>1 DEF TouchedLast, DefinedLast
  <2>3. \A i \in 1 .. Executed : ~Restores(Commands[i]) => Commands[i].name # Old
    BY ThePackage DEF KptTyped, Executed, Range
  <2> QED
    BY <1>1, <1>3, <2>1, <2>2, <2>3 DEF MarkedSoFar, DefinedSoFar
<1>5. Kept'
  <2>1. ASSUME NEW f \in DOMAIN Fields, Untouched(package, Fields[f]),
               stripped' \/ (use' = "strip" /\ Fields[f].file \notin step')
        PROVE  marks'[f] # Old
    <3>1. CASE Fields[f].file = file
      <4>1. marks'[f] = IF marks[f] = Old THEN Unmarked ELSE marks[f]
        BY <1>3, <3>1
      <4>2. Old # Unmarked
        BY DEF Old, Unmarked
      <4> QED
        BY <4>1, <4>2
    <3>2. CASE Fields[f].file # file
      <4>1. stripped \/ Fields[f].file \notin step
        BY <2>1, <3>2
      <4> QED
        BY <1>3, <2>1, <3>2, <4>1 DEF Kept
    <3> QED
      BY <3>1, <3>2
  <2> QED
    BY <1>1, <1>3, <2>1 DEF Kept
<1>6. DataRight'
  BY DataStay
<1> QED
  BY <1>2, <1>4, <1>5, <1>6

LEMMA StripDiesKeeps == KptInv /\ StripDies => KptInv'
<1> SUFFICES ASSUME KptInv, StripDies
             PROVE  KptInv'
  OBVIOUS
<1> USE DEF KptInv, StripDies, End
<1>1. Fields' = Fields /\ Commands' = Commands
  BY TheSame
<1>2. KptTyped'
  BY <1>1 DEF KptTyped
<1>3. MarkedSoFar' /\ DefinedSoFar'
  BY <1>1, MarksStay DEF Executed
<1>4. Kept' /\ DataRight'
  BY KeptStay, DataStay
<1> QED
  BY <1>2, <1>3, <1>4

LEMMA CreateKeeps == KptInv /\ Create => KptInv'
<1> SUFFICES ASSUME KptInv, Create
             PROVE  KptInv'
  OBVIOUS
<1> USE DEF KptInv, Create, Begin
<1>1. Fields' = Fields /\ Commands' = Commands
  BY TheSame
<1>2. KptTyped'
  <2>1. 1 \in 1 .. Len(Commands)
    BY ThePackage DEF KptTyped
  <2> QED
    BY <1>1, <2>1 DEF KptTyped
<1>3. MarkedSoFar' /\ DefinedSoFar'
  <2>1. Executed' = 0
    BY DEF Executed
  <2> QED
    BY <2>1 DEF MarkedSoFar, DefinedSoFar, TouchedLast, DefinedLast
<1>4. Kept' /\ DataRight'
  BY KeptStay, DataStay
<1> QED
  BY <1>2, <1>3, <1>4

\* A command: it makes what its mark and its name mean, and disturbs only what an
\* earlier one made of the same field or name.
LEMMA ExecuteKeeps ==
  ASSUME KptTyped, Kept, NEW i \in 1 .. Len(Commands), Execute(Commands[i]),
         package' = package, stripped' = stripped, use # "strip", use' # "strip"
  PROVE  /\ marks' = [f \in DOMAIN Fields |-> marks'[f]]
         /\ kptfile' = [defs |-> kptfile'.defs, values |-> kptfile'.values]
         /\ Kept'
         /\ \A f \in DOMAIN Fields : Touches(Commands[i], Fields[f]) =>
               \/ Fields[f].file \in lost'
               \/ marks'[f] = IF Restores(Commands[i]) THEN Fields[f].mark
                              ELSE Commands[i].name
         /\ \A f \in DOMAIN Fields : ~Touches(Commands[i], Fields[f]) =>
               /\ marks'[f] = marks[f]
               /\ Fields[f].file \in lost => Fields[f].file \in lost'
         /\ ~Restores(Commands[i]) =>
               /\ Commands[i].name \in DOMAIN kptfile'.defs
               /\ kptfile'.defs[Commands[i].name] = Commands[i].pattern
         /\ \A n \in DOMAIN kptfile.defs : ~Defines(Commands[i], n) =>
               n \in DOMAIN kptfile'.defs /\ kptfile'.defs[n] = kptfile.defs[n]
<1> DEFINE c == Commands[i]
<1>1. /\ Fields' = Fields /\ Commands' = Commands
      /\ \A f \in DOMAIN Fields :
            Untouched(package, Fields[f])' <=> Untouched(package, Fields[f])
  BY TheSame
<1>2. /\ c \in Range(Commands)
      /\ ~Restores(c) => c.name \notin {Old, Unmarked}
      /\ \A f, g \in DOMAIN Fields :
            Fields[f].file = Fields[g].file => Fields[f].dir = Fields[g].dir
  <2>1. package \in DOMAIN Packages
    BY DEF KptTyped
  <2>2. c \in Range(Commands)
    BY <2>1, ThePackage DEF Range
  <2> QED
    BY <2>1, <2>2, ThePackage
<1>3. DOMAIN marks = DOMAIN Fields
  BY DEF KptTyped
<1> HIDE DEF c
<1>4. CASE Restores(c)
  <2>1. /\ marks' = Restored(c) /\ kptfile' = kptfile
        /\ lost' = lost \ {Fields[f].file :
                              f \in {g \in DOMAIN Fields : Touches(c, Fields[g])}}
    BY <1>4 DEF Execute, c
  <2>2. \A f \in DOMAIN Fields :
           marks'[f] = IF Touches(c, Fields[f]) THEN Fields[f].mark ELSE marks[f]
    BY <1>3, <2>1 DEF Restored
  <2>3. ASSUME NEW f \in DOMAIN Fields, ~Touches(c, Fields[f]), Fields[f].file \in lost
        PROVE  Fields[f].file \in lost'
    <3>1. ASSUME NEW g \in DOMAIN Fields, Touches(c, Fields[g])
          PROVE  Fields[g].file # Fields[f].file
      BY <1>2, <1>4, <2>3, <3>1 DEF Touches
    <3> QED
      BY <2>1, <2>3, <3>1
  <2>4. marks' = [f \in DOMAIN Fields |-> marks'[f]]
    BY <1>3, <2>1 DEF Restored
  <2>5. \A f \in DOMAIN Fields : Untouched(package, Fields[f]) => marks'[f] = marks[f]
    BY <1>2, <2>2 DEF Untouched, Commands
  <2>6. Kept'
    BY <1>1, <2>1, <2>5 DEF Kept, Original
  <2> QED
    BY <1>4, <2>1, <2>2, <2>3, <2>4, <2>6 DEF KptTyped, Defines, c
<1>5. CASE ~Restores(c)
  <2>1. marks' = Marked(c) /\ kptfile' = Defined(c) /\ lost' = lost
    BY <1>5 DEF Execute, c
  <2>2. \A f \in DOMAIN Fields :
           marks'[f] = IF Touches(c, Fields[f]) /\ Fields[f].file \notin lost
                       THEN c.name ELSE marks[f]
    BY <1>3, <2>1 DEF Marked
  <2>3. marks' = [f \in DOMAIN Fields |-> marks'[f]]
    BY <1>3, <2>1 DEF Marked
  <2>4. /\ kptfile' = [defs |-> kptfile'.defs, values |-> kptfile'.values]
        /\ kptfile'.defs = Put(kptfile.defs, c.name, c.pattern)
    BY <2>1 DEF Defined
  <2>5. /\ DOMAIN kptfile'.defs = {c.name} \cup DOMAIN kptfile.defs
        /\ kptfile'.defs[c.name] = c.pattern
        /\ \A n \in DOMAIN kptfile.defs : n # c.name => kptfile'.defs[n] = kptfile.defs[n]
    BY <2>4 DEF Put
  <2>6. \A f \in DOMAIN Fields : Untouched(package, Fields[f]) => marks'[f] = marks[f]
    BY <1>2, <2>2 DEF Untouched, Commands
  <2>7. \A n : (\A d \in Range(Commands) : ~Defines(d, n)) => n # c.name
    BY <1>2, <1>5 DEF Defines
  <2>8. Kept'
    <3>1. \A f \in DOMAIN Fields : Untouched(package, Fields[f]) =>
             /\ Original(f)'
             /\ stripped => marks'[f] # Old
      BY <1>1, <2>6 DEF Kept, Original
    <3>2. DOMAIN kptfile'.defs \cap {Old, Unmarked} = {}
      BY <1>2, <1>5, <2>5 DEF Kept
    <3>3. ASSUME NEW n \in DOMAIN Packages[package].defs,
                 \A d \in Range(Commands) : ~Defines(d, n)
          PROVE  n \in DOMAIN kptfile'.defs /\ kptfile'.defs[n] = Packages[package].defs[n]
      BY <2>5, <2>7, <3>3 DEF Kept
    <3> QED
      BY <1>1, <3>1, <3>2, <3>3 DEF Kept
  <2> QED
    BY <1>5, <2>1, <2>2, <2>3, <2>4, <2>5, <2>8 DEF Defines, c
<1> QED
  BY <1>4, <1>5

LEMMA CommandKeeps == KptInv /\ Command => KptInv'
<1> SUFFICES ASSUME KptInv, Command
             PROVE  KptInv'
  OBVIOUS
<1> USE DEF KptInv, Command, End
<1>1. Fields' = Fields /\ Commands' = Commands
  BY TheSame
<1>2. /\ step \in 1 .. Len(Commands) /\ Len(Commands) \in Nat
      /\ Executed = step - 1 /\ Executed' = step
  BY <1>1, ThePackage DEF KptTyped, Executed
<1> DEFINE c == Commands[step]
<1>3. /\ marks' = [f \in DOMAIN Fields |-> marks'[f]]
      /\ kptfile' = [defs |-> kptfile'.defs, values |-> kptfile'.values]
      /\ Kept'
      /\ \A f \in DOMAIN Fields : Touches(c, Fields[f]) =>
            \/ Fields[f].file \in lost'
            \/ marks'[f] = IF Restores(c) THEN Fields[f].mark ELSE c.name
      /\ \A f \in DOMAIN Fields : ~Touches(c, Fields[f]) =>
            /\ marks'[f] = marks[f]
            /\ Fields[f].file \in lost => Fields[f].file \in lost'
      /\ ~Restores(c) => /\ c.name \in DOMAIN kptfile'.defs
                         /\ kptfile'.defs[c.name] = c.pattern
      /\ \A n \in DOMAIN kptfile.defs : ~Defines(c, n) =>
            n \in DOMAIN kptfile'.defs /\ kptfile'.defs[n] = kptfile.defs[n]
  BY <1>2, ExecuteKeeps
<1> HIDE DEF c
<1>4. KptTyped'
  <2>1. use' = "create" => step' \in 1 .. Len(Commands) /\ ~complete'
    BY <1>2 DEF KptTyped
  <2> QED
    BY <1>1, <1>3, <2>1 DEF KptTyped
<1>5. MarkedSoFar'
  <2>1. ASSUME NEW f \in DOMAIN Fields, NEW i \in 1 .. step, TouchedLast(f, i)'
        PROVE  \/ Fields[f].file \in lost'
               \/ IF Restores(Commands[i]) THEN Original(f)'
                  ELSE marks'[f] = Commands[i].name
    <3>1. /\ Touches(Commands[i], Fields[f])
          /\ \A j \in 1 .. step : j > i => ~Touches(Commands[j], Fields[f])
      BY <1>1, <1>2, <2>1 DEF TouchedLast
    <3>2. CASE i = step
      BY <1>1, <1>3, <3>1, <3>2 DEF Original, c
    <3>3. CASE i # step
      <4>1. i \in 1 .. Executed /\ TouchedLast(f, i) /\ ~Touches(c, Fields[f])
        BY <1>2, <3>1, <3>3 DEF TouchedLast, c
      <4>2. \/ Fields[f].file \in lost
            \/ IF Restores(Commands[i]) THEN Original(f) ELSE marks[f] = Commands[i].name
        BY <4>1 DEF MarkedSoFar
      <4> QED
        BY <1>1, <1>3, <4>1, <4>2 DEF Original
    <3> QED
      BY <3>2, <3>3
  <2> QED
    BY <1>1, <1>2, <2>1 DEF MarkedSoFar
<1>6. DefinedSoFar'
  <2>1. ASSUME NEW i \in 1 .. step, DefinedLast(i)'
        PROVE  /\ Commands[i].name \in DOMAIN kptfile'.defs
               /\ kptfile'.defs[Commands[i].name] = Commands[i].pattern
    <3>1. /\ ~Restores(Commands[i])
          /\ \A j \in 1 .. step : j > i => ~Defines(Commands[j], Commands[i].name)
      BY <1>1, <1>2, <2>1 DEF DefinedLast
    <3>2. CASE i = step
      BY <1>3, <3>1, <3>2 DEF c
    <3>3. CASE i # step
      <4>1. i \in 1 .. Executed /\ DefinedLast(i) /\ ~Defines(c, Commands[i].name)
        BY <1>2, <3>1, <3>3 DEF DefinedLast, c
      <4>2. /\ Commands[i].name \in DOMAIN kptfile.defs
            /\ kptfile.defs[Commands[i].name] = Commands[i].pattern
        BY <4>1 DEF DefinedSoFar
      <4> QED
        BY <1>3, <4>1, <4>2
    <3> QED
      BY <3>2, <3>3
  <2> QED
    BY <1>1, <1>2, <2>1 DEF DefinedSoFar
<1>7. DataRight'
  BY DataStay
<1> QED
  BY <1>3, <1>4, <1>5, <1>6, <1>7

LEMMA CommandFailsKeeps == KptInv /\ CommandFails => KptInv'
<1> SUFFICES ASSUME KptInv, CommandFails
             PROVE  KptInv'
  OBVIOUS
<1> USE DEF KptInv, CommandFails, End
<1>1. Fields' = Fields /\ Commands' = Commands
  BY TheSame
<1>2. /\ marks' = [f \in DOMAIN Fields |-> marks'[f]]
      /\ kptfile' = [defs |-> kptfile'.defs, values |-> kptfile'.values]
      /\ Kept'
  <2>1. CASE Execute(Commands[step])
    <3>1. step \in 1 .. Len(Commands)
      BY DEF KptTyped
    <3> QED
      BY <2>1, <3>1, ExecuteKeeps
  <2>2. CASE UNCHANGED <<marks, kptfile, lost>>
    BY <1>1, <2>2, KeptStay DEF KptTyped
  <2> QED
    BY <2>1, <2>2
<1>3. KptTyped'
  BY <1>1, <1>2 DEF KptTyped
<1>4. MarkedSoFar' /\ DefinedSoFar'
  <2>1. Executed' = 0
    BY DEF Executed, KptTyped
  <2> QED
    BY <2>1 DEF MarkedSoFar, DefinedSoFar, TouchedLast, DefinedLast
<1>5. DataRight'
  BY DataStay
<1> QED
  BY <1>2, <1>3, <1>4, <1>5

LEMMA CopyDataKeeps == KptInv /\ Copy => KptInv'
<1> SUFFICES ASSUME KptInv, Copy
             PROVE  KptInv'
  OBVIOUS
<1> USE DEF Copy, Begin
<1>1. /\ Fields' = Fields /\ Commands' = Commands /\ package \in DOMAIN Packages
      /\ KptTyped /\ MarkedSoFar /\ DefinedSoFar /\ Kept
  BY TheSame DEF KptInv, KptTyped
<1>2. KptTyped'
  BY <1>1, TestValuesAreRight DEF KptTyped
<1>3. MarkedSoFar' /\ DefinedSoFar' /\ Kept'
  <2>1. Executed' = Executed
    BY <1>1 DEF Executed
  <2> QED
    BY <1>1, <2>1, MarksStay, KeptStay
<1> DEFINE inV2 == {g \in DOMAIN Fields : Fields[g].dir = "gcp/v2"}
<1>4. /\ data'.set = 0 /\ data'.whole = complete /\ data'.lost = lost
      /\ data'.marks = marks /\ data'.kptfile = kptfile
      /\ data'.fields = [f \in inV2 |-> Fields[f].value]
      /\ DataShaped'
  BY <1>1 DEF KptTyped, DataShaped
<1>5. ASSUME complete, NEW f \in inV2, Fields[f].file \notin lost
      PROVE  DataField(f)'
  <2>1. /\ f \in DOMAIN Fields /\ Fields[f].dir \notin Range(Upstream)
        /\ SetSoFar' = {}
    BY <1>4 DEF Upstream, Range, SetSoFar
  <2>2. FieldOK(package, Fields[f])
    BY <1>1, <2>1, ThePackage
  <2>3. CASE Fields[f].means = << >>
    <3>1. marks[f] = Unmarked \/ marks[f] = Fields[f].mark
      BY <1>5, <2>1, <2>3, MarksFollow DEF MarksAreRight
    <3>2. Fields[f].mark \in {Old, Unmarked}
      BY <2>1, <2>2, <2>3 DEF FieldOK
    <3>3. marks[f] \notin DOMAIN kptfile.defs
      BY <1>1, <3>1, <3>2 DEF Kept
    <3> QED
      BY <1>1, <1>4, <2>3, <3>3 DEF DataField
  <2>4. CASE Fields[f].means # << >>
    <3>1. /\ marks[f] \in DOMAIN kptfile.defs
          /\ kptfile.defs[marks[f]] = Fields[f].means
      BY <1>5, <2>1, <2>4, MarksFollow DEF MarksAreRight
    <3> QED
      BY <1>1, <1>4, <2>1, <2>4, <3>1 DEF DataField
  <2> QED
    BY <2>3, <2>4
<1>6. DataRight'
  BY <1>1, <1>4, <1>5, TestValuesAreRight DEF DataRight
<1> QED
  BY <1>2, <1>3, <1>6 DEF KptInv

\* What kpt cfg set makes of the data.
LEMMA SetDataMakes ==
  ASSUME DataShaped, NEW s \in DOMAIN data.kptfile.values, NEW v, NEW d,
         d = SetData(s, v)
  PROVE  /\ DOMAIN d = DOMAIN data /\ DOMAIN d.kptfile = DOMAIN data.kptfile
         /\ d.set = step /\ d.whole = data.whole /\ d.lost = data.lost
         /\ d.marks = data.marks /\ d.kptfile.defs = data.kptfile.defs
         /\ d.fields = [f \in DOMAIN data.fields |->
                          IF /\ data.marks[f] \in DOMAIN data.kptfile.defs
                             /\ s \in Used(data.kptfile.defs[data.marks[f]])
                          THEN Fill(data.kptfile.defs[data.marks[f]], d.kptfile.values)
                          ELSE data.fields[f]]
         /\ DOMAIN d.kptfile.values = DOMAIN data.kptfile.values
         /\ d.kptfile.values[s] = v
         /\ \A x \in DOMAIN data.kptfile.values :
               x # s => d.kptfile.values[x] = data.kptfile.values[x]
<1> DEFINE new == Put(data.kptfile.values, s, v)
           fields == [f \in DOMAIN data.fields |->
                        IF /\ data.marks[f] \in DOMAIN data.kptfile.defs
                           /\ s \in Used(data.kptfile.defs[data.marks[f]])
                        THEN Fill(data.kptfile.defs[data.marks[f]], new)
                        ELSE data.fields[f]]
<1>1. /\ DOMAIN new = DOMAIN data.kptfile.values /\ new[s] = v
      /\ \A x \in DOMAIN data.kptfile.values : x # s => new[x] = data.kptfile.values[x]
  BY DEF Put
<1>2. d = [data EXCEPT !.kptfile.values = new, !.set = step, !.fields = fields]
  BY DEF SetData
<1> HIDE DEF new, fields
<1>3. /\ DOMAIN d = DOMAIN data /\ DOMAIN d.kptfile = DOMAIN data.kptfile
      /\ d.set = step /\ d.whole = data.whole /\ d.lost = data.lost
      /\ d.marks = data.marks /\ d.kptfile.defs = data.kptfile.defs
      /\ d.fields = fields /\ d.kptfile.values = new
  BY <1>2 DEF DataShaped
<1> QED
  BY <1>1, <1>3 DEF fields

LEMMA SetKeeps == KptInv /\ Set => KptInv'
<1> SUFFICES ASSUME KptInv, Set
             PROVE  KptInv'
  OBVIOUS
<1> USE DEF End
<1>1. /\ Fields' = Fields /\ Commands' = Commands /\ package \in DOMAIN Packages
      /\ use = "set" /\ step \in 1 .. 8 /\ data.set = step - 1
      /\ UNCHANGED <<package, marks, kptfile, lost, stripped, complete>>
  BY TheSame, TestValuesAreRight DEF KptInv, KptTyped, DataRight, Set
<1>2. /\ use' \in {"set", "none"}
      /\ use' = "set" => step' = step + 1 /\ step < 8
  BY <1>1, TestValuesAreRight DEF Set
<1>3. KptTyped' /\ MarkedSoFar' /\ DefinedSoFar' /\ Kept'
  <2>1. KptTyped'
    BY <1>1, <1>2, TestValuesAreRight DEF KptInv, KptTyped
  <2>2. Executed' = Executed
    BY <1>1, <1>2 DEF Executed
  <2> QED
    BY <1>1, <1>2, <2>1, <2>2, MarksStay, KeptStay DEF KptInv
<1>4. ASSUME TestValues[step][1] \notin DOMAIN data.kptfile.values
      PROVE  DataRight'
  BY <1>1, <1>4, DataStay DEF Set, KptInv
<1>5. ASSUME TestValues[step][1] \in DOMAIN data.kptfile.values
      PROVE  DataRight'
  <2> DEFINE s == TestValues[step][1]
             v == TestValues[step][2]
             old == data.kptfile.values
             new == data'.kptfile.values
  <2>1. /\ data' = SetData(s, v)
        /\ use' = "set" => step' = step + 1
    BY <1>5 DEF Set
  <2>2. /\ DataShaped
        /\ DOMAIN data.fields \subseteq DOMAIN Fields
        /\ \A j \in 1 .. step - 1 : /\ TestValues[j][1] \in DOMAIN old
                                    /\ old[TestValues[j][1]] = TestValues[j][2]
        /\ data.whole /\ Setters \subseteq DOMAIN old =>
              \A f \in DOMAIN data.fields : Fields[f].file \in data.lost \/ DataField(f)
    BY <1>1 DEF KptInv, DataRight
  <2> HIDE DEF s, v
  <2>3. /\ DOMAIN data' = DOMAIN data /\ DOMAIN data'.kptfile = DOMAIN data.kptfile
        /\ data'.set = step /\ data'.whole = data.whole /\ data'.lost = data.lost
        /\ data'.marks = data.marks /\ data'.kptfile.defs = data.kptfile.defs
        /\ data'.fields = [f \in DOMAIN data.fields |->
                             IF /\ data.marks[f] \in DOMAIN data.kptfile.defs
                                /\ s \in Used(data.kptfile.defs[data.marks[f]])
                             THEN Fill(data.kptfile.defs[data.marks[f]], new)
                             ELSE data.fields[f]]
        /\ DOMAIN new = DOMAIN old
        /\ new[s] = v
        /\ \A x \in DOMAIN old : x # s => new[x] = old[x]
    <3>1. s \in DOMAIN data.kptfile.values
      BY <1>5 DEF s
    <3> QED
      BY <2>1, <2>2, <3>1, SetDataMakes
  <2> HIDE DEF old, new
  <2>4. /\ data'.set = step /\ data'.whole = data.whole /\ data'.lost = data.lost
        /\ data'.marks = data.marks /\ data'.kptfile.defs = data.kptfile.defs
        /\ DOMAIN data'.fields = DOMAIN data.fields
        /\ data'.kptfile.values = new
    BY <2>3 DEF new
  <2>5. ASSUME NEW j \in 1 .. step
        PROVE  TestValues[j][1] \in DOMAIN new /\ new[TestValues[j][1]] = TestValues[j][2]
    <3>1. CASE j = step
      BY <1>5, <2>3, <3>1 DEF s, v, old
    <3>2. CASE j # step
      <4>1. j \in 1 .. step - 1 /\ j \in 1 .. 8 /\ step \in 1 .. 8
        BY <1>1, <3>2
      <4>2. TestValues[j][1] # s
        BY <3>2, <4>1, TestValuesAreRight DEF s
      <4> QED
        BY <2>2, <2>3, <4>1, <4>2
    <3> QED
      BY <3>1, <3>2
  <2>6. ASSUME data.whole, Setters \subseteq DOMAIN new, NEW f \in DOMAIN data.fields,
               Fields[f].file \notin data.lost
        PROVE  DataField(f)'
    <3>1. DataField(f) /\ Setters \subseteq DOMAIN old
      BY <2>2, <2>3, <2>6
    <3>2. SetSoFar' = SetSoFar \cup {s}
      <4>1. 1 .. step = (1 .. step - 1) \cup {step}
        BY <1>1
      <4> QED
        BY <1>1, <2>4, <4>1 DEF SetSoFar, s
    <3>3. CASE Fields[f].means = << >>
      BY <1>1, <2>3, <2>4, <3>1, <3>3 DEF DataField
    <3>4. CASE Fields[f].means # << >>
      <4> DEFINE means == Fields[f].means
      <4>1. /\ data.marks[f] \in DOMAIN data.kptfile.defs
            /\ data.kptfile.defs[data.marks[f]] = means
            /\ data.fields[f] = IF Used(means) \cap SetSoFar = {} THEN Fields[f].value
                                ELSE Fill(means, old)
        BY <3>1, <3>4 DEF DataField, old
      <4>2. data'.fields[f] = IF s \in Used(means) THEN Fill(means, new)
                              ELSE data.fields[f]
        BY <2>3, <4>1
      <4>3. s \notin Used(means) => Fill(means, old) = Fill(means, new)
        <5>1. means \in Seq(STRING)
          BY <1>1, <2>2, ThePackage
        <5> HIDE DEF means
        <5> QED
          BY <2>3, <3>1, <5>1, FillAgrees, UsedAreSetters
      <4>4. data'.fields[f] = IF Used(means) \cap SetSoFar' = {} THEN Fields[f].value
                              ELSE Fill(means, new)
        BY <3>2, <4>1, <4>2, <4>3
      <4> QED
        BY <1>1, <2>4, <3>4, <4>1, <4>4 DEF DataField
    <3> QED
      BY <3>3, <3>4
  <2>7. data'.fields = [f \in DOMAIN data'.fields |-> data'.fields[f]]
    BY <2>3
  <2>8. /\ data'.set \in Nat
        /\ use' = "set" => data'.set = step' - 1
        /\ data'.set <= Len(TestValues)
    BY <1>1, <2>1, <2>4, TestValuesAreRight
  <2>9. DataShaped'
    BY <2>2, <2>3 DEF DataShaped
  <2> QED
    BY <1>1, <2>2, <2>4, <2>5, <2>6, <2>7, <2>8, <2>9 DEF DataRight
<1> QED
  BY <1>3, <1>4, <1>5 DEF KptInv

LEMMA SetFailsKeeps == KptInv /\ SetFails => KptInv'
<1> SUFFICES ASSUME KptInv, SetFails
             PROVE  KptInv'
  OBVIOUS
<1> USE DEF KptInv, SetFails, End
<1>1. Fields' = Fields /\ Commands' = Commands
  BY TheSame
<1>2. KptTyped'
  BY <1>1 DEF KptTyped
<1>3. MarkedSoFar' /\ DefinedSoFar'
  BY <1>1, MarksStay DEF Executed
<1>4. Kept' /\ DataRight'
  BY KeptStay, DataStay
<1> QED
  BY <1>2, <1>3, <1>4

LEMMA KptStutters == KptInv /\ UNCHANGED kptVars => KptInv'
<1> SUFFICES ASSUME KptInv, UNCHANGED kptVars
             PROVE  KptInv'
  OBVIOUS
<1> USE DEF kptVars
<1>1. Fields' = Fields /\ Commands' = Commands
  BY TheSame
<1>2. KptTyped'
  BY <1>1 DEF KptInv, KptTyped
<1>3. MarkedSoFar' /\ DefinedSoFar'
  BY <1>1, MarksStay DEF KptInv, Executed
<1>4. Kept'
  <2>1. \A f \in DOMAIN Fields :
           Untouched(package, Fields[f])' <=> Untouched(package, Fields[f])
    BY TheSame
  <2> QED
    BY <1>1, <2>1 DEF KptInv, Kept, Original
<1>5. DataRight'
  BY DataStay DEF KptInv
<1> QED
  BY <1>2, <1>3, <1>4, <1>5 DEF KptInv

LEMMA KptSafe == KptSpec => []KptInv
<1>1. KptInv /\ [KptNext]_kptVars => KptInv'
  BY CheckoutKeeps, StripKeeps, StripFileKeeps, StripDiesKeeps, CreateKeeps,
     CommandKeeps, CommandFailsKeeps, CopyDataKeeps, SetKeeps, SetFailsKeeps, KptStutters
     DEF KptNext
<1> QED
  BY InitKpt, <1>1, PTL DEF KptSpec

\* Whatever the packages are that meet the assumption, and however often their
\* scripts are run, die and are run again: when one has ended well, each field has
\* the mark of its meaning (create_kptfile.py 31-57, 94-351).
THEOREM MarksAreAlwaysRight == KptSpec => []MarksAreRight
BY KptSafe, MarksFollow, PTL

\* And the test data that are made after that show the new values, however often
\* the second script has died before (generate_gcp_kpt_data.py 20-53).
THEOREM TestDataAreAlwaysRight == KptSpec => []TestDataAreRight
BY KptSafe, DataFollow, PTL

=============================================================================
