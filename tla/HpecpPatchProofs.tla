-------------------------- MODULE HpecpPatchProofs --------------------------
(***************************************************************************)
(* For all names, backoff limits and bounds on the edits: the type         *)
(* invariant, DuplicatesAreExplained, OthersKept and SuccessIsMention.     *)
(*                                                                         *)
(* A pod that has looked may append, so the count of the entries is only   *)
(* inductive together with the pods that are about to append (Counted).    *)
(* That these are few follows from how the controller starts pods: at most *)
(* one pod runs on a node that answers (InTurn).                           *)
(***************************************************************************)
EXTENDS HpecpPatch, FiniteSetTheorems, SequenceTheorems, TLAPS

Patching == {p \in Pods : pods[p].pc = "patch"}

Lost == {p \in Pods : pods[p].lost}

\* The controller starts the pods one after the other.
InTurn == \A p \in Pods : /\ ~Idle(pods[p]) => \A q \in 1 .. (p - 1) : q \in Failures(pods)
                          /\ Idle(pods[p]) => ~pods[p].lost

\* The entries that are there, and those that may still come.
Counted == Cardinality(Own) + Cardinality(Patching) <= 1 + edits + Cardinality(Lost)

IInv == TypeOK /\ InTurn /\ Counted

-----------------------------------------------------------------------------
(* Facts about sequences and the sets that are counted.                    *)

\* The places of a list that hold the entry.
Places(s) == {i \in DOMAIN s : s[i] = "kf-dashboard"}

\* What an append adds, and what it leaves.
LEMMA Appended ==
    ASSUME NEW S, NEW s \in Seq(S), NEW e \in S, IsFiniteSet(Places(s))
    PROVE  /\ IsFiniteSet(Places(Append(s, e)))
           /\ Cardinality(Places(Append(s, e))) <= Cardinality(Places(s)) + 1
  <1> DEFINE O == Places(s)
             N == Places(Append(s, e))
  <1>1. /\ DOMAIN s = 1 .. Len(s) /\ DOMAIN Append(s, e) = 1 .. (Len(s) + 1)
        /\ \A i \in DOMAIN s : Append(s, e)[i] = s[i] /\ i # Len(s) + 1
        /\ Len(s) \in Nat
    OBVIOUS
  <1> DEFINE M == O \cup {Len(s) + 1}
  <1>2. N \subseteq M
    BY <1>1 DEF Places
  <1>3. IsFiniteSet(M) /\ Cardinality(M) = IF Len(s) + 1 \in O THEN Cardinality(O)
                                                             ELSE Cardinality(O) + 1
    BY FS_AddElement
  <1>4. Cardinality(O) \in Nat /\ Cardinality(M) \in Nat
    BY <1>3, FS_CardinalityType
  <1> HIDE DEF M
  <1>5. IsFiniteSet(N) /\ Cardinality(N) <= Cardinality(M)
    BY <1>2, <1>3, FS_Subset
  <1>6. Cardinality(N) \in Nat
    BY <1>5, FS_CardinalityType
  <1>7. Cardinality(M) <= Cardinality(O) + 1
    BY <1>3, <1>4
  <1>8. Cardinality(N) <= Cardinality(O) + 1
    <2> DEFINE n == Cardinality(N)
               m == Cardinality(M)
               o == Cardinality(O)
    <2>1. n \in Nat /\ m \in Nat /\ o \in Nat /\ n <= m /\ m <= o + 1
      BY <1>4, <1>5, <1>6, <1>7
    <2> HIDE DEF n, m, o
    <2>2. n <= o + 1
      BY <2>1
    <2> QED BY <2>2 DEF n, o
  <1> QED BY <1>5, <1>8

\* A removal adds nothing.
LEMMA Removed ==
    ASSUME NEW S, NEW s \in Seq(S), NEW k \in DOMAIN s, IsFiniteSet(Places(s))
    PROVE  /\ RemoveAt(s, k) \in Seq(S)
           /\ IsFiniteSet(Places(RemoveAt(s, k)))
           /\ Cardinality(Places(RemoveAt(s, k))) <= Cardinality(Places(s))
  <1> DEFINE O == Places(s)
             N == Places(RemoveAt(s, k))
             a == SubSeq(s, 1, k - 1)
             b == SubSeq(s, k + 1, Len(s))
             t == RemoveAt(s, k)
             f == [j \in N |-> IF j < k THEN j ELSE j + 1]
  <1>1. Len(s) \in Nat /\ k \in 1 .. Len(s) /\ DOMAIN s = 1 .. Len(s)
    OBVIOUS
  <1>2. /\ a \in Seq(S) /\ Len(a) = k - 1
        /\ \A j \in 1 .. (k - 1) : a[j] = s[j]
    <2>1. \A i \in 1 .. (k - 1) : s[i] \in S
      BY <1>1
    <2> QED BY <1>1, <2>1, SubSeqProperties
  <1>3. /\ b \in Seq(S) /\ Len(b) = Len(s) - k
        /\ \A j \in 1 .. (Len(s) - k) : b[j] = s[k + j]
    <2>1. \A i \in (k + 1) .. Len(s) : s[i] \in S
      BY <1>1
    <2>2. /\ b \in Seq(S)
          /\ Len(b) = IF k + 1 <= Len(s) THEN Len(s) - (k + 1) + 1 ELSE 0
          /\ \A j \in 1 .. (Len(s) - (k + 1) + 1) : b[j] = s[(k + 1) + j - 1]
      BY <1>1, <2>1, SubSeqProperties
    <2> HIDE DEF b
    <2>3. \A j \in 1 .. (Len(s) - k) :
             j \in 1 .. (Len(s) - (k + 1) + 1) /\ (k + 1) + j - 1 = k + j
      BY <1>1
    <2>4. Len(b) = Len(s) - k
      BY <1>1, <2>2
    <2> QED BY <2>2, <2>3, <2>4
  <1>4. t = a \o b
    BY DEF RemoveAt
  <1> HIDE DEF a, b, t
  <1>8. /\ t \in Seq(S) /\ Len(t) = Len(a) + Len(b)
        /\ \A i \in 1 .. (Len(a) + Len(b)) :
              t[i] = IF i <= Len(a) THEN a[i] ELSE b[i - Len(a)]
    BY <1>2, <1>3, <1>4, ConcatProperties
  <1>5. /\ t \in Seq(S) /\ Len(t) = Len(s) - 1 /\ DOMAIN t = 1 .. (Len(s) - 1)
        /\ \A j \in 1 .. (Len(s) - 1) : t[j] = IF j < k THEN s[j] ELSE s[j + 1]
    <2>1. t \in Seq(S) /\ Len(t) = Len(s) - 1 /\ DOMAIN t = 1 .. (Len(s) - 1)
      BY <1>1, <1>2, <1>3, <1>8
    <2>2. ASSUME NEW j \in 1 .. (Len(s) - 1), j < k PROVE t[j] = s[j]
      BY <1>1, <1>2, <1>3, <1>8, <2>2
    <2>3. ASSUME NEW j \in 1 .. (Len(s) - 1), ~(j < k) PROVE t[j] = s[j + 1]
      <3>1. j - (k - 1) \in 1 .. (Len(s) - k) /\ k + (j - (k - 1)) = j + 1
        BY <1>1, <2>3
      <3>2. t[j] = b[j - (k - 1)]
        BY <1>1, <1>2, <1>3, <1>8, <2>3
      <3> QED BY <1>3, <3>1, <3>2
    <2> QED BY <2>1, <2>2, <2>3
  <1>6. \A j \in N : j \in 1 .. (Len(s) - 1) /\ f[j] \in O
    BY <1>1, <1>5 DEF t, Places
  <1>7. f \in Injection(N, O)
    <2>1. f \in [N -> O]
      BY <1>6
    <2>2. \A i, j \in N : f[i] = f[j] => i = j
      BY <1>1, <1>6
    <2> QED BY <2>1, <2>2 DEF Injection, IsInjective
  <1> QED BY <1>5, <1>7, FS_Injection DEF t

\* The counted sets are finite.
Counts == /\ IsFiniteSet(Own) /\ IsFiniteSet(Patching) /\ IsFiniteSet(Lost)
          /\ Cardinality(Own) \in Nat /\ Cardinality(Patching) \in Nat
          /\ Cardinality(Lost) \in Nat /\ edits \in Nat
          /\ List \in Seq(Names)

LEMMA Finite == TypeOK => Counts
  <1> SUFFICES ASSUME TypeOK PROVE Counts
    OBVIOUS
  <1>1. IsFiniteSet(Pods)
    BY BackoffLimitAssumption, FS_Interval DEF Pods
  <1>2. IsFiniteSet(Patching) /\ IsFiniteSet(Lost)
    BY <1>1, FS_Subset DEF Patching, Lost
  <1>3. List \in Seq(Names)
    BY DEF TypeOK, List
  <1>4. IsFiniteSet(Own)
    <2>1. Own \subseteq 1 .. Len(List) /\ Len(List) \in Nat
      BY <1>3 DEF Own
    <2>2. IsFiniteSet(1 .. Len(List))
      BY <2>1, FS_Interval
    <2> QED BY <2>1, <2>2, FS_Subset
  <1>5. edits \in Nat
    BY HpecpPatchAssumption DEF TypeOK
  <1> QED BY <1>2, <1>3, <1>4, <1>5, FS_CardinalityType DEF Counts

LEMMA FiniteNext == TypeOK' => Counts'
  BY Finite, PTL

\* At most one pod is about to patch on a node that answers.
PatchingIsRare == Cardinality(Patching) <= 1 + Cardinality(Lost)

LEMMA PatchingInTurn == TypeOK /\ InTurn => PatchingIsRare
  <1> SUFFICES ASSUME TypeOK, InTurn PROVE PatchingIsRare
    OBVIOUS
  <1>1. \A p, q \in Patching \ Lost : p = q
    <2> SUFFICES ASSUME NEW p \in Patching \ Lost, NEW q \in Patching \ Lost, p < q
                 PROVE  FALSE
      BY BackoffLimitAssumption DEF Patching, Pods
    <2>1. ~Idle(pods[q]) /\ p \in 1 .. (q - 1) /\ q \in Pods
      BY BackoffLimitAssumption DEF Patching, Idle, Pods
    <2>2. p \in Failures(pods)
      BY <2>1 DEF InTurn
    <2> QED BY <2>2 DEF Failures, Patching, Lost
  <1>2. Cardinality(Patching) \in Nat /\ Cardinality(Lost) \in Nat /\ IsFiniteSet(Lost)
    BY Finite DEF Counts
  <1>3. PICK r : Patching \subseteq Lost \cup {r}
    <2>1. CASE Patching \subseteq Lost
      BY <2>1
    <2>2. CASE ~(Patching \subseteq Lost)
      <3>1. PICK r \in Patching \ Lost : TRUE
        BY <2>2
      <3> QED BY <3>1, <1>1
    <2> QED BY <2>1, <2>2
  <1>4. /\ IsFiniteSet(Lost \cup {r})
        /\ Cardinality(Lost \cup {r}) = IF r \in Lost THEN Cardinality(Lost)
                                                    ELSE Cardinality(Lost) + 1
    BY <1>2, FS_AddElement
  <1>5. Cardinality(Patching) <= Cardinality(Lost \cup {r})
    BY <1>3, <1>4, FS_Subset
  <1>6. Cardinality(Lost \cup {r}) \in Nat
    BY <1>4, FS_CardinalityType
  <1> QED BY <1>2, <1>4, <1>5, <1>6 DEF PatchingIsRare

LEMMA PatchingInTurnNext == TypeOK' /\ InTurn' => PatchingIsRare'
  BY PatchingInTurn, PTL

-----------------------------------------------------------------------------
\* The initial states satisfy the inductive invariant.
LEMMA InitIInv == Init => IInv
  <1> SUFFICES ASSUME Init PROVE IInv
    OBVIOUS
  <1>1. List \in {<< >>} \cup {<<n>> : n \in Names}
    BY DEF Init, List
  <1>2. TypeOK
    <2>1. imports \in Seq(Names) \cup {NoList}
      <3>1. \A n \in Names : <<n>> \in Seq(Names)
        OBVIOUS
      <3>2. << >> \in Seq(Names)
        OBVIOUS
      <3> QED BY <3>1, <3>2 DEF Init
    <2> QED BY <2>1, HpecpPatchAssumption DEF Init, TypeOK, NewPod
  <1>3. InTurn
    BY DEF Init, InTurn, NewPod, Idle
  <1>4. Counted
    <2>1. Patching = {} /\ Lost = {}
      BY DEF Init, Patching, Lost, NewPod
    <2>2. Own \subseteq {1}
      BY <1>1 DEF Own
    <2>3. Cardinality(Own) <= 1
      <3>1. IsFiniteSet({1}) /\ Cardinality({1}) = 1
        BY FS_Singleton
      <3> QED BY <2>2, <3>1, FS_Subset
    <2>4. Cardinality(Own) \in Nat
      BY <1>2, Finite DEF Counts
    <2>5. Cardinality(Patching) = 0 /\ Cardinality(Lost) = 0
      BY <2>1, FS_EmptySet
    <2>6. edits = 0
      BY DEF Init
    <2> QED BY <2>3, <2>4, <2>5, <2>6 DEF Counted
  <1> QED BY <1>2, <1>3, <1>4 DEF IInv

-----------------------------------------------------------------------------
(* What a step does to the pods.                                           *)

PodRecord == [pc   : {"idle", "check", "patch", "succeeded", "failed"},
              lost : BOOLEAN]

\* A pod moves on in its script.
LEMMA GotoMoves ==
    ASSUME TypeOK, InTurn, NEW p \in Pods,
           NEW x \in {"check", "patch", "succeeded", "failed"}, Goto(p, x),
           pods[p].pc # "failed",
           Idle(pods[p]) => \A q \in 1 .. (p - 1) : q \in Failures(pods)
    PROVE  /\ pods' \in [Pods -> PodRecord]
           /\ InTurn'
           /\ Lost' = Lost
           /\ Patching' = IF x = "patch" THEN Patching \cup {p} ELSE Patching \ {p}
  <1>1. pods \in [Pods -> PodRecord]
    BY DEF TypeOK, PodRecord
  <1>2. /\ pods' \in [Pods -> PodRecord]
        /\ pods'[p].pc = x /\ pods'[p].lost = pods[p].lost
        /\ \A q \in Pods \ {p} : pods'[q] = pods[q]
    BY <1>1 DEF Goto, PodRecord
  <1>3. \A q \in Pods : pods'[q].lost = pods[q].lost
    BY <1>2
  <1>4. Lost' = Lost
    BY <1>3 DEF Lost
  <1>5. Patching' = IF x = "patch" THEN Patching \cup {p} ELSE Patching \ {p}
    BY <1>2 DEF Patching
  <1>6. \A q \in Failures(pods) : q \in Failures(pods')
    BY <1>2, <1>3 DEF Failures
  <1>7. InTurn'
    <2> SUFFICES ASSUME NEW q \in Pods
                 PROVE  /\ ~Idle(pods'[q]) => \A r \in 1 .. (q - 1) : r \in Failures(pods')
                        /\ Idle(pods'[q]) => ~pods'[q].lost
      BY DEF InTurn, Pods
    <2>1. CASE q = p
      BY <1>2, <1>6, <2>1 DEF InTurn, Idle
    <2>2. CASE q # p
      BY <1>2, <1>6, <2>2 DEF InTurn
    <2> QED BY <2>1, <2>2
  <1> QED BY <1>2, <1>4, <1>5, <1>7

\* A pod's step that does not append keeps the invariant, if a pod that is
\* new among those about to patch has seen no entry.
LEMMA MoveKeeps ==
    ASSUME IInv, NEW p \in Pods,
           NEW x \in {"check", "patch", "succeeded", "failed"}, Goto(p, x),
           pods[p].pc # "failed",
           Idle(pods[p]) => \A q \in 1 .. (p - 1) : q \in Failures(pods),
           x = "patch" => ~Mentioned,
           UNCHANGED <<imports, edits>>
    PROVE  IInv'
  <1>1. TypeOK /\ InTurn /\ Counted
    BY DEF IInv
  <1>2. /\ pods' \in [Pods -> PodRecord] /\ InTurn' /\ Lost' = Lost
        /\ Patching' = IF x = "patch" THEN Patching \cup {p} ELSE Patching \ {p}
    BY <1>1, GotoMoves
  <1>3. TypeOK'
    BY <1>1, <1>2 DEF TypeOK, PodRecord
  <1>4. Own' = Own
    BY DEF Own, List
  <1>5. /\ Cardinality(Own) \in Nat /\ Cardinality(Patching) \in Nat
        /\ Cardinality(Lost) \in Nat /\ Cardinality(Patching') \in Nat
        /\ IsFiniteSet(Patching) /\ edits \in Nat
    BY <1>1, <1>3, Finite, FiniteNext DEF Counts
  <1>6. CASE x # "patch"
    <2>1. Patching' \subseteq Patching
      BY <1>2, <1>6
    <2>2. Cardinality(Patching') <= Cardinality(Patching)
      BY <1>5, <2>1, FS_Subset
    <2>3. Counted'
      BY <1>1, <1>2, <1>4, <1>5, <2>2 DEF Counted
    <2> QED BY <1>2, <1>3, <2>3 DEF IInv
  <1>7. CASE x = "patch"
    <2>1. Own = {}
      BY <1>7, HpecpPatchAssumption DEF Own, Mentioned
    <2>2. Cardinality(Own) = 0
      BY <2>1, FS_EmptySet
    <2>3. Cardinality(Patching)' <= 1 + Cardinality(Lost)'
      BY <1>2, <1>3, PatchingInTurnNext DEF PatchingIsRare
    <2>4. Counted'
      BY <1>2, <1>4, <1>5, <2>2, <2>3 DEF Counted
    <2> QED BY <1>2, <1>3, <2>4 DEF IInv
  <1> QED BY <1>6, <1>7

\* The patch: an entry more, and a pod less that may append.
LEMMA PatchKeeps ==
    ASSUME IInv, NEW p \in Pods, PatchImports(p)
    PROVE  IInv'
  <1>1. TypeOK /\ InTurn /\ Counted
    BY DEF IInv
  <1>2. PICK x \in {"succeeded", "failed"} : Goto(p, x)
    BY DEF PatchImports
  <1>3. /\ pods[p].pc = "patch" /\ imports # NoList /\ edits' = edits
        /\ imports' = Append(imports, "kf-dashboard")
    BY DEF PatchImports
  <1>4. /\ pods' \in [Pods -> PodRecord] /\ InTurn' /\ Lost' = Lost
        /\ Patching' = Patching \ {p}
    BY <1>1, <1>2, <1>3, GotoMoves DEF Idle
  <1>5. /\ imports \in Seq(Names) /\ imports' \in Seq(Names)
        /\ "kf-dashboard" \in Names
    BY <1>1, <1>3, HpecpPatchAssumption DEF TypeOK
  <1>6. TypeOK'
    BY <1>1, <1>3, <1>4, <1>5 DEF TypeOK, PodRecord
  <1>7. /\ IsFiniteSet(Own) /\ IsFiniteSet(Patching) /\ edits \in Nat
        /\ Cardinality(Own) \in Nat /\ Cardinality(Patching) \in Nat
        /\ Cardinality(Lost) \in Nat /\ Cardinality(Patching') \in Nat
        /\ Cardinality(Own)' \in Nat
    BY <1>1, <1>6, Finite, FiniteNext DEF Counts
  <1>8. Own = Places(imports) /\ Own' = Places(Append(imports, "kf-dashboard"))
    BY <1>3, <1>5, HpecpPatchAssumption DEF Own, List, Places
  <1>9. Cardinality(Own') <= Cardinality(Own) + 1
    BY <1>5, <1>7, <1>8, Appended
  <1>10. Cardinality(Patching') = Cardinality(Patching) - 1
    <2>1. p \in Patching
      BY <1>3 DEF Patching
    <2> QED BY <1>4, <1>7, <2>1, FS_RemoveElement
  <1>11. Counted'
    BY <1>1, <1>3, <1>4, <1>7, <1>9, <1>10 DEF Counted
  <1> QED BY <1>4, <1>6, <1>11 DEF IInv

\* A node is lost: one more that the count allows.
LEMMA LossKeeps ==
    ASSUME IInv, NEW p \in Pods, NodeLost(p)
    PROVE  IInv'
  <1>1. TypeOK /\ InTurn /\ Counted /\ pods \in [Pods -> PodRecord]
    BY DEF IInv, TypeOK, PodRecord
  <1>2. /\ pods' = [pods EXCEPT ![p].lost = TRUE] /\ UNCHANGED <<imports, edits>>
        /\ Running(pods[p]) /\ ~pods[p].lost
    BY DEF NodeLost
  <1>3. /\ pods' \in [Pods -> PodRecord]
        /\ pods'[p].lost
        /\ \A q \in Pods : pods'[q].pc = pods[q].pc
        /\ \A q \in Pods \ {p} : pods'[q] = pods[q]
    BY <1>1, <1>2 DEF PodRecord
  <1>4. TypeOK'
    BY <1>1, <1>2, <1>3 DEF TypeOK, PodRecord
  <1>5. InTurn'
    <2>1. \A q \in Failures(pods) : q \in Failures(pods')
      BY <1>3 DEF Failures
    <2>2. ~Idle(pods[p])
      BY <1>2 DEF Running
    <2> SUFFICES ASSUME NEW q \in Pods
                 PROVE  /\ ~Idle(pods'[q]) => \A r \in 1 .. (q - 1) : r \in Failures(pods')
                        /\ Idle(pods'[q]) => ~pods'[q].lost
      BY DEF InTurn, Pods
    <2>3. CASE q = p
      BY <1>1, <1>3, <2>1, <2>2, <2>3 DEF InTurn, Idle
    <2>4. CASE q # p
      BY <1>1, <1>3, <2>1, <2>4 DEF InTurn
    <2> QED BY <2>3, <2>4
  <1>6. Own' = Own /\ Patching' = Patching
    BY <1>2, <1>3 DEF Own, List, Patching
  <1>7. Lost \subseteq Lost'
    BY <1>3 DEF Lost
  <1>8. /\ IsFiniteSet(Lost') /\ edits \in Nat
        /\ Cardinality(Own) \in Nat /\ Cardinality(Patching) \in Nat
        /\ Cardinality(Lost) \in Nat /\ Cardinality(Lost') \in Nat
    BY <1>1, <1>4, Finite, FiniteNext DEF Counts
  <1>9. Cardinality(Lost) <= Cardinality(Lost')
    BY <1>7, <1>8, FS_Subset
  <1>10. Counted'
    BY <1>1, <1>2, <1>6, <1>8, <1>9 DEF Counted
  <1> QED BY <1>4, <1>5, <1>10 DEF IInv

\* An edit adds an entry at most.
LEMMA EditKeeps ==
    ASSUME IInv, EditImports
    PROVE  IInv'
  <1>1. TypeOK /\ InTurn /\ Counted
    BY DEF IInv
  <1>2. pods' = pods /\ edits' = edits + 1 /\ edits < MaxEdits
    BY DEF EditImports
  <1>3. Patching' = Patching /\ Lost' = Lost /\ InTurn'
    BY <1>1, <1>2 DEF Patching, Lost, InTurn
  <1>4. /\ List \in Seq(Names) /\ IsFiniteSet(Own) /\ edits \in Nat
        /\ Cardinality(Own) \in Nat /\ Cardinality(Patching) \in Nat
        /\ Cardinality(Lost) \in Nat
    BY <1>1, Finite DEF Counts
  <1>5. Own = Places(List)
    BY DEF Own, Places
  <1>6. imports' \in Seq(Names) /\ Cardinality(Own)' <= Cardinality(Own) + 1
    <2>1. ASSUME imports' \in Seq(Names)
          PROVE  Own' = Places(imports')
      BY <2>1, HpecpPatchAssumption DEF Own, List, Places
    <2>2. ASSUME NEW n \in Names, imports' = Append(List, n)
          PROVE  imports' \in Seq(Names) /\ Cardinality(Own)' <= Cardinality(Own) + 1
      <3>1. imports' \in Seq(Names)
        BY <1>4, <2>2
      <3>2. Own' = Places(Append(List, n))
        BY <2>1, <2>2, <3>1
      <3>3. Cardinality(Own') <= Cardinality(Own) + 1
        BY <1>4, <1>5, <3>2, Appended
      <3> QED BY <3>1, <3>3
    <2>3. ASSUME NEW i \in DOMAIN List, imports' = RemoveAt(List, i)
          PROVE  imports' \in Seq(Names) /\ Cardinality(Own)' <= Cardinality(Own) + 1
      <3> DEFINE N == Places(RemoveAt(List, i))
      <3>1. /\ RemoveAt(List, i) \in Seq(Names)
            /\ IsFiniteSet(N) /\ Cardinality(N) <= Cardinality(Own)
        BY <1>4, <1>5, Removed
      <3>2. Own' = N
        BY <2>1, <2>3, <3>1
      <3>3. Cardinality(N) \in Nat
        BY <3>1, FS_CardinalityType
      <3> HIDE DEF N
      <3>4. Cardinality(Own') <= Cardinality(Own) + 1
        BY <1>4, <3>1, <3>2, <3>3
      <3> QED BY <2>3, <3>1, <3>4
    <2> QED BY <2>2, <2>3 DEF EditImports
  <1>7. TypeOK'
    BY <1>1, <1>2, <1>6, HpecpPatchAssumption DEF TypeOK
  <1>8. Cardinality(Own)' \in Nat
    BY <1>7, FiniteNext DEF Counts
  <1>9. Counted'
    BY <1>1, <1>2, <1>3, <1>4, <1>6, <1>8 DEF Counted
  <1> QED BY <1>3, <1>7, <1>9 DEF IInv

-----------------------------------------------------------------------------
\* Every step of the specification keeps the inductive invariant.
LEMMA NextIInv == IInv /\ [Next]_vars => IInv'
  <1> SUFFICES ASSUME IInv, [Next]_vars PROVE IInv'
    OBVIOUS
  <1>1. ASSUME NEW p \in Pods, StartPod(p) PROVE IInv'
    BY <1>1, MoveKeeps DEF StartPod, MayStart, Idle
  <1>2. ASSUME NEW p \in Pods, CheckImports(p) PROVE IInv'
    <2>1. CASE Mentioned
      BY <1>2, <2>1, MoveKeeps DEF CheckImports, Idle
    <2>2. CASE ~Mentioned
      BY <1>2, <2>2, MoveKeeps DEF CheckImports, Idle
    <2> QED BY <2>1, <2>2
  <1>3. ASSUME NEW p \in Pods, PatchImports(p) PROVE IInv'
    BY <1>3, PatchKeeps
  <1>4. ASSUME NEW p \in Pods, PatchRejected(p) PROVE IInv'
    BY <1>4, MoveKeeps DEF PatchRejected, Idle
  <1>5. ASSUME NEW p \in Pods, PodFails(p) PROVE IInv'
    BY <1>5, MoveKeeps DEF PodFails, Running, Idle, Ended
  <1>6. ASSUME NEW p \in Pods, NodeLost(p) PROVE IInv'
    BY <1>6, LossKeeps
  <1>7. CASE EditImports
    BY <1>7, EditKeeps
  <1>8. CASE UNCHANGED vars
    BY <1>8 DEF vars, IInv, TypeOK, InTurn, Counted, Own, List, Patching, Lost
  <1> QED
    BY <1>1, <1>2, <1>3, <1>4, <1>5, <1>6, <1>7, <1>8 DEF Next, PodStep

\* The inductive invariant holds in every reachable state.
LEMMA Inductive == Spec => []IInv
  BY InitIInv, NextIInv, PTL DEF Spec

\* Every variable keeps its type.
THEOREM TypeCorrect == Spec => []TypeOK
  <1>1. IInv => TypeOK
    BY DEF IInv
  <1> QED BY Inductive, <1>1, PTL

\* Every kf-dashboard beyond the first has cost a lost node or an edit: pods
\* that run one after the other never append twice (entrypoint.sh 4-8).
THEOREM DuplicatesExplained == Spec => []DuplicatesAreExplained
  <1>1. IInv => DuplicatesAreExplained
    <2> SUFFICES ASSUME IInv PROVE DuplicatesAreExplained
      OBVIOUS
    <2>1. /\ Cardinality(Own) \in Nat /\ Cardinality(Patching) \in Nat
          /\ Cardinality(Lost) \in Nat /\ edits \in Nat
      BY Finite DEF IInv, Counts
    <2>2. Lost = {p \in Pods : pods[p].lost}
      BY DEF Lost
    <2> QED BY <2>1, <2>2 DEF IInv, Counted, DuplicatesAreExplained
  <1> QED BY Inductive, <1>1, PTL

\* A pod that has succeeded, on whatever node, has left a list that mentions
\* the dashboard.
Seen == edits = 0 /\ (\E p \in Pods : pods[p].pc = "succeeded") => Mentioned

\* As long as nobody edits the list, a complete Job means that the list
\* mentions the dashboard (entrypoint.sh 2-28).
THEOREM SuccessMeansMention == Spec => []SuccessIsMention
  <1>1. Init => Seen
    BY DEF Init, Seen, NewPod
  <1>2. TypeOK /\ Seen /\ [Next]_vars => Seen'
    <2> SUFFICES ASSUME TypeOK, Seen, [Next]_vars PROVE Seen'
      OBVIOUS
    <2>1. pods \in [Pods -> PodRecord] /\ edits \in Nat
      BY HpecpPatchAssumption DEF TypeOK, PodRecord
    <2>2. ASSUME NEW p \in Pods, NEW x \in {"check", "patch", "succeeded", "failed"},
                 Goto(p, x), x # "succeeded", UNCHANGED <<imports, edits>>
          PROVE  Seen'
      <3>1. \A q \in Pods : pods'[q].pc = "succeeded" => pods[q].pc = "succeeded"
        BY <2>1, <2>2 DEF Goto, PodRecord
      <3>2. Mentioned' = Mentioned
        BY <2>2 DEF Mentioned, List
      <3> QED BY <2>2, <3>1, <3>2 DEF Seen
    <2>3. ASSUME NEW p \in Pods, StartPod(p) \/ PatchRejected(p) \/ PodFails(p)
          PROVE  Seen'
      BY <2>2, <2>3 DEF StartPod, PatchRejected, PodFails
    <2>4. ASSUME NEW p \in Pods, CheckImports(p) PROVE Seen'
      <3>1. CASE Mentioned
        BY <2>4, <3>1 DEF CheckImports, Seen, Mentioned, List
      <3>2. CASE ~Mentioned
        BY <2>2, <2>4, <3>2 DEF CheckImports
      <3> QED BY <3>1, <3>2
    <2>5. ASSUME NEW p \in Pods, PatchImports(p) PROVE Seen'
      <3>1. imports \in Seq(Names) /\ imports' = Append(imports, "kf-dashboard")
        BY <2>5 DEF PatchImports, TypeOK
      <3>2. imports' # NoList /\ "kf-dashboard" \in Alike
        BY <3>1, HpecpPatchAssumption
      <3>3. Len(imports) + 1 \in DOMAIN imports'
              /\ imports'[Len(imports) + 1] = "kf-dashboard"
        BY <3>1
      <3> QED BY <3>2, <3>3 DEF Seen, Mentioned, List
    <2>6. ASSUME NEW p \in Pods, NodeLost(p) PROVE Seen'
      <3>1. \A q \in Pods : pods'[q].pc = pods[q].pc
        BY <2>1, <2>6 DEF NodeLost, PodRecord
      <3>2. edits' = edits /\ Mentioned' = Mentioned
        BY <2>6 DEF NodeLost, Mentioned, List
      <3> QED BY <3>1, <3>2 DEF Seen
    <2>7. CASE EditImports
      BY <2>1, <2>7 DEF EditImports, Seen
    <2>8. CASE UNCHANGED vars
      BY <2>8 DEF vars, Seen, Mentioned, List
    <2> QED BY <2>3, <2>4, <2>5, <2>6, <2>7, <2>8 DEF Next, PodStep
  <1>3. Seen => SuccessIsMention
    BY DEF Seen, SuccessIsMention, JobComplete
  <1> QED BY TypeCorrect, <1>1, <1>2, <1>3, PTL DEF Spec

\* No pod takes an import of somebody else out (entrypoint.sh 8-12).
THEOREM OthersAreKept == Spec => OthersKept
  <1>1. TypeOK /\ [Next]_vars =>
           [\A p \in Pods : PodStep(p) => imports' = imports \/ IsPrefix(List, List')]_vars
    <2> SUFFICES ASSUME TypeOK, NEW p \in Pods, PodStep(p), imports' # imports
                 PROVE  IsPrefix(List, List')
      OBVIOUS
    <2>1. imports # NoList /\ imports' = Append(imports, "kf-dashboard")
      BY DEF PodStep, CheckImports, PatchImports, PatchRejected
    <2>2. imports \in Seq(Names) /\ imports' \in Seq(Names)
      BY <2>1, HpecpPatchAssumption DEF TypeOK
    <2>3. List = imports /\ List' = Append(imports, "kf-dashboard")
      BY <2>1, <2>2, HpecpPatchAssumption DEF List
    <2>4. Len(imports) \in Nat /\ Len(Append(imports, "kf-dashboard")) = Len(imports) + 1
      BY <2>2
    <2>5. SubSeq(imports, 1, Len(imports))
             = SubSeq(Append(imports, "kf-dashboard"), 1, Len(imports))
      BY <2>2, <2>4
    <2> QED BY <2>3, <2>4, <2>5 DEF IsPrefix
  <1> QED BY TypeCorrect, <1>1, PTL DEF Spec, OthersKept
=============================================================================
