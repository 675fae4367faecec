--------------------------- MODULE ReleaseProofs ---------------------------
(***************************************************************************)
(* For every set of releases and number of checks under way, in the        *)
(* composition of the windows with the store: a label that says "checking" *)
(* will be answered by a goroutine, and its verdict is right in the order  *)
(* of versions.                                                            *)
(***************************************************************************)
EXTENDS SettingsWindow, TLAPS

\* A verdict about a release is what IsNewer says of it.
VerdictIsIsNewer ==
    \A w \in Windows :
        LET v == verdict[w]
        IN  \/ v.release = NoRelease
            \/ /\ v.release \in Releases
               /\ v.text = "newer" <=> IsNewer(CurrentVersion, v.release)

CheckInv ==
    /\ DOMAIN verdict = Windows
    /\ pending \in [Windows -> Nat]
    /\ CheckIsUnderWay
    /\ VerdictIsIsNewer

\* What parseSemver makes of a version of three numbers.
LEMMA ThreeParts ==
  ASSUME NEW v \in Versions
  PROVE  /\ v[1] \in 0..(Base - 1) /\ v[2] \in 0..(Base - 1) /\ v[3] \in 0..(Base - 1)
         /\ \A i \in 1..3 : parseSemver(v)[i] = v[i]
<1>1. v \in Seq(0..(Base - 1)) /\ Len(v) = 3
  BY DEF Versions
<1>2. \A i \in 1..3 : v[i] \in 0..(Base - 1)
  <2> DEFINE parts == 0..(Base - 1)
  <2>1. v \in Seq(parts)
    BY <1>1
  <2> HIDE DEF parts
  <2>2. v \in [1..3 -> parts]
    <3>1. v \in [1..Len(v) -> parts]
      BY <2>1
    <3> QED
      BY <1>1, <3>1
  <2> QED
    BY <2>2 DEF parts
<1>3. \A i \in 1..3 : v[i] # NotANumber
  <2>1. NotANumber \notin Nat
    BY ReleaseAssumption
  <2>2. \A i \in 1..3 : v[i] \in Nat
    <3>1. 0..(Base - 1) \subseteq Nat
      OBVIOUS
    <3> QED
      BY <1>2, <3>1
  <2> QED
    BY <2>1, <2>2
<1>4. \A i \in 1..3 : parseSemver(v)[i] = v[i]
  BY <1>1, <1>3 DEF parseSemver
<1> QED
  BY <1>2, <1>4

\* The first part in which two versions differ decides which number is the
\* greater.
LEMMA FirstDifference ==
  ASSUME NEW c \in [1..3 -> 0..999], NEW l \in [1..3 -> 0..999]
  PROVE  (\E i \in 1..3 : l[i] > c[i] /\ \A j \in 1..(i - 1) : l[j] = c[j])
           <=> (l[1] * 1000 + l[2]) * 1000 + l[3] > (c[1] * 1000 + c[2]) * 1000 + c[3]
<1>1. (\E i \in 1..3 : l[i] > c[i] /\ \A j \in 1..(i - 1) : l[j] = c[j])
        <=> \/ l[1] > c[1]
            \/ l[1] = c[1] /\ l[2] > c[2]
            \/ l[1] = c[1] /\ l[2] = c[2] /\ l[3] > c[3]
  <2>1. ASSUME NEW i \in 1..3, l[i] > c[i], \A j \in 1..(i - 1) : l[j] = c[j]
        PROVE  \/ l[1] > c[1]
               \/ l[1] = c[1] /\ l[2] > c[2]
               \/ l[1] = c[1] /\ l[2] = c[2] /\ l[3] > c[3]
    <3>1. i = 1 \/ i = 2 \/ i = 3
      OBVIOUS
    <3> QED
      BY <2>1, <3>1
  <2>2. ASSUME l[1] > c[1]
        PROVE  l[1] > c[1] /\ \A j \in 1..(1 - 1) : l[j] = c[j]
    BY <2>2
  <2>3. ASSUME l[1] = c[1], l[2] > c[2]
        PROVE  l[2] > c[2] /\ \A j \in 1..(2 - 1) : l[j] = c[j]
    BY <2>3
  <2>4. ASSUME l[1] = c[1], l[2] = c[2], l[3] > c[3]
        PROVE  l[3] > c[3] /\ \A j \in 1..(3 - 1) : l[j] = c[j]
    BY <2>4
  <2> QED
    BY <2>1, <2>2, <2>3, <2>4
<1>2. (\/ l[1] > c[1]
       \/ l[1] = c[1] /\ l[2] > c[2]
       \/ l[1] = c[1] /\ l[2] = c[2] /\ l[3] > c[3])
      <=> (l[1] * 1000 + l[2]) * 1000 + l[3] > (c[1] * 1000 + c[2]) * 1000 + c[3]
  <2> DEFINE Lex(c1, c2, c3, l1, l2, l3) ==
                 (\/ l1 > c1
                  \/ l1 = c1 /\ l2 > c2
                  \/ l1 = c1 /\ l2 = c2 /\ l3 > c3)
                 <=> (l1 * 1000 + l2) * 1000 + l3 > (c1 * 1000 + c2) * 1000 + c3
             Part == 0..999
  <2>1. \A c1, c2, c3, l1, l2, l3 \in Part : Lex(c1, c2, c3, l1, l2, l3)
    OBVIOUS
  <2>2. /\ c[1] \in Part /\ c[2] \in Part /\ c[3] \in Part
        /\ l[1] \in Part /\ l[2] \in Part /\ l[3] \in Part
    OBVIOUS
  <2>3. Lex(c[1], c[2], c[3], l[1], l[2], l[3])
    <3> HIDE DEF Lex, Part
    <3> QED
      BY <2>1, <2>2
  <2> QED
    BY <2>3
<1> QED
  BY <1>1, <1>2

\* Of two versions of three numbers IsNewer tells which is the greater.
THEOREM IsNewerIsOrder ==
  ASSUME NEW current \in Versions, NEW latest \in Versions
  PROVE  IsNewer(current, latest) <=> Weight(latest) > Weight(current)
<1>1. \A v \in Versions :
        /\ parseSemver(v) \in [1..3 -> 0..999]
        /\ Weight(v) = (parseSemver(v)[1] * 1000 + parseSemver(v)[2]) * 1000 + parseSemver(v)[3]
  <2> SUFFICES ASSUME NEW v \in Versions
               PROVE  /\ parseSemver(v) \in [1..3 -> 0..999]
                      /\ Weight(v) = (parseSemver(v)[1] * 1000 + parseSemver(v)[2]) * 1000
                                       + parseSemver(v)[3]
    OBVIOUS
  <2>1. /\ parseSemver(v)[1] = v[1] /\ parseSemver(v)[2] = v[2] /\ parseSemver(v)[3] = v[3]
        /\ \A i \in 1..3 : parseSemver(v)[i] \in 0..999
    BY ThreeParts DEF Base
  <2>2. parseSemver(v) = [i \in 1..3 |-> parseSemver(v)[i]]
    BY DEF parseSemver
  <2> QED
    BY <2>1, <2>2 DEF Weight, Base
<1> QED
  BY <1>1, FirstDifference DEF IsNewer

-----------------------------------------------------------------------------
\* The verdicts a goroutine may post end the check and say what IsNewer says.
LEMMA VerdictsSay ==
  ASSUME NEW v \in Verdicts
  PROVE  /\ v # Text("checking")
         /\ \/ v.release = NoRelease
            \/ /\ v.release \in Releases
               /\ v.text = "newer" <=> IsNewer(CurrentVersion, v.release)
<1>1. ASSUME NEW e \in ReleaseErrors, v = Text(e)
      PROVE  v # Text("checking") /\ v.release = NoRelease
  <2>1. e # "checking"
    BY DEF ReleaseErrors
  <2>2. v.text = e /\ v.release = NoRelease /\ Text("checking").text = "checking"
    BY <1>1 DEF Text
  <2> QED
    BY <2>1, <2>2
<1>2. ASSUME NEW r \in Releases,
             v = [text |-> IF IsNewer(CurrentVersion, r) THEN "newer" ELSE "up to date",
                  release |-> r]
      PROVE  /\ v # Text("checking")
             /\ v.release \in Releases
             /\ v.text = "newer" <=> IsNewer(CurrentVersion, v.release)
  <2>1. /\ v.text \in {"newer", "up to date"}
        /\ v.text = "newer" <=> IsNewer(CurrentVersion, r)
        /\ v.release = r
    BY <1>2
  <2>2. Text("checking").text = "checking"
    BY DEF Text
  <2> QED
    BY <2>1, <2>2
<1> QED
  BY <1>1, <1>2 DEF Verdicts

\* Every operation on a label keeps the invariant.
LEMMA LabelKeepsInv ==
  ASSUME CheckInv, NEW w \in Windows,
         NewLabel(w) \/ PressCheck(w) \/ ShowVerdict(w)
  PROVE  CheckInv'
<1> DEFINE Allowed(t) == /\ t # Text("checking") \/ pending'[w] > 0
                         /\ \/ t.release = NoRelease
                            \/ /\ t.release \in Releases
                               /\ t.text = "newer" <=> IsNewer(CurrentVersion, t.release)
<1>1. PICK t : verdict' = [verdict EXCEPT ![w] = t] /\ Allowed(t)
  <2>1. CASE NewLabel(w)
    <3>1. Text("none") # Text("checking") /\ Text("none").release = NoRelease
      <4>1. Text("none").text = "none" /\ Text("checking").text = "checking"
        BY DEF Text
      <4> QED
        BY <4>1 DEF Text
    <3>2. verdict' = [verdict EXCEPT ![w] = Text("none")]
      BY <2>1 DEF NewLabel
    <3> QED
      BY <3>1, <3>2
  <2>2. CASE PressCheck(w)
    <3>1. pending'[w] > 0
      BY <2>2 DEF PressCheck, CheckInv
    <3>2. Text("checking").release = NoRelease
      BY DEF Text
    <3>3. verdict' = [verdict EXCEPT ![w] = Text("checking")]
      BY <2>2 DEF PressCheck
    <3> QED
      BY <3>1, <3>2, <3>3
  <2>3. CASE ShowVerdict(w)
    <3>1. PICK v \in Verdicts : verdict' = [verdict EXCEPT ![w] = v]
      BY <2>3 DEF ShowVerdict
    <3> QED
      BY <3>1, VerdictsSay
  <2> QED
    BY <2>1, <2>2, <2>3
<1>2. /\ pending' \in [Windows -> Nat]
      /\ \A u \in Windows \ {w} : pending'[u] = pending[u] /\ verdict'[u] = verdict[u]
      /\ verdict'[w] = t
      /\ DOMAIN verdict' = Windows
  BY <1>1 DEF NewLabel, PressCheck, ShowVerdict, CheckInv
<1>3. CheckIsUnderWay'
  BY <1>1, <1>2 DEF CheckInv, CheckIsUnderWay
<1>4. VerdictIsIsNewer'
  BY <1>1, <1>2 DEF CheckInv, VerdictIsIsNewer
<1> QED
  BY <1>2, <1>3, <1>4 DEF CheckInv

\* The invariant holds at first: no label is shown.
LEMMA InitCheckInv == WindowInit => CheckInv
  BY DEF WindowInit, CheckInit, Text, CheckInv, CheckIsUnderWay, VerdictIsIsNewer

\* No step of the windows or of the store breaks it.
LEMMA NextCheckInv == CheckInv /\ [WindowNext]_allVars => CheckInv'
<1> SUFFICES ASSUME CheckInv, [WindowNext]_allVars PROVE CheckInv'
  OBVIOUS
<1>1. ASSUME UNCHANGED checkVars PROVE CheckInv'
  BY <1>1 DEF checkVars, CheckInv, CheckIsUnderWay, VerdictIsIsNewer
<1>2. ASSUME NEW p \in Procs, NewLabel(p) \/ PressCheck(p) \/ ShowVerdict(p) PROVE CheckInv'
  BY <1>2, LabelKeepsInv, WindowAssumption
<1>3. ASSUME NEW p \in Procs, StoreStep(p) PROVE CheckInv'
  BY <1>1, <1>3 DEF StoreStep, windowVars
<1>4. ASSUME NEW p \in Procs, LaunchShell(p) PROVE CheckInv'
  BY <1>1, <1>4 DEF LaunchShell
<1>5. ASSUME NEW p \in Procs, CrashShell(p) \/ Show(p) \/ Cancel(p) PROVE CheckInv'
  BY <1>2, <1>5 DEF CrashShell, Show, Cancel, Hide
<1>6. ASSUME NEW p \in Procs, NEW typed \in SUBSET FormFields, Apply(p, typed) PROVE CheckInv'
  BY <1>2, <1>6 DEF Apply, Hide
<1>7. ASSUME NEW p \in Procs, NEW f \in Fields, Override(p, f) PROVE CheckInv'
  BY <1>1, <1>7 DEF Override
<1>8. ASSUME NEW p \in Procs, Connect(p) \/ DismissWizard(p) PROVE CheckInv'
  BY <1>1, <1>8 DEF Connect, DismissWizard
<1>9. ASSUME NEW p \in Procs, Check(p) PROVE CheckInv'
  BY <1>2, <1>9 DEF Check
<1>10. CASE UNCHANGED allVars
  BY <1>1, <1>10 DEF allVars, windowVars
<1> QED
  BY <1>3, <1>4, <1>5, <1>6, <1>7, <1>8, <1>9, <1>10 DEF WindowNext

\* Labels and goroutines agree, and verdicts follow IsNewer, always.
THEOREM SpecCheckInv == WindowSpec => []CheckInv
<1>1. WindowInit => CheckInv
  BY InitCheckInv
<1>2. CheckInv /\ [WindowNext]_allVars => CheckInv'
  BY NextCheckInv
<1> QED
  BY <1>1, <1>2, PTL DEF WindowSpec

\* A label that says "checking" has a goroutine at work for it.
THEOREM ReleaseCheckIsUnderWay == WindowSpec => []CheckIsUnderWay
<1>1. CheckInv => CheckIsUnderWay
  BY DEF CheckInv
<1> QED
  BY <1>1, SpecCheckInv, PTL

\* The user is told of a three-part release exactly when it is the newer.
THEOREM ReleaseVerdictIsRight == WindowSpec => []VerdictIsRight
<1>1. CheckInv => VerdictIsRight
  <2>1. NoRelease \notin Versions
    BY DEF NoRelease, Versions
  <2> QED
    BY <2>1, IsNewerIsOrder DEF CheckInv, VerdictIsIsNewer, VerdictIsRight
<1> QED
  BY <1>1, SpecCheckInv, PTL
=============================================================================
