---------------------------- MODULE ReleaseCheck ----------------------------
(***************************************************************************)
(* internal/update/checker.go behind the button of the settings window     *)
(* (checkUpdatesNow in cmd/subrelay/main.go): every press starts a         *)
(* goroutine that asks GitHub for the latest release, compares it with the *)
(* running version and posts one verdict to the label beside the button.   *)
(* Nothing keeps the user from pressing again before it has come.          *)
(*                                                                         *)
(* A version is the sequence of its parts between dots, numbers or         *)
(* NotANumber; what follows a "-" or "+" is cut off before it is split and *)
(* is left out.                                                            *)
(***************************************************************************)
EXTENDS Naturals, Sequences

CONSTANTS
    Windows,          \* where a settings window may be
    CurrentVersion,   \* the running version
    Releases,         \* the versions GitHub may answer with
    NotANumber,       \* a part of a version that is not a number
    MaxChecks         \* bound on checks under way for one label

ASSUME ReleaseAssumption ==
    /\ NotANumber \notin Nat
    /\ {CurrentVersion} \cup Releases \subseteq Seq(Nat \cup {NotANumber})
    /\ MaxChecks \in Nat

VARIABLES
    verdict,     \* the text of the label, with the release it is about
    pending      \* goroutines that have yet to post to this label

checkVars == <<verdict, pending>>

NoRelease == <<>>
Text(text) == [text |-> text, release |-> NoRelease]

CheckInit ==
    /\ verdict = [w \in Windows |-> Text("none")]
    /\ pending = [w \in Windows |-> 0]

-----------------------------------------------------------------------------
\* SplitN leaves all that follows the second dot in the third part, where a
\* further dot makes it no number; what is no number counts as 0.
parseSemver(v) ==
    [i \in 1..3 |->
        IF i <= Len(v) /\ v[i] # NotANumber /\ (i = 3 => Len(v) = 3) THEN v[i] ELSE 0]

\* Mutant: any part that is greater makes a release newer.
IsNewerInAnyPart(current, latest) ==
    \E i \in 1..3 : parseSemver(latest)[i] > parseSemver(current)[i]

\* The first part in which they differ decides.
IsNewer(current, latest) ==
    LET c == parseSemver(current)
        l == parseSemver(latest)
    IN  \E i \in 1..3 : l[i] > c[i] /\ \A j \in 1..(i - 1) : l[j] = c[j]

\* Mutant: no callback is set for a repository without releases.
VerdictsWithoutNone ==
    {[text |-> IF IsNewer(CurrentVersion, r) THEN "newer" ELSE "up to date", release |-> r] :
        r \in Releases} \cup {Text("checking"), Text("error")}

\* The errors of LatestRelease: a 404, and any other.
ReleaseErrors == {"no releases", "error"}

\* checkOnce calls exactly one of the callbacks checkUpdatesNow has set, and
\* with it the label's.
Verdicts ==
    {[text |-> IF IsNewer(CurrentVersion, r) THEN "newer" ELSE "up to date", release |-> r] :
        r \in Releases} \cup {Text(e) : e \in ReleaseErrors}

-----------------------------------------------------------------------------
\* Show builds a new label, hidden at first.  Goroutines started from an
\* earlier one go on and post to that, which nobody sees.
NewLabel(w) ==
    /\ verdict' = [verdict EXCEPT ![w] = Text("none")]
    /\ pending' = [pending EXCEPT ![w] = 0]

PressCheck(w) ==
    /\ pending[w] < MaxChecks
    /\ verdict' = [verdict EXCEPT ![w] = Text("checking")]
    /\ pending' = [pending EXCEPT ![w] = @ + 1]

\* A goroutine's callback, run by the UI thread (fyne.Do).  What it does
\* before that touches nothing shared.
ShowVerdict(w) ==
    /\ pending[w] > 0
    /\ \E v \in Verdicts : verdict' = [verdict EXCEPT ![w] = v]
    /\ pending' = [pending EXCEPT ![w] = @ - 1]

-----------------------------------------------------------------------------
(* Properties                                                              *)

\* What SettingsCallbacks demands: onResult is invoked exactly once for each
\* press, whatever GitHub answers.  A label that says "checking" has a
\* goroutine at work for it, though an earlier press may have answered over
\* it and a later one started it again.
CheckIsUnderWay ==
    \A w \in Windows : verdict[w] = Text("checking") => pending[w] > 0

\* Three-part versions, each part below Base, and their order as numbers.
Base == 1000
Versions == {v \in Seq(0..(Base - 1)) : Len(v) = 3}
Weight(v) == (v[1] * Base + v[2]) * Base + v[3]

\* The user is told of a three-part release exactly when it is newer than the
\* running version.  (Of 1.2.3.4 the code compares 1.2.0.)
VerdictIsRight ==
    \A w \in Windows :
        LET r == verdict[w].release
        IN  r \in Versions /\ CurrentVersion \in Versions =>
               (verdict[w].text = "newer" <=> Weight(r) > Weight(CurrentVersion))
=============================================================================
