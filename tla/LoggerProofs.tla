---------------------------- MODULE LoggerProofs ----------------------------
(***************************************************************************)
(* For every number of writers and channels and every size of the ring:    *)
(* Lines returns the latest lines in the order they were recorded.  The    *)
(* invariant says where in the ring each recorded line is, without modular *)
(* arithmetic: below the head are the latest, from the head on, once the   *)
(* ring is full, the ones before them.                                     *)
(*                                                                         *)
(* The logs window adds to the logger and changes nothing in it, so what   *)
(* is proved of Spec carries over to the composition the runs check.       *)
(***************************************************************************)
EXTENDS LogViewer, SequenceTheorems, TLAPS

\* A call of Log under way has a line.
LineStamped == \A w \in Writers : pc[w] # "idle" => line[w] \in 1..MaxLines

RingHolds ==
    LET n == Len(recorded)
    IN  /\ count = IF n < RingSize THEN n ELSE RingSize
        /\ count < RingSize => head = count
        /\ \A k \in 0..(RingSize - 1) :
              /\ k < head => ring[k] = recorded[n - head + k + 1]
              /\ k >= head /\ count = RingSize =>
                    ring[k] = recorded[n - head - RingSize + k + 1]

IInv == TypeOK /\ LineStamped /\ RingHolds

\* What the remainder by the ring's size is for the indices that occur.
LEMMA Wraps ==
  ASSUME NEW n \in Nat \ {0}, NEW k \in Nat, k < n + n
  PROVE  k % n = IF k < n THEN k ELSE k - n
  OBVIOUS

\* The same for the ring.
LEMMA RingWraps ==
  ASSUME NEW k \in Nat, k < RingSize + RingSize
  PROVE  k % RingSize = IF k < RingSize THEN k ELSE k - RingSize
  BY Wraps, LoggerAssumption

\* The invariant holds of the empty log.
LEMMA InitIInv == Init => IInv
<1> SUFFICES ASSUME Init PROVE IInv
  OBVIOUS
<1> USE LoggerAssumption
<1>1. TypeOK
  BY DEF Init, TypeOK, NoLine
<1>2. LineStamped
  BY DEF Init, LineStamped
<1>3. RingHolds
  BY DEF Init, RingHolds
<1> QED
  BY <1>1, <1>2, <1>3 DEF IInv

\* Recording a line moves every earlier one back by one place.
LEMMA RecordIInv ==
  ASSUME IInv, NEW w \in Writers, Record(w)
  PROVE  IInv'
<1> USE LoggerAssumption DEF IInv
<1> DEFINE n == Len(recorded)
           l == line[w]
<1>1. /\ l \in 1..MaxLines
      /\ pc[w] = "stamped"
      /\ ring' = [ring EXCEPT ![head] = l]
      /\ count' = IF count < RingSize THEN count + 1 ELSE count
      /\ recorded' = Append(recorded, l)
      /\ targets' = [targets EXCEPT ![w] = subscribers]
      /\ pc' = [pc EXCEPT ![w] = "sending"]
      /\ UNCHANGED <<now, line, open, subscribers, buffer>>
  BY DEF Record, AppendRing, LineStamped
<1>2. /\ RingSize \in Nat \ {0}
      /\ head \in 0..(RingSize - 1)
      /\ count \in 0..RingSize
      /\ n \in Nat
  BY DEF TypeOK
<1>a. /\ recorded \in Seq(1..MaxLines)
      /\ ring \in [0..(RingSize - 1) -> 0..MaxLines]
  BY DEF TypeOK
<1>3. head' = IF head + 1 < RingSize THEN head + 1 ELSE 0
  <2>1. (head + 1) % RingSize = IF head + 1 < RingSize THEN head + 1 ELSE (head + 1) - RingSize
    <3> DEFINE h == head + 1
    <3>1. h \in Nat /\ h < RingSize + RingSize
      BY <1>2
    <3> HIDE DEF h
    <3>2. h % RingSize = IF h < RingSize THEN h ELSE h - RingSize
      BY <3>1, RingWraps
    <3> QED
      BY <3>2, Zenon DEF h
  <2>2. head' = (head + 1) % RingSize
    BY DEF Record, AppendRing
  <2> HIDE DEF n, l
  <2> QED
    BY <2>1, <2>2, <1>2
<1>4. Len(recorded') = n + 1
  BY <1>1, <1>a
<1>b. /\ recorded' \in Seq(1..MaxLines)
      /\ recorded'[n + 1] = l
      /\ \A j \in 1..n : recorded'[j] = recorded[j]
  BY <1>1, <1>a
<1>5. TypeOK'
  <2>1. /\ ring' \in [0..(RingSize - 1) -> 0..MaxLines]
        /\ head' \in 0..(RingSize - 1)
        /\ count' \in 0..RingSize
    BY <1>1, <1>2, <1>3, <1>a
  <2>2. /\ pc' \in [Writers -> {"idle", "stamped", "sending"}]
        /\ targets' \in [Writers -> SUBSET Channels]
    BY <1>1 DEF TypeOK
  <2> QED
    BY <1>1, <1>b, <2>1, <2>2 DEF TypeOK
<1>6. LineStamped'
  BY <1>1 DEF LineStamped, TypeOK
<1>7. RingHolds'
  <2>0. /\ count = IF n < RingSize THEN n ELSE RingSize
        /\ count < RingSize => head = count
    BY DEF RingHolds
  <2>1. \A k \in 0..(RingSize - 1) :
              /\ k < head => ring[k] = recorded[n - head + k + 1]
              /\ k >= head /\ count = RingSize =>
                    ring[k] = recorded[n - head - RingSize + k + 1]
    BY DEF RingHolds
  <2>2. /\ count' = IF n + 1 < RingSize THEN n + 1 ELSE RingSize
        /\ count' < RingSize => head' = count'
    BY <2>0, <1>1, <1>2, <1>3
  <2>3. \A k \in 0..(RingSize - 1) : ring'[k] = IF k = head THEN l ELSE ring[k]
    BY <1>1, <1>2, <1>a
  <2>4. ASSUME NEW k \in 0..(RingSize - 1), k < head'
        PROVE  ring'[k] = recorded'[Len(recorded') - head' + k + 1]
    <3> DEFINE j == Len(recorded') - head' + k + 1
    <3>1. head' = head + 1 /\ head <= n /\ j = n - head + k + 1
      BY <2>4, <1>2, <1>3, <1>4, <2>0
    <3>2. CASE k = head
      <4>1. ring'[k] = l /\ j = n + 1
        BY <3>1, <3>2, <2>3, <1>2
      <4> HIDE DEF j
      <4>2. recorded'[j] = ring'[k]
        BY <3>1, <4>1, <1>2, <1>b
      <4> QED
        BY <4>2, Zenon DEF j
    <3>3. CASE k < head
      <4>1. ring'[k] = recorded[n - head + k + 1] /\ j \in 1..n
        BY <3>1, <3>3, <2>1, <2>3, <1>2
      <4> HIDE DEF j
      <4>2. recorded'[j] = ring'[k]
        BY <3>1, <4>1, <1>2, <1>b
      <4> QED
        BY <4>2, Zenon DEF j
    <3> QED
      BY <3>1, <3>2, <3>3, <1>2, <2>4
  <2>5. ASSUME NEW k \in 0..(RingSize - 1), k >= head', count' = RingSize
        PROVE  ring'[k] = recorded'[Len(recorded') - head' - RingSize + k + 1]
    <3> DEFINE j == Len(recorded') - head' - RingSize + k + 1
    <3>1. CASE head + 1 = RingSize
      <4>0. head' = 0 /\ n >= head
        BY <3>1, <1>3, <1>2, <2>0
      <4>1. j = n - head + k + 1
        BY <3>1, <4>0, <1>2, <1>4
      <4>2. CASE k = head
        <5>1. ring'[k] = l /\ j = n + 1
          BY <4>1, <4>2, <2>3, <1>2
        <5> HIDE DEF j
        <5>2. recorded'[j] = ring'[k]
          BY <4>1, <5>1, <1>2, <1>b
        <5> QED
          BY <5>2, Zenon DEF j
      <4>3. CASE k < head
        <5>0. j \in 1..n
          BY <4>0, <4>1, <4>3, <1>2
        <5>1. ring'[k] = recorded[n - head + k + 1]
          BY <4>3, <2>1, <2>3, <1>2
        <5> HIDE DEF j
        <5>2. recorded'[j] = ring'[k]
          BY <4>1, <5>0, <5>1, <1>2, <1>b
        <5> QED
          BY <5>2, Zenon DEF j
      <4> QED
        BY <4>2, <4>3, <3>1, <1>2
    <3>2. CASE head + 1 < RingSize
      <4>1. /\ head' = head + 1
            /\ count = RingSize
            /\ n >= RingSize
        BY <3>2, <1>1, <1>3, <1>2, <2>0, <2>2, <2>5
      <4>2. k > head /\ j = n - head - RingSize + k + 1 /\ j \in 1..n
        BY <4>1, <2>5, <1>2, <1>4
      <4>3. ring'[k] = recorded[n - head - RingSize + k + 1]
        BY <4>1, <4>2, <2>1, <2>3, <1>2
      <4> HIDE DEF j
      <4>4. recorded'[j] = ring'[k]
        BY <4>2, <4>3, <1>2, <1>b
      <4> QED
        BY <4>4, Zenon DEF j
    <3> QED
      BY <3>1, <3>2, <1>2
  <2>6. /\ count' = IF Len(recorded') < RingSize THEN Len(recorded') ELSE RingSize
        /\ count' < RingSize => head' = count'
    BY <2>2, <1>4
  <2> QED
    BY <2>4, <2>5, <2>6 DEF RingHolds
<1> QED
  BY <1>5, <1>6, <1>7

\* Every step of the logger keeps the invariant.
THEOREM NextIInv == IInv /\ [Next]_vars => IInv'
<1> SUFFICES ASSUME IInv, [Next]_vars PROVE IInv'
  OBVIOUS
<1> USE LoggerAssumption DEF IInv
<1>1. ASSUME NEW w \in Writers, Stamp(w) PROVE IInv'
  <2>1. TypeOK'
    BY <1>1 DEF Stamp, TypeOK, ringVars
  <2>2. LineStamped'
    BY <1>1 DEF Stamp, TypeOK, LineStamped
  <2>3. RingHolds'
    BY <1>1 DEF Stamp, ringVars, RingHolds
  <2> QED
    BY <2>1, <2>2, <2>3
<1>2. ASSUME NEW w \in Writers, Record(w) PROVE IInv'
  BY <1>2, RecordIInv
<1>3. ASSUME NEW w \in Writers, NEW ch \in Channels, Send(w, ch) PROVE IInv'
  <2>1. line[w] \in 1..MaxLines
    BY <1>3 DEF Send, LineStamped
  <2>2. buffer' \in [Channels -> Seq(1..MaxLines)]
    <3>1. Append(buffer[ch], line[w]) \in Seq(1..MaxLines)
      BY <2>1 DEF TypeOK
    <3> QED
      BY <3>1, <1>3 DEF Send, TypeOK
  <2>3. TypeOK'
    BY <1>3, <2>2 DEF Send, TypeOK, ringVars
  <2>4. LineStamped' /\ RingHolds'
    BY <1>3 DEF Send, ringVars, LineStamped, RingHolds
  <2> QED
    BY <2>3, <2>4
<1>4. ASSUME NEW w \in Writers, LogReturns(w) PROVE IInv'
  <2>1. TypeOK'
    BY <1>4 DEF LogReturns, TypeOK, ringVars, NoLine
  <2>2. LineStamped'
    BY <1>4 DEF LogReturns, TypeOK, LineStamped
  <2>3. RingHolds'
    BY <1>4 DEF LogReturns, ringVars, RingHolds
  <2> QED
    BY <2>1, <2>2, <2>3
<1>5. CASE Clear
  <2>1. TypeOK'
    BY <1>5 DEF Clear, TypeOK, callVars
  <2>2. LineStamped'
    BY <1>5 DEF Clear, callVars, LineStamped
  <2>3. RingHolds'
    BY <1>5 DEF Clear, RingHolds
  <2> QED
    BY <2>1, <2>2, <2>3
<1>6. ASSUME Close \/ \E ch \in Channels : Subscribe(ch) \/ Unsubscribe(ch) PROVE IInv'
  <2>1. TypeOK'
    BY <1>6 DEF Close, Subscribe, Unsubscribe, TypeOK, ringVars, callVars
  <2>2. LineStamped' /\ RingHolds'
    BY <1>6 DEF Close, Subscribe, Unsubscribe, ringVars, callVars, LineStamped, RingHolds
  <2> QED
    BY <2>1, <2>2
<1>7. ASSUME NEW ch \in Channels, Receive(ch) PROVE IInv'
  <2>1. Tail(buffer[ch]) \in Seq(1..MaxLines)
    BY <1>7 DEF Receive, TypeOK
  <2>2. TypeOK'
    BY <1>7, <2>1 DEF Receive, TypeOK, ringVars, callVars
  <2>3. LineStamped' /\ RingHolds'
    BY <1>7 DEF Receive, ringVars, callVars, LineStamped, RingHolds
  <2> QED
    BY <2>2, <2>3
<1>8. CASE UNCHANGED vars
  BY <1>8 DEF vars, callVars, ringVars, TypeOK, LineStamped, RingHolds
<1> QED
  BY <1>1, <1>2, <1>3, <1>4, <1>5, <1>6, <1>7, <1>8 DEF Next, LogStep

\* The inductive invariant holds throughout.
THEOREM SpecIInv == Spec => []IInv
  BY InitIInv, NextIInv, PTL DEF Spec

\* Where the lines are in the ring makes Lines the latest ones in order.
LEMMA RingGivesLatest == IInv => LinesAreLatest
<1> SUFFICES ASSUME IInv PROVE LinesAreLatest
  OBVIOUS
<1> USE LoggerAssumption DEF IInv
<1> DEFINE n == Len(recorded)
           m == IF n < RingSize THEN n ELSE RingSize
           first == IF count = RingSize THEN head ELSE 0
<1>1. /\ head \in 0..(RingSize - 1)
      /\ recorded \in Seq(1..MaxLines)
      /\ n \in Nat
      /\ m \in 0..RingSize
      /\ m <= n
      /\ count = m
      /\ count < RingSize => head = count
  BY DEF TypeOK, RingHolds
<1>a. /\ count < RingSize => m = n /\ first = 0
      /\ count = RingSize => m = RingSize /\ first = head
  BY <1>1
<1>b. /\ \A k \in 0..(RingSize - 1) :
            /\ k < head => ring[k] = recorded[n - head + k + 1]
            /\ k >= head /\ count = RingSize =>
                  ring[k] = recorded[n - head - RingSize + k + 1]
  BY DEF RingHolds
<1>c. /\ Lines = [j \in 1..m |-> ring[(first + j - 1) % RingSize]]
      /\ LinesAreLatest <=> Lines = SubSeq(recorded, n - m + 1, n)
  BY <1>1 DEF Lines, LinesAreLatest
<1> HIDE DEF first, m, n
<1>2. ASSUME NEW j \in 1..m
      PROVE  ring[(first + j - 1) % RingSize] = recorded[n - m + j]
  <2> DEFINE k == (first + j - 1) % RingSize
  <2>1. k = IF first + j - 1 < RingSize THEN first + j - 1 ELSE (first + j - 1) - RingSize
    <3> DEFINE h == first + j - 1
    <3>1. h \in Nat /\ h < RingSize + RingSize
      BY <1>1, <1>a
    <3> HIDE DEF h
    <3>2. h % RingSize = IF h < RingSize THEN h ELSE h - RingSize
      BY <3>1, RingWraps
    <3> QED
      BY <3>2, Zenon DEF h
  <2> HIDE DEF k
  <2>2. k \in 0..(RingSize - 1)
    BY <2>1, <1>1, <1>a
  <2>3. CASE k < head
    <3>1. CASE count < RingSize
      <4>1. n - head + k + 1 = n - m + j
        BY <2>1, <3>1, <1>1, <1>a
      <4> QED
        BY <2>2, <2>3, <1>b, <4>1 DEF k
    <3>2. CASE count = RingSize
      <4>0. first = head /\ m = RingSize
        BY <3>2, <1>a
      <4>1. k = (head + j - 1) - RingSize
        BY <2>1, <2>3, <4>0, <1>1
      <4>2. n - head + k + 1 = n - m + j
        BY <4>0, <4>1, <1>1
      <4> QED
        BY <2>2, <2>3, <1>b, <4>2 DEF k
    <3> QED
      BY <3>1, <3>2, <1>1
  <2>4. CASE k >= head
    <3>1. count = RingSize /\ n - head - RingSize + k + 1 = n - m + j
      BY <2>1, <2>2, <2>4, <1>1, <1>a
    <3> QED
      BY <2>2, <2>4, <1>b, <3>1 DEF k
  <2> QED
    BY <2>2, <2>3, <2>4, <1>1
<1>3. SubSeq(recorded, n - m + 1, n) = [j \in 1..m |-> recorded[n - m + j]]
  <2> DEFINE low == n - m + 1
             sub == SubSeq(recorded, low, n)
  <2>1. /\ low \in 1..(n + 1)
        /\ n - low + 1 = m
        /\ \A j \in 1..m : low + j - 1 = n - m + j
    BY <1>1
  <2> HIDE DEF low
  <2>2. \A j \in low..n : recorded[j] \in 1..MaxLines
    BY <2>1, <1>1 DEF n
  <2>3. /\ sub \in Seq(1..MaxLines)
        /\ Len(sub) = IF low <= n THEN n - low + 1 ELSE 0
        /\ \A j \in 1..(n - low + 1) : sub[j] = recorded[low + j - 1]
    BY <2>1, <2>2, <1>1, SubSeqProperties
  <2> HIDE DEF sub
  <2>4. /\ sub = [j \in 1..Len(sub) |-> sub[j]]
        /\ Len(sub) = m
    BY <2>1, <2>3, <1>1
  <2>5. \A j \in 1..m : sub[j] = recorded[n - m + j]
    BY <2>1, <2>3
  <2> QED
    BY <2>4, <2>5 DEF sub, low
<1>4. Lines = [j \in 1..m |-> recorded[n - m + j]]
  BY <1>2, <1>c
<1> QED
  BY <1>3, <1>4, <1>c

\* The logger's variables keep their types; in particular the head stays
\* inside the ring.
THEOREM LoggerTypeOK == Spec => []TypeOK
<1>1. IInv => TypeOK
  BY DEF IInv
<1> QED
  BY <1>1, SpecIInv, PTL

\* Lines returns the latest lines recorded since the last Clear, in order.
THEOREM LoggerLinesAreLatest == Spec => []LinesAreLatest
  BY RingGivesLatest, SpecIInv, PTL

-----------------------------------------------------------------------------
(* The logs window over the logger                                         *)

\* Every step of the composition is a step of the logger or leaves the logger
\* alone: what the window does to the log goes through Clear and Log.
LEMMA ViewerStepIsLoggerStep == [ViewerNext]_viewerVars => [Next]_vars
<1> SUFFICES ASSUME [ViewerNext]_viewerVars PROVE [Next]_vars
  OBVIOUS
<1> USE LogViewerAssumption
<1>1. ASSUME NEW w \in Writers, LogOther(w) PROVE Next
  BY <1>1 DEF LogOther, Next
<1>2. CASE LoggerStep
  BY <1>2 DEF LoggerStep, Next
<1>3. CASE PressClear
  BY <1>3 DEF PressClear, Next
<1>4. CASE LogCleared
  BY <1>4 DEF LogCleared, Next
<1>5. CASE Show \/ PressRefresh \/ SelectLevel \/ CheckAuto \/ UncheckAuto \/ CloseWindow
  BY <1>5 DEF Show, PressRefresh, SelectLevel, CheckAuto, UncheckAuto, CloseWindow
<1>6. CASE AutoTick \/ AutoEnds \/ RunPosted \/ ClearReturns
  BY <1>6 DEF AutoTick, AutoEnds, RunPosted, ClearReturns
<1>7. CASE UNCHANGED viewerVars
  BY <1>7 DEF viewerVars
<1> QED
  BY <1>1, <1>2, <1>3, <1>4, <1>5, <1>6, <1>7 DEF ViewerNext

\* The composition implements the logger on its own.
THEOREM ViewerImplementsLogger == ViewerSpec => Spec
<1>1. ViewerInit => Init
  BY DEF ViewerInit
<1> QED
  BY <1>1, ViewerStepIsLoggerStep, PTL DEF ViewerSpec, Spec

\* So the types and the order of the lines hold whatever the window does.
THEOREM ViewerKeepsLogger == ViewerSpec => [](TypeOK /\ LinesAreLatest)
  BY ViewerImplementsLogger, LoggerTypeOK, LoggerLinesAreLatest, PTL

\* The reference to the stop channel is there exactly while one goroutine is
\* at work, and only for a visible window whose box is checked.
OneGoroutine ==
    /\ working = IF stopAuto THEN 1 ELSE 0
    /\ stopAuto => visible /\ checked

\* Every handler, and every step between two, keeps that so.
LEMMA OneGoroutineHolds == ViewerSpec => []OneGoroutine
<1>1. ViewerInit => OneGoroutine
  BY DEF ViewerInit, OneGoroutine
<1>2. OneGoroutine /\ [ViewerNext]_viewerVars => OneGoroutine'
  <2> SUFFICES ASSUME OneGoroutine, [ViewerNext]_viewerVars PROVE OneGoroutine'
    OBVIOUS
  <2>1. CASE CheckAuto
    BY <2>1 DEF CheckAuto, OneGoroutine
  <2>2. CASE UncheckAuto
    BY <2>2 DEF UncheckAuto, StopAutoRefresh, OneGoroutine
  <2>3. CASE CloseWindow
    BY <2>3 DEF CloseWindow, StopAutoRefresh, OneGoroutine
  <2>4. CASE Show
    BY <2>4 DEF Show, autoVars, OneGoroutine
  <2>5. CASE PressRefresh \/ SelectLevel \/ AutoTick \/ AutoEnds \/ RunPosted
    BY <2>5 DEF PressRefresh, SelectLevel, AutoTick, AutoEnds, RunPosted, autoVars, OneGoroutine
  <2>6. CASE PressClear \/ LogCleared \/ ClearReturns
    BY <2>6 DEF PressClear, LogCleared, ClearReturns, autoVars, OneGoroutine
  <2>7. CASE UNCHANGED windowVars
    BY <2>7 DEF windowVars, autoVars, OneGoroutine
  <2> QED
    BY <2>1, <2>2, <2>3, <2>4, <2>5, <2>6, <2>7
    DEF ViewerNext, LogOther, LoggerStep, viewerVars
<1> QED
  BY <1>1, <1>2, PTL DEF ViewerSpec

\* At most one refreshing goroutine is at work, and only for a visible window
\* whose box is checked (startAutoRefresh, stopAutoRefresh, the close hook).
THEOREM LogsWindowWorksOnlyWhenAsked == ViewerSpec => []WorksOnlyWhenAsked
<1>1. OneGoroutine => WorksOnlyWhenAsked
  BY DEF OneGoroutine, WorksOnlyWhenAsked
<1> QED
  BY <1>1, OneGoroutineHolds, PTL

\* Checking the box starts a goroutine, which works until the box is unchecked
\* or the window closed; a window shown again begins without one.
THEOREM LogsWindowRefreshesUntilClosed == ViewerSpec => RefreshesUntilClosed
<1> DEFINE Asked == /\ checked' /\ ~checked => working' = 1
                    /\ working = 1 /\ visible' /\ checked' => working' = 1
                    /\ visible' /\ ~visible => working' = 0
<1>1. OneGoroutine /\ [ViewerNext]_viewerVars => [Asked]_viewerVars
  <2> SUFFICES ASSUME OneGoroutine, ViewerNext PROVE Asked
    OBVIOUS
  <2>1. CASE CheckAuto
    BY <2>1 DEF CheckAuto, OneGoroutine
  <2>2. CASE UncheckAuto
    BY <2>2 DEF UncheckAuto, OneGoroutine
  <2>3. CASE CloseWindow
    BY <2>3 DEF CloseWindow
  <2>4. CASE Show
    BY <2>4 DEF Show, autoVars, OneGoroutine
  <2>5. CASE PressRefresh \/ SelectLevel \/ AutoTick \/ AutoEnds \/ RunPosted
    BY <2>5 DEF PressRefresh, SelectLevel, AutoTick, AutoEnds, RunPosted, autoVars
  <2>6. CASE PressClear \/ LogCleared \/ ClearReturns
    BY <2>6 DEF PressClear, LogCleared, ClearReturns, autoVars
  <2>7. CASE UNCHANGED windowVars
    BY <2>7 DEF windowVars, autoVars
  <2> QED
    BY <2>1, <2>2, <2>3, <2>4, <2>5, <2>6, <2>7 DEF ViewerNext, LogOther, LoggerStep
<1> QED
  BY <1>1, OneGoroutineHolds, PTL DEF ViewerSpec, RefreshesUntilClosed
=============================================================================
