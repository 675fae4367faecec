------------------------------- MODULE Logger -------------------------------
(***************************************************************************)
(* internal/logging/logger.go: the ring buffer behind the log viewer and   *)
(* delivery to subscribed channels.                                        *)
(*                                                                         *)
(* Log stamps its line before it takes l.mu, records it under the lock,    *)
(* and sends it to the channels that were subscribed then after it has     *)
(* released the lock.  A line is the moment it was stamped; level and text *)
(* do not matter here.                                                     *)
(***************************************************************************)
EXTENDS Naturals, Sequences

CONSTANTS
    Writers,     \* goroutines that log
    Channels,    \* channels that may be subscribed
    RingSize,    \* lines kept in memory
    Capacity,    \* buffer size of a subscribed channel
    MaxLines     \* bound on the number of lines logged

ASSUME LoggerAssumption ==
    /\ RingSize \in Nat \ {0}
    /\ Capacity \in Nat
    /\ MaxLines \in Nat

VARIABLES
    now,            \* lines stamped so far
    pc, line,       \* where each call of Log is, and its line
    targets,        \* the channels it has yet to send to
    ring, head, count,
    open,           \* l.file is not nil
    subscribers,
    buffer,         \* the content of each channel
    recorded        \* history: the lines recorded since the last Clear

callVars == <<pc, line, targets>>
ringVars == <<ring, head, count, recorded>>
vars == <<now, callVars, ringVars, open, subscribers, buffer>>

NoLine == 0

Init ==
    /\ now = 0
    /\ pc = [w \in Writers |-> "idle"]
    /\ line = [w \in Writers |-> NoLine]
    /\ targets = [w \in Writers |-> {}]
    /\ ring = [j \in 0..(RingSize - 1) |-> NoLine]
    /\ head = 0
    /\ count = 0
    /\ open = TRUE
    /\ subscribers = {}
    /\ buffer = [ch \in Channels |-> <<>>]
    /\ recorded = <<>>

-----------------------------------------------------------------------------
\* Log takes the time and formats its line, without the lock.
Stamp(w) ==
    /\ pc[w] = "idle"
    /\ now < MaxLines
    /\ now' = now + 1
    /\ line' = [line EXCEPT ![w] = now + 1]
    /\ pc' = [pc EXCEPT ![w] = "stamped"]
    /\ UNCHANGED <<targets, ringVars, open, subscribers, buffer>>

\* Mutant: the head does not wrap.
AppendRingPastEnd(l) ==
    /\ ring' = [ring EXCEPT ![head] = l]
    /\ head' = head + 1
    /\ count' = IF count < RingSize THEN count + 1 ELSE count
    /\ recorded' = Append(recorded, l)

AppendRing(l) ==
    /\ ring' = [ring EXCEPT ![head] = l]
    /\ head' = (head + 1) % RingSize
    /\ count' = IF count < RingSize THEN count + 1 ELSE count
    /\ recorded' = Append(recorded, l)

\* Log's critical section.  While the file is open the line is also written
\* to it; a failed write is ignored, and nothing reads the file back, so its
\* contents are left out.
Record(w) ==
    /\ pc[w] = "stamped"
    /\ AppendRing(line[w])
    /\ targets' = [targets EXCEPT ![w] = subscribers]
    /\ pc' = [pc EXCEPT ![w] = "sending"]
    /\ UNCHANGED <<now, line, open, subscribers, buffer>>

\* Mutant: Log waits for a slow subscriber instead of dropping the line.
SendWaits(w, ch) ==
    /\ pc[w] = "sending"
    /\ ch \in targets[w]
    /\ targets' = [targets EXCEPT ![w] = @ \ {ch}]
    /\ Len(buffer[ch]) < Capacity
    /\ buffer' = [buffer EXCEPT ![ch] = Append(@, line[w])]
    /\ UNCHANGED <<now, pc, line, ringVars, open, subscribers>>

\* One turn of the loop over the channels, in an order the map decides; the
\* channel may have been unsubscribed meanwhile.
Send(w, ch) ==
    /\ pc[w] = "sending"
    /\ ch \in targets[w]
    /\ targets' = [targets EXCEPT ![w] = @ \ {ch}]
    /\ buffer' = IF Len(buffer[ch]) < Capacity
                 THEN [buffer EXCEPT ![ch] = Append(@, line[w])]
                 ELSE buffer
    /\ UNCHANGED <<now, pc, line, ringVars, open, subscribers>>

LogReturns(w) ==
    /\ pc[w] = "sending"
    /\ targets[w] = {}
    /\ pc' = [pc EXCEPT ![w] = "idle"]
    /\ line' = [line EXCEPT ![w] = NoLine]
    /\ UNCHANGED <<now, targets, ringVars, open, subscribers, buffer>>

\* Mutant: Clear leaves the head where it is.
ClearCountOnly ==
    /\ count' = 0
    /\ recorded' = <<>>
    /\ UNCHANGED <<now, callVars, ring, head, open, subscribers, buffer>>

Clear ==
    /\ head' = 0
    /\ count' = 0
    /\ recorded' = <<>>
    /\ UNCHANGED <<now, callVars, ring, open, subscribers, buffer>>

\* shutdown closes the log before the timer's last cycle has ended: Log goes
\* on being called.
Close ==
    /\ open' = FALSE
    /\ UNCHANGED <<now, callVars, ringVars, subscribers, buffer>>

Subscribe(ch) ==
    /\ subscribers' = subscribers \cup {ch}
    /\ UNCHANGED <<now, callVars, ringVars, open, buffer>>

Unsubscribe(ch) ==
    /\ subscribers' = subscribers \ {ch}
    /\ UNCHANGED <<now, callVars, ringVars, open, buffer>>

\* The subscriber takes a line from its channel, or never does.
Receive(ch) ==
    /\ buffer[ch] # <<>>
    /\ buffer' = [buffer EXCEPT ![ch] = Tail(@)]
    /\ UNCHANGED <<now, callVars, ringVars, open, subscribers>>

LogStep(w) == Record(w) \/ (\E ch \in Channels : Send(w, ch)) \/ LogReturns(w)

Next ==
    \/ \E w \in Writers : Stamp(w) \/ LogStep(w)
    \/ Clear \/ Close
    \/ \E ch \in Channels : Subscribe(ch) \/ Unsubscribe(ch) \/ Receive(ch)

Spec == Init /\ [][Next]_vars

\* A call of Log goes on.  Nothing is asked of the subscribers.
FairSpec == Spec /\ \A w \in Writers : WF_vars(LogStep(w))

-----------------------------------------------------------------------------
\* Lines: the oldest is at the head once the ring is full, else at 0.
Lines ==
    LET first == IF count = RingSize THEN head ELSE 0
    IN  [j \in 1..count |-> ring[(first + j - 1) % RingSize]]

(* Properties                                                              *)

TypeOK ==
    /\ now \in 0..MaxLines
    /\ pc \in [Writers -> {"idle", "stamped", "sending"}]
    /\ line \in [Writers -> 0..MaxLines]
    /\ targets \in [Writers -> SUBSET Channels]
    /\ ring \in [0..(RingSize - 1) -> 0..MaxLines]
    /\ head \in 0..(RingSize - 1)
    /\ count \in 0..RingSize
    /\ open \in BOOLEAN
    /\ subscribers \in SUBSET Channels
    /\ buffer \in [Channels -> Seq(1..MaxLines)]
    /\ recorded \in Seq(1..MaxLines)

\* The viewer shows the last RingSize lines recorded since the last Clear,
\* in the order they were recorded, wherever the head had got to when the
\* ring was cleared.
LinesAreLatest ==
    LET n == Len(recorded)
        m == IF n < RingSize THEN n ELSE RingSize
    IN  Lines = SubSeq(recorded, n - m + 1, n)

\* No call of Log is held up by a subscriber that does not receive.
LogNeverBlocks == \A w \in Writers : pc[w] # "idle" ~> pc[w] = "idle"
=============================================================================
