----------------------------- MODULE LogViewer -----------------------------
(***************************************************************************)
(* internal/ui/logs_win.go over the logger: the logs window, its check box *)
(* for automatic refreshing, and the goroutine that box starts.            *)
(*                                                                         *)
(* Everything the window does runs on the UI thread; the goroutine only    *)
(* posts Refresh to it (fyne.Do).  The UI thread is one of the logger's    *)
(* writers: the clear button logs a line before it refreshes the view.     *)
(***************************************************************************)
EXTENDS Logger

CONSTANTS
    UI,          \* the writer that is the UI thread
    Errors,      \* the lines whose level is ERROR
    MaxEnding,   \* bound on goroutines told to stop that have not ended yet
    MaxPosted    \* bound on refreshes posted and not yet run

ASSUME LogViewerAssumption ==
    /\ UI \in Writers
    /\ Errors \subseteq 1..MaxLines
    /\ MaxEnding \in Nat
    /\ MaxPosted \in Nat

VARIABLES
    visible,     \* the window is shown
    checked,     \* the auto-refresh box
    level,       \* the level filter
    stopAuto,    \* l.stopAuto is not nil
    working,     \* goroutines at work, not told to stop
    ending,      \* goroutines whose stop channel is closed
    posted,      \* refreshes posted to the UI thread
    clearing,    \* how far the clear button's handler has come
    view         \* the lines displayed

autoVars == <<stopAuto, working, ending>>
windowVars == <<visible, checked, level, autoVars, posted, clearing, view>>
viewerVars == <<vars, windowVars>>

ViewerInit ==
    /\ Init
    /\ visible = FALSE
    /\ checked = FALSE
    /\ level = "all"
    /\ stopAuto = FALSE
    /\ working = 0
    /\ ending = 0
    /\ posted = 0
    /\ clearing = "no"
    /\ view = <<>>

-----------------------------------------------------------------------------
\* The UI thread is between two handlers.
UiIdle == pc[UI] = "idle" /\ clearing = "no"

\* The lines of a level.
filterLines(ls, lv) ==
    IF lv = "all" THEN ls ELSE SelectSeq(ls, LAMBDA l : l \in Errors)

\* Refresh as it leaves the view, the ring being unchanged.
Refresh == view' = filterLines(Lines, level)

\* The tray's entry.
Show ==
    /\ UiIdle
    /\ visible' = TRUE
    /\ Refresh
    /\ UNCHANGED <<vars, checked, level, autoVars, posted, clearing>>

PressRefresh ==
    /\ UiIdle
    /\ visible
    /\ Refresh
    /\ UNCHANGED <<vars, visible, checked, level, autoVars, posted, clearing>>

\* Choosing a level refreshes the view with it.
SelectLevel ==
    /\ UiIdle
    /\ visible
    /\ level' \in {"all", "ERROR"} \ {level}
    /\ view' = filterLines(Lines, level')
    /\ UNCHANGED <<vars, visible, checked, autoVars, posted, clearing>>

\* The box is checked: startAutoRefresh, unless a goroutine is at work.
CheckAuto ==
    /\ UiIdle
    /\ visible
    /\ ~checked
    /\ checked' = TRUE
    /\ stopAuto' = TRUE
    /\ working' = IF stopAuto THEN working ELSE working + 1
    /\ UNCHANGED <<vars, visible, level, ending, posted, clearing, view>>

\* Mutant: stopAutoRefresh keeps the channel it has closed.
StopAutoKeepsChannel ==
    /\ stopAuto' = stopAuto
    /\ working' = IF stopAuto THEN working - 1 ELSE working
    /\ ending' = IF stopAuto THEN ending + 1 ELSE ending

\* stopAutoRefresh: close the channel of the goroutine at work, if any.
StopAutoRefresh ==
    /\ stopAuto' = FALSE
    /\ working' = IF stopAuto THEN working - 1 ELSE working
    /\ ending' = IF stopAuto THEN ending + 1 ELSE ending

UncheckAuto ==
    /\ UiIdle
    /\ visible
    /\ checked
    /\ stopAuto => ending < MaxEnding
    /\ checked' = FALSE
    /\ StopAutoRefresh
    /\ UNCHANGED <<vars, visible, level, posted, clearing, view>>

\* Mutant: closing the window only hides it.
CloseOnlyHides ==
    /\ UiIdle
    /\ visible
    /\ visible' = FALSE
    /\ UNCHANGED <<vars, checked, level, autoVars, posted, clearing, view>>

\* Closing the window stops the goroutine and leaves the box as it is.
CloseWindow ==
    /\ UiIdle
    /\ visible
    /\ stopAuto => ending < MaxEnding
    /\ visible' = FALSE
    /\ StopAutoRefresh
    /\ UNCHANGED <<vars, checked, level, posted, clearing, view>>

\* The goroutine's select: with its channel closed and a tick pending it may
\* take either.
AutoTick ==
    /\ working + ending > 0
    /\ posted < MaxPosted
    /\ posted' = posted + 1
    /\ UNCHANGED <<vars, visible, checked, level, autoVars, clearing, view>>

AutoEnds ==
    /\ ending > 0
    /\ ending' = ending - 1
    /\ UNCHANGED <<vars, visible, checked, level, stopAuto, working, posted, clearing, view>>

\* Mutant: a view of the right length is taken to be up to date.
RunPostedByLength ==
    /\ UiIdle
    /\ posted > 0
    /\ posted' = posted - 1
    /\ view' = IF Len(view) = count THEN view ELSE filterLines(Lines, level)
    /\ UNCHANGED <<vars, visible, checked, level, autoVars, clearing>>

RunPosted ==
    /\ UiIdle
    /\ posted > 0
    /\ posted' = posted - 1
    /\ Refresh
    /\ UNCHANGED <<vars, visible, checked, level, autoVars, clearing>>

\* The clear button: empty the ring, log that it was cleared, refresh.
PressClear ==
    /\ UiIdle
    /\ visible
    /\ now < MaxLines
    /\ Clear
    /\ clearing' = "logging"
    /\ UNCHANGED <<visible, checked, level, autoVars, posted, view>>

LogCleared ==
    /\ clearing = "logging"
    /\ Stamp(UI)
    /\ clearing' = "logged"
    /\ UNCHANGED <<visible, checked, level, autoVars, posted, view>>

ClearReturns ==
    /\ clearing = "logged"
    /\ pc[UI] = "idle"
    /\ clearing' = "no"
    /\ Refresh
    /\ UNCHANGED <<vars, visible, checked, level, autoVars, posted>>

-----------------------------------------------------------------------------
\* Any other line.  The last one within the bound is kept for LogCleared.
LogOther(w) ==
    /\ w = UI => UiIdle
    /\ clearing = "logging" => now + 1 < MaxLines
    /\ Stamp(w)
    /\ UNCHANGED windowVars

\* The rest of the logger, whoever calls it.
LoggerStep ==
    /\ UNCHANGED windowVars
    /\ \/ \E w \in Writers : LogStep(w)
       \/ UiIdle /\ Close
       \/ \E ch \in Channels : Subscribe(ch) \/ Unsubscribe(ch) \/ Receive(ch)

ViewerNext ==
    \/ \E w \in Writers : LogOther(w)
    \/ LoggerStep
    \/ Show \/ PressRefresh \/ SelectLevel
    \/ CheckAuto \/ UncheckAuto \/ CloseWindow
    \/ AutoTick \/ AutoEnds \/ RunPosted
    \/ PressClear \/ LogCleared \/ ClearReturns

ViewerSpec == ViewerInit /\ [][ViewerNext]_viewerVars

\* Calls of Log go on, the goroutine's ticker keeps ticking, and the UI
\* thread ends the handler it is in and runs what is posted to it.  Nobody
\* is obliged to press anything.
FairViewerSpec ==
    /\ ViewerSpec
    /\ \A w \in Writers : WF_viewerVars(LogStep(w) /\ UNCHANGED windowVars)
    /\ WF_viewerVars(AutoTick)
    /\ WF_viewerVars(AutoEnds)
    /\ WF_viewerVars(RunPosted)
    /\ WF_viewerVars(LogCleared)
    /\ WF_viewerVars(ClearReturns)

-----------------------------------------------------------------------------
(* Properties                                                              *)

\* startAutoRefresh, stopAutoRefresh and the close hook together: at most one
\* goroutine is at work, and only for a visible window whose box is checked,
\* through any checking, closing and reopening.
WorksOnlyWhenAsked == working <= (IF visible /\ checked THEN 1 ELSE 0)

\* Checking the box always starts the refreshing, and this lasts until the
\* box is unchecked or the window closed.  A window that is opened again does
\* not refresh, whatever its box says: there the code falls short of the
\* comment on autoRefreshInterval, which has the view refresh itself "while
\* auto-refresh is enabled and the window is visible".
RefreshesUntilClosed ==
    [][/\ checked' /\ ~checked => working' = 1
       /\ working = 1 /\ visible' /\ checked' => working' = 1
       /\ visible' /\ ~visible => working' = 0]_viewerVars

\* While a goroutine is at work the view comes to show what the ring holds of
\* the selected level, whatever is logged and cleared meanwhile.
ViewCatchesUp ==
    working > 0 ~> (view = filterLines(Lines, level) \/ working = 0)
=============================================================================
