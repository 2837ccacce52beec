------------------------------- MODULE Player -------------------------------
(***************************************************************************)
(* The lower half of viz3.html: the trace, the analysis and the result     *)
(* that are loaded, the position in the trace, the interval timer that     *)
(* plays it, and what the page shows of all this since it was last         *)
(* rendered.  As in Editor.tla each handler is one action.                 *)
(*                                                                         *)
(* What is loaded is of a run, {r} with r the request it was made for, or  *)
(* of a file, {}.  What an analysis, a result or a state says is left out. *)
(***************************************************************************)
EXTENDS Integers

CONSTANT Timer  \* the handles that setInterval returns

VARIABLES
    trace,      \* the trace, if one is loaded: whose, and how many states
    analysis,   \* the analysis, if one is loaded: whose
    result,     \* the result, if there is one: whose
    index,
    timer,      \* the handle in `timer`, if it is not null
    live,       \* the intervals that the browser has running
    shown,      \* what the inspector shows, if it is not hidden
    controls    \* the number of states and the position as last told to the
                \* slider and the buttons

player_vars == <<trace, analysis, result, index, timer, live, shown, controls>>

States(t) == IF \E x \in t : x.states > 0 THEN (CHOOSE x \in t : TRUE).states ELSE 0
Count     == States(trace)

-----------------------------------------------------------------------------
\* Faulty variant: the interval is forgotten but goes on.
HaltForgetting ==
    /\ timer' = {}
    /\ UNCHANGED live

\* stop()
Halt ==
    /\ timer' = {}
    /\ live' = live \ timer

KeepTimer == UNCHANGED <<timer, live>>

\* render() for the new trace, analysis and result at position i, with the
\* timer stopped or not before; renderEmptyTrace() stops it and leaves index.
RenderAt(i, Before) ==
    LET count == States(trace')
        at    == IF i < count THEN i ELSE count - 1
    IN  \/ /\ count = 0
           /\ Halt
           /\ index' = i
           /\ shown' = {}
           /\ controls' = [count |-> 0, index |-> 0]
        \/ /\ count > 0
           /\ Before
           /\ index' = at
           /\ shown' = {[trace |-> trace', analysis |-> analysis', result |-> result',
                         index |-> at]}
           /\ controls' = [count |-> count, index |-> at]

\* play()
Start ==
    /\ Count >= 2
    /\ index' = IF index >= Count - 1 THEN 0 ELSE index
    /\ \E t \in Timer \ live : timer' = {t} /\ live' = live \cup {t}
    /\ UNCHANGED <<trace, analysis, result, shown, controls>>

\* playBtn "click"
TogglePlay ==
    /\ controls.count >= 2
    /\ \/ /\ timer # {}
          /\ Halt
          /\ UNCHANGED <<trace, analysis, result, index, shown, controls>>
       \/ /\ timer = {}
          /\ Start

\* prevBtn "click"
Previous ==
    /\ controls.count > 0 /\ controls.index # 0
    /\ UNCHANGED <<trace, analysis, result>>
    /\ \/ /\ index > 0
          /\ RenderAt(index - 1, Halt)
       \/ /\ index = 0
          /\ Halt
          /\ UNCHANGED <<index, shown, controls>>

\* nextBtn "click"
NextStep ==
    /\ controls.index < controls.count - 1
    /\ UNCHANGED <<trace, analysis, result>>
    /\ \/ /\ index < Count - 1
          /\ RenderAt(index + 1, Halt)
       \/ /\ index >= Count - 1
          /\ Halt
          /\ UNCHANGED <<index, shown, controls>>

\* stepSlider "input"
Slide(i) ==
    /\ i \in 0 .. controls.count - 1
    /\ UNCHANGED <<trace, analysis, result>>
    /\ RenderAt(i, Halt)

\* speedInput "change" while playing: stop(), then play(), with a new handle
ChangeSpeed ==
    /\ timer # {}
    /\ Count >= 2
    /\ index' = IF index >= Count - 1 THEN 0 ELSE index
    /\ \E t \in Timer \ live : timer' = {t} /\ live' = (live \ timer) \cup {t}
    /\ UNCHANGED <<trace, analysis, result, shown, controls>>

\* Faulty variant: the position is rendered, and not moved.
TickInPlace(t) ==
    /\ t \in live
    /\ UNCHANGED <<trace, analysis, result>>
    /\ RenderAt(index, KeepTimer)

\* The callback of an interval.
Tick(t) ==
    /\ t \in live
    /\ UNCHANGED <<trace, analysis, result>>
    /\ \/ /\ index >= Count - 1
          /\ Halt
          /\ controls' = [count |-> Count, index |-> index]
          /\ UNCHANGED <<index, shown>>
       \/ /\ index < Count - 1
          /\ RenderAt(index + 1, KeepTimer)

\* Faulty variant: the result of the last run stays.
ImportTraceKeepsResult(n) ==
    /\ trace' = {[of |-> {}, states |-> n]}
    /\ UNCHANGED <<analysis, result>>
    /\ RenderAt(0, Halt)

\* importJson of a trace of n states; the analysis stays
ImportTrace(n) ==
    /\ trace' = {[of |-> {}, states |-> n]}
    /\ result' = {}
    /\ UNCHANGED analysis
    /\ RenderAt(0, Halt)

\* Faulty variant: a new analysis is shown with the next step.
ImportAnalysisUnrendered ==
    /\ analysis' = {{}}
    /\ UNCHANGED <<trace, result, index, timer, live, shown, controls>>

\* importJson of an analysis; without a trace, playing stops
ImportAnalysis ==
    /\ analysis' = {{}}
    /\ UNCHANGED <<trace, result>>
    /\ RenderAt(index, KeepTimer)

\* runBtn "click", once it has the payload: a run has at least the state it
\* starts in and the step that ends it.  Playing goes on.
ShowRun(r, n) ==
    /\ trace' = {[of |-> {r}, states |-> n]}
    /\ analysis' = {{r}}
    /\ result' = {{r}}
    /\ RenderAt(0, KeepTimer)

PlayerInit ==
    /\ trace = {}
    /\ analysis = {}
    /\ result = {}
    /\ index = 0
    /\ timer = {}
    /\ live = {}
    /\ shown = {}
    /\ controls = [count |-> 0, index |-> 0]
=============================================================================
