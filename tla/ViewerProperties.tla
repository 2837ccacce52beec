-------------------------- MODULE ViewerProperties --------------------------
(***************************************************************************)
(* What a user of the page relies on, whatever order clicks, edits, files, *)
(* ticks and answers come in.  "Understood" is a source that               *)
(* inferredInputRegisters does not throw for.                              *)
(***************************************************************************)
EXTENDS Viewer, FiniteSets

AtMostOne(S)  == \A x, y \in S : x = y
Understood(s) == Needs[s] # {}
Requests      == Work

\* The type invariant: every part is what its comment says, positions are in
\* the trace, and what is restored on a start is used up by it.
TypeOK ==
    /\ source \in Source /\ fields \in Fields /\ restored \in Fields
    /\ runnable \in BOOLEAN
    /\ request \subseteq Requests /\ AtMostOne(request)
    /\ draft \subseteq Work /\ AtMostOne(draft)
    /\ AtMostOne(trace) /\ AtMostOne(analysis) /\ AtMostOne(result)
    /\ \A t \in trace : index \in 0 .. t.states
    /\ Understood(source) => \A regs \in Needs[source] : DOMAIN fields = regs
    /\ live \subseteq Timer /\ controls.index \in 0 .. controls.count

-----------------------------------------------------------------------------
(* The run button can be clicked when there is a program, its fields are   *)
(* filled in and no run is under way, and at no other time: no handler     *)
(* leaves it as it was for another text (updateRunReadiness and who calls  *)
(* it).  While the text is not understood, that promise is suspended.      *)
RunButtonIsCurrent ==
    Understood(source) =>
        (runnable <=> /\ request = {}
                      /\ source # Blank
                      /\ \A regs \in Needs[source] :
                            \A r \in regs : r \in DOMAIN fields /\ fields[r] \in Filled)

(* A run that is under way was started with a number for each register     *)
(* that its own source reads, and one cannot be started on top of it,      *)
(* whatever was typed meanwhile (runBtn "click", collectRegisterInputs).   *)
RequestsAreComplete ==
    \A r \in request :
        /\ ~runnable
        /\ r.source # Blank
        /\ \A regs \in Needs[r.source] :
              \A reg \in regs : reg \in DOMAIN r.fields /\ r.fields[reg] \in Filled

(* Together: runs are started right (updateRunReadiness, runBtn "click").  *)
RunsAreStartedRight == RunButtonIsCurrent /\ RequestsAreComplete

(* A reload brings back the program and the values as they were, and a     *)
(* second one changes nothing (persistDraft, restoreDraft), as long as the *)
(* text is understood.  Before anything is typed there is nothing to lose. *)
ReloadKeepsWork ==
    [][Reload /\ Understood(source) => UNCHANGED <<source, fields>>]_vars

-----------------------------------------------------------------------------
(* What is loaded is of one run, but for files: a result is never shown    *)
(* with another run's trace or analysis, and a file's trace never with a   *)
(* result (runBtn "click", importJson).                                    *)
OneRunIsLoaded ==
    /\ \A r \in result : \E t \in trace : t.of = r
    /\ \A t \in trace : \A a \in analysis : t.of # {} /\ a # {} => a = t.of

(* The inspector shows what is loaded, at the position the buttons go on   *)
(* from, and it is hidden if there is no state to show.  The exception is  *)
(* playing at the end, which starts over at the first state but shows the  *)
(* last one until the first tick; stopped before it, the page and its      *)
(* buttons stay at the last (render, play).                                *)
StartedOver(i) == index = 0 /\ i = Count - 1

InspectorIsCurrent ==
    /\ shown = {} <=> Count = 0
    /\ controls.count = Count
    /\ \A s \in shown :
          /\ s.trace = trace /\ s.analysis = analysis /\ s.result = result
          /\ s.index = controls.index
          /\ s.index = index \/ StartedOver(s.index)

(* At most one interval runs, and Pause stops it: it is the one in `timer` *)
(* (stop, play).  It runs only over a trace with somewhere to go.          *)
NoStrayInterval ==
    /\ live = timer
    /\ AtMostOne(live)
    /\ live # {} => Count >= 2

(* An interval that play() starts brings the page to the end of the trace, *)
(* unless it is stopped or replaced first, as by a change of the speed;    *)
(* runs and analyses may come in while it plays (the callback of play).    *)
PlaybackReachesTheEnd ==
    \A t \in Timer : (timer = {t}) ~> (timer # {t} \/ index >= Count - 1)

(* What the page says of its fields, "the registers it reads before        *)
(* assigning" (inputGuidance): each field is for a register that the       *)
(* program in the editor reads so.  Where the browser cannot say, because  *)
(* the entry is behind the last instruction, the program reads none.       *)
FieldsAreOfTheSource ==
    DOMAIN fields \subseteq UNION Needs[source]
=============================================================================
