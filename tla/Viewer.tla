------------------------------- MODULE Viewer -------------------------------
(***************************************************************************)
(* The page viz3.html as a whole: the editor and the player, which meet in *)
(* the run button's handler, the answer to its request, and a reload.      *)
(* The server is seen as its answers: a run that succeeded, or none.       *)
(*                                                                         *)
(* A user does some things and not others; what one may do, and how long   *)
(* the traces of runs that succeed are, is chosen at the start.            *)
(***************************************************************************)
EXTENDS Editor, Player

CONSTANT Users  \* what there is to type, fill in, run and import

ASSUME ViewerAssumption ==
    Users \subseteq [sources : SUBSET Source, values : SUBSET Value,
                     runs : SUBSET (Nat \ {0, 1}), traces : SUBSET Nat,
                     analyses : BOOLEAN, reloads : BOOLEAN]

VARIABLE user

vars == <<user, editor_vars, player_vars>>

-----------------------------------------------------------------------------
EditorStep ==
    /\ \/ \E s \in user.sources : Edit(s) \/ Replace(s)
       \/ Replace(Blank)
       \/ \E e \in Example \cap user.sources : UseExample(e)
       \/ \E r \in Register, v \in user.values : SetField(r, v)
       \/ Configure
    /\ UNCHANGED <<user, player_vars>>

PlayerStep ==
    /\ \/ TogglePlay
       \/ ChangeSpeed
       \/ Previous
       \/ NextStep
       \/ \E i \in 0 .. controls.count - 1 : Slide(i)
       \/ \E n \in user.traces : ImportTrace(n)
       \/ user.analyses /\ ImportAnalysis
    /\ UNCHANGED <<user, editor_vars>>

Playback(t) ==
    /\ Tick(t)
    /\ UNCHANGED <<user, editor_vars>>

\* runBtn "click": stop(), then the request
ClickRun ==
    /\ Submit
    /\ Halt
    /\ UNCHANGED <<user, trace, analysis, result, index, shown, controls>>

\* The answer: a payload with a trace, or an error, which leaves what is
\* loaded.
Answer ==
    /\ Finish
    /\ \/ \E r \in request, n \in user.runs : ShowRun(r, n)
       \/ UNCHANGED player_vars
    /\ UNCHANGED user

\* The page is opened anew: timers and a run under way are gone with the old.
Reload ==
    /\ user.reloads
    /\ Boot(draft)
    /\ trace' = {} /\ analysis' = {} /\ result' = {} /\ index' = 0
    /\ timer' = {} /\ live' = {} /\ shown' = {}
    /\ controls' = [count |-> 0, index |-> 0]
    /\ UNCHANGED user

Init ==
    /\ user \in Users
    /\ EditorInit
    /\ PlayerInit

Next ==
    \/ EditorStep \/ PlayerStep \/ ClickRun \/ Answer \/ Reload
    \/ \E t \in live : Playback(t)

\* setInterval promises calls of its callback to an interval that stays.  A
\* new one waits for its first call anew, so a user who keeps changing the
\* speed, or stopping and playing, sees none; nothing is asked of the user.
Fairness == \A t \in Timer : WF_vars(Playback(t))

Spec == Init /\ [][Next]_vars /\ Fairness
=============================================================================
