---------------------------- MODULE ViewerProofs ----------------------------
(***************************************************************************)
(* The safety properties of ViewerProperties.tla, for every set of texts,  *)
(* registers, values, timers and users.  The editor and the player have an *)
(* inductive invariant each; they meet in three steps of the page.         *)
(***************************************************************************)
EXTENDS ViewerProperties, TLAPS

-----------------------------------------------------------------------------
(* The player. *)

PlayerTypes ==
    /\ AtMostOne(trace) /\ AtMostOne(analysis) /\ AtMostOne(result)
    /\ \A t \in trace : t.states \in Nat
    /\ index \in Nat
    /\ Count > 0 => index < Count
    /\ Count = 0 /\ trace # {} => index = 0
    /\ live \subseteq Timer
    /\ controls.index \in 0 .. controls.count

PlayerInv == PlayerTypes /\ InspectorIsCurrent /\ NoStrayInterval /\ OneRunIsLoaded

(* A trace has as many states as the page counts, none at all has none.    *)
LEMMA CountOfTrace ==
    ASSUME NEW T, AtMostOne(T), \A t \in T : t.states \in Nat
    PROVE  States(T) \in Nat /\ \A t \in T : States(T) = t.states
<1>1. CASE \E x \in T : x.states > 0
  <2>1. PICK x \in T : x.states > 0
    BY <1>1
  <2>2. \A t \in T : t = x
    BY DEF AtMostOne
  <2>3. (CHOOSE y \in T : TRUE) = x
    BY <2>2
  <2> QED
    BY <1>1, <2>1, <2>2, <2>3 DEF States
<1>2. CASE ~ \E x \in T : x.states > 0
  BY <1>2 DEF States
<1> QED
  BY <1>1, <1>2

(* After render() the inspector and the buttons are right, whatever they   *)
(* were before, and the timer runs on only over a trace with states.       *)
LEMMA Rendered ==
    ASSUME NEW i \in Nat,
           AtMostOne(trace'), \A t \in trace' : t.states \in Nat,
           Count' = 0 /\ trace' # {} => i = 0,
           RenderAt(i, Halt) \/ RenderAt(i, KeepTimer)
    PROVE  /\ InspectorIsCurrent'
           /\ index' \in Nat
           /\ Count' > 0 => index' < Count'
           /\ Count' = 0 /\ trace' # {} => index' = 0
           /\ controls'.index \in 0 .. controls'.count
           /\ Halt \/ (KeepTimer /\ Count' > 0)
<1> DEFINE n  == States(trace')
           at == IF i < n THEN i ELSE n - 1
<1>0. n \in Nat /\ Count' = n
  BY CountOfTrace DEF Count
<1>1. CASE n = 0
  <2>1. /\ Halt /\ index' = i /\ shown' = {}
        /\ controls' = [count |-> 0, index |-> 0]
    BY <1>0, <1>1 DEF RenderAt
  <2> QED
    BY <1>0, <1>1, <2>1 DEF InspectorIsCurrent
<1>2. CASE n > 0
  <2>1. /\ Halt \/ KeepTimer
        /\ index' = at
        /\ shown' = {[trace |-> trace', analysis |-> analysis', result |-> result',
                      index |-> at]}
        /\ controls' = [count |-> n, index |-> at]
    BY <1>0, <1>2 DEF RenderAt
  <2>2. at \in 0 .. n - 1
    BY <1>0, <1>2
  <2>3. controls'.count = n /\ controls'.index = at /\ index' = at
    BY <2>1
  <2>4. ASSUME NEW s \in shown'
        PROVE  /\ s.trace = trace' /\ s.analysis = analysis' /\ s.result = result'
               /\ s.index = at
    BY <2>1, <2>4
  <2>5. shown' # {}
    BY <2>1
  <2>6. InspectorIsCurrent'
    <3> HIDE DEF n, at
    <3> QED
      BY <1>0, <1>2, <2>3, <2>4, <2>5 DEF InspectorIsCurrent
  <2> QED
    BY <1>0, <1>2, <2>1, <2>2, <2>3, <2>6
<1> QED
  BY <1>0, <1>1, <1>2

(* Every step of the player keeps its invariant: a user's, ...             *)
LEMMA PlayerStepKeeps ==
    ASSUME PlayerInv, user \in Users, Users \subseteq [sources : SUBSET Source,
               values : SUBSET Value, runs : SUBSET (Nat \ {0, 1}), traces : SUBSET Nat,
               analyses : BOOLEAN, reloads : BOOLEAN],
           PlayerStep
    PROVE  PlayerInv'
<1> USE DEF PlayerInv
<1>0. Count \in Nat /\ \A t \in trace : Count = t.states
  BY CountOfTrace DEF PlayerTypes, Count
<1>1. ASSUME Start, timer = {} PROVE PlayerInv'
  <2>1. PICK t \in Timer \ live : timer' = {t} /\ live' = live \cup {t}
    BY <1>1 DEF Start
  <2>2. index' \in Nat /\ index' < Count
    BY <1>0, <1>1 DEF Start, PlayerTypes
  <2>3. NoStrayInterval'
    BY <1>0, <1>1, <2>1 DEF Start, NoStrayInterval, AtMostOne, Count
  <2>4. PlayerTypes'
    BY <1>0, <1>1, <2>1, <2>2 DEF Start, PlayerTypes, AtMostOne, Count
  <2>5. InspectorIsCurrent'
    BY <1>0, <1>1 DEF Start, InspectorIsCurrent, StartedOver, PlayerTypes, Count
  <2>6. OneRunIsLoaded'
    BY <1>1 DEF Start, OneRunIsLoaded
  <2> QED
    BY <2>3, <2>4, <2>5, <2>6
<1>2. ASSUME Halt, UNCHANGED <<trace, analysis, result, index, shown, controls>>
      PROVE  PlayerInv'
  BY <1>2 DEF Halt, PlayerTypes, InspectorIsCurrent, StartedOver, NoStrayInterval,
              OneRunIsLoaded, AtMostOne, Count
<1>3. CASE TogglePlay
  BY <1>1, <1>2, <1>3 DEF TogglePlay
<1>4. CASE ChangeSpeed
  <2>1. PICK t \in Timer \ live : timer' = {t} /\ live' = (live \ timer) \cup {t}
    BY <1>4 DEF ChangeSpeed
  <2>2. index' \in Nat /\ index' < Count
    BY <1>0, <1>4 DEF ChangeSpeed, PlayerTypes
  <2>3. NoStrayInterval'
    BY <1>0, <1>4, <2>1 DEF ChangeSpeed, NoStrayInterval, AtMostOne, Count
  <2>4. PlayerTypes'
    BY <1>0, <1>4, <2>1, <2>2 DEF ChangeSpeed, PlayerTypes, AtMostOne, Count
  <2>5. InspectorIsCurrent'
    BY <1>0, <1>4 DEF ChangeSpeed, InspectorIsCurrent, StartedOver, PlayerTypes, Count
  <2>6. OneRunIsLoaded'
    BY <1>4 DEF ChangeSpeed, OneRunIsLoaded
  <2> QED
    BY <2>3, <2>4, <2>5, <2>6
<1>5. ASSUME NEW i \in Nat, UNCHANGED <<trace, analysis, result>>, RenderAt(i, Halt),
             Count > 0
      PROVE  PlayerInv'
  <2>1. Count' = Count /\ AtMostOne(trace') /\ \A t \in trace' : t.states \in Nat
    BY <1>5 DEF Count, PlayerTypes
  <2>2. /\ InspectorIsCurrent'
        /\ index' \in Nat
        /\ Count' > 0 => index' < Count'
        /\ Count' = 0 /\ trace' # {} => index' = 0
        /\ controls'.index \in 0 .. controls'.count
        /\ Halt \/ (KeepTimer /\ Count' > 0)
    <3> HIDE DEF PlayerInv
    <3> QED
      BY <1>0, <1>5, <2>1, Rendered
  <2> QED
    BY <1>5, <2>1, <2>2 DEF PlayerTypes, NoStrayInterval, OneRunIsLoaded, AtMostOne, Halt, KeepTimer
<1>6. CASE Previous
  <2>1. controls.count > 0 /\ Count > 0
    BY <1>6 DEF Previous, InspectorIsCurrent
  <2>2. CASE index > 0 /\ RenderAt(index - 1, Halt)
    BY <1>5, <1>6, <2>1, <2>2 DEF Previous, PlayerTypes
  <2>3. CASE Halt /\ UNCHANGED <<index, shown, controls>>
    BY <1>2, <1>6, <2>3 DEF Previous
  <2> QED
    BY <1>6, <2>2, <2>3 DEF Previous
<1>7. CASE NextStep
  <2>1. CASE index < Count - 1 /\ RenderAt(index + 1, Halt)
    BY <1>0, <1>5, <1>7, <2>1 DEF NextStep, PlayerTypes
  <2>2. CASE Halt /\ UNCHANGED <<index, shown, controls>>
    BY <1>2, <1>7, <2>2 DEF NextStep
  <2> QED
    BY <1>7, <2>1, <2>2 DEF NextStep
<1>8. ASSUME NEW i \in 0 .. controls.count - 1, Slide(i)
      PROVE  PlayerInv'
  <2>1. i \in Nat /\ Count > 0
    BY <1>0, <1>8 DEF InspectorIsCurrent
  <2> QED
    BY <1>5, <1>8, <2>1 DEF Slide
<1>9. ASSUME NEW n \in user.traces, ImportTrace(n)
      PROVE  PlayerInv'
  <2>1. n \in Nat /\ trace' = {[of |-> {}, states |-> n]} /\ result' = {}
    BY <1>9 DEF ImportTrace
  <2>2. AtMostOne(trace') /\ \A t \in trace' : t.states \in Nat /\ t.of = {}
    BY <2>1 DEF AtMostOne
  <2>3. /\ InspectorIsCurrent'
        /\ index' \in Nat
        /\ Count' > 0 => index' < Count'
        /\ Count' = 0 /\ trace' # {} => index' = 0
        /\ controls'.index \in 0 .. controls'.count
    <3>1. RenderAt(0, Halt)
      BY <1>9 DEF ImportTrace
    <3> HIDE DEF PlayerInv
    <3> QED
      BY <2>2, <3>1, Rendered
  <2>4. timer' = {} /\ live' = {} /\ analysis' = analysis
    BY <1>9, <2>1 DEF ImportTrace, RenderAt, Halt, NoStrayInterval
  <2> QED
    BY <2>1, <2>2, <2>3, <2>4 DEF PlayerTypes, NoStrayInterval, OneRunIsLoaded, AtMostOne
<1>10. CASE ImportAnalysis
  <2>1. /\ trace' = trace /\ result' = result /\ analysis' = {{}}
        /\ RenderAt(index, KeepTimer)
    BY <1>10 DEF ImportAnalysis
  <2>2. Count' = Count /\ AtMostOne(trace') /\ \A t \in trace' : t.states \in Nat
    BY <2>1 DEF Count, PlayerTypes
  <2>3. /\ InspectorIsCurrent'
        /\ index' \in Nat
        /\ Count' > 0 => index' < Count'
        /\ Count' = 0 /\ trace' # {} => index' = 0
        /\ controls'.index \in 0 .. controls'.count
        /\ Halt \/ (KeepTimer /\ Count' > 0)
    <3>1. index \in Nat /\ (Count' = 0 /\ trace' # {} => index = 0)
      BY <2>1, <2>2 DEF PlayerTypes
    <3> HIDE DEF PlayerInv
    <3> QED
      BY <2>1, <2>2, <3>1, Rendered
  <2>4. NoStrayInterval' /\ live' \subseteq Timer
    BY <2>2, <2>3 DEF NoStrayInterval, PlayerTypes, AtMostOne, Halt, KeepTimer
  <2> QED
    BY <2>1, <2>2, <2>3, <2>4 DEF PlayerTypes, OneRunIsLoaded, AtMostOne
<1> QED
  BY <1>3, <1>4, <1>6, <1>7, <1>8, <1>9, <1>10 DEF PlayerStep

(* ... the interval's, ...                                                 *)
LEMMA TickKeeps ==
    ASSUME PlayerInv, NEW t \in live, Tick(t)
    PROVE  PlayerInv'
<1> USE DEF PlayerInv
<1>0. Count \in Nat /\ Count >= 2
  BY CountOfTrace DEF PlayerTypes, Count, NoStrayInterval
<1>1. UNCHANGED <<trace, analysis, result>> /\ Count' = Count
  BY DEF Tick, Count
<1>2. CASE /\ index >= Count - 1
           /\ Halt
           /\ controls' = [count |-> Count, index |-> index]
           /\ UNCHANGED <<index, shown>>
  <2>1. \A s \in shown : s.index = index
    BY <1>0, <1>2 DEF InspectorIsCurrent, StartedOver, PlayerTypes
  <2>2. InspectorIsCurrent'
    BY <1>1, <1>2, <2>1 DEF InspectorIsCurrent
  <2>3. PlayerTypes' /\ NoStrayInterval'
    BY <1>0, <1>1, <1>2 DEF PlayerTypes, NoStrayInterval, AtMostOne, Halt
  <2> QED
    BY <1>1, <2>2, <2>3 DEF OneRunIsLoaded
<1>3. CASE index < Count - 1 /\ RenderAt(index + 1, KeepTimer)
  <2>1. AtMostOne(trace') /\ (\A x \in trace' : x.states \in Nat) /\ index + 1 \in Nat
    BY <1>1 DEF PlayerTypes
  <2>2. /\ InspectorIsCurrent'
        /\ index' \in Nat
        /\ Count' > 0 => index' < Count'
        /\ Count' = 0 /\ trace' # {} => index' = 0
        /\ controls'.index \in 0 .. controls'.count
        /\ Halt \/ (KeepTimer /\ Count' > 0)
    <3> HIDE DEF PlayerInv
    <3> QED
      BY <1>0, <1>1, <1>3, <2>1, Rendered
  <2> QED
    BY <1>1, <2>1, <2>2 DEF PlayerTypes, NoStrayInterval, OneRunIsLoaded, AtMostOne, Halt, KeepTimer
<1> QED
  BY <1>2, <1>3 DEF Tick

(* ... that of a run that is started, and that of its answer.              *)
LEMMA HaltKeeps ==
    ASSUME PlayerInv, Halt, UNCHANGED <<trace, analysis, result, index, shown, controls>>
    PROVE  PlayerInv'
BY DEF PlayerInv, Halt, PlayerTypes, InspectorIsCurrent, StartedOver, NoStrayInterval,
       OneRunIsLoaded, AtMostOne, Count

LEMMA ShowRunKeeps ==
    ASSUME PlayerInv, NEW r, NEW n \in Nat \ {0, 1}, ShowRun(r, n)
    PROVE  PlayerInv'
<1>1. /\ trace' = {[of |-> {r}, states |-> n]}
      /\ analysis' = {{r}} /\ result' = {{r}}
      /\ RenderAt(0, KeepTimer)
  BY DEF ShowRun
<1>2. AtMostOne(trace') /\ \A t \in trace' : t.states \in Nat /\ t.states = n /\ t.of = {r}
  BY <1>1 DEF AtMostOne
<1>3. Count' = n
  BY <1>1, <1>2, CountOfTrace DEF Count
<1>4. /\ InspectorIsCurrent'
      /\ index' \in Nat
      /\ Count' > 0 => index' < Count'
      /\ Count' = 0 /\ trace' # {} => index' = 0
      /\ controls'.index \in 0 .. controls'.count
  BY <1>1, <1>2, Rendered
<1>5. timer' = timer /\ live' = live
  BY <1>1, <1>3 DEF RenderAt, KeepTimer, Count
<1>6. PlayerTypes' /\ NoStrayInterval'
  BY <1>1, <1>2, <1>3, <1>4, <1>5 DEF PlayerInv, PlayerTypes, NoStrayInterval, AtMostOne
<1>7. OneRunIsLoaded'
  BY <1>1, <1>2 DEF OneRunIsLoaded
<1> QED
  BY <1>4, <1>6, <1>7 DEF PlayerInv

(* The page starts in it.                                                  *)
LEMMA PlayerStarts ==
    /\ PlayerInit => PlayerInv
    /\ Reload => PlayerInv'
<1>1. States({}) = 0
  BY DEF States
<1> QED
  BY <1>1 DEF PlayerInit, Reload, PlayerInv, PlayerTypes, InspectorIsCurrent,
              NoStrayInterval, OneRunIsLoaded, AtMostOne, Count

-----------------------------------------------------------------------------
(* The editor. *)

EditorTypes ==
    /\ source \in Source /\ fields \in Fields /\ restored \in Fields
    /\ runnable \in BOOLEAN
    /\ request \subseteq Work /\ AtMostOne(request)
    /\ draft \subseteq Work /\ AtMostOne(draft)

\* What the run under way was started with: a number for every field that
\* the text, once understood, has.
StartedWith(r) ==
    /\ r.source # Blank
    /\ \A regs \in Needs[r.source] :
          \A reg \in regs : reg \in DOMAIN r.fields /\ r.fields[reg] \in Filled

EditorInv ==
    /\ EditorTypes
    /\ request # {} => ~runnable
    /\ \A r \in request : StartedWith(r)
    /\ \A d \in draft : Understood(d.source) => DOMAIN d.fields \in Needs[d.source]
    /\ Understood(source) =>
          /\ DOMAIN fields \in Needs[source]
          /\ runnable = Ready(source, fields, request)
          /\ \/ draft = {[source |-> source, fields |-> fields]}
             \/ draft = {} /\ source = Blank /\ fields = NoFields

(* Fields made anew are fields again.                                      *)
LEMMA FieldsMade ==
    ASSUME NEW regs \in SUBSET Register, NEW f \in Fields, NEW g \in Fields
    PROVE  [r \in regs |-> FieldValue(r, f, g)] \in Fields
<1>1. \A h \in Fields : \A r \in DOMAIN h : h[r] \in Value
  BY DEF Fields
<1>2. \A r \in regs : FieldValue(r, f, g) \in Value
  BY <1>1 DEF FieldValue, Value
<1>3. [r \in regs |-> FieldValue(r, f, g)] \in [regs -> Value]
  BY <1>2
<1> QED
  BY <1>3 DEF Fields

LEMMA NoFieldsAreFields == NoFields \in Fields /\ DOMAIN NoFields = {}
<1>1. NoFields \in [{} -> Value]
  BY DEF NoFields
<1> QED
  BY <1>1 DEF Fields, NoFields

(* The registers of a text are one set of registers, if it is understood.  *)
LEMMA NeedsOneSet ==
    ASSUME NEW s \in Source
    PROVE  /\ \A regs \in Needs[s] : regs \in SUBSET Register
           /\ \A p, q \in Needs[s] : p = q
BY EditorAssumption

(* What a handler that refreshes the fields, or leaves them, ends in.      *)
LEMMA RefreshedIsRight ==
    ASSUME EditorInv, EditorTypes', UNCHANGED request,
           \/ Needs[source'] = {} /\ runnable' = runnable /\ draft' = draft
           \/ /\ DOMAIN fields' \in Needs[source']
              /\ runnable' = Ready(source', fields', request)
              /\ draft' = {[source |-> source', fields |-> fields']}
    PROVE  EditorInv'
<1>1. request' # {} => ~runnable'
  BY DEF EditorInv, Ready
<1>2. \A r \in request' : StartedWith(r)
  BY DEF EditorInv
<1>3. Understood(source') =>
          /\ DOMAIN fields' \in Needs[source']
          /\ runnable' = Ready(source', fields', request')
          /\ draft' = {[source |-> source', fields |-> fields']}
  BY DEF Understood
<1>4. \A d \in draft' : Understood(d.source) => DOMAIN d.fields \in Needs[d.source]
  BY DEF EditorInv, Understood
<1> QED
  BY <1>1, <1>2, <1>3, <1>4 DEF EditorInv

LEMMA DraftTyped ==
    ASSUME NEW s \in Source, NEW f \in Fields
    PROVE  /\ {[source |-> s, fields |-> f]} \subseteq Work
           /\ AtMostOne({[source |-> s, fields |-> f]})
BY DEF Work, AtMostOne

LEMMA RefreshKeeps ==
    ASSUME EditorInv, source' \in Source, restored' \in Fields, UNCHANGED request,
           RefreshAndPersist(fields)
    PROVE  EditorInv'
<1>1. CASE Needs[source'] = {} /\ UNCHANGED <<fields, runnable, draft>>
  BY <1>1, RefreshedIsRight DEF EditorInv, EditorTypes
<1>2. CASE \E regs \in Needs[source'] :
              /\ fields' = [r \in regs |-> FieldValue(r, fields, restored')]
              /\ runnable' = Ready(source', fields', request)
              /\ Persist
  <2>1. PICK regs \in Needs[source'] :
              /\ fields' = [r \in regs |-> FieldValue(r, fields, restored')]
              /\ runnable' = Ready(source', fields', request)
              /\ Persist
    BY <1>2
  <2>2. fields' \in Fields /\ DOMAIN fields' = regs
    BY <2>1, NeedsOneSet, FieldsMade DEF EditorInv, EditorTypes
  <2>3. draft' = {[source |-> source', fields |-> fields']}
    BY <2>1 DEF Persist
  <2>4. runnable' \in BOOLEAN
    BY <2>1 DEF Ready
  <2>5. draft' \subseteq Work /\ AtMostOne(draft')
    BY <2>2, <2>3, DraftTyped
  <2>6. EditorTypes'
    BY <2>2, <2>4, <2>5 DEF EditorInv, EditorTypes
  <2> QED
    BY <2>1, <2>2, <2>3, <2>6, RefreshedIsRight
<1> QED
  BY <1>1, <1>2 DEF RefreshAndPersist

(* Every handler of the editor keeps its invariant.                        *)
LEMMA EditorStepKeeps ==
    ASSUME EditorInv, user.sources \subseteq Source, user.values \subseteq Value, EditorStep
    PROVE  EditorInv'
<1>1. ASSUME NEW s \in Source, Edit(s) PROVE EditorInv'
  BY <1>1, RefreshKeeps DEF Edit, EditorInv, EditorTypes
<1>2. ASSUME NEW s \in Source, Replace(s) PROVE EditorInv'
  BY <1>2, RefreshKeeps, NoFieldsAreFields DEF Replace
<1>3. ASSUME NEW e \in Example, UseExample(e) PROVE EditorInv'
  <2>1. e \in Source /\ source' = e /\ restored' = NoFields /\ UNCHANGED request
    BY <1>3, EditorAssumption DEF UseExample
  <2>2. PICK regs \in Needs[e] : fields' = [r \in regs |-> Empty]
    BY <1>3 DEF UseExample
  <2>3. DOMAIN fields' = regs /\ fields' \in [regs -> Value] /\ regs \in SUBSET Register
    BY <2>1, <2>2, NeedsOneSet DEF Value
  <2>4. fields' \in Fields
    BY <2>3 DEF Fields
  <2>5. runnable' = Ready(e, fields', request)
    BY <1>3, <2>1 DEF UseExample
  <2>6. draft' = {[source |-> source', fields |-> fields']}
    BY <1>3 DEF UseExample, Persist
  <2>7. EditorTypes'
    BY <2>1, <2>4, <2>5, <2>6, DraftTyped, NoFieldsAreFields
       DEF EditorInv, EditorTypes, Ready
  <2> QED
    BY <2>1, <2>2, <2>3, <2>5, <2>6, <2>7, RefreshedIsRight
<1>4. ASSUME NEW r \in Register, NEW v \in Value, SetField(r, v) PROVE EditorInv'
  <2>1. /\ fields' = [fields EXCEPT ![r] = v]
        /\ UNCHANGED <<source, restored, request>>
        /\ runnable' = Ready(source, fields', request)
        /\ draft' = {[source |-> source', fields |-> fields']}
    BY <1>4 DEF SetField, Persist
  <2>2. PICK regs \in SUBSET Register : fields \in [regs -> Value]
    BY DEF EditorInv, EditorTypes, Fields
  <2>3. fields' \in [regs -> Value] /\ DOMAIN fields' = DOMAIN fields
    BY <2>1, <2>2
  <2>4. fields' \in Fields
    BY <2>3 DEF Fields
  <2>5. EditorTypes'
    BY <2>1, <2>4, DraftTyped DEF EditorInv, EditorTypes, Ready
  <2>6. CASE Understood(source)
    BY <2>1, <2>3, <2>5, <2>6, RefreshedIsRight DEF EditorInv
  <2>7. CASE ~Understood(source)
    BY <2>1, <2>5, <2>7 DEF EditorInv, Ready, Understood
  <2> QED
    BY <2>6, <2>7
<1>5. CASE Configure
  <2>1. /\ UNCHANGED <<source, fields, runnable, restored, request>>
        /\ draft' = {[source |-> source', fields |-> fields']}
    BY <1>5 DEF Configure, Persist
  <2>2. EditorTypes'
    BY <2>1, DraftTyped DEF EditorInv, EditorTypes
  <2> QED
    BY <2>1, <2>2 DEF EditorInv, Understood
<1>6. Blank \in Source
  BY EditorAssumption
<1> QED
  BY <1>1, <1>2, <1>3, <1>4, <1>5, <1>6 DEF EditorStep

(* So do the start of a run and its end, ...                               *)
LEMMA SubmitKeeps ==
    ASSUME EditorInv, Submit
    PROVE  EditorInv'
<1>1. /\ request' = {[source |-> source, fields |-> fields]}
      /\ runnable' = FALSE
      /\ UNCHANGED <<source, fields, restored, draft>>
      /\ source # Blank
      /\ \A r \in DOMAIN fields : fields[r] \in Filled
  BY DEF Submit, Ready
<1>2. EditorTypes'
  BY <1>1, DraftTyped DEF EditorInv, EditorTypes
<1>3. \A regs \in Needs[source] : regs = DOMAIN fields
  BY NeedsOneSet DEF EditorInv, EditorTypes, Understood
<1>4. \A r \in request' : StartedWith(r)
  BY <1>1, <1>3 DEF StartedWith
<1> QED
  BY <1>1, <1>2, <1>4 DEF EditorInv, Ready, Understood

LEMMA FinishKeeps ==
    ASSUME EditorInv, Finish
    PROVE  EditorInv'
BY DEF Finish, EditorInv, EditorTypes, Ready, Understood, AtMostOne

(* ... and so does a new start of the page from the draft, which brings    *)
(* back the text and the fields of the draft.                              *)
LEMMA BootKeeps ==
    ASSUME EditorInv, Boot(draft)
    PROVE  EditorInv' /\ (Understood(source) => UNCHANGED <<source, fields>>)
<1> DEFINE start == IF draft = {} THEN [source |-> Blank, fields |-> NoFields]
                    ELSE CHOOSE d \in draft : TRUE
<1>1. start \in Work
  BY NoFieldsAreFields, EditorAssumption DEF EditorInv, EditorTypes, Work
<1>2. start.source \in Source /\ start.fields \in Fields
  BY <1>1 DEF Work
<1>3. draft # {} => draft = {[source |-> start.source, fields |-> start.fields]}
  <2>1. draft # {} => start \in draft /\ draft = {start}
    BY DEF EditorInv, EditorTypes, AtMostOne
  <2>2. start = [source |-> start.source, fields |-> start.fields]
    BY <1>1 DEF Work
  <2> QED
    BY <2>1, <2>2
<1>4. draft = {} => start.source = Blank /\ start.fields = NoFields
  OBVIOUS
<1>5. /\ source' = start.source /\ request' = {} /\ draft' = draft
      /\ \/ /\ Needs[start.source] = {}
            /\ fields' = NoFields
            /\ runnable' = FALSE
            /\ restored' = start.fields
         \/ \E regs \in Needs[start.source] :
              /\ fields' = [r \in regs |-> FieldValue(r, NoFields, start.fields)]
              /\ runnable' = Ready(start.source, fields', {})
              /\ restored' = NoFields
  BY DEF Boot
<1>6. Understood(source) => start.source = source /\ start.fields = fields
  <2>1. ASSUME draft = {[source |-> source, fields |-> fields]}
        PROVE  start.source = source /\ start.fields = fields
    <3>1. start \in draft
      BY <2>1
    <3>2. start = [source |-> source, fields |-> fields]
      BY <2>1, <3>1
    <3> QED
      BY <3>2
  <2> QED
    BY <2>1, <1>4 DEF EditorInv
<1> HIDE DEF start
<1>7. CASE Needs[start.source] = {} /\ fields' = NoFields /\ runnable' = FALSE
           /\ restored' = start.fields
  <2>1. ~Understood(source') /\ ~Understood(start.source)
    BY <1>5, <1>7 DEF Understood
  <2>2. EditorTypes'
    BY <1>2, <1>5, <1>7, NoFieldsAreFields DEF EditorInv, EditorTypes, AtMostOne
  <2> QED
    BY <1>5, <1>6, <2>1, <2>2 DEF EditorInv
<1>8. ASSUME NEW regs \in Needs[start.source],
             fields' = [r \in regs |-> FieldValue(r, NoFields, start.fields)],
             runnable' = Ready(start.source, fields', {}),
             restored' = NoFields
      PROVE  EditorInv' /\ (Understood(source) => UNCHANGED <<source, fields>>)
  <2>1. regs \in SUBSET Register /\ \A q \in Needs[start.source] : q = regs
    BY <1>2, NeedsOneSet
  <2>2. fields' \in Fields /\ DOMAIN fields' = regs
    BY <1>2, <1>8, <2>1, FieldsMade, NoFieldsAreFields
  <2>3. EditorTypes'
    BY <1>2, <1>5, <1>8, <2>2, NoFieldsAreFields DEF EditorInv, EditorTypes, AtMostOne, Ready
  <2>4. regs = DOMAIN start.fields
    <3>1. CASE draft = {}
      BY <1>4, <2>1, <3>1, NoFieldsAreFields, EditorAssumption
    <3>2. CASE draft # {}
      <4>1. \A d \in draft : d.source = start.source /\ d.fields = start.fields
        BY <1>3, <3>2
      <4> QED
        BY <2>1, <3>2, <4>1 DEF EditorInv, Understood
    <3> QED
      BY <3>1, <3>2
  <2>5. fields' = start.fields
    <3>1. PICK dom \in SUBSET Register : start.fields \in [dom -> Value]
      BY <1>2 DEF Fields
    <3>2. \A r \in regs : FieldValue(r, NoFields, start.fields) = start.fields[r]
      BY <2>4, NoFieldsAreFields DEF FieldValue
    <3> QED
      BY <1>8, <2>4, <3>1, <3>2
  <2>6. /\ source' = start.source
        /\ DOMAIN fields' \in Needs[source']
        /\ runnable' = Ready(source', fields', request')
    BY <1>5, <1>8, <2>2
  <2>7. \/ draft' = {[source |-> source', fields |-> fields']}
        \/ draft' = {} /\ source' = Blank /\ fields' = NoFields
    BY <1>3, <1>4, <1>5, <2>5, <2>6
  <2>8. \A d \in draft' : Understood(d.source) => DOMAIN d.fields \in Needs[d.source]
    BY <1>5 DEF EditorInv, Understood
  <2>9. EditorInv'
    BY <1>5, <2>3, <2>6, <2>7, <2>8 DEF EditorInv
  <2> QED
    BY <1>6, <2>5, <2>6, <2>9
<1> QED
  BY <1>5, <1>7, <1>8

(* The page starts in it.                                                  *)
LEMMA EditorStarts ==
    ASSUME EditorInit
    PROVE  EditorInv
BY NoFieldsAreFields, EditorAssumption
   DEF EditorInit, EditorInv, EditorTypes, Understood, Ready, AtMostOne, NoFields

(* What changes nothing of a half of the page keeps its invariant.         *)
LEMMA EditorStutters ==
    ASSUME EditorInv, UNCHANGED editor_vars
    PROVE  EditorInv'
BY DEF EditorInv, EditorTypes, editor_vars, Understood, Ready

LEMMA PlayerStutters ==
    ASSUME PlayerInv, UNCHANGED player_vars
    PROVE  PlayerInv'
BY DEF PlayerInv, player_vars, PlayerTypes, InspectorIsCurrent, StartedOver,
       NoStrayInterval, OneRunIsLoaded, AtMostOne, Count

-----------------------------------------------------------------------------
(* The page. *)

Inv == user \in Users /\ EditorInv /\ PlayerInv

LEMMA InvHolds == Spec => []Inv
<1>1. Init => Inv
  BY EditorStarts, PlayerStarts DEF Init, Inv
<1>2. ASSUME Inv, [Next]_vars PROVE Inv'
  <2>0. /\ user \in Users /\ EditorInv /\ PlayerInv
        /\ Users \subseteq [sources : SUBSET Source, values : SUBSET Value,
                            runs : SUBSET (Nat \ {0, 1}), traces : SUBSET Nat,
                            analyses : BOOLEAN, reloads : BOOLEAN]
    BY <1>2, ViewerAssumption DEF Inv
  <2>1. /\ user.sources \subseteq Source /\ user.values \subseteq Value
        /\ user.runs \subseteq Nat \ {0, 1}
    BY <2>0
  <2>2. CASE EditorStep
    <3>1. EditorInv'
      BY <2>0, <2>1, <2>2, EditorStepKeeps
    <3>2. user' = user /\ UNCHANGED player_vars
      BY <2>2 DEF EditorStep
    <3>3. PlayerInv'
      BY <2>0, <3>2, PlayerStutters
    <3> QED
      BY <2>0, <3>1, <3>2, <3>3 DEF Inv
  <2>3. CASE PlayerStep
    <3>1. PlayerInv'
      BY <2>0, <2>3, PlayerStepKeeps
    <3>2. user' = user /\ UNCHANGED editor_vars
      BY <2>3 DEF PlayerStep
    <3> QED
      BY <2>0, <3>1, <3>2, EditorStutters DEF Inv
  <2>4. ASSUME NEW t \in live, Playback(t) PROVE Inv'
    <3>1. PlayerInv'
      BY <2>0, <2>4, TickKeeps DEF Playback
    <3>2. user' = user /\ UNCHANGED editor_vars
      BY <2>4 DEF Playback
    <3> QED
      BY <2>0, <3>1, <3>2, EditorStutters DEF Inv
  <2>5. CASE ClickRun
    BY <2>0, <2>5, SubmitKeeps, HaltKeeps DEF ClickRun, Inv
  <2>6. CASE Answer
    <3>1. EditorInv' /\ user' = user
      BY <2>0, <2>6, FinishKeeps DEF Answer
    <3>2. ASSUME NEW r \in request, NEW n \in user.runs, ShowRun(r, n) PROVE PlayerInv'
      BY <2>0, <2>1, <3>2, ShowRunKeeps
    <3>3. ASSUME UNCHANGED player_vars PROVE PlayerInv'
      BY <2>0, <3>3, PlayerStutters
    <3>4. PlayerInv'
      BY <2>6, <3>2, <3>3 DEF Answer
    <3> QED
      BY <2>0, <3>1, <3>4 DEF Inv
  <2>7. CASE Reload
    BY <2>0, <2>7, BootKeeps, PlayerStarts DEF Reload, Inv
  <2>8. CASE UNCHANGED vars
    BY <2>0, <2>8, EditorStutters, PlayerStutters DEF vars, Inv
  <2> QED
    BY <1>2, <2>2, <2>3, <2>4, <2>5, <2>6, <2>7, <2>8 DEF Next
<1> QED
  BY <1>1, <1>2, PTL DEF Spec

(* Every part of the page is of its type, whatever the user does: the      *)
(* position never leaves the trace, and an understood text has a field for *)
(* each register that it reads.                                            *)
THEOREM TypeCorrect == Spec => []TypeOK
<1>1. Inv => TypeOK
  <2> SUFFICES ASSUME Inv PROVE TypeOK
    OBVIOUS
  <2>0. EditorInv /\ EditorTypes /\ PlayerInv /\ PlayerTypes
    BY DEF Inv, EditorInv, PlayerInv
  <2>1. ASSUME NEW t \in trace PROVE index \in 0 .. t.states
    <3>1. Count \in Nat /\ Count = t.states
      BY <2>0, <2>1, CountOfTrace DEF PlayerTypes, Count
    <3> QED
      BY <2>0, <2>1, <3>1 DEF PlayerTypes
  <2>2. Understood(source) => \A regs \in Needs[source] : DOMAIN fields = regs
    BY <2>0, NeedsOneSet DEF EditorInv, EditorTypes
  <2> QED
    BY <2>0, <2>1, <2>2 DEF TypeOK, EditorTypes, PlayerTypes, Requests
<1> QED
  BY <1>1, InvHolds, PTL

(* The run button can be clicked when it should be and at no other time,   *)
(* and a run under way has a number for each register its text reads       *)
(* (updateRunReadiness, runBtn "click").                                   *)
THEOREM RunsStartRight == Spec => []RunsAreStartedRight
<1>1. Inv => RunsAreStartedRight
  <2> SUFFICES ASSUME Inv PROVE RunsAreStartedRight
    OBVIOUS
  <2>0. EditorInv /\ EditorTypes
    BY DEF Inv, EditorInv
  <2>1. RequestsAreComplete
    BY <2>0 DEF EditorInv, RequestsAreComplete, StartedWith
  <2>2. ASSUME Understood(source) PROVE \A regs \in Needs[source] : regs = DOMAIN fields
    BY <2>0, <2>2, NeedsOneSet DEF EditorInv, EditorTypes
  <2>3. RunButtonIsCurrent
    BY <2>0, <2>2 DEF EditorInv, RunButtonIsCurrent, Ready
  <2> QED
    BY <2>1, <2>3 DEF RunsAreStartedRight
<1> QED
  BY <1>1, InvHolds, PTL

(* A result is never shown with another run's trace or analysis.           *)
THEOREM LoadedTogether == Spec => []OneRunIsLoaded
<1>1. Inv => OneRunIsLoaded
  BY DEF Inv, PlayerInv
<1> QED
  BY <1>1, InvHolds, PTL

(* The inspector shows what is loaded, at the position the buttons go on   *)
(* from (render, renderEmptyTrace, syncTraceControls).                     *)
THEOREM InspectorCurrent == Spec => []InspectorIsCurrent
<1>1. Inv => InspectorIsCurrent
  BY DEF Inv, PlayerInv
<1> QED
  BY <1>1, InvHolds, PTL

(* At most one interval runs, and it is the one that Pause stops.          *)
THEOREM NoIntervalIsLost == Spec => []NoStrayInterval
<1>1. Inv => NoStrayInterval
  BY DEF Inv, PlayerInv
<1> QED
  BY <1>1, InvHolds, PTL

(* A reload brings back an understood text and its values: the draft is    *)
(* never behind what is typed (persistDraft, restoreDraft).                *)
THEOREM ReloadRestores == Spec => ReloadKeepsWork
<1>1. Inv /\ [Next]_vars => [Reload /\ Understood(source) => UNCHANGED <<source, fields>>]_vars
  BY BootKeeps DEF Inv, Reload
<1> QED
  BY <1>1, InvHolds, PTL DEF Spec, ReloadKeepsWork
=============================================================================
