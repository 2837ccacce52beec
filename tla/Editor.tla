------------------------------- MODULE Editor -------------------------------
(***************************************************************************)
(* The upper half of viz3.html: the source editor, the fields for the      *)
(* registers that the source reads, the run button, the run that is under  *)
(* way and the draft in the browser's local storage.                       *)
(*                                                                         *)
(* A handler runs to its end before another one starts, so each is one     *)
(* action; one that awaits a file changes nothing before it has the text,  *)
(* so it is one action too.  A handler that throws stops where it is.      *)
(***************************************************************************)

CONSTANTS
    Source,     \* the texts of the editor
    Blank,      \* the text with nothing but white space
    Example,    \* the example programs
    Register,   \* the registers that sources may read
    Filled,     \* values that are numbers
    Invalid,    \* values that are not
    Empty,      \* a field with no value
    Needs       \* inferredInputRegisters: {} where it throws

Value  == Filled \cup Invalid \cup {Empty}
Fields == UNION {[regs -> Value] : regs \in SUBSET Register}
Work   == [source : Source, fields : Fields]

ASSUME EditorAssumption ==
    /\ Blank \in Source
    /\ Example \subseteq Source
    /\ Filled \cap Invalid = {}
    /\ Empty \notin Filled \cup Invalid
    /\ Needs \in [Source -> SUBSET SUBSET Register]
    /\ Needs[Blank] = {{}}
    /\ \A e \in Example : Needs[e] # {}
    /\ \A s \in Source : \A p, q \in Needs[s] : p = q

VARIABLES
    source,     \* sourceEditor.value
    fields,     \* the value in the field of each register that has one
    runnable,   \* the run button is enabled
    restored,   \* restoredSettings, of the fields
    request,    \* what the run under way was started with (running)
    draft       \* what local storage has under STORAGE_KEY

editor_vars == <<source, fields, runnable, restored, request, draft>>

NoFields == [r \in {} |-> Empty]

-----------------------------------------------------------------------------
\* updateRunReadiness: whether the run button is enabled
Ready(s, f, req) ==
    /\ req = {}
    /\ s # Blank
    /\ \A r \in DOMAIN f : f[r] \in Filled

\* The value of a field made anew: the field's that there was, or a saved one.
FieldValue(r, previous, saved) ==
    IF r \in DOMAIN previous THEN previous[r]
    ELSE IF r \in DOMAIN saved THEN saved[r] ELSE Empty

Persist == draft' = {[source |-> source', fields |-> fields']}

\* refreshInferredInputs and persistDraft after it, for the new source; if the
\* first throws, the second is not called either.
RefreshAndPersist(previous) ==
    \/ /\ Needs[source'] = {}
       /\ UNCHANGED <<fields, runnable, draft>>
    \/ \E regs \in Needs[source'] :
          /\ fields' = [r \in regs |-> FieldValue(r, previous, restored')]
          /\ runnable' = Ready(source', fields', request)
          /\ Persist

-----------------------------------------------------------------------------
\* sourceEditor "input"
Edit(s) ==
    /\ source' = s
    /\ UNCHANGED <<restored, request>>
    /\ RefreshAndPersist(fields)

\* Faulty variant: the fields are those of the text before.
ReplaceUnread(s) ==
    /\ source' = s
    /\ restored' = NoFields
    /\ UNCHANGED <<fields, request>>
    /\ runnable' = Ready(s, fields, request)
    /\ Persist

\* sourceFileInput "change", or clearSourceBtn "click" for Blank
Replace(s) ==
    /\ source' = s
    /\ restored' = NoFields
    /\ UNCHANGED request
    /\ RefreshAndPersist(fields)

\* exampleBtn "click": no example has starting values
UseExample(e) ==
    /\ source' = e
    /\ restored' = NoFields
    /\ \E regs \in Needs[e] : fields' = [r \in regs |-> Empty]
    /\ runnable' = Ready(e, fields', request)
    /\ Persist
    /\ UNCHANGED request

\* Faulty variant: the values of fields are not saved when they change.
SetFieldUnsaved(r, v) ==
    /\ r \in DOMAIN fields
    /\ fields' = [fields EXCEPT ![r] = v]
    /\ runnable' = Ready(source, fields', request)
    /\ UNCHANGED <<source, restored, request, draft>>

\* "input" of a register's field
SetField(r, v) ==
    /\ r \in DOMAIN fields
    /\ fields' = [fields EXCEPT ![r] = v]
    /\ runnable' = Ready(source, fields', request)
    /\ UNCHANGED <<source, restored, request>>
    /\ Persist

\* "input" of a control of #configDetails or of the playback speed
Configure ==
    /\ UNCHANGED <<source, fields, runnable, restored, request>>
    /\ Persist

\* runBtn "click", up to the answer to its fetch.  The handler looks at the
\* fields again.
Submit ==
    /\ runnable
    /\ Ready(source, fields, {})
    /\ request' = {[source |-> source, fields |-> fields]}
    /\ runnable' = FALSE
    /\ UNCHANGED <<source, fields, restored, draft>>

\* Faulty variant: the button is enabled again, whatever was edited meanwhile.
FinishEnables ==
    /\ request # {}
    /\ request' = {}
    /\ runnable' = TRUE
    /\ UNCHANGED <<source, fields, restored, draft>>

\* runBtn "click", its finally
Finish ==
    /\ request # {}
    /\ request' = {}
    /\ runnable' = Ready(source, fields, {})
    /\ UNCHANGED <<source, fields, restored, draft>>

\* The script of the page from its start, with what local storage has: where
\* inferredInputRegisters throws, the script ends and restoredSettings stay.
Boot(saved) ==
    LET start == IF saved = {} THEN [source |-> Blank, fields |-> NoFields]
                 ELSE CHOOSE d \in saved : TRUE
    IN  /\ source' = start.source
        /\ request' = {}
        /\ draft' = saved
        /\ \/ /\ Needs[start.source] = {}
              /\ fields' = NoFields
              /\ runnable' = FALSE
              /\ restored' = start.fields
           \/ \E regs \in Needs[start.source] :
                /\ fields' = [r \in regs |-> FieldValue(r, NoFields, start.fields)]
                /\ runnable' = Ready(start.source, fields', {})
                /\ restored' = NoFields

EditorInit ==
    /\ source = Blank
    /\ fields = NoFields
    /\ runnable = FALSE
    /\ restored = NoFields
    /\ request = {}
    /\ draft = {}
=============================================================================
