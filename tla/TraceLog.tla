------------------------------ MODULE TraceLog ------------------------------
(***************************************************************************)
(* What the readers of a trace (the result decoder, the visualiser, the    *)
(* HTTP client) rely on, whatever the program was: a run is a log that     *)
(* only grows, each entry starts where the one before it pointed, an entry *)
(* that ends the run is the last one and points to address zero, there are *)
(* at most `limit` entries after the first, and every run comes to an end. *)
(***************************************************************************)
EXTENDS Naturals, Sequences

CONSTANT Addresses  \* where an entry may start or point to

VARIABLES
    log,    \* the entries of the current run
    limit,  \* its step limit, if there is a run
    phase   \* "none", "open", "complete" or "failed"

Entry == [step : Nat, pc : Addresses, next_pc : Addresses, terminated : BOOLEAN]

Newest(l) == l[Len(l)]

Init ==
    /\ log = <<>>
    /\ limit = {}
    /\ phase = "none"

Begin ==
    /\ phase # "open"
    /\ \E entry \in Addresses :
          log' = <<[step |-> 0, pc |-> entry, next_pc |-> entry,
                    terminated |-> FALSE]>>
    /\ \E l \in limit' : l \in Nat /\ limit' = {l}
    /\ phase' = "open"

Record ==
    /\ phase = "open"
    /\ \E l \in limit : Len(log) <= l
    /\ \E next \in Addresses, last \in BOOLEAN :
          /\ last => next = 0
          /\ log' = Append(log, [step |-> Len(log), pc |-> Newest(log).next_pc,
                                 next_pc |-> next, terminated |-> last])
          /\ phase' = IF last THEN "complete" ELSE "open"
    /\ UNCHANGED limit

Fail ==
    /\ phase = "open"
    /\ phase' = "failed"
    /\ UNCHANGED <<log, limit>>

Next == Begin \/ Record \/ Fail

vars == <<log, limit, phase>>

Safety == Init /\ [][Next]_vars

\* A run that was begun goes on until it ends.
Spec == Safety /\ WF_vars(Record \/ Fail)
=============================================================================
