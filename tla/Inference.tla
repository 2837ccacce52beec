----------------------------- MODULE Inference -----------------------------
(***************************************************************************)
(* What the browser UI reads out of a program before it runs               *)
(* (inferredInputRegisters of viz3.html): the registers that may be read   *)
(* before the program assigns them, which the UI then asks values for.  It *)
(* works on the text, on its own, before any of it is assembled.           *)
(*                                                                         *)
(* A text is the statements that the grammar makes of it, as for the       *)
(* assembler.  Instructions are numbered from one.                         *)
(***************************************************************************)
EXTENDS Isa, FiniteSetsExt, Functions

rOps     == {"add", "sub", "div", "mul", "sll"}
loads    == {"lb", "lbu", "lh", "lhu", "lw", "ld"}
stores   == {"sb", "sh", "sw", "sd"}
branches == {"beq", "bne", "blt", "bge", "bltu", "bgeu", "bgt", "ble", "bgtu", "bleu"}
zeroBranches == {"beqz", "bnez", "bltz", "bgez"}

\* The registers that hold a value when a program starts.
Runtime == {"zero", "ra", "sp"}

\* The numbers of S in increasing order.
InOrder(S) ==
    [i \in 1 .. Cardinality(S) |->
        CHOOSE x \in S : Cardinality({y \in S : y < x}) = i - 1]

\* instructions, and how many of them are before statement n
Positions(text)    == {n \in DOMAIN text : text[n].type = "instruction"}
Instructions(text) == LET at == InOrder(Positions(text))
                      IN  [k \in DOMAIN at |-> text[at[k]]]
Before(text, n)    == Cardinality({m \in Positions(text) : m < n})

\* labels: the number of the instruction after the last definition of a label
LabelAt(text, l) ==
    LET at == {n \in DOMAIN text : text[n].type = "label" /\ text[n].label = l}
    IN  {Before(text, n) + 1 : n \in {m \in at : \A k \in at : k <= m}}

Globals(text) ==
    {s.label : s \in {t \in Range(text) : t.type = "directive"
                                          /\ t.name \in {"global", "globl"}}}

-----------------------------------------------------------------------------
\* The operands as tokens: the register that each names, if it names one.
Tokens(o) ==
    LET Other(S) == [n \in 1 .. Cardinality(S) |-> {}]
        Named(r) == {r} \cap Reg
    IN  IF o.rule = "memory"
        THEN <<Named(o.regs[1])>> \o Other(o.imm) \o <<Named(o.regs[2])>>
        ELSE [n \in DOMAIN o.regs |-> Named(o.regs[n])] \o Other(o.imm) \o Other(o.label)

Reads(i) ==
    LET t    == Tokens(i.operands)
        T(k) == IF k \in DOMAIN t THEN t[k] ELSE {}
        read == CASE i.cmd \in rOps                 -> T(2) \cup T(3)
                  [] i.cmd \in {"addi", "mv"}       -> T(2)
                  [] i.cmd \in loads                -> T(Len(t))
                  [] i.cmd \in stores               -> T(1) \cup T(Len(t))
                  [] i.cmd \in branches             -> T(1) \cup T(2)
                  [] i.cmd \in zeroBranches         -> T(1)
                  [] OTHER                          -> {}
    IN  read \ {"zero"}

Destination(i) ==
    LET t == Tokens(i.operands)
    IN  IF Len(t) > 1 THEN t[1] ELSE {"ra"}

Writes(i) ==
    LET t == Tokens(i.operands)
    IN  (CASE i.cmd \in rOps \cup loads \cup {"addi", "mv", "li"} ->
                  IF t = <<>> THEN {} ELSE t[1]
           [] i.cmd = "jal" -> Destination(i)
           [] OTHER         -> {}) \ {"zero"}

-----------------------------------------------------------------------------
\* The instructions that a return may go to: those after a call.
ReturnSites(is) ==
    InOrder({n \in DOMAIN is : n > 1 /\ is[n - 1].cmd = "jal"
                               /\ Destination(is[n - 1]) # {"zero"}})

\* Faulty variant: a call is stepped over.
SuccessorsOverCalls(text) ==
    LET is == Instructions(text)
        InCode(S)  == InOrder(S \cap DOMAIN is)
        Targets(i) == UNION {LabelAt(text, l) : l \in i.operands.label}
    IN  [k \in DOMAIN is |->
            CASE is[k].cmd \in branches \cup zeroBranches ->
                     InCode(Targets(is[k])) \o InCode({k + 1})
              [] is[k].cmd = "j"   -> InCode(Targets(is[k]))
              [] is[k].cmd = "ret" -> ReturnSites(is)
              [] OTHER             -> InCode({k + 1})]

\* successors: in the order in which they are added
Successors(text) ==
    LET is == Instructions(text)
        InCode(S)  == InOrder(S \cap DOMAIN is)
        Targets(i) == UNION {LabelAt(text, l) : l \in i.operands.label}
    IN  [k \in DOMAIN is |->
            CASE is[k].cmd \in branches \cup zeroBranches ->
                     InCode(Targets(is[k])) \o InCode({k + 1})
              [] is[k].cmd \in {"j", "jal"} -> InCode(Targets(is[k]))
              [] is[k].cmd = "ret"          -> ReturnSites(is)
              [] OTHER                      -> InCode({k + 1})]

EntryOf(text) ==
    LET at == UNION {LabelAt(text, g) : g \in Globals(text)}
    IN  IF at = {} THEN 1 ELSE CHOOSE n \in at : \A m \in at : n <= m

\* The loop over work, as far as the next instruction not seen, in each step:
\* what the entry reaches, in the order it is come to.
Reached(succ, entry) ==
    LET search[n \in 0 .. Len(succ)] ==
            IF n = 0 THEN [seen |-> <<>>, work |-> <<entry>>]
            ELSE LET s == search[n - 1]
                     i == Max({j \in DOMAIN s.work : s.work[j] \notin Range(s.seen)})
                 IN  IF Range(s.work) \subseteq Range(s.seen) THEN s
                     ELSE [seen |-> Append(s.seen, s.work[i]),
                           work |-> SubSeq(s.work, 1, i - 1) \o succ[s.work[i]]]
    IN  search[Len(succ)].seen

-----------------------------------------------------------------------------
(* The registers that are assigned for certain before and after each       *)
(* instruction, as the loop over `changed` finds them.  What is assigned   *)
(* after (out) is kept; what is assigned before follows from it.           *)

Incoming(succ, reach, entry, out, n) ==
    LET preds == {p \in Range(reach) : n \in Range(succ[p])}
    IN  IF n = entry \/ preds = {} THEN Runtime
        ELSE {r \in UNION {out[p] : p \in preds} : \A p \in preds : r \in out[p]}

\* One round: each instruction reached, in order, from the newest outputs.
Round(is, succ, reach, entry, flow) ==
    LET visit[k \in 0 .. Len(reach)] ==
            IF k = 0 THEN flow
            ELSE LET out == visit[k - 1]
                     n   == reach[k]
                 IN  [out EXCEPT ![n] = Incoming(succ, reach, entry, out, n) \cup Writes(is[n])]
    IN  visit[Len(reach)]

\* Faulty variant: one round is taken for enough.
SettleOnce(is, succ, reach, entry, universe) ==
    Round(is, succ, reach, entry, [n \in DOMAIN is |-> universe])

\* Rounds until one changes nothing: each before it takes something away.
Settle(is, succ, reach, entry, universe) ==
    LET most == Len(is) * Cardinality(universe) + 1
        round[n \in 0 .. most] ==
            IF n = 0 THEN [k \in DOMAIN is |-> universe]
            ELSE Round(is, succ, reach, entry, round[n - 1])
    IN  round[CHOOSE n \in 1 .. most : round[n] = round[n - 1]]

\* inferredInputRegisters: {} if it throws, as it does when the entry is
\* behind the last instruction, where `successors` has no element.
InferredInputs(text) ==
    LET is       == Instructions(text)
        entry    == EntryOf(text)
        succ     == Successors(text)
        universe == Runtime \cup UNION {Reads(i) \cup Writes(i) : i \in Range(is)}
        reach    == Reached(succ, entry)
        flow     == Settle(is, succ, reach, entry, universe)
        before   == [n \in Range(reach) |-> Incoming(succ, reach, entry, flow, n)]
    IN  IF is = <<>> THEN {{}}
        ELSE IF entry \notin DOMAIN is THEN {}
        ELSE {UNION {Reads(is[n]) \ before[n] : n \in Range(reach)}}
=============================================================================
