------------------------- MODULE AnalysisProperties -------------------------
(***************************************************************************)
(* What must be true of the analysis of Analysis.tla: it is compared with  *)
(* the transfers of control that the instructions themselves make.         *)
(***************************************************************************)
EXTENDS Analysis

CONSTANT Programs   \* what is analysed: records of code and entry

\* Where labels and the entry of an assembled program may be: at an instruction,
\* or after the last one.
Places(code) == {WordSize * k : k \in 0 .. Len(code)}

ASSUME ProgramsAssumption ==
    \A p \in Programs :
        /\ p.code \in Seq(Instruction)
        /\ p.entry \in Places(p.code)
        /\ \A k \in DOMAIN p.code : DirectTargets(p.code[k]) \subseteq Places(p.code)

VARIABLES
    code, entry,    \* the program
    analysis        \* its ControlFlowAnalysis, once there is one

vars == <<code, entry, analysis>>

Init ==
    /\ \E p \in Programs : code = p.code /\ entry = p.entry
    /\ analysis = {}

\* analyze() returns.
Return ==
    /\ analysis = {}
    /\ analysis' = {Analyze(code, entry)}
    /\ UNCHANGED <<code, entry>>

Spec == Init /\ [][Return]_vars

-----------------------------------------------------------------------------
(* The program itself: how control moves between its instructions.         *)
TransfersOf(pc) ==
    LET inst == code[pc \div WordSize + 1]
        To(pcs, kind) == {[from |-> pc, to |-> t, kind |-> kind] : t \in pcs \cap Pcs(code)}
    IN  CASE inst.type = "B"    -> To(inst.target, "BranchTaken")
                                   \cup To({pc + WordSize}, "BranchNotTaken")
          [] inst.type = "JAL"  -> To(inst.target, "Jump")
          [] inst.type = "JALR" -> {}
          [] OTHER              -> To({pc + WordSize}, "Fallthrough")

Transfers == UNION {TransfersOf(pc) : pc \in Pcs(code)}

\* A call comes back to the instruction after it.
Returns ==
    {<<pc, pc + WordSize>> : pc \in {p \in Pcs(code) :
        /\ p + WordSize \in Pcs(code)
        /\ code[p \div WordSize + 1].type = "JAL"
        /\ code[p \div WordSize + 1].rd # "zero"}}

Flow == {<<t.from, t.to>> : t \in Transfers} \cup Returns

\* Where pairs of nodes lead from a first one: what is in every set of nodes that
\* has the first one and that no pair leaves.
Reach(nodes, pairs, first) ==
    LET closed == {S \in SUBSET nodes :
                      /\ first \in nodes => first \in S
                      /\ \A p \in pairs : p[1] \in S /\ p[2] \in nodes => p[2] \in S}
    IN  {n \in nodes : \A S \in closed : n \in S}

Reachable == Reach(Pcs(code), Flow, entry)

\* The graph of blocks, and the part of it that is searched.
BlockIds(a)  == {b.id : b \in Range(a.blocks)}
Block(a, id) == a.blocks[id + 1]
EdgePairs(a) == {<<e.from, e.to>> : e \in Range(a.edges)}
Searched(a)  == Reach(BlockIds(a), EdgePairs(a), StartBlock(a.blocks, entry))

\* Every set of nodes has one without a predecessor in it.
Acyclic(nodes, pairs) ==
    \A S \in SUBSET nodes : S # {} => \E n \in S : \A m \in S : <<m, n>> \notin pairs

-----------------------------------------------------------------------------
(* No code that can run is lost or shared: every instruction that control  *)
(* reaches, through calls and returns too, is in exactly one block         *)
(* (analyze: leaders, blocks, pc_to_block).                                *)
ReachableCodeIsInOneBlock ==
    \A a \in analysis : \A pc \in Reachable :
        Cardinality({b \in BlockIds(a) : pc \in Block(a, b).instruction_pcs}) = 1

(* Blocks are entered at the top: a transfer goes to the start of a block, *)
(* or to the next instruction of its own (analyze: leaders).               *)
BlocksAreEnteredAtTheTop ==
    \A a \in analysis : \A t \in Transfers : \A b \in BlockIds(a) :
        t.to \in Block(a, b).instruction_pcs =>
            \/ t.to = Block(a, b).start_pc
            \/ t.to = t.from + WordSize /\ t.from \in Block(a, b).instruction_pcs

(* Together: the blocks are basic blocks of the code that can run          *)
(* (analyze: leaders, blocks, pc_to_block).                                *)
BlocksAreBasic == ReachableCodeIsInOneBlock /\ BlocksAreEnteredAtTheTop

(* Every edge is a transfer that the last instruction of its block makes   *)
(* to the first of the other (analyze: edges); and branches and            *)
(* fallthroughs between blocks are all edges.  Jumps are not: see the loop *)
(* property that fails below.  A block without instructions, of a label    *)
(* after the last one, is left out.                                        *)
EdgesAreTransfers ==
    \A a \in analysis :
        /\ \A e \in Range(a.edges) :
              Block(a, e.from).instruction_pcs # {} =>
                  [from |-> Block(a, e.from).end_pc, to |-> Block(a, e.to).start_pc,
                   kind |-> e.kind] \in Transfers
        /\ \A t \in {u \in Transfers : u.kind # "Jump"} :
              \A b, c \in BlockIds(a) :
                  /\ t.from \in Block(a, b).instruction_pcs
                  /\ t.to \in Block(a, c).instruction_pcs
                  /\ b # c \/ t.kind # "Fallthrough"
                  => [from |-> b, to |-> c, kind |-> t.kind] \in Range(a.edges)

(* A loop summary is the natural loop of an edge: an edge from its source  *)
(* to its header, with just the blocks from which control can get to the   *)
(* source without passing the header; and the header comes before the      *)
(* source (find_loops: the worklist; dfs: the path).                       *)
LoopsAreNatural ==
    \A a \in analysis : \A l \in Range(a.loops) :
        LET inner    == BlockIds(a) \ {l.header}
            backward == {<<p[2], p[1]>> : p \in EdgePairs(a)}
        IN  /\ <<l.back_edge_from, l.header>> \in EdgePairs(a)
            /\ l.back_edge_from \in Reach(BlockIds(a), EdgePairs(a), l.header)
            /\ l.blocks = {l.header} \cup Reach(inner, backward, l.back_edge_from)

(* No cycle of blocks is missed: without the back edges of the summaries   *)
(* the searched part of the graph has no cycle (dfs: stack, visited).      *)
EveryBlockCycleHasALoop ==
    \A a \in analysis :
        Acyclic(Searched(a), EdgePairs(a) \ {<<l.back_edge_from, l.header>> :
                                                l \in Range(a.loops)})

(* What info.md says of loop detection, of the program itself: a cycle of  *)
(* transfers that control can reach has a summary (analyze: a jump starts  *)
(* no block after it, so one inside a block makes no edge).                *)
EveryCodeCycleHasALoop ==
    \A a \in analysis :
        a.loops = <<>> => Acyclic(Reachable, {<<t.from, t.to>> : t \in Transfers})
=============================================================================
