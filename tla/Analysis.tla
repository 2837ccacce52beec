------------------------------ MODULE Analysis ------------------------------
(***************************************************************************)
(* The static analysis of analysis.rs: basic blocks, the edges between     *)
(* them, and the loops that a depth-first search of them finds.  It is a   *)
(* pure function of the assembled program; its parts are operators here,   *)
(* in the order of the code.  Blocks are numbered from zero, as there.     *)
(***************************************************************************)
EXTENDS Isa, SequencesExt

Pcs(code)    == {WordSize * k : k \in 0 .. Len(code) - 1}
LastPc(code) == WordSize * (Len(code) - 1)

\* The label addresses that an instruction names (Target::address).
DirectTargets(inst) == IF inst.type \in {"B", "JAL"} THEN inst.target ELSE {}

-----------------------------------------------------------------------------
\* Faulty variant: the entry point is not a leader.
LeadersWithoutEntry(code, entry) ==
    {WordSize * k : k \in {n \in 1 .. Len(code) - 1 : code[n].type = "B"}}
    \cup UNION {DirectTargets(code[k]) : k \in DOMAIN code}

\* Faulty variant: the last instruction is never a fallthrough leader.
LeadersBeforeLast(code, entry) ==
    {entry} \cup {WordSize * k : k \in {n \in 1 .. Len(code) - 2 : code[n].type = "B"}}
    \cup UNION {DirectTargets(code[k]) : k \in DOMAIN code}

\* Where blocks start: the entry, the targets, and what follows a branch.
Leaders(code, entry) ==
    {entry} \cup {WordSize * k : k \in {n \in 1 .. Len(code) - 1 : code[n].type = "B"}}
    \cup UNION {DirectTargets(code[k]) : k \in DOMAIN code}

\* The numbers of S in increasing order, as of a BTreeSet.
InOrder(S) ==
    [i \in 1 .. Cardinality(S) |->
        CHOOSE x \in S : Cardinality({y \in S : y < x}) = i - 1]

\* A block ends before the next one starts, the last one with the code.
Blocks(code, entry) ==
    LET starts == InOrder(Leaders(code, entry))
        End(i) == IF i < Len(starts) THEN starts[i + 1] - WordSize ELSE LastPc(code)
    IN  [i \in 1 .. Len(starts) |->
            [id |-> i - 1, start_pc |-> starts[i], end_pc |-> End(i),
             instruction_pcs |-> {WordSize * k : k \in 0 .. Len(code)}
                                 \cap starts[i] .. End(i)]]

\* pc_to_block.get(pc)
BlockOf(blocks, pc) ==
    {b.id : b \in {c \in Range(blocks) : pc \in c.instruction_pcs}}

-----------------------------------------------------------------------------
\* The edge from a block to the block of pc, if there is one.
EdgeTo(blocks, b, pc, kind) ==
    SetToSeq({[from |-> b.id, to |-> c, kind |-> kind] : c \in BlockOf(blocks, pc)})

\* Faulty variant: the two ways out of a branch change places.
EdgesOfSwapped(code, blocks, b) ==
    LET inst == code[b.end_pc \div WordSize + 1]
        next == b.end_pc + WordSize
        Edge(pc, kind) == EdgeTo(blocks, b, pc, kind)
        Targets(kind)  == FlattenSeq(SetToSeq({Edge(t, kind) : t \in DirectTargets(inst)}))
    IN  CASE inst.type = "B"    -> Targets("BranchNotTaken") \o Edge(next, "BranchTaken")
          [] inst.type = "JAL"  -> Targets("Jump")
          [] inst.type = "JALR" -> <<>>
          [] OTHER              -> Edge(next, "Fallthrough")

\* The edges that the last instruction of a block makes.
EdgesOf(code, blocks, b) ==
    LET inst == code[b.end_pc \div WordSize + 1]
        next == b.end_pc + WordSize
        Edge(pc, kind) == EdgeTo(blocks, b, pc, kind)
        Targets(kind)  == FlattenSeq(SetToSeq({Edge(t, kind) : t \in DirectTargets(inst)}))
    IN  CASE inst.type = "B"    -> Targets("BranchTaken") \o Edge(next, "BranchNotTaken")
          [] inst.type = "JAL"  -> Targets("Jump")
          [] inst.type = "JALR" -> <<>>
          [] OTHER              -> Edge(next, "Fallthrough")

Edges(code, blocks) ==
    FlattenSeq([i \in DOMAIN blocks |-> EdgesOf(code, blocks, blocks[i])])

-----------------------------------------------------------------------------
\* adjacency and reverse_edges: neighbours in the order of the edges
Neighbours(edges, node) ==
    LET out == InOrder({k \in DOMAIN edges : edges[k].from = node})
    IN  [i \in DOMAIN out |-> edges[out[i]].to]

Preds(edges, node) == {e.from : e \in {f \in Range(edges) : f.to = node}}

(***************************************************************************)
(* dfs: the search from node, given and returning what the code passes by  *)
(* mutable reference: the visited nodes, the path to here, and the back    *)
(* edges found so far.  The function dfs is given for its calls of itself. *)
(***************************************************************************)
Search == [visited : SUBSET Nat, stack : Seq(Nat),
           back_edges : Seq([from : Nat, header : Nat])]

\* Faulty variant: a node joins the path only after its neighbours.
VisitOffPath(edges, dfs, node, search) ==
    LET out == Neighbours(edges, node)
        See(s, n) ==
            IF Contains(s.stack, n)
            THEN [s EXCEPT !.back_edges = Append(@, [from |-> node, header |-> n])]
            ELSE IF n \in s.visited THEN s ELSE dfs[n][s]
        after[k \in 0 .. Len(out)] ==
            IF k = 0 THEN [search EXCEPT !.visited = @ \cup {node}]
            ELSE See(after[k - 1], out[k])
    IN  after[Len(out)]

\* Faulty variant: any visited neighbour closes a loop.
VisitAnySeen(edges, dfs, node, search) ==
    LET out == Neighbours(edges, node)
        See(s, n) ==
            IF n \in s.visited
            THEN [s EXCEPT !.back_edges = Append(@, [from |-> node, header |-> n])]
            ELSE dfs[n][s]
        after[k \in 0 .. Len(out)] ==
            IF k = 0 THEN [search EXCEPT !.visited = @ \cup {node}, !.stack = Append(@, node)]
            ELSE See(after[k - 1], out[k])
    IN  [after[Len(out)] EXCEPT !.stack = Front(@)]

Visit(edges, dfs, node, search) ==
    LET out == Neighbours(edges, node)
        See(s, n) ==
            IF Contains(s.stack, n)
            THEN [s EXCEPT !.back_edges = Append(@, [from |-> node, header |-> n])]
            ELSE IF n \in s.visited THEN s ELSE dfs[n][s]
        after[k \in 0 .. Len(out)] ==
            IF k = 0 THEN [search EXCEPT !.visited = @ \cup {node}, !.stack = Append(@, node)]
            ELSE See(after[k - 1], out[k])
    IN  [after[Len(out)] EXCEPT !.stack = Front(@)]

Dfs(edges, node, search) ==
    LET dfs[n \in Nat] == [s \in Search |-> Visit(edges, dfs, n, s)]
    IN  dfs[node][search]

\* The worklist of find_loops: backwards from the source of a back edge, and
\* never past its header.
Collect(edges, header, source) ==
    LET collect[members \in SUBSET Nat] == [work \in SUBSET Nat |->
            IF work \subseteq members THEN members
            ELSE collect[members \cup work]
                        [UNION {Preds(edges, b) \ {header} : b \in work \ members}]]
    IN  collect[{header}][{source}]

StartBlock(blocks, entry) ==
    LET starts == {b.id : b \in {c \in Range(blocks) : c.start_pc = entry}}
    IN  IF starts = {} THEN 0 ELSE CHOOSE b \in starts : TRUE

\* find_loops, before the final sort by header and source
Loops(blocks, edges, entry) ==
    LET found == Dfs(edges, StartBlock(blocks, entry),
                     [visited |-> {}, stack |-> <<>>, back_edges |-> <<>>]).back_edges
    IN  [k \in DOMAIN found |->
            [header |-> found[k].header, back_edge_from |-> found[k].from,
             blocks |-> Collect(edges, found[k].header, found[k].from)]]

EmptyAnalysis == [entry_block |-> 0, blocks |-> <<>>, edges |-> <<>>, loops |-> <<>>]

Analyze(code, entry) ==
    LET blocks == Blocks(code, entry)
        edges  == Edges(code, blocks)
        home   == BlockOf(blocks, entry)
    IN  IF code = <<>> THEN EmptyAnalysis
        ELSE [entry_block |-> IF home = {} THEN 0 ELSE CHOOSE b \in home : TRUE,
              blocks |-> blocks, edges |-> edges,
              loops |-> Loops(blocks, edges, entry)]
=============================================================================
