------------------------------ MODULE StateIds ------------------------------
(***************************************************************************)
(* How the plugin names symbolic states and links them.  S2E identifies a  *)
(* state by a guid; a state keeps its guid when it forks or absorbs        *)
(* another one, so AmbaPlugin gives it a fresh "amba id" each time.  The   *)
(* two graphs it builds, of basic blocks (AssemblyGraph) and of symbolic   *)
(* states (SymbolicGraph), each count amba ids on their own.               *)
(*                                                                         *)
(* The callbacks all run on the thread that emulates the guest, one at a   *)
(* time, and S2E calls the AssemblyGraph's before the SymbolicGraph's, so  *)
(* one event of S2E is one action.  S2E itself (which states exist, that   *)
(* a fork reports the old state and one with a fresh guid) is external;    *)
(* with the one S2E process run_qemu asks for, a state's getID, which      *)
(* getMetadata uses, is its guid.                                          *)
(***************************************************************************)
EXTENDS Naturals

CONSTANTS States,    \* guids S2E may use
          Root,      \* the guid of the state the machine boots in
          Blocks,    \* program counters of basic blocks
          NoBlock,   \* program counter 0 of the block before the first
          MaxId      \* bound: amba ids per graph

ASSUME RootAssumption == Root \in States
ASSUME BlockAssumption == NoBlock \notin Blocks
ASSUME BoundAssumption == MaxId \in Nat

VARIABLES alive,       \* guids of states S2E has and can run
          used,        \* guids S2E has given out
          assembly,    \* the AssemblyGraph's [ids, count]
          symbolic,    \* the SymbolicGraph's [ids, count]
          lastBlock,   \* m_last_executed_bb
          blockLinks,  \* links of the AssemblyGraph so far
          stateLinks,  \* links of the SymbolicGraph so far
          trail        \* the block each state really ran last (history)

vars == <<alive, used, assembly, symbolic, lastBlock, blockLinks, stateLinks, trail>>

\* The number of ids is bounded, the code's u64 counter is not.
AmbaIds == 0 .. MaxId

\* BasicBlockMetadata, as far as it identifies a node.
BlockNode == [state : AmbaIds, block : Blocks \cup {NoBlock}]
Zero == [state |-> 0, block |-> NoBlock]

\* StateMetadata.  A solution for the symbolic inputs goes with the amba id;
\* the nodes of a merge are made without one.
StateNode == [amba : AmbaIds, s2e : States, solved : BOOLEAN]

\* m_states and state_count of a ControlFlow; 0 is the default of the map.
ControlFlow == [ids : [States -> AmbaIds], count : AmbaIds]

TypeOK ==
  /\ alive \subseteq States
  /\ used \subseteq States
  /\ assembly \in ControlFlow
  /\ symbolic \in ControlFlow
  /\ lastBlock \in [AmbaIds -> BlockNode]
  /\ blockLinks \subseteq BlockNode \X BlockNode
  /\ stateLinks \subseteq StateNode \X StateNode
  /\ trail \in [States -> BlockNode]

NoIds == [ids |-> [s \in States |-> 0], count |-> 0]

Init ==
  /\ alive = {Root}
  /\ used = {Root}
  /\ assembly = NoIds
  /\ symbolic = NoIds
  /\ lastBlock = [a \in AmbaIds |-> Zero]
  /\ blockLinks = {}
  /\ stateLinks = {}
  /\ trail = [s \in States |-> Zero]

-----------------------------------------------------------------------------
\* Mutant: the counter is not advanced.
CountKept(flow, s) == [flow EXCEPT !.ids[s] = flow.count + 1]

\* incrementStateIdAmba
Incremented(flow, s) ==
  [ids |-> [flow.ids EXCEPT ![s] = flow.count + 1], count |-> flow.count + 1]

\* getStateIdAmba: the id, given out now if the state has none.
Named(flow, s) == IF flow.ids[s] = 0 THEN Incremented(flow, s) ELSE flow

NodeOf(flow, s, solved) == [amba |-> flow.ids[s], s2e |-> s, solved |-> solved]

\* Mutant: the last block is read after it was replaced.
LinkAfterUpdate(last, curr) == <<curr, curr>>

BlockLink(last, curr) == <<last, curr>>

\* AssemblyGraph::onBlockStart
onBlockStart(s, pc) ==
  LET named == Named(assembly, s)
      id == named.ids[s]
      curr == [state |-> id, block |-> pc]
  IN  /\ s \in alive
      /\ named.count <= MaxId
      /\ assembly' = named
      /\ blockLinks' = blockLinks \cup {BlockLink(lastBlock[id], curr)}
      /\ lastBlock' = [lastBlock EXCEPT ![id] = curr]
      /\ trail' = [trail EXCEPT ![s] = curr]
      /\ UNCHANGED <<alive, used, symbolic, stateLinks>>

\* Mutant: the old state keeps its id.
NotIncremented(flow, old, new) == Named(Named(flow, old), new)

\* The ids a fork leaves behind, in either graph.
Forked(flow, old, new) == Named(Incremented(Named(flow, old), old), new)

\* AssemblyGraph::onStateFork, then SymbolicGraph::onStateFork
onStateFork(old, new) ==
  LET before == Named(assembly, old)
      after == Forked(assembly, old, new)
      oldLast == lastBlock[before.ids[old]]
      from == NodeOf(Named(symbolic, old), old, TRUE)
      named == Forked(symbolic, old, new)
  IN  /\ old \in alive
      /\ new \notin used
      /\ after.count <= MaxId
      /\ alive' = alive \cup {new}
      /\ used' = used \cup {new}
      /\ assembly' = after
      /\ lastBlock' = [lastBlock EXCEPT ![after.ids[old]] = oldLast,
                                        ![after.ids[new]] = oldLast]
      /\ symbolic' = named
      /\ stateLinks' = stateLinks \cup {<<from, NodeOf(named, old, TRUE)>>,
                                        <<from, NodeOf(named, new, TRUE)>>}
      /\ trail' = [trail EXCEPT ![new] = trail[old]]
      /\ UNCHANGED blockLinks

\* AssemblyGraph::onStateMerge, then SymbolicGraph::onStateMerge
onStateMerge(dest, src) ==
  LET before == Named(Named(symbolic, dest), src)
      after == Incremented(before, dest)
      to == NodeOf(after, dest, FALSE)
  IN  /\ dest \in alive /\ src \in alive /\ dest # src
      /\ after.count <= MaxId
      /\ assembly' = Incremented(assembly, dest)
      /\ symbolic' = after
      /\ stateLinks' = stateLinks \cup {<<NodeOf(before, dest, FALSE), to>>,
                                        <<NodeOf(before, src, FALSE), to>>}
      /\ trail' = [trail EXCEPT ![dest] = Zero]
      /\ UNCHANGED <<alive, used, lastBlock, blockLinks>>

\* S2E kills a state; the graphs are not told.
onStateKill(s) ==
  /\ s \in alive
  /\ alive' = alive \ {s}
  /\ UNCHANGED <<used, assembly, symbolic, lastBlock, blockLinks, stateLinks, trail>>

Next ==
  \/ \E s \in States : \E pc \in Blocks : onBlockStart(s, pc)
  \/ \E old, new \in States : onStateFork(old, new)
  \/ \E dest, src \in States : onStateMerge(dest, src)
  \/ \E s \in States : onStateKill(s)

Spec == Init /\ [][Next]_vars

-----------------------------------------------------------------------------
(* The two graphs count on their own and are touched by different events   *)
(* (only the block graph names a state when it runs a block), yet give     *)
(* every state the same amba id: the state shown on a block is a node of   *)
(* the state graph.  Until the first fork only the block graph may know    *)
(* the boot state.                                                         *)
IdsAgree ==
  \/ symbolic = assembly
  \/ symbolic = NoIds /\ used = {Root} /\ assembly.count = 1 /\ assembly.ids[Root] = 1

(* No two states ever hold the same amba id, in either graph, also after   *)
(* one of them is killed.                                                  *)
IdsDistinct ==
  \A s, t \in States : s # t =>
    /\ assembly.ids[s] = assembly.ids[t] => assembly.ids[s] = 0
    /\ symbolic.ids[s] = symbolic.ids[t] => symbolic.ids[s] = 0

(* Ids stay within the bound and links join well-formed nodes, and no two  *)
(* states hold the same id.                                                *)
NamesSound == TypeOK /\ IdsDistinct

(* Every link of the state graph goes to a strictly greater amba id.  So   *)
(* the AMBA_ASSERT of SymbolicGraph::onStateFork holds, the state graph    *)
(* has no cycle, and get_neighbour_states of model.rs, which follows links *)
(* without marking what it visited, returns.                               *)
LinksAscend == \A e \in stateLinks : e[1].amba < e[2].amba

(* The next block of a state is linked from the block that state, or the   *)
(* state it was forked from, ran last, whatever other states ran in        *)
(* between.  A merge starts over from the zero block.                      *)
LinksFollowExecution ==
  \A s \in alive : lastBlock[assembly.ids[s]] = trail[s]

(* A block link leaves the zero block or a block that an earlier link      *)
(* reached: the block graph stays in one piece.                            *)
BlockLinksRooted ==
  [][\A e \in blockLinks' \ blockLinks :
       e[1] = Zero \/ \E d \in blockLinks : d[2] = e[1]]_vars

(* Graph2D::new and seeded_replace_self_with of embed.rs assert that the   *)
(* links they are given connect all nodes.  The state graph hands them     *)
(* every link reported so far.                                             *)
Nodes == {e[1] : e \in stateLinks} \cup {e[2] : e \in stateLinks}

StateGraphConnected ==
  \A N \in SUBSET Nodes :
    N \notin {{}, Nodes} =>
      \E e \in stateLinks : (e[1] \in N) # (e[2] \in N)

(* As long as S2E merged no states, that is so: the node a fork starts     *)
(* from is one that an earlier fork led to, though the state may have run  *)
(* on, been named by the other graph only, or outlived others since.       *)
ConnectedUntilMerge ==
  (\A e \in stateLinks : e[2].solved) => StateGraphConnected

(* Neither graph of links ever falls into pieces: whatever state runs next *)
(* its block is linked to one that is there, and until S2E merges states   *)
(* the nodes of states hang together.                                      *)
GrowInOnePiece == BlockLinksRooted /\ []ConnectedUntilMerge
=============================================================================
