---------------------------- MODULE Prioritisation ----------------------------
(***************************************************************************)
(* A double click on a node of the state graph, from the window to the     *)
(* searcher S2E picks states from: NewPriority in control.rs, the packet   *)
(* of IpcFraming, the receiver thread of StatePrioritisation.cpp, and the  *)
(* handlers of AmbaPlugin.cpp in S2E's thread.  Back come batches of       *)
(* links, over the other direction of the socket.                          *)
(*                                                                         *)
(* S2E (external) forks, kills and switches states.  A fork of the state   *)
(* at node n adds links from n to two new nodes, as StateIds has it; a     *)
(* batch stands for the number of forks it completes.                      *)
(***************************************************************************)
EXTENDS Integers, Sequences, FiniteSets, SequencesExt

CONSTANTS MaxForks,    \* bounds: forks, kills, double clicks, batches of links
          MaxKills,
          MaxClicks,
          MaxBatches,
          Header,      \* bytes of a packet's header
          Capacity     \* bytes of a BufReader

ASSUME PrioritiesAssumption ==
  /\ MaxForks \in Nat /\ MaxKills \in Nat /\ MaxClicks \in Nat /\ MaxBatches \in Nat
  /\ Header \in Nat \ {0} /\ Capacity \in Nat \ {0}

Guids == 0 .. MaxForks

\* PrioritiseStates(ids); the window never sends ResetPriority.
Priorities == SUBSET Guids \ {{}}
Batches == 1 .. MaxForks

VARIABLES
  sent, taken, wire, buffer, partial, open, result, overflown,   \* to the plugin
  upSent, upTaken, upWire, upBuffer, upPartial, upOpen, upResult, upOverflown,
  forks,      \* the node each fork was at, in order
  at,         \* the node of each state
  states,     \* executor.getStates()
  dead,       \* m_dead_states
  gone,       \* states S2E has freed
  searchers,  \* all ever made, with what they hold
  installed,  \* index of executor.getSearcher()
  pending,    \* index of m_next_searcher, or 0
  alive,      \* m_alive
  receiver,   \* where the receiver thread is
  ids,        \* to_prioritise_ids
  excluded,   \* states that were dead when it was filtered
  walked,     \* states in the set since the receiver's walk over it began
  changed,    \* S2E changed the set during that walk
  s2e         \* "early", "running", "joining", "ended", "aborted"

down == <<sent, taken, wire, buffer, partial, open, result, overflown>>
up == <<upSent, upTaken, upWire, upBuffer, upPartial, upOpen, upResult, upOverflown>>
executor == <<forks, at, states, dead, gone>>
handing == <<searchers, installed, pending>>
thread == <<receiver, ids, excluded>>
walk == <<walked, changed>>
vars == <<down, up, executor, handing, alive, thread, walk, s2e>>

Down == INSTANCE IpcFraming WITH
  Messages <- Priorities, Size <- [p \in Priorities |-> 1 + Cardinality(p)]

Up == INSTANCE IpcFraming WITH
  Messages <- Batches, Size <- [b \in Batches |-> 1], Header <- 1,
  sent <- upSent, taken <- upTaken, wire <- upWire, buffer <- upBuffer,
  partial <- upPartial, open <- upOpen, result <- upResult, overflown <- upOverflown

Searcher == [holds : SUBSET Guids, request : Nat, dead : SUBSET Guids, freed : Nat]

TypeOK ==
  /\ Down!TypeOK /\ Up!TypeOK
  /\ forks \in Seq(Nat) /\ Len(forks) <= MaxForks
  /\ at \in Seq(Nat) /\ Len(at) = Len(forks) + 1
  /\ states \subseteq Guids /\ dead \subseteq Guids /\ gone \subseteq dead
  /\ searchers \in Seq(Searcher)
  /\ installed \in DOMAIN searchers /\ pending \in {0} \cup DOMAIN searchers
  /\ alive \in BOOLEAN /\ changed \in BOOLEAN
  /\ receiver \in {"none", "receive", "filter", "build", "walk", "ended"}
  /\ {ids, excluded} \subseteq SUBSET Guids /\ walked \subseteq Guids
  /\ s2e \in {"early", "running", "joining", "ended", "aborted"}

\* The searcher S2E starts with, and DFSSearchers made later.
NewSearcher(holds, request, killed) ==
  [holds |-> holds, request |-> request, dead |-> killed, freed |-> 0]

Init ==
  /\ Down!Init /\ Up!Init
  /\ forks = <<>> /\ at = <<0>> /\ states = {0} /\ dead = {} /\ gone = {}
  /\ searchers = <<NewSearcher({0}, 0, {})>> /\ installed = 1 /\ pending = 0
  /\ alive = TRUE /\ receiver = "none" /\ ids = {} /\ excluded = {} /\ walked = {} /\ changed = FALSE
  /\ s2e = "early"

-----------------------------------------------------------------------------
(* The window                                                              *)

\* run_ipc, whose batches the embedder makes the state graph of.
ReceiveBatch == Up!BlockingReceive /\ UNCHANGED <<down, executor, handing, alive, thread, walk, s2e>>

Shown == IF upTaken = <<>> THEN 0 ELSE Last(upTaken)

Links(count) == UNION {{<<forks[k], 2 * k - 1>>, <<forks[k], 2 * k>>} : k \in 1 .. count}

\* s2e_state_id of a node: the first new node of a fork is the forking state.
GuidOf(node) ==
  LET guid[n \in 0 .. 2 * Len(forks)] ==
        IF n = 0 THEN 0 ELSE IF n % 2 = 0 THEN n \div 2 ELSE guid[forks[(n + 1) \div 2]]
  IN  guid[node]

\* get_neighbour_states
NeighbourStates(links, prio) ==
  LET out[n \in 0 .. 2 * Len(forks)] == {GuidOf(n)} \cup UNION {out[l[2]] : l \in {k \in links : k[1] = n}}
  IN  out[prio]

\* A double click: Gui::update, run_controller, blocking_send.  The send
\* fails quietly when the plugin is gone.
Prioritise ==
  /\ Len(sent) < MaxClicks
  /\ Shown > 0 /\ s2e = "running"
  /\ \E prio \in 0 .. 2 * Shown : Down!Send(NeighbourStates(Links(Shown), prio))
  /\ UNCHANGED <<up, executor, handing, alive, thread, walk, s2e>>

CloseWindow == Down!Shutdown /\ UNCHANGED <<up, executor, handing, alive, thread, walk, s2e>>

-----------------------------------------------------------------------------
(* S2E's thread                                                            *)

\* initialize, which starts no thread when module_path is missing.
Initialize ==
  /\ s2e = "early"
  /\ s2e' = "running"
  /\ receiver' \in {"receive", "none"}
  /\ UNCHANGED <<down, up, executor, handing, alive, ids, excluded, walk>>

Running == s2e = "running"

\* The set of states became `now` under a walk over it.
Walked(now) ==
  /\ walked' = IF receiver = "walk" THEN walked \cup now ELSE walked
  /\ changed' = (changed \/ (receiver = "walk" /\ now # states))

Fork ==
  /\ Running /\ Len(forks) < MaxForks
  /\ \E s \in states \ dead :
       LET k == Len(forks) + 1
       IN  /\ forks' = Append(forks, at[s + 1])
           /\ at' = Append([at EXCEPT ![s + 1] = 2 * k - 1], 2 * k)
           /\ states' = states \cup {k}
           /\ searchers' = [searchers EXCEPT ![installed].holds = @ \cup {k}]
  /\ Walked(states')
  /\ UNCHANGED <<down, up, dead, gone, installed, pending, alive, thread, s2e>>

Freed(list, i) == IF i = 0 THEN list ELSE [list EXCEPT ![i].freed = @ + 1]

\* onStateKill.  Whether the executor forgot the state before is S2E's.
Kill ==
  /\ Running /\ Cardinality(dead) < MaxKills
  /\ \E s \in states \ dead :
       /\ dead' = dead \cup {s}
       /\ states' \in {states, states \ {s}}
  /\ IF states' # {} THEN UNCHANGED <<searchers, installed>>
     ELSE /\ searchers' = Freed(Append(searchers, NewSearcher({}, 0, {})), installed)
          /\ installed' = Len(searchers) + 1
  /\ Walked(states')
  /\ UNCHANGED <<down, up, forks, at, gone, pending, alive, thread, s2e>>

\* updateStates: the searcher is told of the dead states, then they go.
Update ==
  /\ Running
  /\ \E s \in dead \ gone :
       /\ gone' = gone \cup {s}
       /\ states' = states \ {s}
       /\ searchers' = [searchers EXCEPT ![installed].holds = @ \ {s}]
  /\ Walked(states')
  /\ UNCHANGED <<down, up, forks, at, dead, installed, pending, alive, thread, s2e>>

\* Mutant: the handler reads m_next_searcher and does not clear it.
NotTaken == pending
Taken == 0

\* onStateSwitch
Switch ==
  /\ Running /\ pending # 0
  /\ installed' = pending
  /\ pending' = Taken
  /\ searchers' = Freed(searchers, installed)
  /\ UNCHANGED <<down, up, executor, alive, thread, walk, s2e>>

\* onTimer and onEngineShutdown, through the ipc's lock.  Batches without a
\* fork change nothing here and are left out.
Timer ==
  /\ Running /\ Len(upSent) < MaxBatches /\ forks # <<>>
  /\ Up!Send(Len(forks))
  /\ UNCHANGED <<down, executor, handing, alive, thread, walk, s2e>>

\* The destructor: the flag, then the join.
Destroy ==
  /\ Running
  /\ alive' = FALSE
  /\ s2e' = IF receiver = "none" THEN "aborted" ELSE "joining"
  /\ UNCHANGED <<down, up, executor, handing, thread, walk>>

Join ==
  /\ s2e = "joining" /\ receiver = "ended"
  /\ s2e' = "ended"
  /\ UNCHANGED <<down, up, executor, handing, alive, thread, walk>>

S2E == Initialize \/ Fork \/ Kill \/ Update \/ Switch \/ Timer \/ Destroy \/ Join

-----------------------------------------------------------------------------
(* The receiver thread, while the process runs.                            *)

Runs == s2e \in {"running", "joining"}

\* Mutant: the thread never looks at m_alive.
AlwaysActive == TRUE

Active == alive

\* while (*active), then rust_ipc_receive_message: an error other than
\* EndOfFile is a panic that ends the process.  The flag is read nowhere
\* else, so what S2E does between the two could as well come after them.
Stop ==
  /\ Runs /\ receiver = "receive" /\ ~Active
  /\ receiver' = "ended"
  /\ UNCHANGED <<down, up, executor, handing, alive, ids, excluded, walk, s2e>>

Receive ==
  /\ Runs /\ receiver = "receive" /\ Active
  /\ Down!PollingReceive
  /\ receiver' = IF result' = "message" THEN "filter" ELSE "receive"
  /\ s2e' = IF result' \in {"none", "message", "EndOfFile"} THEN s2e ELSE "aborted"
  /\ UNCHANGED <<up, executor, handing, alive, ids, excluded, walk>>

LiveOf(request) == request \ dead

\* Under dead_states_lock.
Filter ==
  /\ Runs /\ receiver = "filter"
  /\ ids' = LiveOf(Last(taken))
  /\ excluded' = dead
  /\ receiver' = "build"
  /\ UNCHANGED <<down, up, executor, handing, alive, walk, s2e>>

\* The loop over executor.getStates() begins.
Walk ==
  /\ Runs /\ receiver = "build"
  /\ walked' = states /\ changed' = FALSE
  /\ receiver' = "walk"
  /\ UNCHANGED <<down, up, executor, handing, alive, ids, excluded, s2e>>

\* What the loop may have found: changing the set under it is a data race,
\* which may skip a state or meet one that has gone.
Additions == IF changed THEN SUBSET (walked \cap ids) ELSE {states \cap ids}

\* Mutant: a searcher that still waits is kept, and the new one dropped.
FirstKept(new) == IF pending = 0 THEN new ELSE pending

Newest(new) == new

\* The new searcher is exchanged for the one that still waits, if any.
Publish ==
  /\ Runs /\ receiver = "walk"
  /\ \E add \in Additions :
       LET new == Len(searchers) + 1
       IN  /\ pending' = Newest(new)
           /\ searchers' = Freed(Append(searchers, NewSearcher(add, Len(taken), excluded)), pending)
  /\ receiver' = "receive"
  /\ ids' = {} /\ excluded' = {} /\ walked' = {} /\ changed' = FALSE
  /\ UNCHANGED <<down, up, executor, installed, alive, s2e>>

\* The data race may as well end in a crash.
WalkCrashes ==
  /\ Runs /\ receiver = "walk" /\ changed
  /\ s2e' = "aborted"
  /\ UNCHANGED <<down, up, executor, handing, alive, thread, walk>>

Receiver == Stop \/ Receive \/ Filter \/ Walk \/ Publish \/ WalkCrashes

Next == ReceiveBatch \/ Prioritise \/ CloseWindow \/ S2E \/ Receiver

\* The receiver is a thread that runs, and the join returns; S2E and the user
\* may do nothing for ever.
Spec == Init /\ [][Next]_vars /\ WF_vars(Receiver) /\ WF_vars(Join)

-----------------------------------------------------------------------------
(* Every packet the plugin takes is what the window sent, in order and     *)
(* once, although polling_receive only looks at its buffer; and back.      *)
PrioritiesDelivered == Down!Stream!Spec
BatchesDelivered == Up!Stream!Spec

(* No byte is lost in the priorities' direction, also not by a receive     *)
(* that fails.                                                             *)
PrioritiesKept == Down!NothingLost

(* The receiver's panic, which ends QEMU, takes more waiting in the socket *)
(* than a BufReader holds; one priority after another never causes it.     *)
PanicsOnlyOverflown == Down!FailsOnlyOverflown

(* Packets arrive whole and in order in both directions at once.           *)
PacketsDelivered == PrioritiesDelivered /\ BatchesDelivered

(* The receiver's buffer is enough for what the window sends one by one,   *)
(* and when it is not nothing is lost that a blocking read could not get.  *)
BufferSuffices == TypeOK /\ PrioritiesKept /\ PanicsOnlyOverflown

(* Two threads hand searchers over through one atomic pointer: none is     *)
(* deleted twice, none while it is in use or waits, and none is forgotten. *)
SearchersFreedOnce ==
  \A i \in DOMAIN searchers :
    searchers[i].freed = IF i \in {installed, pending} THEN 0 ELSE 1

(* The searcher that waits was asked for after the one in use, so a switch *)
(* never goes back to an older choice of the user; and the choices between *)
(* are skipped.                                                            *)
NewestChoiceWaits ==
  pending # 0 => \A i \in DOMAIN searchers \ {pending} :
                   searchers[i].request < searchers[pending].request

Behind ==
  /\ Running /\ states # {}
  /\ \A i \in {installed, pending} \ {0} : searchers[i].request < Len(taken)

(* Every choice that was received reaches S2E, it or a newer one: it waits *)
(* or is in use, unless no state is left or the plugin is on its way out.  *)
ChoiceHandedOver == Behind ~> ~Behind

(* A searcher, waiting or in use, holds no state that was killed before    *)
(* its request was looked at, not even where S2E still lists it.           *)
DeadLeftOut == \A i \in DOMAIN searchers : searchers[i].holds \cap searchers[i].dead = {}

(* A searcher is nobody's twice and never holds the dead.                  *)
SearchersSound == SearchersFreedOnce /\ DeadLeftOut

(* The destructor's join returns, whatever the receiver was doing and also *)
(* when the window is closed, unless the process aborted.                  *)
DestructorReturns == (s2e = "joining") ~> (s2e \in {"ended", "aborted"})
=============================================================================
