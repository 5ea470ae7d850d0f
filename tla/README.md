# Verification of AMBA

AMBA shows, while a program runs symbolically under S2E, the control flow that
S2E has seen so far. `amba init` fills a data directory with images of a guest.
`amba run` reads a recipe, starts QEMU with the S2E plugin *AmbaPlugin*,
receives the links between basic blocks and between symbolic states that the
plugin reports, keeps several graphs of them, lays them out, and draws the one
the user picked; a double click on a state asks S2E to go on from there.

This directory holds TLA+ models of the parts where an order of events, a
crash or a long sequence of legal calls decides whether that works, the TLC
configurations that check them, and machine-checked proofs, for every value of
the constants, of nearly all of the safety properties those check. Paths below
are relative to `src/`.

## 1. The system

| part | code | state it keeps | operations | talks to |
|---|---|---|---|---|
| plugin | `crates/AmbaPlugin` | amba id per state, last block per id, links since the last tick, dead states, next searcher | block start, fork, merge, kill, state switch, timer, shutdown | IPC socket, S2E |
| its receiver thread | `AmbaPlugin/src/StatePrioritisation.cpp` | the states asked for | receive, filter, walk the executor's states, publish a searcher | IPC socket, plugin |
| IPC | `crates/ipc`, `crates/libamba` | a socket, two buffers | blocking send and receive, polling receive, shutdown | plugin, IPC thread, controller |
| controller | `amba/src/run/control.rs` | channel, QEMU's pid, embedder's channel | run, run_controller, shutdown_controller | every thread |
| runners | `amba/src/run/runners.rs` | where the QEMU, IPC and QMP threads are | prepare_run, run_qemu, run_ipc, run_qmp | controller |
| QMP client | `crates/qmp-client` | a buffered stream, the next request id | greeting, request, receive | QMP thread, QEMU |
| commands | `amba/src/cmd.rs` | the tracked children | spawn and wait, kill on SIGINT, http | QEMU thread, init, every panic |
| embedder | `amba/src/run/embed.rs` | `blocking`, messages not handled | poll, wait, handle, layout | controller, model, window |
| model | `crates/model` | three control flow graphs, five laid-out graphs, parameters, view | add_new_edges, run_layout_iterations, gui_*, get_neighbour_states | embedder, window, controller |
| control flow graph | `model/src/control_flow.rs`, `data-structures/src/graph.rs` | links, compressed graph, merges | update, compress, tarjan, kosaraju | model |
| disjoint sets | `data-structures/src/disjoint_sets.rs` | parents and sizes | merge, canonicalize | assertions of `graphui/src/embed.rs` |
| neighbour sets | `data-structures/src/small_set.rs` | an array or a tree | insert, remove, union | control flow graph |
| layout | `graphui/src/embed.rs` | positions, velocities, a tree of boxes | build_in, force_on | model |
| source lines | `crates/disassembler` | files read, with their lines | get_source_line | model |
| window | `amba/src/gui.rs`, `crates/graphui` | view, selected node | update (a frame), on_exit | model, controller |
| init | `amba/src/init` | `version.txt`, images | init, download, build | file system, network |
| sessions | `amba/src/run/session.rs`, `crates/recipe` | a directory per run | check, create, copy, save | init's images, the guest |
| bootstrap | `crates/bootstrap` | files in the guest | fetch, make symbolic, start | sessions |

What is hard about each, and what makes it correct:

- **Control flow graphs.** A graph is compressed while it grows: each new link
  may cut chains of blocks and let others merge. Correct is: whatever the order
  of links, the compressed graph is the compression of all of them. The code
  indexes nodes without checks, so neighbours must mirror each other, the map
  of merges must lead to live nodes, and what the window gets by position must
  be in one piece and never shrink.
- **Strongly connected components.** Two algorithms with explicit stacks, and a
  third function that turns components into colours. Correct is: they find the
  classes of nodes that reach each other, and a colour is one of these.
- **Names of states.** S2E reuses the guid of a state when it forks, so two
  graphs of the plugin count ids of their own. Correct is: they agree, ids are
  not shared, a block is linked to the block the same execution ran before,
  and links between states never form a cycle (the model recurses over them).
- **Prioritising.** The receiver thread builds a searcher from states that the
  guest's thread forks and kills meanwhile, and hands it over through one
  atomic pointer. Correct is: it is freed once, the newest choice wins and
  arrives, killed states are left out, and the plugin's destructor returns.
- **Framing.** Streams are read in any pieces, once by a blocking and once by a
  polling reader. Correct is: packets arrive whole, once and in order.
- **QMP.** Answers and events share a stream that several reads cut anywhere.
  Correct is: an answer is that of its request, and a shutdown is told.
- **Coming up and shutting down.** Five threads, a second process and two
  sockets, with unwrapped sends and a panic hook that ends the process. Correct
  is: sends find receivers, the end of QEMU ends a run without a window, no
  QEMU is left behind, the window survives the end of QEMU.
- **Commands.** A child is polled under a lock that a signal handler also
  takes. Correct is: SIGINT always ends the process, and says by its exit code
  whether children were killed.
- **Embedder, model, window.** Three threads and two kinds of locks. Correct
  is: no link is lost or reordered, no wake-up is lost, frames do not deadlock
  with layouts, and the last thing drawn is the truth.
- **Disjoint sets, neighbour sets, boxes, source lines.** Two meanings share
  one map; a set changes its representation; slices are halved in parallel
  with nothing but arithmetic to keep the halves apart; a cache of files that
  change. Correct is: calls return, and answer as the plain thing would.
- **Init.** It may be interrupted anywhere, and the download restarts. Correct
  is: `version.txt` only ever names complete images, and what was left behind
  is removed.
- **Sessions and recipes.** Two instances may be started in one second; ranges
  of symbolic bytes are normalised twice. Correct is: one guest per session,
  its own files, and exactly the bytes asked for.

Every hazard found is listed with its line in `PROJECT.json`, with the
properties that are about it, or with the reason why none is.

## 2. Modules

| module | models | checked by |
|---|---|---|
| `GraphOps` | the operations of `Graph` as operators on a value `[nodes, merges]` | through `ControlFlowGraph` |
| `ControlFlowGraph` | `ControlFlowGraph::update`, one link at a time, one turn of the merge loop per step | `control_flow` |
| `FullCompression`, `CompressedView` | abstract: the compression of a set of links, and a view that shows that whenever its lock is free | refined by `ControlFlowGraph` |
| `Scc` | `tarjan`, `kosaraju`, `connect_dag`, `inverse_tarjan` | through `ShownGraphs` |
| `ShownGraphs` | what the window gets of a graph: nodes by position, depths, colours | `control_flow`, `scc_colours` |
| `StateIds` | the callbacks of the plugin that name states and report links | `state_ids*` |
| `DisjointSets` | union-find with `find` one loop turn per step, driven as its caller does | `data_structures` |
| `SmallU64Set` | sets of neighbours across their spill | `data_structures` |
| `PlainSet` | abstract: a set | refined by `SmallU64Set` |
| `BarnesHut` | the parallel building of the tree of boxes, and the walk over it | `data_structures` |
| `SourceLines` | the cache of source files, and files that change | `data_structures` |
| `DataStructures` | the four above side by side | `data_structures` |
| `RunLifecycle` | all threads of `amba run`, QEMU and the plugin's end of the sockets | `run_amba` |
| `ChildReaper` | `Cmd`'s waiting for children and `ctrlc_handler` | `host_threads`, `child_leak` |
| `Embedding` | links from the plugin's buffer to a frame of the window | `embed` |
| `Delivery` | abstract: what the window promises about links | refined by `Embedding` |
| `IpcFraming` | one direction of the IPC socket, byte by byte | through `Prioritisation` |
| `Prioritisation` | a double click up to S2E's searcher, over two instances of `IpcFraming` | `priorities` |
| `QmpClient` | `run_qmp` over `QmpClient` over `ReadUntil` | `host_threads` |
| `HostThreads` | `ChildReaper` and `QmpClient` side by side | `host_threads` |
| `Fifo` | abstract: messages taken in the order sent, each once | refined by `IpcFraming` and `QmpClient` |
| `ResumingDownload` | the requests of a download and its `ResumingReader` | through `GuestImages` |
| `GuestImages` | `amba init`, with a crash after any step | through `Sessions` |
| `Published` | abstract: images usable all at once or not at all | refined by `GuestImages` |
| `Recipes` | ranges of symbolic bytes | through `Sessions` |
| `Sessions` | instances of `amba run` up to the program in their guest, over `GuestImages` | `data_dir` |
| `GraphProofs` | proofs about `GraphOps` and `ControlFlowGraph` | TLAPS |
| `DataStructuresProofs` | proofs about `DisjointSets`, `BarnesHut` and `SmallU64Set`, as `DataStructures` runs them | TLAPS |
| `EmbeddingProofs` | proofs about `Embedding` | TLAPS |
| `RunProofs` | proofs about `QmpClient`, `StateIds`, `RunLifecycle` and `ChildReaper` | TLAPS |
| `SessionsProofs` | proofs about `GuestImages`, `ResumingDownload` and `Sessions` | TLAPS |
| `StreamLemmas` | induction, recursive definitions, concatenations of packets | TLAPS |
| `FramingProofs` | proofs about one direction of a socket, instantiated for both | TLAPS |
| `PrioritisationProofs` | proofs about `Prioritisation` and both its sockets | TLAPS |

The modules meet at these seams. `StateIds` describes the links that
`ControlFlowGraph` receives (`Rooted`: a block link never comes from a block not
seen before, the property `BlockLinksRooted` of the one and the assumption of
the other), and how a fork links its nodes, which `Prioritisation` takes over.
`Embedding` carries such links as numbers, in order, and replaces its graphs by
whole new ones where `ControlFlowGraph` computes them, as `ShownGraphs` shows
them. `RunLifecycle` has the same threads as `Embedding` but only whether a
message arrives, not what it says, which is `IpcFraming`'s and `QmpClient`'s
part; its panics kill through the handler of `ChildReaper`. `Sessions` starts
from the images that `GuestImages` publishes and ends where QEMU starts in
`RunLifecycle`. Definitions under a comment `Mutant:` are variants a bug could
have produced; nothing in a specification uses them, they only document what
each property would catch.

### Correspondence, module by module

**GraphOps / ControlFlowGraph.** `nodes` maps the id of each live node to its
`from`, `to` and `of` (the chain it stands for), `merges` a node merged away to
where it went, as in `graph.rs`. `translate` shortens paths as it is called
(`Translated`), and `Root` is its answer. `update_metadata` hands out ids in
order of first appearance, so only their number (`seen`) is kept. `Update` is a
call up to the first look at the queue of `compress_with_hint_2`;
`CompressStep` is one turn of that loop, and no other update starts before it
is done. `translate` on the neighbours inside `are_mergable_link`, `are_loop`
and `apply_merges` is left out: by `NeighboursMirrored` and `MergesNameTheDead`
neighbours are live and translate to themselves.

**Scc / ShownGraphs.** The explicit stacks of `tarjan` and `kosaraju` are
sequences; `Scc` follows their loops turn by turn as recursive operators. Worker
threads that compute the same for large graphs are not told apart.
`ShownGraphs` has no state of its own. `Position` is the renumbering of
`get_compressed_metadata_and_selfedge_and_sequential_edges`, `NodeDepth` the
search of `initial_node_positions`, `Colours` the map `add_new_edges` indexes.

**StateIds.** One event of S2E is one action: both graphs' callbacks run on the
thread that emulates the guest, one after the other. `assembly` and `symbolic`
are the two `ControlFlow` objects (`ids`, `count`), `lastBlock` is
`m_last_executed_bb`. Block contents, generations and solved inputs are left
out, except that a node made by a merge is told from one made by a fork, since
it carries no solved inputs. `trail` is a history variable: the block each
state really ran last.

**DisjointSets.** `parent_or_size` and `root_names` are the two maps. `call`,
`finding`, `roots` are the caller's and `find`'s local variables; `LIMIT`
stands for 2^63.

**SmallU64Set.** `rep` is the array, in its order, or the tree. The other set of
a `union` is any sequence its `iter` can yield (`Iterated`), inserted one after
the other (`Joined`). `answer` is the
last call with what it returned, so that `PlainSet` can be asked for the same.

**BarnesHut.** `tasks` are calls of `build_in` that may run now, `joins` those
that wait for their halves; below the threshold the right half begins when the
left one has ended. A point is a number, since the median partition only
decides which number goes where. A `Share` is the two slices a call gets.

**SourceLines.** `disk` is what the files hold, characters of which only those
of line ends are told apart; `files` is the cache, with what the first read
returned. `Edit` changes or removes a file between two texts, and `told`, a
history variable, remembers one text.

**RunLifecycle.** `threads` says where each scoped thread is, `ctl` where the
controller is, `process` how the main process ended, with a value for each
unwrap that may panic. `rx` is the controller's channel with the kinds of
messages only. A panic of any thread ends the process (hook of `main.rs`).

**ChildReaper.** `wait` is where `safe_wait` is, `holder` who has locked
`CHILDREN`, `tracked` what is in it, `handler` where each thread is in
`ctrlc_handler`. The handler never unlocks (it leaks the guard).

**Embedding.** `embedder.at` is a place of `run_embedder`: poll, wait, handle,
replace the graphs one by one, layout, write back, finish. A graph is the links
it draws, the parameters it was laid out with, and how many layouts it needs
until it rests (`Steps`); an infinite position resets it. `Views` are those of
the five graphs of `Model` an instance has; they differ only in the stream of
links they are built from and in their place in the order of replacement. `window.at` is a
place in `Gui::update`; `reader` is the read lock a frame holds.
`modelwide_single_writer_lock` is left out since only the embedder takes it.

**IpcFraming / Prioritisation.** A byte knows its packet and its place in it, so
a packet read from a wrong place is told from one read from its start.
`partial` is what `blocking_receive` has consumed. `polling_receive` takes what
`fill_buf` gives it and either consumes a packet or leaves all as it was.
`searchers` lists every searcher ever made with what it holds and how often it
was freed. The receiver reads the set of states without a lock: when S2E
changed the set under its walk, the walk may have found any part of what it
looks for, or crash (`Additions`, `WalkCrashes`).

**QmpClient.** A message is a line of `LineLength` bytes that know their
message. `Read` is one call of `ReadUntil::read`, `Receive` what `from_reader`
and its caller do with a whole line. `Stages` are the three calls of the
handshake and the loop for events; `answers` keeps the ids that were returned.

**GuestImages / ResumingDownload.** `step` is the step of `init` that is next,
so that `Crash` may come between any two, and `RemoveImages` and the unpacking may be
left half done. The build script, `chmod`, `umount`, the server, `xz` and `tar`
are external; their outcomes are choices. A byte delivered is its place in the
file.

**Sessions / Recipes.** `doing` is what an instance does next; a directory is
the map from names of host files to their owner and kind. `Normalize` is called
on the host and again in the guest, as the code does. `Word` is a small
`u64`, and `checked` says whether the build panics on overflow.

## 3. Runs

| run | bounds | what it shows | states |
|---|---|---|---|
| `control_flow` | 5 nodes and 7 links of blocks; 4 nodes and 6 links of any kind | after every turn of the loop neighbours mirror, chains partition the nodes, merges name exactly the dead; between blocks, it implements `CompressedView` and equals the one-pass compression node by node; the loop ends; tarjan and kosaraju find the components; what is shown is in one piece, near its first node, and never shrinks | 0.3 M |
| `any_links` | 5 nodes and 6 links of any kind | **violation**, see findings | |
| `scc_colours` | 4 nodes, 5 links | **violation**, see findings | |
| `state_ids` | 3 guids, 6 ids | ids agree and are distinct, links ascend and follow execution, block links are rooted, the state graph is in one piece until the first merge | 0.25 M |
| `state_ids_merge_assert` | the same | **violation** | |
| `data_structures` | 5 nodes and 4 links; sets of values 1 to 5 that spill after 3; up to 9 points that fork above 2; files of up to 4 bytes | union-find answers least elements, sizes are right and every call returns; `SmallU64Set` implements `PlainSet` and counts; the tree is built without a slot too few or shared and finds every point; a text is the same every time and holds what is between two newlines | 0.45 M |
| `run_amba` | with and without a window, 2 clicks, 2 sends, crashes | sends find receivers; without a window no QEMU is left and the end of QEMU ends the run | 0.3 M |
| `host_threads` | lines of 3 bytes, buffer of 4, 1 or 2 bytes per read, 2 events; 2 commands, 1 panicking thread | implements `Fifo`; answers match, failures have a reason, a shutdown is told; exit code 1 means killed, a poll finds its child, SIGINT ends | 0.1 M |
| `child_leak` | 2 commands, 1 panicking thread | **violation** | |
| `embed` | 2 links, 1 tick, 1 edit or reset, 2 of the 5 graphs, 3 settings of the sliders, one with noise | implements `Delivery`; the embedder sleeps only when done, frames are drawn, the last one is right | 0.7 M |
| `priorities` | 2 forks, 1 kill, 2 double clicks, 1 batch; header of 2 bytes, buffer of 5 | both directions implement `Fifo`, no byte is lost, a panic takes an overfull socket; searchers are freed once, the newest choice waits and arrives, the dead are left out, the destructor returns | 0.9 M |
| `data_dir` | file of 2 bytes, 2 hops, 2 timeouts, 2 inits, 2 instances, 2 seconds, 2 ranges in words 0 to 3 | implements `Published`; version means complete, remains are removed, nothing is downloaded twice; one guest per session, with its own files and the symbolic bytes it asked for | 1.1 M |

Safety of one kind is checked as one property that is a conjunction of named
parts, each stated where it is defined: `WellFormed` of `ControlFlowGraph` has
`NeighboursMirrored`, `ChainsPartition` and `MergesNameTheDead`, for one, and
`EndsInOrder` of `RunLifecycle` has `SendsFindReceivers` and
`HeadlessLeavesNoQemu`. They include the module's `TypeOK`.

Why the bounds suffice. Cutting a chain needs three nodes and a fourth to cut
it from; the one-pass and incremental compressions were first seen to differ
(in unrooted graphs) at five nodes and six links, so rooted graphs get five,
with one link more. Two components that meet in one graph need four nodes.
Three states allow a fork of a fork and a merge of either pair, and six ids
allow three forks or merges. Trees of two levels, where `find` has something to
compress, need four elements. A set that spills after three gets two values
more, and nine points need the next larger buffer and halve into odd and even
shares on both sides of the threshold. Two of each message let one
overtake another thread's. One edit, of the parameters or the view, may come at
any place of a layout, and three settings let it lead from one without noise to
another, after which the last frame must show that; two links in two batches let the embedder join them or
not, and two graphs, one of each stream, let a frame hold the one that is to be
replaced or the other. A buffer of five bytes holds any packet the two forks
allow but not two, so that a packet is cut by the buffer's end; a line of three
bytes and a buffer of four put the start of one line behind the end of another.
Two timeouts resume a resumed download, two inits let one find what the other
left, and words up to three let ranges of a file touch, overlap, nest and end
at the largest word. Every bound is a constant whose comment says so.

### Fairness

- `ControlFlowGraph`: the merge loop, which runs inside one call.
- `DataStructures`: calls of union-find go on.
- `RunLifecycle`: each thread is scheduled, QEMU exits once it is stopping, and
  the plugin's receiver polls. Spawning QEMU is not fair: the recipe may ask to
  stop it for a debugger. Nothing is assumed of the user, of the guest, nor
  that a crash happens.
- `ChildReaper`: threads are scheduled; signals, panics and ends of children owe
  nothing.
- `Embedding`: threads are scheduled, S2E's timer fires until its engine shuts
  down, and egui draws a frame it was asked for. `Write` needs no strong
  fairness because a waiting writer holds new readers back (std's `RwLock` on
  Linux), which the model has as `WriterWaits`. That layouts come to rest
  without noise is an assumption about the force simulation (`Steps`).
- `Prioritisation`: the receiver thread runs, and a join whose thread has ended
  returns. S2E and the user may do nothing for ever.
- `QmpClient`: the thread runs; QEMU owes nothing.
- `Sessions`: none. Whether an init ends is up to the build script or the
  server.

## 4. What was found

Each finding is a `violation` run, with the lines quoted in `PROJECT.json`.

1. `scc_colours`: `inverse_tarjan` lists colours component after component,
   and `add_new_edges` looks them up by the position of a node. Nodes of one
   component come to have different colours.
2. `state_ids_merge_assert`: after S2E merges states, the state graph is in
   pieces, which `seeded_replace_self_with` asserts it never is.
3. `child_leak`: SIGINT right after a spawn, or during a poll, leaves the child.
4. `any_links`: after the links 0-1, 1-2, 3-0, 4-3, 0-0, 2-4 the compression that
   is kept up to date leaves a chain uncompressed, which the property test at
   `data-structures/src/graph.rs:936` excludes for any links. A cut removes the
   merges of its two parts only; `compress_with_hint` follows one that is left
   and looks at the links of a node that no longer holds the end of the new
   link. The program's block graphs have no such links: there, a new link can
   only be merged if it leads to a block that is new and was never merged. (It
   was an attempt to prove the refinement for all links that led here.)

The models have more outcomes a reader of the code may want to know. They are
stated as the exception of a property, or as an outcome nothing is claimed of,
because no document promises otherwise or because the case is not reached by
the program:

- `find` (`disjoint_sets.rs:58`) never returns for an element two steps from
  its root. Graphs of up to five nodes whose links lead, in ascending order, from
  nodes met before do not get there; the block graphs are such graphs, and the
  state graph until S2E merges states, when the assertion of finding 2 fails.
- The plugin closing its socket with a priority unread is a reset, on which
  `run_ipc` panics and takes the window along (`runners.rs:96`); the report has
  graphs inspected after the end (`doc/report/amba/main.tex:210`).
- A slider moved after the controller failed (`gui send`) and a crash of QEMU
  while the QMP thread reads (`qmp eof`) end the process by a panic. No call of
  the QMP client ever returns `EndOfFile`, and an event without data is a panic
  as well. A SHUTDOWN that arrives during the handshake is only logged.
- States forked between the receiver's walk and the switch to its searcher are
  not in it.
- Remains of an init with `imagefs` still mounted are not removed: `chmod` comes
  before `umount` and fails (`amba/src/init/mod.rs:36` says they are).
- A range that ends before it starts makes the rest of the file symbolic in a
  release build. Files named `bootstrap.sh`, `bootstrap.elf` or `recipe.json`
  meet the session's own. Of two instances in the same second one fails, but
  may have overwritten files of the other before.
- The cache of source files has an empty line after the newline that ends a
  file, `Some("")`, where the comment at `file_line_cache.rs:16` promises `None`
  for a line that does not exist, and the reader of the tests
  (`disassembler/src/lib.rs:209`) has none. It is not shown: an empty line is
  left out of the texts. `TextsSound` says nothing of this one number.

## 5. What is proved

Twenty-nine properties of the runs hold for every value of the constants: the
theorems below, checked by TLAPS. Their only assumptions are those the models
name (`BoundsAssumption` of `ControlFlowGraph`, of `DisjointSets` and of `Embedding`,
`LimitAssumption`, `LinesAssumption`, `PointsAssumption`, `ValuesAssumption`, `ParamsAssumption`,
`RootAssumption`, `BlockAssumption`, `BoundAssumption`, `ImagesAssumption`,
`DownloadAssumption`, `RecipesAssumption`, `SessionsAssumption`,
`ThreadsAssumption`, `ConstantsAssumption`, `PrioritiesAssumption`,
`QmpAssumption`), which TLC evaluates on every run that uses the module. None of the
properties is inductive; each proof is about what has to be added to it.

### Control flow graphs: `GraphProofs`

`GraphIsWellFormed`, for any number of nodes and links, rooted or not: whatever
links came in whatever order, and after any turn of the merge loop, no
unchecked index of `graph.rs` can miss. `GraphInv` is about one value:
`Fits(compressed, Seen)` says that the nodes hold chains of different ids
(`HoldsChains`), that every id seen is in exactly one chain, which is named
after its least (`Partitioned`), that neighbours are live and mirror each other
(`Mirrored`), and that the merges name exactly the dead and lead to lesser ids
(`MergesFit`). The last is what `MergesNameTheDead` needs: following merges
that descend ends, and only at a live node (`RootIs`). Every operation of
`GraphOps` is shown to keep `Fits` by a lemma of its own: `TranslatedFits`
(paths are shortened), `InsertedFits`, `CutFits` (a chain is cut in two, of
which the one with the greater least id gets a new node, so that its merge must go),
`SplitAfterFits`, `SplitBeforeFits`, `RevertAndUpdateFits` and `MergeFits`
(two chains are joined, after `RotateTurns` when the chain is a loop).

`IncrementalImplementsFull`, for links between blocks: what is shown between two
updates is what compressing all links at once would make of them, the
refinement of `CompressedView`. The argument is about links, not about graphs:

- `StandsFor(nodes, E)` says that the links inside of chains (`Inner`) and from
  ends of chains to starts of chains (`Outer`) are `E`, which nothing but the new
  link may change. A cut makes an inner link an outer one and a merge undoes it;
  both are instances of `FinerLinks`, read in opposite directions (`CutLinks`,
  `MergeLinks`).
- `RootedLinks(E, S)` says that every block but the first is reached from a
  lesser one. It gives `NoClosedLoop`: no compressed node is a loop that nothing
  else enters, hence no chain is ever rotated, and no merge is refused for
  being a loop.
- `Joinable(nodes, l, r)` is a pair of nodes with one way out and one way in.
  `NothingLeft` shows that a graph that stands for rooted links and has no such
  pair is the compression of the links (`IsCompressed`).
- `BlockInv` is therefore the links, their root, and that every joinable pair
  is in the queue. Between two updates there is none, and the only pair that an
  update makes joinable is the new link itself, which it queues
  (`RevertAndUpdateLinks`, `NewlyJoinable`). A merge makes no pair joinable that does not
  touch the merged node (`MergeLinks`), whose links it queues. When the queue is
  empty nothing is joinable, and the update ends.

Two results follow from it, for links between blocks:

- `FastIsSlow`, that compressing in one pass gives the same graph. The pass is a
  fold over the links to merge (`CompressFolds`), which are those that are their
  source's only way out and their target's only way in (`ToMergeIs`, `Sole`). By
  induction over how many of them are merged, the graph stands for the same
  links, those merged are inside of chains, and, as nothing is ever cut, merges
  lead every member of a chain to its node (`Joined`, `MergedAlongJoins`). So
  nothing is joinable at the end either, and there is one such graph only
  (`CompressionIsUnique`: chains that agree on what follows what are the same).
- `NothingShownIsLost`, that a new link never leaves fewer compressed nodes. A
  compressed graph has as many nodes as there are ends of links less the
  contracted links: every member of a chain but the first has one contracted link
  to it (`OneLinkEach`). A new link contracts no link but itself, and if it is
  contracted, its target is new, as every block but the first was reached before
  (`LinkNeverShrinks`). `InsertInv` says that the links without the one being
  inserted are rooted, too.

### Data structures: `DataStructuresProofs`

- `ComponentsAreNamed`, of `DisjointSets`: for any number of nodes and any
  links, with `find` at any turn of its loops. `PiecesInv` says that there is a
  map from elements to roots that fits everything (`Fits`): a parent has the
  same root, a root has the size and the least name of its set (`RootsFit`,
  `NamesFit`), `find` has only met elements of the set it was asked about
  (`FindFits`), and two elements have one root exactly if they are connected
  (`Classes`). That a call of `find` ends is not claimed, and not true of all
  maps (see above). `Connected`, by which the property says what a component
  is, is a recursive function along the links; `LeastClosed` shows that it is
  the least set closed under them.
- `TreeIsSound`, of `BarnesHut`: for any number of points, any threshold and
  any order in which calls of `build_in` run. `Under` is the set of the shares
  that halving a share leads to, the least set closed under `Halves`; two of
  them are nested or apart in slots and in points (`Related`), and one is large
  enough for its halves. `BoxesInv` says of all shares under the whole that the
  calls that run or wait are among them, that what is built has its content
  (`TreeFits`), and that whoever has begun has a parent that waits or is done
  (`ParentsOpen`).
- `NeighboursAnswerAsSets`, of `SmallU64Set`: the refinement of `PlainSet`, and
  that `len` counts, for any values and any `SMALL_SIZE`. `NeighboursInv` says
  that an array holds no value twice and is no longer than `SMALL_SIZE`
  (`Reps`); `InsertedIs` and `RemovedArray` say that the elements after an
  insert or a remove are those of the set, `JoinedIs` that one insert after the
  other is the union, and `LengthIs` that a representation is as long as its
  set is large.
- `TextsAreSound`, of `SourceLines`: for files of any length, with either kind of
  line ends, any debug data and any number of changes on the disk. The cached
  starts that are not behind a character are as many as the newlines before it,
  and one (`StartsAreRanked`), so a line's number finds its place (`PlacesAre`);
  without its line end (`StrippedIs`) it is what stands between two newlines
  (`LinesAreBetween`); the number after a final newline is excluded (section 4).
  What is cached is never replaced (`KeptIn`), so a text
  made again looks at the same lines (`LineKept`, `ToldInv`), whatever has
  happened to the files since.

### Embedder, model and window: `EmbeddingProofs`

For any graphs, links, parameters, ticks and acts of the user:

- `EmbedderRestsWhenDone`: a decision to block is made in one place, from a copy
  of a graph and of the parameters, and carried out in another, after the user
  may have changed either. `RestInv` says for each place of `run_embedder` that
  the decision is right or a message is in the channel that will undo it
  (`BlocksWhenDone`, `Told`), which needs to know that nothing is left unhandled
  where it decides (`Handled`), that the window and the model agree on the view
  (`SameView`), and that a layout with noise never rests (`NoisyMoves`).
- `LinksComeInOrder` is the refinement of `Delivery`'s `InOrder`. The links
  reported are those the model knows followed by those in the embedder's hand,
  in its channel, on the wire and in the plugin's buffer (`Flow`); a graph shows
  a beginning of what is known (`ShowsKnown`), and a layout that is written back
  has the links of the graph it was taken from (`CopyShows`), so no graph goes
  back to fewer links.

### Names of states: `RunProofs`

For any set of guids with a boot state, any blocks and any bound on ids:
`GraphsAgreeOnIds`, `NoTwoStatesShareAnId`, `StateGraphAcyclic`,
`BlockLinksFollowTheState`, `GraphsGrowInOnePiece`.

That the graphs agree needs to know that before the first fork the state graph
has named nobody and the block graph at most the boot state, and that after it
both have named everybody: then a block start names no one new. That links
ascend needs ids to be at most the count, and that ids are distinct needs guids
not handed out to have none. A fork records the last block under a fresh id, so
nothing may be recorded above the count. `IInv` is the conjunction of these
with the properties. The lemmas `IncrementedProperties`, `NamedProperties` and
`ForkedProperties` say what the operations on one graph's map of ids return;
`BlockStartKeepsIInv`, `ForkKeepsIInv`, `MergeKeepsIInv` and `KillKeepsIInv`
show that `IInv` survives each action; `Inductive` puts them together.
`GrowInv` adds that what a state ran last is a block a link has led to, and
that until a merge every state S2E forked is a node under its present id: so
the node a fork starts from is there (`ForkConnects`).

### Init, downloads and sessions: `SessionsProofs`

About `Sessions`' specification, in which `amba init`, crashes of it and
instances of `amba run` interleave, for any versions, instances, recipes and
bounds.

- `CompleteWhenNamed`: `version.txt` names a version only while `images` holds
  all of it. A crash may come anywhere and the next `amba init` starts from
  what is left. `ImagesInv` adds, per step of init, what it relies on:
  `version.txt` was withdrawn before anything else (`WithdrawnFirst`), old
  images were removed before new ones are acquired (`RemovedBefore`), what is
  made is of the version that will be written (`MadeOfIt`), and from the
  assertions to the write it is whole (`CompleteToWrite`). There is one lemma
  per step; most end in `AwayKeeps`, which says what is left to show while
  `version.txt` is away.
- `OnlyOnPublished`: the same invariant gives the refinement of `Published`
  (`UsableIs` says what its variable is, `NamedStays` that a named version is
  only ever withdrawn), and `StartsOnComplete`, that `amba run` goes on only
  where images are complete.
- `RemainsAreRemoved`: a removal that got past `chmod` works on images that are
  writable and not mounted, which is `RemovalInv`.
- `EachByteOnce`: with a server that honours ranges, the reader's position, the
  offset it would ask for next and what was delivered agree (`DownloadInv`), at
  every timeout and redirection.
- `BytesAreAsAsked`: for ranges of any kind and number and words of any size.
  What a sort returns is only used as far as sorting promises it
  (`SortedIs`; `SortExists` shows that there is such an order). One turn of the
  merging covers the same bytes and leaves a gap before the next range
  (`MergeOne`), so all turns do (`MergedAllIs`), on the host and again in the
  guest, where nothing is left to merge. `SymbfileIs` and `AskedIs` say what one
  call marks and what the recipe asks for; `SymbolicInv` says which files an
  instance alone in its directory has left to get and what is marked by then.
- `OneGuest`: links of a session's directory are made by one instance.
  `SessionsInv` says that whoever made them finds them there and is the only
  one in this directory who did; `RunKeeps` treats all steps that make none,
  `LinkToolsKeeps` the one that does.
- `SessionsStayApart`: with types and `OwnFiles`. `OwnInv` says for an instance
  that is alone in its directory (`Alone`) which of its files are in place at
  every step, on the host and in the guest (`Own`). That nobody else writes
  there needs to know that whoever writes has looked first
  (`FoundBeforeWriting`); the types need to know what normalised ranges are.

### Processes and threads: `RunProofs`

- `KilledOrReaped`, for any commands and any threads that may panic: the poller
  holds the lock wherever it uses the map (`PollerHolds`), a handler that kills
  holds it for good and has the map (`KillerHolds`), and a command that is
  polled or slept on is in the map or among those a handler took
  (`EnteredOrTaken`). `ThreadsAssumption` says that no thread has the name that
  stands for nobody.
- `RunEndsInOrder`, for any clicks and messages, with or without crashes: what
  the controller has joined so far tells which threads have ended (`Joined`),
  and the QEMU thread ends only after it has reaped (`QemuAndItsThread`).

### Streams: `StreamLemmas`, `FramingProofs`

What is in a socket, read ahead and partly consumed is the concatenation
(`FlattenSeq`) of the packets sent and not taken. To reason about it for
packets, headers, buffers and reads of any size, `StreamLemmas` proves induction
over the naturals for sets (`Induction`), that the recursive functions the
models and `FlattenSeq` are defined by exist (`RecursionExists`), what
`FlattenSeq` is when a packet is added behind or taken off the front, and
`ReadNext`: what is in sight of a stream is the next packet as far as it goes,
and if it is as long, the packet is whole and the rest is the stream without it.

`FramingProofs` is about one direction of a socket, with no theorem of its own:
`PollingInv` and `FramingInv` say that the bytes are kept (`Kept`), that what
was taken is what was sent (`TakenAsSent`), that a blocking receive holds less
than a packet between its reads (`PartOfPacket`), and that as long as reads
took all there was the socket holds whole packets (`WholePackets`): so a
polling receive that fails has met a buffer too small for what was waiting.

### Prioritising: `PrioritisationProofs`

For any number of forks, kills, double clicks and batches and any sizes:

- `SearchersStaySound` and `NewestChoiceIsNext`: a searcher is never both
  installed and pending (`OneOfEach`), a request being looked at is newer than
  every searcher's (`LookedAt`), what the receiver is about to build from is
  already filtered (`Filtered`), and a fork is younger than every list of dead
  states a searcher was made with (`ForkedLater`), so it cannot bring one back.
- `BufferIsEnough` and `PacketsAreDelivered`: `FramingProofs` is instantiated for
  both directions (`DownProofs`, `UpProofs`). Its hypotheses are the types of
  what is sent: `GuidType` and `NeighbourType` show that the states around a
  node, which the model defines recursively along the forks, are always guids
  S2E gave out; `AtNodes` and `Reported` say where the window and the batches
  may be. `PacketsAreDelivered` is the refinement of `Fifo`, twice at once.

### QMP: `RunProofs`

For lines, buffers and reads of any size and any number of events:

- `LinesAreDelivered`: the line so far, the buffer and the socket are the lines
  not yet parsed (`LinesInv`). `ReadLines` is the core: a read ends at the first
  newline in sight, which is this line's, because what is in sight begins with
  this line; `LineIsNext` says that at a newline the line is the next message
  and nothing else. This is the refinement of `Fifo`.
- `RequestsGetTheirAnswers`: ids are not compared by the code, so the proof has
  to count: while the client waits for the answer to `n`, either the request is
  with QEMU and no response is under way, or one response is and it has the id
  `n` (`Owed`, in `HandshakeInv`); before the greeting QEMU says nothing else
  (`Greeted`). That a line parses follows from `LinesInv`.

### Only model-checked

- Liveness (`LoopEnds`, `CallsReturn`, `SigintEnds`, `HeadlessEnds`,
  `WindowLives`, `LinksArrive`, `ChoiceHandedOver`, `DestructorReturns`,
  `ShutdownTold`): fairness and `ENABLED` are out of the prover's reach.
- `ComponentsFound` and `ShownWhole`: `Scc` and `ShownGraphs` use recursive
  operators, with which the prover cannot be used.

## 6. Not modelled

Left out for good, each for its reason:

- The layout's forces, in floating point; how many layouts a graph needs is a
  parameter of `Embedding`.
- Drawing and levels of detail (`graphui/src/widget.rs`, `lod.rs`): the geometry
  of one frame. What outlives a frame, the index of the selected node, is
  covered by `ShownNeverShrinks`.
- Generations and contents of translated blocks (`AssemblyGraph.cpp`): they only
  fill fields of a node, though the packed key is not unique (see the hazards).
- Reading of arguments and subcommands other than `init` and `run`, the text of
  the S2E configuration, starting the program in the guest.
- Capstone and `addr2line`; `get_source_lines`, which only tests call.
- Code nothing calls, and the example graph.
