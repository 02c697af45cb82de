# A TLA+ model of libnd4j

libnd4j is the native engine of ND4J: a library of numerical kernels, and on
top of it a small runtime that imports computation graphs, orders their nodes,
executes them with conditionals and loops, keeps their variables and manages the
memory their arrays live in.  The kernels are data to this project.  What it
models is the runtime (a graph builder with several entry points, two
interpreters with frames, rewinds, scopes and aliased arrays, the variable
spaces, a concurrent memory arena, a concurrent session store) and the two parts
of the kernels that have control of their own: the random ops over a shared
buffer and the parallel compression of gradients.

Paths below are relative to the repository, `src/` in `PROJECT.json`.  Models
follow the CPU backend; the random ops and the compression, whose results must
not depend on the backend, follow both.

## 1. Inventory

| Component | State | Operations | Talks to |
|---|---|---|---|
| Workspace (`include/memory/cpu/Workspace.cpp`) | buffer, offset, spill list, three counters, two mutexes | allocateBytes (many threads), scopeIn, scopeOut, expandTo/By, destructor | malloc; NDArray allocates from it; the executor grows it and reads its footprint |
| Graph builder (`include/graph/impl/Graph.cpp`) | `_nodes`, `_mapped`, `_onion`, `_unmapped`, `_unmappedMap`, scopes, `_built` | addNode, the FlatGraph constructor, buildGraph, clone, asT, validate, prepareOutputs, tagInplaceNodes | Node, Scope, VariableSpace; read by the executor |
| Graph executor (`blas/cpu/GraphExecutioner.cpp`) | position, deque of frames, FlowPath | execute, the logic ops of the flat format, executeFlatNode | the onion, the variables, MemoryRegistrator |
| FlowPath, FrameState, NodeState | per node: active, executed, branch; per frame: activated, rewind plan and position | mark*, planRewind, forgetFrame | written by execute and the logic ops |
| Scoped logic ops (`LogicWhile`, `LogicConditional`, `LogicReturn`, `LogicScope`) | loop variables in the variable space, a counter | processNode, recursively | run the nodes of scopes, through executeFlatNode and one another |
| Variables (`VariableSpace`, `Variable`, `Context`) | five indexes over one set of variables, handles, ownership marks of arrays | put, get, ensure, clone, destructors | builder, ops, stored graphs |
| Session storage (`SessionLocalStorage.cpp`) | counter, two maps, a mutex | startSession, localVariableSpace, endSession | clones a VariableSpace per session |
| Random buffer and ops (`helper_generator.h`, `special_random_ops.h`, `random.cpp`, `random.cu`, `random_shuffle.cpp`) | position, generation, seed, amplifier, tickets | relative reads, rewindH, the ops, refresh and reseed | OpenMP threads or CUDA blocks read it together |
| Threshold compression (`type_conversions.h`, `threshold.h`, `specials.cpp`) | header and slots of a message, a shared counter and flag, counts and offsets of blocks | encode and decode, as slots or as a bitmap, on both backends | the caller's gradient arrays |
| Stored graphs (`GraphHolder.cpp`, `NativeOps.cpp`) | one map of graphs per type | registerGraph, executeStoredGraph, unregisterGraph | Graph, VariableSpace, executor |
| Array list (`NDArrayList.cpp`) | chunks, element counter, reference shape | write, read, unstack, stack, pick, clone | list ops |
| Registrators (`OpRegistrator`, `MemoryRegistrator`) | op tables; footprint per graph hash | register/get; set if greater/get | NativeOps, executor |
| Op execution (`DeclarableOp`, `Context`) | per call | prepareOutputs, validate*, execute | variables, workspace |
| Kernels, shapes, arrays, JNI, FlatBuffers, profiling | | pure computation or conversion | |

`PROJECT.json` lists every component with its sources and status, and under
"hazards" what can go wrong in them that a test would hardly reach, at its line.

What is hard in this code:

- *concurrency*: `allocateBytes` and the session store are called from OpenMP
  sections and split their work over several critical sections; the encoder's
  threads share a counter and a flag, and the blocks of a random op share one
  position that exactly one of them may move;
- *ordering*: layers are assigned by four different pieces of code (two branches
  of addNode, the file position, passes of buildGraph), and the interpreter
  trusts their order; scopeIn frees, grows and resets in a particular order; a
  Return assigns loop variables one after the other;
- *state that outlives the step it was meant for*: FlowPath flags, frames, rewind
  plans and arrays from earlier iterations and earlier runs, arrays reachable
  through several variables, slots of an older message;
- *ownership*: a variable is in several indexes and deleted through one list; an
  array is owned by whichever variable carries the removable mark;
- *failure in the middle*: a malloc that fails between two critical sections, an
  op that fails inside a loop or a scope, an exception under a locked mutex;
- *boundaries*: the last byte of the arena, the last element of the random ring,
  the last slot of a message, a scan whose last block is not full;
- *termination*: loops that do not end, nodes that can never be placed, values
  that are rejected for ever.

What makes each part correct:

- *workspace*: live allocations are disjoint and backed, nothing leaks, counters
  are exact, the arena is large enough from the second cycle on, every section
  ends; in short, it is an allocator (`Arena`);
- *builder*: an op lies above its inputs, every node is met once by the walk,
  buildGraph ends and gives up only when it must, a copy is as good as the
  original;
- *executor*: results are what the graph means, branches not taken are not
  executed, frames are balanced, rewinds restart the loop, execute comes back;
- *scoped logic*: an iteration moves all loop variables together, errors are
  lost nowhere but where a status is dropped, loops end;
- *variables*: every index names the same variable, every variable and array is
  deleted exactly once, a clone answers like its original and shares nothing;
- *sessions*: isolation, no space deleted while used, nothing left behind, the
  lock released by every call a thread makes inside its current session;
- *random ops*: results do not depend on threads, blocks or backend, the stream
  continues where the op ended, a shuffle permutes;
- *compression*: nothing of a gradient is lost or sent twice, a message has no
  gaps and no leftovers;
- *lists, stored graphs* (planned): a failed write leaves the list as it was, a
  graph is not deleted while it is executed.

## 2. Modules

| Module | Models | Abstract spec | Proofs | TLC |
|---|---|---|---|---|
| `Workspace` | Workspace.cpp | `Arena` | `WorkspaceProofs` | `MCWorkspace` |
| `GraphExecutor` | GraphExecutioner::execute, FlowPath, the logic ops of the flat format | `GraphMeaning`, equations | `GraphExecutorProofs` | `MCGraphExecutor` |
| `ScopedLogic` | LogicWhile, LogicConditional, LogicReturn, LogicScope | `ScopedMeaning`, equations; a reference semantics in `MCScopedLogic` | `ScopedLogicProofs` | `MCScopedLogic` |
| `VariableSpace` | VariableSpace.cpp, Variable.cpp, and the calls of Graph, Context, DeclarableOp and executeStoredGraph on them | | `VariableSpaceProofs` | `MCVariableSpace` |
| `GraphBuilder` | Graph::addNode, injectNode, the FlatGraph constructor, buildGraph, clone, asT | | `GraphBuilderProofs` | `MCGraphBuilder` |
| `SessionLocalStorage` | SessionLocalStorage.cpp | | `SessionLocalStorageProofs` | `MCSessionLocalStorage` |
| `RandomOps` | RandomBuffer, the element-wise and special random ops, random_shuffle | `Sequential`, one thread | `RandomOpsProofs` | `MCRandomOps` |
| `ThresholdEncoding` | convertTo/FromThreshold, P1 to P3, prescanArrayRecursive, encode/decodeBitmap | `ScanExact` (a sum), `Conserved` | `ThresholdEncodingProofs` | `MCThresholdEncoding` |

Every definition that models code is listed with its lines in `PROJECT.json`
under "map".  Definitions whose name ends in `_something` are variants of the
definition that follows them, each with a plausible bug; replacing the
definition by its variant must violate the property named with it under
"mutants".

### Workspace and Arena

A block of the heap is an id and a size, and malloc gives fresh ids, so a stale
pointer is an id that is no longer in `heap`.  `regions` holds what clients have
received in the current cycle.  `allocateBytes` is ten actions, cut at each
lock, unlock, atomic update and at the malloc in between; every malloc may fail.
push_back is a read under the lock (`LockSpills`) and a write (`PushSpill`), so
that an unlocked variant really loses an element.  The owner's calls (scopeIn,
scopeOut, expandTo, expandBy, the destructor) run between parallel sections,
as in the code that uses the class: none of them takes a mutex, and a thread
that still allocated would lose its spill or its region.  scopeOut ends the
cycle, so clients drop their regions there; expand and the destructor are called
when no array is alive.  The one caller that does not keep to this is the
`expandTo` at the start of a second execute (`GraphExecutioner.cpp:207`), which
frees the buffer the variables of the last run point into.

The buffer is the workspace's own or, with `externalized`, its caller's.  A
growth whose malloc fails leaves a null buffer under the old size, and the arena
then serves null-based pointers; `RegionsBacked` speaks of the others.  A
workspace over a caller's buffer that grows never frees the grown buffer either;
`NoLeak` speaks of workspaces that own their memory.

`Arena` is what clients may rely on: a request is granted in one step, with
memory in a live block that nobody else holds, or refused; everything is given
back together; blocks come and go only where nobody's memory lies.  The mapping
takes pending requests from `req`, what is held from `regions` and live blocks
from `heap`, plus the block a workspace believes it has after a failed growth.
`ImplementsArena` is the refinement with fairness (every request is answered),
`ArenaSafe` the part without.

### GraphExecutor

One action per outcome of a node's visit: skipped; Enter; Merge of a loop; Merge
of branches; Switch; LoopCond; NextIteration; the three outcomes of Exit; an op
that succeeds, fails, or reads what is not there.  `At`, `Leaves`, `ShouldSkip`,
`Live` and `FrameId` are the common head of the loop body in execute, in its
order.  Arrays are named objects: `slot` says which array a variable holds and
`content` what is in it, so that the aliasing the logic ops create by passing
pointers, and the reuse of an op's output array, are in the model.  Dereferencing
a missing or deleted array and `frames.back()` of an empty deque end in
`"crashed"`.  `execute` may be called again, on new inputs, over the variables
and the FlowPath the previous call left, also after an error.

The graph is given (layers, kinds, inputs, frames); how it gets its layers is
GraphBuilder's matter.  A graph's `meaning` is the reference result and `under`
the Switch outputs a node depends on; both are written by hand for each graph of
the MC module and used by properties only.  10000, the visit limit, is the
constant `ExecLimit`.  `GraphsAssumption` says what a built graph is (`WellLaid`):
every node has one place in the onion (the builder's `VisitedOnce`), an Enter has
a frame, the NextIteration that closes a loop lies above the loop's Merge, and
`under` follows the inputs (`DependsOn`).  TLC evaluates it on every graph of the
run.

`GraphMeaning` says, without a walk, flags, frames or arrays, what a graph denotes.
For every output of a node, and every iteration if the node is in a loop, equations
(`Solves`) say whether it is alive, that is, in no branch that is not taken, and its
value: an op computes its inputs, a Switch passes its first input to the output that
its second selects, a Merge passes on the live one of its inputs, a loop's Merge what
enters and then what the iteration before left, an Exit what is there when the loop
goes back no more.  A graph `Denotes` if its `meaning` agrees with a solution and if it
is `Structured`: loops are not nested, lie outside the branches, and come with the
parts of one in their order (Enters, Merges, condition and body, NextIterations,
Exits); all variables of a loop go back together; what a node passes on is read before
an op computes into that array again (`Settled`); and a Merge of branches is in a graph
that is executed once, the restriction under "Observations".  `MCGraphExecutor` works
out the solutions of the run's graphs and has TLC evaluate that all of them are
Structured but `BranchLoop`, a loop in a branch, and that all but this one and
`Forever`, whose endless loop has infinitely many equations, denote.

### ScopedLogic

processNode and executeFlatNode call one another; the calls in progress are a
`stack` of frames (node, scope, position, iteration).  An action is one node
executed, or one step of a While or Conditional between its scopes: copying the
inputs to outputs that have no array, evaluating the last node of the condition,
returning from a branch (`Transferred`), counting an iteration.  Ops may fail at
any point; `FailNode` and `Unwind` say how far an error climbs: a While returns the
error of an op in its scopes, but drops that of a logic op, such as a While that is
refused or reaches its limit inside it, and goes on; a Conditional drops all.
`failed` holds the nodes that have returned an error in the current execution.  `meaning` and `orbit` (the
states of the loop variables before each iteration) of a program are computed in
`MCScopedLogic` by a big-step reference, for all 432 loops with a two-op body.
`ProgramsAssumption` says what a program is (`WellFormed`): a node is in one scope
or in the main graph, as the one scope id of a FlatNode has it, a scope that is run
has nodes, a Return assigns to the outputs of the op whose scope it is in and ends a
branch or a body, and a body has one (`LogicWhile.cpp:112` calls LogicReturn on the
last node whatever it is).

`ScopedMeaning` says, without slots, copies or calls, what a graph denotes: contents
of all pairs solve it (`Solves`) when each op's output is what the op computes, a
Conditional's is that of the selected branch, and a While's variables are in the first
state of its orbit in which its condition is false (`Ended`).  It also says which
graphs are `Structured`: no While inside a While or in a graph that is executed again
(such a While goes on from where it ended before), no copies of a Conditional and no
Return in it, a Return at the end of each body, and an order in which every node
reads what finished before it.  `MCScopedLogic` has TLC evaluate that all of its
programs are of this kind, with their orders, but `WithReturn`, `NoVariable` and the
nested ones of `MCNested`, which the run covers and these theorems do not.

### VariableSpace

`paired`, `byId` and `symbolic` are the indexes (`_variables` and `_temporary`
are split by the sign of the id and never looked at apart), `handles` counts how
often a variable is in `_handles`.  A variable is named by the space and pair it
was made for, an array by its variable and a number, so that a second deletion
and a lookup of a deleted array are visible.  The actions are what callers do: a
variable read from a file, addNode with any number of outputs (in the op's
descriptor or not), a node that propagates to an external variable, ops that
create, overwrite or compute in place, a clone, inputs fed to the clone
(executeStoredGraph), and destruction.  The graph's own space is cloned between
complete runs.

### GraphBuilder

A node is what the builder looks at: inputs, kind (op, logic, scope), whether
its inputs came as pairs (`pickInput(pair)` sets no input flags), and its scope.
`AddNode` has the four outcomes of addNode; `LoadNode` is one turn of the
constructor's loop, addNode and injectNode together.  buildGraph is a step per
node of a pass (`TryPlaced`, `TrySkipped`) and one per end of a pass, in the
order of ids, as the iteration over `std::map` has it.  The caller adds, builds,
adds again and copies in any order, and goes on with the copy; `left` remembers the nodes
that were unplaced when it did.  `_built` has no
initial value in the code and both values in `Init`.

### SessionLocalStorage

Every critical section is one or two actions between `Lock` and the unlock, and
a thread's locals live in `ntid`.  `own`, `current` and `using` belong to the
callers: the sessions a thread has started and not ended, the one it started last
(0 once it has called endSession()), and the space it was given last.  Callers call
localVariableSpace() and endSession() at any time, in a session or not, and end any
session of theirs by id, the current one too.  They drop a space before they end
its session, and use ids of their own sessions only while those are open.

### RandomOps

A number is symbolic: seed, index, and the factors by which getElement shifts an
element past the end of the ring or in a later generation.  A result is the
sequence of numbers it is computed from, so that two results are equal exactly
when they are made of the same numbers.  An op runs in a team: OpenMP threads
that each walk their span of the array, reading the buffer itself, or CUDA
blocks that copy the buffer, compute, and take a ticket; the last ticket moves
position and generation on.  `Span` and `End` are the special ops' partition of
the array, `Middle` and `PairAt` the truncated normal's, which writes an element
of each half and retries with numbers further on; `high` is the furthest number an
op has read, its retries included, and `ByRetries` how far those reach.  `nextInt` and `nextIntTo`
keep the width of an int, with its smallest value, for random_shuffle.

### ThresholdEncoding

`x` is the sender's array, `y` the receiver's, `due` everything the training has
added to `x`.  convertToThreshold is four actions per iteration (taking
iterations under `schedule(guided)`, loading the flag, capturing the counter,
storing), decoding a read and a write per slot, the CUDA kernels one action per
block between barriers, P3 with what `__ballot` and `__popc` compute and with
arbitrary contents in the shared memory a partial warp never writes.
prescanArrayRecursive is a recursive function over sequences with the tree scan,
the padding of the last block and the detour through a float of `Mantissa` bits.
`pow2i` is what the code writes as `1 << k`.  The constants of the kernels carry
the assumptions the code makes of them: a block is whole warps, at most a warp of
them, and `Digits` + 1 binary digits can write a warp's total (`GridAssumption`);
the counts given to P2 are a sequence of numbers that is not empty
(`ScanAssumption`).
The caller chooses a limit between 1 and the number of large elements, as ND4J
does; an old message stays in the slots.

## 3. Runs

| Run | Instance | Distinct states | What it shows |
|---|---|---|---|
| `workspace` | 2 threads, buffer of 2 bytes (own or the caller's), requests of 1 and 2, at most 4 bytes per cycle and 4 mallocs | 220 000 | TypeOK, RegionsSound, HeapSound, Accounted, SectionCompletes, ImplementsArena |
| `executor` | a chain, a conditional, two successive loops, a loop over two variables in both layouts, a loop in a branch, an endless loop; all inputs; ops may fail; most executed twice | 29 000 | ResultsCorrect, BranchDisabled, RewindRestartsLoop, RunEnds |
| `variables` | 2 nodes in a chain behind an external variable, the graph's space and one clone, 2 arrays per variable | 202 000 | TypeOK, LookupsAgree, OwnedOnce, ArraysSound, NoLeak, CloneFaithful |
| `scoped` | 432 loops over two variables, conditionals, a conditional in a loop, endless loops; nested: a loop in a loop that ends, fails, is refused or reaches its limit, a Conditional in a Conditional; ops may fail | 22 000 | ResultsCorrect, IterationsWhole, ErrorsReported, RunEnds |
| `random` | a buffer of 3 elements, 3 calls out of 18 ops, 2 seeds, up to 3 threads or blocks | 163 000 | TypeOK, ResultsDeterministic, SkipExact, StreamContinues, ShufflePermutes, OpEnds |
| `threshold` | 5 elements, 4 gradients, 3 calls, 2 threads, 2 blocks of 4 threads; some 400 arrays of up to 17 counts for the scan | 199 000 | Conserved, MessageFull, ScanExact, CodingEnds |
| `builder` | 3 nodes out of 12 kinds, added one by one or read from a file, built and copied at any time | 1.9 million | TypeOK, Ordered, VisitedOnce, GivesUpRightly, RefusedCopies, BuildEnds |
| `sessions` | 3 threads, 4 sessions | 1.6 million (with symmetry) | Isolated, SpaceKept, AllEnded, MutexReleased |

Several properties are conjunctions of named parts: `RegionsSound` (NoOverlap,
RegionsBacked), `HeapSound` (NoLeak, ExternalKept), `Accounted` (SpillsAccounted,
CycleServed), `ArraysSound` (FreedOnce, ResultsReadable, NoSharing), `Ordered`
(LayersOrdered, FileOrderKept) and `IterationsWhole` (LoopsWhole, FedKept).

Why the bounds are enough.

- *workspace*: with two bytes and requests of one and two, a request can fit, fit
  exactly, miss by one and miss entirely; four bytes per cycle are twice the
  buffer, so both spilling and growing happen, and four mallocs allow a spill, a
  growth and a failing one after another.  Every critical section is entered by
  at most two contenders in all orders; the proofs cover more threads.
- *executor*: the condition is `i < 3` and inputs start from 0 to 4, so loops take
  no, one and several iterations, and two runs let anything left behind by the
  first, or by its failure, meet the second; the limit of 120 visits is above
  what any of the terminating graphs needs.  The conditional is executed once
  (see "Observations"), and so is the endless loop, whose exception leaves flags
  behind.
- *variables*: a node that computes in place on a node's output, and one that
  propagates to an external variable, need two nodes; two arrays per variable
  are an array and its replacement; a second clone would be independent of the
  first, because spaces share nothing (`ArraysSound`).
- *scoped*: loop bodies of two ops over two variables are all the ways in which
  reads and the ordered assignments of a Return can interfere; the limit of 10
  million iterations is `LoopLimit` = 4, one more than the longest of the loops that
  end needs, so that a limit reached an iteration too early fails `RunEnds`.
  Programs whose ops may fail have a While, a While in a While, a Conditional in a
  While, and a Conditional executed twice.  Unless something fails no While is
  executed twice, since it would begin with the value it ended with (see
  "Observations").
- *random*: ops are shorter and longer than the ring, of even and odd length; three
  calls start in the first, second and later generations.  A thread's span
  exceeds its share by 8 in the code and by `Slack` = 2 here, and an int has
  `Width` = 3 bits, so that the smallest int, overflow in nextInt(to) and powers
  of two are all met.  `MaxAttempts` bounds rejections at one.
- *threshold*: grids are scaled with their ratios kept: blocks of 4 threads in
  warps of 2 with 1 + 1 digits (1024, 32, 5 + 1), scans of 4 at a time (1024),
  floats of 3 bits (24), words of 2 elements (16).  Five elements make a partial
  block, a partial warp and a partial word; 17 counts make three levels with a
  last block of one.  The run has also been made with three threads (1.9
  million states).
- *builder*: three nodes are the smallest set with a cycle that is not a
  self-loop, a chain against the order of ids, and a node that waits for two;
  inputs include a missing node, both kinds of external variable, and scopes.
- *sessions*: three threads and four sessions give nested sessions in one thread
  while two others start and end theirs.

Deadlock is checked in `workspace` and `executor`.  It is off elsewhere because
the callers may stop: after an exception, after the last call the bounds allow,
when all sessions are ended or all spaces deleted.  There BuildEnds,
MutexReleased, RunEnds, OpEnds and CodingEnds say what must not get stuck.

Fairness.  `Workspace`: each thread inside allocateBytes keeps running (weak
fairness per thread, none of the mutexes), which any preemptive scheduler gives;
sections make finitely many requests.  `GraphExecutor`, `ScopedLogic` and
`GraphBuilder`: a sequential loop, once called, runs on.  `RandomOps` and
`ThresholdEncoding`: the threads of a started parallel region and the blocks of a
launched grid run until the region or the grid ends (weak fairness of the team's
steps, not of each worker: OpenMP and CUDA promise that all of them finish).  A
shuffle has no fairness: it may draw a rejected number for ever.  Nothing is
assumed about new calls.

### Disagreements between code and text

Four runs are expected to fail: each checks one statement of a comment or test
against the code, and `PROJECT.json` quotes it under "findings".

- `variables_while` (LookupsAgree).  `VariableSpaceTests.cpp:88` expects the
  variable found by id to be the one found by the pair (id, 0); addNode of a
  While puts two different ones there, LogicWhile writes to one and fetchOutputs
  reads the other.
- `scoped_errors` (NoErrorLost).  `GraphExecutioner.cpp:183` says execute
  returns an error code; LogicConditional drops the status of every node it runs,
  and the execution returns OK with results of an earlier one.  The passing run
  has the property that this is lost nowhere else (`ErrorsReported`).
- `builder_scope` (ScopedNotPlaced).  `Graph.cpp:447` says that ops tied to a
  scope are never placed into the structure; the FlatGraph constructor injects
  them.
- `sessions_outside` (KeyZeroHolds).  `SessionLocalStorage.cpp:14` says that key
  0 holds the original VariableSpace; nothing is stored there, `at(0)` throws
  under the lock, and all later calls block.  It takes no call outside all
  sessions: endSession() in a nested session erases the thread's only entry, and
  localVariableSpace() in the outer one, still open, throws in the same way.

### Observations

Found while modelling, and outside what the passing runs claim.

*Executor.*  In the pass that leaves an outer loop, the Merge of an inner loop is
skipped without being disabled (`GraphExecutioner.cpp:282`), the inner Exit
leaves the outer frame, and the outer NextIteration takes `frames.back()` of an
empty deque: nested loops, which `LogicEnter.cpp:13` expects, crash.  The graphs
of the run have none.  In a loop that exchanges two values, NextIteration passes
arrays by pointer and ops of the next iteration overwrite one before the other
has been read.  A conditional executed again on the same variables has its Merge
delete an array that a branch still holds.  execute deletes a FlowPath of its own
and leaves the pointer in the variable space (`:474`); the runs use a FlowPath of
the caller, as executeFlatBuffer does.

*Scoped logic.*  A While or Conditional copies its input only when its variable
has no array, so that executed again it starts from its old value
(`LogicWhile.cpp:38`); a Return whose second value is the first loop variable
sees it already overwritten (`LogicReturn.cpp:31`).  The programs of the run
avoid both.

*Variables.*  The body of `if (node->isInplace())` at `Graph.cpp:315` is an empty
statement, so every node's state starts as not removable; getZ drops the array an
in-place node's variable already has (`DeclarableOp.cpp:96`), which `NoLeak`
excepts; getVariable ignores the output index of external variables
(`VariableSpace.cpp:139`); a run on the graph's own space that fails between an
op that replaces its array and the in-place op behind it leaves a deleted array
that the next clone copies (`Context.cpp:248`); a fed input deletes the array it
replaces whether or not the variable owns it (`NativeOps.cpp:3363`), which is
safe only because the clone is fresh.

*Builder.*  A clone taken between addNode and buildGraph has unplaced nodes but an
empty `_unmappedMap`, and its buildGraph throws; asT loses the unplaced nodes.
Clones lose the frame id and name of nodes (`Node.h:184`).  validate leaves its
mutex locked when buildGraph throws (`Graph.cpp:999`), and execute, totalNodes
and hashCode build without it (`:522`).  tagInplaceNodes counts references again
at each call and ignores variables (`:750`).

*Random ops.*  refreshBuffer keeps the generation on the CPU and resets it on CUDA,
where reSeed also resets the position.  getElement shifts a number twice once it
reads past a wrap in a generation beyond the first, which is why
`StreamContinues` speaks of the first.  A truncated normal with |mean| beyond two
standard deviations never ends (`special_random_ops.h:812`), and one of odd
length reads an element past its array (`:801`).  random_shuffle in place of a
vector exchanges i with i (`random_shuffle.cpp:39`) and does not move the
position on.  A Gaussian or truncated op of odd length and a binomial op share one
number with the op after them, and the retries of a truncated op share more: each
reads a whole length further (`:803-811`) and rewindH moves on by one length only,
so that the next op draws the same numbers.  `StreamContinues` states both bounds.
In Choice over arrays without an element-wise stride (`:199-242`) the threads share
the arrays of coordinates; that branch is not modelled.

*Compression.*  prescan is launched with no threads for a single count: the offset
is whatever the buffer held, the caller's zero.  Shared memory is sized for 32
banks and indexed for 16.  Totals above 2^24 lose precision in the float of
`scanRootToLeaves` and `uniformAdd`, which is why the theorems about the grid
have a bound on the length.  The CPU's decodeBitmap reads one word more
than the encoder writes when the length is a multiple of 16; the model has that
word and it is empty.  A limit above the number of large elements leaves slots
unwritten.

## 4. Proofs

TLAPS checks the following for every value of the constants that satisfies the
modules' ASSUMEs (any number of threads, sizes, nodes, sessions), from the
non-fair `Spec`.

**Workspace**: `WorkspaceTypeOK`, `WorkspaceRegionsSound` (from
`WorkspaceNoOverlap` and `WorkspaceRegionsBacked`), `WorkspaceHeapSound` (from
`WorkspaceNoLeak` and `WorkspaceExternalKept`).  The invariant `IndInv` says who
holds which mutex (`MutexInv`); that what a thread has read inside a critical
section is still current (`ReadInv`: without it two threads could advance from
one offset); that the buffer is live and spills are other blocks (`BufferInv`);
that a spill on its way to the client belongs to one thread only and to no region
(`SpillInv`); and that a region is either part of the used prefix of the buffer
or a whole spill (`RegionInv`).  NoOverlap then follows, because a new region
starts at the offset all older ones end at.  ExternalKept needs one more
invariant, that no spill has the id of the caller's buffer.

`WorkspaceAccounted` is about two sums.  `SpillsInv`: `_spillsSize` is the total
of the spills whose thread has already accounted for them (`Settled`); between
parallel sections those are all of them.  `DemandInv`: the offset, plus what the
threads in front of the offset's update still ask for (`Waiting`), is at most
what the cycle has asked for so far, so a cycle that asks for no more than the
closed one stays inside a buffer that scopeIn has made large enough.  The sums
range over sets, and what a sum over a set is (removing an element subtracts it)
is itself proved, from a set of smallest cardinality for which it would be false:
the provers cannot instantiate an induction scheme, but well-founded minimality
is a theorem about sets.

**Workspace implements Arena**: `WorkspaceImplementsArena` (`Spec => ArenaSafe`).
The step in which allocateBytes returns is the grant, an error path is the
refusal, scopeOut gives everything back, mallocs, growth and frees relocate, and
the rest stutters.  Besides `IndInv` the mapping needs `Pending`: a thread has a
request exactly while it is inside allocateBytes.

**GraphBuilder**: `BuilderTypeOK`, `BuilderOrdered` (from `BuilderLayersOrdered`
and `BuilderFileOrderKept`), `BuilderVisitedOnce`.  Placing a node
must not disturb the others, so the node must be unplaced: `PassInv` splits
`_unmapped` into what the current pass has placed, skipped and not reached.
`OnionInv` says the layers have no gap and hold each placed node once, in the
layer the node itself records.  A new layer never opens a gap because it is at
most one above an existing one, or the number of layers (`Cardinality(DOMAIN
onion)`, which is why FiniteSetTheorems are needed).  `FileInv` bounds the layer
of every node of the file by its position while the file is read: addNode's
layers are at most one above an earlier node's.

`BuilderGivesUpRightly`: `ProgressInv` says that each pass has placed a node, or
that no further pass ever will, so that the passes `limit` allows are enough for
every graph that has an order.  `BuilderRefusedCopies`: `ListedInv` counts, for
any mix of additions, copies and builds, the entries of `_unmappedMap` against the
unplaced nodes that no copy took over; a clone taken with nodes unplaced stays short
of entries, so that buildGraph, which prints that list first, throws on it for ever.
None of the theorems restricts what is copied when.

**SessionLocalStorage**: `SessionTypeOK`, `SessionIsolated`, `SessionSpaceKept`,
`SessionAllEnded` and `SessionMutexReleased`, without assumptions on the callers
beyond the actions.  `FreshInv`: a number taken before the lock is in nobody else's
hands; `OwnInv`: live spaces are shared out between threads; `EntryInv` and
`SectionInv`: what a thread looked up in its first critical section is in the
second still its own, or over for good; `CurrentInv`: inside the session started
last the thread's entry is that session.

**GraphExecutor**: `ExecutorBranches` and `ExecutorRewinds`, both about
`BranchDisabled`, for every well-laid graph, every outcome of its ops and any
number of runs over one FlowPath.  FlowPath's flags outlive the pass that set
them, so the property is not inductive: a flag of a node above the position may
be of an older iteration or run.  `DoneInv` speaks of the nodes below the
position only: one that is active there was executed in this pass, and so were
the Switches it depends on, which still select its branch.  A visit disturbs the
flags of its own node and, for the Merge of a loop, of the NextIteration behind
it, which `WellLaid` puts above the position.  What remains is that the position
never jumps over a node (`PassesNone`).  `ExecutorBranches` takes that as its
hypothesis; the run checks it as part of `RewindRestartsLoop`.
`ExecutorRewinds` proves it where no loop follows another (`LoopsBeside`): every
rewind position in the FlowPath is then below every Exit (`RewindsBack`), also one
that a failed run or another frame has left.  With loops in succession a stale
position could be above an Exit, and only the frames decide which position is
used.

`ExecutorResults` and `ExecutorLoops` are about graphs that denote, successive loops
included: a call that returns OK leaves what the graph denotes (`ResultsCorrect`);
every rewind goes back to the first Merge of its own loop, so that all its variables
are renewed, no Enter is, and no node is passed over (`RewindRestartsLoop`); and
without a hypothesis on rewinds no branch that was not taken is executed.  They hold
for all ops, inputs, layouts, numbers of variables, iterations and runs over one
FlowPath, also when ops have failed in some of them.  The invariant `MeaningInv` has
these parts.  `OuterInv`: a node outside the loops that the walk has passed has for
each output what the equations say, where disabled, by the node or by the Switch it
comes from, means not alive.  `Turning(f, k)`: the same of the nodes inside the loop
f for its iteration k, with the flags that carry the loop from one iteration to the
next: a Merge still to come reads its NextIteration exactly if k > 0, and this one has
the value of iteration k - 1 (`MergeReady`); a rewind is planned exactly if a
NextIteration was passed and the loop goes back, and to the layer of the first Merge.
`LoopInv`: a loop that is not on its way has no flags left (`Quiet`).  `OpenInv`: one
frame at most is open, that of a loop that is entered and not left; an Exit leaves it
late, and the next loop finds it gone.  `ArrayInv` and `Fresh`: a variable holds one of
the arrays that `Flows` allows it, and no op has computed into that since.  One lemma
per visit (`SkipKept` to `ExitKept`) shows these for the node visited and `GoodKept` for
all others; `RewindKept` turns iteration k into the beginning of k + 1.

Both have the hypothesis that no run follows one that the visit limit ended
(`NoneAfterLimit`).  It is needed: the exception leaves the flags of a loop on its way
in the FlowPath, where the first Merge of the next run takes them for its own.  A
failed op leaves none: ops lie where the Merges of their loop have reset the flags and
no NextIteration has set them again.

**ScopedLogic**: `ScopedErrors` (`ErrorsReported`), `ScopedFedKept` (the part
`FedKept` of `IterationsWhole`), the action property `ScopedVariablesKept`, and, for
Structured programs, `ScopedIterations` (`IterationsWhole`) and `ScopedResults`
(`ResultsCorrect`).
`CallInv` says that execute is at the bottom of the stack of calls and nowhere else.
`ScopedErrors` holds for every program.  `Silent` says, from the scopes alone, whose
error is dropped: that of a node a Conditional runs, of a logic op in a scope of a
While, and of an op of a While that is itself in a scope.  `ErrorInv` says that every
node in `failed` is one of these as long as the execution may still return OK, and
that each call above execute's second is for a node of a scope of the call below
(`Inner`), which is how the height of the stack, by which `Unwind` decides, tells
where a node lies.  That errors of these nodes are in fact lost is what the run
`scoped_errors` shows.  The two others hold for every program as well, also
after errors and in executions that follow one another.  They rest on `Own`: an
array that belongs to the caller or to a variable of a While is in its own slot and in
no other, so that no op writes to it through another.  A Conditional hands the array
of its branch's last node on, which could be a While's; it never is, because
executeFlatNode refuses logic ops and a While in a branch is never entered
(`Unentered`).

`ScopedIterations` and `ScopedResults` hold for every Structured program whose
`orbit` and `meaning` are what it denotes (`Meant`): a While begins with its inputs,
an iteration takes all variables at once to the values of its body's Return, and a
result is the same in all contents that solve the main graph.  `Meant` speaks of
contents only.  What is proved is that the execution, with its arrays that are shared
and written in place, its copies and its Returns that assign one value after the
other, leaves a solution.  The invariant is `MeaningInv`: what a call has run in its
current iteration (`RunBy`) holds of the contents that are there; a While in progress
has `Reached` the state its counter says, and its condition was true in all states
before; and a While still to come has no copies yet (`Untried`).  It is kept because a
step changes what one node leaves, and Conditionals that node is in (`Changed`), and
everything on the stack is `Ahead` of that node: it reads only what finished before
(`DoneKept`).  A Return is the exception, since it changes the variables that the
condition and the body have read; the call forgets at this point what it has run, and
the states before are kept as the existence of contents in which the condition was
true (`Went`).  That the assignments one after the other do what they would at once
needs that a Return does not assign, later, a variable it has assigned to
(`GoodWhile`).  That loops are not nested is not for the proof's sake either: a While
copies its inputs only to outputs that have no array (`ToCopy`), so one that is
entered again begins where it ended, not with its inputs.

**VariableSpace**: `VariablesTypeOK`, `VariablesOwnedOnce`, `VariablesArraysSound`,
`VariablesNoLeak`, and, for graphs of custom ops (`OpsOnly`),
`VariablesLookupsAgree` and `VariablesCloneFaithful`.  `SpaceOK` says that whatever an index of a space leads to was made for that space
and is in `_handles` once, and that what is in `_handles` can be found or was
replaced under its pair; `Living` that the variables alive are those in the handles;
`Stages` what a space holds while it is read, fed, run and deleted.  `OwnArrays`: a
variable that carries the removable mark holds the last array made for it, and holds
it undeleted; one without holds an external variable's array or is an in-place
node's.  `Readable`: what the current run may still read was made for a variable no
later node writes.  `Freeing` accounts for every array ever made.
`Indexed` (by id, by pair and by name the same) needs `OpsOnly`: with a While it is
false, which the run `variables_while` shows, and so it is with a Conditional of the
scoped format, which puts new variables under its pairs while the entry by id stays
(`LogicConditional.cpp:107-115`) and is not modelled in this module.

**RandomOps**: `RandomTypeOK`, `RandomResultsDeterministic`, `RandomSkipExact`,
`RandomStreamContinues`, `RandomShufflePermutes`, for every length of op, size of
the ring, team and grid.  On the CPU (`OnCpu`) the buffer is as it was until the
team ends, each thread has written its span up to where it is (`Progress`), and the
number a thread carries to the next element is the one a single thread would have
(`Carried`).  On CUDA (`OnCuda`) every copy of the buffer agrees with the one the op
began with, and the tickets are exactly the blocks that are done, so that one block
takes the last.  `Arranged`: every swap of a shuffle keeps the slices a permutation.
Two of the assumptions are there for the provers: `NilAssumption` (the missing value
is none of the others) and `PowerAssumption` (2^(Width - 1) is a positive number,
since they know nothing of powers).

**ThresholdEncoding**: `CompressionConserved` and `CompressionMessageFull` for the
whole specification, CPU threads, CUDA grid and bitmap, and `CompressionScanExact`;
any length, limit, number of threads, block and warp size, interleaving, and any
number of messages.  The first two have the hypothesis N <= 2^Mantissa: beyond that
P2's float may round an offset, and two blocks of P3 may share a slot.  The CPU does
without a scan, and `CpuConserved` and `CpuMessageFull` state the same for the CPU's
steps (`CpuSpec`) and every N.

The invariant is `IndInv`, with `GridInv` for the grid.  `Slots`: an index the
counter has given away belongs to one thread or to a stored slot (`Held`), and no two
slots name one element; `Untouched`: elements no iteration has finished with are as
the caller left them; `Balance`: `x`, `y` and the slots on their way add up to `due`.
`Counted`: while no thread has raised the flag, the counter is the number of large
elements that are no longer `Pending`; so when the loop ends either the flag was
raised, by a thread whose index was past the limit, or all large elements were taken,
and either way the message is full.  On the grid, `Counting`: the blocks of P1 that
have run have counted their large elements; `Placing`: the offsets are the numbers of
large elements before each block, and the blocks of P3 that have run, in whatever
order, have filled the slots that are ranks of their elements.  That
`Position`, which P3 computes from ballots, binary digits of warp totals and the
offset, is the rank of the element is a lemma over every block and warp size.

`CompressionScanExact` needs no hypothesis on N.  Its argument goes level by level:
after s levels of `buildSum` every 2^s-th element has the sum of its block (`Up`);
on the way down every 2^e-th element has the sum of all before its block (`Down`),
where each addition fits a float because it is a part of the total; the padding adds
zeros; and the scan of several blocks is exact if the scan of their sums is, of
which there are fewer.  The library's induction theorems take an operator as a
parameter, so that induction, and that a recursive function exists, are derived in
the module for sets of numbers and for functions instead.

Only model-checked: of `ScopedLogic`, `ResultsCorrect` and `IterationsWhole` for
programs that are not Structured; of `GraphExecutor`, `ResultsCorrect` and
`RewindRestartsLoop` for graphs that do not denote, of which the run has a loop in a
branch; the liveness properties and the fair part of the refinement, since fairness
is out of the prover's reach.

## 5. Plan

Done so far: the workspace and its refinement, the executor, scoped logic,
variable spaces, the builder, sessions, random ops and the compression.  Left, in
this order:

1. Theorems: loops inside branches, which `GraphMeaning` leaves out.
2. `StoredGraph`: GraphHolder's three maps and executeStoredGraph with concurrent
   callers, composed with `VariableSpace` (logic ops use the graph's own space)
   and the builder (two threads build one graph, validate's mutex).
3. `GraphMemory`: executor, `Arena` and the memory registrator, for the
   `expandTo` that frees a buffer in use.
4. `NDArrayList`: write counts the element, or deletes the chunk it replaces,
   before it validates the shape (`NDArrayList.cpp:50`); clone drops the
   reference shape; stack and pick over gaps insert null arrays; scatter_list
   never publishes its list.
5. The scoped format of Switch; prepareOutputs and tagInplaceNodes; nested loops
   in the executor's run once the walk supports them.

Runs are kept few: one per module that passes, and one per disagreement.

## 6. Not modelled

Numerical kernels, BLAS, arrays' arithmetic and shape computations (data to the
models; out of TLC's reach as arithmetic); the rest of the CUDA backend; the
FlatBuffers and protobuf code, generated; vendored test libraries; profiling,
printing and logging, which no decision reads; the JNI layer, which forwards.
These are by far the largest part of the repository's lines.
`Workspace(ExternalWorkspace)` of size 0 leaves its counters uninitialised
(`Workspace.cpp:21`) and is outside the constants; the destructor of
SessionLocalStorage runs when no thread uses it.  Within the executor: embedded
graphs, the scoped format of Switch, executeFlatBuffer's packing of results, and
workspaces.  Within the variables: the variables a Conditional of the scoped format
puts over the arrays of its branch, several clones executed at once, array lists, placeholders, Stash and
VariableProxy.  Within the builder: prepareOutputs, tagInplaceNodes, validate's
mutex and hashCode.  Within the random ops: the values of the numbers,
RandomHelper, an older copy of the same methods, the providers, and the CPU's Choice
over arrays without an element-wise stride; an OpenMP
team is taken to have the size that was asked for, and CUDA blocks an even number
of threads.  Within the compression: conversions between number types, and the
P1 to P3 entry points and half-float bitmap of the CPU, which are stubs.
