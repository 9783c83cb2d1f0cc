# Codius sandbox: a formal model

The Codius sandbox runs an untrusted program under seccomp and ptrace. A trapped
system call stops the program; the host looks at the call, answers it from a
virtual filesystem or lets the kernel run it, and continues the program. The
host is a single-threaded event-loop program (libuv under node.js), the
sandboxed program and the kernel run beside it, and a handler that needs an
answer from JavaScript spins the event loop *in place*, so handlers nest. Most of
what can go wrong here comes from those three facts, and most of this project
is about them.

File names below are relative to the root of the repository (`src/vfs.cpp`,
`include/vfs.h`, `main.js`, ...). In `PROJECT.json`, which maps each definition
to its lines, and in the comments of the modules the same files are written
`src/src/vfs.cpp`, `src/include/vfs.h`, `src/main.js`.

## 1. Inventory

| Component | State it keeps | Operations | Talks to |
|---|---|---|---|
| `Sandbox`, `SandboxPrivate` (`sandbox.cpp`) | pid, `entered_main`, `scratchAddr`, the signal watcher, `ipcSockets` | `spawn`/`traceChild`, `execChild` (in the child), `handle_trap` (SIGCHLD), `handleSeccompEvent`, `handleExecEvent`, `releaseChild`, `kill` | kernel (ptrace, waitpid), VFS, IPC |
| Memory transfers (`sandbox.cpp`) | `nextScratchSegment` | `peekData`, `pokeData`, `copyData`, `copyString`, `writeData`, `writeScratch` | kernel |
| `VFS`, `File` (`vfs.cpp`, `vfs.h`) | `m_openFiles`, `m_cwd`, `m_mountpoints`, `m_whitelist`; `m_localFD`, `s_nextFD` | one handler per system call (`do_open` ... `do_getcwd`), `openFile`, `setCWD`, `File::close` | a `Filesystem` |
| `CodiusNodeFilesystem` (`node-filesystem.cpp`) | `m_offsets`, keyed by host descriptor | `doVFS` and one function per POSIX call | JavaScript: `onVFS`, `finishVFS` |
| Codius RPC (`codius-util.c`) | `next_request_id` on each side | `codius_sync_call`, `codius_write_request`, `codius_read_result`, `codius_read_request`, `codius_write_result` | a stream socket |
| Channels (`sandbox-ipc.cpp`) | `ipcSockets` of each sandbox; a pair of descriptors and a poll handle each | `SandboxIPC`, `~SandboxIPC`, `addIPC`, `startPoll`, `dup` (in the child) | kernel |
| IPC polling (`sandbox-ipc.cpp`, `sandbox-node-module.cpp`) | the pending request of each promise | `handle_ipc_read`, `handleIPC`, `node_finish_ipc`, `NodeIPC::onReadReady` | JavaScript: `onIPC`, `finishIPC` |
| JSON trees (`json.c`) | a tree of nodes | building, removing, deleting, `json_check` | RPC |
| JSON text (`json.c`) | none; a growing buffer | `json_decode`, `json_encode`, `json_stringify`, UTF-8, numbers | RPC |
| `DirentBuilder` (`dirent-builder.cpp`) | a byte buffer | `append` | `getdents` |
| `NativeFilesystem` | a root path | one system call each | kernel |
| seccomp filter (`execChild`) | none | a table of rules | kernel |
| Node bindings (`sandbox-node-module.cpp`) | one `NodeSandbox` per JavaScript object | `node_new`, `node_spawn`, `node_kill`, collection, `node_finish_vfs`, `node_finish_ipc`; conversion of values, spawn options | the embedding program |
| `main.js` | promises | events | the embedding program |
| `host.cpp`, `debug.h`, build files, tests | | | |

What is hard:

- **Nesting.** `doVFS` spins the event loop inside `handle_trap` inside the event
  loop. A second thread's system call is handled on top of the first one's C++
  frame; only the innermost handler can return; every value read before the
  spin may be stale after it.
- **Merged and foreign signals.** One pending SIGCHLD stands for any number of
  stops, and the host's other children raise it too.
- **Reused numbers.** `m_offsets` is keyed by a descriptor the embedding program
  reuses; virtual numbers are not reused. A pending request remembers the number
  of its channel, and the number may be another channel's when the answer comes.
- **Several sandboxes in one loop.** `spawn` waits in a nested loop for its working
  directory. Other sandboxes are made, spawned, killed, collected and asked
  meanwhile, and the waits return in reverse order.
- **ptrace failures.** PTRACE_CONT, PTRACE_DETACH and PTRACE_SETREGS fail when
  the thread is not in a stop, and the results are mostly not looked at.
- **A stream without boundaries.** A message is two `write`s; a stop, a SIGCHLD
  or a full socket can come between any two of them.
- **Words.** ptrace transfers words at any address, buffers end anywhere.

What makes each component correct:

- *Tracer*: each stopped thread is continued by someone; no stop is lost in a
  merged signal; a call made after exec is handled before it returns; the end of
  the program is reported once.
- *VFS*: host descriptors are neither leaked nor closed twice; a closed number
  stays closed; offsets follow POSIX; every call is answered.
- *RPC*: a request reaches the embedding program, is answered and is returned at
  most once each, in that order, and a sync call gets its own result.
- *Sandboxes of one host*: a channel's descriptors are closed once, with their
  sandbox; a reply goes to the channel its request came from; `spawn` returns.
- *JSON trees*: pointers stay consistent, deletion takes the subtree and nothing
  else.
- *JSON text*: exactly JSON is accepted, and what is printed is read as it was.
- *Transfers, characters, directory records*: what is written is what is read.
- *Start of a program*: it has its three sockets and nothing else of the host's.

## 2. Modules

```
 TracedProgram <--implements-- Tracer  <--proofs-- TracerProofs   MCTracer
 PosixFiles    <--implements-- VFS     <--proofs-- VFSProofs      MCVFS
 RequestReply  <--implements-- Rpc     <--proofs-- RpcProofs      MCRpc
 Forest        <--implements-- JsonTree <--proofs-- JsonTreeProofs MCJsonTree
                   NodeSandbox  <--proofs-- NodeSandboxProofs     MCNodeSandbox
 ChildMemory, JsonStrings (on Utf8), Dirents, ExecFds <- Algorithms
   Algorithms <--proofs-- TransferProofs <- CharacterProofs, TableProofs
 Algorithms, JsonText (on JsonStrings)                            MCFunctions
```

`NodeSandbox` is where several sandboxes meet; what `Tracer`, `VFS` and `Rpc` say in
detail of one of them is a few steps there.

### Tracer: `src/sandbox.cpp`, lines 43-639

The kernel's half of ptrace is part of the module (marked external in the map):
`state[t]` is what a thread does, `why[t]` the event it stopped for, `sigchld`
the one pending signal. `stack` holds the invocations of `handle_trap`, innermost
first; an invocation is about to call `waitpid` (`wait`), holds a result (`got`),
or waits in a nested event loop (`vfs`). `handle_trap`, `waitpid` and
`waitpidNone` are the callback's loop; each branch on the event is one action
(`handleSeccompEvent`/`finishSeccompEvent`, `handleExecEvent`, `handleClone`,
`handleTrapSignal`, `handleSignalStop`, `handleExitEvent`), and includes the
PTRACE_CONT at the end of the branch. `Boot` is `execChild` up to its exec: before
`setpgid` the host's `waitpid(-pid)` fails with ECHILD, which the code cannot
tell from a child to look at; before exec no call is handled. `releaseChild` is
an operator because the exit branch, `kill`, and `kill` called by a listener for
signals (inside the callback, from `handleSignal`) all use it.

Kernel facts assumed: a stop makes SIGCHLD pending and pending SIGCHLDs merge; a
stop is returned by `waitpid` once; PTRACE_CONT and PTRACE_DETACH of a thread
that is not stopped fail with ESRCH and change nothing; a cloned thread is
attached automatically, and its first stop and its parent's clone event become
visible in either order; with other threads alive a leader that has exited is
not reapable.

### VFS: `src/vfs.cpp`, `src/node-filesystem.cpp`

A `File` is identified with its `m_virtualFD`. `openFiles` is the key set of
`m_openFiles`, `localFD` the `m_localFD` of each `File` ever made, `cwd` the
`File` of `m_cwd`, `offsets` the map `m_offsets`. `frame[t]` is what thread t's
handler was doing when it called `doVFS`, and `stack` the order of those
handlers on the C++ stack. A handler is split exactly at `doVFS`: `do_close`,
`do_read`, ... run up to the request (`Ask`), `HostFinish` is the embedding
program's answer, and `FinishOpen`, `FinishRead`, ... run from the answer to the
reply, possible only for the thread on top (`Returning`). `setCWD` asks twice,
the second time from the destructor of the old `File` (`FinishChdir`,
`FinishDrop`). How a path selects a filesystem is one of three outcomes here
(`Places`: a mount, the whitelist, nothing).

External: the embedding program's file descriptors (`hostOpen`). It is assumed
to answer `open` with a descriptor that is not open, never 0 (`openFile` tests
`if (fd)`), and to answer everything else within the bounds asked for.

### Rpc: `src/codius-util.c`, `handle_ipc_read`, `node_finish_ipc`

`up` and `down` are the two directions of the socket, in units of a header or of
one *part* of a body (what one segment carries), with `Capacity` units in each; a
part is numbered by how much of its body is due from it on. When the host ends in the
middle of a message, what it had read is shown as still in `up`: nobody has got it.
`pc` and `msg` are where a calling thread is in `codius_write_request` and
`codius_read_result`; `hostPc` and `hostMsg` where the host is. A read of a body
returns what is there, at most what was asked for (`Taken`, `Rest`), and
continues, as the code does, as if it had been everything. `blocking` is chosen
at the start: libuv 0.10 leaves a polled socket blocking, libuv 1 does not.
`handle_trap` is the tracer as far as the socket is concerned: it continues
stopped threads, and runs only when the host is in its event loop. The number in
`Returns` is the id in the header; nothing in `codius_sync_call` compares it.

### JsonTree: `src/json.c`, lines 407-620

A heap of nodes (four in the run), each the record of pointers the C struct has. Each function
of `json.h` that changes structure is an action; `append_node`, `prepend_node` and
`unlink` (the body of `json_remove_from_parent`) are functions from heap to heap.
Assertions on arguments are guards; a tree is never added into itself, which
the code leaves to its caller. The nodes `json_delete` comes to (`Reached`), and those
`json_check` walks over (`Walked`), are the least sets that have the first node and
are closed under the pointers followed. Keys and values are reduced to whether a key is
there; number, string, boolean and null are all leaves. `ListOf` is the sequence one
reads from the head along `next`; with it the heap is a `Forest`: `Make`, `Add` at
either end of a sequence, `Detach` and `Delete` of a subtree.

### NodeSandbox: `src/sandbox-node-module.cpp`, `src/sandbox-ipc.cpp`, `src/sandbox.cpp`

`phase[s]` is the life of one sandbox, `channels[s]` its `ipcSockets`, `cwd[s]` what
`m_cwd` of its VFS is. `fds` is the host's descriptor table, where the kernel
always gives out the lowest free number; `streams[i]` is what is in channel i's
socket towards the host (`up`) and everything the program's end was sent (`down`).
`stack` holds the calls of `node_spawn` that wait in `doVFS`, innermost first,
`requests` the requests the embedding program has and has not answered, each with
the number `codius_read_request` remembered.

`node_new` makes the channels for stdout and stderr. `node_spawn` runs up to the
request for `/contract/`; `FinishOpen` and `FinishClose` go on from the answer, and
the second wait exists only if an earlier spawn left an open directory. `node_kill`,
`handleExit` and `Collect` all run `releaseChild`. `handle_ipc_read` takes a message
and remembers the number; `node_finish_ipc` writes to that number, whatever it is by
then: this channel, another, the child's end of one (the host then reads its own
reply as a request and dereferences a null pointer), another file, or nothing.
`host = "crashed"` is undefined behaviour of the host process, after which the
model says nothing. The embedding program spawns a sandbox only when it is not running
or being spawned.

External: what the program asks (`Ask`), the kernel's choice of numbers, and a file
the host has open before and closes at some time (`CloseOther`).

### ChildMemory, Utf8, JsonStrings, JsonText, Dirents, ExecFds, Algorithms

Pure functions, one operator each, with the loops as recursive functions:
`copyData` gives everything that is stored, the surplus of the last word
included; `copyString` stops at a 0 in full words and cuts the last word;
`writeData` reads the last word before it writes it; `writeScratch` hands out
word-aligned segments. `Utf8` has validation, reading and writing of a character
and the surrogate pairs of escapes; `Dirents` the layout of `linux_dirent`
records.

`JsonStrings` (`src/json.c`) reads and writes the string literals: `parse_string`,
`emit_string`, escapes, `parse_hex16` and `write_hex16`. The loops over the characters
of a string, those of `parse_string`, `emit_string` and `utf8_validate`, are one
operator, `each_char`, which is given what becomes of the character at each place.

`JsonText` (`src/json.c`) is the parser and both printers. A text is a sequence of
characters that ends in 0, the literals `null`, `true` and `false` are one character
each, and a number is its decimal digits and exponent without superfluous zeros,
which is what `strtod` and `"%.16g"` keep of a number of at most 15 digits. A parser
returns where it stopped and what it made, or `Failure`.

`ExecFds` (`src/sandbox-ipc.cpp`, `src/sandbox.cpp`) is a descriptor table as a
function from numbers to files, taken through `node_new`, `spawn`, the `dup2` calls
and the closing loop of `execChild`.

`Algorithms` compares `ChildMemory`, `Utf8`, `JsonStrings`, `Dirents` and `ExecFds` with
reference definitions. It is a specification in which a state is an input and nothing moves:
`Init` allows every input the code may meet, of any length (`Transfer`, `Segments`,
`Text`, `Character`, `Halves`, `Valid`, `Directory`, `Spawning`), so that its properties can be proved for all of
them. `MCFunctions` runs it on bounded sets of those inputs and adds the properties of
`JsonText`, whose operators are recursive and stay with TLC.

## 3. Runs

State counts are distinct states of the complete graphs (after symmetry, where a
configuration has it). "v" marks a run in which TLC must find the property
violated; section 6 explains those.

| Run | Configuration | States | Question |
|---|---|---|---|
| `tracer_all` | `MCTracer_all.cfg` | 151 276 | Three threads, every event, `kill` and foreign SIGCHLDs: is a stopped thread forgotten, or a stop lost in a merged signal? |
| `tracer_single` | `MCTracer_single.cfg` | 1 391 | One thread nothing ends from outside: does the tracer implement the abstract one, report the end once, find the scratch area first? |
| `tracer_reaped` v | `MCTracer_reaped.cfg` | | Can the assertion on an exit status fail? |
| `vfs_two_threads` | `MCVFS_two.cfg` | 280 944 | Do nested handlers of two threads lose a host descriptor or reuse a number, and does their stack empty? |
| `vfs_one_thread` | `MCVFS_one.cfg` | 143 432 | Does a single-threaded program get POSIX files, and an answer to every call? |
| `vfs_two_dangling` v | `MCVFS_dangling.cfg` | | Can two threads make a `File` refer to a closed descriptor? |
| `rpc_pipelined` | `MCRpc_pipelined.cfg` | 262 360 | Sync and pipelined calls, signals, foreign SIGCHLDs, both kinds of socket: is a request repeated, mixed up or stuck? |
| `rpc_signal` v | `MCRpc_signal.cfg` | | Does a call return if a signal stops the program in the middle? |
| `node_sandbox` | `MCNodeSandbox.cfg` | 120 659 | Two sandboxes that come and go with requests open: is a descriptor lost or closed for another, a reply sent to the wrong program, a `spawn` or a request stuck? |
| `json_tree` | `MCJsonTree.cfg` | 422 | Do the pointers stay consistent under any calls? |
| `functions` | `MCFunctions.cfg` | 290 188 | Do the pure algorithms compute what they should at their limits? |
| `control_character` v | `MCControl.cfg` | | Does the parser take every string the printer writes? |

Properties, and what each says about the code:

- **Tracer.** `StopsHeld`: a thread whose stop `waitpid` has returned is in the
  hands of an invocation on the stack. `NoLostWakeup`: with no invocation running
  and no signal pending nothing is left to wait for. `AllStopsHandled` (liveness):
  a thread does not stay stopped while it is traced. `CallbackReturns` (liveness).
  `ExitReported`: `handleExit` was called exactly once, and exactly if the program
  has left its exit stop. `RegistersReachable`: GETREGS and SETREGS, turns of the
  loop apart, both find the thread stopped. `ScratchFound`: no handler runs before
  the scratch buffer is known. `ImplementsTracedProgram`: the tracer implements
  `TracedProgram`, whose program is stopped, handled if it is in `main`, let go
  again, and reported when it ends.
- **VFS.** `NoHostLeak`: whatever the embedding program holds open, something will
  still close. `NumbersNeverReused` (action property). `ExactOwnership`: between
  calls the host descriptors are exactly those of the table and `m_cwd`, one `File`
  each. `NoDanglingFile`: a `File` refers to an open descriptor. `ImplementsPosixFiles`:
  table, offsets, and the halves of read, close and open implement the file table
  of `PosixFiles`. `CallsAnswered`, `StackUnwinds` (liveness).
- **Rpc.** `ImplementsRequestReply`: asked, held, answered, returned, at most once
  each and in this order, with requests lost at most; this holds through full
  sockets, short reads and interrupted writes. `SyncCallGetsOwnReply`: while
  bodies are short, a program that makes one sync call after the other gets its
  own results. `QuietCallsReturn` (liveness): calls return if bodies are short,
  the socket blocks and no SIGCHLD arrives.
- **JsonTree.** `JsonCheck` is `json_check`, as an invariant; `NothingDangling`;
  `ImplementsForest`: read along `next`, the heap is a forest of sequences that
  each call changes in one place.
- **NodeSandbox.** `DescriptorsOwned`: channels and open descriptors match one to
  one, whatever is made, spawned, killed, ended and collected in whatever nesting.
  `RepliesHome`: while a request's channel exists its reply goes there and nowhere
  else; nothing is promised to a reply whose channel is gone. `SpawnReturns`,
  `RequestsServed` (liveness): a nested wait ends, and other programs' requests
  are read meanwhile.
- **Functions.** `ReadsRight` (`copyData`, `copyString`), `WriteDataExact`,
  `ScratchSegmentsIntact`; `Utf8Decodes` against RFC 3629's shortest-form definition;
  `EscapesDecode`, escapes and surrogate pairs in literals; `JsonAccepts`, against a
  grammar as reductions and the pattern of numbers the code's comment gives;
  `JsonRoundTrip`, both printers and the parser; `StringRoundTrip`, for strings
  without U+001F (section 6); `DirentsTile`; `OnlyItsSockets`, the descriptors a
  program starts with.

Each property has a mutant in the module it is about, an operator next to the
one it replaces: a plausible mistake in that function, which the property finds.

### Bounds

- *Tracer*: `MaxStops` events of the program and `MaxWrites` chunks of unread
  output. Four events in `tracer_all` are enough for two clones and two more events, so for
  any two of the events to nest, merge or race while three threads exist; with
  one thread eight events reach every pair of events after exec. `Kids` is two: a
  parent, the thread the event is about, and a bystander.
- *VFS*: `MaxFiles` `File` objects (the first is `m_cwd`), so that with three a
  file is opened, closed, and its descriptor reused; two host descriptors force
  reuse; transfers and offsets of one or two bytes suffice to tell a lost or a
  doubled advance from a right one. In `vfs_two_threads` offsets do not move at all
  (`MaxRead` is 0, `Seeks` is {0}): its properties are about descriptors and the stack,
  and `vfs_one_thread` is about offsets. There a VIEW leaves out `reply`, which no action
  reads and no property of the run mentions.
- *Rpc*: three requests, at most two of them unanswered (`Window`), bodies of one
  and two parts, two units of socket (`Capacity`): a header and one part fill it,
  so every write may block. `HostIds` says how far the host's own request counter
  has come: a number different from the program's tells the two apart.
- *JsonTree*: four nodes make a list of three in a container, and containers in
  containers.
- *NodeSandbox*: two sandboxes and `MaxSpawns` 2: both are spawned, one inside the
  other, or one twice, which leads to the wait for the close. `MaxRequests` 2, so
  that the smallest free request number is not always the same. `MaxNumber` 15 is
  room for all channels. Number 3 may be taken by a file of the host at first: when
  it goes the numbers of later channels shift by one, and what was a host's end may
  become a child's end. A VIEW takes all states of a crashed host as one: it takes no step.
- *functions*: JSON texts are all of at most five tokens, and all one token away from
  three longer documents; numbers of up to six characters; strings of up to three
  characters, one of every kind the printer or the parser treats in its own way;
  the host's further descriptors are any subset of 3 to 8, before `node_new` and,
  independently, before `spawn`. `Word` is 3, lengths go to 7, zeros anywhere; every lead byte and
  continuation byte next to a comparison in the code; code points at every limit
  and one of every 1021; names around each step of `reclen`, up to three.

Deadlock is not checked where the program may simply stop: a program that has
exited, or has made its bounded number of calls. That something still happens is
stated by the liveness properties.

### Fairness

- *Tracer*: weak fairness of the handlers together (a single-threaded loop runs),
  of a thread that is starting or ending and of reading output. Strong fairness
  of `finishSeccompEvent`: an answer comes for each request and `doVFS` polls its
  promise in every turn of the nested loop, but other callbacks run on top in
  between and disable it again and again. Nothing obliges a thread to make a call.
- *VFS*: weak fairness of the embedding program's answers and of the return of an
  answered handler on top. `StackUnwinds` is therefore conditional: threads that
  keep making calls on top keep lower handlers waiting for ever, and the property
  says that nothing else does.
- *Rpc*: the sources of one event loop are each handled in every turn, but may be
  disabled in between by a blocking read: strong fairness of `handle_ipc_read`,
  `handle_trap` and the answers; weak fairness of a read or write in progress;
  strong fairness of a caller, which stops and continues.
- *NodeSandbox*: weak fairness, for each sandbox, of the embedding program's answers
  to `doVFS`, of the return of an answered call on top, and of `handle_ipc_read`: the
  nested loops are the same `uv_run`, so each of them comes back to every readable
  socket. Nothing obliges the embedding program to answer a request.
- `JsonTree` has none: it is called.

## 4. Proofs

TLAPS proves for every value of the constants:

| Module | Theorem | States |
|---|---|---|
| `TracerProofs` | `TypeCorrect` | `Spec => []TypeOK` |
| | `NoStopForgotten` | `Spec => []StopsHeld` |
| | `SignalsMergeSafely` | `Spec => []NoLostWakeup` |
| | `ScratchFoundFirst` | `Spec => []ScratchFound` |
| | `RegistersStayReachable` | with `OneThread`, `Spec => []RegistersReachable` |
| | `ExitReportedOnce` | with `OneThread`, `Spec => []ExitReported` |
| | `OneThreadIsTraced` | with `OneQuietThread`, `Spec => Program!Spec`: `Tracer` implements `TracedProgram`, fairness apart |
| | `Invariance` | `Spec => []IInv`, the inductive invariant |
| `VFSProofs` | `TypeCorrect` | `Spec => []TypeOK` |
| | `HostDescriptorsOwned` | `Spec => []NoHostLeak` |
| | `ClosedNumbersStayClosed` | `Spec => NumbersNeverReused` |
| | `DescriptorsMatch` | with `OneThread`, `Spec => []ExactOwnership` |
| | `NoneDangles` | with `OneThread`, `Spec => []NoDanglingFile` |
| | `FilesArePosix` | with `OneThread`, `Spec => ImplementsPosixFiles` |
| | `Invariance` | `Spec => []IInv` |
| `NodeSandboxProofs` | `TypeCorrect` | `Spec => []TypeOK` |
| | `ChannelsOwnDescriptors` | `Spec => []DescriptorsOwned` |
| | `RepliesFindHome` | `Spec => []RepliesHome` |
| | `Invariance` | `Spec => []Inv` |
| `RpcProofs` | `TypeCorrect` | `Spec => []TypeOK` |
| | `EveryRequestOnce` | `Spec => ImplementsRequestReply` |
| | `OneThreadGetsOwnReply` | with `OneCaller`, `Spec => SyncCallGetsOwnReply` |
| | `Invariance` | `Spec => []IInv` |
| `JsonTreeProofs` | `TypeCorrect` | `Spec => []TypeOK` |
| | `TreesCheck` | `Spec => []JsonCheck` |
| | `NothingLeftDangling` | `Spec => []NothingDangling` |
| | `TreesAreForest` | `Spec => ImplementsForest` |
| | `Invariance` | `Spec => []IInv` |
| `CharacterProofs` | `EveryCharacterDecodes` | `Spec => []Utf8Decodes` |
| | `EveryEscapeDecodes` | `Spec => []EscapesDecode` |
| | `EveryStringRoundTrips` | `Spec => []StringRoundTrip` |
| `TransferProofs` | `ReadsAreRight` | `Spec => []ReadsRight` |
| | `WritesAreExact` | `Spec => []WriteDataExact` |
| | `ScratchIsIntact` | `Spec => []ScratchSegmentsIntact` |
| `TableProofs` | `OnlyItsSocketsAreOpen` | `Spec => []OnlyItsSockets` |
| | `DirentsAreTiled` | `Spec => []DirentsTile` |

They rest on the assumptions the modules name: in `Tracer`, `TidsAssumption` (the
main thread is not one of the cloned ones), `EnvAssumption` and
`BoundsAssumption`; in `VFS`, that host descriptors and error numbers are
positive, `EBADF` is an error number, and virtual descriptors are positive; in `NodeSandbox`, that the bounds are natural
numbers; in `Rpc`, that a request has at least one part, a socket room for one unit
(`SizesAssumption`, `BoundsAssumption`, `EnvAssumption`); in `JsonTree`, that the nodes
are finitely many and `NULL` is none (`NodesAssumption`); in `ChildMemory`, that a word
has at least one byte (`WordAssumption`). The bounds `MaxStops`, `MaxFiles`, ... are arbitrary natural numbers there.
`OneThread` is a hypothesis of the theorems that need it: in `VFSProofs` that `Threads`
is a singleton, in `TracerProofs` that nothing is cloned and no signal or `exit_group`
from outside ends the program. `OneQuietThread` adds that no SIGTRAP of the program's
own arrives, which ends the host by an assertion. `OneCaller` is that one thread of the
program calls. Two threads do break
the properties of the descriptors, as `vfs_two_dangling` shows.

*Tracer.* `IInv == TypeOK /\ Unborn /\ StopsHeld /\ NoLostWakeup`. `Unborn`, before
fork there is no thread, is needed for `spawn`, which starts watching without
having looked at a signal: nothing may have been reportable before. `StopsHeld`
is proved over the stack: pushing keeps what frames hold (`PushHeld`), the frame
that is popped holds nothing (`PopHeld`, since only a frame at `wait` pops), and
a frame that goes back to `wait` has continued its thread (`ReplaceHeld`,
`LoopHolds`). `NoLostWakeup` holds because every action that makes something
reportable sets `sigchld`, and only `waitpidNone`, which has seen that there is
nothing, leaves the stack empty.

`ScratchFoundFirst` rests on `MainFirst`: `entered_main` is set together with the
scratch address, and a system call handler on the stack implies `entered_main`. The two
theorems for one thread rest on `Alone`: at most one frame of the stack is past its wait, and
while it is, the thread stays stopped for the event that frame was given. A nested
invocation finds nothing to wait for, so it cannot continue the thread under the
handler below it. The same invariant gives `OneThreadIsTraced`: the phase of
`TracedProgram` is a function of the thread's state and of whether a frame is in its
handler. The kernel's steps move it from "running" to a stop, and each step of the
callback is one of the abstract steps or leaves it (`KernelPhase`, `HandlersPhase`).

*VFS.* `IInv == TypeOK /\ FramesOK /\ CwdOutsideTable /\ NoHostLeak`. `NoHostLeak`
is not inductive by itself: when a close returns, the `File`'s descriptor is set to
-1, and one must know that the descriptor forgotten is the one that was closed.
`FramesOK` says so: the `File` of a pending close still has the descriptor the close
was sent with, or another close of it has set -1; it is never `m_cwd`
(`CwdOutsideTable`); an answered open carries a host descriptor or an error. A step
changes one thread's frame, so the proof goes by the kinds of step (`StepKinds`),
not by handler.

The theorems for one thread add `Solo == Distinct /\ Alive /\ OnStack /\ \A t :
FrameKnows(t)`: no two `File`s share a descriptor, each is open, and the pending frame
says what is exempt for the moment. A descriptor just opened is nobody's yet, and one
being closed belongs to its `File` only. `FilesArePosix` needs two facts more:
`ReadKnows`, a read under way is of an open `File` and of its descriptor, so the late
advance of `m_offsets` is that `File`'s; and `AtZero`, a descriptor no visible `File`
has starts at 0 when one gets it. What a step does to the visible `File`s is then one of
five kinds (`Kinds`), and each is a step of `PosixFiles` or a stutter.

*NodeSandbox.* `Inv == TypeOK /\ DescriptorsOwned /\ IdsUnique /\ RequestsRemember /\
RepliesHome`. `releaseChild` closes by number; that it closes nobody else's end is
`DescriptorsOwned` before the step with `IdsUnique`, no two channels of any sandboxes
share their identity: the end a number shows belongs to one channel. A reply is
written by number as well. `RequestsRemember`, a request whose channel exists
remembers its number, makes that number show the channel's own end; for a request
whose channel is gone `RepliesHome` promises nothing. A channel that is gone does not come
back, since identities are counted up.

*Rpc.* `IInv == TypeOK /\ InHand /\ SentOnce /\ Sized /\ OnePlace`. `OnePlace` is what
`RequestReply` asks for: a request is on its way, or with the embedding program, or
answered. It is not inductive where messages are cut: the host takes part of a body for
all of it, and the rest for the next header. That this never makes a second
request of one id rests on `SentOnce`, no header and no part is in the socket twice or
still with its caller, and on `Sized`, no part is beyond the size of its header. For
`OneThreadGetsOwnReply`, `IOwn` says what one call finds on its way: between calls
nothing, during call i nothing but request i or as much of its reply as has not been
read.

*JsonTree.* `IInv` says that neighbours agree (`Linked`, `Placed`), that a list is all
there (`Chained`: a set that has the head of p, and with each child its next, has every
child of p), and that parents end (`Grounded`: in every set of nodes one has its parent
outside). The last two quantify over sets instead of following pointers, so that a step
of `append_node`, `prepend_node` or `unlink` is checked on the nodes next to it, and no
induction along a list or down a tree is needed for `IInv`. Nor is one for deletion and
`json_check`: `Reached` and `Walked` are least closed sets, so what holds of the first
node and is kept from each node to the next holds of all of them.

`TreesAreForest` speaks of the sequences themselves. That a sound heap has one for each
node (`ListExists`) is shown from a longest sequence that begins at the head and goes on
along `next`: no node comes twice (`BeginsOnce`), so it is no longer than there are
nodes. That it has only one (`ListUnique`) goes by the first place where two would
differ (`LeastNumber`). `Chained` makes it the sequence of all children (`ListRange`).
`AppendLists`, `PrependLists`, `UnlinkLists` and `FreeLists` say what each call makes of
every list, and `SubtreeIs` that what `json_delete` comes to along the pointers is the
subtree of the forest, so each call is a step of `Forest` (`ForestStep`).

*Algorithms.* The properties are of one input each, so what is to be shown is `Init =>
P`. A loop of the code is a recursive function `f == [i \in Nat |-> ... f[i + Word]
...]`, in TLA+ the chosen one of those that satisfy the equation. Two things are
therefore proved of each: that there is one, and that all of them give what
the property says. Both are inductions, from `SetInduction` (`TransferProofs`): a set of
natural numbers that has 0 and with each number the next has all of them, which follows
from the least element of a set, `WFMin` of the library. `ChainExists` and
`ChainInduction` are its form for the loops that go word by word towards the end of a
buffer. `WriteDataWrites` gives one write as a whole, and `ScratchWrites` follows the
segments: a later one begins at or behind the end of the earlier ones, so it leaves them
as they are. In `TableProofs`, a free descriptor exists since one of as many numbers as are
open, and one more, is not open (`FreeNumber`); the program's ends have numbers from
3 on, so none of the three `dup2` calls overwrites an end that is still to be moved,
except 3 itself, which is moved last (`ExecChildLeaves`). `RecordFits` is about `reclen`, `AppendTiles` and
`GetdentsTiles` about records one behind the other. `CharacterProofs` goes by the number of bytes:
an encoding of that length (`Encoded`, the reference) is what `utf8_validate_cz` accepts
by its first byte and the limits of the second (`Single`, `Double`, `Triple`,
`Quadruple`).

*Strings.* The loop `each_char` makes as many turns as there are characters
(`EachChar`), and `Reaches` says where it is after k of them; a turn that changes
nothing is its last (`LoopEnds`). For `EveryEscapeDecodes`, the digits of a 16-bit number
in capitals or not are read as that number (`HexBack`: `SixteenBits` and
`HexWritten`), `utf8_write_char` gives the shortest encoding by the bytes it takes
(`WriteOne` to `WriteFour`), and from the halves `to_surrogate_pair` makes,
`from_surrogate_pair` makes the character again (`CodeOfPair`). The literals of the
property are then gone through turn by turn, read (`OneRead`, `PairRead`, `BothRead`) or
refused (`PairRefused`).

For `EveryStringRoundTrips`, `emit_string` and `parse_string` both make one turn for a
character, but their positions part with the first escape, and the parser runs on a
text that is not yet written to its end. `Spelled(s, p, out)` therefore speaks of every
text that begins with a quote and `out`: `parse_string` comes to its end with the bytes of s before p. One character more
keeps that (`OneCharacter`), written by its escape (`SpelledByEscape`), by its code
(`SpelledByCode`) or as it is, where `utf8_validate_cz` looks at no byte behind the
character (`SameLength`), so that it finds the same length among other neighbours.
`EmittedUpTo(s, k)` is the invariant of the loop of `emit_string`, beside the one of
`utf8_validate`, whose result says that every character that is come to is valid.

Only model-checked: liveness, in `OneThreadIsTraced` the fairness of `TracedProgram`;
`SpawnReturns` and the other
properties with fairness of `NodeSandbox`; and of the functions
`JsonAccepts` and `JsonRoundTrip`, which are about the recursive
operators of `JsonText`: nested arrays and objects. Out of the prover's reach: liveness under fairness, `ENABLED`,
and operators declared RECURSIVE.

## 5. What is not modelled

- The seccomp rule table, loaded into the kernel through libseccomp; it appears as
  "a call is trapped".
- The text of paths. `node_spawn` mounts one filesystem, at "/", so of path
  resolution only the composition of strings is left; section 6 says where it
  departs from the documented rules. `VFS` chooses among the three outcomes.
- Rounding in `strtod` and `printf` beyond 15 digits; the printers' growing buffer;
  contents of messages in `Rpc`.
- `NativeFilesystem` (one system call each, and never mounted by a
  `NodeSandbox`); spawn options, accessors and value conversion of the bindings;
  a `spawn` of a sandbox that is running or being spawned, which overwrites the
  handles in use;
  `main.js`; `launchDebugger`, which replaces the host process; `host.cpp`, which
  no build file names; `VFS::do_fchdir`, which is never dispatched.
- Failing `dup`, `fork`, allocation; ptrace failing for reasons other than a
  thread not being stopped.
- Contents of `struct stat`.

## 6. Where the code differs from what it says

Found by a run:

- **`tracer_reaped`**, `src/sandbox.cpp:590`. `releaseChild` detaches the exiting
  child inside the `waitpid` loop, which goes on; if the child has died by the
  next call, its exit status comes back and meets `assert (false)`.
- **`vfs_two_dangling`**, `src/vfs.cpp:74`. `File::close` tests `m_localFD` before
  the nested loop and resets it after, so two threads closing one `File` send
  two closes; the second can close a descriptor that has been reused.
- **`rpc_signal`**, `src/codius-util.c:79`. The host waits in `read` for a body
  that the program, stopped by a signal between its two writes, cannot write
  until the host continues it (or fails at once where the socket does not block).
- **`control_character`**, `src/json.c:1182`. "Control characters are not allowed in
  string literals" (`src/json.c:870`), and the parser refuses up to and with
  U+001F; the printer escapes only what is below it. A call with that character in its
  arguments reaches the host as no JSON, and `codius_request_from_string` looks for a
  member of a null pointer.

Seen while modelling, and part of the models, but without a run of their own:

- VFS. `getFile` throws for an unknown number where `include/vfs.h:76` promises a
  null pointer (`host = "aborted"`). `chdir` and `getcwd` leave `call.id` alone, so
  the kernel runs them too and overwrites the result (`reply.kernel`). Two threads
  reading one `File` are sent the same offset, and a late read may advance the
  offset of a reused descriptor. `lseek` answers 0 instead of the offset.
  `setCWD` returns 0 when the open failed (`include/vfs.h:112`). An open that
  failed with `-errno` still gets a virtual number, since it is not 0.
- Tracer. `kill` does not kill: "Kills the child process with SIGKILL"
  (`include/sandbox.h:191`), but the PTRACE_DETACH of `src/sandbox.cpp:470` fails with
  ESRCH while the child runs, and no signal is sent; nor is the end reported. A SIGTRAP that is no ptrace event meets `assert(false)` (line 579).
  `releaseChild` detaches the main thread only; threads stay traced and stopped.
  The main thread's exit is reported while other threads run. If the new thread's first
  stop was handled before the clone event, the clone event continues it once
  more, out of whatever stop it is in. After a second exec `scratchAddr` is an
  address of the old program. Output unread at the exit event is lost.
- Rpc. With two calling threads, headers and bodies mix on descriptor 3. A long
  body is read short and its rest taken for the next header. A reply that does
  not fit is cut off. A SIGCHLD during a blocking read ends the host process.
  With `Window = 4` and `Capacity = 2` both ends block on full sockets.
- NodeSandbox. A reply to a program that has ended goes to whoever has the number
  now (`src/codius-util.c:264`): another program gets an answer it did not ask for,
  or the host reads it and crashes. `kill` during the nested loop of `spawn` is not
  honoured: the program starts, without the channels for stdout and stderr. The
  same channels are missing when a sandbox is spawned again. `kill`, or the
  collector, before the first `spawn` stops uv handles that were never initialised.
  A collected sandbox with an open directory runs `doVFS` in its destructor.

Seen in the source, not in a model:

- The `success` of a result is never sent, and the buffer of a result is not
  NUL-terminated before it is parsed. `handleIPC` reads `request->data` after
  its tree was freed. `toJsonNode` has no room for the 0 behind a string.
- Poll handles are freed without `uv_close`. `onReadReady` writes `buf[-1]` when
  `read` fails. `permittedFDs` starts with as many zeros as there are sockets, so
  descriptor 0 stays open in the program. A host without standard streams gives
  the channels numbers 1 to 3, and `dup2` then overwrites one by the other.
- Paths. `./x` in `/contract` becomes `/contract./x` (`src/vfs.cpp:87`, against
  `include/vfs.h:111`), `openat` of `foo` becomes `/contractfoo`, other relative names
  are not found; `chdir("/")` fails with ENOENT; `chdir` to a relative path keeps it
  relative; `stat` and `lstat` pass the name the program gave instead of the
  resolved one.
- The fourth argument of a 64-bit call is taken from `rcx`, not `r10`
  (`src/sandbox.cpp:423`), and written back there.
- `copyData` stores whole words: up to a word less one byte behind its buffer,
  as for `argc` in `handleExecEvent`. All transfers touch the rest of their last word,
  and assert if the mapping ends there.
- `writeScratch` writes through the main thread's pid, whichever thread trapped; the
  area is shared by all pending calls, and has no bound.
- `getFilename` does not terminate a name of 1024 characters or more.
- `getdents` ignores the size of the program's buffer and returns the whole
  directory at every call, so a reader never sees the end.
- `getFilesystem` takes the first mount in map order that is a prefix, without a
  separator, and never uses `longest_mount`.
- `readlink` copies into the program's buffer also when it failed.

## 7. Plan

Done: `VFS` with `PosixFiles`, `Tracer` with `TracedProgram`, `Rpc` with
`RequestReply`, `JsonTree` with `Forest`, `NodeSandbox`, the pure functions with JSON
text and the descriptors of `execChild`; the proofs of section 4. A module for the text
of paths was considered and left out: with one filesystem mounted at "/" nothing is left
to check that section 6 does not already list.

Next, in this order:

1. `Scratch`: the scratch area under nested handlers of several threads, composed
   from `ChildMemory` and the frames of `Tracer`.
2. `SandboxHost`: tracer, VFS and sockets of one sandbox in one event loop, for the
   order of exit, output and replies.
3. The values of `JsonText` as recursive functions too, over the depth of nesting, so that
   `JsonRoundTrip` can be proved from `EveryStringRoundTrips`.
