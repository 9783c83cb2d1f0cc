---------------------------- MODULE NodeSandbox ----------------------------
(***************************************************************************)
(* The life of the sandboxes of one host: the node binding                 *)
(* (src/src/sandbox-node-module.cpp), the channels of SandboxIPC           *)
(* (src/src/sandbox-ipc.cpp) with their descriptors in the host, and who   *)
(* is asked and answered over them (src/src/sandbox.cpp,                   *)
(* src/src/codius-util.c).                                                 *)
(*                                                                         *)
(* Everything runs from one event loop.  node_spawn enters a nested loop   *)
(* in setCWD, so any other call or event can come before it returns, and   *)
(* of several nested calls only the innermost can return.  What happens to *)
(* the program itself is Tracer's, what is inside a message is Rpc's.      *)
(***************************************************************************)
EXTENDS Integers, Sequences

CONSTANTS
  Sandboxes,
  MaxNumber,    \* bound: the last descriptor number
  MaxSpawns,    \* bound: calls of spawn
  MaxRequests   \* bound: requests the programs make

ASSUME BoundsAssumption ==
  MaxNumber \in Nat /\ MaxSpawns \in Nat /\ MaxRequests \in Nat

\* 0, 1 and 2 are the host's standard streams.
Numbers == 3 .. MaxNumber

VARIABLES
  phase,     \* of each sandbox, from node_new to its destructor
  cwd,       \* its VFS::m_cwd: none, an open directory, or one that failed to open
  channels,  \* its ipcSockets
  fds,       \* the host's descriptors: a partial function on Numbers
  made,      \* channels made so far: their number is their identity
  streams,   \* of each channel, what waits for the host and what the program was sent
  stack,     \* calls of node_spawn waiting in doVFS, innermost first
  requests,  \* requests handed to the embedding program and not answered
  host,      \* "up", or "crashed" by undefined behaviour
  spawns, asked  \* counts, for the bounds

vars == <<phase, cwd, channels, fds, made, streams, stack, requests, host, spawns, asked>>

Phases == {"none", "made", "running", "released", "collected"}
Dirs   == {"none", "open", "failed"}
Ids    == 1 .. made

Channels == [id : Ids, dupAs : {1, 2, 3}, parent : Numbers, child : Numbers]

\* What a descriptor is: an end of a channel, or some other file of the host.
End(i, side) == [id |-> i, side |-> side]
Other        == End(0, "other")
Files        == [id : Ids, side : {"parent", "child"}] \cup {Other}

\* A message carries the channel whose request it is or answers.
Messages == [kind : {"request", "reply"}, of : Ids]
Streams  == [up : Seq(Messages), down : Seq(Messages)]

\* The first answer is to setCWD's open, the other to the close of the
\* directory that goes away with it.
Frames   == [of : Sandboxes, op : {"open", "close"}, answered : BOOLEAN, ok : BOOLEAN]
Requests == [n : 1 .. asked, of : Ids, fd : Numbers]

TypeOK ==
  /\ phase \in [Sandboxes -> Phases]
  /\ cwd \in [Sandboxes -> Dirs]
  /\ made \in Nat
  /\ channels \in [Sandboxes -> SUBSET Channels]
  /\ DOMAIN fds \subseteq Numbers
  /\ \A n \in DOMAIN fds : fds[n] \in Files
  /\ streams \in [Ids -> Streams]
  /\ stack \in Seq(Frames)
  /\ requests \subseteq Requests
  /\ host \in {"up", "crashed"}
  /\ spawns \in 0 .. MaxSpawns
  /\ asked \in 0 .. MaxRequests

Spawning(s) == \E k \in DOMAIN stack : stack[k].of = s
Open        == UNION {channels[s] : s \in Sandboxes}
OpenIds     == {c.id : c \in Open}
RpcOf(s)    == {c \in channels[s] : c.dupAs = 3}

-----------------------------------------------------------------------------
(* Channels.                                                               *)

\* The kernel gives out the lowest free number.
Lowest(n, used) == n \in Numbers \ used /\ \A k \in Numbers : k < n => k \in used

Channel(i, dupAs, p, q) == [id |-> i, dupAs |-> dupAs, parent |-> p, child |-> q]

NumbersOf(cs) == {c.parent : c \in cs} \cup {c.child : c \in cs}

EndAt(cs, n) == LET c == CHOOSE c \in cs : n \in {c.parent, c.child} IN
                End(c.id, IF n = c.parent THEN "parent" ELSE "child")

Empty == [up |-> <<>>, down |-> <<>>]

\* addIPC of k new channels cs, whose numbers are free.
addIPC(s, cs, k) ==
  /\ channels' = [channels EXCEPT ![s] = @ \cup cs]
  /\ fds' = [n \in DOMAIN fds \cup NumbersOf(cs) |->
               IF n \in DOMAIN fds THEN fds[n] ELSE EndAt(cs, n)]
  /\ streams' = [i \in 1 .. made + k |-> IF i \in Ids THEN streams[i] ELSE Empty]
  /\ made' = made + k

\* Mutant of releaseChild: the sockets are closed and stay in the list.
releaseChild_KeepsList(s) ==
  LET gone == channels[s] IN
  /\ fds' = [n \in DOMAIN fds \ NumbersOf(gone) |-> fds[n]]
  /\ streams' = [i \in Ids |-> IF i \in {c.id : c \in gone} THEN Empty ELSE streams[i]]
  /\ UNCHANGED channels

\* releaseChild: ipcSockets.clear() runs ~SandboxIPC, which closes both ends,
\* and what is in the socket is lost.  The watch on SIGCHLD ends as well.
releaseChild(s) ==
  LET gone == channels[s] IN
  /\ channels' = [channels EXCEPT ![s] = {}]
  /\ fds' = [n \in DOMAIN fds \ NumbersOf(gone) |-> fds[n]]
  /\ streams' = [i \in Ids |-> IF i \in {c.id : c \in gone} THEN Empty ELSE streams[i]]

-----------------------------------------------------------------------------
(* Calls of the embedding program.                                         *)

\* The channels for the program's stdout and stderr.
node_new(s) ==
  /\ host = "up" /\ phase[s] = "none"
  /\ \E p1 \in Numbers : Lowest(p1, DOMAIN fds) /\
     \E q1 \in Numbers : Lowest(q1, DOMAIN fds \cup {p1}) /\
     \E p2 \in Numbers : Lowest(p2, DOMAIN fds \cup {p1, q1}) /\
     \E q2 \in Numbers : Lowest(q2, DOMAIN fds \cup {p1, q1, p2}) /\
       addIPC(s, {Channel(made + 1, 1, p1, q1), Channel(made + 2, 2, p2, q2)}, 2)
  /\ phase' = [phase EXCEPT ![s] = "made"]
  /\ UNCHANGED <<cwd, stack, requests, host, spawns, asked>>

\* setCWD("/contract/") asks for the directory and waits.  A sandbox is not
\* spawned while it runs or is being spawned; it may be once more after its
\* program has ended.
node_spawn(s) ==
  /\ host = "up" /\ spawns < MaxSpawns
  /\ phase[s] \in {"made", "released"} /\ ~Spawning(s)
  /\ spawns' = spawns + 1
  /\ stack' = <<[of |-> s, op |-> "open", answered |-> FALSE, ok |-> FALSE]>> \o stack
  /\ UNCHANGED <<phase, cwd, channels, fds, made, streams, requests, host, asked>>

\* finishVFS, to any of the waiting calls.
node_finish_vfs(s) ==
  /\ host = "up"
  /\ \E k \in DOMAIN stack : \E ok \in BOOLEAN :
       /\ stack[k].of = s /\ ~stack[k].answered
       /\ stack' = [stack EXCEPT ![k].answered = TRUE, ![k].ok = ok]
  /\ UNCHANGED <<phase, cwd, channels, fds, made, streams, requests, host, spawns, asked>>

\* kill() is releaseChild(SIGKILL).  Before the first spawn it stops uv handles
\* nobody initialised: whatever they hold, the host goes on or it does not.
node_kill(s) ==
  /\ host = "up" /\ phase[s] \in {"made", "running", "released"}
  /\ \/ releaseChild(s) /\ UNCHANGED host
     \/ phase[s] = "made" /\ host' = "crashed" /\ UNCHANGED <<channels, fds, streams>>
  /\ phase' = [phase EXCEPT ![s] = IF @ = "running" THEN "released" ELSE @]
  /\ UNCHANGED <<cwd, made, stack, requests, spawns, asked>>

\* The collector takes a sandbox nothing refers to, not even a call of spawn:
\* ~Sandbox kills it and deletes its VFS, whose directory, if it is open, is
\* closed through doVFS on a half destroyed sandbox.
Collect(s) ==
  /\ host = "up" /\ phase[s] \in {"made", "running", "released"} /\ ~Spawning(s)
  /\ \/ UNCHANGED host
     \/ (phase[s] = "made" \/ cwd[s] = "open") /\ host' = "crashed"
  /\ releaseChild(s)
  /\ phase' = [phase EXCEPT ![s] = "collected"]
  /\ cwd' = [cwd EXCEPT ![s] = "none"]
  /\ UNCHANGED <<made, stack, requests, spawns, asked>>

\* A file the host held open from before goes, and its number is free.
CloseOther ==
  /\ host = "up"
  /\ \E p \in DOMAIN fds : /\ fds[p] = Other
                           /\ fds' = [n \in DOMAIN fds \ {p} |-> fds[n]]
  /\ UNCHANGED <<phase, cwd, channels, made, streams, stack, requests, host, spawns, asked>>

-----------------------------------------------------------------------------
(* doVFS returns to the innermost call of spawn.                           *)

Returning(s, op) ==
  /\ host = "up" /\ stack # <<>>
  /\ Head(stack).of = s /\ Head(stack).op = op /\ Head(stack).answered

\* Sandbox::spawn, once m_cwd is set: the channel for IPC, fork, and
\* traceChild, which polls every channel and watches for SIGCHLD.
spawn(s) ==
  /\ \E p \in Numbers : Lowest(p, DOMAIN fds) /\
     \E q \in Numbers : Lowest(q, DOMAIN fds \cup {p}) /\
       addIPC(s, {Channel(made + 1, 3, p, q)}, 1)
  /\ phase' = [phase EXCEPT ![s] = "running"]
  /\ stack' = Tail(stack)

\* The new directory replaces the old one, an open one of which is closed
\* first, with another wait; that the open failed changes nothing.
FinishOpen(s) ==
  /\ Returning(s, "open")
  /\ cwd' = [cwd EXCEPT ![s] = IF Head(stack).ok THEN "open" ELSE "failed"]
  /\ \/ cwd[s] # "open" /\ spawn(s)
     \/ /\ cwd[s] = "open"
        /\ stack' = <<[Head(stack) EXCEPT !.op = "close", !.answered = FALSE]>> \o Tail(stack)
        /\ UNCHANGED <<phase, channels, fds, made, streams>>
  /\ UNCHANGED <<requests, host, spawns, asked>>

\* Mutant of FinishClose: a close that failed is tried again.
FinishClose_Retries(s) ==
  /\ Returning(s, "close")
  /\ \/ Head(stack).ok /\ spawn(s)
     \/ /\ ~Head(stack).ok
        /\ stack' = <<[Head(stack) EXCEPT !.answered = FALSE]>> \o Tail(stack)
        /\ UNCHANGED <<phase, channels, fds, made, streams>>
  /\ UNCHANGED <<cwd, requests, host, spawns, asked>>

FinishClose(s) ==
  /\ Returning(s, "close")
  /\ spawn(s)
  /\ UNCHANGED <<cwd, requests, host, spawns, asked>>

Return(s) == FinishOpen(s) \/ FinishClose(s)

-----------------------------------------------------------------------------
(* A running program, at the other end of its channel (external).          *)

Message(kind, i) == [kind |-> kind, of |-> i]

Ask(s) ==
  /\ host = "up" /\ phase[s] = "running" /\ asked < MaxRequests
  /\ \E c \in RpcOf(s) : streams' = [streams EXCEPT ![c.id].up = Append(@, Message("request", c.id))]
  /\ asked' = asked + 1
  /\ UNCHANGED <<phase, cwd, channels, fds, made, stack, requests, host, spawns>>

\* The program ends: handle_trap reports it and releases the child.
handleExit(s) ==
  /\ host = "up" /\ phase[s] = "running"
  /\ releaseChild(s)
  /\ phase' = [phase EXCEPT ![s] = "released"]
  /\ UNCHANGED <<cwd, made, stack, requests, host, spawns, asked>>

-----------------------------------------------------------------------------
(* Requests and replies.                                                   *)

\* A new request's number tells it from those that are not answered yet.
NewRequest(c, fd) ==
  \E n \in 1 .. asked :
    /\ \A r \in requests : r.n # n
    /\ \A m \in 1 .. n - 1 : \E r \in requests : r.n = m
    /\ requests' = requests \cup {[n |-> n, of |-> c.id, fd |-> fd]}

\* Mutant of handle_ipc_read: the socket of the sandbox that was made last is
\* remembered, whichever was read.
handle_ipc_read_LastMade(s) ==
  /\ host = "up" /\ phase[s] = "running"
  /\ \E c \in RpcOf(s) : \E last \in Open :
       /\ \A d \in Open : d.id <= last.id
       /\ streams[c.id].up # <<>>
       /\ streams' = [streams EXCEPT ![c.id].up = Tail(@)]
       /\ NewRequest(c, last.parent)
  /\ UNCHANGED <<phase, cwd, channels, fds, made, stack, host, spawns, asked>>

\* Mutant of handle_ipc_read: the number is not set and stays 0.
handle_ipc_read_NoNumber(s) ==
  /\ host = "up" /\ phase[s] = "running"
  /\ \E c \in RpcOf(s) :
       /\ streams[c.id].up # <<>>
       /\ streams' = [streams EXCEPT ![c.id].up = Tail(@)]
       /\ NewRequest(c, 0)
  /\ UNCHANGED <<phase, cwd, channels, fds, made, stack, host, spawns, asked>>

\* Mutant of handle_ipc_read: one poll handle for all, which the last spawn
\* took over.
handle_ipc_read_OneHandle(s) ==
  /\ host = "up" /\ phase[s] = "running"
  /\ \E c \in RpcOf(s) :
       /\ \A t \in Sandboxes : \A d \in RpcOf(t) : d.id <= c.id
       /\ streams[c.id].up # <<>>
       /\ streams' = [streams EXCEPT ![c.id].up = Tail(@)]
       /\ NewRequest(c, c.parent)
  /\ UNCHANGED <<phase, cwd, channels, fds, made, stack, host, spawns, asked>>

\* codius_read_request remembers the number it read from.  What is no request
\* has no "api" member, whose absence it does not expect.
handle_ipc_read(s) ==
  /\ host = "up" /\ phase[s] = "running"
  /\ \E c \in RpcOf(s) :
       /\ streams[c.id].up # <<>>
       /\ streams' = [streams EXCEPT ![c.id].up = Tail(@)]
       /\ \/ /\ Head(streams[c.id].up).kind = "request"
             /\ NewRequest(c, c.parent)
             /\ UNCHANGED host
          \/ /\ Head(streams[c.id].up).kind = "reply"
             /\ host' = "crashed"
             /\ UNCHANGED requests
  /\ UNCHANGED <<phase, cwd, channels, fds, made, stack, spawns, asked>>

\* codius_send_reply writes to the remembered number: to whatever it is now.
\* Of a channel's end the other end gets it; a closed number gives EBADF.
node_finish_ipc(r) ==
  /\ host = "up"
  /\ requests' = requests \ {r}
  /\ LET reply == Message("reply", r.of) IN
     IF r.fd \notin DOMAIN fds THEN UNCHANGED streams
     ELSE LET file == fds[r.fd] IN
          streams' = CASE file.side = "parent" ->
                            [streams EXCEPT ![file.id].down = Append(@, reply)]
                       [] file.side = "child"  ->
                            [streams EXCEPT ![file.id].up = Append(@, reply)]
                       [] OTHER -> streams
  /\ UNCHANGED <<phase, cwd, channels, fds, made, stack, host, spawns, asked>>

-----------------------------------------------------------------------------

Init ==
  /\ phase = [s \in Sandboxes |-> "none"]
  /\ cwd = [s \in Sandboxes |-> "none"]
  /\ channels = [s \in Sandboxes |-> {}]
  /\ \E held \in SUBSET (Numbers \cap {3}) : fds = [n \in held |-> Other]
  /\ streams = <<>>
  /\ made = 0 /\ spawns = 0 /\ asked = 0
  /\ stack = <<>> /\ requests = {} /\ host = "up"

Program(s)   == Ask(s) \/ handleExit(s)
Embedding(s) == node_new(s) \/ node_spawn(s) \/ node_finish_vfs(s) \/ node_kill(s) \/ Collect(s)
Loop(s)      == Return(s) \/ handle_ipc_read(s)

Next ==
  \/ \E s \in Sandboxes : Embedding(s) \/ Loop(s) \/ Program(s)
  \/ \E r \in requests : node_finish_ipc(r)
  \/ CloseOther

Spec == Init /\ [][Next]_vars

\* The loop comes back to every socket that is readable, also from within a
\* waiting call; the embedding program answers every doVFS.
Fairness == \A s \in Sandboxes : /\ WF_vars(node_finish_vfs(s))
                                 /\ WF_vars(Return(s))
                                 /\ WF_vars(handle_ipc_read(s))
FairSpec == Spec /\ Fairness

-----------------------------------------------------------------------------
(* Properties.                                                             *)

\* The channels of the sandboxes and the open descriptors of the host match
\* one to one, whatever is made, spawned, killed, ended and collected in
\* whatever nesting: none is left open, closed twice or closed for another
\* (SandboxIPC, ~SandboxIPC, releaseChild).
ChannelsOpen ==
  \A s \in Sandboxes : \A c \in channels[s] :
    /\ {c.parent, c.child} \subseteq DOMAIN fds
    /\ fds[c.parent] = End(c.id, "parent") /\ fds[c.child] = End(c.id, "child")
NoneLeaked ==
  \A n \in DOMAIN fds : fds[n] = Other \/ \E s \in Sandboxes : n \in NumbersOf(channels[s])
NoneKept == \A s \in Sandboxes : phase[s] \in {"none", "collected"} => channels[s] = {}
DescriptorsOwned == ChannelsOpen /\ NoneLeaked /\ NoneKept

\* As long as the channel of a request exists, its reply goes to that channel
\* and no other, whatever came and went meanwhile (codius_send_reply).
RepliesHome ==
  \A i \in Ids :
    /\ \A k \in DOMAIN streams[i].down :
         LET m == streams[i].down[k] IN m.of # i => m.of \notin OpenIds
    /\ \A k \in DOMAIN streams[i].up :
         LET m == streams[i].up[k] IN m.kind = "reply" => m.of \notin OpenIds

\* A call of spawn returns, though any number of others may be made while it
\* waits and have to return before it (doVFS).
SpawnReturns == \A s \in Sandboxes : Spawning(s) ~> (~Spawning(s) \/ host = "crashed")

\* A request of a running program is read, also while spawn waits for another
\* sandbox (handle_ipc_read).
HasAsked(s) == phase[s] = "running" /\ \E c \in RpcOf(s) : streams[c.id].up # <<>>
RequestsServed == \A s \in Sandboxes : HasAsked(s) ~> (~HasAsked(s) \/ host = "crashed")

=============================================================================
