-------------------------------- MODULE Rpc --------------------------------
(***************************************************************************)
(* IPC between a sandboxed program and its host (src/src/codius-util.c,    *)
(* handle_ipc_read of src/src/sandbox.cpp, handleIPC and node_finish_ipc   *)
(* of src/src/sandbox-node-module.cpp).                                    *)
(*                                                                         *)
(* The two ends share a stream socket, which keeps no message boundaries.  *)
(* A message is a header and a body, written by separate calls, and a long *)
(* body becomes readable in several parts, so the unit of a stream is a    *)
(* header or one part of a body.  The host reads and writes from its event *)
(* loop, in which it also has to handle the stops of the program.          *)
(***************************************************************************)
EXTENDS Integers, Sequences, FiniteSets

CONSTANTS
  Callers,    \* threads of the sandboxed program
  Sizes,      \* parts the body of a request can have
  ReplySizes, \* parts the body of a result can have; none if it has no data
  Capacity,   \* units a socket buffer holds
  Window,     \* bound: requests the program leaves unanswered
  MaxId,      \* bound: requests made
  HostIds,    \* next_request_id of the host when the program starts
  Env         \* what else happens, a subset of Events

Events == {"signal", "other_child"}

ASSUME SizesAssumption ==
  Sizes \subseteq Nat \ {0} /\ ReplySizes \subseteq Nat
ASSUME BoundsAssumption ==
  Capacity \in Nat \ {0} /\ Window \in Nat /\ MaxId \in Nat
ASSUME EnvAssumption == Env \subseteq Events /\ HostIds \subseteq Nat

NoId == -1
Ids  == 0 .. MaxId - 1

VARIABLES
  pc,       \* where each caller is in codius_write_request, codius_read_result
  msg,      \* the message it is writing or reading
  results,  \* the results it was returned, and the call that returned them
  nextId,   \* next_request_id in the program
  up, down, \* what is in the socket, to the host and to the program
  hostPc,   \* where the host is
  hostMsg,  \* the message it is reading or writing
  hostId,   \* next_request_id in the host, which makes requests to read them
  pending,  \* requests the embedding program has not answered
  stopped,  \* callers in a ptrace-stop
  sigchld,  \* a SIGCHLD the event loop has not handled
  blocking  \* reads and writes of the host's end block

program == <<pc, msg, results, nextId>>
server  == <<hostPc, hostMsg, hostId, pending>>
env     == <<stopped, sigchld, blocking>>
vars    == <<program, up, down, server, env>>

\* A message in the hands of a caller or of the host: the parts left, and, of a
\* caller, the sync call it belongs to.
Messages == [id : Ids \cup {NoId}, left : Nat, call : Ids \cup {NoId}]
NoMsg    == [id |-> NoId, left |-> 0, call |-> NoId]

\* id and size of a codius_rpc_header_t.  Parts of a body carry no mark in the
\* code: what tells them apart is what is in them, here whose they are and how
\* many are due from there on.
Units == [kind : {"header"}, id : Ids, size : Nat]
           \cup [kind : {"part"}, id : Ids, due : Nat]
Header(i, n) == [kind |-> "header", id |-> i, size |-> n]
Part(i, n)   == [kind |-> "part", id |-> i, due |-> n]

\* id is NoId when codius_read_result returned NULL; data when the body could
\* not be decoded.
Results == [call : Ids \cup {NoId}, id : Ids \cup {NoId}, data : BOOLEAN]

TypeOK ==
  /\ pc \in [Callers -> {"idle", "header", "body", "result", "data"}]
  /\ msg \in [Callers -> Messages]
  /\ results \in Seq(Results)
  /\ nextId \in 0 .. MaxId /\ hostId \in Nat
  /\ up \in Seq(Units) /\ down \in Seq(Units)
  /\ Len(up) <= Capacity /\ Len(down) <= Capacity
  /\ hostPc \in {"loop", "body", "reply", "replyBody", "exited"}
  /\ hostMsg \in Messages
  /\ pending \subseteq Ids
  /\ stopped \subseteq Callers
  /\ sigchld \in BOOLEAN /\ blocking \in BOOLEAN

-----------------------------------------------------------------------------
(* read(2) of a body of n parts: what there is, at most n, and whether it  *)
(* is the whole body of message i.                                         *)

Taken(stream, n)    == IF Len(stream) < n THEN Len(stream) ELSE n
Rest(stream, n)     == SubSeq(stream, Taken(stream, n) + 1, Len(stream))
Whole(stream, i, n) ==
  n <= Len(stream) /\ \A k \in 1 .. n : stream[k] = Part(i, n + 1 - k)

Runs(c) == c \notin stopped /\ hostPc # "exited"

-----------------------------------------------------------------------------
(* The sandboxed program.                                                  *)

\* codius_request_new, then codius_sync_call or codius_write_request.
codius_request_new(c) ==
  /\ Runs(c) /\ pc[c] = "idle"
  /\ nextId < MaxId /\ nextId - Len(results) < Window
  /\ \E n \in Sizes, call \in {nextId, NoId} :
       msg' = [msg EXCEPT ![c] = [id |-> nextId, left |-> n, call |-> call]]
  /\ nextId' = nextId + 1
  /\ pc' = [pc EXCEPT ![c] = "header"]
  /\ UNCHANGED <<results, up, down, server, env>>

\* Mutant of WriteHeader: the body is written first.
WriteHeader_Last(c) ==
  /\ Runs(c) /\ pc[c] = "header" /\ Len(up) < Capacity
  /\ IF msg[c].left > 0
       THEN /\ up' = Append(up, Part(msg[c].id, msg[c].left))
            /\ msg' = [msg EXCEPT ![c].left = 0]
            /\ UNCHANGED pc
       ELSE /\ up' = Append(up, Header(msg[c].id, 1))
            /\ pc' = [pc EXCEPT ![c] = IF msg[c].call = NoId THEN "idle" ELSE "result"]
            /\ UNCHANGED msg
  /\ UNCHANGED <<results, nextId, down, server, env>>

\* The first write of codius_write_request.
WriteHeader(c) ==
  /\ Runs(c) /\ pc[c] = "header" /\ Len(up) < Capacity
  /\ up' = Append(up, Header(msg[c].id, msg[c].left))
  /\ pc' = [pc EXCEPT ![c] = "body"]
  /\ UNCHANGED <<msg, results, nextId, down, server, env>>

\* Mutant of WriteBody: one part too many.
WriteBody_OffByOne(c) ==
  /\ Runs(c) /\ pc[c] = "body" /\ Len(up) < Capacity
  /\ up' = Append(up, Part(msg[c].id, msg[c].left))
  /\ msg' = [msg EXCEPT ![c].left = @ - 1]
  /\ pc' = [pc EXCEPT ![c] =
       IF msg[c].left > 0 THEN "body" ELSE IF msg[c].call = NoId THEN "idle" ELSE "result"]
  /\ UNCHANGED <<results, nextId, down, server, env>>

\* Its second, one part of the body; a sync call goes on to read its result.
WriteBody(c) ==
  /\ Runs(c) /\ pc[c] = "body" /\ Len(up) < Capacity
  /\ up' = Append(up, Part(msg[c].id, msg[c].left))
  /\ msg' = [msg EXCEPT ![c].left = @ - 1]
  /\ pc' = [pc EXCEPT ![c] =
       IF msg[c].left > 1 THEN "body" ELSE IF msg[c].call = NoId THEN "idle" ELSE "result"]
  /\ UNCHANGED <<results, nextId, down, server, env>>

\* codius_read_result on its own, for a request written before.
codius_read_result(c) ==
  /\ Runs(c) /\ pc[c] = "idle" /\ Len(results) < nextId
  /\ pc' = [pc EXCEPT ![c] = "result"]
  /\ msg' = [msg EXCEPT ![c] = NoMsg]
  /\ UNCHANGED <<results, nextId, up, down, server, env>>

Returns(c, i, data) ==
  /\ results' = Append(results, [call |-> msg[c].call, id |-> i, data |-> data])
  /\ pc' = [pc EXCEPT ![c] = "idle"]
  /\ msg' = [msg EXCEPT ![c] = NoMsg]

\* The first read of codius_read_result.  What is not a header lacks the magic
\* bytes: the result is NULL, and part of what was there may be left.
ReadHeader(c) ==
  /\ Runs(c) /\ pc[c] = "result" /\ down # <<>>
  /\ IF Head(down).kind = "header"
       THEN /\ msg' = [msg EXCEPT ![c].id = Head(down).id, ![c].left = Head(down).size]
            /\ pc' = [pc EXCEPT ![c] = "data"]
            /\ down' = Tail(down)
            /\ UNCHANGED results
       ELSE /\ Returns(c, NoId, FALSE)
            /\ down' \in {down, Tail(down)}
  /\ UNCHANGED <<nextId, up, server, env>>

\* Its second read, which blocks while a body is due and nothing is there.  The
\* buffer has no room for a terminating NUL, so even a whole body may not be
\* decoded.
ReadData(c) ==
  /\ Runs(c) /\ pc[c] = "data" /\ (msg[c].left > 0 => down # <<>>)
  /\ \E data \in BOOLEAN :
       /\ data => Whole(down, msg[c].id, msg[c].left)
       /\ Returns(c, msg[c].id, data)
  /\ down' = Rest(down, msg[c].left)
  /\ UNCHANGED <<nextId, up, server, env>>

-----------------------------------------------------------------------------
(* The host.                                                               *)

\* handle_ipc_read: the socket is readable, codius_read_request reads a header
\* or ends the process.  What a process has read when it ends is shown as still
\* in the socket, where nobody looks any more.
handle_ipc_read ==
  /\ hostPc = "loop" /\ up # <<>>
  /\ IF Head(up).kind = "header"
       THEN /\ hostPc' = "body"
            /\ hostMsg' = [NoMsg EXCEPT !.id = Head(up).id, !.left = Head(up).size]
            /\ up' = Tail(up)
       ELSE hostPc' = "exited" /\ hostMsg' = NoMsg /\ UNCHANGED up
  /\ UNCHANGED <<program, down, hostId, pending, env>>

\* Mutant of ReadRequestBody: the request keeps the id its constructor gave it.
ReadRequestBody_OwnId ==
  /\ hostPc = "body" /\ (up # <<>> \/ ~blocking)
  /\ IF Whole(up, hostMsg.id, hostMsg.left)
       THEN /\ hostId' = hostId + 1
            /\ pending' = pending \cup {hostId}
            /\ hostPc' = "loop" /\ hostMsg' = NoMsg
            /\ up' = Rest(up, hostMsg.left)
       ELSE hostPc' = "exited" /\ UNCHANGED <<hostMsg, hostId, pending, up>>
  /\ UNCHANGED <<program, down, env>>

\* The read of the body: with a blocking socket it waits for something to be
\* there, otherwise it fails.  A failed read ends the process, and so does a
\* body that does not parse (codius_request_from_string).  handleIPC hands the
\* request to the embedding program.
ReadRequestBody ==
  /\ hostPc = "body" /\ (up # <<>> \/ ~blocking)
  /\ IF Whole(up, hostMsg.id, hostMsg.left)
       THEN /\ hostId' = hostId + 1
            /\ pending' = pending \cup {hostMsg.id}
            /\ hostPc' = "loop" /\ hostMsg' = NoMsg
            /\ up' = Rest(up, hostMsg.left)
       ELSE hostPc' = "exited" /\ UNCHANGED <<hostMsg, hostId, pending, up>>
  /\ UNCHANGED <<program, down, env>>

\* Mutant of node_finish_ipc: the result keeps the id codius_result_new gave it.
node_finish_ipc_NoId(i) ==
  /\ hostPc = "loop" /\ i \in pending
  /\ pending' = pending \ {i}
  /\ \E n \in ReplySizes : hostMsg' = [id |-> 0, left |-> n, call |-> NoId]
  /\ hostPc' = "reply"
  /\ UNCHANGED <<program, up, down, hostId, env>>

\* The embedding program calls finishIPC for a request, from the event loop.
node_finish_ipc(i) ==
  /\ hostPc = "loop" /\ i \in pending
  /\ pending' = pending \ {i}
  /\ \E n \in ReplySizes : hostMsg' = [id |-> i, left |-> n, call |-> NoId]
  /\ hostPc' = "reply"
  /\ UNCHANGED <<program, up, down, hostId, env>>

\* codius_write_result, the header and then the parts.  A write to a full
\* socket blocks or fails; the rest of the reply is then not sent and nobody
\* looks at the result of codius_send_reply.
WriteReply ==
  /\ hostPc \in {"reply", "replyBody"} /\ (Len(down) < Capacity \/ ~blocking)
  /\ LET n == hostMsg.left - (IF hostPc = "reply" THEN 0 ELSE 1) IN
     IF Len(down) < Capacity
       THEN /\ down' = Append(down, IF hostPc = "reply" THEN Header(hostMsg.id, n)
                                                        ELSE Part(hostMsg.id, hostMsg.left))
            /\ hostPc' = IF n = 0 THEN "loop" ELSE "replyBody"
            /\ hostMsg' = [hostMsg EXCEPT !.left = n]
       ELSE hostPc' = "loop" /\ UNCHANGED <<down, hostMsg>>
  /\ UNCHANGED <<program, up, hostId, pending, env>>

-----------------------------------------------------------------------------
(* Signals and the event loop.                                             *)

\* The host waits in a read or a write of the socket.
Blocked ==
  /\ blocking
  /\ \/ hostPc = "body" /\ up = <<>>
     \/ hostPc \in {"reply", "replyBody"} /\ Len(down) = Capacity

\* SIGCHLD arrives.  libuv's handler is installed without SA_RESTART, so a
\* blocked read or write fails with EINTR.
Sigchld ==
  /\ sigchld' = TRUE
  /\ hostPc' = CASE Blocked /\ hostPc = "body" -> "exited"
                 [] Blocked /\ hostPc # "body" -> "loop"
                 [] OTHER -> hostPc
  /\ UNCHANGED <<program, up, down, hostMsg, hostId, pending, blocking>>

\* A signal stops a caller; another child of the host stops or exits.
Signal(c) ==
  /\ "signal" \in Env /\ Runs(c)
  /\ stopped' = stopped \cup {c}
  /\ Sigchld

OtherChild == "other_child" \in Env /\ hostPc # "exited" /\ Sigchld /\ UNCHANGED stopped

\* handle_trap (module Tracer): every stopped thread goes on.
handle_trap ==
  /\ hostPc = "loop" /\ sigchld
  /\ sigchld' = FALSE
  /\ stopped' = {}
  /\ UNCHANGED <<program, up, down, server, blocking>>

-----------------------------------------------------------------------------

\* The event loop libuv 0.10 polls with leaves the socket blocking, that of
\* libuv 1 makes it nonblocking (SandboxIPC::startPoll).
Init ==
  /\ pc = [c \in Callers |-> "idle"]
  /\ msg = [c \in Callers |-> NoMsg]
  /\ results = <<>> /\ nextId = 0
  /\ up = <<>> /\ down = <<>>
  /\ hostPc = "loop" /\ hostMsg = NoMsg /\ hostId \in HostIds
  /\ pending = {}
  /\ stopped = {} /\ sigchld = FALSE
  /\ blocking \in BOOLEAN

Call(c) ==
  WriteHeader(c) \/ WriteBody(c) \/ ReadHeader(c) \/ ReadData(c)

Host == handle_ipc_read \/ ReadRequestBody \/ WriteReply \/ handle_trap

Next ==
  \/ \E c \in Callers : \/ codius_request_new(c) \/ codius_read_result(c)
                        \/ Call(c) \/ Signal(c)
  \/ Host \/ \E i \in Ids : node_finish_ipc(i)
  \/ OtherChild

Spec == Init /\ [][Next]_vars

\* A call goes on when it can, the host runs its loop and the embedding program
\* answers each request.  Nothing obliges the program to make a call.  Several
\* sources of one loop are each handled in every turn of it.
Fairness ==
  /\ \A c \in Callers : SF_vars(Call(c))
  /\ WF_vars(ReadRequestBody) /\ WF_vars(WriteReply)
  /\ SF_vars(handle_ipc_read) /\ SF_vars(handle_trap)
  /\ \A i \in Ids : SF_vars(node_finish_ipc(i))

FairSpec == Spec /\ Fairness

-----------------------------------------------------------------------------
(* Properties.                                                             *)

IdsIn(stream) == {stream[k].id : k \in 1 .. Len(stream)}

\* A request made and not yet with the embedding program.
Underway(i) ==
  \/ i \in IdsIn(up)
  \/ hostPc \in {"body", "exited"} /\ hostMsg.id = i
  \/ \E c \in Callers : pc[c] \in {"header", "body"} /\ msg[c].id = i

Abstract == INSTANCE RequestReply WITH
  phase <- [i \in Ids |->
    IF i >= nextId THEN "unused"
    ELSE IF \E k \in 1 .. Len(results) : results[k].id = i THEN "returned"
    ELSE IF i \in pending THEN "held"
    ELSE IF Underway(i) THEN "asked" ELSE "answered"]

\* Signals, full sockets and short reads may lose a request or a reply; they
\* never repeat one, answer one unasked or return one unanswered.
ImplementsRequestReply == Abstract!Spec

\* No message is longer than what one read returns.
ShortBodies ==
  /\ \A c \in Callers : msg[c].left <= 1
  /\ hostMsg.left <= 1

\* A program that makes one sync call after the other gets the result of each
\* request from the call that made it (src/test/ipc.cpp, testSyncCall), whatever
\* stops it and whichever way the host polls, as long as bodies are short.
OwnReply ==
  \A k \in 1 .. Len(results) :
    (\A j \in 1 .. k : results[j].call = j - 1) => results[k].id = k - 1

SyncCallGetsOwnReply == []ShortBodies => []OwnReply

\* A call returns (codius-util.h: it "blocks until a response is received").
CallsReturn == \A c \in Callers : pc[c] # "idle" ~> pc[c] = "idle"

\* With short bodies, a blocking socket and no SIGCHLD calls return, also when
\* several requests are outstanding.
QuietCallsReturn == [](ShortBodies /\ blocking /\ ~sigchld) => CallsReturn

=============================================================================
