-------------------------------- MODULE VFS --------------------------------
(***************************************************************************)
(* The virtual filesystem of one sandbox: class VFS (src/src/vfs.cpp), its *)
(* File objects, and CodiusNodeFilesystem (src/src/node-filesystem.cpp),   *)
(* the filesystem a NodeSandbox mounts on "/".                             *)
(*                                                                         *)
(* A trapped system call of a sandboxed thread is handled inside the       *)
(* SIGCHLD callback.  CodiusNodeFilesystem::doVFS asks the embedding       *)
(* program for the result and then spins the event loop in place until the *)
(* promise is set, so a second thread's trap is handled ON TOP of the      *)
(* first one's C++ frame, and only the topmost frame can return.           *)
(*                                                                         *)
(* A File object is identified with its m_virtualFD: s_nextFD gives every  *)
(* object its own.  Errors are negative numbers, as in the code.           *)
(***************************************************************************)
EXTENDS Integers, Sequences

CONSTANTS
  Threads,         \* threads of the sandboxed program
  HostFDs,         \* descriptors the embedding program's open() may return
  Errnos,          \* error numbers the embedding program may answer
  FirstVirtualFD,  \* VFS::firstVirtualFD
  Seeks,           \* offsets the sandboxed program passes to lseek()
  MaxFiles,        \* bound: File objects after which open/chdir stop
  MaxRead,         \* bound: bytes one call transfers
  MaxOffset        \* bound: offset after which reads and seeks stop

ENOENT == 2
EBADF  == 9
ENOSYS == 38

\* openFile tests "if (fd)", so a host descriptor 0 would be taken for a
\* failure and never closed: the embedding program is assumed not to return it.
ASSUME HostFDsAssumption == HostFDs \subseteq Nat \ {0}
ASSUME ErrnosAssumption  == Errnos \subseteq Nat \ {0} /\ EBADF \in Errnos
ASSUME FirstAssumption   == FirstVirtualFD \in Nat \ {0}
ASSUME BoundsAssumption  == /\ Seeks \subseteq Int
                            /\ MaxFiles \in Nat
                            /\ MaxRead \in Nat
                            /\ MaxOffset \in Nat

VARIABLES
  openFiles,  \* VFS::m_openFiles, as the set of its keys
  localFD,    \* File::m_localFD of every File made so far, by virtual fd
  nextFD,     \* File::s_nextFD
  cwd,        \* VFS::m_cwd: a File that is not in m_openFiles
  offsets,    \* CodiusNodeFilesystem::m_offsets; absent entries read as 0
  frame,      \* what a thread's handler is waiting for inside doVFS
  stack,      \* threads with a handler on the C++ stack, topmost first
  reply,      \* the last SyscallCall a handler gave back
  host,       \* "up", or "aborted" after an uncaught C++ exception
  hostOpen    \* descriptors the embedding program holds open (external)

table == <<openFiles, localFD, nextFD, cwd>>
vars  == <<openFiles, localFD, nextFD, cwd, offsets, frame, stack, reply,
           host, hostOpen>>

Files    == FirstVirtualFD .. nextFD - 1      \* File objects made so far
Failures == {-e : e \in Errnos}
\* What m_localFD may hold: File::close leaves -1, openFile keeps a negative
\* answer of the filesystem.
LocalFDs == HostFDs \cup Failures \cup {-1}
Results  == Int
NoFile   == 0

\* op is what the handler does once doVFS returns; file and fd are the File
\* and the descriptor it was called with; at is the offset a read was sent
\* with; res is the answer, once phase is "answered".
Ops     == {"open", "close", "read", "chdir", "drop", "reply"}
NoFrame == [op |-> "none", file |-> NoFile, fd |-> 0, at |-> 0,
            phase |-> "none", res |-> 0]
Frames  == [op : Ops, file : Files \cup {NoFile}, fd : LocalFDs \cup {0},
            at : Int, phase : {"asked", "answered"}, res : Results]

\* The thread, its returnVal and whether call.id was left alone, so that the kernel runs the
\* call as well and overwrites returnVal.
Replies == [to : Threads, returnVal : Int, kernel : BOOLEAN]

Waiting(t)  == frame[t] # NoFrame
Asked(t, op)    == frame[t].op = op /\ frame[t].phase = "asked"
Answered(t, op) == frame[t].op = op /\ frame[t].phase = "answered"

\* A close of v is under way, on the stack.
Closing(v) == \E t \in Threads : frame[t].op \in {"close", "drop"}
                                 /\ frame[t].file = v

TypeOK ==
  /\ nextFD \in Nat /\ nextFD > FirstVirtualFD
  /\ openFiles \subseteq Files
  /\ localFD \in [Files -> LocalFDs]
  /\ cwd \in Files
  /\ offsets \in [LocalFDs -> Int]
  /\ frame \in [Threads -> Frames \cup {NoFrame}]
  /\ stack \in Seq(Threads)
  /\ reply \in Replies
  /\ host \in {"up", "aborted"}
  /\ hostOpen \subseteq HostFDs

-----------------------------------------------------------------------------
(* Building blocks.                                                        *)

\* SandboxPrivate::handleSeccompEvent reaches the VFS for a thread that is in
\* user code; another thread's frame may already be waiting in doVFS.
Trapped(t) == host = "up" /\ ~Waiting(t)

\* doVFS: emit onVFS and wait in the nested event loop.
Ask(t, op, v, fd, at) ==
  /\ frame' = [frame EXCEPT ![t] = [op |-> op, file |-> v, fd |-> fd, at |-> at,
                                    phase |-> "asked", res |-> 0]]
  /\ stack' = <<t>> \o stack

\* The handler gives the call back without having called doVFS.
Reply(t, val, kernel) ==
  reply' = [to |-> t, returnVal |-> val, kernel |-> kernel]

\* The handler whose doVFS has returned leaves the C++ stack.
Pop(t) ==
  /\ frame' = [frame EXCEPT ![t] = NoFrame]
  /\ stack' = Tail(stack)

\* Mutant of MakeFile: s_nextFD is read and not incremented.
MakeFile_NoIncrement(fd) ==
  /\ localFD' = [v \in FirstVirtualFD .. nextFD |->
                   IF v = nextFD THEN fd ELSE localFD[v]]
  /\ nextFD' = nextFD

\* new File(fd, ...): s_nextFD is fetched and incremented.
MakeFile(fd) ==
  /\ localFD' = [v \in FirstVirtualFD .. nextFD |->
                   IF v = nextFD THEN fd ELSE localFD[v]]
  /\ nextFD' = nextFD + 1

\* VFS::getFile: m_openFiles.at() throws for a number that is not in the
\* table; nothing between here and the event loop's C callback catches it.
getFileThrows(t, v) ==
  /\ Trapped(t)
  /\ v \notin openFiles
  /\ host' = "aborted"
  /\ UNCHANGED <<openFiles, localFD, nextFD, cwd, offsets, frame, stack, reply,
                 hostOpen>>

-----------------------------------------------------------------------------
(* Calls on a path.  "where" is what isWhitelisted and getFilesystem say   *)
(* of it: a whitelisted path goes to the kernel untouched, one under no    *)
(* mount point is answered -ENOENT.                                        *)

Places == {"whitelisted", "mounted", "nowhere"}

PathCall(t, op, where) ==
  /\ Trapped(t)
  /\ \/ /\ where = "mounted"
        /\ Ask(t, op, NoFile, 0, 0)
        /\ UNCHANGED reply
     \/ /\ where = "nowhere"
        /\ Reply(t, -ENOENT, FALSE)
        /\ UNCHANGED <<frame, stack>>
     \/ /\ where = "whitelisted"
        /\ Reply(t, 0, TRUE)
        /\ UNCHANGED <<frame, stack>>
  /\ UNCHANGED <<table, offsets, host, hostOpen>>

MayMakeFile == nextFD < FirstVirtualFD + MaxFiles

openFile(t, where) == MayMakeFile /\ PathCall(t, "open", where)

do_open(t, where) == openFile(t, where)

\* A relative path is joined to the path of m_cwd or of the file behind the
\* descriptor argument, whose lookup throws for a number not in the table.
do_openat(t, where, v) == openFile(t, where) \/ getFileThrows(t, v)

do_access(t, where)   == PathCall(t, "reply", where)
do_stat(t, where)     == PathCall(t, "reply", where)
do_lstat(t, where)    == PathCall(t, "reply", where)
do_readlink(t, where) == PathCall(t, "reply", where)

\* setCWD opens the directory before it replaces m_cwd.  do_chdir leaves
\* call.id alone and never looks at the whitelist.
do_chdir(t, where) ==
  /\ Trapped(t)
  /\ \/ /\ where = "mounted"
        /\ MayMakeFile
        /\ Ask(t, "chdir", NoFile, 0, 0)
        /\ UNCHANGED reply
     \/ /\ where = "nowhere"
        /\ Reply(t, -ENOENT, TRUE)
        /\ UNCHANGED <<frame, stack>>
  /\ UNCHANGED <<table, offsets, host, hostOpen>>

\* The length of the path (here 1) is returned; call.id is left alone.
do_getcwd(t) ==
  /\ Trapped(t)
  /\ Reply(t, 1, TRUE)
  /\ UNCHANGED <<table, offsets, frame, stack, host, hostOpen>>

-----------------------------------------------------------------------------
(* Calls on a virtual descriptor v.                                        *)

\* fstat, getdents and write hand m_localFD to the filesystem as it is.
FileCall(t, v) ==
  \/ getFileThrows(t, v)
  \/ /\ Trapped(t)
     /\ v \in openFiles
     /\ Ask(t, "reply", v, localFD[v], 0)
     /\ UNCHANGED <<table, offsets, reply, host, hostOpen>>

do_fstat(t, v)    == FileCall(t, v)
do_getdents(t, v) == FileCall(t, v)
do_write(t, v)    == FileCall(t, v)

\* The offset is read before the call to the embedding program ...
do_read(t, v) ==
  \/ getFileThrows(t, v)
  \/ /\ Trapped(t)
     /\ v \in openFiles
     /\ offsets[localFD[v]] < MaxOffset
     /\ Ask(t, "read", v, localFD[v], offsets[localFD[v]])
     /\ UNCHANGED <<table, offsets, reply, host, hostOpen>>

\* Mutant of do_close: the table entry is erased and the File never closed.
do_close_EraseOnly(t, v) ==
  /\ Trapped(t) /\ v \in openFiles
  /\ openFiles' = openFiles \ {v}
  /\ Reply(t, 0, FALSE)
  /\ UNCHANGED <<localFD, nextFD, cwd, offsets, frame, stack, host, hostOpen>>

\* File::close asks the filesystem, which forgets the offset, only when
\* m_localFD > 0; the table entry goes away in either case, but in the first
\* one after the answer.
do_close(t, v) ==
  \/ getFileThrows(t, v)
  \/ /\ Trapped(t)
     /\ v \in openFiles
     /\ \/ /\ localFD[v] > 0
           /\ offsets' = [offsets EXCEPT ![localFD[v]] = 0]
           /\ Ask(t, "close", v, localFD[v], 0)
           /\ UNCHANGED <<openFiles, reply>>
        \/ /\ localFD[v] <= 0
           /\ openFiles' = openFiles \ {v}
           /\ Reply(t, -EBADF, FALSE)
           /\ UNCHANGED <<offsets, frame, stack>>
     /\ UNCHANGED <<localFD, nextFD, cwd, host, hostOpen>>

InBounds(o) == -MaxOffset <= o /\ o <= MaxOffset

\* SEEK_SET and SEEK_CUR move the offset and return 0; SEEK_END does not exist.
do_lseek(t, v, whence, o) ==
  \/ getFileThrows(t, v)
  \/ /\ Trapped(t)
     /\ v \in openFiles
     /\ LET fd == localFD[v] IN
        \/ /\ whence = "SET" /\ InBounds(o)
           /\ offsets' = [offsets EXCEPT ![fd] = o]
           /\ Reply(t, 0, FALSE)
        \/ /\ whence = "CUR" /\ InBounds(offsets[fd] + o)
           /\ offsets' = [offsets EXCEPT ![fd] = @ + o]
           /\ Reply(t, 0, FALSE)
        \/ /\ whence = "END"
           /\ Reply(t, -ENOSYS, FALSE)
           /\ UNCHANGED offsets
     /\ UNCHANGED <<table, frame, stack, host, hostOpen>>

-----------------------------------------------------------------------------
(* The embedding program (external): it executes the request and resolves  *)
(* the promise through finishVFS, in any order.                            *)

Resolve(t, res) ==
  /\ frame' = [frame EXCEPT ![t].phase = "answered", ![t].res = res]
  /\ UNCHANGED <<table, offsets, stack, reply, host>>

HostOpens(t) ==
  /\ host = "up" /\ (Asked(t, "open") \/ Asked(t, "chdir"))
  /\ \/ \E f \in HostFDs \ hostOpen :
          /\ hostOpen' = hostOpen \cup {f}
          /\ Resolve(t, f)
     \/ \E e \in Errnos : Resolve(t, -e) /\ UNCHANGED hostOpen

HostCloses(t) ==
  /\ host = "up" /\ (Asked(t, "close") \/ Asked(t, "drop"))
  /\ hostOpen' = hostOpen \ {frame[t].fd}
  /\ IF frame[t].fd \in hostOpen
       THEN \E r \in Failures \cup {0} : Resolve(t, r)
       ELSE Resolve(t, -EBADF)

HostTransfers(t) ==
  /\ host = "up" /\ (Asked(t, "read") \/ Asked(t, "reply"))
  /\ \/ /\ frame[t].file = NoFile \/ frame[t].fd \in hostOpen
        /\ \E n \in 0 .. MaxRead : Resolve(t, n)
     \/ \E e \in Errnos : Resolve(t, -e)
  /\ UNCHANGED hostOpen

HostFinish(t) == HostOpens(t) \/ HostCloses(t) \/ HostTransfers(t)

-----------------------------------------------------------------------------
(* doVFS returns: only to the topmost frame.                               *)

Returning(t, op) ==
  /\ host = "up"
  /\ stack # <<>> /\ Head(stack) = t
  /\ Answered(t, op)

\* Any non-zero answer, an error too, becomes a File in the table; m_offsets
\* keeps the entry it may already have for this descriptor.
FinishOpen(t) ==
  /\ Returning(t, "open")
  /\ MakeFile(frame[t].res)
  /\ openFiles' = openFiles \cup {nextFD}
  /\ Reply(t, nextFD, FALSE)
  /\ Pop(t)
  /\ UNCHANGED <<cwd, offsets, host, hostOpen>>

\* Mutant of FinishClose: a close that failed leaves the File in the table.
FinishClose_PutsBack(t) ==
  /\ Returning(t, "close")
  /\ openFiles' = IF frame[t].res < 0 THEN openFiles \cup {frame[t].file}
                                      ELSE openFiles \ {frame[t].file}
  /\ Reply(t, frame[t].res, FALSE)
  /\ Pop(t)
  /\ UNCHANGED <<localFD, nextFD, cwd, offsets, host, hostOpen>>

\* Mutant of FinishClose: a close that failed is tried again.
FinishClose_Retries(t) ==
  /\ Returning(t, "close")
  /\ IF frame[t].res < 0
       THEN /\ frame' = [frame EXCEPT ![t].phase = "asked"]
            /\ UNCHANGED <<openFiles, localFD, stack, reply>>
       ELSE /\ localFD' = [localFD EXCEPT ![frame[t].file] = -1]
            /\ openFiles' = openFiles \ {frame[t].file}
            /\ Reply(t, 0, FALSE)
            /\ Pop(t)
  /\ UNCHANGED <<nextFD, cwd, offsets, host, hostOpen>>

FinishClose(t) ==
  /\ Returning(t, "close")
  /\ localFD' = [localFD EXCEPT ![frame[t].file] = -1]
  /\ openFiles' = openFiles \ {frame[t].file}
  /\ Reply(t, frame[t].res, FALSE)
  /\ Pop(t)
  /\ UNCHANGED <<nextFD, cwd, offsets, host, hostOpen>>

\* Mutant of FinishRead: the sign of the answer is not looked at.
FinishRead_NoErrorCheck(t) ==
  /\ Returning(t, "read")
  /\ offsets' = [offsets EXCEPT ![frame[t].fd] = @ + frame[t].res]
  /\ Reply(t, frame[t].res, FALSE)
  /\ Pop(t)
  /\ UNCHANGED <<table, host, hostOpen>>

\* ... and advanced after it.  A failed read returns -errno, which is whatever
\* the event loop's last failing system call left there, or 0.
FinishRead(t) ==
  /\ Returning(t, "read")
  /\ LET fd == frame[t].fd
         n  == frame[t].res IN
     \/ /\ n >= 0
        /\ offsets' = [offsets EXCEPT ![fd] = @ + n]
        /\ Reply(t, n, FALSE)
     \/ /\ n < 0
        /\ \E r \in Failures \cup {0} : Reply(t, r, FALSE)
        /\ UNCHANGED offsets
  /\ Pop(t)
  /\ UNCHANGED <<table, host, hostOpen>>

FinishReply(t) ==
  /\ Returning(t, "reply")
  /\ Reply(t, frame[t].res, FALSE)
  /\ Pop(t)
  /\ UNCHANGED <<table, offsets, host, hostOpen>>

\* Mutant of FinishChdir: the File that was m_cwd is not destroyed.
FinishChdir_KeepsOld(t) ==
  /\ Returning(t, "chdir")
  /\ MakeFile(frame[t].res)
  /\ cwd' = nextFD
  /\ Pop(t)
  /\ Reply(t, 0, TRUE)
  /\ UNCHANGED <<openFiles, offsets, host, hostOpen>>

\* The new File replaces m_cwd whatever open() said; the old one's destructor
\* closes its descriptor, through doVFS again, before do_chdir returns 0.
FinishChdir(t) ==
  /\ Returning(t, "chdir")
  /\ MakeFile(frame[t].res)
  /\ cwd' = nextFD
  /\ IF localFD[cwd] > 0
       THEN /\ offsets' = [offsets EXCEPT ![localFD[cwd]] = 0]
            /\ frame' = [frame EXCEPT ![t] =
                 [op |-> "drop", file |-> cwd, fd |-> localFD[cwd], at |-> 0,
                  phase |-> "asked", res |-> 0]]
            /\ UNCHANGED <<stack, reply>>
       ELSE /\ Pop(t)
            /\ Reply(t, 0, TRUE)
            /\ UNCHANGED offsets
  /\ UNCHANGED <<openFiles, host, hostOpen>>

\* Mutant of FinishDrop: ~File tries again until the close succeeds.
FinishDrop_Retries(t) ==
  /\ Returning(t, "drop")
  /\ IF frame[t].res < 0
       THEN /\ frame' = [frame EXCEPT ![t].phase = "asked"]
            /\ UNCHANGED <<localFD, stack, reply>>
       ELSE /\ localFD' = [localFD EXCEPT ![frame[t].file] = -1]
            /\ Reply(t, 0, TRUE)
            /\ Pop(t)
  /\ UNCHANGED <<openFiles, nextFD, cwd, offsets, host, hostOpen>>

FinishDrop(t) ==
  /\ Returning(t, "drop")
  /\ localFD' = [localFD EXCEPT ![frame[t].file] = -1]
  /\ Reply(t, 0, TRUE)
  /\ Pop(t)
  /\ UNCHANGED <<openFiles, nextFD, cwd, offsets, host, hostOpen>>

Return(t) ==
  \/ FinishOpen(t) \/ FinishClose(t) \/ FinishRead(t)
  \/ FinishReply(t) \/ FinishChdir(t) \/ FinishDrop(t)

-----------------------------------------------------------------------------

\* node_spawn calls setCWD("/contract/") before it forks, so the first File is
\* the current directory, opened or not, and no thread exists yet.
Init ==
  /\ openFiles = {}
  /\ nextFD = FirstVirtualFD + 1
  /\ cwd = FirstVirtualFD
  /\ \E fd \in HostFDs \cup Failures :
       /\ localFD = [v \in {FirstVirtualFD} |-> fd]
       /\ hostOpen = {fd} \cap HostFDs
  /\ offsets = [fd \in LocalFDs |-> 0]
  /\ frame = [t \in Threads |-> NoFrame]
  /\ stack = <<>>
  /\ \E t \in Threads : reply = [to |-> t, returnVal |-> 0, kernel |-> FALSE]
  /\ host = "up"

\* The numbers a thread may pass: every File made so far, and one never made.
Numbers == FirstVirtualFD .. nextFD

\* VFS::handleSyscall: the calls its switch dispatches.
handleSyscall(t) ==
  \/ \E where \in Places :
       \/ do_open(t, where) \/ do_access(t, where) \/ do_stat(t, where)
       \/ do_lstat(t, where) \/ do_readlink(t, where)
       \/ \E v \in Numbers : do_openat(t, where, v)
       \/ do_chdir(t, where)
  \/ \E v \in Numbers :
       \/ do_close(t, v) \/ do_read(t, v) \/ do_fstat(t, v)
       \/ do_getdents(t, v) \/ do_write(t, v)
       \/ \E whence \in {"SET", "CUR", "END"}, o \in Seeks :
            do_lseek(t, v, whence, o)
  \/ do_getcwd(t)

Next == \E t \in Threads : handleSyscall(t) \/ HostFinish(t) \/ Return(t)

Spec == Init /\ [][Next]_vars

\* The embedding program answers every request it was given, and the loop in
\* doVFS polls the promise of the topmost frame for as long as it is on top.
\* Nothing obliges a thread to make a call.
Fairness == \A t \in Threads : WF_vars(HostFinish(t)) /\ WF_vars(Return(t))

FairSpec == Spec /\ Fairness

-----------------------------------------------------------------------------
(* Properties.                                                             *)

\* A close or drop frame whose close the embedding program has executed.
Closed(v) == \E t \in Threads : frame[t].op \in {"close", "drop"}
                  /\ frame[t].phase = "answered" /\ frame[t].file = v

\* Something will still close f: a File of the table or m_cwd whose close has
\* not been executed, a pending handler that is about to make such a File, or
\* a File::~File waiting for its close.
Owned(f) ==
  \/ \E v \in openFiles \cup {cwd} : localFD[v] = f /\ ~Closed(v)
  \/ \E t \in Threads :
       \/ (Answered(t, "open") \/ Answered(t, "chdir")) /\ frame[t].res = f
       \/ Asked(t, "drop") /\ frame[t].fd = f

\* Every descriptor the embedding program holds open for the sandbox is owned:
\* no interleaving of open, close and chdir of any number of threads loses
\* track of one (openFile, File::close, do_close, setCWD).
NoHostLeak == \A f \in hostOpen : Owned(f)

\* A virtual descriptor number that has been closed is never handed out
\* again, so a late call of another thread on that number cannot reach a
\* different file (File::s_nextFD only grows; do_close erases).
NumbersNeverReused ==
  [][\A v \in Files : v \notin openFiles => v \notin openFiles']_vars

\* Whenever no handler is pending, the embedding program's open descriptors
\* are exactly those of the table and m_cwd, one File each.
ExactOwnership ==
  stack = <<>> =>
    LET live == {v \in openFiles \cup {cwd} : localFD[v] > 0} IN
      /\ hostOpen = {localFD[v] : v \in live}
      /\ \A v, w \in live : localFD[v] = localFD[w] => v = w

\* A live File of the table refers to an open host descriptor unless a close
\* of this very File is pending.
NoDanglingFile ==
  \A v \in openFiles : localFD[v] > 0 /\ ~Closing(v) => localFD[v] \in hostOpen

\* The descriptors the program has open, and their offsets: a File whose open
\* failed or whose close has been called is not one of them.
VisibleFiles == {v \in openFiles : localFD[v] > 0 /\ ~Closing(v)}

Posix == INSTANCE PosixFiles
           WITH offset <- [v \in VisibleFiles |-> offsets[localFD[v]]],
                answer <- reply.returnVal

\* The table, the offsets kept per host descriptor and the two halves of read,
\* close and open implement the POSIX file table.
ImplementsPosixFiles == Posix!Spec

\* Every call is answered, two rounds of doVFS for a chdir included, unless
\* the program dies of an unknown number first.
CallsAnswered == \A t \in Threads : Waiting(t) ~> (~Waiting(t) \/ host = "aborted")

\* However deeply traps nest, all handlers return again and again, unless the
\* threads keep making new calls forever.
StackUnwinds ==
  \/ []<>(stack = <<>> \/ host = "aborted")
  \/ []<><<\E t \in Threads : handleSyscall(t)>>_vars

=============================================================================
