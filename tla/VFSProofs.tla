----------------------------- MODULE VFSProofs -----------------------------
(***************************************************************************)
(* Proofs about VFS, for any number of threads, descriptors and files.     *)
(***************************************************************************)
EXTENDS VFS, TLAPS

\* What a frame's answer and the descriptor it captured tell about the table.
\* A File whose close is pending still holds the descriptor the close was sent
\* with, or another close of it has already set -1; it is never m_cwd.
FramesOK ==
  \A t \in Threads :
    /\ Answered(t, "open") \/ Answered(t, "chdir")
         => frame[t].res \in HostFDs \cup Failures
    /\ frame[t].op \in {"close", "drop"}
         => /\ frame[t].file \in Files \ {cwd}
            /\ frame[t].fd \in HostFDs
            /\ localFD[frame[t].file] \in {frame[t].fd, -1}

CwdOutsideTable == cwd \notin openFiles

IInv == TypeOK /\ FramesOK /\ CwdOutsideTable /\ NoHostLeak

\* The steps of one thread, by what they change.
Step(t) ==
  \/ \E where \in Places : \E op \in {"open", "reply"} : PathCall(t, op, where)
  \/ \E where \in Places : do_chdir(t, where)
  \/ \E v \in Numbers : getFileThrows(t, v) \/ FileCall(t, v) \/ do_close(t, v)
                        \/ do_read(t, v)
  \/ \E v \in Numbers, whence \in {"SET", "CUR", "END"}, o \in Seeks :
       do_lseek(t, v, whence, o)
  \/ do_getcwd(t)
  \/ HostFinish(t) \/ Return(t)

LEMMA NextIsStep == Next => \E t \in Threads : Step(t)
  BY DEF Next, Step, handleSyscall, do_open, do_access, do_stat, do_lstat,
         do_readlink, do_openat, openFile, do_fstat, do_getdents, do_write

LEMMA Assumptions ==
  /\ LocalFDs \subseteq Int
  /\ HostFDs \subseteq LocalFDs /\ Failures \subseteq LocalFDs /\ -1 \in LocalFDs
  /\ -EBADF \in Failures
  /\ \A f \in HostFDs : f > 0
  /\ \A f \in Failures : f < 0
  /\ FirstVirtualFD \in Nat /\ FirstVirtualFD > 0
  <1>1. ASSUME NEW f \in Failures PROVE f \in Int /\ f < 0
    <2>1. PICK e \in Errnos : f = -e
      BY DEF Failures
    <2>2. e \in Nat /\ e # 0
      BY ErrnosAssumption
    <2> QED BY <2>1, <2>2
  <1>2. -EBADF \in Failures
    BY ErrnosAssumption DEF Failures
  <1>3. \A f \in HostFDs : f \in Int /\ f > 0
    BY HostFDsAssumption
  <1> QED BY <1>1, <1>2, <1>3, FirstAssumption DEF LocalFDs

-----------------------------------------------------------------------------
(* Type correctness.                                                       *)

\* The types that mention File objects do not change when none is made.
LEMMA SameFiles == nextFD' = nextFD => Files' = Files /\ Frames' = Frames
  BY DEF Files, Frames

\* Making one only adds to them.
LEMMA MoreFiles ==
  ASSUME TypeOK, NEW fd \in LocalFDs, MakeFile(fd)
  PROVE  /\ nextFD' \in Nat /\ nextFD' > FirstVirtualFD
         /\ Files' = Files \cup {nextFD} /\ nextFD \notin Files
         /\ localFD' \in [Files' -> LocalFDs]
         /\ localFD'[nextFD] = fd
         /\ \A v \in Files : localFD'[v] = localFD[v]
         /\ Frames \subseteq Frames'
  <1>1. nextFD' = nextFD + 1 /\ nextFD \in Nat /\ nextFD > FirstVirtualFD
    BY DEF MakeFile, TypeOK
  <1>2. Files' = FirstVirtualFD .. nextFD /\ Files = FirstVirtualFD .. nextFD - 1
    BY <1>1 DEF Files
  <1>3. Files' = Files \cup {nextFD} /\ nextFD \notin Files
    BY <1>1, <1>2, Assumptions
  <1>4. localFD' = [v \in Files' |-> IF v = nextFD THEN fd ELSE localFD[v]]
    BY <1>2 DEF MakeFile
  <1>5. localFD \in [Files -> LocalFDs]
    BY DEF TypeOK
  <1>6. Frames \subseteq Frames'
    BY <1>3 DEF Frames
  <1>7. localFD' \in [Files' -> LocalFDs]
    BY <1>3, <1>4, <1>5
  <1>8. localFD'[nextFD] = fd /\ \A v \in Files : localFD'[v] = localFD[v]
    BY <1>3, <1>4
  <1>9. nextFD' \in Nat /\ nextFD' > FirstVirtualFD
    BY <1>1, Assumptions
  <1> QED BY <1>3, <1>6, <1>7, <1>8, <1>9

LEMMA AskType ==
  ASSUME TypeOK, NEW t \in Threads, NEW op \in Ops,
         NEW v \in Files \cup {NoFile}, NEW fd \in LocalFDs \cup {0}, NEW at \in Int,
         Ask(t, op, v, fd, at)
  PROVE  /\ frame' \in [Threads -> Frames \cup {NoFrame}]
         /\ stack' \in Seq(Threads)
  <1>1. [op |-> op, file |-> v, fd |-> fd, at |-> at, phase |-> "asked", res |-> 0]
          \in Frames
    BY DEF Frames, Results
  <1>2. stack \in Seq(Threads) /\ frame \in [Threads -> Frames \cup {NoFrame}]
    BY DEF TypeOK
  <1> QED BY <1>1, <1>2 DEF Ask

LEMMA PopType ==
  ASSUME TypeOK, NEW t \in Threads, stack # <<>>, Pop(t)
  PROVE  /\ frame' \in [Threads -> Frames \cup {NoFrame}]
         /\ stack' \in Seq(Threads)
  BY DEF Pop, TypeOK

LEMMA ReplyType ==
  ASSUME NEW t \in Threads, NEW val \in Int, NEW kernel \in BOOLEAN,
         Reply(t, val, kernel)
  PROVE  reply' \in Replies
  BY DEF Reply, Replies

LEMMA ResolveType ==
  ASSUME TypeOK, NEW t \in Threads, frame[t] # NoFrame, NEW res \in Int,
         Resolve(t, res)
  PROVE  /\ frame' \in [Threads -> Frames \cup {NoFrame}]
         /\ frame'[t] = [frame[t] EXCEPT !.phase = "answered", !.res = res]
         /\ \A u \in Threads \ {t} : frame'[u] = frame[u]
  <1>1. frame[t] \in Frames
    BY DEF TypeOK
  <1>2. [frame[t] EXCEPT !.phase = "answered", !.res = res] \in Frames
    BY <1>1 DEF Frames, Results
  <1>3. frame' = [frame EXCEPT ![t] =
                    [frame[t] EXCEPT !.phase = "answered", !.res = res]]
    BY DEF Resolve
  <1> QED BY <1>2, <1>3 DEF TypeOK

LEMMA InitType == Init => TypeOK
  <1> SUFFICES ASSUME Init PROVE TypeOK
    OBVIOUS
  <1>1. nextFD \in Nat /\ nextFD > FirstVirtualFD /\ Files = {FirstVirtualFD}
    BY Assumptions DEF Init, Files
  <1>2. PICK fd \in HostFDs \cup Failures :
          localFD = [v \in {FirstVirtualFD} |-> fd] /\ hostOpen = {fd} \cap HostFDs
    BY DEF Init
  <1>3. localFD \in [Files -> LocalFDs] /\ hostOpen \subseteq HostFDs
    BY <1>1, <1>2, Assumptions
  <1>4. reply \in Replies
    BY DEF Init, Replies
  <1> QED BY <1>1, <1>3, <1>4 DEF Init, TypeOK


LEMMA TypeStep ==
  ASSUME TypeOK, FramesOK, NEW t \in Threads, Step(t)
  PROVE  TypeOK'
  <1> DEFINE FrameType == /\ frame' \in [Threads -> Frames \cup {NoFrame}]
                          /\ stack' \in Seq(Threads)
  <1>a. ASSUME nextFD' = nextFD, openFiles' \subseteq openFiles, cwd' = cwd,
               localFD' \in [Files -> LocalFDs], offsets' \in [LocalFDs -> Int],
               FrameType, reply' \in Replies, host' \in {"up", "aborted"},
               hostOpen' \subseteq HostFDs
        PROVE  TypeOK'
    BY <1>a, SameFiles DEF TypeOK
  <1>b. ASSUME frame' = frame, stack' = stack
        PROVE  FrameType
    BY <1>b DEF TypeOK
  <1>c. ASSUME NEW v \in openFiles
        PROVE  v \in Files /\ localFD[v] \in LocalFDs /\ localFD[v] \in Int
               /\ offsets[localFD[v]] \in Int
    BY <1>c, Assumptions DEF TypeOK
  <1>d. /\ openFiles \subseteq Files /\ localFD \in [Files -> LocalFDs]
        /\ offsets \in [LocalFDs -> Int] /\ reply \in Replies
        /\ host \in {"up", "aborted"} /\ hostOpen \subseteq HostFDs
    BY DEF TypeOK
  <1>e. /\ \A op \in {"open", "close", "read", "chdir", "reply"} : op \in Ops
        /\ "chdir" \in Ops /\ "reply" \in Ops /\ "close" \in Ops /\ "read" \in Ops
        /\ NoFile \in Files \cup {NoFile} /\ 0 \in LocalFDs \cup {0}
        /\ 0 \in Int /\ 1 \in Int
        /\ -ENOENT \in Int /\ -EBADF \in Int /\ -ENOSYS \in Int
        /\ TRUE \in BOOLEAN /\ FALSE \in BOOLEAN
    BY DEF Ops, ENOENT, EBADF, ENOSYS
  <1> USE DEF table
  <1>1. ASSUME NEW where \in Places, NEW op \in {"open", "reply"},
               PathCall(t, op, where)
        PROVE  TypeOK'
    <2>1. CASE where = "mounted"
      <3>1. Ask(t, op, NoFile, 0, 0)
        BY <1>1, <2>1 DEF PathCall
      <3>2. FrameType
        BY <3>1, AskType DEF Ops
      <3> QED BY <1>1, <2>1, <1>a, <1>d, <3>2 DEF PathCall
    <2>2. CASE where # "mounted"
      <3>1. Reply(t, -ENOENT, FALSE) \/ Reply(t, 0, TRUE)
        BY <1>1, <2>2 DEF PathCall
      <3>2. reply' \in Replies
        BY <1>e, <3>1, ReplyType, Zenon
      <3> QED BY <1>1, <2>2, <1>a, <1>b, <1>d, <3>2 DEF PathCall
    <2> QED BY <2>1, <2>2
  <1>2. ASSUME NEW where \in Places, do_chdir(t, where)
        PROVE  TypeOK'
    <2>1. CASE where = "mounted"
      <3>1. Ask(t, "chdir", NoFile, 0, 0)
        BY <1>2, <2>1 DEF do_chdir
      <3>2. FrameType
        BY <1>e, <3>1, AskType, Zenon
      <3> QED BY <1>2, <2>1, <1>a, <1>d, <3>2 DEF do_chdir
    <2>2. CASE where # "mounted"
      <3>1. Reply(t, -ENOENT, TRUE)
        BY <1>2, <2>2 DEF do_chdir
      <3>2. reply' \in Replies
        BY <1>e, <3>1, ReplyType, Zenon
      <3> QED BY <1>2, <2>2, <1>a, <1>b, <1>d, <3>2 DEF do_chdir
    <2> QED BY <2>1, <2>2
  <1>3. ASSUME NEW v \in Numbers, getFileThrows(t, v)
        PROVE  TypeOK'
    BY <1>3, <1>a, <1>b, <1>d DEF getFileThrows
  <1>4. ASSUME NEW v \in Numbers, FileCall(t, v)
        PROVE  TypeOK'
    <2>1. CASE v \in openFiles
      <3>1. Ask(t, "reply", v, localFD[v], 0)
        BY <1>4, <2>1 DEF FileCall, getFileThrows
      <3>2. FrameType
        BY <2>1, <3>1, <1>c, AskType DEF Ops
      <3> QED BY <1>4, <2>1, <1>a, <1>d, <3>2 DEF FileCall, getFileThrows
    <2> QED BY <1>3, <1>4, <2>1 DEF FileCall
  <1>5. ASSUME NEW v \in Numbers, do_close(t, v)
        PROVE  TypeOK'
    <2>0. CASE v \notin openFiles
      BY <1>3, <1>5, <2>0 DEF do_close
    <2>a. CASE v \in openFiles
      <3> DEFINE fd == localFD[v]
      <3>0. fd \in LocalFDs /\ fd \in Int /\ v \in Files
        BY <1>c, <2>a
      <3>1. /\ \/ /\ offsets' = [offsets EXCEPT ![fd] = 0]
                  /\ Ask(t, "close", v, fd, 0)
                  /\ UNCHANGED <<openFiles, reply>>
               \/ /\ openFiles' = openFiles \ {v}
                  /\ Reply(t, -EBADF, FALSE)
                  /\ UNCHANGED <<offsets, frame, stack>>
            /\ UNCHANGED <<localFD, nextFD, cwd, host, hostOpen>>
        BY <1>5, <2>a DEF do_close, getFileThrows
      <3>2. CASE Ask(t, "close", v, fd, 0)
        <4>1. FrameType
          BY <1>e, <3>0, <3>2, AskType, Zenon
        <4>a. openFiles' = openFiles \/ openFiles' = openFiles \ {v}
          BY <3>1
        <4>b. offsets' = offsets \/ offsets' = [offsets EXCEPT ![fd] = 0]
          BY <3>1
        <4>2. offsets' \in [LocalFDs -> Int] /\ openFiles' \subseteq openFiles
          <5> HIDE DEF fd
          <5> QED BY <1>d, <3>0, <4>a, <4>b
        <4>3. reply' \in Replies
          BY <1>d, <1>e, <3>1, ReplyType, Zenon
        <4> QED BY <3>1, <4>1, <4>2, <4>3, <1>a, <1>d
      <3>3. CASE Reply(t, -EBADF, FALSE) /\ UNCHANGED <<offsets, frame, stack>>
                 /\ openFiles' = openFiles \ {v}
        <4>1. reply' \in Replies
          BY <1>e, <3>3, ReplyType, Zenon
        <4> QED BY <3>1, <3>3, <4>1, <1>a, <1>b, <1>d
      <3> QED BY <3>1, <3>2, <3>3
    <2> QED BY <2>0, <2>a
  <1>6. ASSUME NEW v \in Numbers, do_read(t, v)
        PROVE  TypeOK'
    <2>1. CASE v \in openFiles
      <3>1. Ask(t, "read", v, localFD[v], offsets[localFD[v]])
        BY <1>6, <2>1 DEF do_read, getFileThrows
      <3>2. FrameType
        BY <2>1, <3>1, <1>c, AskType DEF Ops
      <3> QED BY <1>6, <2>1, <1>a, <1>d, <3>2 DEF do_read, getFileThrows
    <2> QED BY <1>3, <1>6, <2>1 DEF do_read
  <1>7. ASSUME NEW v \in Numbers, NEW whence \in {"SET", "CUR", "END"},
               NEW o \in Seeks, do_lseek(t, v, whence, o)
        PROVE  TypeOK'
    <2>1. CASE v \in openFiles
      <3> DEFINE fd == localFD[v]
      <3>1. o \in Int /\ fd \in LocalFDs /\ offsets[fd] \in Int
        BY <1>c, <2>1, BoundsAssumption
      <3>2. /\ \/ offsets' = [offsets EXCEPT ![fd] = o]
               \/ offsets' = [offsets EXCEPT ![fd] = offsets[fd] + o]
               \/ offsets' = offsets
            /\ Reply(t, 0, FALSE) \/ Reply(t, -ENOSYS, FALSE)
            /\ UNCHANGED <<openFiles, localFD, nextFD, cwd, frame, stack, host,
                           hostOpen>>
        BY <1>7, <2>1 DEF do_lseek, getFileThrows
      <3>3. offsets' \in [LocalFDs -> Int]
        BY <1>d, <3>1, <3>2
      <3>4. reply' \in Replies
        BY <1>e, <3>2, ReplyType, Zenon
      <3> QED BY <3>2, <3>3, <3>4, <1>a, <1>b, <1>d
    <2> QED BY <1>3, <1>7, <2>1 DEF do_lseek
  <1>8. ASSUME do_getcwd(t)
        PROVE  TypeOK'
    <2>0. Reply(t, 1, TRUE)
      BY <1>8 DEF do_getcwd
    <2>1. reply' \in Replies
      BY <1>e, <2>0, ReplyType, Zenon
    <2> QED BY <1>8, <1>a, <1>b, <1>d, <2>1 DEF do_getcwd
  <1>9. ASSUME HostFinish(t)
        PROVE  TypeOK'
    <2>1. frame[t] # NoFrame
      BY <1>9 DEF HostFinish, HostOpens, HostCloses, HostTransfers, Asked, NoFrame
    <2>2. PICK res \in Int : Resolve(t, res)
      <3>1. CASE HostOpens(t)
        BY <3>1, Assumptions, ErrnosAssumption DEF HostOpens
      <3>2. CASE HostCloses(t)
        BY <3>2, Assumptions, <1>e DEF HostCloses
      <3>3. CASE HostTransfers(t)
        BY <3>3, ErrnosAssumption, BoundsAssumption DEF HostTransfers
      <3> QED BY <1>9, <3>1, <3>2, <3>3 DEF HostFinish
    <2>3. FrameType
      BY <2>1, <2>2, ResolveType DEF Resolve, TypeOK
    <2>4. hostOpen' \subseteq HostFDs
      BY <1>9, <1>d DEF HostFinish, HostOpens, HostCloses, HostTransfers
    <2> QED BY <2>2, <2>3, <2>4, <1>a, <1>d DEF Resolve
  <1>f. ASSUME NEW op \in Ops, Returning(t, op)
        PROVE  /\ stack # <<>> /\ Answered(t, op)
               /\ frame[t] \in Frames /\ frame[t].op = op
               /\ frame[t].res \in Int /\ frame[t].fd \in LocalFDs \cup {0}
    <2>1. frame[t].op = op /\ stack # <<>> /\ Answered(t, op)
      BY <1>f DEF Returning, Answered
    <2>2. frame[t] # NoFrame
      BY <2>1 DEF NoFrame, Ops
    <2>3. frame[t] \in Frames
      BY <2>2 DEF TypeOK
    <2> QED BY <2>1, <2>3 DEF Frames, Results
  <1>10. ASSUME FinishClose(t) \/ FinishDrop(t)
         PROVE  TypeOK'
    <2>1. FrameType
      BY <1>10, PopType DEF FinishClose, FinishDrop, Returning
    <2>2. frame[t].res \in Int
      BY <1>10, <1>f DEF FinishClose, FinishDrop, Ops
    <2>3. reply' \in Replies
      <3>1. Reply(t, frame[t].res, FALSE) \/ Reply(t, 0, TRUE)
        BY <1>10 DEF FinishClose, FinishDrop
      <3> QED BY <1>e, <2>2, <3>1, ReplyType, Zenon
    <2>4. localFD' \in [Files -> LocalFDs]
      BY <1>10, <1>d, Assumptions DEF FinishClose, FinishDrop
    <2> QED BY <1>10, <2>1, <2>3, <2>4, <1>a, <1>d DEF FinishClose, FinishDrop
  <1>11. ASSUME FinishRead(t) \/ FinishReply(t)
         PROVE  TypeOK'
    <2>1. FrameType
      BY <1>11, PopType DEF FinishRead, FinishReply, Returning
    <2>2. frame[t].res \in Int /\ frame[t].fd \in LocalFDs \cup {0}
      BY <1>11, <1>f DEF FinishRead, FinishReply, Ops
    <2>3. reply' \in Replies
      <3>1. PICK r \in Int : Reply(t, r, FALSE)
        BY <1>11, <2>2, <1>e, Assumptions DEF FinishRead, FinishReply
      <3> QED BY <1>e, <3>1, ReplyType, Zenon
    <2>4. offsets' \in [LocalFDs -> Int]
      <3>1. \/ offsets' = [offsets EXCEPT ![frame[t].fd] = @ + frame[t].res]
            \/ offsets' = offsets
        BY <1>11 DEF FinishRead, FinishReply
      <3>2. ASSUME frame[t].fd \in LocalFDs
            PROVE  offsets[frame[t].fd] + frame[t].res \in Int
        BY <1>d, <2>2, <3>2
      <3> QED BY <1>d, <3>1, <3>2
    <2> QED BY <1>11, <2>1, <2>3, <2>4, <1>a, <1>d DEF FinishRead, FinishReply
  <1>12. ASSUME FinishOpen(t) \/ FinishChdir(t)
         PROVE  TypeOK'
    <2> DEFINE res == frame[t].res
    <2>1. res \in LocalFDs /\ res \in Int /\ stack # <<>> /\ MakeFile(res)
      BY <1>12, <1>f, Assumptions DEF FinishOpen, FinishChdir, FramesOK, Ops
    <2>2. /\ nextFD' \in Nat /\ nextFD' > FirstVirtualFD
          /\ Files' = Files \cup {nextFD}
          /\ localFD' \in [Files' -> LocalFDs]
          /\ Frames \subseteq Frames'
      BY <2>1, MoreFiles
    <2>3. CASE FinishOpen(t)
      <3>1. FrameType
        BY <2>1, <2>3, PopType DEF FinishOpen
      <3>2. nextFD \in Int /\ Reply(t, nextFD, FALSE)
        <4>1. Reply(t, nextFD, FALSE)
          BY <2>3 DEF FinishOpen
        <4>2. nextFD \in Int
          BY DEF TypeOK
        <4> QED BY <4>1, <4>2, Zenon
      <3>3. reply' \in Replies
        BY <1>e, <3>2, ReplyType, Zenon
      <3>4. openFiles' \subseteq Files' /\ cwd' \in Files'
        BY <2>2, <2>3 DEF FinishOpen, TypeOK
      <3> QED BY <2>2, <2>3, <3>1, <3>3, <3>4, <1>d DEF FinishOpen, TypeOK
    <2>4. CASE FinishChdir(t)
      <3>0. cwd \in Files /\ localFD[cwd] \in LocalFDs
        BY DEF TypeOK
      <3>1. CASE localFD[cwd] > 0
        <4>1. [op |-> "drop", file |-> cwd, fd |-> localFD[cwd], at |-> 0,
               phase |-> "asked", res |-> 0] \in Frames
          BY <3>0 DEF Frames, Ops, Results
        <4>2. FrameType
          BY <2>4, <3>1, <4>1 DEF FinishChdir, TypeOK
        <4>3. offsets' \in [LocalFDs -> Int] /\ reply' = reply
          BY <1>d, <2>4, <3>0, <3>1 DEF FinishChdir
        <4> QED BY <2>2, <2>4, <4>2, <4>3, <1>d DEF FinishChdir, TypeOK
      <3>2. CASE ~(localFD[cwd] > 0)
        <4>1. FrameType
          BY <2>1, <2>4, <3>2, PopType DEF FinishChdir
        <4>2. Reply(t, 0, TRUE) /\ offsets' = offsets
          BY <2>4, <3>2 DEF FinishChdir
        <4>3. reply' \in Replies
          BY <1>e, <4>2, ReplyType, Zenon
        <4> QED BY <2>2, <2>4, <4>1, <4>2, <4>3, <1>d DEF FinishChdir, TypeOK
      <3> QED BY <3>1, <3>2
    <2> QED BY <1>12, <2>3, <2>4
  <1> QED
    BY <1>1, <1>2, <1>3, <1>4, <1>5, <1>6, <1>7, <1>8, <1>9, <1>10, <1>11, <1>12
       DEF Step, Return

-----------------------------------------------------------------------------
(* What a step does to the frames, the table and the host's descriptors.   *)

\* The frame of t alone becomes r.
SetFrame(t, r) == frame' = [frame EXCEPT ![t] = r]

Quiet == UNCHANGED <<openFiles, localFD, nextFD, cwd, frame, hostOpen>>

\* Frames that hold no descriptor yet and close none.
PlainRecords ==
  [op : {"none", "open", "read", "chdir", "reply"}, file : Files \cup {NoFile},
   fd : LocalFDs \cup {0}, at : Int, phase : {"none", "asked"}, res : Int]

\* Such a frame appears, or the answered frame of another call goes away.
PlainFrame(t) ==
  /\ \/ frame[t].op \notin {"close", "drop"} /\ frame[t].phase # "answered"
     \/ Answered(t, "read") \/ Answered(t, "reply")
  /\ \E r \in PlainRecords : SetFrame(t, r)
  /\ UNCHANGED <<openFiles, localFD, nextFD, cwd, hostOpen>>

AskClose(t, v) ==
  /\ v \in openFiles /\ localFD[v] \in HostFDs
  /\ frame[t] = NoFrame
  /\ SetFrame(t, [op |-> "close", file |-> v, fd |-> localFD[v], at |-> 0,
                  phase |-> "asked", res |-> 0])
  /\ UNCHANGED <<openFiles, localFD, nextFD, cwd, hostOpen>>

EraseDead(v) ==
  /\ localFD[v] <= 0
  /\ openFiles' = openFiles \ {v}
  /\ UNCHANGED <<localFD, nextFD, cwd, frame, hostOpen>>

\* A positive m_localFD is a descriptor of the embedding program.
LEMMA LiveIsHostFD ==
  ASSUME NEW fd \in LocalFDs, fd > 0
  PROVE  fd \in HostFDs
  BY Assumptions DEF LocalFDs

LEMMA StepKinds ==
  ASSUME TypeOK, NEW t \in Threads, Step(t)
  PROVE  \/ Quiet
         \/ PlainFrame(t)
         \/ \E v \in openFiles : AskClose(t, v) \/ EraseDead(v)
         \/ HostOpens(t) \/ HostCloses(t) \/ HostTransfers(t)
         \/ FinishOpen(t) \/ FinishClose(t) \/ FinishChdir(t) \/ FinishDrop(t)
  <1> DEFINE R(op, v, fd, at) ==
        [op |-> op, file |-> v, fd |-> fd, at |-> at, phase |-> "asked", res |-> 0]
  <1>1. ASSUME NEW op \in {"open", "read", "chdir", "reply"},
               NEW v \in Files \cup {NoFile}, NEW fd \in LocalFDs \cup {0}, NEW at \in Int,
               frame[t] = NoFrame, frame' = [frame EXCEPT ![t] = R(op, v, fd, at)],
               UNCHANGED <<openFiles, localFD, nextFD, cwd, hostOpen>>
        PROVE  PlainFrame(t)
    <2>1. R(op, v, fd, at) \in PlainRecords
      BY DEF PlainRecords
    <2>2. frame[t].op \notin {"close", "drop"} /\ frame[t].phase # "answered"
      BY <1>1 DEF NoFrame
    <2> QED BY <1>1, <2>1, <2>2 DEF PlainFrame, SetFrame
  <1>2. ASSUME NEW v \in openFiles
        PROVE  v \in Files /\ localFD[v] \in LocalFDs /\ localFD[v] \in Int
               /\ offsets[localFD[v]] \in Int
    BY <1>2, Assumptions DEF TypeOK
  <1>0. NoFile \in Files \cup {NoFile} /\ 0 \in LocalFDs \cup {0} /\ 0 \in Int
    OBVIOUS
  <1> USE DEF table, Trapped, Waiting, Ask
  <1>3. ASSUME NEW where \in Places, NEW op \in {"open", "reply"},
               PathCall(t, op, where)
        PROVE  Quiet \/ PlainFrame(t)
    BY <1>0, <1>1, <1>3 DEF PathCall, Quiet
  <1>4. ASSUME NEW where \in Places, do_chdir(t, where)
        PROVE  Quiet \/ PlainFrame(t)
    BY <1>0, <1>1, <1>4 DEF do_chdir, Quiet
  <1>5. ASSUME NEW v, getFileThrows(t, v)
        PROVE  Quiet
    BY <1>5 DEF getFileThrows, Quiet
  <1>6. ASSUME NEW v \in Numbers, FileCall(t, v)
        PROVE  Quiet \/ PlainFrame(t)
    BY <1>0, <1>1, <1>2, <1>5, <1>6 DEF FileCall
  <1>7. ASSUME NEW v \in Numbers, do_read(t, v)
        PROVE  Quiet \/ PlainFrame(t)
    BY <1>0, <1>1, <1>2, <1>5, <1>7 DEF do_read
  <1>8. ASSUME NEW v \in Numbers, do_close(t, v)
        PROVE  Quiet \/ (v \in openFiles /\ (AskClose(t, v) \/ EraseDead(v)))
    BY <1>2, <1>5, <1>8, LiveIsHostFD DEF do_close, AskClose, EraseDead, SetFrame
  <1>9. ASSUME NEW v \in Numbers, NEW whence \in {"SET", "CUR", "END"},
               NEW o \in Seeks, do_lseek(t, v, whence, o)
        PROVE  Quiet
    BY <1>5, <1>9 DEF do_lseek, Quiet
  <1>10. ASSUME do_getcwd(t)
         PROVE  Quiet
    BY <1>10 DEF do_getcwd, Quiet
  <1>11. ASSUME FinishRead(t) \/ FinishReply(t)
         PROVE  PlainFrame(t)
    <2>1. NoFrame \in PlainRecords
      BY DEF NoFrame, PlainRecords
    <2>2. Answered(t, "read") \/ Answered(t, "reply")
      BY <1>11 DEF FinishRead, FinishReply, Returning
    <2>3. SetFrame(t, NoFrame)
      BY <1>11 DEF FinishRead, FinishReply, Pop, SetFrame
    <2> QED BY <1>11, <2>1, <2>2, <2>3 DEF FinishRead, FinishReply, PlainFrame
  <1> QED
    BY <1>3, <1>4, <1>5, <1>6, <1>7, <1>8, <1>9, <1>10, <1>11
       DEF Step, HostFinish, Return

-----------------------------------------------------------------------------
(* Frames stay consistent with the table.                                  *)

FrameOK(t) ==
  /\ Answered(t, "open") \/ Answered(t, "chdir")
       => frame[t].res \in HostFDs \cup Failures
  /\ frame[t].op \in {"close", "drop"}
       => /\ frame[t].file \in Files \ {cwd}
          /\ frame[t].fd \in HostFDs
          /\ localFD[frame[t].file] \in {frame[t].fd, -1}

LEMMA FramesOKByThread ==
  /\ FramesOK <=> \A t \in Threads : FrameOK(t)
  /\ FramesOK' <=> \A t \in Threads : FrameOK(t)'
  BY DEF FramesOK, FrameOK

\* A frame that a step leaves alone stays right when m_cwd can only become a
\* new File and m_localFD of an old one only -1.
LEMMA FrameKept ==
  ASSUME NEW u \in Threads, FrameOK(u), frame'[u] = frame[u],
         Files \subseteq Files', cwd' = cwd \/ cwd' \notin Files,
         \A v \in Files : localFD'[v] \in {localFD[v], -1}
  PROVE  FrameOK(u)'
  BY DEF FrameOK, Answered

LEMMA FramesStep ==
  ASSUME TypeOK, FramesOK, CwdOutsideTable, NEW t \in Threads, Step(t)
  PROVE  FramesOK' /\ CwdOutsideTable'
  <1> SUFFICES (\A u \in Threads : FrameOK(u)') /\ CwdOutsideTable'
    BY FramesOKByThread
  <1>0. /\ \A u \in Threads : FrameOK(u)
        /\ openFiles \subseteq Files /\ cwd \in Files /\ cwd \notin openFiles
        /\ frame \in [Threads -> Frames \cup {NoFrame}]
        /\ localFD \in [Files -> LocalFDs]
    BY FramesOKByThread DEF TypeOK, CwdOutsideTable
  <1>1. CASE Quiet
    BY <1>0, <1>1, FrameKept, SameFiles DEF Quiet, CwdOutsideTable
  <1>a. ASSUME nextFD' = nextFD, cwd' = cwd, openFiles' \subseteq openFiles,
               \A v \in Files : localFD'[v] \in {localFD[v], -1},
               \A u \in Threads \ {t} : frame'[u] = frame[u], FrameOK(t)'
        PROVE  (\A u \in Threads : FrameOK(u)') /\ CwdOutsideTable'
    BY <1>0, <1>a, FrameKept, SameFiles DEF CwdOutsideTable
  <1>2. CASE PlainFrame(t)
    <2>1. PICK r \in PlainRecords : SetFrame(t, r)
      BY <1>2 DEF PlainFrame
    <2>2. frame'[t] = r /\ \A u \in Threads \ {t} : frame'[u] = frame[u]
      BY <1>0, <2>1 DEF SetFrame
    <2>3. FrameOK(t)'
      BY <2>2 DEF FrameOK, Answered, PlainRecords
    <2> QED BY <1>2, <1>a, <2>2, <2>3 DEF PlainFrame
  <1>3. ASSUME NEW v \in openFiles, AskClose(t, v)
        PROVE  (\A u \in Threads : FrameOK(u)') /\ CwdOutsideTable'
    <2>1. /\ frame'[t] = [op |-> "close", file |-> v, fd |-> localFD[v], at |-> 0,
                          phase |-> "asked", res |-> 0]
          /\ \A u \in Threads \ {t} : frame'[u] = frame[u]
      BY <1>0, <1>3 DEF AskClose, SetFrame
    <2>2. FrameOK(t)'
      BY <1>0, <1>3, <2>1, SameFiles DEF FrameOK, Answered, AskClose
    <2> QED BY <1>3, <1>a, <2>1, <2>2 DEF AskClose
  <1>4. ASSUME NEW v \in openFiles, EraseDead(v)
        PROVE  (\A u \in Threads : FrameOK(u)') /\ CwdOutsideTable'
    BY <1>0, <1>4, FrameKept, SameFiles DEF EraseDead, CwdOutsideTable
  <1>b. ASSUME NEW res \in Int, frame[t] # NoFrame, Resolve(t, res),
               frame[t].op \in {"open", "chdir"} => res \in HostFDs \cup Failures
        PROVE  (\A u \in Threads : FrameOK(u)') /\ CwdOutsideTable'
    <2>1. /\ frame'[t] = [frame[t] EXCEPT !.phase = "answered", !.res = res]
          /\ \A u \in Threads \ {t} : frame'[u] = frame[u]
          /\ frame[t] \in Frames
      BY <1>0, <1>b, ResolveType
    <2>2. /\ frame'[t].op = frame[t].op /\ frame'[t].file = frame[t].file
          /\ frame'[t].fd = frame[t].fd /\ frame'[t].res = res
      BY <2>1 DEF Frames
    <2>3. FrameOK(t)'
      BY <1>0, <1>b, <2>2, SameFiles DEF FrameOK, Answered, Resolve, table
    <2> QED BY <1>b, <1>a, <2>1, <2>3 DEF Resolve, table
  <1>5. CASE HostOpens(t)
    <2>1. frame[t] # NoFrame
      BY <1>5 DEF HostOpens, Asked, NoFrame
    <2>2. PICK res \in HostFDs \cup Failures : Resolve(t, res)
      BY <1>5 DEF HostOpens, Failures
    <2> QED BY <1>b, <2>1, <2>2, Assumptions
  <1>6. CASE HostCloses(t)
    <2>1. frame[t] # NoFrame /\ frame[t].op \notin {"open", "chdir"}
      BY <1>6 DEF HostCloses, Asked, NoFrame
    <2>2. PICK res \in Int : Resolve(t, res)
      <3>1. -EBADF \in Int /\ 0 \in Int
        BY DEF EBADF
      <3> QED BY <1>6, <3>1, Assumptions DEF HostCloses
    <2> QED BY <1>b, <2>1, <2>2
  <1>7. CASE HostTransfers(t)
    <2>1. frame[t] # NoFrame /\ frame[t].op \notin {"open", "chdir"}
      BY <1>7 DEF HostTransfers, Asked, NoFrame
    <2>2. PICK res \in Int : Resolve(t, res)
      BY <1>7, ErrnosAssumption, BoundsAssumption DEF HostTransfers
    <2> QED BY <1>b, <2>1, <2>2
  <1>8. CASE FinishClose(t) \/ FinishDrop(t)
    <2>1. frame'[t] = NoFrame /\ \A u \in Threads \ {t} : frame'[u] = frame[u]
      BY <1>0, <1>8 DEF FinishClose, FinishDrop, Pop
    <2>2. FrameOK(t)'
      BY <2>1 DEF FrameOK, Answered, NoFrame
    <2>3. \A v \in Files : localFD'[v] \in {localFD[v], -1}
      BY <1>0, <1>8 DEF FinishClose, FinishDrop
    <2> QED BY <1>8, <1>a, <2>1, <2>2, <2>3 DEF FinishClose, FinishDrop
  <1>9. CASE FinishOpen(t) \/ FinishChdir(t)
    <2> DEFINE res == frame[t].res
    <2>1. res \in LocalFDs /\ MakeFile(res)
      BY <1>0, <1>9, Assumptions DEF FinishOpen, FinishChdir, Returning, FrameOK
    <2>2. /\ Files' = Files \cup {nextFD} /\ nextFD \notin Files
          /\ \A v \in Files : localFD'[v] = localFD[v]
      BY <2>1, MoreFiles
    <2>3. cwd' = cwd \/ cwd' = nextFD
      BY <1>9 DEF FinishOpen, FinishChdir
    <2>4. \A u \in Threads \ {t} : frame'[u] = frame[u]
      BY <1>0, <1>9 DEF FinishOpen, FinishChdir, Pop
    <2>5. \A u \in Threads \ {t} : FrameOK(u)'
      BY <1>0, <2>2, <2>3, <2>4, FrameKept
    <2>6. FrameOK(t)'
      <3>1. CASE frame'[t] = NoFrame
        BY <3>1 DEF FrameOK, Answered, NoFrame
      <3>2. CASE FinishChdir(t) /\ localFD[cwd] > 0
        <4>1. frame'[t] = [op |-> "drop", file |-> cwd, fd |-> localFD[cwd],
                           at |-> 0, phase |-> "asked", res |-> 0]
          BY <1>0, <3>2 DEF FinishChdir
        <4>2. localFD[cwd] \in HostFDs /\ cwd' = nextFD
          BY <1>0, <3>2, LiveIsHostFD DEF FinishChdir
        <4> QED BY <1>0, <2>2, <4>1, <4>2 DEF FrameOK, Answered
      <3> QED BY <1>0, <1>9, <3>1, <3>2 DEF FinishOpen, FinishChdir, Pop
    <2>7. CwdOutsideTable'
      BY <1>0, <1>9, <2>2 DEF CwdOutsideTable, FinishOpen, FinishChdir
    <2> QED BY <2>5, <2>6, <2>7
  <1> QED
    BY <1>1, <1>2, <1>3, <1>4, <1>5, <1>6, <1>7, <1>8, <1>9, StepKinds

-----------------------------------------------------------------------------
(* No host descriptor is lost.                                             *)

\* Ownership survives a step that leaves the owner alone.
LEMMA OwnerKept ==
  ASSUME NEW t \in Threads, NEW f, Owned(f),
         \A v \in openFiles \cup {cwd} :
           localFD[v] = f /\ ~Closed(v) => v \in openFiles' \cup {cwd'}
                                           /\ localFD'[v] = f /\ ~Closed(v)',
         \A u \in Threads \ {t} : frame'[u] = frame[u],
         ~Answered(t, "open"), ~Answered(t, "chdir"), ~Asked(t, "drop")
  PROVE  Owned(f)'
  BY DEF Owned, Asked, Answered

\* No frame that closes v appears as answered.
LEMMA ClosedKept ==
  ASSUME NEW t \in Threads, NEW v, ~Closed(v),
         \A u \in Threads \ {t} : frame'[u] = frame[u],
         ~(frame'[t].op \in {"close", "drop"} /\ frame'[t].phase = "answered"
             /\ frame'[t].file = v)
  PROVE  ~Closed(v)'
  BY DEF Closed

LEMMA LeakStep ==
  ASSUME TypeOK, FramesOK, CwdOutsideTable, NoHostLeak, NEW t \in Threads, Step(t)
  PROVE  NoHostLeak'
  <1> SUFFICES ASSUME NEW f \in hostOpen' PROVE Owned(f)'
    BY DEF NoHostLeak
  <1>0. /\ \A u \in Threads : FrameOK(u)
        /\ openFiles \subseteq Files /\ cwd \in Files /\ cwd \notin openFiles
        /\ frame \in [Threads -> Frames \cup {NoFrame}]
        /\ localFD \in [Files -> LocalFDs]
        /\ hostOpen \subseteq HostFDs
        /\ \A g \in hostOpen : Owned(g) /\ g > 0
    BY FramesOKByThread, Assumptions DEF TypeOK, CwdOutsideTable, NoHostLeak
  <1>1. CASE Quiet
    BY <1>0, <1>1 DEF Quiet, Owned, Closed, Asked, Answered
  <1>2. CASE PlainFrame(t)
    <2>1. PICK r \in PlainRecords : SetFrame(t, r)
      BY <1>2 DEF PlainFrame
    <2>2. frame'[t] = r /\ \A u \in Threads \ {t} : frame'[u] = frame[u]
      BY <1>0, <2>1 DEF SetFrame
    <2>3. f \in hostOpen /\ Owned(f)
      BY <1>0, <1>2 DEF PlainFrame
    <2>4. \A v : ~Closed(v) => ~Closed(v)'
      BY <2>2, ClosedKept DEF PlainRecords
    <2>5. ~Answered(t, "open") /\ ~Answered(t, "chdir") /\ ~Asked(t, "drop")
      BY <1>2 DEF PlainFrame, Answered, Asked
    <2> QED BY <1>2, <2>2, <2>3, <2>4, <2>5, OwnerKept DEF PlainFrame
  <1>3. ASSUME NEW v \in openFiles, AskClose(t, v)
        PROVE  Owned(f)'
    <2>1. /\ frame'[t] = [op |-> "close", file |-> v, fd |-> localFD[v], at |-> 0,
                          phase |-> "asked", res |-> 0]
          /\ \A u \in Threads \ {t} : frame'[u] = frame[u]
      BY <1>0, <1>3 DEF AskClose, SetFrame
    <2>2. f \in hostOpen /\ Owned(f)
      BY <1>0, <1>3 DEF AskClose
    <2>3. \A w : ~Closed(w) => ~Closed(w)'
      BY <2>1, ClosedKept
    <2>4. ~Answered(t, "open") /\ ~Answered(t, "chdir") /\ ~Asked(t, "drop")
      BY <1>3 DEF AskClose, Answered, Asked, NoFrame
    <2> QED BY <1>3, <2>1, <2>2, <2>3, <2>4, OwnerKept DEF AskClose
  <1>4. ASSUME NEW v \in openFiles, EraseDead(v)
        PROVE  Owned(f)'
    <2>0. f \in hostOpen /\ Owned(f)
      BY <1>0, <1>4 DEF EraseDead
    <2>1. localFD[v] # f
      BY <1>0, <1>4, <2>0, Assumptions DEF EraseDead
    <2> QED BY <1>4, <2>0, <2>1 DEF EraseDead, Owned, Closed, Asked, Answered
  \* An answer of the embedding program.
  <1>a. ASSUME NEW res \in Int, frame[t] # NoFrame, Resolve(t, res)
        PROVE  /\ frame'[t].op = frame[t].op /\ frame'[t].file = frame[t].file
               /\ frame'[t].fd = frame[t].fd /\ frame'[t].res = res
               /\ frame'[t].phase = "answered"
               /\ \A u \in Threads \ {t} : frame'[u] = frame[u]
               /\ UNCHANGED <<openFiles, localFD, cwd>>
    <2>1. /\ frame'[t] = [frame[t] EXCEPT !.phase = "answered", !.res = res]
          /\ \A u \in Threads \ {t} : frame'[u] = frame[u]
          /\ frame[t] \in Frames
      BY <1>0, <1>a, ResolveType
    <2>2. UNCHANGED <<openFiles, localFD, cwd>>
      BY <1>a DEF Resolve, table
    <2> QED BY <2>1, <2>2 DEF Frames
  <1>b. ASSUME NEW res \in Int, frame[t] # NoFrame, Resolve(t, res),
               frame[t].op \notin {"close", "drop"}, frame[t].phase = "asked",
               f \in hostOpen
        PROVE  Owned(f)'
    <2>1. \A v : ~Closed(v) => ~Closed(v)'
      BY <1>a, <1>b, ClosedKept
    <2>2. ~Answered(t, "open") /\ ~Answered(t, "chdir") /\ ~Asked(t, "drop")
      BY <1>b DEF Answered, Asked
    <2> QED BY <1>0, <1>a, <1>b, <2>1, <2>2, OwnerKept
  <1>5. CASE HostOpens(t)
    <2>1. frame[t] # NoFrame /\ frame[t].op \in {"open", "chdir"}
          /\ frame[t].phase = "asked"
      BY <1>5 DEF HostOpens, Asked, NoFrame
    <2>2. PICK res \in HostFDs \cup Failures :
            Resolve(t, res) /\ hostOpen' \subseteq hostOpen \cup {res}
      BY <1>5 DEF HostOpens, Failures
    <2>3. res \in Int
      BY Assumptions
    <2>4. CASE f = res
      BY <1>a, <2>1, <2>2, <2>3, <2>4 DEF Owned, Answered
    <2> QED BY <1>b, <2>1, <2>2, <2>3, <2>4
  <1>6. CASE HostCloses(t)
    <2>1. frame[t] # NoFrame /\ frame[t].op \in {"close", "drop"}
      BY <1>6 DEF HostCloses, Asked, NoFrame
    <2>2. PICK res \in Int : Resolve(t, res)
      <3>1. -EBADF \in Int /\ 0 \in Int
        BY DEF EBADF
      <3> QED BY <1>6, <3>1, Assumptions DEF HostCloses
    <2>3. f \in hostOpen /\ f # frame[t].fd /\ Owned(f) /\ f > 0
      BY <1>0, <1>6 DEF HostCloses
    <2>4. \A v : localFD[v] = f /\ ~Closed(v) => ~Closed(v)'
      <3> SUFFICES ASSUME NEW v, localFD[v] = f, ~Closed(v) PROVE ~Closed(v)'
        OBVIOUS
      <3>1. frame[t].file # v
        BY <1>0, <2>1, <2>3 DEF FrameOK
      <3> QED BY <1>a, <2>1, <2>2, <3>1, ClosedKept
    <2>5. CASE \E v \in openFiles \cup {cwd} : localFD[v] = f /\ ~Closed(v)
      BY <1>a, <2>1, <2>2, <2>4, <2>5 DEF Owned
    <2>6. CASE \E u \in Threads :
                 \/ (Answered(u, "open") \/ Answered(u, "chdir")) /\ frame[u].res = f
                 \/ Asked(u, "drop") /\ frame[u].fd = f
      <3>1. PICK u \in Threads :
                 \/ (Answered(u, "open") \/ Answered(u, "chdir")) /\ frame[u].res = f
                 \/ Asked(u, "drop") /\ frame[u].fd = f
        BY <2>6
      <3>2. u # t
        BY <2>1, <2>3, <3>1 DEF Answered
      <3> QED BY <1>a, <2>1, <2>2, <3>1, <3>2 DEF Owned, Answered, Asked
    <2> QED BY <2>3, <2>5, <2>6 DEF Owned
  <1>7. CASE HostTransfers(t)
    <2>1. frame[t] # NoFrame /\ frame[t].op \notin {"close", "drop"}
          /\ frame[t].phase = "asked"
      BY <1>7 DEF HostTransfers, Asked, NoFrame
    <2>2. PICK res \in Int : Resolve(t, res)
      BY <1>7, ErrnosAssumption, BoundsAssumption DEF HostTransfers
    <2> QED BY <1>7, <1>b, <2>1, <2>2 DEF HostTransfers
  <1>8. CASE FinishClose(t) \/ FinishDrop(t)
    <2> DEFINE v == frame[t].file
    <2>1. frame'[t] = NoFrame /\ \A u \in Threads \ {t} : frame'[u] = frame[u]
      BY <1>0, <1>8 DEF FinishClose, FinishDrop, Pop
    <2>2. f \in hostOpen /\ Owned(f) /\ Closed(v)
      BY <1>0, <1>8 DEF FinishClose, FinishDrop, Returning, Answered, Closed
    <2>3. \A w : ~Closed(w) => ~Closed(w)'
      BY <2>1, ClosedKept DEF NoFrame
    <2>4. ~Answered(t, "open") /\ ~Answered(t, "chdir") /\ ~Asked(t, "drop")
      BY <1>8 DEF FinishClose, FinishDrop, Returning, Answered, Asked
    <2>5. \A w \in openFiles \cup {cwd} :
            w # v => localFD'[w] = localFD[w] /\ w \in openFiles' \cup {cwd'}
      BY <1>0, <1>8 DEF FinishClose, FinishDrop
    <2> QED BY <2>1, <2>2, <2>3, <2>4, <2>5, OwnerKept
  <1>9. CASE FinishOpen(t) \/ FinishChdir(t)
    <2> DEFINE res == frame[t].res
    <2>1. res \in LocalFDs /\ MakeFile(res) /\ f \in hostOpen /\ Owned(f)
          /\ (Answered(t, "open") \/ Answered(t, "chdir"))
      BY <1>0, <1>9, Assumptions DEF FinishOpen, FinishChdir, Returning, FrameOK
    <2>2. /\ nextFD \notin Files /\ localFD'[nextFD] = res
          /\ \A v \in Files : localFD'[v] = localFD[v]
      BY <2>1, MoreFiles
    <2>3. /\ \A u \in Threads \ {t} : frame'[u] = frame[u]
          /\ frame'[t].op \notin {"close", "drop"} \/ frame'[t].phase # "answered"
      <3>1. CASE Pop(t)
        <4>1. frame' = [frame EXCEPT ![t] = NoFrame]
          BY <3>1 DEF Pop
        <4> QED BY <1>0, <4>1 DEF NoFrame
      <3>2. CASE ~Pop(t)
        <4>1. frame' = [frame EXCEPT ![t] =
                [op |-> "drop", file |-> cwd, fd |-> localFD[cwd], at |-> 0,
                 phase |-> "asked", res |-> 0]]
          BY <1>9, <3>2 DEF FinishOpen, FinishChdir
        <4> QED BY <1>0, <4>1
      <3> QED BY <3>1, <3>2
    <2>4. \A v : ~Closed(v) => ~Closed(v)'
      BY <2>3, ClosedKept
    <2>5. nextFD \in openFiles' \cup {cwd'} /\ openFiles \subseteq openFiles'
      BY <1>9 DEF FinishOpen, FinishChdir
    <2>6. ~Closed(nextFD)
      BY <1>0, <2>2 DEF Closed, FrameOK
    <2>7. CASE res = f
      BY <2>2, <2>4, <2>5, <2>6, <2>7 DEF Owned
    <2>8. CASE \E v \in openFiles : localFD[v] = f /\ ~Closed(v)
      BY <1>0, <2>2, <2>4, <2>5, <2>8 DEF Owned
    <2>9. CASE localFD[cwd] = f /\ ~Closed(cwd)
      <3>1. CASE FinishOpen(t)
        BY <1>0, <2>2, <2>4, <2>9, <3>1 DEF FinishOpen, Owned
      <3>2. CASE FinishChdir(t)
        <4>1. frame'[t] = [op |-> "drop", file |-> cwd, fd |-> localFD[cwd],
                           at |-> 0, phase |-> "asked", res |-> 0]
          BY <1>0, <2>1, <2>9, <3>2 DEF FinishChdir
        <4> QED BY <2>9, <4>1 DEF Owned, Asked
      <3> QED BY <1>9, <3>1, <3>2
    <2>10. CASE \E u \in Threads \ {t} :
                 \/ (Answered(u, "open") \/ Answered(u, "chdir")) /\ frame[u].res = f
                 \/ Asked(u, "drop") /\ frame[u].fd = f
      BY <2>3, <2>10 DEF Owned, Answered, Asked
    <2> QED BY <2>1, <2>7, <2>8, <2>9, <2>10 DEF Owned, Answered, Asked
  <1> QED
    BY <1>1, <1>2, <1>3, <1>4, <1>5, <1>6, <1>7, <1>8, <1>9, StepKinds

-----------------------------------------------------------------------------
(* A program with one thread.                                              *)

OneThread == \E t : Threads = {t}

\* The Files whose descriptors the sandbox means to close one day.
Ours == openFiles \cup {cwd}

\* No descriptor has two of them, and each has an open one unless it is being
\* closed.
Distinct == \A v, w \in Ours : localFD[v] > 0 /\ localFD[v] = localFD[w] => v = w
Alive    == \A v \in Ours : localFD[v] > 0 /\ ~Closing(v) => localFD[v] \in hostOpen

\* What the pending handler knows: a descriptor just opened is nobody's yet, one
\* to be closed belongs to its File only, and one m_cwd had to nobody any more.
FrameKnows(t) ==
  /\ (Answered(t, "open") \/ Answered(t, "chdir")) /\ frame[t].res > 0
       => frame[t].res \in hostOpen /\ \A v \in Ours : localFD[v] # frame[t].res
  /\ frame[t].op = "close" => /\ frame[t].file \in openFiles
                              /\ localFD[frame[t].file] = frame[t].fd
  /\ frame[t].op = "drop"  => \A v \in Ours : localFD[v] # frame[t].fd

OnStack == \A t \in Threads : frame[t] # NoFrame => stack # <<>>

Solo == Distinct /\ Alive /\ OnStack /\ \A t \in Threads : FrameKnows(t)

LEMMA OnStackStep ==
  ASSUME TypeOK, OnStack, NEW t, Threads = {t}, Step(t)
  PROVE  OnStack'
  <1> USE DEF Trapped, Waiting, Ask, Pop, Resolve
  <1>a. frame \in [Threads -> Frames \cup {NoFrame}] /\ stack \in Seq(Threads) /\ t \in Threads
    BY DEF TypeOK
  <1>1. ASSUME UNCHANGED <<frame, stack>> PROVE OnStack'
    BY <1>1 DEF OnStack
  <1>2. ASSUME stack' = <<t>> \o stack PROVE OnStack'
    <2>1. stack' # <<>>
      BY <1>a, <1>2
    <2> QED BY <2>1 DEF OnStack
  <1>3. ASSUME frame'[t] = NoFrame PROVE OnStack'
    BY <1>3 DEF OnStack
  <1>4. ASSUME stack' = stack, frame[t] # NoFrame PROVE OnStack'
    BY <1>a, <1>4 DEF OnStack
  <1>5. CASE \E where \in Places : \/ \E op \in {"open", "reply"} : PathCall(t, op, where)
                                  \/ do_chdir(t, where)
    BY <1>1, <1>2, <1>5 DEF PathCall, do_chdir
  <1>6. CASE \E v \in Numbers : getFileThrows(t, v) \/ FileCall(t, v) \/ do_close(t, v) \/ do_read(t, v)
    BY <1>1, <1>2, <1>6 DEF getFileThrows, FileCall, do_close, do_read
  <1>7. CASE (\E v \in Numbers, whence \in {"SET", "CUR", "END"}, o \in Seeks :
                do_lseek(t, v, whence, o)) \/ do_getcwd(t)
    BY <1>1, <1>7 DEF do_lseek, getFileThrows, do_getcwd
  <1>8. CASE HostFinish(t)
    <2>1. frame[t] # NoFrame /\ stack' = stack
      BY <1>8 DEF HostFinish, HostOpens, HostCloses, HostTransfers, Asked, NoFrame
    <2> QED BY <1>4, <2>1
  <1>9. CASE FinishChdir(t)
    <2>1. frame[t] # NoFrame
      BY <1>9 DEF FinishChdir, Returning, Answered, NoFrame
    <2>2. stack' = stack \/ frame'[t] = NoFrame
      BY <1>a, <1>9 DEF FinishChdir
    <2> QED BY <1>3, <1>4, <2>1, <2>2
  <1>10. CASE FinishOpen(t) \/ FinishClose(t) \/ FinishRead(t) \/ FinishReply(t) \/ FinishDrop(t)
    <2>1. frame'[t] = NoFrame
      BY <1>a, <1>10 DEF FinishOpen, FinishClose, FinishRead, FinishReply, FinishDrop
    <2> QED BY <1>3, <2>1
  <1> QED BY <1>5, <1>6, <1>7, <1>8, <1>9, <1>10 DEF Step, Return

LEMMA SoloStep ==
  ASSUME TypeOK, FramesOK, CwdOutsideTable, Distinct, Alive, NEW t, Threads = {t},
         FrameKnows(t), Step(t)
  PROVE  Distinct' /\ Alive' /\ FrameKnows(t)'
  <1>0. /\ FrameOK(t) /\ t \in Threads
        /\ openFiles \subseteq Files /\ cwd \in Files /\ cwd \notin openFiles
        /\ frame \in [Threads -> Frames \cup {NoFrame}]
        /\ localFD \in [Files -> LocalFDs] /\ \A v \in Files : localFD[v] \in Int
    BY FramesOKByThread, Assumptions DEF TypeOK, CwdOutsideTable
  <1>c. /\ \A v : Closing(v) <=> frame[t].op \in {"close", "drop"} /\ frame[t].file = v
        /\ \A v : Closing(v)' <=> frame'[t].op \in {"close", "drop"} /\ frame'[t].file = v
    BY DEF Closing
  <1>1. CASE Quiet
    BY <1>1 DEF Quiet, Distinct, Alive, Ours, Closing, FrameKnows, Answered
  \* The table and the host's descriptors stay; only the frame changes.
  <1>a. ASSUME UNCHANGED <<openFiles, localFD, cwd>>, hostOpen \subseteq hostOpen',
               \A v : Closing(v) => Closing(v)'
        PROVE  Distinct' /\ Alive'
    BY <1>a DEF Distinct, Alive, Ours
  <1>2. CASE PlainFrame(t)
    <2>1. PICK r \in PlainRecords : SetFrame(t, r)
      BY <1>2 DEF PlainFrame
    <2>2. frame'[t] = r /\ r.op \notin {"close", "drop"} /\ r.phase # "answered"
      BY <1>0, <2>1 DEF SetFrame, PlainRecords
    <2>3. frame[t].op \notin {"close", "drop"}
      BY <1>2 DEF PlainFrame, Answered
    <2>4. FrameKnows(t)'
      BY <2>2 DEF FrameKnows, Answered
    <2> QED BY <1>2, <1>a, <1>c, <2>3, <2>4 DEF PlainFrame
  <1>3. ASSUME NEW v \in openFiles, AskClose(t, v)
        PROVE  Distinct' /\ Alive' /\ FrameKnows(t)'
    <2>1. frame'[t] = [op |-> "close", file |-> v, fd |-> localFD[v], at |-> 0,
                       phase |-> "asked", res |-> 0]
      BY <1>0, <1>3 DEF AskClose, SetFrame
    <2>2. frame[t].op = "none"
      BY <1>3 DEF AskClose, NoFrame
    <2>3. FrameKnows(t)'
      BY <1>3, <2>1 DEF FrameKnows, Answered, AskClose
    <2> QED BY <1>3, <1>a, <1>c, <2>2, <2>3 DEF AskClose
  <1>4. ASSUME NEW v \in openFiles, EraseDead(v)
        PROVE  Distinct' /\ Alive' /\ FrameKnows(t)'
    <2>1. Ours' \subseteq Ours /\ UNCHANGED <<localFD, frame, hostOpen>>
          /\ openFiles' = openFiles \ {v} /\ localFD[v] <= 0
      BY <1>4 DEF EraseDead, Ours
    <2>2. Distinct' /\ Alive'
      BY <2>1 DEF Distinct, Alive, Closing
    <2>3. frame[t].op = "close" => frame[t].file # v
      BY <1>0, <2>1, Assumptions DEF FrameOK, FrameKnows
    <2>4. FrameKnows(t)'
      BY <2>1, <2>3 DEF FrameKnows, Answered
    <2> QED BY <2>2, <2>4
  <1>b. ASSUME NEW res \in Int, frame[t] # NoFrame, Resolve(t, res)
        PROVE  /\ frame'[t].op = frame[t].op /\ frame'[t].file = frame[t].file
               /\ frame'[t].fd = frame[t].fd /\ frame'[t].res = res
               /\ UNCHANGED <<openFiles, localFD, cwd>> /\ Ours' = Ours
    <2>1. /\ frame'[t] = [frame[t] EXCEPT !.phase = "answered", !.res = res]
          /\ frame[t] \in Frames
      BY <1>0, <1>b, ResolveType
    <2>2. /\ frame'[t].op = frame[t].op /\ frame'[t].file = frame[t].file
          /\ frame'[t].fd = frame[t].fd /\ frame'[t].res = res
      BY <2>1 DEF Frames
    <2> QED BY <1>b, <2>2 DEF Resolve, table, Ours
  <1>5. CASE HostOpens(t)
    <2>1. frame[t] # NoFrame /\ frame[t].op \in {"open", "chdir"}
      BY <1>5 DEF HostOpens, Asked, NoFrame
    <2>2. PICK res \in Int : /\ Resolve(t, res)
                             /\ \/ res \in HostFDs \ hostOpen /\ hostOpen' = hostOpen \cup {res}
                                \/ res < 0 /\ hostOpen' = hostOpen
      <3>1. CASE \E f \in HostFDs \ hostOpen :
                   hostOpen' = hostOpen \cup {f} /\ Resolve(t, f)
        BY <3>1, Assumptions
      <3>2. CASE \E e \in Errnos : Resolve(t, -e) /\ UNCHANGED hostOpen
        <4>1. PICK e \in Errnos : Resolve(t, -e) /\ UNCHANGED hostOpen
          BY <3>2
        <4>2. -e \in Int /\ -e < 0
          BY ErrnosAssumption
        <4> QED BY <4>1, <4>2
      <3> QED BY <1>5, <3>1, <3>2 DEF HostOpens
    <2>3. /\ frame'[t].op = frame[t].op /\ frame'[t].file = frame[t].file
          /\ frame'[t].fd = frame[t].fd /\ frame'[t].res = res
          /\ UNCHANGED <<openFiles, localFD, cwd>> /\ Ours' = Ours
      BY <1>b, <2>1, <2>2
    <2>4. \A v : ~Closing(v) /\ ~Closing(v)'
      BY <1>c, <2>1, <2>3
    <2>5. res > 0 => \A v \in Ours : localFD[v] # res
      BY <1>0, <2>2, <2>4 DEF Alive, Ours
    <2>6. FrameKnows(t)'
      BY <2>1, <2>2, <2>3, <2>5 DEF FrameKnows
    <2> QED BY <1>a, <2>2, <2>3, <2>4, <2>6
  <1>6. CASE HostCloses(t)
    <2>1. frame[t] # NoFrame /\ frame[t].op \in {"close", "drop"}
          /\ hostOpen' = hostOpen \ {frame[t].fd}
      BY <1>6 DEF HostCloses, Asked, NoFrame
    <2>2. PICK res \in Int : Resolve(t, res)
      <3>1. -EBADF \in Int /\ 0 \in Int
        BY DEF EBADF
      <3> QED BY <1>6, <3>1, Assumptions DEF HostCloses
    <2>3. /\ frame'[t].op = frame[t].op /\ frame'[t].file = frame[t].file
          /\ frame'[t].fd = frame[t].fd
          /\ UNCHANGED <<openFiles, localFD, cwd>> /\ Ours' = Ours
      BY <1>b, <2>1, <2>2
    <2>4. \A v \in Ours : localFD[v] = frame[t].fd => frame[t].op = "close" /\ frame[t].file = v
      BY <1>0, <2>1, Assumptions DEF FrameKnows, FrameOK, Distinct, Ours
    <2>5. Distinct'
      BY <2>3 DEF Distinct
    <2>6. Alive'
      BY <1>c, <2>1, <2>3, <2>4 DEF Alive
    <2>7. FrameKnows(t)'
      BY <2>1, <2>3 DEF FrameKnows, Answered
    <2> QED BY <2>5, <2>6, <2>7
  <1>7. CASE HostTransfers(t)
    <2>1. frame[t] # NoFrame /\ frame[t].op \in {"read", "reply"} /\ hostOpen' = hostOpen
      BY <1>7 DEF HostTransfers, Asked, NoFrame
    <2>2. PICK res \in Int : Resolve(t, res)
      BY <1>7, ErrnosAssumption, BoundsAssumption DEF HostTransfers
    <2>3. /\ frame'[t].op = frame[t].op /\ UNCHANGED <<openFiles, localFD, cwd>>
      BY <1>b, <2>1, <2>2
    <2>4. FrameKnows(t)'
      BY <2>1, <2>3 DEF FrameKnows, Answered
    <2> QED BY <1>a, <1>c, <2>1, <2>3, <2>4
  <1>8. CASE FinishClose(t)
    <2>1. /\ frame[t].op = "close" /\ frame'[t] = NoFrame
          /\ openFiles' = openFiles \ {frame[t].file} /\ UNCHANGED <<cwd, hostOpen>>
      BY <1>0, <1>8 DEF FinishClose, Returning, Answered, Pop
    <2>2. \A v \in Ours' : v \in Ours /\ localFD'[v] = localFD[v] /\ ~Closing(v)
      BY <1>0, <1>8, <1>c, <2>1 DEF FinishClose, FrameOK, Ours
    <2>3. Distinct' /\ Alive'
      BY <2>1, <2>2 DEF Distinct, Alive
    <2>4. FrameKnows(t)'
      BY <2>1 DEF FrameKnows, Answered, NoFrame
    <2> QED BY <2>3, <2>4
  <1>9. CASE FinishDrop(t)
    <2>1. /\ frame[t].op = "drop" /\ frame'[t] = NoFrame /\ UNCHANGED <<openFiles, cwd, hostOpen>>
          /\ localFD' = [localFD EXCEPT ![frame[t].file] = -1]
      BY <1>0, <1>9 DEF FinishDrop, Returning, Answered, Pop
    <2>2. \A v \in Ours : localFD'[v] \in {localFD[v], -1} /\ (Closing(v) => localFD'[v] = -1)
      BY <1>0, <1>c, <2>1 DEF Ours
    <2>3. Distinct'
      BY <1>0, <2>1, <2>2 DEF Distinct, Ours
    <2>4. Alive'
      BY <1>0, <2>1, <2>2 DEF Alive, Ours
    <2>5. FrameKnows(t)'
      BY <2>1 DEF FrameKnows, Answered, NoFrame
    <2> QED BY <2>3, <2>4, <2>5
  <1>10. CASE FinishOpen(t) \/ FinishChdir(t)
    <2> DEFINE res == frame[t].res
    <2>1. res \in LocalFDs /\ res \in Int /\ MakeFile(res) /\ hostOpen' = hostOpen
          /\ frame[t].op \in {"open", "chdir"}
          /\ (Answered(t, "open") \/ Answered(t, "chdir"))
      BY <1>0, <1>10, Assumptions DEF FinishOpen, FinishChdir, Returning, FrameOK, Answered
    <2>2. /\ nextFD \notin Files /\ localFD'[nextFD] = res
          /\ \A v \in Files : localFD'[v] = localFD[v]
      BY <2>1, MoreFiles
    <2>3. /\ \A v \in Ours : v \in Files /\ v # nextFD /\ localFD'[v] = localFD[v] /\ ~Closing(v)
          /\ res > 0 => res \in hostOpen /\ \A v \in Ours : localFD[v] # res
      BY <1>0, <1>c, <2>1, <2>2 DEF Ours, FrameKnows
    <2>4. Ours' \subseteq Ours \cup {nextFD}
      BY <1>10 DEF FinishOpen, FinishChdir, Ours
    <2>5. Distinct'
      BY <2>2, <2>3, <2>4 DEF Distinct
    <2>6. Alive'
      BY <2>1, <2>2, <2>3, <2>4 DEF Alive
    <2>7. FrameKnows(t)'
      <3>1. CASE frame'[t] = NoFrame
        BY <3>1 DEF FrameKnows, Answered, NoFrame
      <3>2. CASE FinishChdir(t) /\ localFD[cwd] > 0
        <4>1. /\ frame'[t] = [op |-> "drop", file |-> cwd, fd |-> localFD[cwd],
                              at |-> 0, phase |-> "asked", res |-> 0]
              /\ Ours' = openFiles \cup {nextFD}
          BY <1>0, <3>2 DEF FinishChdir, Ours
        <4>2. \A v \in openFiles : localFD'[v] # localFD[cwd]
          BY <1>0, <2>3, <3>2 DEF Distinct, Ours
        <4>3. localFD'[nextFD] # localFD[cwd]
          BY <2>2, <2>3, <3>2 DEF Ours
        <4> QED BY <4>1, <4>2, <4>3 DEF FrameKnows, Answered
      <3> QED BY <1>0, <1>10, <3>1, <3>2 DEF FinishOpen, FinishChdir, Pop
    <2> QED BY <2>5, <2>6, <2>7
  <1> QED
    BY <1>1, <1>2, <1>3, <1>4, <1>5, <1>6, <1>7, <1>8, <1>9, <1>10, StepKinds

-----------------------------------------------------------------------------
(* The theorems.                                                           *)

LEMMA InitInv == Init => IInv
  <1> SUFFICES ASSUME Init PROVE IInv
    OBVIOUS
  <1>1. TypeOK
    BY InitType
  <1>2. FramesOK /\ CwdOutsideTable
    BY DEF Init, FramesOK, CwdOutsideTable, Answered, NoFrame
  <1>3. NoHostLeak
    BY DEF Init, NoHostLeak, Owned, Closed, NoFrame
  <1> QED BY <1>1, <1>2, <1>3 DEF IInv

LEMMA InvStep == IInv /\ [Next]_vars => IInv'
  <1> SUFFICES ASSUME IInv, [Next]_vars PROVE IInv'
    OBVIOUS
  <1>1. CASE Next
    <2>1. PICK t \in Threads : Step(t)
      BY <1>1, NextIsStep
    <2> QED BY <2>1, TypeStep, FramesStep, LeakStep DEF IInv
  <1>2. CASE UNCHANGED vars
    BY <1>2 DEF vars, IInv, TypeOK, Files, Frames, FramesOK, Answered,
                CwdOutsideTable, NoHostLeak, Owned, Closed, Asked
  <1> QED BY <1>1, <1>2

THEOREM Invariance == Spec => []IInv
  <1> QED BY InitInv, InvStep, PTL DEF Spec

\* Every variable keeps its type: the table, the offsets and the frames only
\* ever hold what the handlers of VFS::handleSyscall can put there.
THEOREM TypeCorrect == Spec => []TypeOK
  <1>1. IInv => TypeOK
    BY DEF IInv
  <1> QED BY <1>1, Invariance, PTL

\* No interleaving of the handlers of any number of threads loses a
\* descriptor of the embedding program (openFile, do_close, setCWD, ~File).
THEOREM HostDescriptorsOwned == Spec => []NoHostLeak
  <1>1. IInv => NoHostLeak
    BY DEF IInv
  <1> QED BY <1>1, Invariance, PTL

\* A closed virtual descriptor number is never given to another File.
THEOREM ClosedNumbersStayClosed == Spec => NumbersNeverReused
  <1>1. ASSUME TypeOK, FramesOK, NEW t \in Threads, Step(t), NEW v \in Files,
               v \notin openFiles
        PROVE  v \notin openFiles'
    <2>1. nextFD \notin Files
      BY DEF TypeOK, Files
    <2>2. openFiles' \subseteq openFiles \cup {nextFD}
      BY <1>1, StepKinds DEF Quiet, PlainFrame, AskClose, EraseDead, HostOpens,
         HostCloses, HostTransfers, Resolve, table, FinishOpen, FinishClose,
         FinishChdir, FinishDrop
    <2> QED BY <1>1, <2>1, <2>2
  <1>2. IInv /\ [Next]_vars
          => [\A v \in Files : v \notin openFiles => v \notin openFiles']_vars
    BY <1>1, NextIsStep DEF IInv
  <1> QED BY <1>2, Invariance, PTL DEF Spec, NumbersNeverReused

LEMMA SoloAlways == ASSUME OneThread PROVE Spec => []Solo
  <1> PICK t : Threads = {t}
    BY DEF OneThread
  <1>1. Init => Solo
    <2> SUFFICES ASSUME Init PROVE Solo
      OBVIOUS
    <2>1. Ours = {FirstVirtualFD} /\ \A u \in Threads : frame[u] = NoFrame
      BY DEF Init, Ours
    <2>2. localFD[FirstVirtualFD] > 0 => localFD[FirstVirtualFD] \in hostOpen
      BY Assumptions DEF Init
    <2>3. Distinct /\ Alive
      BY <2>1, <2>2 DEF Distinct, Alive
    <2>4. OnStack /\ \A u \in Threads : FrameKnows(u)
      BY <2>1 DEF OnStack, FrameKnows, Answered, NoFrame
    <2> QED BY <2>3, <2>4 DEF Solo
  <1>2. IInv /\ Solo /\ [Next]_vars => Solo'
    <2> SUFFICES ASSUME IInv, Solo, [Next]_vars PROVE Solo'
      OBVIOUS
    <2>1. CASE Next
      <3>1. Step(t)
        BY <2>1, NextIsStep
      <3> QED BY <3>1, OnStackStep, SoloStep DEF IInv, Solo
    <2>2. CASE UNCHANGED vars
      BY <2>2 DEF vars, Solo, Distinct, Alive, Ours, Closing, OnStack, FrameKnows, Answered
    <2> QED BY <2>1, <2>2
  <1> QED BY <1>1, <1>2, Invariance, PTL DEF Spec

\* With one thread, whenever no handler is pending the descriptors the embedding
\* program holds open are those of the table and m_cwd, one File each (openFile,
\* do_close, setCWD).
THEOREM DescriptorsMatch == ASSUME OneThread PROVE Spec => []ExactOwnership
  <1>1. IInv /\ Solo => ExactOwnership
    <2> SUFFICES ASSUME IInv, Solo, stack = <<>> PROVE
                   LET live == {v \in Ours : localFD[v] > 0} IN
                     /\ hostOpen = {localFD[v] : v \in live}
                     /\ \A v, w \in live : localFD[v] = localFD[w] => v = w
      BY DEF ExactOwnership, Ours
    <2>1. \A u \in Threads : frame[u] = NoFrame
      BY DEF Solo, OnStack
    <2>2. \A v : ~Closing(v) /\ ~Closed(v)
      BY <2>1 DEF Closing, Closed, NoFrame
    <2>3. ASSUME NEW f \in hostOpen
          PROVE  \E v \in Ours : localFD[v] > 0 /\ localFD[v] = f
      <3>1. Owned(f) /\ f > 0
        BY <2>3, Assumptions DEF IInv, NoHostLeak, TypeOK
      <3> QED BY <2>1, <3>1 DEF Owned, Answered, Asked, NoFrame, Ours
    <2> QED BY <2>2, <2>3 DEF Solo, Distinct, Alive
  <1> QED BY <1>1, SoloAlways, Invariance, PTL

\* With one thread no live File of the table refers to a closed descriptor
\* (File::close, do_close).
THEOREM NoneDangles == ASSUME OneThread PROVE Spec => []NoDanglingFile
  <1>1. Solo => NoDanglingFile
    BY DEF Solo, Alive, Ours, NoDanglingFile
  <1> QED BY <1>1, SoloAlways, PTL

-----------------------------------------------------------------------------
(* With one thread the VFS implements PosixFiles.                          *)

\* The read under way is of an open File and of its descriptor.
ReadKnows ==
  \A t \in Threads : frame[t].op = "read" =>
     frame[t].file \in openFiles /\ localFD[frame[t].file] = frame[t].fd

\* A descriptor that no visible File has starts at 0 when one gets it.
AtZero ==
  \A fd \in HostFDs : (\A v \in VisibleFiles : localFD[v] # fd) => offsets[fd] = 0

\* What a step does to the visible Files and their offsets: nothing, ...
Still ==
  /\ VisibleFiles' = VisibleFiles
  /\ \A v \in VisibleFiles : /\ localFD'[v] = localFD[v]
                             /\ offsets'[localFD[v]] = offsets[localFD[v]]
  /\ \A fd \in HostFDs : offsets'[fd] \in {offsets[fd], 0}

\* ... one more, with a descriptor that none of them has, ...
Appears(v) ==
  /\ v \notin VisibleFiles /\ VisibleFiles' = VisibleFiles \cup {v}
  /\ localFD'[v] \in HostFDs
  /\ \A w \in VisibleFiles : localFD'[w] = localFD[w] /\ localFD[w] # localFD'[v]
  /\ offsets' = offsets
  /\ reply'.returnVal = v

\* ... one less, ...
Vanishes(v) ==
  /\ v \in VisibleFiles /\ VisibleFiles' = VisibleFiles \ {v}
  /\ localFD' = localFD
  /\ offsets' = [offsets EXCEPT ![localFD[v]] = 0]
  /\ reply' = reply

\* ... or one offset set to o, and r reported.
Moves(v, o, r) ==
  /\ v \in VisibleFiles /\ VisibleFiles' = VisibleFiles
  /\ localFD' = localFD
  /\ offsets' = [offsets EXCEPT ![localFD[v]] = o]
  /\ reply'.returnVal = r

Kinds ==
  \/ Still
  \/ \E v \in Int : Appears(v)
  \/ \E v \in openFiles : Vanishes(v)
  \/ \E v \in openFiles, o \in Int : Moves(v, o, 0)
  \/ \E v \in openFiles, n \in Nat : Moves(v, offsets[localFD[v]] + n, n)

\* The steps that ask the embedding program for something, or nothing at all,
\* and its answers leave the visible Files alone.
LEMMA StillWhen ==
  ASSUME TypeOK, NEW t, Threads = {t}, UNCHANGED <<openFiles, localFD, offsets>>,
         \/ frame'[t].op \notin {"close", "drop"} /\ frame[t].op \notin {"close", "drop"}
         \/ frame'[t].op = frame[t].op /\ frame'[t].file = frame[t].file
  PROVE  Still
  <1>1. \A v : Closing(v)' <=> Closing(v)
    BY DEF Closing
  <1> QED BY <1>1 DEF Still, VisibleFiles

LEMMA VisibleStep ==
  ASSUME IInv, Solo, ReadKnows, NEW t, Threads = {t}, Step(t)
  PROVE  Kinds /\ ReadKnows'
  <1>0. /\ FrameOK(t) /\ FrameKnows(t) /\ t \in Threads
        /\ openFiles \subseteq Files /\ cwd \in Files /\ cwd \notin openFiles
        /\ frame \in [Threads -> Frames \cup {NoFrame}]
        /\ localFD \in [Files -> LocalFDs] /\ \A v \in Files : localFD[v] \in Int
        /\ offsets \in [LocalFDs -> Int] /\ nextFD \notin Files /\ TypeOK
        /\ frame[t].op = "read" => /\ frame[t].file \in openFiles
                                   /\ localFD[frame[t].file] = frame[t].fd
    <2>1. TypeOK /\ FramesOK /\ cwd \notin openFiles /\ FrameKnows(t) /\ t \in Threads
      BY DEF IInv, CwdOutsideTable, Solo
    <2>2. nextFD \notin Files
      BY <2>1 DEF TypeOK, Files
    <2>3. localFD \in [Files -> LocalFDs] /\ \A v \in Files : localFD[v] \in Int
      BY <2>1, Assumptions DEF TypeOK
    <2>4. FrameOK(t)
      BY <2>1, FramesOKByThread
    <2> QED BY <2>1, <2>2, <2>3, <2>4 DEF TypeOK, ReadKnows
  <1>c. /\ \A v : Closing(v) <=> frame[t].op \in {"close", "drop"} /\ frame[t].file = v
        /\ \A v : Closing(v)' <=> frame'[t].op \in {"close", "drop"} /\ frame'[t].file = v
    BY DEF Closing
  <1>d. \A v, w \in Ours : localFD[v] > 0 /\ localFD[v] = localFD[w] => v = w
    BY DEF Solo, Distinct
  <1>k. ASSUME frame'[t].op = "read" => /\ frame'[t].file \in openFiles'
                                        /\ localFD'[frame'[t].file] = frame'[t].fd
        PROVE  ReadKnows'
    BY <1>k DEF ReadKnows
  <1>e. ASSUME frame[t] = NoFrame
        PROVE  /\ frame[t].op = "none" /\ \A v : ~Closing(v)
    BY <1>e, <1>c DEF NoFrame
  <1> USE DEF Trapped, Waiting, Ask, table
  <1>1. ASSUME NEW where \in Places, NEW op \in {"open", "reply"}, PathCall(t, op, where)
        PROVE  Still /\ ReadKnows'
    <2>1. UNCHANGED <<openFiles, localFD, offsets>> /\ frame[t] = NoFrame
      BY <1>1 DEF PathCall
    <2>2. frame'[t] = NoFrame \/ frame'[t].op = op
      <3>1. \/ frame' = frame
            \/ frame' = [frame EXCEPT ![t] = [op |-> op, file |-> NoFile, fd |-> 0,
                           at |-> 0, phase |-> "asked", res |-> 0]]
        BY <1>1 DEF PathCall
      <3> QED BY <1>0, <2>1, <3>1
    <2>3. frame'[t].op \notin {"close", "drop", "read"}
      BY <2>2 DEF NoFrame
    <2> QED BY <1>0, <1>e, <1>k, <2>1, <2>3, StillWhen
  <1>2. ASSUME NEW where \in Places, do_chdir(t, where)
        PROVE  Still /\ ReadKnows'
    <2>1. UNCHANGED <<openFiles, localFD, offsets>> /\ frame[t] = NoFrame
      BY <1>2 DEF do_chdir
    <2>2. frame'[t] = NoFrame \/ frame'[t].op = "chdir"
      <3>1. \/ frame' = frame
            \/ frame' = [frame EXCEPT ![t] = [op |-> "chdir", file |-> NoFile, fd |-> 0,
                           at |-> 0, phase |-> "asked", res |-> 0]]
        BY <1>2 DEF do_chdir
      <3> QED BY <1>0, <2>1, <3>1
    <2>3. frame'[t].op \notin {"close", "drop", "read"}
      BY <2>2 DEF NoFrame
    <2> QED BY <1>0, <1>e, <1>k, <2>1, <2>3, StillWhen
  <1>3. ASSUME NEW v, getFileThrows(t, v) \/ do_getcwd(t)
        PROVE  Still /\ ReadKnows'
    <2>1. UNCHANGED <<openFiles, localFD, offsets, frame>>
      BY <1>3 DEF getFileThrows, do_getcwd
    <2> QED BY <1>0, <1>k, <2>1, StillWhen
  <1>4. ASSUME NEW v \in Numbers, FileCall(t, v) \/ do_read(t, v), v \in openFiles
        PROVE  Still /\ ReadKnows'
    <2>1. UNCHANGED <<openFiles, localFD, offsets>> /\ frame[t] = NoFrame
      BY <1>4 DEF FileCall, do_read, getFileThrows
    <2>2. PICK op \in {"reply", "read"}, at \in Int :
            frame'[t] = [op |-> op, file |-> v, fd |-> localFD[v], at |-> at,
                         phase |-> "asked", res |-> 0]
      <3>1. localFD[v] \in LocalFDs /\ offsets[localFD[v]] \in Int
        BY <1>0, <1>4
      <3>2. PICK op \in {"reply", "read"}, at \in Int : Ask(t, op, v, localFD[v], at)
        BY <1>4, <3>1 DEF FileCall, do_read, getFileThrows
      <3> QED BY <1>0, <3>2
    <2> QED BY <1>0, <1>4, <1>e, <1>k, <2>1, <2>2, StillWhen
  <1>5. ASSUME NEW v \in openFiles, do_close(t, v)
        PROVE  Kinds /\ ReadKnows'
    <2>0. frame[t] = NoFrame /\ localFD' = localFD /\ \A w : ~Closing(w)
      BY <1>5, <1>e DEF do_close, getFileThrows
    <2>1. CASE localFD[v] > 0
      <3>1. /\ offsets' = [offsets EXCEPT ![localFD[v]] = 0]
            /\ UNCHANGED <<openFiles, reply>>
            /\ frame'[t] = [op |-> "close", file |-> v, fd |-> localFD[v], at |-> 0,
                            phase |-> "asked", res |-> 0]
        <4>0. ~(localFD[v] <= 0)
          <5>1. localFD[v] \in Int
            BY <1>0
          <5> QED BY <2>1, <5>1
        <4> HIDE DEF Ask
        <4>1. /\ Ask(t, "close", v, localFD[v], 0)
              /\ offsets' = [offsets EXCEPT ![localFD[v]] = 0]
              /\ UNCHANGED <<openFiles, reply>>
          BY <1>5, <4>0 DEF do_close, getFileThrows
        <4> QED BY <1>0, <4>1 DEF Ask
      <3>2. \A w : Closing(w)' <=> w = v
        BY <1>c, <3>1
      <3>3. Vanishes(v)
        BY <2>0, <2>1, <3>1, <3>2 DEF Vanishes, VisibleFiles
      <3> QED BY <1>k, <3>1, <3>3 DEF Kinds
    <2>2. CASE ~(localFD[v] > 0)
      <3>1. openFiles' = openFiles \ {v} /\ UNCHANGED <<offsets, frame>>
        BY <1>5, <2>2 DEF do_close, getFileThrows
      <3>2. VisibleFiles' = VisibleFiles
        BY <1>c, <2>0, <2>2, <3>1 DEF VisibleFiles
      <3>3. Still
        BY <2>0, <3>1, <3>2 DEF Still
      <3> QED BY <1>e, <1>k, <2>0, <3>1, <3>3 DEF Kinds
    <2> QED BY <2>1, <2>2
  <1>6. ASSUME NEW v \in openFiles, NEW whence \in {"SET", "CUR", "END"}, NEW o \in Seeks,
               do_lseek(t, v, whence, o)
        PROVE  Kinds /\ ReadKnows'
    <2>0. /\ frame[t] = NoFrame /\ UNCHANGED <<openFiles, localFD, frame>>
          /\ \A w : ~Closing(w)
      BY <1>6, <1>e DEF do_lseek, getFileThrows
    <2>1. VisibleFiles' = VisibleFiles /\ ReadKnows'
      BY <1>0, <1>c, <1>k, <2>0 DEF VisibleFiles
    <2>2. CASE offsets' = offsets
      BY <2>0, <2>1, <2>2 DEF Still, Kinds
    <2>3. CASE offsets' # offsets
      <3>1. PICK p \in Int : /\ offsets' = [offsets EXCEPT ![localFD[v]] = p]
                             /\ Reply(t, 0, FALSE)
        <4>1. o \in Int /\ offsets[localFD[v]] + o \in Int
          BY <1>0, BoundsAssumption
        <4>2. \/ offsets' = [offsets EXCEPT ![localFD[v]] = o] /\ Reply(t, 0, FALSE)
              \/ /\ offsets' = [offsets EXCEPT ![localFD[v]] = offsets[localFD[v]] + o]
                 /\ Reply(t, 0, FALSE)
          BY <1>6, <2>3 DEF do_lseek, getFileThrows
        <4> QED BY <4>1, <4>2
      <3>2. CASE localFD[v] > 0
        <4>1. v \in VisibleFiles
          BY <2>0, <3>2 DEF VisibleFiles
        <4>2. Moves(v, p, 0)
          BY <2>0, <2>1, <3>1, <4>1 DEF Moves, Reply
        <4> QED BY <2>1, <4>2 DEF Kinds
      <3>3. CASE ~(localFD[v] > 0)
        <4>1. \A fd \in HostFDs : fd # localFD[v]
          BY <3>3, Assumptions
        <4>2. \A w \in VisibleFiles : localFD[w] # localFD[v] /\ localFD[w] \in LocalFDs
          BY <1>0, <3>3 DEF VisibleFiles
        <4>3. Still
          BY <1>0, <2>0, <2>1, <3>1, <4>1, <4>2, Assumptions DEF Still
        <4> QED BY <2>1, <4>3 DEF Kinds
      <3> QED BY <3>2, <3>3
    <2> QED BY <2>2, <2>3
  <1>7. ASSUME HostFinish(t)
        PROVE  Still /\ ReadKnows'
    <2>1. frame[t] # NoFrame
      BY <1>7 DEF HostFinish, HostOpens, HostCloses, HostTransfers, Asked, NoFrame
    <2>2. PICK res : Resolve(t, res)
      BY <1>7 DEF HostFinish, HostOpens, HostCloses, HostTransfers
    <2>3. /\ frame[t] \in Frames /\ UNCHANGED <<openFiles, localFD, offsets>>
          /\ frame'[t] = [frame[t] EXCEPT !.phase = "answered", !.res = res]
      BY <1>0, <2>1, <2>2 DEF Resolve
    <2>4. /\ frame'[t].op = frame[t].op /\ frame'[t].file = frame[t].file
          /\ frame'[t].fd = frame[t].fd
      BY <2>3 DEF Frames
    <2> QED BY <1>0, <1>k, <2>3, <2>4, StillWhen
  <1>p. ASSUME Pop(t)
        PROVE  frame'[t] = NoFrame /\ frame'[t].op = "none" /\ (\A v : ~Closing(v)') /\ ReadKnows'
    <2>1. frame'[t] = NoFrame
      BY <1>0, <1>p DEF Pop
    <2>2. frame'[t].op = "none"
      BY <2>1 DEF NoFrame
    <2> QED BY <1>c, <1>k, <2>1, <2>2
  <1>8. CASE FinishOpen(t)
    <2> DEFINE res == frame[t].res
    <2>1. /\ res \in LocalFDs /\ res \in Int /\ MakeFile(res) /\ Pop(t)
          /\ openFiles' = openFiles \cup {nextFD} /\ offsets' = offsets
          /\ Answered(t, "open") /\ Reply(t, nextFD, FALSE)
      BY <1>0, <1>8, Assumptions DEF FinishOpen, Returning, FrameOK
    <2>2. /\ localFD'[nextFD] = res /\ nextFD \in Int
          /\ \A v \in Files : localFD'[v] = localFD[v]
      BY <1>0, <2>1, MoreFiles DEF TypeOK
    <2>3. \A v : ~Closing(v) /\ ~Closing(v)'
      BY <1>c, <1>p, <2>1 DEF Answered
    <2>4. CASE res > 0
      <3>1. res \in HostFDs /\ \A v \in Ours : localFD[v] # res
        BY <1>0, <2>1, <2>4, LiveIsHostFD DEF FrameKnows
      <3>2. nextFD \notin VisibleFiles /\ VisibleFiles' = VisibleFiles \cup {nextFD}
        BY <1>0, <2>1, <2>2, <2>3, <2>4 DEF VisibleFiles
      <3>3. \A w \in VisibleFiles : localFD'[w] = localFD[w] /\ localFD[w] # res
        BY <1>0, <2>2, <3>1 DEF VisibleFiles, Ours
      <3>4. Appears(nextFD)
        BY <2>1, <2>2, <3>1, <3>2, <3>3 DEF Appears, Reply
      <3> QED BY <1>p, <2>1, <2>2, <3>4 DEF Kinds
    <2>5. CASE ~(res > 0)
      <3>1. VisibleFiles' = VisibleFiles
        BY <1>0, <2>1, <2>2, <2>3, <2>5 DEF VisibleFiles
      <3>2. Still
        BY <1>0, <2>1, <2>2, <3>1 DEF Still, VisibleFiles
      <3> QED BY <1>p, <2>1, <3>2 DEF Kinds
    <2> QED BY <2>4, <2>5
  <1>9. CASE FinishClose(t)
    <2>1. /\ Pop(t) /\ Closing(frame[t].file) /\ offsets' = offsets
          /\ openFiles' = openFiles \ {frame[t].file}
          /\ localFD' = [localFD EXCEPT ![frame[t].file] = -1]
          /\ \A v \in openFiles : Closing(v) => v = frame[t].file
      BY <1>c, <1>9 DEF FinishClose, Returning, Answered
    <2>2. \A v \in openFiles \ {frame[t].file} : localFD'[v] = localFD[v]
      BY <1>0, <2>1
    <2>3. VisibleFiles' = VisibleFiles /\ frame[t].file \notin VisibleFiles
      BY <1>p, <2>1, <2>2 DEF VisibleFiles
    <2>4. Still
      BY <2>1, <2>2, <2>3 DEF Still, VisibleFiles
    <2> QED BY <1>p, <2>1, <2>4 DEF Kinds
  <1>10. CASE FinishRead(t)
    <2> DEFINE v == frame[t].file
               n == frame[t].res
    <2>1. /\ Pop(t) /\ v \in openFiles /\ localFD[v] = frame[t].fd
          /\ UNCHANGED <<openFiles, localFD>> /\ \A w : ~Closing(w) /\ ~Closing(w)'
      BY <1>0, <1>c, <1>p, <1>10 DEF FinishRead, Returning, Answered
    <2>2. VisibleFiles' = VisibleFiles
      BY <2>1 DEF VisibleFiles
    <2>3. \/ offsets' = offsets
          \/ /\ n >= 0 /\ offsets' = [offsets EXCEPT ![frame[t].fd] = @ + n]
             /\ Reply(t, n, FALSE)
      BY <1>10 DEF FinishRead
    <2>4. n \in Int
      <3>1. frame[t] # NoFrame
        BY <1>10 DEF FinishRead, Returning, Answered, NoFrame
      <3> QED BY <1>0, <3>1 DEF Frames, Results
    <2>5. CASE offsets' = offsets
      <3>1. Still
        BY <2>1, <2>2, <2>5 DEF Still
      <3> QED BY <1>p, <2>1, <3>1 DEF Kinds
    <2>6. CASE /\ n >= 0 /\ Reply(t, n, FALSE) /\ localFD[v] > 0
               /\ offsets' = [offsets EXCEPT ![localFD[v]] = @ + n]
      <3>1. v \in VisibleFiles
        BY <2>1, <2>6 DEF VisibleFiles
      <3>2. offsets' = [offsets EXCEPT ![localFD[v]] = offsets[localFD[v]] + n]
        BY <2>6
      <3>3. reply'.returnVal = n
        BY <2>6 DEF Reply
      <3>4. Moves(v, offsets[localFD[v]] + n, n)
        BY <2>1, <2>2, <3>1, <3>2, <3>3 DEF Moves
      <3>5. n \in Nat
        BY <2>4, <2>6
      <3> QED BY <1>p, <2>1, <3>4, <3>5 DEF Kinds
    <2>7. CASE /\ ~(localFD[v] > 0)
               /\ offsets' = [offsets EXCEPT ![localFD[v]] = @ + n]
      <3>1. \A fd \in HostFDs : fd # localFD[v]
        BY <2>7, Assumptions
      <3>2. \A w \in VisibleFiles : localFD[w] # localFD[v] /\ localFD[w] \in LocalFDs
        BY <1>0, <2>7 DEF VisibleFiles
      <3>3. Still
        BY <1>0, <2>1, <2>2, <2>7, <3>1, <3>2, Assumptions DEF Still
      <3> QED BY <1>p, <2>1, <3>3 DEF Kinds
    <2> QED BY <2>1, <2>3, <2>5, <2>6, <2>7
  <1>11. CASE FinishReply(t)
    <2>1. /\ Pop(t) /\ UNCHANGED <<openFiles, localFD, offsets>> /\ frame[t].op = "reply"
      BY <1>11 DEF FinishReply, Returning, Answered
    <2>2. Still
      BY <1>0, <1>p, <2>1, StillWhen
    <2> QED BY <1>p, <2>1, <2>2 DEF Kinds
  <1>12. CASE FinishDrop(t)
    <2>1. /\ Pop(t) /\ frame[t].op = "drop" /\ UNCHANGED <<openFiles, offsets>>
          /\ localFD' = [localFD EXCEPT ![frame[t].file] = -1]
      BY <1>12 DEF FinishDrop, Returning, Answered
    <2>2. frame[t].file \notin VisibleFiles /\ frame[t].file \in Files
      BY <1>0, <1>c, <2>1 DEF VisibleFiles, FrameOK
    <2>3. /\ localFD'[frame[t].file] = -1
          /\ \A v \in openFiles \ {frame[t].file} : localFD'[v] = localFD[v]
      BY <1>0, <2>1, <2>2
    <2>4. VisibleFiles' = VisibleFiles
      BY <1>c, <1>p, <2>1, <2>2, <2>3 DEF VisibleFiles
    <2>5. Still
      BY <2>1, <2>2, <2>3, <2>4 DEF Still, VisibleFiles
    <2> QED BY <1>p, <2>1, <2>5 DEF Kinds
  <1>13. CASE FinishChdir(t)
    <2> DEFINE res == frame[t].res
    <2>1. /\ res \in LocalFDs /\ MakeFile(res) /\ openFiles' = openFiles
          /\ Answered(t, "chdir")
      BY <1>0, <1>13, Assumptions DEF FinishChdir, Returning, FrameOK
    <2>2. \A v \in openFiles : localFD'[v] = localFD[v] /\ ~Closing(v)
      <3>1. \A v \in Files : localFD'[v] = localFD[v]
        BY <1>0, <2>1, MoreFiles
      <3> QED BY <1>0, <1>c, <2>1, <3>1 DEF Answered
    <2>3. \A v \in openFiles : ~Closing(v)'
      <3>1. Pop(t) \/ frame'[t] = [op |-> "drop", file |-> cwd, fd |-> localFD[cwd],
                                   at |-> 0, phase |-> "asked", res |-> 0]
        BY <1>0, <1>13 DEF FinishChdir
      <3> QED BY <1>0, <1>c, <1>p, <3>1
    <2>4. VisibleFiles' = VisibleFiles
      BY <2>1, <2>2, <2>3 DEF VisibleFiles
    <2>5. CASE localFD[cwd] > 0
      <3>1. /\ offsets' = [offsets EXCEPT ![localFD[cwd]] = 0]
            /\ frame'[t] = [op |-> "drop", file |-> cwd, fd |-> localFD[cwd],
                            at |-> 0, phase |-> "asked", res |-> 0]
        BY <1>0, <1>13, <2>5 DEF FinishChdir
      <3>2. \A v \in VisibleFiles : localFD[v] # localFD[cwd] /\ localFD[v] \in LocalFDs
        BY <1>0, <1>d, <2>5 DEF VisibleFiles, Ours
      <3>3. Still
        BY <1>0, <2>2, <2>4, <3>1, <3>2, Assumptions DEF Still, VisibleFiles
      <3> QED BY <1>k, <3>1, <3>3 DEF Kinds
    <2>6. CASE ~(localFD[cwd] > 0)
      <3>1. Pop(t) /\ offsets' = offsets
        BY <1>13, <2>6 DEF FinishChdir
      <3>2. Still
        BY <2>2, <2>4, <3>1 DEF Still, VisibleFiles
      <3> QED BY <1>p, <3>1, <3>2 DEF Kinds
    <2> QED BY <2>5, <2>6
  <1>14. ASSUME NEW v \in Numbers, v \notin openFiles,
                \/ FileCall(t, v) \/ do_read(t, v) \/ do_close(t, v)
                \/ \E whence \in {"SET", "CUR", "END"}, o \in Seeks : do_lseek(t, v, whence, o)
         PROVE  getFileThrows(t, v)
    BY <1>14 DEF FileCall, do_read, do_close, do_lseek
  <1>15. CASE \E v \in Numbers : getFileThrows(t, v) \/ FileCall(t, v) \/ do_close(t, v)
                                 \/ do_read(t, v)
    BY <1>3, <1>4, <1>5, <1>14, <1>15 DEF Kinds
  <1>16. CASE \E v \in Numbers, whence \in {"SET", "CUR", "END"}, o \in Seeks :
                do_lseek(t, v, whence, o)
    BY <1>3, <1>6, <1>14, <1>16 DEF Kinds
  <1> QED
    BY <1>1, <1>2, <1>3, <1>7, <1>8, <1>9, <1>10, <1>11, <1>12, <1>13, <1>15, <1>16
       DEF Step, Return, Kinds

LEMMA AtZeroStep ==
  ASSUME IInv, Solo, AtZero, Kinds
  PROVE  AtZero'
  <1> SUFFICES ASSUME NEW fd \in HostFDs, \A v \in VisibleFiles' : localFD'[v] # fd
               PROVE  offsets'[fd] = 0
    BY DEF AtZero
  <1>0. offsets \in [LocalFDs -> Int] /\ fd \in LocalFDs /\ offsets[fd] \in Int
    BY Assumptions DEF IInv, TypeOK
  <1>1. ASSUME \A v \in VisibleFiles : localFD[v] # fd
        PROVE  offsets[fd] = 0
    BY <1>1 DEF AtZero
  <1>2. CASE Still
    BY <1>0, <1>1, <1>2 DEF Still
  <1>3. ASSUME NEW v, Appears(v) PROVE offsets'[fd] = 0
    BY <1>0, <1>1, <1>3 DEF Appears
  <1>4. ASSUME NEW v, Vanishes(v) PROVE offsets'[fd] = 0
    BY <1>0, <1>1, <1>4 DEF Vanishes
  <1>5. ASSUME NEW v, NEW o, NEW r, Moves(v, o, r) PROVE offsets'[fd] = 0
    BY <1>0, <1>1, <1>5 DEF Moves
  <1> QED BY <1>2, <1>3, <1>4, <1>5 DEF Kinds

\* The offset of a visible File is that of a descriptor it has alone.
LEMMA OneFileEach ==
  ASSUME IInv, Solo, NEW v \in VisibleFiles
  PROVE  /\ localFD[v] \in HostFDs
         /\ offsets \in [LocalFDs -> Int] /\ localFD[v] \in LocalFDs
         /\ \A w \in VisibleFiles : localFD[w] = localFD[v] => w = v
  <1>1. v \in Files /\ localFD[v] \in LocalFDs /\ localFD[v] > 0
    BY DEF IInv, TypeOK, VisibleFiles
  <1>2. localFD[v] \in HostFDs
    BY <1>1, LiveIsHostFD
  <1> QED BY <1>1, <1>2 DEF IInv, TypeOK, Solo, Distinct, Ours, VisibleFiles

Offset == [v \in VisibleFiles |-> offsets[localFD[v]]]
FileTable == <<Offset, reply.returnVal>>

LEMMA PosixStep ==
  ASSUME IInv, Solo, AtZero, Kinds
  PROVE  [Posix!Next]_FileTable
  <1> DEFINE off == [v \in VisibleFiles |-> offsets[localFD[v]]]
             ans == reply.returnVal
  <1>0. FileTable = <<off, ans>>
    BY DEF FileTable, Offset
  <1>1. CASE Still
    <2>1. off' = off
      BY <1>1 DEF Still
    <2>2. Posix!Other
      BY <2>1 DEF Posix!Other
    <2> QED BY <2>2 DEF Posix!Next
  <1>2. ASSUME NEW v \in Int, Appears(v)
        PROVE  Posix!Open
    <2>1. offsets[localFD'[v]] = 0
      BY <1>2 DEF AtZero, Appears
    <2>2. off' = [w \in VisibleFiles \cup {v} |-> IF w = v THEN 0 ELSE off[w]]
      BY <1>2, <2>1 DEF Appears
    <2>3. ans' = v /\ v \notin VisibleFiles /\ DOMAIN off = VisibleFiles
      BY <1>2 DEF Appears
    <2> QED BY <2>2, <2>3 DEF Posix!Open, Posix!Opened
  <1>3. ASSUME NEW v \in openFiles, Vanishes(v)
        PROVE  Posix!Close(v) /\ v \in Posix!Opened
    <2>1. \A w \in VisibleFiles \ {v} : localFD[w] # localFD[v]
      BY <1>3, OneFileEach DEF Vanishes
    <2>2. \A w \in VisibleFiles \ {v} : offsets'[localFD[w]] = offsets[localFD[w]]
      BY <1>3, <2>1, OneFileEach DEF Vanishes
    <2>3. off' = [w \in VisibleFiles \ {v} |-> off[w]]
      BY <1>3, <2>2 DEF Vanishes
    <2>4. ans' = ans /\ v \in VisibleFiles /\ DOMAIN off = VisibleFiles
      BY <1>3 DEF Vanishes
    <2> QED BY <2>3, <2>4 DEF Posix!Close, Posix!Opened
  <1>4. ASSUME NEW v \in openFiles, NEW o \in Int, NEW r, Moves(v, o, r)
        PROVE  /\ off' = [off EXCEPT ![v] = o] /\ ans' = r
               /\ v \in VisibleFiles /\ DOMAIN off = VisibleFiles
               /\ off[v] = offsets[localFD[v]]
    <2>1. \A w \in VisibleFiles \ {v} : localFD[w] # localFD[v]
      BY <1>4, OneFileEach DEF Moves
    <2>2. /\ \A w \in VisibleFiles \ {v} : offsets'[localFD[w]] = offsets[localFD[w]]
          /\ offsets'[localFD[v]] = o
      BY <1>4, <2>1, OneFileEach DEF Moves
    <2>3. off' = [w \in VisibleFiles |-> IF w = v THEN o ELSE off[w]]
      BY <1>4, <2>2 DEF Moves
    <2> QED BY <1>4, <2>3 DEF Moves
  <1>5. ASSUME NEW v \in openFiles, NEW o \in Int, Moves(v, o, 0)
        PROVE  Posix!Seek(v) /\ v \in Posix!Opened
    <2>1. /\ off' = [off EXCEPT ![v] = o] /\ ans' = 0
          /\ v \in VisibleFiles /\ DOMAIN off = VisibleFiles
      BY <1>4, <1>5
    <2> QED BY <2>1 DEF Posix!Seek, Posix!Opened
  <1>6. ASSUME NEW v \in openFiles, NEW n \in Nat, Moves(v, offsets[localFD[v]] + n, n)
        PROVE  Posix!Read(v) /\ v \in Posix!Opened
    <2>0. offsets[localFD[v]] + n \in Int
      BY <1>6, OneFileEach DEF Moves
    <2>1. /\ off' = [off EXCEPT ![v] = off[v] + n] /\ ans' = n
          /\ v \in VisibleFiles /\ DOMAIN off = VisibleFiles
      BY <1>4, <1>6, <2>0
    <2> QED BY <2>1 DEF Posix!Read, Posix!Opened
  <1> QED BY <1>1, <1>2, <1>3, <1>5, <1>6 DEF Kinds, Posix!Next

\* With one thread the table, the offsets kept per host descriptor and the two
\* halves of open, close and read implement the POSIX file table: a step of the
\* handlers moves one offset, by what it reports, or none (do_open, do_close,
\* do_read, do_lseek).
THEOREM FilesArePosix == ASSUME OneThread PROVE Spec => ImplementsPosixFiles
  <1> PICK t : Threads = {t}
    BY DEF OneThread
  <1> DEFINE Known == ReadKnows /\ AtZero
             fileTable == <<[v \in VisibleFiles |-> offsets[localFD[v]]], reply.returnVal>>
  <1>0. FileTable = fileTable /\ FileTable' = fileTable'
    BY DEF FileTable, Offset
  <1>1. Init => Known /\ Posix!Init
    <2> SUFFICES ASSUME Init PROVE Known /\ Posix!Init
      OBVIOUS
    <2>1. VisibleFiles = {}
      BY DEF Init, VisibleFiles
    <2>2. ReadKnows /\ AtZero
      BY Assumptions DEF Init, ReadKnows, AtZero, NoFrame
    <2> QED BY <2>1, <2>2 DEF Posix!Init
  <1>2. IInv /\ Solo /\ Known /\ [Next]_vars => Known' /\ [Posix!Next]_fileTable
    <2> SUFFICES ASSUME IInv, Solo, Known, [Next]_vars
                 PROVE  Known' /\ [Posix!Next]_FileTable
      BY <1>0
    <2>1. CASE Next
      <3>1. Step(t)
        BY <2>1, NextIsStep
      <3> QED BY <3>1, VisibleStep, AtZeroStep, PosixStep
    <2>2. CASE UNCHANGED vars
      BY <2>2 DEF vars, ReadKnows, AtZero, VisibleFiles, Closing, FileTable, Offset
    <2> QED BY <2>1, <2>2
  <1>3. Spec => []Solo
    BY SoloAlways
  <1>4. Spec => Posix!Init /\ [][Posix!Next]_fileTable
    <2> HIDE DEF Known, fileTable
    <2> QED BY <1>1, <1>2, <1>3, Invariance, PTL DEF Spec
  <1> QED BY <1>4, PTL DEF ImplementsPosixFiles, Posix!Spec

=============================================================================
