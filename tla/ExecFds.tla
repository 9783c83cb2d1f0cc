------------------------------ MODULE ExecFds ------------------------------
(***************************************************************************)
(* The descriptors a sandboxed program starts with: the socket pairs of    *)
(* SandboxIPC (src/src/sandbox-ipc.cpp), made in the host, and what        *)
(* Sandbox::execChild (src/src/sandbox.cpp) leaves of the host's table in  *)
(* the forked child.                                                       *)
(*                                                                         *)
(* A descriptor table is a function from the open numbers to files; an end *)
(* of a socket pair is <<side, dupAs>>.                                    *)
(***************************************************************************)
EXTENDS Integers, Sequences, Functions, FiniteSetsExt

\* The kernel gives out the lowest number that is free.
LowestFree(fds) == Min((0 .. Cardinality(DOMAIN fds)) \ DOMAIN fds)

OpenAs(fds, file) == [n \in DOMAIN fds \cup {LowestFree(fds)} |->
                        IF n \in DOMAIN fds THEN fds[n] ELSE file]

\* socketpair: ipc_fds[0] is the host's end, ipc_fds[1] the program's.
SandboxIPC(fds, dupAs) == OpenAs(OpenAs(fds, <<"parent", dupAs>>), <<"child", dupAs>>)

\* The number of the program's end, which the object remembers.
ChildOf(fds, dupAs) == CHOOSE n \in DOMAIN fds : fds[n] = <<"child", dupAs>>

dup2(fds, old, new) == [n \in DOMAIN fds \cup {new} |-> IF n = new THEN fds[old] ELSE fds[n]]

\* permittedFDs is made with as many zeros as there are sockets, so that 0 is
\* permitted as well.
permittedFDs(ipcSockets) == {0} \cup Range(ipcSockets)

\* Mutant of closeUnused: the program's ends are kept too.
closeUnused_KeepsChildEnds(fds, ipcSockets) ==
  Restrict(fds, {n \in DOMAIN fds : n \in permittedFDs(ipcSockets) \/ fds[n][1] = "child"})

\* Everything /proc/self/fd lists but the permitted numbers is closed.
closeUnused(fds, ipcSockets) ==
  Restrict(fds, DOMAIN fds \cap permittedFDs(ipcSockets))

\* Every socket is moved to the number it is for, in the order of ipcSockets,
\* by the number its program's end had in the host.
execChild(fds, ipcSockets) ==
  LET moved[k \in 0 .. Len(ipcSockets)] ==
        IF k = 0 THEN fds
        ELSE dup2(moved[k - 1], ChildOf(fds, ipcSockets[k]), ipcSockets[k])
  IN  closeUnused(moved[Len(ipcSockets)], ipcSockets)

\* node_new makes the sockets for 1 and 2; spawn, later, the one for 3.
\* "changed" is the host's table when spawn is called.
node_new(fds)  == SandboxIPC(SandboxIPC(fds, 1), 2)
spawn(changed) == execChild(SandboxIPC(changed, 3), <<1, 2, 3>>)

=============================================================================
