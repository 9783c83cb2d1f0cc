------------------------------- MODULE MCVFS -------------------------------
(* Values of the constants of VFS for TLC.                                 *)
EXTENDS VFS, TLC

CONSTANTS t1, t2

MCOneThread  == {t1}
MCTwoThreads == {t1, t2}
MCSeeks      == {-1, 1}

\* No action reads reply.
WithoutReply == <<openFiles, localFD, nextFD, cwd, offsets, frame, stack, host,
                  hostOpen>>

ThreadSymmetry == Permutations({t1, t2})
=============================================================================
