------------------------------ MODULE Dirents ------------------------------
(***************************************************************************)
(* The records getdents returns for a directory (src/src/                  *)
(* dirent-builder.cpp).  A record has three numbers, a name with a         *)
(* terminating 0, padding, and the type in its last byte; here it is where *)
(* it starts and where its parts are.                                      *)
(***************************************************************************)
EXTENDS Integers, Sequences

\* sizeof d_ino, d_off and d_reclen: where d_name starts.
NameAt == 18

\* Mutant of reclen: the byte of the type is forgotten.
reclen_NoType(name_size) ==
  LET from[r \in Nat] == IF r < NameAt + name_size + 1 THEN from[r + 8] ELSE r
  IN  from[24]

\* The smallest multiple of 8 from 24 on with room for the name, its 0 and the
\* type.
reclen(name_size) ==
  LET from[r \in Nat] == IF r < NameAt + name_size + 2 THEN from[r + 8] ELSE r
  IN  from[24]

\* DirentBuilder::append to a buffer, for a name of that size.
append(buf, name_size) ==
  LET size == IF buf = <<>> THEN 0 ELSE buf[Len(buf)].start + buf[Len(buf)].reclen
      r    == reclen(name_size)
  IN  Append(buf, [start   |-> size,
                   ino     |-> 256 + Len(buf),
                   off     |-> 1 + Len(buf),
                   reclen  |-> r,
                   name    |-> size + NameAt .. size + NameAt + name_size - 1,
                   nul     |-> size + (NameAt + name_size + 2) - 2,
                   type    |-> size + r - 1])

\* CodiusNodeFilesystem::getdents: one record for each name of the list.
getdents(sizes) ==
  LET after[k \in 0 .. Len(sizes)] == IF k = 0 THEN <<>> ELSE append(after[k - 1], sizes[k])
  IN  after[Len(sizes)]

=============================================================================
