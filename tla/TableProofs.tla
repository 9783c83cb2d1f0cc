----------------------------- MODULE TableProofs -----------------------------
(***************************************************************************)
(* That the sandboxed program starts with its own descriptors, and that    *)
(* the records of a directory follow one another (Algorithms:              *)
(* OnlyItsSockets, DirentsTile), for every table of the host and every     *)
(* list of names.  Induction over sets of numbers is TransferProofs'.      *)
(***************************************************************************)
EXTENDS TransferProofs, FiniteSetTheorems

-----------------------------------------------------------------------------
(* Descriptors.                                                             *)

\* A descriptor table with the standard streams open.
Table(fds) == /\ DOMAIN fds \subseteq Nat /\ IsFiniteSet(DOMAIN fds)
              /\ \A n \in 0 .. 2 : n \in DOMAIN fds

\* There is a free number among as many as are open and one more, and it is
\* none of the standard streams'.
LEMMA FreeNumber ==
  ASSUME NEW fds, Table(fds)
  PROVE  LowestFree(fds) \in Nat \ DOMAIN fds /\ LowestFree(fds) >= 3
<1> DEFINE open == DOMAIN fds
           card == Cardinality(open)
           free == (0 .. card) \ open
<1>1. IsFiniteSet(open) /\ open \subseteq Nat /\ card \in Nat
  BY FS_CardinalityType DEF Table
<1>2. free # {}
  <2> SUFFICES ASSUME 0 .. card \subseteq open PROVE FALSE
    OBVIOUS
  <2> HIDE DEF open, card
  <2>1. 0 \in Int /\ card \in Int
    BY <1>1
  <2>2. Cardinality(0 .. card) = card + 1
    BY <1>1, <2>1, FS_Interval
  <2>3. Cardinality(0 .. card) <= Cardinality(open)
    BY <1>1, FS_Subset
  <2> QED
    BY <1>1, <2>2, <2>3 DEF card
<1>3. free \in SUBSET Nat
  BY <1>1
<1>4. LowestFree(fds) = CHOOSE n \in free : \A m \in free : n =< m
  BY Zenon DEF LowestFree, Min
<1>5. LowestFree(fds) \in free
  <2> HIDE DEF free
  <2>1. \E n \in free : \A m \in free : n <= m
    BY <1>2, <1>3, LeastNumber
  <2> QED
    BY <1>4, <2>1
<1>6. LowestFree(fds) \notin 0 .. 2
  BY <1>5 DEF Table
<1> QED
  BY <1>3, <1>5, <1>6

\* One more file is open, under a number that was free.
LEMMA OpenedAs ==
  ASSUME NEW fds, Table(fds), NEW file
  PROVE  \E n \in Nat : /\ n \notin DOMAIN fds /\ n >= 3
                        /\ DOMAIN OpenAs(fds, file) = DOMAIN fds \cup {n}
                        /\ OpenAs(fds, file)[n] = file
                        /\ \A m \in DOMAIN fds : OpenAs(fds, file)[m] = fds[m]
                        /\ Table(OpenAs(fds, file))
<1> DEFINE n == LowestFree(fds)
           after == OpenAs(fds, file)
<1>1. n \in Nat /\ n \notin DOMAIN fds /\ n >= 3
  BY FreeNumber
<1> HIDE DEF n
<1>2. after = [m \in DOMAIN fds \cup {n} |-> IF m \in DOMAIN fds THEN fds[m] ELSE file]
  BY Zenon DEF OpenAs, n
<1> HIDE DEF after
<1>3. /\ DOMAIN after = DOMAIN fds \cup {n}
      /\ after[n] = file /\ \A m \in DOMAIN fds : after[m] = fds[m]
  BY <1>1, <1>2
<1>4. IsFiniteSet(DOMAIN fds \cup {n})
  BY FS_AddElement DEF Table
<1>5. Table(after)
  BY <1>1, <1>3, <1>4 DEF Table
<1> QED
  BY <1>1, <1>3, <1>5, Zenon DEF after

\* The two ends of a socket have numbers that were free.
LEMMA SocketEnds ==
  ASSUME NEW fds, Table(fds), NEW i
  PROVE  LET after == SandboxIPC(fds, i) IN
         \E p, c \in Nat :
           /\ p \notin DOMAIN fds /\ c \notin DOMAIN fds /\ p # c /\ c >= 3 /\ p >= 3
           /\ DOMAIN after = DOMAIN fds \cup {p, c}
           /\ after[p] = <<"parent", i>> /\ after[c] = <<"child", i>>
           /\ \A m \in DOMAIN fds : after[m] = fds[m]
           /\ Table(after)
<1> DEFINE mid == OpenAs(fds, <<"parent", i>>)
           after == OpenAs(mid, <<"child", i>>)
<1>1. SandboxIPC(fds, i) = after
  BY Zenon DEF SandboxIPC
<1>2. PICK p \in Nat : /\ p \notin DOMAIN fds /\ p >= 3
                       /\ DOMAIN mid = DOMAIN fds \cup {p} /\ mid[p] = <<"parent", i>>
                       /\ \A m \in DOMAIN fds : mid[m] = fds[m]
                       /\ Table(mid)
  BY OpenedAs, Zenon
<1> HIDE DEF mid
<1>3. PICK c \in Nat : /\ c \notin DOMAIN mid /\ c >= 3
                       /\ DOMAIN after = DOMAIN mid \cup {c} /\ after[c] = <<"child", i>>
                       /\ \A m \in DOMAIN mid : after[m] = mid[m]
                       /\ Table(after)
  BY <1>2, OpenedAs, Zenon
<1> HIDE DEF after
<1>4. /\ c \notin DOMAIN fds /\ p # c /\ DOMAIN after = DOMAIN fds \cup {p, c}
      /\ after[p] = <<"parent", i>> /\ \A m \in DOMAIN fds : after[m] = fds[m]
  BY <1>2, <1>3
<1> QED
  BY <1>1, <1>2, <1>3, <1>4, Zenon

\* The program's ends of its sockets, each under one number.
ChildEnds(fds, c1, c2, c3) ==
  /\ c1 \in DOMAIN fds /\ c2 \in DOMAIN fds /\ c3 \in DOMAIN fds
  /\ c2 >= 3 /\ c3 >= 3
  /\ \A n \in DOMAIN fds : /\ fds[n] = <<"child", 1>> <=> n = c1
                           /\ fds[n] = <<"child", 2>> <=> n = c2
                           /\ fds[n] = <<"child", 3>> <=> n = c3

\* In whatever order the numbers of the program's ends are, none of the moves
\* overwrites one that is still to be moved.
LEMMA ExecChildLeaves ==
  ASSUME NEW fds, Table(fds), NEW c1, NEW c2, NEW c3, ChildEnds(fds, c1, c2, c3)
  PROVE  execChild(fds, <<1, 2, 3>>)
           = [n \in 0 .. 3 |-> IF n = 0 THEN fds[0] ELSE <<"child", n>>]
<1> USE DEF ChildEnds
<1> DEFINE open == DOMAIN fds
           sockets == <<1, 2, 3>>
           Rhs(f, k) == IF k = 0 THEN fds
                        ELSE dup2(f[k - 1], ChildOf(fds, sockets[k]), sockets[k])
           m1 == dup2(fds, c1, 1)
           m2 == dup2(m1, c2, 2)
           m3 == dup2(m2, c3, 3)
           f == CHOOSE w : w = [k \in 0 .. Len(sockets) |-> Rhs(w, k)]
           g == [k \in 0 .. 3 |-> IF k = 0 THEN fds ELSE IF k = 1 THEN m1 ELSE IF k = 2 THEN m2 ELSE m3]
<1>1. execChild(fds, sockets) = closeUnused(f[Len(sockets)], sockets)
  BY Zenon DEF execChild
<1>2. Len(sockets) = 3 /\ sockets[1] = 1 /\ sockets[2] = 2 /\ sockets[3] = 3
  OBVIOUS
<1>3. ChildOf(fds, 1) = c1 /\ ChildOf(fds, 2) = c2 /\ ChildOf(fds, 3) = c3
  BY Zenon DEF ChildOf
<1>4. \A k : k \in 0 .. 3 <=> k = 0 \/ k = 1 \/ k = 2 \/ k = 3
  OBVIOUS
<1>5. g[0] = fds /\ g[1] = m1 /\ g[2] = m2 /\ g[3] = m3
  <2> HIDE DEF m1, m2, m3
  <2> QED
    BY <1>4
<1>6. 1 - 1 = 0 /\ 2 - 1 = 1 /\ 3 - 1 = 2 /\ 1 # 0 /\ 2 # 0 /\ 3 # 0
  OBVIOUS
<1> HIDE DEF sockets
<1>7. ASSUME NEW w, w = [k \in 0 .. Len(sockets) |-> Rhs(w, k)]
      PROVE  w[3] = m3
  <2>1. \A k \in 0 .. 3 : w[k] = Rhs(w, k)
    BY <1>2, <1>7, Zenon
  <2>2. w[0] = Rhs(w, 0) /\ w[1] = Rhs(w, 1) /\ w[2] = Rhs(w, 2) /\ w[3] = Rhs(w, 3)
    <3> HIDE DEF Rhs
    <3> QED
      BY <1>4, <2>1
  <2>3. w[0] = fds
    BY <2>2, Zenon
  <2>4. w[1] = m1
    BY <1>2, <1>3, <1>6, <2>2, <2>3, Zenon
  <2>5. w[2] = m2
    BY <1>2, <1>3, <1>6, <2>2, <2>4, Zenon
  <2> QED
    BY <1>2, <1>3, <1>6, <2>2, <2>5, Zenon
<1>8. g = [k \in 0 .. Len(sockets) |-> Rhs(g, k)]
  <2> HIDE DEF m1, m2, m3
  <2>1. g = [k \in 0 .. 3 |-> g[k]]
    OBVIOUS
  <2> HIDE DEF g
  <2> USE DEF m1, m2, m3
  <2>2. g[0] = Rhs(g, 0)
    BY <1>5, Zenon
  <2>3. g[1] = Rhs(g, 1)
    BY <1>2, <1>3, <1>5, <1>6, Zenon
  <2>4. g[2] = Rhs(g, 2)
    BY <1>2, <1>3, <1>5, <1>6, Zenon
  <2>5. g[3] = Rhs(g, 3)
    BY <1>2, <1>3, <1>5, <1>6, Zenon
  <2> HIDE DEF Rhs
  <2>6. ASSUME NEW k \in 0 .. 3 PROVE g[k] = Rhs(g, k)
    <3>1. CASE k = 0
      BY <2>2, <3>1, Zenon
    <3>2. CASE k = 1
      BY <2>3, <3>2, Zenon
    <3>3. CASE k = 2
      BY <2>4, <3>3, Zenon
    <3>4. CASE k = 3
      BY <2>5, <3>4, Zenon
    <3> QED
      BY <1>4, <3>1, <3>2, <3>3, <3>4, Zenon
  <2> QED
    BY <1>2, <2>1, <2>6, Zenon
<1>9. f[3] = m3
  <2> HIDE DEF g, Rhs
  <2>1. f = [k \in 0 .. Len(sockets) |-> Rhs(f, k)]
    BY <1>8, Zenon
  <2> HIDE DEF f, m3
  <2> QED
    BY <1>7, <2>1, Zenon
<1>10. open \subseteq Nat /\ 0 \in open /\ 1 \in open /\ 2 \in open
  BY DEF Table
<1>11. /\ DOMAIN m3 = open \cup {1, 2, 3}
       /\ m3[0] = fds[0] /\ m3[1] = fds[c1] /\ m3[2] = fds[c2] /\ m3[3] = fds[c3]
  <2>1. /\ DOMAIN m1 = open \cup {1}
        /\ \A n \in open \cup {1} : m1[n] = IF n = 1 THEN fds[c1] ELSE fds[n]
    BY DEF dup2
  <2> HIDE DEF m1
  <2>2. /\ DOMAIN m2 = open \cup {1} \cup {2}
        /\ \A n \in open \cup {1} \cup {2} : m2[n] = IF n = 2 THEN m1[c2] ELSE m1[n]
    BY <2>1 DEF dup2
  <2> HIDE DEF m2
  <2>3. /\ DOMAIN m3 = open \cup {1} \cup {2} \cup {3}
        /\ \A n \in open \cup {1} \cup {2} \cup {3} : m3[n] = IF n = 3 THEN m2[c3] ELSE m2[n]
    BY <2>2 DEF dup2
  <2> HIDE DEF m3
  <2>4. c2 # 1 /\ c3 # 1 /\ c3 # 2
    BY <1>10
  <2>5. m1[c2] = fds[c2] /\ m2[c3] = fds[c3]
    BY <2>1, <2>2, <2>4
  <2> QED
    BY <1>10, <2>1, <2>2, <2>3, <2>5
<1>12. permittedFDs(sockets) = 0 .. 3
  <2>1. DOMAIN sockets = {1, 2, 3}
    BY DEF sockets
  <2>2. Range(sockets) = {1, 2, 3}
    BY <1>2, <2>1 DEF Range
  <2> QED
    BY <2>2 DEF permittedFDs
<1> HIDE DEF f, m3
<1>13. closeUnused(m3, sockets) = [n \in 0 .. 3 |-> m3[n]]
  <2>1. DOMAIN m3 \cap 0 .. 3 = 0 .. 3
    BY <1>10, <1>11
  <2> QED
    BY <1>12, <2>1, Zenon DEF closeUnused, Restrict
<1>14. ASSUME NEW n \in 0 .. 3 PROVE m3[n] = IF n = 0 THEN fds[0] ELSE <<"child", n>>
  <2>1. fds[c1] = <<"child", 1>> /\ fds[c2] = <<"child", 2>> /\ fds[c3] = <<"child", 3>>
    OBVIOUS
  <2>2. CASE n = 0
    BY <1>11, <2>2, Zenon
  <2>3. CASE n = 1
    BY <1>6, <1>11, <2>1, <2>3, Zenon
  <2>4. CASE n = 2
    BY <1>6, <1>11, <2>1, <2>4, Zenon
  <2>5. CASE n = 3
    BY <1>6, <1>11, <2>1, <2>5, Zenon
  <2> QED
    BY <1>4, <2>2, <2>3, <2>4, <2>5, Zenon
<1>15. [n \in 0 .. 3 |-> m3[n]] = [n \in 0 .. 3 |-> IF n = 0 THEN fds[0] ELSE <<"child", n>>]
  BY <1>14, Zenon
<1> QED
  BY <1>1, <1>2, <1>9, <1>13, <1>15, Zenon DEF sockets

-----------------------------------------------------------------------------
(* Directories.                                                             *)

\* A record is a multiple of 8 that has room for its parts.
LEMMA RecordFits ==
  ASSUME NEW size \in Nat \ {0}
  PROVE  /\ reclen(size) \in Nat
         /\ reclen(size) >= NameAt + size + 2
         /\ reclen(size) % 8 = 0
<1> DEFINE length == NameAt + size + 2
           f == CHOOSE w : w = [r \in Nat |-> IF r < NameAt + size + 2 THEN w[r + 8] ELSE r]
           g == [r \in Nat |-> IF r < length THEN r + 8 * ((length - r + 7) \div 8) ELSE r]
           Good(r) == f[r] \in Nat /\ f[r] >= length /\ f[r] % 8 = r % 8
<1>1. length \in Nat
  BY DEF NameAt
<1>2. reclen(size) = f[24]
  BY Zenon DEF reclen
<1>3. g = [r \in Nat |-> IF r < length THEN g[r + 8] ELSE r]
  <2>1. ASSUME NEW r \in Nat PROVE g[r] = IF r < length THEN g[r + 8] ELSE r
    <3> HIDE DEF length
    <3>1. r + 8 \in Nat
      OBVIOUS
    <3>2. /\ g[r] = IF r < length THEN r + 8 * ((length - r + 7) \div 8) ELSE r
          /\ g[r + 8] = IF r + 8 < length THEN r + 8 + 8 * ((length - (r + 8) + 7) \div 8) ELSE r + 8
      BY <3>1
    <3> HIDE DEF g
    <3>3. CASE r + 8 < length
      <4>1. (length - (r + 8) + 7) \div 8 = (length - r + 7) \div 8 - 1
        BY <1>1, <3>3
      <4>2. (length - r + 7) \div 8 \in Int
        BY <1>1, <3>3
      <4> QED
        BY <1>1, <3>2, <3>3, <4>1, <4>2
    <3>4. CASE r < length /\ ~(r + 8 < length)
      <4>1. (length - r + 7) \div 8 = 1
        BY <1>1, <3>4
      <4> QED
        BY <1>1, <3>2, <3>4, <4>1
    <3>5. CASE ~(r < length)
      BY <3>2, <3>5
    <3> QED
      BY <3>3, <3>4, <3>5, <1>1
  <2>2. g = [r \in Nat |-> g[r]]
    OBVIOUS
  <2> HIDE DEF g, length
  <2> QED
    BY <2>1, <2>2, Zenon
<1>4. \A r \in Nat : f[r] = IF r < length THEN f[r + 8] ELSE r
  <2> HIDE DEF g
  <2>1. f = [r \in Nat |-> IF r < length THEN f[r + 8] ELSE r]
    BY <1>3, Zenon
  <2> HIDE DEF f, length
  <2> QED
    BY <2>1, Zenon
<1> HIDE DEF f, length
<1>5. \A r \in Nat : Good(r)
  <2> DEFINE T == {n \in Nat : \A r \in Nat : length <= r + n => Good(r)}
  <2>1. T \in SUBSET Nat
    OBVIOUS
  <2>2. 0 \in T
    BY <1>1, <1>4
  <2>3. ASSUME NEW n \in T PROVE n + 1 \in T
    <3>1. ASSUME NEW r \in Nat, length <= r + (n + 1) PROVE Good(r)
      <4>1. CASE r < length
        <5>1. r + 8 \in Nat /\ length <= (r + 8) + n
          BY <1>1, <3>1
        <5>2. Good(r + 8)
          BY <5>1
        <5>3. (r + 8) % 8 = r % 8
          OBVIOUS
        <5>4. f[r] = f[r + 8]
          BY <1>4, <4>1
        <5> QED
          BY <5>2, <5>3, <5>4
      <4>2. CASE ~(r < length)
        BY <1>1, <1>4, <4>2
      <4> QED
        BY <4>1, <4>2
    <3>2. n + 1 \in Nat
      OBVIOUS
    <3> HIDE DEF Good
    <3> QED
      BY <3>1, <3>2
  <2>4. length \in T
    <3> HIDE DEF T
    <3>1. T = Nat
      BY <2>1, <2>2, <2>3, SetInduction
    <3> QED
      BY <1>1, <3>1
  <2> HIDE DEF Good
  <2> QED
    BY <1>1, <2>4
<1>6. 24 % 8 = 0
  OBVIOUS
<1> QED
  BY <1>2, <1>5, <1>6 DEF length

\* Where a record is and where its parts are, given the record before it.
Tiled(dirs, sizes, j) ==
  LET d == dirs[j] IN
  /\ d.start \in Nat
  /\ d.start = IF j = 1 THEN 0 ELSE dirs[j - 1].start + dirs[j - 1].reclen
  /\ d.reclen = reclen(sizes[j])
  /\ d.name = d.start + NameAt .. d.start + NameAt + sizes[j] - 1
  /\ d.nul = d.start + NameAt + sizes[j]
  /\ d.type = d.start + d.reclen - 1

Record == [start : Nat, ino : Nat, off : Nat, reclen : Nat, name : SUBSET Nat, nul : Nat, type : Nat]

\* What is in a sequence over a set is in that set.
LEMMA ElementOf ==
  ASSUME NEW S, NEW s \in Seq(S), NEW k \in 1 .. Len(s)
  PROVE  s[k] \in S
OBVIOUS

\* One more record behind the others.
LEMMA AppendTiles ==
  ASSUME NEW sizes \in Seq(1 .. 255), NEW k \in 1 .. Len(sizes),
         NEW dirs \in Seq(Record), Len(dirs) = k - 1,
         \A j \in 1 .. k - 1 : Tiled(dirs, sizes, j)
  PROVE  LET after == append(dirs, sizes[k])
         IN  /\ after \in Seq(Record) /\ Len(after) = k
             /\ \A j \in 1 .. k : Tiled(after, sizes, j)
<1> DEFINE name_size == sizes[k]
           r == reclen(name_size)
           size == IF dirs = <<>> THEN 0 ELSE dirs[Len(dirs)].start + dirs[Len(dirs)].reclen
           record == [start   |-> size,
                      ino     |-> 256 + Len(dirs),
                      off     |-> 1 + Len(dirs),
                      reclen  |-> r,
                      name    |-> size + NameAt .. size + NameAt + name_size - 1,
                      nul     |-> size + (NameAt + name_size + 2) - 2,
                      type    |-> size + r - 1]
           after == append(dirs, name_size)
<1>1. after = Append(dirs, record)
  BY Zenon DEF append
<1>2. k \in Nat /\ k >= 1 /\ name_size \in Nat \ {0}
  <2>1. k \in Nat /\ k >= 1
    OBVIOUS
  <2>2. name_size \in 1 .. 255
    BY ElementOf, ZenonT(30)
  <2> HIDE DEF name_size
  <2> QED
    BY <2>1, <2>2
<1>3. r \in Nat /\ r >= NameAt + name_size + 2
  <2> HIDE DEF name_size
  <2> QED
    BY <1>2, RecordFits
<1> HIDE DEF r, name_size
<1>4. size = IF k = 1 THEN 0 ELSE dirs[k - 1].start + dirs[k - 1].reclen
  <2>1. dirs = <<>> <=> k = 1
    BY <1>2
  <2> QED
    BY <2>1, Zenon
<1>5. size \in Nat
  <2>1. CASE k = 1
    BY <1>4, <2>1
  <2>2. CASE k # 1
    <3>1. dirs[k - 1] \in Record
      BY <1>2, <2>2
    <3>2. dirs[k - 1].start \in Nat /\ dirs[k - 1].reclen \in Nat
      BY <3>1, Zenon DEF Record
    <3> QED
      BY <1>4, <2>2, <3>2
  <2> QED
    BY <2>1, <2>2
<1> HIDE DEF size
<1>6. /\ size + NameAt .. size + NameAt + name_size - 1 \subseteq Nat
      /\ size + (NameAt + name_size + 2) - 2 = size + NameAt + name_size
      /\ size + NameAt + name_size \in Nat /\ size + r - 1 \in Nat
      /\ 256 + Len(dirs) \in Nat /\ 1 + Len(dirs) \in Nat
  BY <1>2, <1>3, <1>5 DEF NameAt
<1>7. record \in Record
  BY <1>3, <1>5, <1>6 DEF Record
<1>8. /\ record.start = size /\ record.reclen = r
      /\ record.name = size + NameAt .. size + NameAt + name_size - 1
      /\ record.nul = size + (NameAt + name_size + 2) - 2 /\ record.type = size + r - 1
  OBVIOUS
<1> HIDE DEF record, after
<1>9. /\ after \in Seq(Record) /\ Len(after) = k /\ after[k] = record
      /\ \A j \in 1 .. k - 1 : after[j] = dirs[j]
  BY <1>1, <1>2, <1>7
<1>10. Tiled(after, sizes, k)
  <2>1. k # 1 => k - 1 \in 1 .. k - 1
    BY <1>2
  <2>2. record.start = IF k = 1 THEN 0 ELSE after[k - 1].start + after[k - 1].reclen
    BY <1>4, <1>8, <1>9, <2>1, Zenon
  <2>3. record.nul = record.start + NameAt + name_size
    BY <1>6, <1>8, Zenon
  <2> QED
    BY <1>5, <1>8, <1>9, <2>2, <2>3, Zenon DEF Tiled, r, name_size
<1>11. ASSUME NEW j \in 1 .. k - 1 PROVE Tiled(after, sizes, j)
  <2>1. j # 1 => j - 1 \in 1 .. k - 1
    BY <1>2
  <2>2. after[j] = dirs[j] /\ (j # 1 => after[j - 1] = dirs[j - 1])
    BY <1>9, <2>1
  <2>3. Tiled(dirs, sizes, j)
    OBVIOUS
  <2> QED
    BY <2>2, <2>3, Zenon DEF Tiled
<1>12. \A j \in 1 .. k : j = k \/ j \in 1 .. k - 1
  BY <1>2
<1>13. \A j \in 1 .. k : Tiled(after, sizes, j)
  BY <1>10, <1>11, <1>12, Zenon
<1> QED
  BY <1>9, <1>13, Zenon DEF after, name_size

\* One record for each name, each where the one before it ends.
LEMMA GetdentsTiles ==
  ASSUME NEW sizes \in Seq(1 .. 255)
  PROVE  /\ Len(getdents(sizes)) = Len(sizes) /\ getdents(sizes) \in Seq(Record)
         /\ \A j \in 1 .. Len(sizes) : Tiled(getdents(sizes), sizes, j)
<1> DEFINE n == Len(sizes)
           Rhs(w, k) == IF k = 0 THEN <<>> ELSE append(w[k - 1], sizes[k])
           f == CHOOSE w : w = [k \in 0 .. n |-> Rhs(w, k)]
           Good(d, k) == /\ d \in Seq(Record) /\ Len(d) = k
                         /\ \A j \in 1 .. k : Tiled(d, sizes, j)
<1>1. n \in Nat
  OBVIOUS
<1>2. getdents(sizes) = f[n]
  BY Zenon DEF getdents
<1>3. \E w : w = [k \in 0 .. n |-> Rhs(w, k)]
  <2> DEFINE Holds(w, j) == \A k \in 0 .. j : w[k] = Rhs(w, k)
             T == {j \in Nat : \E w : Holds(w, j)}
  <2> HIDE DEF n
  <2>1. 0 \in T
    <3> DEFINE w == [k \in 0 .. 0 |-> <<>>]
    <3>1. Holds(w, 0)
      OBVIOUS
    <3> QED
      BY <3>1, Zenon
  <2>2. ASSUME NEW j \in T PROVE j + 1 \in T
    <3>1. PICK w : Holds(w, j)
      OBVIOUS
    <3> DEFINE v == [k \in 0 .. j + 1 |-> IF k = j + 1 THEN Rhs(w, j + 1) ELSE w[k]]
    <3>2. ASSUME NEW k \in 0 .. j + 1 PROVE v[k] = Rhs(v, k)
      <4>1. v[k] = IF k = j + 1 THEN Rhs(w, j + 1) ELSE w[k]
        OBVIOUS
      <4>2. k # 0 => k - 1 \in 0 .. j + 1 /\ k - 1 # j + 1
        OBVIOUS
      <4>3. k # 0 => v[k - 1] = w[k - 1]
        BY <4>2
      <4> HIDE DEF v
      <4>4. Rhs(v, k) = Rhs(w, k)
        BY <4>3, Zenon
      <4>5. k # j + 1 => k \in 0 .. j
        OBVIOUS
      <4> HIDE DEF Rhs
      <4> QED
        BY <3>1, <4>1, <4>4, <4>5, Zenon
    <3>3. j + 1 \in Nat
      OBVIOUS
    <3> HIDE DEF v, Rhs
    <3>4. Holds(v, j + 1)
      BY <3>2
    <3> QED
      BY <3>3, <3>4, Zenon
  <2>3. T = Nat
    <3>1. T \in SUBSET Nat
      OBVIOUS
    <3> HIDE DEF T
    <3> QED
      BY <2>1, <2>2, <3>1, SetInduction
  <2>4. PICK w : Holds(w, n)
    BY <1>1, <2>3
  <2> DEFINE v == [k \in 0 .. n |-> w[k]]
  <2>5. ASSUME NEW k \in 0 .. n PROVE v[k] = Rhs(v, k)
    <3>1. k # 0 => k - 1 \in 0 .. n
      BY <1>1
    <3>2. v[k] = w[k] /\ (k # 0 => v[k - 1] = w[k - 1])
      BY <3>1
    <3> HIDE DEF v
    <3>3. Rhs(v, k) = Rhs(w, k)
      BY <3>2, Zenon
    <3> HIDE DEF Rhs
    <3> QED
      BY <2>4, <3>2, <3>3, Zenon
  <2>6. v = [k \in 0 .. n |-> v[k]]
    OBVIOUS
  <2> HIDE DEF v, Rhs
  <2>7. v = [k \in 0 .. n |-> Rhs(v, k)]
    BY <2>5, <2>6, Zenon
  <2> QED
    BY <2>7, Zenon
<1>4. \A k \in 0 .. n : f[k] = Rhs(f, k)
  <2> HIDE DEF Rhs
  <2>1. f = [k \in 0 .. n |-> Rhs(f, k)]
    BY <1>3, Zenon
  <2> HIDE DEF f, n
  <2> QED
    BY <2>1, Zenon
<1> HIDE DEF f
<1>5. Good(f[0], 0)
  <2>1. 0 \in 0 .. n
    BY <1>1
  <2>2. f[0] = <<>>
    BY <1>4, <2>1, Zenon
  <2> QED
    BY <2>2
<1>6. ASSUME NEW k \in 1 .. n, Good(f[k - 1], k - 1)
      PROVE  Good(f[k], k)
  <2>1. k \in 0 .. n /\ k # 0
    BY <1>1
  <2> HIDE DEF n
  <2>2. f[k] = append(f[k - 1], sizes[k])
    BY <1>4, <2>1
  <2> DEFINE d == f[k - 1]
  <2>3. d \in Seq(Record) /\ Len(d) = k - 1 /\ \A j \in 1 .. k - 1 : Tiled(d, sizes, j)
    BY <1>6
  <2> HIDE DEF d
  <2>4. Good(append(d, sizes[k]), k)
    BY <2>3, AppendTiles, Zenon DEF n
  <2> HIDE DEF Good
  <2> QED
    BY <2>2, <2>4, Zenon DEF d
<1> HIDE DEF n
<1>7. Good(f[n], n)
  <2> DEFINE T == {k \in Nat : k <= n => Good(f[k], k)}
  <2> HIDE DEF Good
  <2>1. 0 \in T
    BY <1>5
  <2>2. ASSUME NEW k \in T PROVE k + 1 \in T
    <3>1. k \in Nat /\ k + 1 \in Nat
      OBVIOUS
    <3>2. ASSUME k + 1 <= n PROVE Good(f[k + 1], k + 1)
      <4>1. k + 1 \in 1 .. n /\ (k + 1) - 1 = k /\ k <= n
        <5> HIDE DEF T
        <5> QED
          BY <1>1, <3>1, <3>2
      <4>2. Good(f[k], k)
        BY <4>1
      <4> DEFINE j == k + 1
      <4>3. j \in 1 .. n /\ Good(f[j - 1], j - 1)
        BY <4>1, <4>2
      <4> HIDE DEF j
      <4>4. Good(f[j], j)
        BY <1>6, <4>3
      <4> QED
        BY <4>4 DEF j
    <3> QED
      BY <3>1, <3>2
  <2>3. T \in SUBSET Nat
    OBVIOUS
  <2>4. T = Nat
    <3> HIDE DEF T
    <3> QED
      BY <2>1, <2>2, <2>3, SetInduction
  <2> QED
    BY <1>1, <2>4
<1> QED
  BY <1>2, <1>7, Zenon DEF n

\* A name, its 0 and the type have bytes of their own.
LEMMA PartsApart ==
  ASSUME NEW start \in Nat, NEW size \in Nat \ {0}, NEW nul, NEW type \in Nat,
         nul = start + size, type > nul
  PROVE  Cardinality((start .. start + size - 1) \cup {nul, type}) = size + 2
<1> DEFINE name == start .. start + size - 1
<1>1. IsFiniteSet(name) /\ Cardinality(name) = size
  <2>1. start \in Int /\ start + size - 1 \in Int
    OBVIOUS
  <2>2. /\ IsFiniteSet(name)
        /\ Cardinality(name) = IF start > start + size - 1 THEN 0 ELSE (start + size - 1) - start + 1
    BY <2>1, FS_Interval
  <2> HIDE DEF name
  <2> QED
    BY <2>2
<1>2. nul \notin name /\ type \notin name /\ type # nul
  OBVIOUS
<1> HIDE DEF name
<1>3. IsFiniteSet(name \cup {nul}) /\ Cardinality(name \cup {nul}) = size + 1
  BY <1>1, <1>2, FS_AddElement
<1>4. Cardinality((name \cup {nul}) \cup {type}) = (size + 1) + 1
  <2>1. type \notin name \cup {nul}
    BY <1>2
  <2> QED
    BY <1>3, <2>1, FS_AddElement, ZenonT(30)
<1>5. (name \cup {nul}) \cup {type} = name \cup {nul, type}
  OBVIOUS
<1>6. Cardinality(name \cup {nul, type}) = size + 2
  BY <1>4, <1>5
<1> QED
  BY <1>6 DEF name

-----------------------------------------------------------------------------
(* The properties.                                                          *)

\* The program has its own ends of its sockets on 1, 2 and 3, standard input,
\* and nothing else of the host (SandboxIPC, execChild).
THEOREM OnlyItsSocketsAreOpen == Spec => []OnlyItsSockets
<1>1. Init => OnlyItsSockets
  <2> SUFFICES ASSUME Init, input.kind = "spawn" PROVE OnlyItsSockets
    BY DEF OnlyItsSockets
  <2> DEFINE before == HostFds(input.before)
             made == node_new(before)
             sockets == {n \in DOMAIN made : made[n][1] # "host"}
             changed == [n \in (0 .. 2) \cup sockets \cup input.after |->
                           IF n \in sockets THEN made[n] ELSE Streams(n)]
             fds == SandboxIPC(changed, 3)
  <2>1. Spawning(input)
    BY DEF Init, Transfer, Segments, Text, Character, Halves, Valid, Directory, Spawning
  <2>2. IsFiniteSet(0 .. 2)
    <3>1. 0 \in Int /\ 2 \in Int
      OBVIOUS
    <3> QED
      BY <3>1, FS_Interval, Zenon
  <2>3. /\ DOMAIN before = (0 .. 2) \cup input.before
        /\ \A n \in DOMAIN before : before[n] = Streams(n)
    BY DEF HostFds
  <2>4. Table(before)
    <3>1. IsFiniteSet((0 .. 2) \cup input.before)
      BY <2>1, <2>2, FS_Union DEF Spawning
    <3> QED
      BY <2>1, <2>3, <3>1 DEF Table, Spawning
  <2> HIDE DEF before
  <2> DEFINE one == SandboxIPC(before, 1)
  <2>5. PICK p1, c1 \in Nat :
          /\ p1 \notin DOMAIN before /\ c1 \notin DOMAIN before /\ p1 # c1 /\ c1 >= 3 /\ p1 >= 3
          /\ DOMAIN one = DOMAIN before \cup {p1, c1}
          /\ one[p1] = <<"parent", 1>> /\ one[c1] = <<"child", 1>>
          /\ \A m \in DOMAIN before : one[m] = before[m]
          /\ Table(one)
    BY <2>4, SocketEnds, Zenon
  <2> HIDE DEF one
  <2>6. PICK p2, c2 \in Nat :
          /\ p2 \notin DOMAIN one /\ c2 \notin DOMAIN one /\ p2 # c2 /\ c2 >= 3 /\ p2 >= 3
          /\ DOMAIN made = DOMAIN one \cup {p2, c2}
          /\ made[p2] = <<"parent", 2>> /\ made[c2] = <<"child", 2>>
          /\ \A m \in DOMAIN one : made[m] = one[m]
          /\ Table(made)
    BY <2>5, SocketEnds, Zenon DEF node_new, one
  <2> HIDE DEF made
  <2>7. /\ made[p1] = <<"parent", 1>> /\ made[c1] = <<"child", 1>>
        /\ \A m \in DOMAIN before : made[m] = Streams(m)
        /\ DOMAIN made = DOMAIN before \cup {p1, c1, p2, c2}
    BY <2>3, <2>5, <2>6
  <2>8. sockets = {p1, c1, p2, c2}
    BY <2>6, <2>7 DEF Streams
  <2>9. Cardinality({p1, c1, p2, c2}) \in Nat /\ IsFiniteSet({p1, c1, p2, c2})
    <3>1. IsFiniteSet(DOMAIN made) /\ {p1, c1, p2, c2} \in SUBSET DOMAIN made
      BY <2>6, <2>7 DEF Table
    <3>2. IsFiniteSet({p1, c1, p2, c2})
      BY <3>1, FS_Subset
    <3> QED
      BY <3>2, FS_CardinalityType
  <2> HIDE DEF sockets
  <2>10. /\ DOMAIN changed = (0 .. 2) \cup sockets \cup input.after
         /\ \A n \in DOMAIN changed : changed[n] = IF n \in sockets THEN made[n] ELSE Streams(n)
    OBVIOUS
  <2> HIDE DEF changed
  <2>11. Table(changed)
    <3>1. IsFiniteSet((0 .. 2) \cup sockets)
      BY <2>2, <2>8, <2>9, FS_Union
    <3>2. IsFiniteSet((0 .. 2) \cup sockets \cup input.after)
      BY <2>1, <3>1, FS_Union DEF Spawning
    <3>3. \A n \in 0 .. 2 : n \in DOMAIN changed
      BY <2>10
    <3>4. DOMAIN changed \subseteq Nat
      BY <2>1, <2>5, <2>6, <2>8, <2>10 DEF Spawning
    <3> QED
      BY <2>10, <3>2, <3>3, <3>4 DEF Table
  <2>12. PICK p3, c3 \in Nat :
          /\ p3 \notin DOMAIN changed /\ c3 \notin DOMAIN changed /\ p3 # c3 /\ c3 >= 3 /\ p3 >= 3
          /\ DOMAIN fds = DOMAIN changed \cup {p3, c3}
          /\ fds[p3] = <<"parent", 3>> /\ fds[c3] = <<"child", 3>>
          /\ \A m \in DOMAIN changed : fds[m] = changed[m]
          /\ Table(fds)
    BY <2>11, SocketEnds, Zenon
  <2>13. spawn(changed) = execChild(fds, <<1, 2, 3>>)
    BY Zenon DEF spawn
  <2> HIDE DEF fds
  <2>14. /\ c1 \in DOMAIN changed /\ c2 \in DOMAIN changed
         /\ changed[p1] = <<"parent", 1>> /\ changed[c1] = <<"child", 1>>
         /\ changed[p2] = <<"parent", 2>> /\ changed[c2] = <<"child", 2>>
         /\ \A n \in DOMAIN changed : n \notin sockets => changed[n] = Streams(n)
    BY <2>6, <2>7, <2>8, <2>10
  <2>15. fds[0] = Streams(0) /\ 0 \in DOMAIN fds
    <3>1. 0 \in DOMAIN changed /\ 0 \notin sockets
      BY <2>5, <2>6, <2>8, <2>10
    <3> QED
      BY <2>12, <2>14, <3>1
  <2>16. ASSUME NEW n \in DOMAIN fds
         PROVE  /\ fds[n] = <<"child", 1>> <=> n = c1
                /\ fds[n] = <<"child", 2>> <=> n = c2
                /\ fds[n] = <<"child", 3>> <=> n = c3
    <3>1. CASE n \notin DOMAIN changed
      BY <2>12, <2>14, <3>1
    <3>2. CASE n \in DOMAIN changed
      <4>1. fds[n] = changed[n] /\ n # c3
        BY <2>12, <3>2
      <4>2. CASE n \in sockets
        BY <2>5, <2>6, <2>7, <2>8, <2>14, <4>1, <4>2
      <4>3. CASE n \notin sockets
        BY <2>8, <2>14, <3>2, <4>1, <4>3 DEF Streams
      <4> QED
        BY <4>2, <4>3
    <3> QED
      BY <3>1, <3>2
  <2>17. execChild(fds, <<1, 2, 3>>)
           = [n \in 0 .. 3 |-> IF n = 0 THEN fds[0] ELSE <<"child", n>>]
    <3>1. c1 \in DOMAIN fds /\ c2 \in DOMAIN fds /\ c3 \in DOMAIN fds
      BY <2>12, <2>14
    <3>2. \A n \in DOMAIN fds : /\ fds[n] = <<"child", 1>> <=> n = c1
                                /\ fds[n] = <<"child", 2>> <=> n = c2
                                /\ fds[n] = <<"child", 3>> <=> n = c3
      BY <2>16
    <3>3. ChildEnds(fds, c1, c2, c3)
      BY <2>6, <2>12, <3>1, <3>2, Zenon DEF ChildEnds
    <3> QED
      BY <2>12, <3>3, ExecChildLeaves, Zenon
  <2>18. spawn(changed) = [n \in 0 .. 3 |-> IF n = 0 THEN Streams(0) ELSE <<"child", n>>]
    BY <2>13, <2>15, <2>17, Zenon
  <2> QED
    BY <2>18, Zenon DEF OnlyItsSockets, changed, sockets, made, before
<1>2. OnlyItsSockets /\ [Next]_input => OnlyItsSockets'
  BY DEF Next, OnlyItsSockets
<1> QED
  BY <1>1, <1>2, PTL DEF Spec

\* The records of a directory follow one another, each with room for its name
\* (DirentBuilder, getdents).
THEOREM DirentsAreTiled == Spec => []DirentsTile
<1>1. Init => DirentsTile
  <2> SUFFICES ASSUME Init, input.kind = "directory" PROVE DirentsTile
    BY DEF DirentsTile
  <2> DEFINE sizes == input.sizes
             dirs == getdents(sizes)
  <2>1. sizes \in Seq(1 .. 255)
    BY DEF Init, Transfer, Segments, Text, Character, Halves, Valid, Directory, Spawning
  <2> HIDE DEF sizes
  <2>2. /\ Len(dirs) = Len(sizes) /\ dirs \in Seq(Record)
        /\ \A j \in 1 .. Len(sizes) : Tiled(dirs, sizes, j)
    BY <2>1, GetdentsTiles, Zenon
  <2> HIDE DEF dirs
  <2>3. DOMAIN dirs = 1 .. Len(sizes)
    BY <2>2
  <2>4. ASSUME NEW k \in DOMAIN dirs
        PROVE  LET d == dirs[k] IN
               /\ d.start = (IF k = 1 THEN 0 ELSE dirs[k - 1].start + dirs[k - 1].reclen)
               /\ d.reclen % 8 = 0
               /\ Cardinality(d.name \cup {d.nul, d.type}) = sizes[k] + 2
               /\ d.name \cup {d.nul, d.type} \subseteq d.start + NameAt .. d.start + d.reclen - 1
               /\ d.nul = d.start + NameAt + sizes[k]
    <3> DEFINE start == dirs[k].start
               size == sizes[k]
               r == reclen(size)
               first == start + NameAt
               nul == first + size
               type == start + r - 1
    <3>1. size \in Nat \ {0}
      <4>1. size \in 1 .. 255
        BY <2>1, <2>3, ElementOf, ZenonT(30)
      <4> HIDE DEF size
      <4> QED
        BY <4>1
    <3>2. r \in Nat /\ r >= NameAt + size + 2 /\ r % 8 = 0
      <4> HIDE DEF size
      <4> QED
        BY <3>1, RecordFits
    <3>3. Tiled(dirs, sizes, k)
      BY <2>2, <2>3
    <3>4. /\ start \in Nat /\ start = (IF k = 1 THEN 0 ELSE dirs[k - 1].start + dirs[k - 1].reclen)
          /\ dirs[k].reclen = r /\ dirs[k].name = first .. first + size - 1
          /\ dirs[k].nul = nul /\ dirs[k].type = type
      <4>1. dirs[k].type = start + dirs[k].reclen - 1 /\ dirs[k].reclen = r
        BY <3>3, Zenon DEF Tiled
      <4> QED
        BY <3>3, <4>1, Zenon DEF Tiled
    <3> HIDE DEF start, size, r
    <3>5. first \in Nat /\ nul \in Nat /\ type \in Nat /\ type > nul
      BY <3>1, <3>2, <3>4, SMTT(30) DEF NameAt
    <3>6. Cardinality((first .. first + size - 1) \cup {nul, type}) = size + 2
      <4> HIDE DEF first, type
      <4> QED
        BY <3>1, <3>5, PartsApart, SMTT(30)
    <3>7. (first .. first + size - 1) \cup {nul, type} \subseteq first .. type
      <4> HIDE DEF first, type
      <4> QED
        BY <3>1, <3>5
    <3> QED
      BY <3>2, <3>4, <3>6, <3>7, Zenon DEF start, size
  <2> QED
    BY <2>2, <2>4, Zenon DEF DirentsTile, dirs, sizes
<1>2. DirentsTile /\ [Next]_input => DirentsTile'
  BY DEF Next, DirentsTile
<1> QED
  BY <1>1, <1>2, PTL DEF Spec

=============================================================================
