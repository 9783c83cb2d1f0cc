--------------------------- MODULE TransferProofs ---------------------------
(***************************************************************************)
(* That bytes reach the buffer and the program's memory as they should     *)
(* (Algorithms: ReadsRight, WriteDataExact, ScratchSegmentsIntact), for    *)
(* every length, address, size of a word and number of segments.           *)
(***************************************************************************)
EXTENDS Algorithms, TLAPS, SequenceTheorems, WellFoundedInduction

-----------------------------------------------------------------------------
(* Induction over sets of numbers.                                          *)

\* The library's order of the natural numbers.
LEMMA NatWellFounded == IsWellFoundedOn({ss \in Nat \X Nat : ss[1] < ss[2]}, Nat)
BY NatLessThanWellFounded, Zenon DEF OpToRel

\* A set of numbers has a least one, ...
LEMMA LeastNumber ==
  ASSUME NEW T \in SUBSET Nat, T # {}
  PROVE  \E n \in T : \A m \in T : n <= m
<1>1. PICK n \in T : \A m \in T : ~(<<m, n>> \in {ss \in Nat \X Nat : ss[1] < ss[2]})
  BY WFMin, NatWellFounded, Zenon
<1>2. \A m \in T : ~(m < n)
  BY <1>1
<1> QED
  BY <1>2

\* ... so one that has 0 and with each number the next has them all.
LEMMA SetInduction ==
  ASSUME NEW T \in SUBSET Nat, 0 \in T, \A n \in T : n + 1 \in T
  PROVE  T = Nat
<1> SUFFICES ASSUME Nat \ T # {} PROVE FALSE
  OBVIOUS
<1>1. PICK n \in Nat \ T : \A m \in Nat \ T : n <= m
  BY LeastNumber
<1>2. n - 1 \in Nat /\ n - 1 \notin Nat \ T
  BY <1>1
<1> QED
  BY <1>2

-----------------------------------------------------------------------------
(* Reading: from an offset on, a word and what comes a word later, or the   *)
(* end.  The recursive functions of copyData and copyString are of this     *)
(* form.                                                                    *)

Chain(f, more, word, end) ==
  f = [i \in Nat |-> IF i \in more THEN word[i] \o f[i + Word] ELSE end[i]]

\* There is such a function, if only finitely many offsets have more behind.
LEMMA ChainExists ==
  ASSUME NEW length \in Nat, NEW more \in SUBSET Nat, \A i \in more : i < length,
         NEW word, NEW end
  PROVE  \E f : Chain(f, more, word, end)
<1> USE WordAssumption
<1> DEFINE Rhs(f, i) == IF i \in more THEN word[i] \o f[i + Word] ELSE end[i]
           Holds(f, n) == \A i \in Nat : length <= i + n => f[i] = Rhs(f, i)
           T == {n \in Nat : \E f : Holds(f, n)}
<1>1. 0 \in T
  <2> DEFINE f == [i \in Nat |-> end[i]]
  <2>1. Holds(f, 0)
    OBVIOUS
  <2> QED
    BY <2>1, Zenon
<1>2. ASSUME NEW n \in T PROVE n + 1 \in T
  <2>1. PICK f : Holds(f, n)
    OBVIOUS
  <2>2. CASE n >= length
    <3>1. Holds(f, n + 1) /\ n + 1 \in Nat
      BY <2>1, <2>2
    <3> QED
      BY <3>1, Zenon
  <2>3. CASE n < length
    <3> DEFINE k == length - n - 1
               g == [i \in Nat |-> IF i = k THEN Rhs(f, k) ELSE f[i]]
    <3>1. k \in Nat
      BY <2>3
    <3>2. ASSUME NEW i \in Nat, length <= i + (n + 1)
          PROVE  g[i] = Rhs(g, i)
      <4>1. i + Word \in Nat /\ i + Word # k
        BY <3>1, <3>2
      <4>2. g[i + Word] = f[i + Word]
        BY <4>1
      <4>3. Rhs(g, i) = Rhs(f, i)
        BY <4>2
      <4>4. i # k => length <= i + n
        BY <3>1, <3>2
      <4> QED
        BY <2>1, <4>3, <4>4
    <3>3. n + 1 \in Nat
      OBVIOUS
    <3> HIDE DEF g
    <3>4. Holds(g, n + 1)
      BY <3>2
    <3> QED
      BY <3>3, <3>4, Zenon
  <2> QED
    BY <2>2, <2>3
<1>3. T = Nat
  <2>1. T \in SUBSET Nat
    OBVIOUS
  <2> HIDE DEF T
  <2> QED
    BY <1>1, <1>2, <2>1, SetInduction
<1>4. PICK f : Holds(f, length)
  BY <1>3
<1> DEFINE g == [i \in Nat |-> f[i]]
<1>5. g = [i \in Nat |-> Rhs(g, i)]
  BY <1>4
<1> HIDE DEF g
<1> QED
  BY <1>5, Zenon DEF Chain

\* The least word-sized step at a time: what holds at an offset with nothing
\* behind it, and at every other if it holds a word later, holds at every one.
LEMMA ChainInduction ==
  ASSUME NEW length \in Nat, NEW more \in SUBSET Nat, \A i \in more : i < length,
         NEW P \in SUBSET Nat,
         \A i \in Nat : (i \in more => i + Word \in P) => i \in P
  PROVE  P = Nat
<1> USE WordAssumption
<1> DEFINE T == {n \in Nat : \A i \in Nat : length <= i + n => i \in P}
<1>1. T \in SUBSET Nat /\ 0 \in T
  OBVIOUS
<1>2. ASSUME NEW n \in T PROVE n + 1 \in T
  <2> SUFFICES ASSUME NEW i \in Nat, length <= i + (n + 1) PROVE i \in P
    BY <1>1
  <2>1. i + Word \in Nat /\ length <= i + Word + n
    BY <1>1
  <2>2. i + Word \in P
    BY <2>1
  <2> QED
    BY <2>2
<1>3. length \in T
  <2> HIDE DEF T
  <2> QED
    BY <1>1, <1>2, SetInduction
<1>4. \A i \in Nat : i \in P
  BY <1>3
<1> QED
  BY <1>4

\* A word of the program's memory.
Readable(mem, addr, length) ==
  /\ addr \in Nat /\ length \in Nat
  /\ DOMAIN mem \subseteq Nat /\ mem \in [DOMAIN mem -> Byte]
  /\ addr .. addr + length + Word - 2 \subseteq DOMAIN mem

LEMMA PeekReads ==
  ASSUME NEW mem, NEW addr, NEW length, Readable(mem, addr, length), NEW i \in Nat, i < length
  PROVE  /\ peekData(mem, addr + i) \in Seq(Byte)
         /\ Len(peekData(mem, addr + i)) = Word
         /\ \A j \in 1 .. Word : peekData(mem, addr + i)[j] = mem[addr + i + j - 1]
<1> USE WordAssumption
<1>1. \A j \in 1 .. Word : mem[addr + i + j - 1] \in Byte
  <2> TAKE j \in 1 .. Word
  <2>1. addr + i + j - 1 \in addr .. addr + length + Word - 2
    BY DEF Readable
  <2> QED
    BY <2>1, Zenon DEF Readable
<1>2. addr + i \in Nat
  BY DEF Readable
<1>3. peekData(mem, addr + i) = [j \in 1 .. Word |-> mem[addr + i + j - 1]]
  BY DEF peekData, Slice
<1>4. peekData(mem, addr + i) \in [1 .. Word -> Byte]
  BY <1>1, <1>3
<1>5. peekData(mem, addr + i) \in Seq(Byte)
  BY <1>4
<1>6. Len(peekData(mem, addr + i)) = Word
  BY <1>4, <1>5
<1> QED
  BY <1>3, <1>5, <1>6

\* copyData brings what is there, and less than a word behind it.
LEMMA CopyDataReads ==
  ASSUME NEW mem, NEW addr, NEW length, Readable(mem, addr, length)
  PROVE  /\ Len(copyData(mem, addr, length)) \in length .. length + Word - 1
         /\ \A j \in 1 .. length : copyData(mem, addr, length)[j] = mem[addr + j - 1]
<1> USE WordAssumption
<1> DEFINE more == {i \in Nat : i < length}
           word == [i \in Nat |-> peekData(mem, addr + i)]
           end  == [i \in Nat |-> <<>>]
           f    == CHOOSE w : w = [i \in Nat |-> IF i < length THEN peekData(mem, addr + i) \o w[i + Word] ELSE <<>>]
           Good(i) == /\ f[i] \in Seq(Byte)
                      /\ IF i < length THEN Len(f[i]) \in length - i .. length - i + Word - 1
                                       ELSE Len(f[i]) = 0
                      /\ \A j \in 1 .. length - i : f[i][j] = mem[addr + i + j - 1]
           P == {i \in Nat : Good(i)}
<1>1. length \in Nat /\ addr \in Nat
  BY DEF Readable
<1>2. copyData(mem, addr, length) = f[0]
  BY Zenon DEF copyData
<1>3. \E w : w = [i \in Nat |-> IF i < length THEN peekData(mem, addr + i) \o w[i + Word] ELSE <<>>]
  <2>1. PICK w : Chain(w, more, word, end)
    BY <1>1, ChainExists
  <2>2. w = [i \in Nat |-> IF i \in more THEN word[i] \o w[i + Word] ELSE end[i]]
    <3> HIDE DEF more, word, end
    <3> QED
      BY <2>1, Zenon DEF Chain
  <2>3. ASSUME NEW i \in Nat
        PROVE  (IF i \in more THEN word[i] \o w[i + Word] ELSE end[i])
                 = IF i < length THEN peekData(mem, addr + i) \o w[i + Word] ELSE <<>>
    OBVIOUS
  <2>4. [i \in Nat |-> IF i \in more THEN word[i] \o w[i + Word] ELSE end[i]]
          = [i \in Nat |-> IF i < length THEN peekData(mem, addr + i) \o w[i + Word] ELSE <<>>]
    <3> HIDE DEF more, word, end
    <3> QED
      BY <2>3, Zenon
  <2>5. w = [i \in Nat |-> IF i < length THEN peekData(mem, addr + i) \o w[i + Word] ELSE <<>>]
    BY <2>2, <2>4, Zenon
  <2> QED
    BY <2>5, Zenon
<1>4. \A i \in Nat : f[i] = IF i < length THEN peekData(mem, addr + i) \o f[i + Word] ELSE <<>>
  <2>1. f = [i \in Nat |-> IF i < length THEN peekData(mem, addr + i) \o f[i + Word] ELSE <<>>]
    BY <1>3, Zenon
  <2> HIDE DEF f
  <2> QED
    BY <2>1, Zenon
<1> HIDE DEF f
<1>5. ASSUME NEW i \in Nat, i < length => Good(i + Word)
      PROVE  Good(i)
  <2>1. CASE i < length
    <3>1. f[i] = peekData(mem, addr + i) \o f[i + Word]
      BY <1>4, <2>1
    <3>2. /\ peekData(mem, addr + i) \in Seq(Byte)
          /\ Len(peekData(mem, addr + i)) = Word
          /\ \A j \in 1 .. Word : peekData(mem, addr + i)[j] = mem[addr + i + j - 1]
      BY <2>1, PeekReads
    <3>3. Good(i + Word)
      BY <1>5, <2>1
    <3>4. /\ f[i] \in Seq(Byte)
          /\ Len(f[i]) = Word + Len(f[i + Word])
          /\ \A j \in 1 .. Word + Len(f[i + Word]) :
               f[i][j] = IF j <= Word THEN peekData(mem, addr + i)[j] ELSE f[i + Word][j - Word]
      <4>1. f[i + Word] \in Seq(Byte)
        BY <3>3
      <4> DEFINE a == peekData(mem, addr + i)
                 b == f[i + Word]
      <4>2. a \in Seq(Byte) /\ Len(a) = Word /\ b \in Seq(Byte) /\ f[i] = a \o b
        BY <3>1, <3>2, <4>1
      <4> HIDE DEF a, b
      <4>3. /\ a \o b \in Seq(Byte)
            /\ Len(a \o b) = Len(a) + Len(b)
            /\ \A j \in 1 .. Len(a) + Len(b) :
                 (a \o b)[j] = IF j <= Len(a) THEN a[j] ELSE b[j - Len(a)]
        BY <4>2, ConcatProperties
      <4>4. /\ f[i] \in Seq(Byte)
            /\ Len(f[i]) = Word + Len(b)
            /\ \A j \in 1 .. Word + Len(b) : f[i][j] = IF j <= Word THEN a[j] ELSE b[j - Word]
        BY <4>2, <4>3, Zenon
      <4> QED
        BY <4>4, Zenon DEF a, b
    <3>5. Len(f[i + Word]) \in Nat
      BY <3>3
    <3>6. Len(f[i]) \in length - i .. length - i + Word - 1
      BY <1>1, <2>1, <3>3, <3>4, <3>5
    <3>7. ASSUME NEW j \in 1 .. length - i
          PROVE  f[i][j] = mem[addr + i + j - 1]
      <4>1. CASE j <= Word
        <5>1. j \in 1 .. Word /\ j \in 1 .. Word + Len(f[i + Word])
          BY <1>1, <3>5, <4>1
        <5> QED
          BY <3>2, <3>4, <4>1, <5>1, Zenon
      <4>2. CASE j > Word
        <5>1. j - Word \in 1 .. length - (i + Word)
          BY <1>1, <4>2
        <5>2. f[i + Word][j - Word] = mem[addr + (i + Word) + (j - Word) - 1]
          BY <3>3, <5>1
        <5>3. addr + (i + Word) + (j - Word) - 1 = addr + i + j - 1
          BY <1>1
        <5>4. j \in 1 .. Word + Len(f[i + Word])
          BY <1>1, <3>4, <3>5, <3>6
        <5> QED
          BY <3>4, <4>2, <5>2, <5>3, <5>4
      <4> QED
        BY <1>1, <4>1, <4>2
    <3> QED
      BY <2>1, <3>4, <3>6, <3>7
  <2>2. CASE ~(i < length)
    <3>1. f[i] = <<>>
      BY <1>4, <2>2
    <3> QED
      BY <1>1, <2>2, <3>1
  <2> QED
    BY <2>1, <2>2
<1>6. P = Nat
  <2>1. more \in SUBSET Nat /\ \A i \in more : i < length
    OBVIOUS
  <2>2. P \in SUBSET Nat /\ \A i \in Nat : (i \in more => i + Word \in P) => i \in P
    BY <1>5
  <2> HIDE DEF more, P
  <2> QED
    BY <1>1, <2>1, <2>2, ChainInduction
<1>7. Good(0)
  BY <1>6
<1> QED
  BY <1>1, <1>2, <1>7

\* A word up to its first 0.
LEMMA UpToNulEnds ==
  ASSUME NEW word \in Seq(Byte), Len(word) = Word, HasNul(word)
  PROVE  /\ UpToNul(word) \in Seq(Byte)
         /\ Len(UpToNul(word)) \in 1 .. Word
         /\ \A j \in 1 .. Len(UpToNul(word)) : UpToNul(word)[j] = word[j]
         /\ UpToNul(word)[Len(UpToNul(word))] = 0
<1> USE WordAssumption
<1> DEFINE T == {j \in 1 .. Word : word[j] = 0}
           First(j) == word[j] = 0 /\ \A k \in 1 .. j - 1 : word[k] # 0
           nul == CHOOSE j \in 1 .. Word : First(j)
<1>1. PICK n \in T : \A m \in T : n <= m
  <2>1. T \in SUBSET Nat /\ T # {}
    BY DEF HasNul
  <2> HIDE DEF T
  <2> QED
    BY <2>1, LeastNumber
<1>2. n \in 1 .. Word /\ First(n)
  BY <1>1
<1>3. nul \in 1 .. Word /\ First(nul)
  <2> HIDE DEF First
  <2> QED
    BY <1>2, Zenon
<1>4. UpToNul(word) = SubSeq(word, 1, nul)
  BY Zenon DEF UpToNul
<1> HIDE DEF nul
<1>5. nul \in Int /\ 1 \in Int /\ 1 <= nul /\ \A i \in 1 .. nul : word[i] \in Byte
  BY <1>3
<1>6. /\ SubSeq(word, 1, nul) \in Seq(Byte)
      /\ Len(SubSeq(word, 1, nul)) = nul
      /\ \A i \in 1 .. nul : SubSeq(word, 1, nul)[i] = word[i]
  BY <1>5, SubSeqProperties
<1> QED
  BY <1>3, <1>4, <1>6

\* copyString brings the string up to and with its 0, or as much of it as the
\* buffer has room for.
LEMMA CopyStringReads ==
  ASSUME NEW mem, NEW addr, NEW length, Readable(mem, addr, length)
  PROVE  LET str == copyString(mem, addr, length)
         IN  /\ Len(str) \in 0 .. length
             /\ \A j \in 1 .. Len(str) : str[j] = mem[addr + j - 1]
             /\ Len(str) < length => \E j \in 1 .. Len(str) : str[j] = 0
<1> USE WordAssumption
<1> DEFINE Rhs(w, i) ==
             IF length - i > Word
               THEN IF HasNul(peekData(mem, addr + i)) THEN UpToNul(peekData(mem, addr + i))
                    ELSE peekData(mem, addr + i) \o w[i + Word]
               ELSE IF i # length THEN SubSeq(peekData(mem, addr + i), 1, length - i) ELSE <<>>
           more == {i \in Nat : length - i > Word /\ ~HasNul(peekData(mem, addr + i))}
           word == [i \in Nat |-> peekData(mem, addr + i)]
           end  == [i \in Nat |-> Rhs([j \in Nat |-> <<>>], i)]
           f    == CHOOSE w : w = [i \in Nat |-> Rhs(w, i)]
           Good(i) == i <= length =>
                      /\ f[i] \in Seq(Byte)
                      /\ Len(f[i]) \in 0 .. length - i
                      /\ \A j \in 1 .. Len(f[i]) : f[i][j] = mem[addr + i + j - 1]
                      /\ Len(f[i]) < length - i => \E j \in 1 .. Len(f[i]) : f[i][j] = 0
           P == {i \in Nat : Good(i)}
<1>1. length \in Nat /\ addr \in Nat
  BY DEF Readable
<1>2. copyString(mem, addr, length) = f[0]
  BY Zenon DEF copyString
<1>3. \E w : w = [i \in Nat |-> Rhs(w, i)]
  <2>1. more \in SUBSET Nat /\ \A i \in more : i < length
    BY <1>1
  <2>2. PICK w : Chain(w, more, word, end)
    <3> HIDE DEF more, word, end
    <3> QED
      BY <1>1, <2>1, ChainExists
  <2>3. w = [i \in Nat |-> IF i \in more THEN word[i] \o w[i + Word] ELSE end[i]]
    <3> HIDE DEF more, word, end
    <3> QED
      BY <2>2, Zenon DEF Chain
  <2>4. ASSUME NEW i \in Nat
        PROVE  (IF i \in more THEN word[i] \o w[i + Word] ELSE end[i]) = Rhs(w, i)
    BY <1>1
  <2>5. [i \in Nat |-> IF i \in more THEN word[i] \o w[i + Word] ELSE end[i]]
          = [i \in Nat |-> Rhs(w, i)]
    <3> HIDE DEF more, word, end, Rhs
    <3> QED
      BY <2>4, Zenon
  <2>6. w = [i \in Nat |-> Rhs(w, i)]
    <3> HIDE DEF Rhs, more, word, end
    <3> QED
      BY <2>3, <2>5, Zenon
  <2> HIDE DEF Rhs
  <2> QED
    BY <2>6, Zenon
<1>4. \A i \in Nat : f[i] = Rhs(f, i)
  <2> HIDE DEF Rhs
  <2>1. f = [i \in Nat |-> Rhs(f, i)]
    BY <1>3, Zenon
  <2> HIDE DEF f
  <2> QED
    BY <2>1, Zenon
<1> HIDE DEF f
<1>5. ASSUME NEW i \in Nat, i \in more => Good(i + Word)
      PROVE  Good(i)
  <2> SUFFICES ASSUME i <= length
               PROVE  /\ f[i] \in Seq(Byte)
                      /\ Len(f[i]) \in 0 .. length - i
                      /\ \A j \in 1 .. Len(f[i]) : f[i][j] = mem[addr + i + j - 1]
                      /\ Len(f[i]) < length - i => \E j \in 1 .. Len(f[i]) : f[i][j] = 0
    OBVIOUS
  <2> DEFINE d == peekData(mem, addr + i)
  <2>1. ASSUME i < length
        PROVE  /\ d \in Seq(Byte) /\ Len(d) = Word
               /\ \A j \in 1 .. Word : d[j] = mem[addr + i + j - 1]
    BY <2>1, PeekReads
  <2>2. f[i] = IF length - i > Word
                 THEN IF HasNul(d) THEN UpToNul(d) ELSE d \o f[i + Word]
                 ELSE IF i # length THEN SubSeq(d, 1, length - i) ELSE <<>>
    BY <1>4, Zenon
  <2>3. i \in more <=> length - i > Word /\ ~HasNul(d)
    OBVIOUS
  <2> HIDE DEF d, more
  <2>4. CASE length - i > Word /\ HasNul(d)
    <3>1. f[i] = UpToNul(d) /\ i < length
      BY <1>1, <2>2, <2>4
    <3>2. /\ UpToNul(d) \in Seq(Byte)
          /\ Len(UpToNul(d)) \in 1 .. Word
          /\ \A j \in 1 .. Len(UpToNul(d)) : UpToNul(d)[j] = d[j]
          /\ UpToNul(d)[Len(UpToNul(d))] = 0
      BY <2>1, <2>4, <3>1, UpToNulEnds
    <3> QED
      BY <1>1, <2>1, <2>4, <3>1, <3>2
  <2>5. CASE length - i > Word /\ ~HasNul(d)
    <3> DEFINE b == f[i + Word]
    <3>1. i < length /\ i + Word <= length
      BY <1>1, <2>5
    <3>2. f[i] = d \o b /\ i < length
      BY <2>2, <2>5, <3>1, Zenon
    <3>3. /\ b \in Seq(Byte)
          /\ Len(b) \in 0 .. length - (i + Word)
          /\ \A j \in 1 .. Len(b) : b[j] = mem[addr + (i + Word) + j - 1]
          /\ Len(b) < length - (i + Word) => \E j \in 1 .. Len(b) : b[j] = 0
      BY <1>5, <2>3, <2>5, <3>1, Zenon
    <3> HIDE DEF b
    <3>4. /\ d \o b \in Seq(Byte)
          /\ Len(d \o b) = Len(d) + Len(b)
          /\ \A j \in 1 .. Len(d) + Len(b) :
               (d \o b)[j] = IF j <= Len(d) THEN d[j] ELSE b[j - Len(d)]
      BY <2>1, <3>2, <3>3, ConcatProperties
    <3>5. /\ f[i] \in Seq(Byte)
          /\ Len(f[i]) = Word + Len(b)
          /\ \A j \in 1 .. Word + Len(b) : f[i][j] = IF j <= Word THEN d[j] ELSE b[j - Word]
      BY <2>1, <3>2, <3>4, Zenon
    <3>6. ASSUME NEW j \in 1 .. Len(f[i])
          PROVE  f[i][j] = mem[addr + i + j - 1]
      <4>1. CASE j <= Word
        <5>1. j \in 1 .. Word /\ j \in 1 .. Word + Len(b)
          BY <3>3, <3>5, <4>1
        <5> QED
          BY <2>1, <3>2, <3>5, <4>1, <5>1, Zenon
      <4>2. CASE j > Word
        <5>1. j - Word \in 1 .. Len(b) /\ j \in 1 .. Word + Len(b)
          BY <3>3, <3>5, <4>2
        <5>2. addr + (i + Word) + (j - Word) - 1 = addr + i + j - 1
          BY <1>1
        <5> QED
          BY <3>3, <3>5, <4>2, <5>1, <5>2, SMTT(30)
      <4> QED
        BY <4>1, <4>2
    <3>7. ASSUME Len(f[i]) < length - i
          PROVE  \E j \in 1 .. Len(f[i]) : f[i][j] = 0
      <4>1. Len(b) < length - (i + Word)
        BY <1>1, <3>3, <3>5, <3>7
      <4>2. PICK j \in 1 .. Len(b) : b[j] = 0
        BY <3>3, <4>1
      <4> DEFINE m == j + Word
      <4>3. m \in 1 .. Word + Len(b) /\ ~(m <= Word) /\ m - Word = j
        BY <3>3
      <4> HIDE DEF m
      <4>4. f[i][m] = 0
        BY <3>5, <4>2, <4>3
      <4> QED
        BY <3>5, <4>3, <4>4, Zenon
    <3> QED
      BY <1>1, <2>5, <3>3, <3>5, <3>6, <3>7
  <2>6. CASE length - i <= Word /\ i # length
    <3>1. f[i] = SubSeq(d, 1, length - i) /\ i < length
      BY <1>1, <2>2, <2>6
    <3>2. /\ length - i \in Int /\ 1 \in Int /\ 1 <= length - i
          /\ \A j \in 1 .. length - i : d[j] \in Byte
      BY <1>1, <2>1, <2>6, <3>1
    <3>3. /\ SubSeq(d, 1, length - i) \in Seq(Byte)
          /\ Len(SubSeq(d, 1, length - i)) = length - i
          /\ \A j \in 1 .. length - i : SubSeq(d, 1, length - i)[j] = d[j]
      BY <3>2, SubSeqProperties
    <3> QED
      BY <1>1, <2>1, <2>6, <3>1, <3>3
  <2>7. CASE i = length
    <3>1. f[i] = <<>>
      BY <1>1, <2>2, <2>7
    <3> QED
      BY <1>1, <2>7, <3>1
  <2> QED
    BY <1>1, <2>4, <2>5, <2>6, <2>7
<1>6. P = Nat
  <2>1. more \in SUBSET Nat /\ \A i \in more : i < length
    BY <1>1
  <2>2. P \in SUBSET Nat /\ \A i \in Nat : (i \in more => i + Word \in P) => i \in P
    <3> HIDE DEF more
    <3> QED
      BY <1>5
  <2> HIDE DEF more, P
  <2> QED
    BY <1>1, <2>1, <2>2, ChainInduction
<1>7. Good(0)
  BY <1>6
<1> QED
  BY <1>1, <1>2, <1>7

-----------------------------------------------------------------------------
(* Writing.                                                                 *)

\* The memory with the first n bytes of the buffer written to it.
Written(mem, addr, buf, n) ==
  [x \in DOMAIN mem |-> IF x \in addr .. addr + n - 1 THEN buf[x - addr + 1] ELSE mem[x]]

\* A full word more.
LEMMA WriteWord ==
  ASSUME NEW mem, NEW addr \in Nat, NEW buf \in Seq(Byte), DOMAIN mem \subseteq Nat,
         NEW i \in Nat, i + Word <= Len(buf)
  PROVE  pokeData(Written(mem, addr, buf, i), addr + i, SubSeq(buf, i + 1, i + Word))
           = Written(mem, addr, buf, i + Word)
<1> USE WordAssumption
<1> DEFINE m == Written(mem, addr, buf, i)
           word == SubSeq(buf, i + 1, i + Word)
<1>1. DOMAIN m = DOMAIN mem
  BY DEF Written
<1>2. \A j \in 1 .. Word : word[j] = buf[i + j]
  <2> DEFINE first == i + 1
             end == i + Word
             S == Byte
  <2>1. first \in Int /\ end \in Int /\ \A j \in first .. end : buf[j] \in S
    OBVIOUS
  <2>2. end - first + 1 = Word /\ \A j \in Nat : first + j - 1 = i + j
    OBVIOUS
  <2> HIDE DEF first, end, S
  <2>3. \A j \in 1 .. end - first + 1 : SubSeq(buf, first, end)[j] = buf[first + j - 1]
    BY <2>1, SubSeqProperties
  <2>4. word = SubSeq(buf, first, end)
    BY Zenon DEF first, end
  <2> HIDE DEF word
  <2> TAKE j \in 1 .. Word
  <2>5. j \in Nat /\ j \in 1 .. end - first + 1
    BY <2>2
  <2> QED
    BY <2>2, <2>3, <2>4, <2>5, Zenon
<1>3. ASSUME NEW x \in DOMAIN mem
      PROVE  (IF x \in addr + i .. addr + i + Word - 1 THEN word[x - (addr + i) + 1] ELSE m[x])
               = IF x \in addr .. addr + (i + Word) - 1 THEN buf[x - addr + 1] ELSE mem[x]
  <2>1. x \in Nat
    OBVIOUS
  <2>2. m[x] = IF x \in addr .. addr + i - 1 THEN buf[x - addr + 1] ELSE mem[x]
    BY DEF Written
  <2>3. ASSUME x \in addr + i .. addr + i + Word - 1
        PROVE  /\ x - (addr + i) + 1 \in 1 .. Word /\ i + (x - (addr + i) + 1) = x - addr + 1
               /\ x \in addr .. addr + (i + Word) - 1
    BY <2>1, <2>3, SMTT(30)
  <2>4. x \notin addr + i .. addr + i + Word - 1 =>
          (x \in addr .. addr + (i + Word) - 1 <=> x \in addr .. addr + i - 1)
    BY <2>1
  <2> HIDE DEF word, m
  <2>5. x \in addr + i .. addr + i + Word - 1 =>
          word[x - (addr + i) + 1] = buf[x - addr + 1]
    BY <1>2, <2>3, SMTT(30)
  <2> QED
    BY <2>2, <2>3, <2>4, <2>5, Zenon
<1> HIDE DEF word, m
<1>4. pokeData(m, addr + i, word)
        = [x \in DOMAIN mem |-> IF x \in addr + i .. addr + i + Word - 1
                                  THEN word[x - (addr + i) + 1] ELSE m[x]]
  BY <1>1, Zenon DEF pokeData
<1>5. pokeData(m, addr + i, word) = Written(mem, addr, buf, i + Word)
  BY <1>3, <1>4, Zenon DEF Written
<1> QED
  BY <1>5 DEF m, word

\* The last bytes, in a word that is otherwise what was there.
LEMMA WriteRest ==
  ASSUME NEW mem, NEW addr \in Nat, NEW buf \in Seq(Byte), DOMAIN mem \subseteq Nat,
         NEW i \in Nat, i < Len(buf), Len(buf) <= i + Word
  PROVE  LET m == Written(mem, addr, buf, i)
             length == Len(buf)
         IN  pokeData(m, addr + i, SubSeq(buf, i + 1, length)
                        \o SubSeq(peekData(m, addr + i), length - i + 1, Word))
               = Written(mem, addr, buf, length)
<1> USE WordAssumption
<1> DEFINE m == Written(mem, addr, buf, i)
           length == Len(buf)
           old == peekData(m, addr + i)
           S == Byte \cup {m[addr + i + j - 1] : j \in 1 .. Word}
           a == SubSeq(buf, i + 1, length)
           b == SubSeq(old, length - i + 1, Word)
<1>1. DOMAIN m = DOMAIN mem
  BY DEF Written
<1>2. length \in Nat /\ length - i \in 1 .. Word
  OBVIOUS
<1>3. /\ a \in Seq(S) /\ Len(a) = length - i
      /\ \A j \in 1 .. length - i : a[j] = buf[i + j]
  <2>1. i + 1 \in Int /\ length \in Int /\ \A j \in i + 1 .. length : buf[j] \in S
    OBVIOUS
  <2> HIDE DEF S, length
  <2>2. /\ a \in Seq(S) /\ Len(a) = IF i + 1 <= length THEN length - (i + 1) + 1 ELSE 0
        /\ \A j \in 1 .. length - (i + 1) + 1 : a[j] = buf[(i + 1) + j - 1]
    BY <2>1, SubSeqProperties, SMTT(30)
  <2> QED
    BY <1>2, <2>2
<1>4. \A j \in 1 .. Word : old[j] = m[addr + i + j - 1] /\ old[j] \in S
  BY DEF peekData, Slice
<1>5. /\ b \in Seq(S) /\ Len(b) = Word - (length - i)
      /\ \A j \in 1 .. Word - (length - i) : b[j] = old[(length - i) + j]
  <2> HIDE DEF S, length, old
  <2>1. /\ length - i + 1 \in Int /\ Word \in Int
        /\ \A j \in length - i + 1 .. Word : old[j] \in S
    BY <1>2, <1>4
  <2>2. /\ b \in Seq(S)
        /\ Len(b) = IF length - i + 1 <= Word THEN Word - (length - i + 1) + 1 ELSE 0
        /\ \A j \in 1 .. Word - (length - i + 1) + 1 : b[j] = old[(length - i + 1) + j - 1]
    BY <2>1, SubSeqProperties
  <2> QED
    BY <1>2, <2>2
<1> HIDE DEF S, a, b, old, m, length
<1>6. \A j \in 1 .. Word : (a \o b)[j] = IF j <= length - i THEN buf[i + j] ELSE m[addr + i + j - 1]
  <2>1. \A j \in 1 .. Len(a) + Len(b) : (a \o b)[j] = IF j <= Len(a) THEN a[j] ELSE b[j - Len(a)]
    BY <1>3, <1>5, ConcatProperties, SMTT(30)
  <2> TAKE j \in 1 .. Word
  <2>2. j \in 1 .. Len(a) + Len(b)
    BY <1>2, <1>3, <1>5
  <2>3. CASE j <= length - i
    <3>1. j \in 1 .. length - i
      BY <1>2, <2>3
    <3> QED
      BY <1>3, <2>1, <2>2, <2>3, <3>1, Zenon
  <2>4. CASE ~(j <= length - i)
    <3> DEFINE k == j - (length - i)
    <3>1. k \in 1 .. Word - (length - i) /\ (length - i) + k = j
      BY <1>2, <2>4
    <3>2. (a \o b)[j] = b[k]
      BY <1>3, <2>1, <2>2, <2>4, Zenon
    <3> HIDE DEF k
    <3>3. b[k] = old[j]
      BY <1>5, <3>1
    <3> QED
      BY <1>4, <2>4, <3>2, <3>3, Zenon
  <2> QED
    BY <2>3, <2>4
<1>7. ASSUME NEW x \in DOMAIN mem
      PROVE  (IF x \in addr + i .. addr + i + Word - 1 THEN (a \o b)[x - (addr + i) + 1] ELSE m[x])
               = IF x \in addr .. addr + length - 1 THEN buf[x - addr + 1] ELSE mem[x]
  <2>1. x \in Nat
    OBVIOUS
  <2>2. m[x] = IF x \in addr .. addr + i - 1 THEN buf[x - addr + 1] ELSE mem[x]
    BY DEF Written, m
  <2>3. CASE x \in addr + i .. addr + length - 1
    <3> DEFINE j == x - (addr + i) + 1
    <3>1. /\ x \in addr + i .. addr + i + Word - 1
          /\ x \in addr .. addr + length - 1
          /\ j \in 1 .. Word /\ j <= length - i /\ i + j = x - addr + 1
      <4>1. length \in Int /\ length - i <= Word /\ x \in Int /\ addr + i <= x /\ x <= addr + length - 1
        BY <1>2, <2>1, <2>3
      <4> QED
        BY <4>1, SMTT(30)
    <3>2. (a \o b)[j] = buf[x - addr + 1]
      <4> HIDE DEF j
      <4> QED
        BY <1>6, <3>1
    <3> QED
      BY <3>1, <3>2, Zenon
  <2>4. CASE x \in addr + length .. addr + i + Word - 1
    <3> DEFINE j == x - (addr + i) + 1
    <3>1. /\ x \in addr + i .. addr + i + Word - 1
          /\ x \notin addr .. addr + length - 1 /\ x \notin addr .. addr + i - 1
          /\ j \in 1 .. Word /\ ~(j <= length - i) /\ addr + i + j - 1 = x
      <4>1. /\ length \in Int /\ i < length /\ x \in Int
            /\ addr + length <= x /\ x <= addr + i + Word - 1
        BY <1>2, <2>1, <2>4
      <4> QED
        BY <4>1, SMTT(30)
    <3>2. (a \o b)[j] = m[x]
      <4> HIDE DEF j
      <4> QED
        BY <1>6, <3>1
    <3> QED
      BY <2>2, <3>1, <3>2, Zenon
  <2>5. CASE x \notin addr + i .. addr + i + Word - 1
    <3>1. x \in addr .. addr + length - 1 <=> x \in addr .. addr + i - 1
      BY <1>2, <2>1, <2>5
    <3> QED
      BY <2>2, <2>5, <3>1, Zenon
  <2>6. \/ x \in addr + i .. addr + length - 1
        \/ x \in addr + length .. addr + i + Word - 1
        \/ x \notin addr + i .. addr + i + Word - 1
    BY <1>2, <2>1
  <2> QED
    BY <2>3, <2>4, <2>5, <2>6, Zenon
<1>8. pokeData(m, addr + i, a \o b)
        = [x \in DOMAIN mem |-> IF x \in addr + i .. addr + i + Word - 1
                                  THEN (a \o b)[x - (addr + i) + 1] ELSE m[x]]
  BY <1>1, Zenon DEF pokeData
<1>9. pokeData(m, addr + i, a \o b) = Written(mem, addr, buf, length)
  BY <1>7, <1>8, Zenon DEF Written
<1> QED
  BY <1>9 DEF m, a, b, old, length

\* As many words as writeData takes are enough for the whole buffer.
LEMMA WordsCover ==
  ASSUME NEW n \in Nat, NEW w \in Nat \ {0}
  PROVE  n \div w \in Nat /\ n < w * (n \div w + 1)
<1>1. w \in Nat /\ 0 < w
  OBVIOUS
<1>2. n \div w \in Nat
  BY <1>1
<1>3. n < w * (n \div w + 1)
  BY <1>1
<1> QED
  BY <1>2, <1>3

\* The buffer arrives, and no other byte of the program changes.
LEMMA WriteDataWrites ==
  ASSUME NEW mem, NEW addr \in Nat, NEW buf \in Seq(Byte), DOMAIN mem \subseteq Nat,
         mem = [x \in DOMAIN mem |-> mem[x]]
  PROVE  writeData(mem, addr, buf) = Written(mem, addr, buf, Len(buf))
<1> USE WordAssumption
<1> DEFINE length == Len(buf)
           at(k) == k * Word
           upTo(k) == IF at(k) <= length THEN at(k) ELSE length
           Rhs(f, k) ==
             IF k = 0 THEN mem
             ELSE IF length - (k - 1) * Word > Word
               THEN pokeData(f[k - 1], addr + (k - 1) * Word,
                      SubSeq(buf, (k - 1) * Word + 1, (k - 1) * Word + Word))
             ELSE IF length > (k - 1) * Word
               THEN pokeData(f[k - 1], addr + (k - 1) * Word,
                      SubSeq(buf, (k - 1) * Word + 1, length)
                        \o SubSeq(peekData(f[k - 1], addr + (k - 1) * Word),
                                  length - (k - 1) * Word + 1, Word))
             ELSE f[k - 1]
           g == [k \in Nat |-> Written(mem, addr, buf, upTo(k))]
           f == CHOOSE w : w = [k \in Nat |-> Rhs(w, k)]
           last == length \div Word + 1
<1>1. length \in Nat
  OBVIOUS
<1>2. \A k \in Nat : at(k) \in Nat
  OBVIOUS
<1>3. at(0) = 0 /\ \A k \in Nat \ {0} : k - 1 \in Nat /\ at(k) = at(k - 1) + Word
  OBVIOUS
<1>4. writeData(mem, addr, buf) = f[last]
  BY Zenon DEF writeData
<1>5. ASSUME NEW k \in Nat, NEW w, k # 0 => w[k - 1] = Written(mem, addr, buf, upTo(k - 1))
      PROVE  Rhs(w, k) = Written(mem, addr, buf, upTo(k))
  <2>1. CASE k = 0
    <3>1. upTo(0) = 0
      BY <1>1, <1>3
    <3>2. \A x \in DOMAIN mem : x \notin addr .. addr + 0 - 1
      OBVIOUS
    <3>3. Written(mem, addr, buf, 0) = mem
      BY <3>2, Zenon DEF Written
    <3>4. Rhs(w, 0) = mem
      BY Zenon
    <3> HIDE DEF upTo, Rhs
    <3> QED
      BY <2>1, <3>1, <3>3, <3>4, Zenon
  <2>2. CASE k # 0
    <3> DEFINE i == (k - 1) * Word
               m == w[k - 1]
    <3>1. i \in Nat /\ i = at(k - 1) /\ at(k) = i + Word
      BY <1>2, <1>3, <2>2
    <3>2. Rhs(w, k) =
            IF length - i > Word THEN pokeData(m, addr + i, SubSeq(buf, i + 1, i + Word))
            ELSE IF length > i
              THEN pokeData(m, addr + i, SubSeq(buf, i + 1, length)
                     \o SubSeq(peekData(m, addr + i), length - i + 1, Word))
            ELSE m
      BY <2>2, Zenon
    <3>3. m = Written(mem, addr, buf, upTo(k - 1))
      BY <1>5, <2>2
    <3>4. upTo(k - 1) = (IF i <= length THEN i ELSE length)
          /\ upTo(k) = (IF i + Word <= length THEN i + Word ELSE length)
      BY <3>1
    <3> HIDE DEF i, m, upTo, Rhs, at, length
    <3>5. CASE length - i > Word
      <4>1. i <= length /\ i + Word <= length
        BY <1>1, <3>1, <3>5
      <4>2. /\ upTo(k - 1) = i /\ upTo(k) = i + Word /\ i + Word <= length
            /\ Rhs(w, k) = pokeData(m, addr + i, SubSeq(buf, i + 1, i + Word))
        BY <3>2, <3>4, <3>5, <4>1, Zenon
      <4>3. pokeData(Written(mem, addr, buf, i), addr + i, SubSeq(buf, i + 1, i + Word))
              = Written(mem, addr, buf, i + Word)
        <5>1. i \in Nat /\ i + Word <= Len(buf)
          BY <3>1, <4>1 DEF length
        <5>2. \A n \in Nat : n + Word <= Len(buf) =>
                pokeData(Written(mem, addr, buf, n), addr + n, SubSeq(buf, n + 1, n + Word))
                  = Written(mem, addr, buf, n + Word)
          BY WriteWord
        <5> QED
          BY <5>1, <5>2, Zenon
      <4> QED
        BY <3>3, <4>2, <4>3, Zenon
    <3>6. CASE ~(length - i > Word) /\ length > i
      <4>1. i <= length /\ i < length /\ length <= i + Word /\ (i + Word <= length => i + Word = length)
        BY <1>1, <3>1, <3>6, SMTT(30)
      <4>2. /\ upTo(k - 1) = i /\ upTo(k) = length
            /\ Rhs(w, k) = pokeData(m, addr + i, SubSeq(buf, i + 1, length)
                             \o SubSeq(peekData(m, addr + i), length - i + 1, Word))
        BY <3>2, <3>4, <3>6, <4>1, Zenon
      <4>3. pokeData(Written(mem, addr, buf, i), addr + i, SubSeq(buf, i + 1, length)
                       \o SubSeq(peekData(Written(mem, addr, buf, i), addr + i), length - i + 1, Word))
              = Written(mem, addr, buf, length)
        BY <3>1, <4>1, WriteRest, ZenonT(30) DEF length
      <4> QED
        BY <3>3, <4>2, <4>3, Zenon
    <3>7. CASE ~(length > i)
      <4>1. upTo(k - 1) = length /\ upTo(k) = length /\ Rhs(w, k) = m
        BY <1>1, <3>1, <3>2, <3>4, <3>7
      <4> QED
        BY <3>3, <4>1, Zenon
    <3> QED
      BY <3>5, <3>6, <3>7
  <2> QED
    BY <2>1, <2>2
<1> HIDE DEF Rhs, upTo
<1>6. g = [k \in Nat |-> Rhs(g, k)]
  <2>1. ASSUME NEW k \in Nat
        PROVE  Rhs(g, k) = Written(mem, addr, buf, upTo(k))
    <3>1. k # 0 => k - 1 \in Nat
      OBVIOUS
    <3>2. k # 0 => g[k - 1] = Written(mem, addr, buf, upTo(k - 1))
      BY <3>1, Zenon
    <3> HIDE DEF g
    <3> QED
      BY <1>5, <3>2
  <2>2. g = [k \in Nat |-> Written(mem, addr, buf, upTo(k))]
    OBVIOUS
  <2> HIDE DEF g
  <2> QED
    BY <2>1, <2>2, Zenon
<1>7. f = [k \in Nat |-> Rhs(f, k)]
  <2> HIDE DEF g
  <2> QED
    BY <1>6, Zenon
<1> HIDE DEF f, g
<1>8. \A k \in Nat : f[k] = Written(mem, addr, buf, upTo(k))
  <2> DEFINE T == {k \in Nat : f[k] = Written(mem, addr, buf, upTo(k))}
  <2>1. \A k \in Nat : f[k] = Rhs(f, k)
    BY <1>7, Zenon
  <2>2. 0 \in T
    BY <1>5, <2>1
  <2>3. ASSUME NEW k \in T PROVE k + 1 \in T
    <3>1. k + 1 \in Nat /\ (k + 1) - 1 = k /\ f[k] = Written(mem, addr, buf, upTo(k))
      OBVIOUS
    <3>2. Rhs(f, k + 1) = Written(mem, addr, buf, upTo(k + 1))
      BY <1>5, <3>1
    <3> QED
      BY <2>1, <3>1, <3>2
  <2>4. T \in SUBSET Nat
    OBVIOUS
  <2>5. T = Nat
    <3> HIDE DEF T
    <3> QED
      BY <2>2, <2>3, <2>4, SetInduction
  <2> QED
    BY <2>5
<1>9. last \in Nat /\ length <= at(last)
  <2>1. length \div Word \in Nat /\ length < Word * (length \div Word + 1)
    BY <1>1, WordsCover
  <2> DEFINE q == length \div Word
  <2>2. q \in Nat /\ length < Word * (q + 1)
    BY <2>1
  <2> HIDE DEF q, length
  <2>3. Word * (q + 1) = (q + 1) * Word /\ q + 1 \in Nat /\ (q + 1) * Word \in Nat
    BY <2>2
  <2>4. length <= (q + 1) * Word
    BY <1>1, <2>2, <2>3
  <2> QED
    BY <2>3, <2>4 DEF q
<1>10. upTo(last) = length
  BY <1>1, <1>9 DEF upTo
<1> QED
  BY <1>4, <1>8, <1>9, <1>10, Zenon

\* A multiple of the size of a word, at or behind the end of what was written.
LEMMA NextScratchAligned ==
  ASSUME NEW addr \in Nat, NEW length \in Nat
  PROVE  /\ nextScratch(addr, length) \in Nat
         /\ addr + length <= nextScratch(addr, length)
         /\ nextScratch(addr, length) % Word = 0
<1> USE WordAssumption
<1> DEFINE n == addr + length
           q == n \div Word
           r == n % Word
<1>1. n \in Nat /\ Word \in Nat /\ 0 < Word
  OBVIOUS
<1> HIDE DEF n
<1>2. r = n - Word * q
  BY <1>1
<1>3. q \in Nat
  BY <1>1
<1>4. r \in Nat /\ r < Word
  BY <1>1
<1>5. nextScratch(addr, length) = IF r # 0 THEN n + Word - r ELSE n
  BY Zenon DEF nextScratch, n
<1>6. CASE r # 0
  <2> DEFINE p == q + 1
  <2> HIDE DEF q, r
  <2>1. Word * p = Word * q + Word /\ p \in Nat
    BY <1>1, <1>3
  <2> HIDE DEF p
  <2>2. (Word * p) % Word = 0
    BY <1>1, <2>1
  <2>3. n + Word - r = Word * p
    BY <1>1, <1>2, <1>3, <1>4, <2>1
  <2>4. n <= n + Word - r /\ n + Word - r \in Nat
    BY <1>1, <1>4
  <2> QED
    BY <1>5, <1>6, <2>2, <2>3, <2>4 DEF n
<1>7. CASE r = 0
  BY <1>1, <1>5, <1>7 DEF n
<1> QED
  BY <1>6, <1>7

\* Segment k is there, wherever there is memory, and ends at or before the
\* place for the next one.
SegmentThere(mem, addr, bufs, done, k) ==
  /\ done.addrs[k] \in Nat /\ addr <= done.addrs[k]
  /\ done.addrs[k] + Len(bufs[k]) <= done.next
  /\ addr % Word = 0 => done.addrs[k] % Word = 0
  /\ \A x \in DOMAIN mem :
       x \in done.addrs[k] .. done.addrs[k] + Len(bufs[k]) - 1 =>
         done.mem[x] = bufs[k][x - done.addrs[k] + 1]

\* Every segment is there behind the last one.
LEMMA ScratchWrites ==
  ASSUME NEW mem, NEW addr \in Nat, NEW bufs \in Seq(Seq(Byte)), DOMAIN mem \subseteq Nat,
         mem = [x \in DOMAIN mem |-> mem[x]]
  PROVE  LET done == writeScratch(mem, addr, bufs)
         IN  /\ done.next \in Nat /\ DOMAIN done.mem = DOMAIN mem
             /\ \A k \in 1 .. Len(bufs) : SegmentThere(mem, addr, bufs, done, k)
<1> USE WordAssumption
<1> DEFINE n == Len(bufs)
           Rhs(f, k) == IF k = 0 THEN [mem |-> mem, addrs |-> <<>>, next |-> addr]
                        ELSE LET s == f[k - 1] IN
                             [mem   |-> writeData(s.mem, s.next, bufs[k]),
                              addrs |-> Append(s.addrs, s.next),
                              next  |-> nextScratch(s.next, Len(bufs[k]))]
           f == CHOOSE w : w = [k \in 0 .. n |-> Rhs(w, k)]
           Kept(s, i) == SegmentThere(mem, addr, bufs, s, i)
           Good(s, k) ==
             /\ s.next \in Nat /\ addr <= s.next
             /\ addr % Word = 0 => s.next % Word = 0
             /\ DOMAIN s.mem = DOMAIN mem /\ s.mem = [x \in DOMAIN mem |-> s.mem[x]]
             /\ s.addrs \in Seq(Nat) /\ Len(s.addrs) = k
             /\ \A i \in 1 .. k : Kept(s, i)
<1>1. n \in Nat
  OBVIOUS
<1>2. writeScratch(mem, addr, bufs) = f[n]
  BY Zenon DEF writeScratch
<1>3. \E w : w = [k \in 0 .. n |-> Rhs(w, k)]
  <2> DEFINE Holds(w, j) == \A k \in 0 .. j : w[k] = Rhs(w, k)
             T == {j \in Nat : \E w : Holds(w, j)}
  <2> HIDE DEF n
  <2>1. 0 \in T
    <3> DEFINE w == [k \in 0 .. 0 |-> [mem |-> mem, addrs |-> <<>>, next |-> addr]]
    <3>1. Holds(w, 0)
      OBVIOUS
    <3> QED
      BY <3>1, Zenon
  <2>2. ASSUME NEW j \in T PROVE j + 1 \in T
    <3>1. PICK w : Holds(w, j)
      OBVIOUS
    <3> DEFINE v == [k \in 0 .. j + 1 |-> IF k = j + 1 THEN Rhs(w, j + 1) ELSE w[k]]
    <3>2. ASSUME NEW k \in 0 .. j + 1 PROVE v[k] = Rhs(v, k)
      <4>1. v[k] = IF k = j + 1 THEN Rhs(w, j + 1) ELSE w[k]
        OBVIOUS
      <4>2. k # 0 => k - 1 \in 0 .. j + 1 /\ k - 1 # j + 1
        OBVIOUS
      <4>3. k # 0 => v[k - 1] = w[k - 1]
        BY <4>2
      <4> HIDE DEF v
      <4>4. Rhs(v, k) = Rhs(w, k)
        BY <4>3, Zenon
      <4>5. k # j + 1 => k \in 0 .. j
        OBVIOUS
      <4> HIDE DEF Rhs
      <4> QED
        BY <3>1, <4>1, <4>4, <4>5, Zenon
    <3>3. j + 1 \in Nat
      OBVIOUS
    <3> HIDE DEF v, Rhs
    <3>4. Holds(v, j + 1)
      BY <3>2
    <3> QED
      BY <3>3, <3>4, Zenon
  <2>3. T = Nat
    <3>1. T \in SUBSET Nat
      OBVIOUS
    <3> HIDE DEF T
    <3> QED
      BY <2>1, <2>2, <3>1, SetInduction
  <2>4. PICK w : Holds(w, n)
    BY <1>1, <2>3
  <2> DEFINE v == [k \in 0 .. n |-> w[k]]
  <2>5. ASSUME NEW k \in 0 .. n PROVE v[k] = Rhs(v, k)
    <3>1. k # 0 => k - 1 \in 0 .. n
      BY <1>1
    <3>2. v[k] = w[k] /\ (k # 0 => v[k - 1] = w[k - 1])
      BY <3>1
    <3> HIDE DEF v
    <3>3. Rhs(v, k) = Rhs(w, k)
      BY <3>2, Zenon
    <3> HIDE DEF Rhs
    <3> QED
      BY <2>4, <3>2, <3>3, Zenon
  <2>6. v = [k \in 0 .. n |-> v[k]]
    OBVIOUS
  <2> HIDE DEF v, Rhs
  <2>7. v = [k \in 0 .. n |-> Rhs(v, k)]
    BY <2>5, <2>6, Zenon
  <2> QED
    BY <2>7, Zenon
<1>4. \A k \in 0 .. n : f[k] = Rhs(f, k)
  <2> HIDE DEF Rhs
  <2>1. f = [k \in 0 .. n |-> Rhs(f, k)]
    BY <1>3, Zenon
  <2> HIDE DEF f, n
  <2> QED
    BY <2>1, Zenon
<1> HIDE DEF f, n
<1>5. Good(f[0], 0)
  <2>1. 0 \in 0 .. n
    BY <1>1
  <2>2. f[0] = [mem |-> mem, addrs |-> <<>>, next |-> addr]
    BY <1>4, <2>1, Zenon
  <2> QED
    BY <2>2
<1>6. ASSUME NEW k \in 1 .. n, Good(f[k - 1], k - 1)
      PROVE  Good(f[k], k)
  <2> DEFINE s == f[k - 1]
             t == f[k]
             buf == bufs[k]
             m == s.mem
  <2>1. buf \in Seq(Byte) /\ Len(buf) \in Nat /\ k \in Nat /\ k - 1 \in Nat
    BY <1>1 DEF n
  <2>2. /\ t.mem = writeData(m, s.next, buf)
        /\ t.addrs = Append(s.addrs, s.next)
        /\ t.next = nextScratch(s.next, Len(buf))
    <3>1. k \in 0 .. n /\ k # 0
      BY <1>1
    <3> HIDE DEF n
    <3>2. f[k] = Rhs(f, k)
      BY <1>4, <3>1
    <3> QED
      BY <3>1, <3>2
  <2>3. /\ s.next \in Nat /\ addr <= s.next /\ (addr % Word = 0 => s.next % Word = 0)
        /\ DOMAIN m = DOMAIN mem /\ m = [x \in DOMAIN mem |-> m[x]]
        /\ s.addrs \in Seq(Nat) /\ Len(s.addrs) = k - 1
    BY <1>6
  <2>4. \A i \in 1 .. k - 1 : Kept(s, i)
    BY <1>6
  <2> HIDE DEF s, t, buf, m
  <2>5. t.mem = Written(m, s.next, buf, Len(buf))
    BY <2>1, <2>2, <2>3, WriteDataWrites
  <2>6. /\ t.next \in Nat /\ s.next + Len(buf) <= t.next /\ t.next % Word = 0
    BY <2>1, <2>2, <2>3, NextScratchAligned
  <2>7. DOMAIN t.mem = DOMAIN mem /\ t.mem = [x \in DOMAIN mem |-> t.mem[x]]
    BY <2>3, <2>5 DEF Written
  <2>8. ASSUME NEW x \in DOMAIN mem
        PROVE  t.mem[x] = IF x \in s.next .. s.next + Len(buf) - 1
                            THEN buf[x - s.next + 1] ELSE m[x]
    BY <2>3, <2>5 DEF Written
  <2>9. /\ t.addrs \in Seq(Nat) /\ Len(t.addrs) = k /\ t.addrs[k] = s.next
        /\ \A i \in 1 .. k - 1 : t.addrs[i] = s.addrs[i]
    BY <2>1, <2>2, <2>3
  <2>10. Kept(t, k)
    <3>1. /\ t.addrs[k] \in Nat /\ addr <= t.addrs[k]
          /\ t.addrs[k] + Len(buf) <= t.next
          /\ addr % Word = 0 => t.addrs[k] % Word = 0
      BY <2>3, <2>6, <2>9
    <3>2. \A x \in DOMAIN mem :
            x \in t.addrs[k] .. t.addrs[k] + Len(buf) - 1 => t.mem[x] = buf[x - t.addrs[k] + 1]
      BY <2>8, <2>9, Zenon
    <3> QED
      BY <3>1, <3>2, Zenon DEF buf, SegmentThere
  <2>11. ASSUME NEW i \in 1 .. k - 1 PROVE Kept(t, i)
    <3> DEFINE at == s.addrs[i]
               old == bufs[i]
    <3>1. /\ at \in Nat /\ addr <= at /\ at + Len(old) <= s.next
          /\ addr % Word = 0 => at % Word = 0
          /\ \A x \in DOMAIN mem :
               x \in at .. at + Len(old) - 1 => m[x] = old[x - at + 1]
      BY <2>4, Zenon DEF m, SegmentThere
    <3>2. t.addrs[i] = at
      BY <2>9
    <3>3. Len(old) \in Nat
      <4>1. i \in 1 .. Len(bufs)
        BY <1>1, <2>1 DEF n
      <4> QED
        BY <4>1
    <3> HIDE DEF at, old
    <3>4. at + Len(old) <= t.next
      BY <2>1, <2>3, <2>6, <3>1, <3>3, SMTT(30)
    <3>5. ASSUME NEW x \in DOMAIN mem, x \in at .. at + Len(old) - 1
          PROVE  t.mem[x] = old[x - at + 1]
      <4>1. x \notin s.next .. s.next + Len(buf) - 1
        BY <2>1, <2>3, <3>1, <3>3, <3>5, SMTT(30)
      <4> QED
        BY <2>8, <3>1, <3>5, <4>1, Zenon
    <3> QED
      BY <3>1, <3>2, <3>4, <3>5, Zenon DEF old, SegmentThere
  <2>12. \A i \in 1 .. k : i = k \/ i \in 1 .. k - 1
    BY <2>1
  <2>13. addr <= t.next
    BY <2>1, <2>3, <2>6
  <2>14. \A i \in 1 .. k : Kept(t, i)
    BY <2>10, <2>11, <2>12, Zenon
  <2> HIDE DEF Kept
  <2> QED
    BY <2>6, <2>7, <2>9, <2>13, <2>14, Zenon DEF t
<1>7. \A k \in Nat : k <= n => Good(f[k], k)
  <2> DEFINE T == {k \in Nat : k <= n => Good(f[k], k)}
  <2> HIDE DEF Good
  <2>1. 0 \in T
    BY <1>5
  <2>2. ASSUME NEW k \in T PROVE k + 1 \in T
    <3>1. k \in Nat /\ k + 1 \in Nat
      OBVIOUS
    <3>2. ASSUME k + 1 <= n PROVE Good(f[k + 1], k + 1)
      <4>1. k + 1 \in 1 .. n /\ (k + 1) - 1 = k /\ k <= n
        <5> HIDE DEF T
        <5> QED
          BY <1>1, <3>1, <3>2
      <4>2. Good(f[k], k)
        BY <4>1
      <4> DEFINE j == k + 1
      <4>3. j \in 1 .. n /\ Good(f[j - 1], j - 1)
        BY <4>1, <4>2
      <4> HIDE DEF j
      <4>4. Good(f[j], j)
        BY <1>6, <4>3
      <4> QED
        BY <4>4 DEF j
    <3> QED
      BY <3>1, <3>2
  <2>3. T \in SUBSET Nat
    OBVIOUS
  <2>4. T = Nat
    <3> HIDE DEF T
    <3> QED
      BY <2>1, <2>2, <2>3, SetInduction
  <2> QED
    BY <2>4
<1>8. Good(f[n], n)
  <2> HIDE DEF Good
  <2> QED
    BY <1>1, <1>7
<1> QED
  BY <1>2, <1>8, Zenon DEF n

-----------------------------------------------------------------------------
(* The properties.                                                          *)

\* What the host reads of the program's memory is what is there
\* (copyData, copyString).
THEOREM ReadsAreRight == Spec => []ReadsRight
<1>1. Init => ReadsRight
  <2> SUFFICES ASSUME Init, input.kind = "transfer" PROVE ReadsRight
    BY DEF ReadsRight
  <2> DEFINE mem == input.mem
             addr == input.addr
             length == Len(input.buf)
  <2>1. Transfer(input)
    BY DEF Init, Transfer, Segments, Text, Character, Halves, Valid, Directory, Spawning
  <2>2. Readable(mem, addr, length)
    BY <2>1 DEF Transfer, Readable
  <2>3. /\ Len(copyData(mem, addr, length)) \in length .. length + Word - 1
        /\ \A i \in 1 .. length : copyData(mem, addr, length)[i] = mem[addr + i - 1]
    <3> HIDE DEF mem, addr, length
    <3> QED
      BY <2>2, CopyDataReads
  <2> DEFINE str == copyString(mem, addr, length)
  <2>4. /\ Len(str) \in 0 .. length
        /\ \A i \in 1 .. Len(str) : str[i] = mem[addr + i - 1]
        /\ Len(str) < length => \E i \in 1 .. Len(str) : str[i] = 0
    <3> HIDE DEF mem, addr, length
    <3> QED
      BY <2>2, CopyStringReads
  <2>5. Len(str) <= length
    <3> HIDE DEF str
    <3> QED
      BY <2>2, <2>4 DEF Readable
  <2> QED
    BY <2>3, <2>4, <2>5, Zenon DEF ReadsRight
<1>2. ReadsRight /\ [Next]_input => ReadsRight'
  BY DEF Next, ReadsRight
<1> QED
  BY <1>1, <1>2, PTL DEF Spec

\* What the host writes arrives, and nothing else of the program changes
\* (writeData).
THEOREM WritesAreExact == Spec => []WriteDataExact
<1>1. Init => WriteDataExact
  <2> SUFFICES ASSUME Init, input.kind = "transfer" PROVE WriteDataExact
    BY DEF WriteDataExact
  <2> DEFINE mem == input.mem
             addr == input.addr
             buf == input.buf
  <2>1. Transfer(input)
    BY DEF Init, Transfer, Segments, Text, Character, Halves, Valid, Directory, Spawning
  <2>2. /\ addr \in Nat /\ buf \in Seq(Byte) /\ DOMAIN mem \subseteq Nat
        /\ mem = [x \in DOMAIN mem |-> mem[x]]
    BY <2>1 DEF Transfer
  <2>3. writeData(mem, addr, buf) = Written(mem, addr, buf, Len(buf))
    <3> HIDE DEF mem, addr, buf
    <3> QED
      BY <2>2, WriteDataWrites, Zenon
  <2> QED
    BY <2>3, Zenon DEF WriteDataExact, Written
<1>2. WriteDataExact /\ [Next]_input => WriteDataExact'
  BY DEF Next, WriteDataExact
<1> QED
  BY <1>1, <1>2, PTL DEF Spec

\* No argument of a system call runs into another one in the scratch area
\* (writeScratch).
THEOREM ScratchIsIntact == Spec => []ScratchSegmentsIntact
<1>1. Init => ScratchSegmentsIntact
  <2> SUFFICES ASSUME Init, input.kind = "segments" PROVE ScratchSegmentsIntact
    BY DEF ScratchSegmentsIntact
  <2> DEFINE mem == input.mem
             addr == input.addr
             bufs == input.bufs
             done == writeScratch(mem, addr, bufs)
  <2>1. Segments(input)
    BY DEF Init, Transfer, Segments, Text, Character, Halves, Valid, Directory, Spawning
  <2>2. /\ addr \in Nat /\ bufs \in Seq(Seq(Byte)) /\ DOMAIN mem \subseteq Nat
        /\ mem = [x \in DOMAIN mem |-> mem[x]] /\ addr .. done.next \subseteq DOMAIN mem
    BY <2>1 DEF Segments
  <2>3. /\ done.next \in Nat /\ DOMAIN done.mem = DOMAIN mem
        /\ \A k \in 1 .. Len(bufs) : SegmentThere(mem, addr, bufs, done, k)
    <3> HIDE DEF mem, addr, bufs
    <3> QED
      BY <2>2, ScratchWrites, Zenon
  <2> HIDE DEF done
  <2>4. ASSUME NEW k \in DOMAIN bufs
        PROVE  /\ Slice(done.mem, done.addrs[k], Len(bufs[k])) = bufs[k]
               /\ addr % Word = 0 => done.addrs[k] % Word = 0
    <3> HIDE DEF mem, addr, bufs
    <3> DEFINE at == done.addrs[k]
               buf == bufs[k]
    <3>1. k \in 1 .. Len(bufs) /\ buf \in Seq(Byte) /\ Len(buf) \in Nat
      BY <2>2
    <3>2. /\ at \in Nat /\ addr <= at /\ at + Len(buf) <= done.next
          /\ addr % Word = 0 => at % Word = 0
          /\ \A x \in DOMAIN mem : x \in at .. at + Len(buf) - 1 => done.mem[x] = buf[x - at + 1]
      BY <2>3, <3>1, Zenon DEF SegmentThere
    <3> HIDE DEF at, buf
    <3>3. ASSUME NEW i \in 1 .. Len(buf) PROVE done.mem[at + i - 1] = buf[i]
      <4> DEFINE x == at + i - 1
      <4>1. x \in addr .. done.next /\ x \in at .. at + Len(buf) - 1 /\ x - at + 1 = i
        BY <2>2, <2>3, <3>1, <3>2
      <4> HIDE DEF x
      <4>2. x \in DOMAIN mem
        BY <2>2, <4>1
      <4>3. done.mem[x] = buf[x - at + 1]
        BY <3>2, <4>1, <4>2
      <4> QED
        BY <4>1, <4>3 DEF x
    <3>4. buf = [i \in 1 .. Len(buf) |-> buf[i]]
      BY <3>1
    <3>5. [i \in 1 .. Len(buf) |-> done.mem[at + i - 1]] = buf
      BY <3>3, <3>4, Zenon
    <3> QED
      BY <3>2, <3>5, Zenon DEF Slice, at, buf
  <2> QED
    BY <2>4, Zenon DEF ScratchSegmentsIntact, done
<1>2. ScratchSegmentsIntact /\ [Next]_input => ScratchSegmentsIntact'
  BY DEF Next, ScratchSegmentsIntact
<1> QED
  BY <1>1, <1>2, PTL DEF Spec

=============================================================================
