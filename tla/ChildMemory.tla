---------------------------- MODULE ChildMemory ----------------------------
(***************************************************************************)
(* How the host moves bytes in and out of the sandboxed program            *)
(* (src/src/sandbox.cpp: peekData to writeData): ptrace transfers whole    *)
(* words, at any address, and copyData, copyString, writeData and          *)
(* writeScratch make byte strings out of them.                             *)
(*                                                                         *)
(* The program's memory is a function from addresses to bytes, a buffer of *)
(* the host a sequence.                                                    *)
(***************************************************************************)
EXTENDS Integers, Sequences

CONSTANT Word \* bytes of a word

ASSUME WordAssumption == Word \in Nat \ {0}

\* n bytes of mem from addr on.
Slice(mem, addr, n) == [i \in 1 .. n |-> mem[addr + i - 1]]

peekData(mem, addr) == Slice(mem, addr, Word)

pokeData(mem, addr, word) ==
  [x \in DOMAIN mem |-> IF x \in addr .. addr + Word - 1 THEN word[x - addr + 1] ELSE mem[x]]

\* Mutant of copyData: the last word is left out when it is not a full one.
copyData_FullWordsOnly(mem, addr, length) ==
  LET words[i \in Nat] ==
        IF i + Word <= length THEN peekData(mem, addr + i) \o words[i + Word] ELSE <<>>
  IN  words[0]

\* What is stored into the buffer: whole words, also for the last bytes.
copyData(mem, addr, length) ==
  LET words[i \in Nat] ==
        IF i < length THEN peekData(mem, addr + i) \o words[i + Word] ELSE <<>>
  IN  words[0]

\* The bytes of a word up to and with the first 0.
UpToNul(word) ==
  LET nul == CHOOSE j \in 1 .. Word : word[j] = 0 /\ \A k \in 1 .. j - 1 : word[k] # 0
  IN  SubSeq(word, 1, nul)

HasNul(word) == \E j \in 1 .. Word : word[j] = 0

\* Full words until one has a 0 or no full word is left; then what fits of one
\* more, which is not searched for a 0.
copyString(mem, addr, maxLength) ==
  LET from[i \in Nat] ==
        LET d == peekData(mem, addr + i) IN
        IF maxLength - i > Word
          THEN IF HasNul(d) THEN UpToNul(d) ELSE d \o from[i + Word]
          ELSE IF i # maxLength THEN SubSeq(d, 1, maxLength - i) ELSE <<>>
  IN  from[0]

\* Mutant of writeData: the last word is not read before it is written.
writeData_Blind(mem, addr, buf) ==
  LET length == Len(buf)
      after[k \in Nat] ==
        IF k = 0 THEN mem
        ELSE LET i == (k - 1) * Word IN
             IF length - i > 0
               THEN pokeData(after[k - 1], addr + i,
                      [j \in 1 .. Word |-> IF i + j <= length THEN buf[i + j] ELSE 0])
               ELSE after[k - 1]
  IN  after[length \div Word + 1]

\* Full words while more than one is left, then one word that keeps the bytes
\* behind the end of the buffer.
writeData(mem, addr, buf) ==
  LET length == Len(buf)
      after[k \in Nat] ==
        IF k = 0 THEN mem
        ELSE LET m == after[k - 1]
                 i == (k - 1) * Word
             IN  IF length - i > Word THEN pokeData(m, addr + i, SubSeq(buf, i + 1, i + Word))
                 ELSE IF length > i
                   THEN pokeData(m, addr + i, SubSeq(buf, i + 1, length)
                          \o SubSeq(peekData(m, addr + i), length - i + 1, Word))
                   ELSE m
  IN  after[length \div Word + 1]

\* Mutant of nextScratch: rounded down.
nextScratch_Down(addr, length) == addr + length - ((addr + length) % Word)

\* Where the next segment starts after length bytes were written at addr.
nextScratch(addr, length) ==
  LET next == addr + length IN
  IF next % Word # 0 THEN next + Word - (next % Word) ELSE next

\* resetScratch and one writeScratch for each buffer: the memory, and the
\* address each call returned.
writeScratch(mem, scratchAddr, bufs) ==
  LET after[k \in 0 .. Len(bufs)] ==
        IF k = 0 THEN [mem |-> mem, addrs |-> <<>>, next |-> scratchAddr]
        ELSE LET s == after[k - 1] IN
             [mem   |-> writeData(s.mem, s.next, bufs[k]),
              addrs |-> Append(s.addrs, s.next),
              next  |-> nextScratch(s.next, Len(bufs[k]))]
  IN  after[Len(bufs)]

=============================================================================
