----------------------------- MODULE Algorithms -----------------------------
(***************************************************************************)
(* The pure algorithms of ChildMemory, Utf8, JsonStrings, Dirents and      *)
(* ExecFds against reference definitions: every initial state is one input *)
(* they may be given, and nothing moves.                                   *)
(***************************************************************************)
EXTENDS ChildMemory, JsonStrings, Dirents, ExecFds

VARIABLE input

-----------------------------------------------------------------------------
(* What a character is.                                                     *)

\* RFC 3629: the first character that takes n bytes, behind the last one the
\* first that is none; the first byte without its bits of the character; and
\* the character n bytes stand for.
FirstOf     == <<0, 128, 2048, 65536, 1114112>>
LeadBits    == <<0, 192, 224, 240>>
Takes(c, n) == FirstOf[n] <= c /\ c < FirstOf[n + 1] /\ c \notin Surrogates
Value(s, n) ==
  LET lead   == s[1] - LeadBits[n]
      low(i) == s[i] - 128
  IN  IF n = 1 THEN lead
      ELSE IF n = 2 THEN lead * 64 + low(2)
      ELSE IF n = 3 THEN lead * 4096 + low(2) * 64 + low(3)
      ELSE lead * 262144 + low(2) * 4096 + low(3) * 64 + low(4)
Encoded(s, n) ==
  /\ s[1] >= LeadBits[n]
  /\ \A i \in 2 .. n : 128 <= s[i] /\ s[i] < 192
  /\ Takes(Value(s, n), n)

\* The whole of s is the encoding of that character.
Encodes(s, code) ==
  /\ Len(s) \in 1 .. 4 /\ Takes(code, Len(s))
  /\ Encoded(s, Len(s)) /\ Value(s, Len(s)) = code

-----------------------------------------------------------------------------
(* Inputs.                                                                  *)

Byte == 0 .. 255

\* A buffer of the host, and where in the program's memory it comes from or
\* goes to; up to the end of its last word, that memory is there.
Transfer(in) ==
  /\ in.kind = "transfer" /\ in.addr \in Nat /\ in.buf \in Seq(Byte)
  /\ DOMAIN in.mem \subseteq Nat /\ in.mem \in [DOMAIN in.mem -> Byte]
  /\ in.addr .. in.addr + Len(in.buf) + Word - 2 \subseteq DOMAIN in.mem

\* Buffers for a scratch area that has room for all of them.
Segments(in) ==
  /\ in.kind = "segments" /\ in.addr \in Nat /\ in.bufs \in Seq(Seq(Byte))
  /\ DOMAIN in.mem \subseteq Nat /\ in.mem \in [DOMAIN in.mem -> Byte]
  /\ in.addr .. writeScratch(in.mem, in.addr, in.bufs).next \subseteq DOMAIN in.mem

\* What a C string has from some character on.
Text(in) ==
  in.kind = "string" /\ in.bytes \in Seq(Byte) /\ in.bytes # <<>> /\ in.bytes[Len(in.bytes)] = 0

\* A character, by its number.
Character(in) ==
  in.kind = "character" /\ in.code \in Nat \ {0} /\ \E n \in 1 .. 4 : Takes(in.code, n)

\* What two \u may stand for.
Halves(in) ==
  in.kind = "pair" /\ {in.uc, in.lc} \subseteq Nat /\ in.uc < 65536 /\ in.lc < 65536

\* What emit_string asserts of the string it is given.
Valid(in) ==
  in.kind = "quoted" /\ in.string \in Seq(Byte \ {0}) /\ utf8_validate(in.string \o <<0>>)

\* The names of a directory, by their sizes.
Directory(in) == in.kind = "directory" /\ in.sizes \in Seq(1 .. 255)

\* The host has its standard streams open, and beside them any files when the
\* sandbox is made and when the program is spawned.
Spawning(in) ==
  /\ in.kind = "spawn"
  /\ in.before \subseteq Nat \ 0 .. 2 /\ IsFiniteSet(in.before)
  /\ in.after \subseteq Nat \ 0 .. 2  /\ IsFiniteSet(in.after)

Init ==
  \/ Transfer(input) \/ Segments(input) \/ Text(input) \/ Character(input) \/ Halves(input)
  \/ Valid(input) \/ Directory(input) \/ Spawning(input)
Next == UNCHANGED input
Spec == Init /\ [][Next]_input

-----------------------------------------------------------------------------
(* The program's memory.                                                    *)

\* copyData brings what is there, wherever the words fall, and stores less
\* than a word behind it; copyString brings the string up to and with its 0, or
\* up to the length of the buffer, and stores nothing behind that length.
ReadsRight ==
  input.kind = "transfer" =>
    LET length == Len(input.buf)
        data   == copyData(input.mem, input.addr, length)
        str    == copyString(input.mem, input.addr, length)
    IN  /\ Len(data) \in length .. length + Word - 1
        /\ \A i \in 1 .. length : data[i] = input.mem[input.addr + i - 1]
        /\ Len(str) <= length
        /\ \A i \in 1 .. Len(str) : str[i] = input.mem[input.addr + i - 1]
        /\ Len(str) < length => \E i \in 1 .. Len(str) : str[i] = 0

\* The buffer arrives, and no other byte of the program changes (writeData).
WriteDataExact ==
  input.kind = "transfer" =>
    LET after == writeData(input.mem, input.addr, input.buf) IN
    \A x \in DOMAIN input.mem :
      after[x] = IF x \in input.addr .. input.addr + Len(input.buf) - 1
                   THEN input.buf[x - input.addr + 1] ELSE input.mem[x]

\* The arguments of one system call, written one after the other to the
\* scratch area, are all there when the call is made: no segment runs into an
\* earlier one, and each begins on a word if the area does (writeScratch).
ScratchSegmentsIntact ==
  input.kind = "segments" =>
    LET done == writeScratch(input.mem, input.addr, input.bufs) IN
    \A k \in DOMAIN input.bufs :
      /\ Slice(done.mem, done.addrs[k], Len(input.bufs[k])) = input.bufs[k]
      /\ input.addr % Word = 0 => done.addrs[k] % Word = 0

-----------------------------------------------------------------------------
(* Characters.                                                              *)

\* A string is accepted exactly when it starts with the shortest encoding of a
\* character that is no surrogate, so never beyond its 0, and that character
\* is read (utf8_validate_cz, utf8_read_char).
Utf8Decodes ==
  input.kind = "string" =>
    LET s == input.bytes
        n == utf8_validate_cz(s)
    IN  /\ \A k \in 1 .. 4 : Encoded(s, k) <=> n = k
        /\ n # 0 => utf8_read_char(s) = Value(s, n)

Lowered(hex) == [i \in DOMAIN hex |-> IF hex[i] > 64 THEN hex[i] + 32 ELSE hex[i]]
Escape(hex)  == <<BackSlash, 117>> \o hex
Literal(s)   == <<Quote>> \o s \o <<Quote, 0>>

\* The escapes written for a character are read as its UTF-8.
EscapeDecodes(code) ==
  LET pair == to_surrogate_pair(code)
      text == IF code <= 65535 THEN Escape(write_hex16(code))
              ELSE Escape(write_hex16(pair[1])) \o Escape(write_hex16(pair[2]))
      read == parse_string(Literal(text), 1)
  IN  read.ok /\ Encodes(read.value, code)

\* Two escapes in a row.
Combined(uc, lc) == 65536 + (uc - 55296) * 1024 + lc - 56320
TwoEscapesDecode(uc, lc) ==
  LET text == Escape(Lowered(write_hex16(uc))) \o Escape(write_hex16(lc))
      read == parse_string(Literal(text), 1)
  IN  IF uc \in HighSurrogates /\ lc \in LowSurrogates
        THEN read.ok /\ Encodes(read.value, Combined(uc, lc))
      ELSE IF {uc, lc} \cap (Surrogates \cup {0}) # {} THEN ~read.ok
      ELSE read.ok /\ \E k \in 1 .. Len(read.value) - 1 :
                        /\ Encodes(SubSeq(read.value, 1, k), uc)
                        /\ Encodes(SubSeq(read.value, k + 1, Len(read.value)), lc)

\* The escapes the code writes for a character are read as its UTF-8, in
\* capitals or not, and of any two escapes in a row a pair that stands for a
\* character is read as that, a lone half and U+0000 are refused, and others
\* are read each for itself (parse_string, write_hex16, the surrogate pairs).
EscapesDecode ==
  /\ input.kind = "character" => EscapeDecodes(input.code)
  /\ input.kind = "pair" => TwoEscapesDecode(input.uc, input.lc)

\* A string goes through its literal unchanged, if it is without U+001F.
UnitSeparator == 31
ReadsBack(s) ==
  LET text == emit_string(s) \o <<0>>
      read == parse_string(text, 1)
  IN  read = Success(Len(text), s)
StringRoundTrip ==
  input.kind = "quoted" =>
    (\E i \in DOMAIN input.string : input.string[i] = UnitSeparator) \/ ReadsBack(input.string)

-----------------------------------------------------------------------------
(* Directories.                                                             *)

\* A program that goes from record to record by d_reclen meets every name
\* once: the records follow one another on multiples of 8, and the name, its 0
\* and the type have bytes of their own within the record.
DirentsTile ==
  input.kind = "directory" =>
    LET dirs == getdents(input.sizes) IN
    /\ Len(dirs) = Len(input.sizes)
    /\ \A k \in DOMAIN dirs :
         LET d == dirs[k] IN
         /\ d.start = (IF k = 1 THEN 0 ELSE dirs[k - 1].start + dirs[k - 1].reclen)
         /\ d.reclen % 8 = 0
         /\ Cardinality(d.name \cup {d.nul, d.type}) = input.sizes[k] + 2
         /\ d.name \cup {d.nul, d.type} \subseteq d.start + NameAt .. d.start + d.reclen - 1
         /\ d.nul = d.start + NameAt + input.sizes[k]

-----------------------------------------------------------------------------
(* Descriptors.                                                             *)

Streams(n)    == <<"host", n>>
HostFds(open) == [n \in (0 .. 2) \cup open |-> Streams(n)]

\* Whatever the host opens and closes beside its standard streams, before and
\* after the sandbox is made, the program has its own ends of its three sockets
\* on 1, 2 and 3, the host's standard input on 0, and nothing else
\* (SandboxIPC, execChild).
OnlyItsSockets ==
  input.kind = "spawn" =>
    LET made    == node_new(HostFds(input.before))
        sockets == {n \in DOMAIN made : made[n][1] # "host"}
        changed == [n \in (0 .. 2) \cup sockets \cup input.after |->
                      IF n \in sockets THEN made[n] ELSE Streams(n)]
    IN  spawn(changed) =
          [n \in 0 .. 3 |-> IF n = 0 THEN Streams(0) ELSE <<"child", n>>]

=============================================================================
