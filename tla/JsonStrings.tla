---------------------------- MODULE JsonStrings ----------------------------
(***************************************************************************)
(* The strings of JSON text (src/src/json.c): what stands between two      *)
(* quotes, and the string of UTF-8 characters it is for.                   *)
(*                                                                         *)
(* A text is a sequence of characters that ends in 0.  A parser returns    *)
(* where it stopped and what it read; one that fails returns Failure,      *)
(* whatever it had read and freed.                                         *)
(***************************************************************************)
EXTENDS Utf8

Quote == 34
Slash == 47
Zero  == 48
BackSlash == 92

is_digit(c) == c \in Zero .. Zero + 9

Failure == [ok |-> FALSE]
Success(at, value) == [ok |-> TRUE, at |-> at, value |-> value]

-----------------------------------------------------------------------------
(* Character by character.                                                  *)

\* One turn of a loop over the characters of t, up to the character end: char[at]
\* is what becomes of the one at position at.
next_char(t, char, end, done) ==
  LET c == char[done.at] IN
  IF ~done.ok THEN Failure
  ELSE IF t[done.at] = end THEN done
  ELSE IF c.ok THEN Success(c.at, done.value \o c.value) ELSE Failure

\* The loop; each turn is a step forward, so t has no more characters than
\* there are turns.
each_char(t, char, end, at) ==
  LET after[k \in 0 .. Len(t)] ==
        IF k = 0 THEN Success(at, <<>>) ELSE next_char(t, char, end, after[k - 1])
  IN  after[Len(t)]

\* Whether each character up to the 0 is well formed.
utf8_validate(s) ==
  LET valid(at) == LET len == utf8_validate_cz(SubSeq(s, at, Len(s))) IN
                   IF len = 0 THEN Failure ELSE Success(at + len, <<>>)
  IN  each_char(s, [at \in DOMAIN s |-> valid(at)], 0, 1).ok

-----------------------------------------------------------------------------
(* Reading.                                                                 *)

HexDigits == <<48, 49, 50, 51, 52, 53, 54, 55, 56, 57, 65, 66, 67, 68, 69, 70>>
HexValue(c) == CASE is_digit(c)    -> c - Zero
                 [] c \in 65 .. 70 -> c - 55
                 [] c \in 97 .. 102 -> c - 87
                 [] OTHER -> -1

\* Mutant of parse_hex16: a becomes 11.
parse_hex16_OffByOne(t, at) ==
  LET digit(i) == HexValue(t[at + i]) + (IF t[at + i] >= 97 THEN 1 ELSE 0) IN
  IF \E i \in 0 .. 3 : HexValue(t[at + i]) = -1 THEN Failure
  ELSE Success(at + 4, digit(0) * 4096 + digit(1) * 256 + digit(2) * 16 + digit(3))

parse_hex16(t, at) ==
  LET digit(i) == HexValue(t[at + i]) IN
  IF digit(0) = -1 \/ digit(1) = -1 \/ digit(2) = -1 \/ digit(3) = -1 THEN Failure
  ELSE Success(at + 4, digit(0) * 4096 + digit(1) * 256 + digit(2) * 16 + digit(3))

write_hex16(val) ==
  LET digit(v) == HexDigits[(v % 16) + 1] IN
  <<digit(val \div 4096), digit(val \div 256), digit(val \div 16), digit(val)>>

\* The character an escape is for, and the escape for a character.
Escaped == [c \in {Quote, BackSlash, Slash, 98, 102, 110, 114, 116} |->
              CASE c = 98 -> 8 [] c = 102 -> 12 [] c = 110 -> 10 [] c = 114 -> 13
                [] c = 116 -> 9 [] OTHER -> c]
EscapeFor == [c \in {Quote, BackSlash, 8, 12, 10, 13, 9} |->
                CHOOSE e \in DOMAIN Escaped : Escaped[e] = c]

\* Behind \u: one code, or the two of a surrogate pair.
parse_unicode(t, at) ==
  LET uc == parse_hex16(t, at)
      lc == parse_hex16(t, at + 6)
  IN  IF ~uc.ok \/ uc.value = 0 THEN Failure
      ELSE IF uc.value \notin Surrogates THEN Success(uc.at, utf8_write_char(uc.value))
      ELSE IF t[at + 4] = BackSlash /\ t[at + 5] = 117 /\ lc.ok
        THEN LET code == from_surrogate_pair(uc.value, lc.value) IN
             IF code = -1 THEN Failure ELSE Success(lc.at, utf8_write_char(code))
        ELSE Failure

\* One character of a string literal, in UTF-8.
parse_char(t, at) ==
  LET c == t[at] IN
  CASE c = BackSlash /\ t[at + 1] = 117 -> parse_unicode(t, at + 2)
    [] c = BackSlash /\ t[at + 1] \in DOMAIN Escaped ->
         Success(at + 2, <<Escaped[t[at + 1]]>>)
    [] c = BackSlash /\ t[at + 1] \notin DOMAIN Escaped \cup {117} -> Failure
    [] c <= 31 -> Failure
    [] OTHER ->
         LET len == utf8_validate_cz(SubSeq(t, at, Len(t))) IN
         IF len = 0 THEN Failure ELSE Success(at + len, SubSeq(t, at, at + len - 1))

parse_string(t, at) ==
  LET last == each_char(t, [i \in DOMAIN t |-> parse_char(t, i)], Quote, at + 1) IN
  IF t[at] # Quote \/ ~last.ok THEN Failure ELSE Success(last.at + 1, last.value)

-----------------------------------------------------------------------------
(* Writing.                                                                 *)

\* Mutant of emit_char: a backslash stands for itself.
emit_char_BareBackSlash(s, at) ==
  LET c == s[at] IN
  IF c # BackSlash /\ c \in DOMAIN EscapeFor THEN Success(at + 1, <<BackSlash, EscapeFor[c]>>)
  ELSE IF c < 31 THEN Success(at + 1, <<BackSlash, 117>> \o write_hex16(c))
  ELSE Success(at + 1, <<c>>)

\* One character of a valid string: by its escape, by its code, or as it is.
\* U+001F, which the test c < 0x1F misses, is written as it is.
emit_char(s, at) ==
  LET c    == s[at]
      rest == SubSeq(s, at, Len(s))
      len  == utf8_validate_cz(rest)
  IN  IF c \in DOMAIN EscapeFor THEN Success(at + 1, <<BackSlash, EscapeFor[c]>>)
      ELSE IF c < 31
        THEN Success(at + 1, <<BackSlash, 117>> \o write_hex16(utf8_read_char(rest)))
        ELSE Success(at + len, SubSeq(rest, 1, len))

emit_string(str) ==
  LET s == str \o <<0>> IN
  <<Quote>> \o each_char(s, [i \in DOMAIN s |-> emit_char(s, i)], 0, 1).value \o <<Quote>>

=============================================================================
