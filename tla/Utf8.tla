-------------------------------- MODULE Utf8 --------------------------------
(***************************************************************************)
(* The encodings of a character in the JSON text of codius IPC             *)
(* (src/src/json.c): UTF-8 in strings, and \uXXXX escapes, in surrogate    *)
(* pairs beyond U+FFFF.  A string is a sequence of bytes, its terminating  *)
(* 0 included.                                                             *)
(***************************************************************************)
EXTENDS Integers, Sequences

IsContinuation(byte) == byte \div 64 = 2
Low6(byte)           == byte % 64

Surrogates     == 55296 .. 57343
HighSurrogates == 55296 .. 56319
LowSurrogates  == 56320 .. 57343

\* Mutant of utf8_validate_cz: surrogates are let through.
utf8_validate_cz_Surrogates(s) ==
  LET c == s[1] IN
  CASE c <= 127 -> 1
    [] c \in 194 .. 223 -> IF IsContinuation(s[2]) THEN 2 ELSE 0
    [] c \in 224 .. 239 ->
         IF (c = 224 /\ s[2] < 160) \/ ~IsContinuation(s[2]) \/ ~IsContinuation(s[3])
           THEN 0 ELSE 3
    [] c \in 240 .. 244 ->
         IF (c = 240 /\ s[2] < 144) \/ (c = 244 /\ s[2] > 143)
              \/ \E i \in 2 .. 4 : ~IsContinuation(s[i])
           THEN 0 ELSE 4
    [] OTHER -> 0

\* The length of the character s starts with; 0 if it is malformed or clipped.
\* A byte is looked at only if those before it are in order.
utf8_validate_cz(s) ==
  LET c == s[1] IN
  CASE c <= 127 -> 1
    [] c \in 194 .. 223 -> IF IsContinuation(s[2]) THEN 2 ELSE 0
    [] c \in 224 .. 239 ->
         IF (c = 224 /\ s[2] < 160) \/ (c = 237 /\ s[2] > 159)
              \/ ~IsContinuation(s[2]) \/ ~IsContinuation(s[3])
           THEN 0 ELSE 3
    [] c \in 240 .. 244 ->
         IF (c = 240 /\ s[2] < 144) \/ (c = 244 /\ s[2] > 143)
              \/ ~IsContinuation(s[2]) \/ ~IsContinuation(s[3]) \/ ~IsContinuation(s[4])
           THEN 0 ELSE 4
    [] OTHER -> 0

utf8_read_char(s) ==
  LET c == s[1] IN
  CASE c <= 127 -> c
    [] c \in 128 .. 223 -> (c % 32) * 64 + Low6(s[2])
    [] c \in 224 .. 239 -> (c % 16) * 4096 + Low6(s[2]) * 64 + Low6(s[3])
    [] OTHER -> (c % 8) * 262144 + Low6(s[2]) * 4096 + Low6(s[3]) * 64 + Low6(s[4])

utf8_write_char(u) ==
  IF u <= 127 THEN <<u>>
  ELSE IF u <= 2047 THEN <<192 + (u \div 64), 128 + Low6(u)>>
  ELSE IF u <= 65535
    THEN <<224 + (u \div 4096), 128 + Low6(u \div 64), 128 + Low6(u)>>
    ELSE <<240 + (u \div 262144), 128 + Low6(u \div 4096),
           128 + Low6(u \div 64), 128 + Low6(u)>>

\* -1 for a pair that is none.
from_surrogate_pair(uc, lc) ==
  IF uc \in HighSurrogates /\ lc \in LowSurrogates
    THEN 65536 + (uc % 1024) * 1024 + (lc % 1024)
    ELSE -1

to_surrogate_pair(u) ==
  LET n == u - 65536 IN
  <<55296 + ((n \div 1024) % 1024), 56320 + (n % 1024)>>

=============================================================================
