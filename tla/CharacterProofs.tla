--------------------------- MODULE CharacterProofs ---------------------------
(***************************************************************************)
(* The characters and the strings of JSON text (Utf8, JsonStrings), for    *)
(* every string of them (Algorithms):                                      *)
(*   - utf8_validate_cz accepts the characters of RFC 3629 and no others,  *)
(*     and utf8_read_char reads them;                                      *)
(*   - \u and four hexadecimal digits, or two of them for a surrogate pair,*)
(*     are read as the character they are for;                             *)
(*   - what emit_string writes, parse_string reads back.                   *)
(***************************************************************************)
EXTENDS TransferProofs

\* The limits that are used as numbers below.
LEMMA SurrogateRange == \A c \in Int : c \in Surrogates <=> 55296 <= c /\ c <= 57343
BY SMT DEF Surrogates

LEMMA ByteRange == \A b : b \in Byte <=> b \in Int /\ 0 <= b /\ b <= 255
BY SMT DEF Byte

LEMMA Tables == /\ FirstOf[1] = 0 /\ FirstOf[2] = 128 /\ FirstOf[3] = 2048
                /\ FirstOf[4] = 65536 /\ FirstOf[5] = 1114112
                /\ LeadBits[1] = 0 /\ LeadBits[2] = 192
                /\ LeadBits[3] = 224 /\ LeadBits[4] = 240
BY SMT DEF FirstOf, LeadBits

\* The bytes of a string as they are looked at: one that is not a continuation
\* byte, like the 0 at the end, stops the reader.
LEMMA Continued ==
  ASSUME NEW byte \in Byte
  PROVE  /\ IsContinuation(byte) <=> 128 <= byte /\ byte <= 191
         /\ IsContinuation(byte) => Low6(byte) = byte - 128
BY SMT DEF Byte, IsContinuation, Low6

\* What is read, by the first byte.
LEMMA ReadByFirst ==
  ASSUME NEW s, s[1] \in Byte
  PROVE  /\ s[1] <= 127 => utf8_read_char(s) = s[1]
         /\ 194 <= s[1] /\ s[1] <= 223 => utf8_read_char(s) = (s[1] - 192) * 64 + Low6(s[2])
         /\ 224 <= s[1] /\ s[1] <= 239 =>
              utf8_read_char(s) = (s[1] - 224) * 4096 + Low6(s[2]) * 64 + Low6(s[3])
         /\ 240 <= s[1] /\ s[1] <= 244 =>
              utf8_read_char(s) = (s[1] - 240) * 262144 + Low6(s[2]) * 4096
                                    + Low6(s[3]) * 64 + Low6(s[4])
<1>1. s[1] <= 127 => utf8_read_char(s) = s[1]
  BY SMT DEF utf8_read_char
<1>2. ASSUME 194 <= s[1], s[1] <= 223
      PROVE  utf8_read_char(s) = (s[1] - 192) * 64 + Low6(s[2])
  <2>1. ~(s[1] <= 127) /\ s[1] \in 128 .. 223 /\ s[1] % 32 = s[1] - 192
    BY <1>2, SMTT(60) DEF Byte
  <2>2. utf8_read_char(s) = (s[1] % 32) * 64 + Low6(s[2])
    BY <2>1, SMTT(60) DEF utf8_read_char
  <2> QED
    BY <2>1, <2>2, SMTT(60)
<1>3. ASSUME 224 <= s[1], s[1] <= 239
      PROVE  utf8_read_char(s) = (s[1] - 224) * 4096 + Low6(s[2]) * 64 + Low6(s[3])
  <2>1. /\ ~(s[1] <= 127) /\ s[1] \notin 128 .. 223 /\ s[1] \in 224 .. 239
        /\ s[1] % 16 = s[1] - 224
    BY <1>3, SMTT(60) DEF Byte
  <2>2. utf8_read_char(s) = (s[1] % 16) * 4096 + Low6(s[2]) * 64 + Low6(s[3])
    BY <2>1, SMTT(60) DEF utf8_read_char
  <2> QED
    BY <2>1, <2>2, SMTT(60)
<1>4. ASSUME 240 <= s[1], s[1] <= 244
      PROVE  utf8_read_char(s) = (s[1] - 240) * 262144 + Low6(s[2]) * 4096
                                   + Low6(s[3]) * 64 + Low6(s[4])
  <2>1. ~(s[1] <= 127) /\ s[1] \notin 128 .. 223 /\ s[1] \notin 224 .. 239 /\ s[1] % 8 = s[1] - 240
    BY <1>4, SMTT(60) DEF Byte
  <2>2. utf8_read_char(s) = (s[1] % 8) * 262144 + Low6(s[2]) * 4096 + Low6(s[3]) * 64 + Low6(s[4])
    BY <2>1, SMTT(60) DEF utf8_read_char
  <2> QED
    BY <2>1, <2>2, SMTT(60)
<1> QED
  BY <1>1, <1>2, <1>3, <1>4

\* One byte.
LEMMA Single ==
  ASSUME NEW s \in Seq(Byte), s # <<>>
  PROVE  /\ Encoded(s, 1) <=> s[1] <= 127
         /\ s[1] <= 127 => utf8_read_char(s) = Value(s, 1)
<1>1. s[1] \in Byte
  OBVIOUS
<1>2. s[1] \in Int /\ 0 <= s[1] /\ s[1] <= 255
  BY <1>1, ByteRange
<1>3. Value(s, 1) = s[1]
  BY <1>2, Tables, SMTT(60) DEF Value
<1>4. Takes(s[1], 1) <=> s[1] <= 127
  BY <1>2, SurrogateRange, Tables, SMTT(60) DEF Takes
<1>5. Encoded(s, 1) <=> Takes(s[1], 1)
  BY <1>2, <1>3, Tables, SMTT(60) DEF Encoded
<1> QED
  BY <1>1, <1>3, <1>4, <1>5, ReadByFirst, SMTT(60)

\* Two bytes: a first one of 192 or 193 would be for a character of one byte.
LEMMA Double ==
  ASSUME NEW s \in Seq(Byte), Len(s) >= 2
  PROVE  /\ Encoded(s, 2) <=> 194 <= s[1] /\ s[1] <= 223 /\ IsContinuation(s[2])
         /\ Encoded(s, 2) => utf8_read_char(s) = Value(s, 2)
<1>1. s[1] \in Byte /\ s[2] \in Byte
  BY SMTT(60)
<1>2. s[1] \in Int /\ 0 <= s[1] /\ s[1] <= 255 /\ s[2] \in Int
  BY <1>1, ByteRange
<1>3. /\ IsContinuation(s[2]) <=> 128 <= s[2] /\ s[2] <= 191
      /\ IsContinuation(s[2]) => Low6(s[2]) = s[2] - 128
  BY <1>1, Continued
<1>4. Value(s, 2) = (s[1] - 192) * 64 + (s[2] - 128) /\ Value(s, 2) \in Int
  BY <1>2, Tables, SMTT(60) DEF Value
<1>5. Encoded(s, 2) <=> s[1] >= 192 /\ 128 <= s[2] /\ s[2] <= 191 /\ Takes(Value(s, 2), 2)
  BY <1>2, Tables, SMTT(60) DEF Encoded
<1>6. Takes(Value(s, 2), 2) <=> 128 <= Value(s, 2) /\ Value(s, 2) < 2048
  BY <1>4, SurrogateRange, Tables, SMTT(60) DEF Takes
<1>7. Encoded(s, 2) <=> 194 <= s[1] /\ s[1] <= 223 /\ 128 <= s[2] /\ s[2] <= 191
  BY <1>2, <1>4, <1>5, <1>6, SMTT(60)
<1>8. Encoded(s, 2) <=> 194 <= s[1] /\ s[1] <= 223 /\ IsContinuation(s[2])
  BY <1>2, <1>3, <1>7, SMTT(60)
<1> QED
  BY <1>1, <1>3, <1>4, <1>8, ReadByFirst, SMTT(60)

\* Six bits in each byte but the first; surrogates are 13 * 4096 + 32 * 64 on.
LEMMA SixBitsTwice ==
  ASSUME NEW l \in Int, NEW b \in Int, NEW c \in Int, 0 <= b, b < 64, 0 <= c, c < 64
  PROVE  /\ 2048 <= l * 4096 + b * 64 + c <=> 0 < l \/ (l = 0 /\ 32 <= b)
         /\ l * 4096 + b * 64 + c < 65536 <=> l < 16
         /\ 55296 <= l * 4096 + b * 64 + c <=> 13 < l \/ (l = 13 /\ 32 <= b)
         /\ l * 4096 + b * 64 + c <= 57343 <=> l <= 13
<1>1. 0 <= b * 64 + c /\ b * 64 + c < 4096
  BY SMTT(60)
<1>2. 2048 <= b * 64 + c <=> 32 <= b
  BY SMTT(60)
<1> QED
  BY <1>1, <1>2, SMTT(60)

\* Three bytes: behind 224 the next is 160 at least, or two bytes would do;
\* behind 237 it is 159 at most, or the character is a surrogate.
LEMMA Triple ==
  ASSUME NEW s \in Seq(Byte), Len(s) >= 3
  PROVE  /\ Encoded(s, 3) <=> /\ 224 <= s[1] /\ s[1] <= 239
                              /\ s[1] = 224 => s[2] >= 160
                              /\ s[1] = 237 => s[2] <= 159
                              /\ IsContinuation(s[2]) /\ IsContinuation(s[3])
         /\ Encoded(s, 3) => utf8_read_char(s) = Value(s, 3)
<1> DEFINE l == s[1] - 224
           b == s[2] - 128
           c == s[3] - 128
<1>1. s[1] \in Byte /\ s[2] \in Byte /\ s[3] \in Byte
  BY SMTT(60)
<1>2. s[1] \in Int /\ 0 <= s[1] /\ s[1] <= 255 /\ s[2] \in Int /\ s[3] \in Int
  BY <1>1, ByteRange
<1>3. /\ IsContinuation(s[2]) <=> 128 <= s[2] /\ s[2] <= 191
      /\ IsContinuation(s[3]) <=> 128 <= s[3] /\ s[3] <= 191
      /\ IsContinuation(s[2]) => Low6(s[2]) = b
      /\ IsContinuation(s[3]) => Low6(s[3]) = c
  BY <1>1, Continued
<1>4. /\ l \in Int /\ b \in Int /\ c \in Int
      /\ s[1] = l + 224 /\ s[2] = b + 128 /\ s[3] = c + 128
  BY <1>2, SMTT(60)
<1>5. s[1] - LeadBits[3] = l /\ s[2] - 128 = b /\ s[3] - 128 = c
  BY Tables
<1>6. 224 <= s[1] /\ s[1] <= 239 =>
        utf8_read_char(s) = l * 4096 + Low6(s[2]) * 64 + Low6(s[3])
  BY <1>1, ReadByFirst
<1> HIDE DEF l, b, c
<1>7. Value(s, 3) = l * 4096 + b * 64 + c /\ Value(s, 3) \in Int
  BY <1>4, <1>5, SMTT(60) DEF Value
<1>8. Encoded(s, 3) <=> /\ 0 <= l /\ 0 <= b /\ b < 64 /\ 0 <= c /\ c < 64
                        /\ Takes(Value(s, 3), 3)
  BY <1>2, <1>4, Tables, SMTT(60) DEF Encoded
<1>9. Takes(Value(s, 3), 3) <=> /\ 2048 <= Value(s, 3) /\ Value(s, 3) < 65536
                                /\ ~(55296 <= Value(s, 3) /\ Value(s, 3) <= 57343)
  BY <1>7, SurrogateRange, Tables, SMTT(60) DEF Takes
<1>10. 0 <= b /\ b < 64 /\ 0 <= c /\ c < 64 =>
        (Takes(Value(s, 3), 3) <=> /\ 0 < l \/ (l = 0 /\ 32 <= b)
                                   /\ l < 16 /\ ~(l = 13 /\ 32 <= b))
  BY <1>4, <1>7, <1>9, SixBitsTwice, SMTT(60)
<1>11. Encoded(s, 3) <=> /\ 224 <= s[1] /\ s[1] <= 239
                         /\ s[1] = 224 => s[2] >= 160
                         /\ s[1] = 237 => s[2] <= 159
                         /\ IsContinuation(s[2]) /\ IsContinuation(s[3])
  BY <1>2, <1>3, <1>4, <1>8, <1>10, SMTT(60)
<1>12. Encoded(s, 3) => utf8_read_char(s) = Value(s, 3)
  BY <1>3, <1>6, <1>7, <1>11, SMTT(60)
<1> QED
  BY <1>11, <1>12

\* Six bits more.
LEMMA SixBitsThrice ==
  ASSUME NEW l \in Int, NEW b \in Int, NEW c \in Int, NEW d \in Int,
         0 <= b, b < 64, 0 <= c, c < 64, 0 <= d, d < 64
  PROVE  /\ 65536 <= l * 262144 + b * 4096 + c * 64 + d <=> 0 < l \/ (l = 0 /\ 16 <= b)
         /\ l * 262144 + b * 4096 + c * 64 + d < 1114112 <=> l < 4 \/ (l = 4 /\ b < 16)
<1>1. 0 <= b * 4096 + c * 64 + d /\ b * 4096 + c * 64 + d < 262144
  BY SMTT(60)
<1>2. 65536 <= b * 4096 + c * 64 + d <=> 16 <= b
  BY SMTT(60)
<1> QED
  BY <1>1, <1>2, SMTT(60)

\* Four bytes: behind 240 the next is 144 at least, or three bytes would do;
\* behind 244 it is 143 at most, or the character is beyond U+10FFFF.
LEMMA Quadruple ==
  ASSUME NEW s \in Seq(Byte), Len(s) >= 4
  PROVE  /\ Encoded(s, 4) <=>
              /\ 240 <= s[1] /\ s[1] <= 244
              /\ s[1] = 240 => s[2] >= 144
              /\ s[1] = 244 => s[2] <= 143
              /\ IsContinuation(s[2]) /\ IsContinuation(s[3]) /\ IsContinuation(s[4])
         /\ Encoded(s, 4) => utf8_read_char(s) = Value(s, 4)
<1> DEFINE l == s[1] - 240
           b == s[2] - 128
           c == s[3] - 128
           d == s[4] - 128
<1>1. s[1] \in Byte /\ s[2] \in Byte /\ s[3] \in Byte /\ s[4] \in Byte
  BY SMTT(60)
<1>2. /\ s[1] \in Int /\ 0 <= s[1] /\ s[1] <= 255
      /\ s[2] \in Int /\ s[3] \in Int /\ s[4] \in Int
  BY <1>1, ByteRange
<1>3. /\ IsContinuation(s[2]) <=> 128 <= s[2] /\ s[2] <= 191
      /\ IsContinuation(s[3]) <=> 128 <= s[3] /\ s[3] <= 191
      /\ IsContinuation(s[4]) <=> 128 <= s[4] /\ s[4] <= 191
      /\ IsContinuation(s[2]) => Low6(s[2]) = b
      /\ IsContinuation(s[3]) => Low6(s[3]) = c
      /\ IsContinuation(s[4]) => Low6(s[4]) = d
  BY <1>1, Continued
<1>4. /\ l \in Int /\ b \in Int /\ c \in Int /\ d \in Int
      /\ s[1] = l + 240 /\ s[2] = b + 128 /\ s[3] = c + 128 /\ s[4] = d + 128
  BY <1>2, SMTT(60)
<1>5. s[1] - LeadBits[4] = l /\ s[2] - 128 = b /\ s[3] - 128 = c /\ s[4] - 128 = d
  BY Tables
<1>6. 240 <= s[1] /\ s[1] <= 244 =>
        utf8_read_char(s) = l * 262144 + Low6(s[2]) * 4096 + Low6(s[3]) * 64 + Low6(s[4])
  BY <1>1, ReadByFirst, SMTT(60)
<1> HIDE DEF l, b, c, d
<1>7. Value(s, 4) = l * 262144 + b * 4096 + c * 64 + d /\ Value(s, 4) \in Int
  BY <1>4, <1>5, SMTT(60) DEF Value
<1>8. Encoded(s, 4) <=> /\ 0 <= l /\ 0 <= b /\ b < 64 /\ 0 <= c /\ c < 64
                        /\ 0 <= d /\ d < 64 /\ Takes(Value(s, 4), 4)
  BY <1>2, <1>4, Tables, SMTT(60) DEF Encoded
<1>9. Takes(Value(s, 4), 4) <=> 65536 <= Value(s, 4) /\ Value(s, 4) < 1114112
  BY <1>7, SurrogateRange, Tables, SMTT(60) DEF Takes
<1>10. 0 <= b /\ b < 64 /\ 0 <= c /\ c < 64 /\ 0 <= d /\ d < 64 =>
        (Takes(Value(s, 4), 4) <=> /\ 0 < l \/ (l = 0 /\ 16 <= b)
                                   /\ l < 4 \/ (l = 4 /\ b < 16))
  BY <1>4, <1>7, <1>9, SixBitsThrice, SMTT(60)
<1>11. Encoded(s, 4) <=>
         /\ 240 <= s[1] /\ s[1] <= 244
         /\ s[1] = 240 => s[2] >= 144
         /\ s[1] = 244 => s[2] <= 143
         /\ IsContinuation(s[2]) /\ IsContinuation(s[3]) /\ IsContinuation(s[4])
  BY <1>2, <1>3, <1>4, <1>8, <1>10, SMTT(60)
<1>12. Encoded(s, 4) => utf8_read_char(s) = Value(s, 4)
  BY <1>3, <1>6, <1>7, <1>11, SMTT(60)
<1> QED
  BY <1>11, <1>12

\* What is accepted, by the first byte.
Two(s)   == 194 <= s[1] /\ s[1] <= 223 /\ IsContinuation(s[2])
Three(s) == /\ 224 <= s[1] /\ s[1] <= 239
            /\ s[1] = 224 => s[2] >= 160
            /\ s[1] = 237 => s[2] <= 159
            /\ IsContinuation(s[2]) /\ IsContinuation(s[3])
Four(s)  == /\ 240 <= s[1] /\ s[1] <= 244
            /\ s[1] = 240 => s[2] >= 144
            /\ s[1] = 244 => s[2] <= 143
            /\ IsContinuation(s[2]) /\ IsContinuation(s[3]) /\ IsContinuation(s[4])

\* utf8_validate_cz by those tests.
LEMMA ValidByFirst ==
  ASSUME NEW s, s[1] \in Byte, s[1] >= 224 => s[2] \in Byte
  PROVE  utf8_validate_cz(s) = IF s[1] <= 127 THEN 1 ELSE IF Two(s) THEN 2
                               ELSE IF Three(s) THEN 3 ELSE IF Four(s) THEN 4 ELSE 0
<1>1. s[1] \in Int /\ 0 <= s[1] /\ s[1] <= 255
  BY ByteRange
<1>2. s[1] >= 224 => s[2] \in Int
  BY ByteRange
<1>3. CASE s[1] <= 127
  BY <1>3, SMTT(60) DEF utf8_validate_cz
<1>4. CASE 128 <= s[1] /\ s[1] <= 193
  <2>1. /\ ~(s[1] <= 127) /\ s[1] \notin 194 .. 223 /\ s[1] \notin 224 .. 239
        /\ s[1] \notin 240 .. 244
    BY <1>1, <1>4, SMTT(60)
  <2>2. utf8_validate_cz(s) = 0
    BY <2>1, SMTT(60) DEF utf8_validate_cz
  <2> QED
    BY <1>1, <1>4, <2>2, SMTT(60) DEF Two, Three, Four
<1>5. CASE 194 <= s[1] /\ s[1] <= 223
  <2>1. ~(s[1] <= 127) /\ s[1] \in 194 .. 223
    BY <1>1, <1>5, SMTT(60)
  <2>2. utf8_validate_cz(s) = IF IsContinuation(s[2]) THEN 2 ELSE 0
    BY <2>1, SMTT(60) DEF utf8_validate_cz
  <2> QED
    BY <1>1, <1>5, <2>2, SMTT(60) DEF Two, Three, Four
<1>6. CASE 224 <= s[1] /\ s[1] <= 239
  <2>1. ~(s[1] <= 127) /\ s[1] \notin 194 .. 223 /\ s[1] \in 224 .. 239
    BY <1>1, <1>6, SMTT(60)
  <2>2. utf8_validate_cz(s) =
          IF (s[1] = 224 /\ s[2] < 160) \/ (s[1] = 237 /\ s[2] > 159)
               \/ ~IsContinuation(s[2]) \/ ~IsContinuation(s[3])
            THEN 0 ELSE 3
    BY <2>1, SMTT(60) DEF utf8_validate_cz
  <2> QED
    BY <1>1, <1>2, <1>6, <2>2, SMTT(60) DEF Two, Three, Four
<1>7. CASE 240 <= s[1] /\ s[1] <= 244
  <2>1. ~(s[1] <= 127) /\ s[1] \notin 194 .. 223 /\ s[1] \notin 224 .. 239 /\ s[1] \in 240 .. 244
    BY <1>1, <1>7, SMTT(60)
  <2>2. utf8_validate_cz(s) =
          IF (s[1] = 240 /\ s[2] < 144) \/ (s[1] = 244 /\ s[2] > 143)
               \/ ~IsContinuation(s[2]) \/ ~IsContinuation(s[3]) \/ ~IsContinuation(s[4])
            THEN 0 ELSE 4
    BY <2>1, SMTT(60) DEF utf8_validate_cz
  <2> QED
    BY <1>1, <1>2, <1>7, <2>2, SMTT(60) DEF Two, Three, Four
<1>8. CASE 245 <= s[1]
  <2>1. /\ ~(s[1] <= 127) /\ s[1] \notin 194 .. 223 /\ s[1] \notin 224 .. 239
        /\ s[1] \notin 240 .. 244
    BY <1>1, <1>8, SMTT(60)
  <2>2. utf8_validate_cz(s) = 0
    BY <2>1, SMTT(60) DEF utf8_validate_cz
  <2> QED
    BY <1>1, <1>8, <2>2, SMTT(60) DEF Two, Three, Four
<1> QED
  BY <1>1, <1>3, <1>4, <1>5, <1>6, <1>7, <1>8, SMTT(60)

\* In a string that ends in 0 there is another byte behind one that is not 0.
\* No character is longer than the string.
LEMMA NothingBehindTheEnd ==
  ASSUME NEW s \in Seq(Byte), s # <<>>, s[Len(s)] = 0
  PROVE  /\ s[1] # 0 => Len(s) >= 2
         /\ s[1] # 0 /\ s[2] # 0 => Len(s) >= 3
         /\ s[1] # 0 /\ s[2] # 0 /\ s[3] # 0 => Len(s) >= 4
         /\ \A k \in 2 .. 4 : Encoded(s, k) => Len(s) >= k
<1>1. /\ s[1] # 0 => Len(s) >= 2
      /\ s[1] # 0 /\ s[2] # 0 => Len(s) >= 3
      /\ s[1] # 0 /\ s[2] # 0 /\ s[3] # 0 => Len(s) >= 4
  BY SMTT(60)
<1>2. ASSUME NEW k \in 2 .. 4, Encoded(s, k)
      PROVE  Len(s) >= k
  <2>1. LeadBits[k] > 0
    BY Tables, SMTT(60)
  <2>2. s[1] >= LeadBits[k] /\ \A i \in 2 .. k : 128 <= s[i]
    BY <1>2 DEF Encoded
  <2>3. s[1] # 0
    BY <2>1, <2>2, Tables, SMTT(60)
  <2> QED
    BY <1>2, <2>2, <2>3, SMTT(60)
<1> QED
  BY <1>1, <1>2

\* utf8_validate_cz and utf8_read_char are right about any string that ends
\* in 0: they accept the characters of RFC 3629 and nothing else, and read
\* the character that is there.
LEMMA Decodes ==
  ASSUME NEW s \in Seq(Byte), s # <<>>, s[Len(s)] = 0
  PROVE  /\ \A k \in 1 .. 4 : Encoded(s, k) <=> utf8_validate_cz(s) = k
         /\ utf8_validate_cz(s) # 0 => utf8_read_char(s) = Value(s, utf8_validate_cz(s))
<1>1. s[1] \in Byte
  OBVIOUS
<1>2. s[1] \in Int /\ 0 <= s[1] /\ s[1] <= 255
  BY <1>1, ByteRange
<1>3. s[1] >= 224 => Len(s) >= 2 /\ s[2] \in Byte
  BY <1>2, NothingBehindTheEnd, SMTT(60)
<1>4. \A i \in 1 .. Len(s) : s[i] \in Byte /\ (IsContinuation(s[i]) => s[i] # 0)
  <2> TAKE i \in 1 .. Len(s)
  <2>1. s[i] \in Byte
    OBVIOUS
  <2> QED
    BY <2>1, Continued, SMTT(60)
<1>5. Encoded(s, 2) <=> Two(s)
  <2>1. Two(s) => Len(s) >= 2
    BY <1>2, NothingBehindTheEnd, SMTT(60) DEF Two
  <2>2. Encoded(s, 2) => Len(s) >= 2
    BY NothingBehindTheEnd, SMTT(60)
  <2> QED
    BY <2>1, <2>2, Double DEF Two
<1>6. Encoded(s, 3) <=> Three(s)
  <2>1. Three(s) => Len(s) >= 3
    BY <1>2, <1>4, NothingBehindTheEnd, SMTT(60) DEF Three
  <2>2. Encoded(s, 3) => Len(s) >= 3
    BY NothingBehindTheEnd, SMTT(60)
  <2> QED
    BY <2>1, <2>2, Triple DEF Three
<1>7. Encoded(s, 4) <=> Four(s)
  <2>1. Four(s) => Len(s) >= 4
    BY <1>2, <1>4, NothingBehindTheEnd, SMTT(60) DEF Four
  <2>2. Encoded(s, 4) => Len(s) >= 4
    BY NothingBehindTheEnd, SMTT(60)
  <2> QED
    BY <2>1, <2>2, Quadruple DEF Four
<1>8. Encoded(s, 1) <=> s[1] <= 127
  BY Single
<1>9. utf8_validate_cz(s) = IF s[1] <= 127 THEN 1 ELSE IF Two(s) THEN 2
                            ELSE IF Three(s) THEN 3 ELSE IF Four(s) THEN 4 ELSE 0
  BY <1>1, <1>3, ValidByFirst
<1>10. /\ Two(s) => ~(s[1] <= 127) /\ ~Three(s) /\ ~Four(s)
       /\ Three(s) => ~(s[1] <= 127) /\ ~Four(s)
       /\ Four(s) => ~(s[1] <= 127)
  BY <1>2, SMTT(60) DEF Two, Three, Four
<1>11. \A k \in 1 .. 4 : Encoded(s, k) <=> utf8_validate_cz(s) = k
  BY <1>5, <1>6, <1>7, <1>8, <1>9, <1>10, SMTT(60)
<1>12. utf8_validate_cz(s) # 0 => utf8_validate_cz(s) \in 1 .. 4
  BY <1>9, SMTT(60)
<1>13. \A k \in 1 .. 4 : Encoded(s, k) => utf8_read_char(s) = Value(s, k)
  <2>1. \A k \in 2 .. 4 : Encoded(s, k) => Len(s) >= k
    BY NothingBehindTheEnd
  <2>2. Encoded(s, 2) => utf8_read_char(s) = Value(s, 2)
    BY <2>1, Double, SMTT(60)
  <2>3. Encoded(s, 3) => utf8_read_char(s) = Value(s, 3)
    BY <2>1, Triple, SMTT(60)
  <2>4. Encoded(s, 4) => utf8_read_char(s) = Value(s, 4)
    BY <2>1, Quadruple, SMTT(60)
  <2>5. Encoded(s, 1) => utf8_read_char(s) = Value(s, 1)
    BY Single
  <2> QED
    BY <2>2, <2>3, <2>4, <2>5, SMTT(60)
<1> QED
  BY <1>11, <1>12, <1>13

-----------------------------------------------------------------------------
(* The loops over the characters of a string.                               *)

\* f[k] is what there is after k turns.
Turns(f, t, char, end, at) ==
  /\ f[0] = Success(at, <<>>)
  /\ \A k \in 1 .. Len(t) : f[k] = next_char(t, char, end, f[k - 1])

\* There is such a function, and each_char is its last value.
LEMMA EachChar ==
  ASSUME NEW t, Len(t) \in Nat, NEW char, NEW end, NEW at
  PROVE  \E f : Turns(f, t, char, end, at) /\ each_char(t, char, end, at) = f[Len(t)]
<1> DEFINE n == Len(t)
           Rhs(w, k) == IF k = 0 THEN Success(at, <<>>)
                        ELSE next_char(t, char, end, w[k - 1])
           f == CHOOSE w : w = [k \in 0 .. n |-> Rhs(w, k)]
<1>1. each_char(t, char, end, at) = f[n]
  BY Zenon DEF each_char
<1>2. \E w : w = [k \in 0 .. n |-> Rhs(w, k)]
  <2> DEFINE Holds(w, j) == \A k \in 0 .. j : w[k] = Rhs(w, k)
             T == {j \in Nat : \E w : Holds(w, j)}
  <2> HIDE DEF n
  <2>1. 0 \in T
    <3> DEFINE w == [k \in 0 .. 0 |-> Success(at, <<>>)]
    <3>1. Holds(w, 0)
      OBVIOUS
    <3> QED
      BY <3>1, Zenon
  <2>2. ASSUME NEW j \in T PROVE j + 1 \in T
    <3>1. PICK w : Holds(w, j)
      OBVIOUS
    <3> DEFINE v == [k \in 0 .. j + 1 |-> IF k = j + 1 THEN Rhs(w, j + 1) ELSE w[k]]
    <3>2. ASSUME NEW k \in 0 .. j + 1 PROVE v[k] = Rhs(v, k)
      <4>1. v[k] = IF k = j + 1 THEN Rhs(w, j + 1) ELSE w[k]
        OBVIOUS
      <4>2. k # 0 => k - 1 \in 0 .. j + 1 /\ k - 1 # j + 1
        OBVIOUS
      <4>3. k # 0 => v[k - 1] = w[k - 1]
        BY <4>2
      <4> HIDE DEF v
      <4>4. Rhs(v, k) = Rhs(w, k)
        BY <4>3, Zenon
      <4>5. k # j + 1 => k \in 0 .. j
        OBVIOUS
      <4> HIDE DEF Rhs
      <4> QED
        BY <3>1, <4>1, <4>4, <4>5, Zenon
    <3>3. j + 1 \in Nat
      OBVIOUS
    <3> HIDE DEF v, Rhs
    <3>4. Holds(v, j + 1)
      BY <3>2
    <3> QED
      BY <3>3, <3>4, Zenon
  <2>3. T = Nat
    <3>1. T \in SUBSET Nat
      OBVIOUS
    <3> HIDE DEF T
    <3> QED
      BY <2>1, <2>2, <3>1, SetInduction
  <2>4. PICK w : Holds(w, n)
    BY <2>3 DEF n
  <2> DEFINE v == [k \in 0 .. n |-> w[k]]
  <2>5. ASSUME NEW k \in 0 .. n PROVE v[k] = Rhs(v, k)
    <3>1. k # 0 => k - 1 \in 0 .. n
      BY DEF n
    <3>2. v[k] = w[k] /\ (k # 0 => v[k - 1] = w[k - 1])
      BY <3>1
    <3> HIDE DEF v
    <3>3. Rhs(v, k) = Rhs(w, k)
      BY <3>2, Zenon
    <3> HIDE DEF Rhs
    <3> QED
      BY <2>4, <3>2, <3>3, Zenon
  <2>6. v = [k \in 0 .. n |-> v[k]]
    OBVIOUS
  <2> HIDE DEF v, Rhs
  <2>7. v = [k \in 0 .. n |-> Rhs(v, k)]
    BY <2>5, <2>6, Zenon
  <2> QED
    BY <2>7, Zenon
<1>3. \A k \in 0 .. n : f[k] = Rhs(f, k)
  <2> HIDE DEF Rhs
  <2>1. f = [k \in 0 .. n |-> Rhs(f, k)]
    BY <1>2, Zenon
  <2> HIDE DEF f, n
  <2> QED
    BY <2>1, Zenon
<1> HIDE DEF f
<1>4. \A k \in 1 .. n : k \in 0 .. n /\ k # 0
  OBVIOUS
<1>5. 0 \in 0 .. n
  OBVIOUS
<1> HIDE DEF n
<1>6. f[0] = Success(at, <<>>) /\ \A k \in 1 .. n : f[k] = next_char(t, char, end, f[k - 1])
  BY <1>3, <1>4, <1>5, Zenon
<1>7. Turns(f, t, char, end, at)
  BY <1>6 DEF Turns, n
<1> QED
  BY <1>1, <1>7, Zenon DEF n

\* Behind the end the loop stays where it is.
LEMMA Stopped ==
  ASSUME NEW t, Len(t) \in Nat, NEW char, NEW end, NEW at, NEW f, Turns(f, t, char, end, at),
         NEW k \in 0 .. Len(t), next_char(t, char, end, f[k]) = f[k]
  PROVE  f[Len(t)] = f[k]
<1> DEFINE n == Len(t)
           T == {j \in Nat : k + j <= n => f[k + j] = f[k]}
<1>1. 0 \in T
  OBVIOUS
<1>2. ASSUME NEW j \in T PROVE j + 1 \in T
  <2>1. j \in Nat /\ k \in Nat /\ (k + j) + 1 = k + (j + 1) /\ j + 1 \in Nat
    OBVIOUS
  <2>2. ASSUME k + (j + 1) <= n PROVE f[k + (j + 1)] = f[k]
    <3>1. f[k + j] = f[k]
      BY <2>1, <2>2
    <3> DEFINE i == k + (j + 1)
    <3>2. i \in 1 .. n /\ i - 1 = k + j
      BY <2>1, <2>2
    <3> HIDE DEF i
    <3>3. f[i] = next_char(t, char, end, f[i - 1])
      BY <3>2 DEF Turns
    <3> QED
      BY <3>1, <3>2, <3>3 DEF i
  <2> QED
    BY <2>1, <2>2
<1>3. T = Nat
  <2>1. T \in SUBSET Nat
    OBVIOUS
  <2> HIDE DEF T
  <2> QED
    BY <1>1, <1>2, <2>1, SetInduction
<1>4. \A j \in Nat : k + j <= n => f[k + j] = f[k]
  BY <1>3
<1> HIDE DEF T
<1> DEFINE m == n - k
<1>5. m \in Nat /\ k + m = n /\ k + m <= n
  OBVIOUS
<1> HIDE DEF m
<1>6. f[k + m] = f[k]
  BY <1>4, <1>5
<1> QED
  BY <1>5, <1>6

-----------------------------------------------------------------------------
(* Escapes.                                                                 *)

\* Each of the 16 digits is read as its value, in capitals or not.
LEMMA DigitBack ==
  ASSUME NEW d \in Int, 0 <= d, d < 16
  PROVE  LET h == HexDigits[d + 1]
             l == IF h > 64 THEN h + 32 ELSE h
         IN  /\ h \in Nat /\ l \in Nat
             /\ HexValue(h) = d /\ HexValue(l) = d
<1> DEFINE h == HexDigits[d + 1]
<1>1. h = IF d < 10 THEN d + 48 ELSE d + 55
  <2>1. \/ d = 0 \/ d = 1 \/ d = 2 \/ d = 3 \/ d = 4 \/ d = 5 \/ d = 6 \/ d = 7 \/ d = 8
        \/ d = 9 \/ d = 10 \/ d = 11 \/ d = 12 \/ d = 13 \/ d = 14 \/ d = 15
    OBVIOUS
  <2> QED
    BY <2>1, SMTT(60) DEF HexDigits
<1> HIDE DEF h
<1>2. CASE d < 10
  <2>1. h = d + 48 /\ h \in Zero .. Zero + 9 /\ ~(h > 64)
    BY <1>1, <1>2 DEF Zero
  <2>2. HexValue(h) = h - Zero
    BY <2>1 DEF HexValue, is_digit
  <2> QED
    BY <2>1, <2>2 DEF Zero, h
<1>3. CASE ~(d < 10)
  <2>1. /\ h = d + 55 /\ h \in 65 .. 70 /\ h \notin Zero .. Zero + 9 /\ h > 64
        /\ h + 32 \in 97 .. 102 /\ h + 32 \notin 65 .. 70 /\ h + 32 \notin Zero .. Zero + 9
    BY <1>1, <1>3 DEF Zero
  <2>2. HexValue(h) = h - 55 /\ HexValue(h + 32) = (h + 32) - 87
    BY <2>1 DEF HexValue, is_digit
  <2> QED
    BY <2>1, <2>2 DEF h
<1> QED
  BY <1>2, <1>3

\* The four digits of a number of 16 bits.
Digit(v, i) == (CASE i = 1 -> v \div 4096 [] i = 2 -> v \div 256 [] i = 3 -> v \div 16
                  [] i = 4 -> v) % 16

Digits(v) ==
  /\ \A i \in 1 .. 4 : Digit(v, i) \in Int /\ 0 <= Digit(v, i) /\ Digit(v, i) < 16
  /\ Digit(v, 1) * 4096 + Digit(v, 2) * 256 + Digit(v, 3) * 16 + Digit(v, 4) = v

\* The four digits of a 16-bit number, put together, are the number.
LEMMA SixteenBits ==
  ASSUME NEW v \in Nat, v < 65536
  PROVE  Digits(v)
<1> DEFINE a == v \div 16
           b == v \div 256
           c == v \div 4096
<1>1. a \in Nat /\ b \in Nat /\ c \in Nat
  OBVIOUS
<1>2. v % 16 = v - 16 * a /\ 0 <= v - 16 * a /\ v - 16 * a < 16
  OBVIOUS
<1>3. 0 <= v - 256 * b /\ v - 256 * b < 256
  OBVIOUS
<1>4. 0 <= v - 4096 * c /\ v - 4096 * c < 4096
  OBVIOUS
<1>5. Digit(v, 1) = c % 16 /\ Digit(v, 2) = b % 16 /\ Digit(v, 3) = a % 16 /\ Digit(v, 4) = v % 16
  BY DEF Digit
<1> HIDE DEF a, b, c
<1>6. \A x \in Nat : x % 16 \in Int /\ 0 <= x % 16 /\ x % 16 < 16
  OBVIOUS
<1>7. c < 16 /\ c % 16 = c
  <2>1. c < 16
    BY <1>1, <1>4
  <2> QED
    BY <1>1, <2>1
<1>8. b % 16 = b - 16 * c
  <2>1. 0 <= b - 16 * c /\ b - 16 * c < 16
    BY <1>1, <1>3, <1>4
  <2> QED
    BY <1>1, <2>1
<1>9. a % 16 = a - 16 * b
  <2>1. 0 <= a - 16 * b /\ a - 16 * b < 16
    BY <1>1, <1>2, <1>3
  <2> QED
    BY <1>1, <2>1
<1>10. \A i \in 1 .. 4 : Digit(v, i) \in Int /\ 0 <= Digit(v, i) /\ Digit(v, i) < 16
  <2>1. \A i \in 1 .. 4 : i = 1 \/ i = 2 \/ i = 3 \/ i = 4
    OBVIOUS
  <2> QED
    BY <1>1, <1>5, <1>6, <2>1
<1> QED
  BY <1>1, <1>2, <1>5, <1>7, <1>8, <1>9, <1>10 DEF Digits

\* Lowered, character by character.
LEMMA LoweredAll ==
  ASSUME NEW w \in Seq(Nat)
  PROVE  /\ Lowered(w) \in Seq(Nat) /\ Len(Lowered(w)) = Len(w)
         /\ \A i \in 1 .. Len(w) : Lowered(w)[i] = IF w[i] > 64 THEN w[i] + 32 ELSE w[i]
BY DEF Lowered

\* Four characters that are the digits of v.
HexOf(hex, v) == hex \in Seq(Nat) /\ Len(hex) = 4 /\ \A i \in 1 .. 4 : HexValue(hex[i]) = Digit(v, i)

\* Digits in small letters are the same digits.
LEMMA HexLowered ==
  ASSUME NEW v, NEW w, HexOf(w, v),
         \A i \in 1 .. 4 : HexValue(IF w[i] > 64 THEN w[i] + 32 ELSE w[i]) = Digit(v, i)
  PROVE  HexOf(Lowered(w), v)
<1>1. w \in Seq(Nat) /\ Len(w) = 4
  BY DEF HexOf
<1>2. /\ Lowered(w) \in Seq(Nat) /\ Len(Lowered(w)) = Len(w)
      /\ \A i \in 1 .. Len(w) : Lowered(w)[i] = IF w[i] > 64 THEN w[i] + 32 ELSE w[i]
  BY <1>1, LoweredAll
<1>3. \A i \in 1 .. 4 : Lowered(w)[i] = IF w[i] > 64 THEN w[i] + 32 ELSE w[i]
  BY <1>1, <1>2, Zenon
<1>4. \A i \in 1 .. 4 : HexValue(Lowered(w)[i]) = Digit(v, i)
  BY <1>3, Zenon
<1> QED
  BY <1>1, <1>2, <1>4, Zenon DEF HexOf

\* What write_hex16 writes, in capitals or not.
LEMMA HexWritten ==
  ASSUME NEW v \in Nat, Digits(v)
  PROVE  HexOf(write_hex16(v), v) /\ HexOf(Lowered(write_hex16(v)), v)
<1> DEFINE w == write_hex16(v)
           D(i) == Digit(v, i)
<1>1. w = <<HexDigits[D(1) + 1], HexDigits[D(2) + 1], HexDigits[D(3) + 1], HexDigits[D(4) + 1]>>
  BY DEF write_hex16, Digit
<1>2. \A i \in 1 .. 4 : D(i) \in Int /\ 0 <= D(i) /\ D(i) < 16
  BY DEF Digits
<1> HIDE DEF w, D
<1>3. ASSUME NEW i \in 1 .. 4
      PROVE  /\ w[i] \in Nat /\ HexValue(w[i]) = D(i)
             /\ HexValue(IF w[i] > 64 THEN w[i] + 32 ELSE w[i]) = D(i)
  <2>1. w[i] = HexDigits[D(i) + 1]
    <3>1. i = 1 \/ i = 2 \/ i = 3 \/ i = 4
      OBVIOUS
    <3> QED
      BY <1>1, <3>1
  <2>2. D(i) \in Int /\ 0 <= D(i) /\ D(i) < 16
    BY <1>2
  <2> QED
    BY <2>1, <2>2, DigitBack
<1>4. w \in Seq(Nat) /\ Len(w) = 4
  <2>1. 1 \in 1 .. 4 /\ 2 \in 1 .. 4 /\ 3 \in 1 .. 4 /\ 4 \in 1 .. 4
    OBVIOUS
  <2>2. w[1] \in Nat /\ w[2] \in Nat /\ w[3] \in Nat /\ w[4] \in Nat
    BY <1>3, <2>1
  <2> QED
    BY <1>1, <2>2
<1>5. HexOf(w, v)
  BY <1>3, <1>4, Zenon DEF HexOf, D
<1>6. HexOf(Lowered(w), v)
  BY <1>3, <1>5, HexLowered, Zenon DEF D
<1> QED
  BY <1>5, <1>6 DEF w

\* parse_hex16 of the digits of v.
Holds(t, at, hex) == \A i \in 0 .. 3 : t[at + i] = hex[i + 1]

\* parse_hex16 reads the digits of a number as that number.
LEMMA HexRead ==
  ASSUME NEW v, Digits(v), NEW hex, HexOf(hex, v), NEW t, NEW at \in Int, Holds(t, at, hex)
  PROVE  parse_hex16(t, at) = Success(at + 4, v)
<1>1. /\ t[at + 0] = hex[1] /\ t[at + 1] = hex[2] /\ t[at + 2] = hex[3] /\ t[at + 3] = hex[4]
  BY DEF Holds
<1>2. /\ HexValue(t[at + 0]) = Digit(v, 1) /\ HexValue(t[at + 1]) = Digit(v, 2)
      /\ HexValue(t[at + 2]) = Digit(v, 3) /\ HexValue(t[at + 3]) = Digit(v, 4)
  BY <1>1 DEF HexOf
<1>3. /\ Digit(v, 1) # -1 /\ Digit(v, 2) # -1 /\ Digit(v, 3) # -1 /\ Digit(v, 4) # -1
      /\ Digit(v, 1) * 4096 + Digit(v, 2) * 256 + Digit(v, 3) * 16 + Digit(v, 4) = v
  BY DEF Digits
<1> QED
  BY <1>2, <1>3 DEF parse_hex16

\* write_hex16, and parse_hex16 of what it writes.
IsHex(hex, v) ==
  /\ hex \in Seq(Nat) /\ Len(hex) = 4
  /\ \A t : \A at \in Int : Holds(t, at, hex) => parse_hex16(t, at) = Success(at + 4, v)

\* What write_hex16 writes, in capitals or not, is the digits of the number,
LEMMA HexBoth ==
  ASSUME NEW v \in Nat, Digits(v)
  PROVE  IsHex(write_hex16(v), v) /\ IsHex(Lowered(write_hex16(v)), v)
<1>1. HexOf(write_hex16(v), v) /\ HexOf(Lowered(write_hex16(v)), v)
  BY HexWritten, Zenon
<1>2. ASSUME NEW hex, HexOf(hex, v)
      PROVE  IsHex(hex, v)
  <2>1. hex \in Seq(Nat) /\ Len(hex) = 4
    BY <1>2, Zenon DEF HexOf
  <2>2. ASSUME NEW t, NEW at \in Int, Holds(t, at, hex)
        PROVE  parse_hex16(t, at) = Success(at + 4, v)
    BY <1>2, <2>2, HexRead, Zenon
  <2> QED
    BY <2>1, <2>2, Zenon DEF IsHex
<1> QED
  BY <1>1, <1>2, Zenon

\* of every number of 16 bits.
LEMMA HexBack ==
  ASSUME NEW v \in Nat, v < 65536
  PROVE  IsHex(write_hex16(v), v) /\ IsHex(Lowered(write_hex16(v)), v)
<1>1. Digits(v)
  BY SixteenBits
<1> QED
  BY <1>1, HexBoth

\* The digits of a number to the base 64.
LEMMA SixBits ==
  ASSUME NEW v \in Nat
  PROVE  /\ v \div 64 \in Nat /\ v \div 4096 \in Nat /\ v \div 262144 \in Nat
         /\ v % 64 = v - 64 * (v \div 64)
         /\ (v \div 64) % 64 = (v \div 64) - 64 * (v \div 4096)
         /\ (v \div 4096) % 64 = (v \div 4096) - 64 * (v \div 262144)
<1> DEFINE a == v \div 64
           b == v \div 4096
           c == v \div 262144
<1>1. a \in Nat /\ b \in Nat /\ c \in Nat
  OBVIOUS
<1>2. v % 64 = v - 64 * a /\ 0 <= v - 64 * a /\ v - 64 * a < 64
  OBVIOUS
<1>3. 0 <= v - 4096 * b /\ v - 4096 * b < 4096
  OBVIOUS
<1>4. 0 <= v - 262144 * c /\ v - 262144 * c < 262144
  OBVIOUS
<1> HIDE DEF a, b, c
<1>5. a % 64 = a - 64 * b
  <2>1. 0 <= a - 64 * b /\ a - 64 * b < 64
    BY <1>1, <1>2, <1>3
  <2> QED
    BY <1>1, <2>1
<1>6. b % 64 = b - 64 * c
  <2>1. 0 <= b - 64 * c /\ b - 64 * c < 64
    BY <1>1, <1>3, <1>4
  <2> QED
    BY <1>1, <2>1
<1> QED
  BY <1>1, <1>2, <1>5, <1>6 DEF a, b, c

\* The encoding of code in n bytes.
IsCode(s, code, n) == s \in Seq(Int) /\ Len(s) = n /\ Encodes(s, code)

\* Bytes with the value of a character encode it.
LEMMA CodeByValue ==
  ASSUME NEW n \in 1 .. 4, NEW code, Takes(code, n), NEW s \in Seq(Int), Len(s) = n,
         s[1] >= LeadBits[n], \A i \in 2 .. n : 128 <= s[i] /\ s[i] < 192,
         Value(s, n) = code
  PROVE  IsCode(s, code, n)
<1>1. Encoded(s, n)
  BY Zenon DEF Encoded
<1> QED
  BY <1>1, Zenon DEF IsCode, Encodes

\* utf8_write_char gives the shortest encoding, by the bytes the character takes.
LEMMA WriteOne ==
  ASSUME NEW code \in Nat, Takes(code, 1)
  PROVE  IsCode(utf8_write_char(code), code, 1) /\ utf8_write_char(code) = <<code>>
<1>1. code <= 127
  BY Tables DEF Takes
<1> DEFINE s == <<code>>
<1>2. utf8_write_char(code) = s
  BY <1>1 DEF utf8_write_char
<1>3. s \in Seq(Int) /\ Len(s) = 1 /\ s[1] = code
  OBVIOUS
<1> HIDE DEF s
<1>4. Value(s, 1) = code
  BY <1>3, Tables DEF Value
<1>5. s[1] >= LeadBits[1]
  BY <1>3, Tables
<1>6. \A i \in 2 .. 1 : 128 <= s[i] /\ s[i] < 192
  OBVIOUS
<1>7. IsCode(s, code, 1)
  BY <1>3, <1>4, <1>5, <1>6, CodeByValue
<1> QED
  BY <1>2, <1>7 DEF s

LEMMA WriteTwo ==
  ASSUME NEW code \in Nat, Takes(code, 2)
  PROVE  IsCode(utf8_write_char(code), code, 2)
<1>1. 128 <= code /\ code <= 2047
  BY Tables DEF Takes
<1> DEFINE s == <<192 + (code \div 64), 128 + (code % 64)>>
<1>2. utf8_write_char(code) = s
  BY <1>1 DEF utf8_write_char, Low6
<1>3. code \div 64 \in Nat /\ 0 <= code % 64 /\ code % 64 < 64 /\ code % 64 = code - 64 * (code \div 64)
  BY SixBits
<1>4. /\ s \in Seq(Int) /\ Len(s) = 2
      /\ s[1] = 192 + (code \div 64) /\ s[2] = 128 + (code % 64)
  BY <1>3
<1> HIDE DEF s
<1>5. Value(s, 2) = code
  BY <1>3, <1>4, Tables DEF Value
<1>6. s[1] >= LeadBits[2]
  BY <1>3, <1>4, Tables
<1>7. \A i \in 2 .. 2 : 128 <= s[i] /\ s[i] < 192
  BY <1>3, <1>4
<1> QED
  BY <1>2, <1>4, <1>5, <1>6, <1>7, CodeByValue

LEMMA WriteThree ==
  ASSUME NEW code \in Nat, Takes(code, 3)
  PROVE  IsCode(utf8_write_char(code), code, 3)
<1>1. 2048 <= code /\ code <= 65535
  BY Tables DEF Takes
<1> DEFINE a == code \div 4096
           b == (code \div 64) % 64
           c == code % 64
           s == <<224 + a, 128 + b, 128 + c>>
<1>2. utf8_write_char(code) = s
  BY <1>1 DEF utf8_write_char, Low6
<1>3. /\ a \in Nat /\ b \in Int /\ 0 <= b /\ b < 64 /\ c \in Int /\ 0 <= c /\ c < 64
      /\ code = a * 4096 + b * 64 + c
  BY SixBits
<1> HIDE DEF a, b, c
<1>4. s \in Seq(Int) /\ Len(s) = 3 /\ s[1] = 224 + a /\ s[2] = 128 + b /\ s[3] = 128 + c
  BY <1>3
<1> HIDE DEF s
<1>5. Value(s, 3) = code
  BY <1>3, <1>4, Tables DEF Value
<1>6. s[1] >= LeadBits[3]
  BY <1>3, <1>4, Tables
<1>7. \A i \in 2 .. 3 : 128 <= s[i] /\ s[i] < 192
  BY <1>3, <1>4
<1> QED
  BY <1>2, <1>4, <1>5, <1>6, <1>7, CodeByValue

LEMMA WriteFour ==
  ASSUME NEW code \in Nat, Takes(code, 4)
  PROVE  IsCode(utf8_write_char(code), code, 4)
<1>1. 65536 <= code
  BY Tables DEF Takes
<1> DEFINE a == code \div 262144
           b == (code \div 4096) % 64
           c == (code \div 64) % 64
           d == code % 64
           s == <<240 + a, 128 + b, 128 + c, 128 + d>>
<1>2. utf8_write_char(code) = s
  BY <1>1 DEF utf8_write_char, Low6
<1>3. /\ a \in Nat /\ b \in Int /\ 0 <= b /\ b < 64 /\ c \in Int /\ 0 <= c /\ c < 64
      /\ d \in Int /\ 0 <= d /\ d < 64
      /\ code = a * 262144 + b * 4096 + c * 64 + d
  BY SixBits
<1> HIDE DEF a, b, c, d
<1>4. /\ s \in Seq(Int) /\ Len(s) = 4
      /\ s[1] = 240 + a /\ s[2] = 128 + b /\ s[3] = 128 + c /\ s[4] = 128 + d
  BY <1>3
<1> HIDE DEF s
<1>5. Value(s, 4) = code
  BY <1>3, <1>4, Tables DEF Value
<1>6. s[1] >= LeadBits[4]
  BY <1>3, <1>4, Tables
<1>7. \A i \in 2 .. 4 : 128 <= s[i] /\ s[i] < 192
  BY <1>3, <1>4
<1> QED
  BY <1>2, <1>4, <1>5, <1>6, <1>7, CodeByValue

\* What is written for a character is its encoding (utf8_write_char).
LEMMA Writes ==
  ASSUME NEW n \in 1 .. 4, NEW code \in Nat, Takes(code, n)
  PROVE  IsCode(utf8_write_char(code), code, n)
<1>1. n = 1 \/ n = 2 \/ n = 3 \/ n = 4
  OBVIOUS
<1> QED
  BY <1>1, WriteOne, WriteTwo, WriteThree, WriteFour, Zenon

-----------------------------------------------------------------------------
(* The loop over a string, turn by turn.                                    *)

\* After k turns the loop has come to done.
Reaches(t, char, end, at, k, done) ==
  /\ k \in 0 .. Len(t)
  /\ \E f : /\ Turns(f, t, char, end, at) /\ f[k] = done
            /\ each_char(t, char, end, at) = f[Len(t)]

\* No turn has been made.
LEMMA LoopStarts ==
  ASSUME NEW t, Len(t) \in Nat, NEW char, NEW end, NEW at
  PROVE  Reaches(t, char, end, at, 0, Success(at, <<>>))
<1>1. PICK f : Turns(f, t, char, end, at) /\ each_char(t, char, end, at) = f[Len(t)]
  BY EachChar
<1>2. f[0] = Success(at, <<>>)
  BY <1>1, Zenon DEF Turns
<1>3. 0 \in 0 .. Len(t)
  OBVIOUS
<1> QED
  BY <1>1, <1>2, <1>3, Zenon DEF Reaches

\* One more turn.
LEMMA LoopGoesOn ==
  ASSUME NEW t, Len(t) \in Nat, NEW char, NEW end, NEW at, NEW k \in Nat, k < Len(t), NEW done,
         Reaches(t, char, end, at, k, done)
  PROVE  Reaches(t, char, end, at, k + 1, next_char(t, char, end, done))
<1>1. PICK f : /\ Turns(f, t, char, end, at) /\ f[k] = done
               /\ each_char(t, char, end, at) = f[Len(t)]
  BY Zenon DEF Reaches
<1>2. k + 1 \in 1 .. Len(t) /\ k + 1 \in 0 .. Len(t) /\ (k + 1) - 1 = k
  OBVIOUS
<1>3. f[k + 1] = next_char(t, char, end, f[(k + 1) - 1])
  BY <1>1, <1>2, Zenon DEF Turns
<1>4. f[k + 1] = next_char(t, char, end, done)
  BY <1>1, <1>2, <1>3, Zenon
<1> QED
  BY <1>1, <1>2, <1>4, Zenon DEF Reaches

\* A turn that changes nothing is the last one, however many are left.
LEMMA LoopEnds ==
  ASSUME NEW t, Len(t) \in Nat, NEW char, NEW end, NEW at, NEW k, NEW done,
         Reaches(t, char, end, at, k, done), next_char(t, char, end, done) = done
  PROVE  each_char(t, char, end, at) = done
<1>1. PICK f : /\ Turns(f, t, char, end, at) /\ f[k] = done
               /\ each_char(t, char, end, at) = f[Len(t)]
  BY Zenon DEF Reaches
<1>2. k \in 0 .. Len(t)
  BY DEF Reaches
<1>3. f[Len(t)] = f[k]
  BY <1>1, <1>2, Stopped, Zenon
<1> QED
  BY <1>1, <1>3, Zenon

\* What becomes of a turn.
LEMMA TurnTaken ==
  ASSUME NEW t, NEW char, NEW end, NEW at, NEW value, t[at] # end
  PROVE  /\ \A next, more : char[at] = Success(next, more) =>
              next_char(t, char, end, Success(at, value)) = Success(next, value \o more)
         /\ char[at] = Failure => next_char(t, char, end, Success(at, value)) = Failure
<1>1. \A p, v : Success(p, v).ok = TRUE /\ Success(p, v).at = p /\ Success(p, v).value = v
  BY DEF Success
<1>2. Failure.ok = FALSE
  BY DEF Failure
<1>3. ASSUME NEW next, NEW more, char[at] = Success(next, more)
      PROVE  next_char(t, char, end, Success(at, value)) = Success(next, value \o more)
  <2> DEFINE done == Success(at, value)
  <2>1. done.ok = TRUE /\ t[done.at] # end /\ char[done.at] = Success(next, more) /\ done.value = value
    BY <1>1, <1>3, Zenon
  <2> HIDE DEF done
  <2>2. char[done.at].ok = TRUE /\ char[done.at].at = next /\ char[done.at].value = more
    BY <2>1 DEF Success
  <2>3. next_char(t, char, end, done) = Success(char[done.at].at, done.value \o char[done.at].value)
    BY <2>1, <2>2, Zenon DEF next_char
  <2> QED
    BY <2>1, <2>2, <2>3, Zenon DEF done
<1>4. ASSUME char[at] = Failure
      PROVE  next_char(t, char, end, Success(at, value)) = Failure
  BY <1>1, <1>2, <1>4, Zenon DEF next_char
<1> QED
  BY <1>3, <1>4, Zenon

\* The turns that change nothing: at the end, and after a failure.
LEMMA TurnStops ==
  ASSUME NEW t, NEW char, NEW end, NEW at, NEW value, t[at] = end
  PROVE  next_char(t, char, end, Success(at, value)) = Success(at, value)
BY DEF next_char, Success

LEMMA TurnFails ==
  ASSUME NEW t, NEW char, NEW end
  PROVE  next_char(t, char, end, Failure) = Failure
BY DEF next_char, Failure

\* How parse_string comes to its result.
Parsed(t) == [i \in DOMAIN t |-> parse_char(t, i)]

\* A literal is read when the loop comes to a quote,
LEMMA LiteralRead ==
  ASSUME NEW t, Len(t) \in Nat, NEW k, NEW at, NEW value,
         Reaches(t, Parsed(t), Quote, 1 + 1, k, Success(at, value)), t[1] = Quote, t[at] = Quote
  PROVE  parse_string(t, 1) = Success(at + 1, value)
<1>1. next_char(t, Parsed(t), Quote, Success(at, value)) = Success(at, value)
  BY TurnStops
<1>2. each_char(t, Parsed(t), Quote, 1 + 1) = Success(at, value)
  BY <1>1, LoopEnds, Zenon
<1>3. /\ Success(at, value).ok = TRUE /\ Success(at, value).at = at
      /\ Success(at, value).value = value
  BY DEF Success
<1> QED
  BY <1>2, <1>3, Zenon DEF parse_string, Parsed

\* and refused when it has failed.
LEMMA LiteralRefused ==
  ASSUME NEW t, Len(t) \in Nat, NEW k, Reaches(t, Parsed(t), Quote, 1 + 1, k, Failure)
  PROVE  parse_string(t, 1).ok = FALSE
<1>1. next_char(t, Parsed(t), Quote, Failure) = Failure
  BY TurnFails, Zenon
<1>2. each_char(t, Parsed(t), Quote, 1 + 1) = Failure
  BY <1>1, LoopEnds, Zenon
<1>3. Failure.ok = FALSE
  BY DEF Failure
<1> QED
  BY <1>2, <1>3, Zenon DEF parse_string, Parsed

\* r is p and then q.
Joins(r, p, q) ==
  /\ Len(r) = Len(p) + Len(q)
  /\ \A i \in 1 .. Len(p) : r[i] = p[i]
  /\ \A i \in 1 .. Len(q) : r[Len(p) + i] = q[i]

\* The characters of two strings in one.
LEMMA Joined ==
  ASSUME NEW S, NEW p \in Seq(S), NEW q \in Seq(S)
  PROVE  p \o q \in Seq(S) /\ Joins(p \o q, p, q)
<1>1. /\ p \o q \in Seq(S) /\ Len(p \o q) = Len(p) + Len(q)
      /\ \A i \in 1 .. Len(p) + Len(q) : (p \o q)[i] = IF i <= Len(p) THEN p[i] ELSE q[i - Len(p)]
  BY ConcatProperties
<1>2. Len(p) \in Nat /\ Len(q) \in Nat
  OBVIOUS
<1> QED
  BY <1>1, <1>2 DEF Joins

\* The literal of one escape, and of two.
Begins(t, at, hex) == t[at] = BackSlash /\ t[at + 1] = 117 /\ Holds(t, at + 2, hex)

OneEscape(t, hex) ==
  Len(t) = 9 /\ DOMAIN t = 1 .. 9 /\ t[1] = Quote /\ Begins(t, 2, hex) /\ t[8] = Quote
TwoEscapes(t, hex, hex2) ==
  /\ Len(t) = 15 /\ DOMAIN t = 1 .. 15 /\ t[1] = Quote /\ Begins(t, 2, hex)
  /\ Begins(t, 8, hex2) /\ t[14] = Quote

\* The texts of EscapesDecode, character by character.
LEMMA EscapeText ==
  ASSUME NEW hex \in Seq(Nat), Len(hex) = 4
  PROVE  LET e == Escape(hex)
         IN  e \in Seq(Nat) /\ Len(e) = 6 /\ e[1] = BackSlash /\ e[2] = 117
             /\ e[3] = hex[1] /\ e[4] = hex[2] /\ e[5] = hex[3] /\ e[6] = hex[4]
<1> DEFINE p == <<BackSlash, 117>>
<1>1. p \in Seq(Nat) /\ Len(p) = 2 /\ p[1] = BackSlash /\ p[2] = 117
  BY DEF BackSlash
<1> HIDE DEF p
<1>2. /\ p \o hex \in Seq(Nat) /\ Len(p \o hex) = 6
      /\ (p \o hex)[1] = p[1] /\ (p \o hex)[2] = p[2]
      /\ (p \o hex)[3] = hex[1] /\ (p \o hex)[4] = hex[2]
      /\ (p \o hex)[5] = hex[3] /\ (p \o hex)[6] = hex[4]
  <2>1. p \o hex \in Seq(Nat) /\ Joins(p \o hex, p, hex)
    BY <1>1, Joined, Zenon
  <2>2. /\ 1 \in 1 .. Len(p) /\ 2 \in 1 .. Len(p) /\ 1 \in 1 .. Len(hex) /\ 2 \in 1 .. Len(hex)
        /\ 3 \in 1 .. Len(hex) /\ 4 \in 1 .. Len(hex) /\ Len(p) + Len(hex) = 6
        /\ Len(p) + 1 = 3 /\ Len(p) + 2 = 4 /\ Len(p) + 3 = 5 /\ Len(p) + 4 = 6
    BY <1>1
  <2> QED
    BY <2>1, <2>2 DEF Joins
<1> QED
  BY <1>1, <1>2 DEF Escape, p

LEMMA LiteralText ==
  ASSUME NEW s \in Seq(Nat)
  PROVE  LET t == Literal(s)
         IN  /\ t \in Seq(Nat) /\ Len(t) = Len(s) + 3 /\ t[1] = Quote
             /\ \A i \in 1 .. Len(s) : t[i + 1] = s[i]
             /\ t[Len(s) + 2] = Quote /\ t[Len(s) + 3] = 0
<1> DEFINE p == <<Quote>>
           q == <<Quote, 0>>
           r == p \o s
<1>1. p \in Seq(Nat) /\ Len(p) = 1 /\ p[1] = Quote
  BY DEF Quote
<1>2. q \in Seq(Nat) /\ Len(q) = 2 /\ q[1] = Quote /\ q[2] = 0
  BY DEF Quote
<1> HIDE DEF p, q
<1>3. r \in Seq(Nat) /\ Len(r) = Len(s) + 1 /\ r[1] = p[1] /\ \A i \in 1 .. Len(s) : r[i + 1] = s[i]
  <2>1. p \o s \in Seq(Nat) /\ Joins(p \o s, p, s)
    BY <1>1, Joined, Zenon
  <2>2. \A i \in 1 .. Len(s) : 1 + i = i + 1
    OBVIOUS
  <2> QED
    BY <1>1, <2>1, <2>2 DEF Joins
<1> HIDE DEF r
<1>4. /\ r \o q \in Seq(Nat) /\ Len(r \o q) = Len(r) + 2
      /\ \A i \in 1 .. Len(r) : (r \o q)[i] = r[i]
      /\ (r \o q)[Len(r) + 1] = q[1] /\ (r \o q)[Len(r) + 2] = q[2]
  <2>1. r \o q \in Seq(Nat) /\ Joins(r \o q, r, q)
    BY <1>2, <1>3, Joined, Zenon
  <2> QED
    BY <1>2, <2>1 DEF Joins
<1>5. Literal(s) = r \o q
  BY DEF Literal, r, p, q
<1> QED
  BY <1>1, <1>2, <1>3, <1>4, <1>5

LEMMA OneText ==
  ASSUME NEW hex \in Seq(Nat), Len(hex) = 4
  PROVE  OneEscape(Literal(Escape(hex)), hex)
<1> DEFINE e == Escape(hex)
           t == Literal(e)
<1>1. /\ e \in Seq(Nat) /\ Len(e) = 6 /\ e[1] = BackSlash /\ e[2] = 117
      /\ e[3] = hex[1] /\ e[4] = hex[2] /\ e[5] = hex[3] /\ e[6] = hex[4]
  BY EscapeText, Zenon
<1> HIDE DEF e
<1>2. /\ t \in Seq(Nat) /\ Len(t) = Len(e) + 3 /\ t[1] = Quote
      /\ \A i \in 1 .. Len(e) : t[i + 1] = e[i]
      /\ t[Len(e) + 2] = Quote /\ t[Len(e) + 3] = 0
  BY <1>1, LiteralText, Zenon
<1> HIDE DEF t
<1>3. /\ Len(t) = 9 /\ DOMAIN t = 1 .. 9 /\ t[8] = Quote
      /\ t[2] = e[1] /\ t[3] = e[2] /\ t[4] = e[3] /\ t[5] = e[4] /\ t[6] = e[5] /\ t[7] = e[6]
  BY <1>1, <1>2
<1>4. Holds(t, 4, hex)
  BY <1>1, <1>3 DEF Holds
<1> QED
  BY <1>1, <1>2, <1>3, <1>4 DEF OneEscape, Begins, t, e

LEMMA TwoText ==
  ASSUME NEW hex \in Seq(Nat), Len(hex) = 4, NEW hex2 \in Seq(Nat), Len(hex2) = 4
  PROVE  TwoEscapes(Literal(Escape(hex) \o Escape(hex2)), hex, hex2)
<1> DEFINE e == Escape(hex)
           g == Escape(hex2)
           b == e \o g
           t == Literal(b)
<1>1. /\ e \in Seq(Nat) /\ Len(e) = 6 /\ e[1] = BackSlash /\ e[2] = 117
      /\ e[3] = hex[1] /\ e[4] = hex[2] /\ e[5] = hex[3] /\ e[6] = hex[4]
  BY EscapeText, Zenon
<1>2. /\ g \in Seq(Nat) /\ Len(g) = 6 /\ g[1] = BackSlash /\ g[2] = 117
      /\ g[3] = hex2[1] /\ g[4] = hex2[2] /\ g[5] = hex2[3] /\ g[6] = hex2[4]
  BY EscapeText, Zenon
<1> HIDE DEF e, g
<1>3. /\ b \in Seq(Nat) /\ Len(b) = 12
      /\ \A i \in 1 .. 6 : b[i] = e[i] /\ b[i + 6] = g[i]
  <2>1. e \o g \in Seq(Nat) /\ Joins(e \o g, e, g)
    BY <1>1, <1>2, Joined, Zenon
  <2>2. \A i \in 1 .. 6 : i + 6 = 6 + i
    OBVIOUS
  <2>3. Len(e) = 6 /\ Len(g) = 6
    BY <1>1, <1>2
  <2>4. /\ Len(b) = Len(e) + Len(g) /\ \A i \in 1 .. Len(e) : b[i] = e[i]
        /\ \A i \in 1 .. Len(g) : b[Len(e) + i] = g[i]
    BY <2>1, Zenon DEF Joins
  <2>5. Len(b) = 12
    BY <2>3, <2>4
  <2>6. \A i \in 1 .. 6 : b[i] = e[i] /\ b[i + 6] = g[i]
    BY <2>2, <2>3, <2>4, Zenon
  <2> QED
    BY <2>1, <2>5, <2>6
<1> HIDE DEF b
<1>4. /\ t \in Seq(Nat) /\ Len(t) = Len(b) + 3 /\ t[1] = Quote
      /\ \A i \in 1 .. Len(b) : t[i + 1] = b[i]
      /\ t[Len(b) + 2] = Quote /\ t[Len(b) + 3] = 0
  BY <1>3, LiteralText, Zenon
<1> HIDE DEF t
<1>5. /\ Len(t) = 15 /\ DOMAIN t = 1 .. 15 /\ t[14] = Quote
      /\ \A i \in 1 .. 12 : t[i + 1] = b[i]
  BY <1>3, <1>4
<1>6. \A i \in 1 .. 6 : t[i + 1] = e[i] /\ t[i + 7] = g[i]
  <2> TAKE i \in 1 .. 6
  <2>1. i \in 1 .. 12 /\ i + 6 \in 1 .. 12 /\ (i + 6) + 1 = i + 7
    OBVIOUS
  <2> QED
    BY <1>3, <1>5, <2>1
<1>7. /\ t[2] = e[1] /\ t[3] = e[2] /\ t[4] = e[3] /\ t[5] = e[4] /\ t[6] = e[5] /\ t[7] = e[6]
      /\ t[8] = g[1] /\ t[9] = g[2] /\ t[10] = g[3] /\ t[11] = g[4] /\ t[12] = g[5] /\ t[13] = g[6]
  BY <1>6
<1>8. Holds(t, 4, hex) /\ Holds(t, 10, hex2)
  BY <1>1, <1>2, <1>7 DEF Holds
<1>9. Begins(t, 2, hex) /\ Begins(t, 8, hex2)
  <2>1. 2 + 1 = 3 /\ 2 + 2 = 4 /\ 8 + 1 = 9 /\ 8 + 2 = 10
    OBVIOUS
  <2>2. t[2] = BackSlash /\ t[3] = 117 /\ t[8] = BackSlash /\ t[9] = 117
    BY <1>1, <1>2, <1>7
  <2> QED
    BY <1>8, <2>1, <2>2, Zenon DEF Begins
<1>10. TwoEscapes(t, hex, hex2)
  BY <1>4, <1>5, <1>9, Zenon DEF TwoEscapes
<1> QED
  BY <1>10 DEF t, b, e, g

-----------------------------------------------------------------------------
(* What an escape is read as.                                               *)

\* parse_char at an escape goes by its number.
LEMMA EscapeSeen ==
  ASSUME NEW t, NEW at \in Int, NEW hex, NEW v, Begins(t, at, hex), IsHex(hex, v)
  PROVE  /\ parse_char(t, at) = parse_unicode(t, at + 2)
         /\ parse_hex16(t, at + 2) = Success((at + 2) + 4, v)
<1>1. t[at] = BackSlash /\ t[at + 1] = 117 /\ Holds(t, at + 2, hex)
  BY DEF Begins
<1>2. 117 \notin DOMAIN Escaped /\ ~(BackSlash <= 31)
  BY DEF Escaped, BackSlash, Quote, Slash
<1>3. parse_char(t, at) = parse_unicode(t, at + 2)
  BY <1>1, <1>2 DEF parse_char
<1>4. at + 2 \in Int
  OBVIOUS
<1>5. parse_hex16(t, at + 2) = Success((at + 2) + 4, v)
  BY <1>1, <1>4, Zenon DEF IsHex
<1> QED
  BY <1>3, <1>5

\* parse_char of an escape: a code of its own,
LEMMA PlainEscape ==
  ASSUME NEW t, NEW at \in Int, NEW hex, NEW v, Begins(t, at, hex), IsHex(hex, v),
         v # 0, v \notin Surrogates
  PROVE  parse_char(t, at) = Success(at + 6, utf8_write_char(v))
<1> DEFINE uc == parse_hex16(t, at + 2)
<1>1. parse_char(t, at) = parse_unicode(t, at + 2) /\ uc = Success((at + 2) + 4, v)
  BY EscapeSeen, Zenon
<1>2. uc.ok = TRUE /\ uc.at = at + 6 /\ uc.value = v
  BY <1>1 DEF Success
<1> HIDE DEF uc
<1>3. parse_unicode(t, at + 2) = Success(uc.at, utf8_write_char(uc.value))
  BY <1>2, Zenon DEF parse_unicode, uc
<1> QED
  BY <1>1, <1>2, <1>3, Zenon

\* U+0000 and a lone half of a pair,
LEMMA NoEscape ==
  ASSUME NEW t, NEW at \in Int, NEW hex, NEW v, Begins(t, at, hex), IsHex(hex, v),
         v = 0 \/ (v \in Surrogates /\ t[at + 6] # BackSlash)
  PROVE  parse_char(t, at) = Failure
<1> DEFINE uc == parse_hex16(t, at + 2)
<1>1. parse_char(t, at) = parse_unicode(t, at + 2) /\ uc = Success((at + 2) + 4, v)
  BY EscapeSeen, Zenon
<1>2. uc.ok = TRUE /\ uc.value = v
  BY <1>1 DEF Success
<1>3. (at + 2) + 4 = at + 6
  OBVIOUS
<1> HIDE DEF uc
<1>4. parse_unicode(t, at + 2) = Failure
  BY <1>2, <1>3, Zenon DEF parse_unicode, uc
<1> QED
  BY <1>1, <1>4, Zenon

\* a half with an escape behind it.
LEMMA PairEscape ==
  ASSUME NEW t, NEW at \in Int, NEW hex, NEW v, Begins(t, at, hex), IsHex(hex, v),
         NEW hex2, NEW w, Begins(t, at + 6, hex2), IsHex(hex2, w),
         v # 0, v \in Surrogates
  PROVE  parse_char(t, at) = IF from_surrogate_pair(v, w) = -1 THEN Failure
                             ELSE Success(at + 12, utf8_write_char(from_surrogate_pair(v, w)))
<1> DEFINE uc == parse_hex16(t, at + 2)
           lc == parse_hex16(t, (at + 2) + 6)
<1>1. parse_char(t, at) = parse_unicode(t, at + 2) /\ uc = Success((at + 2) + 4, v)
  BY EscapeSeen, Zenon
<1>2. /\ (at + 2) + 4 = at + 6 /\ (at + 2) + 5 = (at + 6) + 1 /\ (at + 2) + 6 = (at + 6) + 2
      /\ at + 6 \in Int
  OBVIOUS
<1>3. lc = Success(((at + 6) + 2) + 4, w)
  <2>1. \A p \in Int : Begins(t, p, hex2) => parse_hex16(t, p + 2) = Success((p + 2) + 4, w)
    BY EscapeSeen, Zenon
  <2>2. parse_hex16(t, (at + 6) + 2) = Success(((at + 6) + 2) + 4, w)
    BY <1>2, <2>1, Zenon
  <2> QED
    BY <1>2, <2>2, Zenon
<1>4. uc.ok = TRUE /\ uc.value = v
  BY <1>1 DEF Success
<1>5. lc.ok = TRUE /\ lc.at = at + 12 /\ lc.value = w
  BY <1>3 DEF Success
<1>6. t[(at + 2) + 4] = BackSlash /\ t[(at + 2) + 5] = 117
  BY <1>2, Zenon DEF Begins
<1> HIDE DEF uc, lc
<1>7. parse_unicode(t, at + 2)
        = LET code == from_surrogate_pair(uc.value, lc.value) IN
          IF code = -1 THEN Failure ELSE Success(lc.at, utf8_write_char(code))
  BY <1>4, <1>5, <1>6, Zenon DEF parse_unicode, uc, lc
<1> QED
  BY <1>1, <1>4, <1>5, <1>7, Zenon

\* One turn of parse_string.
Reading(t, k, done) == Reaches(t, Parsed(t), Quote, 1 + 1, k, done)

\* One character of a literal is read,
LEMMA CharacterRead ==
  ASSUME NEW t, Len(t) \in Nat, NEW k \in Nat, k < Len(t), NEW at \in DOMAIN t, NEW value,
         Reading(t, k, Success(at, value)), t[at] # Quote,
         NEW next, NEW more, parse_char(t, at) = Success(next, more)
  PROVE  Reading(t, k + 1, Success(next, value \o more))
<1>1. Parsed(t)[at] = Success(next, more)
  BY Zenon DEF Parsed
<1>2. next_char(t, Parsed(t), Quote, Success(at, value)) = Success(next, value \o more)
  BY <1>1, TurnTaken
<1>3. Reaches(t, Parsed(t), Quote, 1 + 1, k + 1, next_char(t, Parsed(t), Quote, Success(at, value)))
  <2> DEFINE P == Parsed(t)
             a == 1 + 1
             d == Success(at, value)
  <2>1. Reaches(t, P, Quote, a, k, d)
    BY Zenon DEF Reading
  <2> HIDE DEF P, a, d
  <2>2. Reaches(t, P, Quote, a, k + 1, next_char(t, P, Quote, d))
    BY <2>1, LoopGoesOn
  <2> QED
    BY <2>2, Zenon DEF P, a, d
<1> QED
  BY <1>2, <1>3, Zenon DEF Reading

\* or the literal is refused.
LEMMA CharacterRefused ==
  ASSUME NEW t, Len(t) \in Nat, NEW k \in Nat, k < Len(t), NEW at \in DOMAIN t, NEW value,
         Reading(t, k, Success(at, value)), t[at] # Quote, parse_char(t, at) = Failure
  PROVE  parse_string(t, 1).ok = FALSE
<1>1. Parsed(t)[at] = Failure
  BY Zenon DEF Parsed
<1>2. next_char(t, Parsed(t), Quote, Success(at, value)) = Failure
  BY <1>1, TurnTaken
<1>3. Reaches(t, Parsed(t), Quote, 1 + 1, k + 1, next_char(t, Parsed(t), Quote, Success(at, value)))
  <2> DEFINE P == Parsed(t)
             a == 1 + 1
             d == Success(at, value)
  <2>1. Reaches(t, P, Quote, a, k, d)
    BY Zenon DEF Reading
  <2> HIDE DEF P, a, d
  <2>2. Reaches(t, P, Quote, a, k + 1, next_char(t, P, Quote, d))
    BY <2>1, LoopGoesOn
  <2> QED
    BY <2>2, Zenon DEF P, a, d
<1>4. Reaches(t, Parsed(t), Quote, 1 + 1, k + 1, Failure)
  BY <1>2, <1>3, Zenon
<1> QED
  BY <1>4, LiteralRefused

\* Behind the first quote.
LEMMA ReadingStarts ==
  ASSUME NEW t, Len(t) \in Nat
  PROVE  Reading(t, 0, Success(2, <<>>))
<1>1. Reaches(t, Parsed(t), Quote, 1 + 1, 0, Success(1 + 1, <<>>))
  BY LoopStarts, Zenon
<1>2. 1 + 1 = 2
  OBVIOUS
<1> QED
  BY <1>1, <1>2, Zenon DEF Reading

\* The literals of one escape.
LEMMA OneLiteral ==
  ASSUME NEW t, NEW hex, NEW v, OneEscape(t, hex), IsHex(hex, v), v # 0, v \notin Surrogates,
         NEW n, IsCode(utf8_write_char(v), v, n)
  PROVE  parse_string(t, 1) = Success(9, utf8_write_char(v))
<1> DEFINE w == utf8_write_char(v)
<1>1. /\ Len(t) = 9 /\ Len(t) \in Nat /\ 0 < Len(t)
      /\ t[1] = Quote /\ Begins(t, 2, hex) /\ t[8] = Quote /\ 2 \in DOMAIN t /\ t[2] # Quote
  BY DEF OneEscape, Begins, Quote, BackSlash
<1>2. parse_char(t, 2) = Success(8, w)
  <2>1. parse_char(t, 2) = Success(2 + 6, w)
    BY <1>1, PlainEscape
  <2> QED
    BY <2>1
<1>3. Reading(t, 0, Success(2, <<>>))
  BY <1>1, ReadingStarts
<1>4. Reading(t, 0 + 1, Success(8, <<>> \o w))
  BY <1>1, <1>2, <1>3, CharacterRead
<1>5. <<>> \o w = w
  BY ConcatEmptySeq DEF IsCode
<1>6. parse_string(t, 1) = Success(8 + 1, w)
  BY <1>1, <1>4, <1>5, LiteralRead DEF Reading
<1> QED
  BY <1>6

\* The literals of two escapes.
LEMMA TwoPlaces ==
  ASSUME NEW t, NEW hex, NEW hex2, TwoEscapes(t, hex, hex2)
  PROVE  /\ Len(t) = 15 /\ Len(t) \in Nat /\ 0 < Len(t) /\ 0 + 1 < Len(t) /\ t[1] = Quote
         /\ 2 \in DOMAIN t /\ t[2] # Quote /\ Begins(t, 2, hex)
         /\ 8 \in DOMAIN t /\ t[8] # Quote /\ Begins(t, 8, hex2)
         /\ t[14] = Quote /\ t[14] # BackSlash
         /\ Reading(t, 0, Success(2, <<>>))
<1>1. Len(t) = 15 /\ DOMAIN t = 1 .. 15 /\ t[1] = Quote /\ t[14] = Quote
  BY Zenon DEF TwoEscapes
<1>2. Begins(t, 2, hex) /\ Begins(t, 8, hex2)
  BY Zenon DEF TwoEscapes
<1>3. t[2] # Quote /\ t[8] # Quote /\ Quote # BackSlash
  BY <1>2 DEF Begins, Quote, BackSlash
<1>4. /\ Len(t) \in Nat /\ 0 < Len(t) /\ 0 + 1 < Len(t) /\ 2 \in DOMAIN t /\ 8 \in DOMAIN t
  BY <1>1
<1>5. Reading(t, 0, Success(2, <<>>))
  BY <1>4, ReadingStarts
<1> QED
  BY <1>1, <1>2, <1>3, <1>4, <1>5

\* A literal of two escapes, the first of which stands for itself: after it,
LEMMA FirstPlain ==
  ASSUME NEW t, NEW hex, NEW hex2, TwoEscapes(t, hex, hex2), NEW v, IsHex(hex, v),
         v # 0, v \notin Surrogates, NEW n, IsCode(utf8_write_char(v), v, n)
  PROVE  Reading(t, 0 + 1, Success(8, utf8_write_char(v)))
<1> DEFINE w == utf8_write_char(v)
<1>1. /\ Len(t) \in Nat /\ 0 < Len(t) /\ 2 \in DOMAIN t /\ t[2] # Quote /\ Begins(t, 2, hex)
      /\ Reading(t, 0, Success(2, <<>>))
  BY TwoPlaces
<1>2. parse_char(t, 2) = Success(8, w)
  <2>1. parse_char(t, 2) = Success(2 + 6, w)
    BY <1>1, PlainEscape
  <2> QED
    BY <2>1
<1>3. Reading(t, 0 + 1, Success(8, <<>> \o w))
  BY <1>1, <1>2, CharacterRead
<1>4. <<>> \o w = w
  BY ConcatEmptySeq DEF IsCode
<1> QED
  BY <1>3, <1>4

\* when the second does so too,
LEMMA TwoLiteral ==
  ASSUME NEW t, NEW hex, NEW hex2, TwoEscapes(t, hex, hex2),
         NEW v, IsHex(hex, v), v # 0, v \notin Surrogates,
         NEW n, IsCode(utf8_write_char(v), v, n),
         NEW w, IsHex(hex2, w), w # 0, w \notin Surrogates
  PROVE  parse_string(t, 1) = Success(15, utf8_write_char(v) \o utf8_write_char(w))
<1> DEFINE a == utf8_write_char(v)
           b == utf8_write_char(w)
<1>1. /\ Len(t) \in Nat /\ 0 + 1 < Len(t) /\ 8 \in DOMAIN t /\ t[8] # Quote /\ Begins(t, 8, hex2)
      /\ t[1] = Quote /\ t[14] = Quote
  BY TwoPlaces
<1>2. Reading(t, 0 + 1, Success(8, a))
  BY FirstPlain
<1>3. parse_char(t, 8) = Success(14, b)
  <2>1. parse_char(t, 8) = Success(8 + 6, b)
    BY <1>1, PlainEscape
  <2> QED
    BY <2>1
<1>4. Reading(t, (0 + 1) + 1, Success(14, a \o b))
  <2>1. 0 + 1 \in Nat
    OBVIOUS
  <2> QED
    BY <1>1, <1>2, <1>3, <2>1, CharacterRead
<1>5. parse_string(t, 1) = Success(14 + 1, a \o b)
  BY <1>1, <1>4, LiteralRead DEF Reading
<1> QED
  BY <1>5

\* A literal of one pair.
LEMMA PairLiteral ==
  ASSUME NEW t, NEW hex, NEW hex2, TwoEscapes(t, hex, hex2),
         NEW v, IsHex(hex, v), v # 0, v \in Surrogates, NEW w, IsHex(hex2, w),
         from_surrogate_pair(v, w) # -1,
         NEW n, IsCode(utf8_write_char(from_surrogate_pair(v, w)), from_surrogate_pair(v, w), n)
  PROVE  parse_string(t, 1) = Success(15, utf8_write_char(from_surrogate_pair(v, w)))
<1> DEFINE a == utf8_write_char(from_surrogate_pair(v, w))
<1>1. /\ Len(t) \in Nat /\ 0 < Len(t) /\ 2 \in DOMAIN t /\ t[2] # Quote
      /\ Begins(t, 2, hex) /\ Begins(t, 8, hex2) /\ t[1] = Quote /\ t[14] = Quote
      /\ Reading(t, 0, Success(2, <<>>))
  BY TwoPlaces
<1>2. parse_char(t, 2) = Success(14, a)
  <2>1. 2 + 6 = 8 /\ 2 + 12 = 14 /\ 2 \in Int
    OBVIOUS
  <2>2. Begins(t, 2 + 6, hex2)
    BY <1>1, <2>1, Zenon
  <2>3. parse_char(t, 2) = IF from_surrogate_pair(v, w) = -1 THEN Failure ELSE Success(2 + 12, a)
    BY <1>1, <2>1, <2>2, PairEscape
  <2> QED
    BY <2>1, <2>3
<1>3. Reading(t, 0 + 1, Success(14, <<>> \o a))
  BY <1>1, <1>2, CharacterRead
<1>4. <<>> \o a = a
  BY ConcatEmptySeq DEF IsCode
<1>5. parse_string(t, 1) = Success(14 + 1, a)
  BY <1>1, <1>3, <1>4, LiteralRead DEF Reading
<1> QED
  BY <1>5

\* A zero or a half first, then one behind a character.
LEMMA FirstRefused ==
  ASSUME NEW t, NEW hex, NEW hex2, TwoEscapes(t, hex, hex2),
         NEW v, IsHex(hex, v), NEW w, IsHex(hex2, w),
         v = 0 \/ (v # 0 /\ v \in Surrogates /\ from_surrogate_pair(v, w) = -1)
  PROVE  parse_string(t, 1).ok = FALSE
<1>1. /\ Len(t) \in Nat /\ 0 < Len(t) /\ 2 \in DOMAIN t /\ t[2] # Quote
      /\ Begins(t, 2, hex) /\ Begins(t, 8, hex2) /\ Reading(t, 0, Success(2, <<>>))
  BY TwoPlaces
<1>2. parse_char(t, 2) = Failure
  <2>1. 2 + 6 = 8 /\ 2 \in Int
    OBVIOUS
  <2>2. Begins(t, 2 + 6, hex2)
    BY <1>1, <2>1, Zenon
  <2>3. CASE v = 0
    BY <1>1, <2>1, <2>3, NoEscape
  <2>4. CASE v # 0 /\ v \in Surrogates /\ from_surrogate_pair(v, w) = -1
    BY <1>1, <2>1, <2>2, <2>4, PairEscape
  <2> QED
    BY <2>3, <2>4
<1> QED
  BY <1>1, <1>2, CharacterRefused

\* A literal of two escapes, the second of which is refused.
LEMMA SecondRefused ==
  ASSUME NEW t, NEW hex, NEW hex2, TwoEscapes(t, hex, hex2),
         NEW v, IsHex(hex, v), v # 0, v \notin Surrogates,
         NEW n, IsCode(utf8_write_char(v), v, n),
         NEW w, IsHex(hex2, w), w = 0 \/ w \in Surrogates
  PROVE  parse_string(t, 1).ok = FALSE
<1>1. /\ Len(t) \in Nat /\ 0 + 1 < Len(t) /\ 8 \in DOMAIN t /\ t[8] # Quote /\ Begins(t, 8, hex2)
      /\ t[14] # BackSlash
  BY TwoPlaces
<1>2. Reading(t, 0 + 1, Success(8, utf8_write_char(v)))
  BY FirstPlain
<1>3. parse_char(t, 8) = Failure
  <2>1. 8 + 6 = 14 /\ 8 \in Int
    OBVIOUS
  <2>2. t[8 + 6] # BackSlash
    BY <1>1, <2>1, Zenon
  <2> QED
    BY <1>1, <2>1, <2>2, NoEscape
<1>4. 0 + 1 \in Nat
  OBVIOUS
<1> QED
  BY <1>1, <1>2, <1>3, <1>4, CharacterRefused

-----------------------------------------------------------------------------
(* Surrogate pairs.                                                         *)

\* The first and the second half of a pair.
Half(c, k) == c \in Int /\ 1024 * k <= c /\ c < 1024 * k + 1024

\* Either half of a pair is 1024 codes,
LEMMA HighHalf == \A c \in Int : c \in HighSurrogates <=> Half(c, 54)
BY SMT DEF HighSurrogates, Half

LEMMA LowHalf == \A c \in Int : c \in LowSurrogates <=> Half(c, 55)
BY SMT DEF LowSurrogates, Half

\* of which & 0x3FF takes the number.
LEMMA LowTen ==
  ASSUME NEW x \in Nat, x < 1024, NEW k \in Nat
  PROVE  (1024 * k + x) % 1024 = x
<1> DEFINE y == 1024 * k + x
           q == y \div 1024
           r == y % 1024
<1>1. y \in Nat /\ y = 1024 * k + x
  OBVIOUS
<1> HIDE DEF y
<1>2. q \in Int /\ r \in Int /\ y = 1024 * q + r /\ 0 <= r /\ r < 1024
  BY <1>1
<1> HIDE DEF q, r
<1>3. q = k
  BY <1>1, <1>2
<1>4. r = x
  BY <1>1, <1>2, <1>3
<1> QED
  BY <1>4 DEF r, y

LEMMA Below1024 ==
  ASSUME NEW x \in Nat, x < 1024
  PROVE  x % 1024 = x
<1>1. (1024 * 0 + x) % 1024 = x
  BY LowTen
<1>2. 1024 * 0 + x = x
  OBVIOUS
<1> QED
  BY <1>1, <1>2

\* So it does of a half.
LEMMA HalfLow ==
  ASSUME NEW k \in Nat, NEW c, Half(c, k)
  PROVE  c % 1024 = c - 1024 * k
<1> DEFINE x == c - 1024 * k
<1>1. x \in Nat /\ x < 1024 /\ 1024 * k + x = c
  BY DEF Half
<1> HIDE DEF x
<1>2. (1024 * k + x) % 1024 = x
  BY <1>1, LowTen
<1> QED
  BY <1>1, <1>2 DEF x

\* What from_surrogate_pair makes of two halves.
LEMMA PairCode ==
  ASSUME NEW v \in Int, v \in HighSurrogates, NEW w \in Int, w \in LowSurrogates
  PROVE  from_surrogate_pair(v, w) = 65536 + (v - 55296) * 1024 + w - 56320
<1>1. from_surrogate_pair(v, w) = 65536 + (v % 1024) * 1024 + (w % 1024)
  BY SMT DEF from_surrogate_pair
<1>2. Half(v, 54) /\ Half(w, 55)
  BY HighHalf, LowHalf, Zenon
<1>3. v % 1024 = v - 1024 * 54 /\ w % 1024 = w - 1024 * 55
  BY <1>2, HalfLow
<1> HIDE DEF Half
<1> QED
  BY <1>1, <1>3

\* A number below 1024 as a half,
LEMMA ShiftedHalf ==
  ASSUME NEW k \in Nat, NEW a \in Nat, a < 1024
  PROVE  1024 * k + a \in Int /\ Half(1024 * k + a, k)
BY DEF Half

\* as to_surrogate_pair makes them: they are read as the character.
LEMMA CodeOfPair ==
  ASSUME NEW code \in Int, 65536 <= code, code < 1114112
  PROVE  LET pair == to_surrogate_pair(code)
         IN  /\ pair[1] \in Int /\ pair[1] \in HighSurrogates
             /\ pair[2] \in Int /\ pair[2] \in LowSurrogates
             /\ from_surrogate_pair(pair[1], pair[2]) = code
<1> DEFINE n == code - 65536
           a == n \div 1024
           b == n % 1024
           v == to_surrogate_pair(code)[1]
           w == to_surrogate_pair(code)[2]
<1>1. a \in Nat /\ a < 1024 /\ b \in Nat /\ b < 1024 /\ code = 65536 + 1024 * a + b
  OBVIOUS
<1>2. a % 1024 = a
  <2> HIDE DEF a
  <2> QED
    BY <1>1, Below1024
<1>3. v = 55296 + a /\ w = 56320 + b
  BY <1>2 DEF to_surrogate_pair
<1> HIDE DEF n, a, b, v, w
<1>4. v \in Int /\ v \in HighSurrogates /\ w \in Int /\ w \in LowSurrogates
  <2>1. v = 1024 * 54 + a /\ w = 1024 * 55 + b
    BY <1>1, <1>3
  <2>2. v \in Int /\ Half(v, 54) /\ w \in Int /\ Half(w, 55)
    BY <1>1, <2>1, ShiftedHalf
  <2> QED
    BY <2>2, HighHalf, LowHalf
<1>5. from_surrogate_pair(v, w) = 65536 + (v - 55296) * 1024 + w - 56320
  BY <1>4, PairCode
<1>6. from_surrogate_pair(v, w) = code
  BY <1>1, <1>3, <1>5
<1> QED
  BY <1>4, <1>6 DEF v, w

\* Halves are the surrogates, and below 2^16.
LEMMA Halved ==
  \A c \in Int : /\ c \in Surrogates <=> c \in HighSurrogates \/ c \in LowSurrogates
                 /\ c \in Surrogates => 0 < c /\ c < 65536
BY SMT DEF Surrogates, HighSurrogates, LowSurrogates

\* Four bytes for the characters beyond U+FFFF, fewer for the others.
LEMMA TakesFour ==
  ASSUME NEW code \in Int, 65536 <= code, code < 1114112
  PROVE  Takes(code, 4)
BY Tables, SurrogateRange DEF Takes

\* A character of 16 bits takes three bytes at most.
LEMMA TakesFewer ==
  ASSUME NEW code \in Nat, code < 65536, code \notin Surrogates
  PROVE  \E n \in 1 .. 3 : Takes(code, n)
<1>1. CASE code < 128
  BY <1>1, Tables DEF Takes
<1>2. CASE 128 <= code /\ code < 2048
  BY <1>2, Tables DEF Takes
<1>3. CASE 2048 <= code
  BY <1>3, Tables DEF Takes
<1> QED
  BY <1>1, <1>2, <1>3

-----------------------------------------------------------------------------
(* The escapes of a literal.                                                *)

\* A character that needs no pair.
IsPlain(v) == v # 0 /\ v \notin Surrogates /\ \E n \in 1 .. 4 : IsCode(utf8_write_char(v), v, n)

\* The text t is read as the character code.
Reads(t, code) == parse_string(t, 1).ok /\ Encodes(parse_string(t, 1).value, code)

\* The literals of EscapesDecode: one escape,
LEMMA OneRead ==
  ASSUME NEW hex, NEW v, IsHex(hex, v), IsPlain(v)
  PROVE  Reads(Literal(Escape(hex)), v)
<1> DEFINE t == Literal(Escape(hex))
<1>1. PICK n : v # 0 /\ v \notin Surrogates /\ IsCode(utf8_write_char(v), v, n)
  BY Zenon DEF IsPlain
<1>2. OneEscape(t, hex)
  BY OneText DEF IsHex
<1> HIDE DEF t
<1>3. parse_string(t, 1) = Success(9, utf8_write_char(v))
  BY <1>1, <1>2, OneLiteral
<1>4. parse_string(t, 1).ok = TRUE /\ parse_string(t, 1).value = utf8_write_char(v)
  BY <1>3 DEF Success
<1> QED
  BY <1>1, <1>4 DEF Reads, IsCode, t

\* a pair,
LEMMA PairRead ==
  ASSUME NEW hex, NEW v, IsHex(hex, v), NEW hex2, NEW w, IsHex(hex2, w), v # 0, v \in Surrogates,
         NEW code, from_surrogate_pair(v, w) = code, code # -1,
         IsCode(utf8_write_char(code), code, 4)
  PROVE  Reads(Literal(Escape(hex) \o Escape(hex2)), code)
<1> DEFINE t == Literal(Escape(hex) \o Escape(hex2))
<1>1. TwoEscapes(t, hex, hex2)
  BY TwoText DEF IsHex
<1> HIDE DEF t
<1>2. parse_string(t, 1) = Success(15, utf8_write_char(code))
  BY <1>1, PairLiteral
<1>3. parse_string(t, 1).ok = TRUE /\ parse_string(t, 1).value = utf8_write_char(code)
  BY <1>2 DEF Success
<1> QED
  BY <1>3 DEF Reads, IsCode, t

\* two escapes that are refused,
LEMMA PairRefused ==
  ASSUME NEW hex, NEW v, IsHex(hex, v), NEW hex2, NEW w, IsHex(hex2, w),
         \/ v = 0
         \/ v # 0 /\ v \in Surrogates /\ from_surrogate_pair(v, w) = -1
         \/ IsPlain(v) /\ (w = 0 \/ w \in Surrogates)
  PROVE  parse_string(Literal(Escape(hex) \o Escape(hex2)), 1).ok = FALSE
<1> DEFINE t == Literal(Escape(hex) \o Escape(hex2))
<1>1. TwoEscapes(t, hex, hex2)
  BY TwoText DEF IsHex
<1> HIDE DEF t
<1>2. CASE v = 0 \/ (v # 0 /\ v \in Surrogates /\ from_surrogate_pair(v, w) = -1)
  BY <1>1, <1>2, FirstRefused DEF t
<1>3. CASE IsPlain(v) /\ (w = 0 \/ w \in Surrogates)
  <2>1. PICK n : v # 0 /\ v \notin Surrogates /\ IsCode(utf8_write_char(v), v, n)
    BY <1>3, Zenon DEF IsPlain
  <2> QED
    BY <1>1, <1>3, <2>1, SecondRefused DEF t
<1> QED
  BY <1>2, <1>3

\* and two that are read each for itself.
LEMMA BothRead ==
  ASSUME NEW hex, NEW v, IsHex(hex, v), NEW hex2, NEW w, IsHex(hex2, w), IsPlain(v), IsPlain(w)
  PROVE  LET read == parse_string(Literal(Escape(hex) \o Escape(hex2)), 1)
         IN  read.ok /\ \E k \in 1 .. Len(read.value) - 1 :
                          /\ Encodes(SubSeq(read.value, 1, k), v)
                          /\ Encodes(SubSeq(read.value, k + 1, Len(read.value)), w)
<1> DEFINE t == Literal(Escape(hex) \o Escape(hex2))
           a == utf8_write_char(v)
           b == utf8_write_char(w)
           r == a \o b
<1>1. TwoEscapes(t, hex, hex2)
  BY TwoText DEF IsHex
<1> HIDE DEF t
<1>2. PICK n \in 1 .. 4 : v # 0 /\ v \notin Surrogates /\ IsCode(a, v, n)
  BY Zenon DEF IsPlain
<1>3. PICK m \in 1 .. 4 : w # 0 /\ w \notin Surrogates /\ IsCode(b, w, m)
  BY Zenon DEF IsPlain
<1>4. parse_string(t, 1) = Success(15, r)
  BY <1>1, <1>2, <1>3, TwoLiteral
<1>5. parse_string(t, 1).ok = TRUE /\ parse_string(t, 1).value = r
  BY <1>4 DEF Success
<1>6. a \in Seq(Int) /\ b \in Seq(Int) /\ Len(a) = n /\ Len(b) = m /\ Encodes(a, v) /\ Encodes(b, w)
  BY <1>2, <1>3 DEF IsCode
<1> HIDE DEF a, b
<1>7. n \in 1 .. Len(r) - 1 /\ SubSeq(r, 1, n) = a /\ SubSeq(r, n + 1, Len(r)) = b
  <2>1. r \in Seq(Int) /\ Len(r) = n + m
    BY <1>6
  <2> QED
    BY <1>2, <1>3, <1>6, <2>1
<1> HIDE DEF r
<1>8. \E k \in 1 .. Len(r) - 1 : Encodes(SubSeq(r, 1, k), v) /\ Encodes(SubSeq(r, k + 1, Len(r)), w)
  BY <1>6, <1>7, Zenon
<1> QED
  BY <1>5, <1>8 DEF t

\* What is known of a character, and of a half, by its number.
LEMMA PlainByTakes ==
  ASSUME NEW v \in Nat, v # 0, NEW n \in 1 .. 4, Takes(v, n)
  PROVE  IsPlain(v)
<1>1. v \notin Surrogates
  BY Zenon DEF Takes
<1>2. IsCode(utf8_write_char(v), v, n)
  BY Writes
<1> QED
  BY <1>1, <1>2, Zenon DEF IsPlain

\* The codes of 16 bits that are characters.
LEMMA PlainBelow ==
  ASSUME NEW v \in Nat, v < 65536, v # 0, v \notin Surrogates
  PROVE  IsPlain(v)
<1>1. PICK n \in 1 .. 3 : Takes(v, n)
  BY TakesFewer
<1>2. n \in 1 .. 4
  BY <1>1
<1> QED
  BY <1>1, <1>2, PlainByTakes

\* A character that takes a pair.
LEMMA Beyond ==
  ASSUME NEW code \in Nat, ~(code <= 65535), NEW n \in 1 .. 4, Takes(code, n)
  PROVE  65536 <= code /\ code < 1114112
<1>1. n = 1 \/ n = 2 \/ n = 3 \/ n = 4
  OBVIOUS
<1>2. FirstOf[n] <= code /\ code < FirstOf[n + 1]
  BY DEF Takes
<1> QED
  BY <1>1, <1>2, Tables

\* The first half v, its digits hex, and so the second, of the pair for code.
IsPair(v, hex, w, hex2, code) ==
  /\ IsHex(hex, v) /\ IsHex(hex2, w) /\ v # 0 /\ v \in Surrogates
  /\ from_surrogate_pair(v, w) = code /\ code # -1 /\ IsCode(utf8_write_char(code), code, 4)

\* A half of a pair as four digits.
LEMMA HalfHex ==
  ASSUME NEW v \in Int, v \in HighSurrogates \/ v \in LowSurrogates
  PROVE  /\ v # 0 /\ v \in Surrogates
         /\ IsHex(write_hex16(v), v) /\ IsHex(Lowered(write_hex16(v)), v)
<1>1. v \in Surrogates /\ v \in Nat /\ v < 65536 /\ v # 0
  BY Halved
<1> QED
  BY <1>1, HexBack

\* A character of a pair takes four bytes.
LEMMA FourBytes ==
  ASSUME NEW code \in Int, 65536 <= code, code < 1114112
  PROVE  code # -1 /\ IsCode(utf8_write_char(code), code, 4)
<1>1. code \in Nat /\ code # -1
  OBVIOUS
<1>2. Takes(code, 4)
  BY TakesFour
<1> QED
  BY <1>1, <1>2, WriteFour

\* The two escapes the code writes are a pair,
LEMMA WidePair ==
  ASSUME NEW code \in Int, 65536 <= code, code < 1114112
  PROVE  LET pair == to_surrogate_pair(code)
         IN  IsPair(pair[1], write_hex16(pair[1]), pair[2], write_hex16(pair[2]), code)
<1> DEFINE v == to_surrogate_pair(code)[1]
           w == to_surrogate_pair(code)[2]
<1>1. /\ v \in Int /\ v \in HighSurrogates /\ w \in Int /\ w \in LowSurrogates
      /\ from_surrogate_pair(v, w) = code
  BY CodeOfPair
<1>2. code # -1 /\ IsCode(utf8_write_char(code), code, 4)
  BY FourBytes
<1> HIDE DEF v, w
<1>3. v # 0 /\ v \in Surrogates /\ IsHex(write_hex16(v), v) /\ IsHex(write_hex16(w), w)
  BY <1>1, HalfHex
<1>4. IsPair(v, write_hex16(v), w, write_hex16(w), code)
  BY <1>1, <1>2, <1>3 DEF IsPair
<1> QED
  BY <1>4 DEF v, w

\* The character two halves are for is beyond U+FFFF,
LEMMA CombinedRange ==
  ASSUME NEW v \in Int, Half(v, 54), NEW w \in Int, Half(w, 55)
  PROVE  Combined(v, w) \in Int /\ 65536 <= Combined(v, w) /\ Combined(v, w) < 1114112
BY DEF Half, Combined

\* so any two halves, in capitals or not, are a pair.
LEMMA HalvesPair ==
  ASSUME NEW v \in Int, v \in HighSurrogates, NEW w \in Int, w \in LowSurrogates
  PROVE  IsPair(v, Lowered(write_hex16(v)), w, write_hex16(w), Combined(v, w))
<1>1. from_surrogate_pair(v, w) = Combined(v, w)
  BY PairCode DEF Combined
<1>2. Combined(v, w) \in Int /\ 65536 <= Combined(v, w) /\ Combined(v, w) < 1114112
  BY HighHalf, LowHalf, CombinedRange
<1>3. Combined(v, w) # -1 /\ IsCode(utf8_write_char(Combined(v, w)), Combined(v, w), 4)
  BY <1>2, FourBytes
<1>4. v # 0 /\ v \in Surrogates /\ IsHex(Lowered(write_hex16(v)), v) /\ IsHex(write_hex16(w), w)
  BY HalfHex
<1> QED
  BY <1>1, <1>3, <1>4, Zenon DEF IsPair

\* A pair is read as its character.
LEMMA IsPairRead ==
  ASSUME NEW v, NEW hex, NEW w, NEW hex2, NEW code, IsPair(v, hex, w, hex2, code)
  PROVE  Reads(Literal(Escape(hex) \o Escape(hex2)), code)
<1>1. /\ IsHex(hex, v) /\ IsHex(hex2, w) /\ v # 0 /\ v \in Surrogates
      /\ from_surrogate_pair(v, w) = code /\ code # -1 /\ IsCode(utf8_write_char(code), code, 4)
  BY Zenon DEF IsPair
<1> QED
  BY <1>1, PairRead

\* Two codes that are no pair.
Code16(v) == v \in Nat /\ v < 65536

\* What a code of 16 bits may be,
LEMMA Code16Known ==
  ASSUME NEW v, Code16(v)
  PROVE  /\ IsHex(write_hex16(v), v) /\ IsHex(Lowered(write_hex16(v)), v)
         /\ v = 0 \/ v \in Surrogates \/ IsPlain(v)
BY HexBack, PlainBelow DEF Code16

\* and two of them that are no pair.
LEMMA NoPair ==
  ASSUME NEW v, Code16(v), NEW w, Code16(w), ~(v \in HighSurrogates /\ w \in LowSurrogates)
  PROVE  /\ IsHex(Lowered(write_hex16(v)), v) /\ IsHex(write_hex16(w), w)
         /\ from_surrogate_pair(v, w) = -1
         /\ v = 0 \/ v \in Surrogates \/ IsPlain(v)
         /\ w = 0 \/ w \in Surrogates \/ IsPlain(w)
<1>1. IsHex(Lowered(write_hex16(v)), v) /\ IsHex(write_hex16(w), w)
  BY Code16Known, Zenon
<1>2. from_surrogate_pair(v, w) = -1
  BY DEF from_surrogate_pair
<1>3. v = 0 \/ v \in Surrogates \/ IsPlain(v)
  BY Code16Known, Zenon
<1>4. w = 0 \/ w \in Surrogates \/ IsPlain(w)
  BY Code16Known, Zenon
<1> QED
  BY <1>1, <1>2, <1>3, <1>4, Zenon

\* Every escape the code may write is read as its character.
LEMMA CharacterEscapes ==
  ASSUME NEW code \in Nat \ {0}, \E n \in 1 .. 4 : Takes(code, n)
  PROVE  EscapeDecodes(code)
<1> DEFINE pair == to_surrogate_pair(code)
           narrow == Escape(write_hex16(code))
           wide == Escape(write_hex16(pair[1])) \o Escape(write_hex16(pair[2]))
<1>1. PICK n \in 1 .. 4 : Takes(code, n)
  OBVIOUS
<1>2. code \in Nat /\ code \in Int /\ code # 0
  OBVIOUS
<1>3. ASSUME code <= 65535 PROVE Reads(Literal(narrow), code)
  <2>1. code < 65536
    BY <1>2, <1>3
  <2>2. IsHex(write_hex16(code), code)
    BY <1>2, <2>1, HexBack
  <2>3. IsPlain(code)
    BY <1>1, <1>2, PlainByTakes
  <2> QED
    BY <2>2, <2>3, OneRead
<1>4. ASSUME ~(code <= 65535) PROVE Reads(Literal(wide), code)
  <2>1. 65536 <= code /\ code < 1114112
    BY <1>1, <1>2, <1>4, Beyond
  <2>2. IsPair(pair[1], write_hex16(pair[1]), pair[2], write_hex16(pair[2]), code)
    BY <1>2, <2>1, WidePair
  <2> HIDE DEF pair
  <2> QED
    BY <2>2, IsPairRead
<1> HIDE DEF narrow, wide
<1> DEFINE text == IF code <= 65535 THEN narrow ELSE wide
<1>5. Reads(Literal(text), code)
  BY <1>3, <1>4
<1> QED
  BY <1>5 DEF EscapeDecodes, Reads, text, narrow, wide, pair

\* Any two escapes in a row.
LEMMA TwoCodes ==
  ASSUME NEW v, Code16(v), NEW w, Code16(w)
  PROVE  TwoEscapesDecode(v, w)
<1> DEFINE hex  == Lowered(write_hex16(v))
           hex2 == write_hex16(w)
           t    == Literal(Escape(hex) \o Escape(hex2))
           read == parse_string(t, 1)
           Both == /\ read.ok
                   /\ \E k \in 1 .. Len(read.value) - 1 :
                        /\ Encodes(SubSeq(read.value, 1, k), v)
                        /\ Encodes(SubSeq(read.value, k + 1, Len(read.value)), w)
<1>1. ASSUME v \in HighSurrogates, w \in LowSurrogates
      PROVE  Reads(t, Combined(v, w))
  <2>1. v \in Int /\ w \in Int
    BY DEF Code16
  <2>2. IsPair(v, hex, w, hex2, Combined(v, w))
    BY <1>1, <2>1, HalvesPair
  <2> HIDE DEF hex, hex2
  <2> QED
    BY <2>2, IsPairRead
<1>2. ASSUME ~(v \in HighSurrogates /\ w \in LowSurrogates)
      PROVE  /\ {v, w} \cap (Surrogates \cup {0}) # {} => ~read.ok
             /\ {v, w} \cap (Surrogates \cup {0}) = {} => Both
  <2>1. /\ IsHex(hex, v) /\ IsHex(hex2, w) /\ from_surrogate_pair(v, w) = -1
        /\ v = 0 \/ v \in Surrogates \/ IsPlain(v)
        /\ w = 0 \/ w \in Surrogates \/ IsPlain(w)
    BY <1>2, NoPair
  <2> HIDE DEF hex, hex2
  <2>2. ASSUME {v, w} \cap (Surrogates \cup {0}) # {} PROVE read.ok = FALSE
    <3>1. v = 0 \/ v \in Surrogates \/ w = 0 \/ w \in Surrogates
      BY <2>2
    <3>2. \/ v = 0
          \/ v # 0 /\ v \in Surrogates /\ from_surrogate_pair(v, w) = -1
          \/ IsPlain(v) /\ (w = 0 \/ w \in Surrogates)
      BY <2>1, <3>1
    <3> QED
      BY <2>1, <3>2, PairRefused
  <2>3. ASSUME {v, w} \cap (Surrogates \cup {0}) = {} PROVE Both
    <3>1. IsPlain(v) /\ IsPlain(w)
      BY <2>1, <2>3
    <3> QED
      BY <2>1, <3>1, BothRead
  <2> HIDE DEF read, Both
  <2> QED
    BY <2>2, <2>3
<1> HIDE DEF read, Both, t
<1>3. IF v \in HighSurrogates /\ w \in LowSurrogates THEN Reads(t, Combined(v, w))
      ELSE IF {v, w} \cap (Surrogates \cup {0}) # {} THEN ~read.ok ELSE Both
  BY <1>1, <1>2, Zenon
<1> QED
  BY <1>3 DEF TwoEscapesDecode, Reads, read, Both, t, hex, hex2

\* Whatever is escaped, each escape is read as what it is for, and none that
\* is for nothing is (parse_string, parse_hex16, write_hex16, the pairs).
THEOREM EveryEscapeDecodes == Spec => []EscapesDecode
<1>1. Init => EscapesDecode
  <2>1. ASSUME Init, input.kind = "character" PROVE EscapeDecodes(input.code)
    <3>1. Character(input)
      BY <2>1 DEF Init, Transfer, Segments, Text, Halves, Valid, Directory, Spawning
    <3> QED
      BY <3>1, CharacterEscapes DEF Character
  <2>2. ASSUME Init, input.kind = "pair" PROVE TwoEscapesDecode(input.uc, input.lc)
    <3>1. Halves(input)
      BY <2>2 DEF Init, Transfer, Segments, Text, Character, Valid, Directory, Spawning
    <3>2. Code16(input.uc) /\ Code16(input.lc)
      BY <3>1 DEF Halves, Code16
    <3> QED
      BY <3>2, TwoCodes
  <2> QED
    BY <2>1, <2>2, Zenon DEF EscapesDecode
<1>2. EscapesDecode /\ [Next]_input => EscapesDecode'
  <2> SUFFICES ASSUME EscapesDecode, input' = input
               PROVE  EscapesDecode'
    BY DEF Next
  <2> QED
    BY DEF EscapesDecode
<1> QED
  BY <1>1, <1>2, PTL DEF Spec

-----------------------------------------------------------------------------
(* What a character is written as.                                          *)

\* A string and its 0, and what is left of it from p on.
IsText(s)  == s \in Seq(Byte) /\ s # <<>> /\ s[Len(s)] = 0
Rest(s, p) == SubSeq(s, p, Len(s))

\* The rest of a text is one.
LEMMA RestText ==
  ASSUME NEW s, IsText(s), NEW p \in 1 .. Len(s)
  PROVE  /\ IsText(Rest(s, p)) /\ Len(Rest(s, p)) = Len(s) - p + 1
         /\ \A i \in 1 .. Len(s) - p + 1 : Rest(s, p)[i] = s[p + i - 1]
<1> DEFINE r == Rest(s, p)
           B == Byte
<1>1. s \in Seq(B) /\ s[Len(s)] = 0 /\ Len(s) \in Nat
  BY DEF IsText
<1> HIDE DEF B
<1>2. \A i \in p .. Len(s) : s[i] \in B
  BY <1>1
<1>3. /\ r \in Seq(B) /\ Len(r) = IF p <= Len(s) THEN Len(s) - p + 1 ELSE 0
      /\ \A i \in 1 .. Len(s) - p + 1 : r[i] = s[p + i - 1]
  <2>1. p \in Int /\ Len(s) \in Int
    BY <1>1
  <2> QED
    BY <1>2, <2>1, SubSeqProperties DEF Rest
<1> HIDE DEF r
<1>4. Len(r) = Len(s) - p + 1 /\ Len(r) \in Nat /\ Len(r) >= 1
  BY <1>1, <1>3
<1>5. r[Len(r)] = 0
  <2>1. Len(r) \in 1 .. Len(s) - p + 1 /\ p + Len(r) - 1 = Len(s)
    BY <1>1, <1>4
  <2> QED
    BY <1>1, <1>3, <2>1
<1>6. r # <<>>
  BY <1>4
<1> QED
  BY <1>3, <1>4, <1>5, <1>6 DEF IsText, r, B

\* A character has four bytes at most, and none that is ASCII has more than one.
LEMMA ValidLength ==
  ASSUME NEW r, IsText(r)
  PROVE  utf8_validate_cz(r) \in 0 .. 4 /\ (r[1] <= 127 => utf8_validate_cz(r) = 1)
<1>1. r[1] \in Byte
  <2> DEFINE B == Byte
  <2>1. r \in Seq(B) /\ r # <<>>
    BY DEF IsText
  <2> HIDE DEF B
  <2>2. r[1] \in B
    BY <2>1
  <2> QED
    BY <2>2 DEF B
<1>2. r[1] >= 224 => r[2] \in Byte
  <2>1. ASSUME r[1] >= 224 PROVE Len(r) >= 2
    BY <1>1, <2>1, ByteRange, NothingBehindTheEnd DEF IsText
  <2> DEFINE B == Byte
  <2>2. r \in Seq(B)
    BY DEF IsText
  <2> HIDE DEF B
  <2>3. Len(r) >= 2 => r[2] \in B
    BY <2>2
  <2> QED
    BY <2>1, <2>3 DEF B
<1>3. utf8_validate_cz(r) = IF r[1] <= 127 THEN 1 ELSE IF Two(r) THEN 2
                            ELSE IF Three(r) THEN 3 ELSE IF Four(r) THEN 4 ELSE 0
  BY <1>1, <1>2, ValidByFirst
<1> QED
  BY <1>3

\* Only the bytes of a character count.
LEMMA EncodedByPrefix ==
  ASSUME NEW k \in 1 .. 4, NEW a, NEW b, \A i \in 1 .. k : a[i] = b[i], Encoded(a, k)
  PROVE  Encoded(b, k)
<1>1. k = 1 \/ k = 2 \/ k = 3 \/ k = 4
  OBVIOUS
<1>2. Value(a, k) = Value(b, k)
  BY <1>1 DEF Value
<1>3. 1 \in 1 .. k /\ \A i \in 2 .. k : i \in 1 .. k
  OBVIOUS
<1> QED
  BY <1>2, <1>3, Zenon DEF Encoded

\* utf8_validate_cz looks at no byte behind the character.
LEMMA SameLength ==
  ASSUME NEW a, IsText(a), NEW b, IsText(b), utf8_validate_cz(a) # 0,
         \A i \in 1 .. utf8_validate_cz(a) : a[i] = b[i]
  PROVE  utf8_validate_cz(b) = utf8_validate_cz(a)
<1> DEFINE k == utf8_validate_cz(a)
<1>1. k \in 1 .. 4
  <2>1. k \in 0 .. 4
    BY ValidLength
  <2> QED
    BY <2>1
<1>2. Encoded(a, k)
  BY <1>1, Decodes, Zenon DEF IsText
<1> HIDE DEF k
<1>3. Encoded(b, k)
  BY <1>1, <1>2, EncodedByPrefix DEF k
<1> QED
  BY <1>1, <1>3, Decodes, Zenon DEF IsText, k

\* A character that is accepted ends before the 0.
LEMMA CharacterAt ==
  ASSUME NEW s, IsText(s), NEW p \in 1 .. Len(s), s[p] # 0, utf8_validate_cz(Rest(s, p)) # 0
  PROVE  /\ utf8_validate_cz(Rest(s, p)) \in 1 .. 4
         /\ p + utf8_validate_cz(Rest(s, p)) <= Len(s)
         /\ s[p] <= 127 => utf8_validate_cz(Rest(s, p)) = 1
<1> DEFINE r == Rest(s, p)
           k == utf8_validate_cz(r)
<1>1. /\ IsText(r) /\ Len(r) = Len(s) - p + 1
      /\ \A i \in 1 .. Len(s) - p + 1 : r[i] = s[p + i - 1]
  BY RestText
<1>2. Len(s) \in Nat /\ s[Len(s)] = 0
  BY DEF IsText
<1> HIDE DEF r
<1>3. k \in 0 .. 4 /\ (r[1] <= 127 => k = 1)
  BY <1>1, ValidLength
<1>4. r[1] = s[p]
  BY <1>1, <1>2
<1>5. k \in 1 .. 4
  BY <1>3 DEF r
<1>6. Encoded(r, k)
  BY <1>1, <1>5, Decodes, Zenon DEF IsText
<1> HIDE DEF k
<1>7. CASE k = 1
  <2>1. p # Len(s)
    BY <1>2
  <2> QED
    BY <1>2, <1>3, <1>4, <1>5, <1>7, <2>1 DEF k, r
<1>8. CASE k \in 2 .. 4
  <2>1. Len(r) >= k
    BY <1>1, <1>6, <1>8, NothingBehindTheEnd DEF IsText
  <2>2. r[k] >= 128
    BY <1>6, <1>8 DEF Encoded
  <2>3. r[k] = s[p + k - 1]
    BY <1>1, <1>2, <1>8, <2>1
  <2>4. p + k - 1 # Len(s)
    BY <1>2, <2>2, <2>3
  <2> QED
    BY <1>1, <1>2, <1>3, <1>4, <1>5, <1>8, <2>1, <2>4 DEF k, r
<1> QED
  BY <1>5, <1>7, <1>8

\* In any text where e stands, a character is read there: the bytes of s from
\* p up to q.
Stands(e, t, at) ==
  /\ IsText(t) /\ at \in 1 .. Len(t) /\ at + Len(e) <= Len(t)
  /\ \A i \in 1 .. Len(e) : t[at + i - 1] = e[i]
Spells(e, s, p, q) ==
  \A t : \A at \in Nat : Stands(e, t, at) =>
    t[at] # Quote /\ parse_char(t, at) = Success(at + Len(e), SubSeq(s, p, q - 1))

\* One byte as a string.
LEMMA OneByte ==
  ASSUME NEW s, IsText(s), NEW p \in 1 .. Len(s)
  PROVE  SubSeq(s, p, (p + 1) - 1) = <<s[p]>>
<1> DEFINE B == Byte
<1>1. s \in Seq(B) /\ (p + 1) - 1 = p /\ p \in Int
  BY DEF IsText
<1> HIDE DEF B
<1>2. SubSeq(s, p, p) = <<s[p]>>
  <2> DEFINE r == SubSeq(s, p, p)
  <2>1. \A i \in p .. p : s[i] \in B
    BY <1>1
  <2>2. /\ r \in Seq(B) /\ Len(r) = (IF p <= p THEN p - p + 1 ELSE 0)
        /\ \A i \in 1 .. p - p + 1 : r[i] = s[p + i - 1]
    BY <1>1, <2>1, SubSeqProperties
  <2> HIDE DEF r
  <2>3. Len(r) = 1 /\ r[1] = s[p]
    <3>1. p <= p /\ p - p + 1 = 1 /\ p + 1 - 1 = p /\ 1 \in 1 .. p - p + 1
      BY <1>1
    <3> QED
      BY <2>2, <3>1
  <2> DEFINE b == <<s[p]>>
  <2>4. b \in Seq(B) /\ Len(b) = 1 /\ b[1] = s[p]
    BY <1>1
  <2> HIDE DEF b
  <2>5. \A i \in 1 .. Len(r) : r[i] = b[i]
    BY <2>3, <2>4
  <2> QED
    BY <2>2, <2>3, <2>4, <2>5, SeqEqual DEF r, b
<1> QED
  BY <1>1, <1>2

\* A character with an escape of its own.
LEMMA Escapes ==
  /\ \A c \in DOMAIN EscapeFor : EscapeFor[c] \in DOMAIN Escaped /\ Escaped[EscapeFor[c]] = c
  /\ \A c \in DOMAIN EscapeFor : c <= 127
  /\ \A e \in DOMAIN Escaped : e \in Byte /\ e # 117
  /\ 117 \notin DOMAIN Escaped
<1>1. DOMAIN Escaped = {34, 92, 47, 98, 102, 110, 114, 116}
  BY DEF Escaped, Quote, BackSlash, Slash
<1>2. DOMAIN EscapeFor = {34, 92, 8, 12, 10, 13, 9}
  BY DEF EscapeFor, Quote, BackSlash
<1>3. ASSUME NEW c \in DOMAIN EscapeFor
      PROVE  \E e \in DOMAIN Escaped : Escaped[e] = c
  <2>1. Escaped[34] = 34 /\ Escaped[92] = 92 /\ Escaped[98] = 8 /\ Escaped[102] = 12
        /\ Escaped[110] = 10 /\ Escaped[114] = 13 /\ Escaped[116] = 9
    BY DEF Escaped, Quote, BackSlash, Slash
  <2> QED
    BY <1>1, <1>2, <2>1
<1>4. ASSUME NEW c \in DOMAIN EscapeFor
      PROVE  EscapeFor[c] = CHOOSE e \in DOMAIN Escaped : Escaped[e] = c
  BY <1>4 DEF EscapeFor
<1>5. \A c \in DOMAIN EscapeFor : EscapeFor[c] \in DOMAIN Escaped /\ Escaped[EscapeFor[c]] = c
  BY <1>3, <1>4
<1>6. \A c \in DOMAIN EscapeFor : c <= 127
  BY <1>2
<1>7. \A e \in DOMAIN Escaped : e \in Byte /\ e # 117
  BY <1>1, ByteRange
<1> QED
  BY <1>5, <1>6, <1>7

\* A character that has an escape.
LEMMA SpelledByEscape ==
  ASSUME NEW s, IsText(s), NEW p \in 1 .. Len(s), s[p] \in DOMAIN EscapeFor
  PROVE  /\ emit_char(s, p) = Success(p + 1, <<BackSlash, EscapeFor[s[p]]>>)
         /\ <<BackSlash, EscapeFor[s[p]]>> \in Seq(Byte)
         /\ Len(<<BackSlash, EscapeFor[s[p]]>>) = 2
         /\ Spells(<<BackSlash, EscapeFor[s[p]]>>, s, p, p + 1)
<1> DEFINE c == s[p]
           x == EscapeFor[c]
           e == <<BackSlash, x>>
<1>1. emit_char(s, p) = Success(p + 1, e)
  BY Zenon DEF emit_char
<1>2. x \in DOMAIN Escaped /\ Escaped[x] = c /\ x \in Byte /\ x # 117
  BY Escapes
<1>3. BackSlash \in Byte /\ BackSlash # Quote
  BY ByteRange DEF BackSlash, Quote
<1> HIDE DEF x
<1>4. e \in Seq(Byte)
  <2> DEFINE B == Byte
  <2>1. BackSlash \in B /\ x \in B
    BY <1>2, <1>3
  <2> HIDE DEF B
  <2>2. e \in Seq(B)
    BY <2>1
  <2> QED
    BY <2>2 DEF B
<1>5. Len(e) = 2 /\ e[1] = BackSlash /\ e[2] = x
  OBVIOUS
<1> HIDE DEF e
<1>6. ASSUME NEW t, NEW at \in Nat, Stands(e, t, at)
      PROVE  t[at] # Quote /\ parse_char(t, at) = Success(at + Len(e), SubSeq(s, p, (p + 1) - 1))
  <2>1. t[at] = BackSlash /\ t[at + 1] = x
    <3>1. 1 \in 1 .. Len(e) /\ 2 \in 1 .. Len(e) /\ at + 1 - 1 = at /\ at + 2 - 1 = at + 1
      BY <1>5
    <3>2. t[at + 1 - 1] = e[1] /\ t[at + 2 - 1] = e[2]
      BY <1>6, <3>1, Zenon DEF Stands
    <3> QED
      BY <1>5, <3>1, <3>2
  <2>2. ~(BackSlash <= 31)
    BY DEF BackSlash
  <2>3. parse_char(t, at) = Success(at + 2, <<Escaped[x]>>)
    BY <1>2, <2>1, <2>2 DEF parse_char
  <2>4. SubSeq(s, p, (p + 1) - 1) = <<c>>
    BY OneByte
  <2> QED
    BY <1>2, <1>3, <1>5, <2>1, <2>3, <2>4
<1>7. Spells(e, s, p, p + 1)
  BY <1>6, Zenon DEF Spells
<1> QED
  BY <1>1, <1>4, <1>5, <1>7 DEF e, x

\* Digits are bytes.
LEMMA DigitByte ==
  ASSUME NEW d \in Int, 0 <= d, d < 16
  PROVE  HexDigits[d + 1] \in Byte
<1> DEFINE h == HexDigits[d + 1]
<1>1. \/ d = 0 \/ d = 1 \/ d = 2 \/ d = 3 \/ d = 4 \/ d = 5 \/ d = 6 \/ d = 7 \/ d = 8
      \/ d = 9 \/ d = 10 \/ d = 11 \/ d = 12 \/ d = 13 \/ d = 14 \/ d = 15
  OBVIOUS
<1>2. h \in Int /\ 0 <= h /\ h <= 255
  BY <1>1, SMTT(60) DEF HexDigits
<1> QED
  BY <1>2, ByteRange

\* A control character, by its code.
LEMMA DigitsBytes ==
  ASSUME NEW v \in Nat, Digits(v)
  PROVE  write_hex16(v) \in Seq(Byte)
<1> DEFINE w == write_hex16(v)
           D(i) == Digit(v, i)
           B == Byte
<1>1. w = <<HexDigits[D(1) + 1], HexDigits[D(2) + 1], HexDigits[D(3) + 1], HexDigits[D(4) + 1]>>
  BY DEF write_hex16, Digit
<1>2. \A i \in 1 .. 4 : D(i) \in Int /\ 0 <= D(i) /\ D(i) < 16
  BY DEF Digits
<1> HIDE DEF w, D
<1>3. ASSUME NEW i \in 1 .. 4 PROVE HexDigits[D(i) + 1] \in B
  BY <1>2, DigitByte
<1> HIDE DEF B
<1>4. /\ HexDigits[D(1) + 1] \in B /\ HexDigits[D(2) + 1] \in B
      /\ HexDigits[D(3) + 1] \in B /\ HexDigits[D(4) + 1] \in B
  BY <1>3
<1>5. w \in Seq(B)
  BY <1>1, <1>4
<1> QED
  BY <1>5 DEF w, B

\* So is the whole code.
LEMMA HexBytes ==
  ASSUME NEW v \in Nat, v < 65536
  PROVE  write_hex16(v) \in Seq(Byte)
BY SixteenBits, DigitsBytes

\* A control character without an escape, by its code.
LEMMA SpelledByCode ==
  ASSUME NEW s, IsText(s), NEW p \in 1 .. Len(s), s[p] \in Nat, 0 < s[p], s[p] < 31,
         s[p] \notin DOMAIN EscapeFor
  PROVE  LET e == Escape(write_hex16(s[p]))
         IN  /\ emit_char(s, p) = Success(p + 1, e)
             /\ e \in Seq(Byte) /\ Len(e) = 6
             /\ Spells(e, s, p, p + 1)
<1> DEFINE c == s[p]
           hex == write_hex16(c)
           e == Escape(hex)
<1>1. emit_char(s, p) = Success(p + 1, e)
  <2>1. Rest(s, p)[1] = c
    <3>1. 1 \in 1 .. Len(s) - p + 1 /\ p + 1 - 1 = p
      BY DEF IsText
    <3> QED
      BY <3>1, RestText
  <2>2. utf8_read_char(Rest(s, p)) = c
    <3>1. c \in Byte /\ c <= 127
      BY ByteRange
    <3> QED
      BY <2>1, <3>1, ReadByFirst
  <2> QED
    BY <2>2, Zenon DEF emit_char, Rest, Escape
<1>2. IsHex(hex, c) /\ hex \in Seq(Byte) /\ c # 0 /\ c \notin Surrogates
  <2>1. c < 65536 /\ c \in Int /\ ~(55296 <= c)
    OBVIOUS
  <2> QED
    BY <2>1, HexBack, HexBytes, SurrogateRange
<1>3. utf8_write_char(c) = <<c>>
  <2>1. c <= 127
    OBVIOUS
  <2> QED
    BY <2>1 DEF utf8_write_char
<1>4. hex \in Seq(Nat) /\ Len(hex) = 4
  BY <1>2, Zenon DEF IsHex
<1> HIDE DEF hex
<1>5. e \in Seq(Byte)
  <2> DEFINE B == Byte
             b == <<BackSlash, 117>>
  <2>1. BackSlash \in B /\ 117 \in B
    BY ByteRange DEF BackSlash
  <2>2. hex \in Seq(B)
    BY <1>2
  <2> HIDE DEF B
  <2>3. b \in Seq(B)
    BY <2>1
  <2>4. b \o hex \in Seq(B)
    BY <2>2, <2>3, Joined
  <2> QED
    BY <2>4 DEF Escape, b, B
<1>6. /\ Len(e) = 6 /\ e[1] = BackSlash /\ e[2] = 117
      /\ e[3] = hex[1] /\ e[4] = hex[2] /\ e[5] = hex[3] /\ e[6] = hex[4]
  BY <1>4, EscapeText
<1> HIDE DEF e, c
<1>7. ASSUME NEW t, NEW at \in Nat, Stands(e, t, at)
      PROVE  t[at] # Quote /\ parse_char(t, at) = Success(at + Len(e), SubSeq(s, p, (p + 1) - 1))
  <2>1. \A i \in 1 .. 6 : t[at + i - 1] = e[i]
    BY <1>6, <1>7, Zenon DEF Stands
  <2>2. Begins(t, at, hex)
    <3>1. t[at] = e[1] /\ t[at + 1] = e[2] /\ \A i \in 0 .. 3 : t[(at + 2) + i] = e[i + 3]
      <4>1. at + 1 - 1 = at /\ at + 2 - 1 = at + 1 /\ 1 \in 1 .. 6 /\ 2 \in 1 .. 6
        OBVIOUS
      <4>2. ASSUME NEW i \in 0 .. 3 PROVE t[(at + 2) + i] = e[i + 3]
        <5>1. i + 3 \in 1 .. 6 /\ at + (i + 3) - 1 = (at + 2) + i
          OBVIOUS
        <5> QED
          BY <2>1, <5>1
      <4> QED
        BY <2>1, <4>1, <4>2
    <3>2. \A i \in 0 .. 3 : e[i + 3] = hex[i + 1]
      <4>1. \A i \in 0 .. 3 : i = 0 \/ i = 1 \/ i = 2 \/ i = 3
        OBVIOUS
      <4> QED
        BY <1>6, <4>1
    <3>3. Holds(t, at + 2, hex)
      BY <3>1, <3>2, Zenon DEF Holds
    <3> QED
      BY <1>6, <3>1, <3>3 DEF Begins
  <2>3. parse_char(t, at) = Success(at + 6, utf8_write_char(c))
    BY <1>2, <2>2, PlainEscape
  <2>4. SubSeq(s, p, (p + 1) - 1) = <<c>>
    BY OneByte DEF c
  <2>5. t[at] # Quote
    BY <2>2 DEF Begins, Quote, BackSlash
  <2> QED
    BY <1>3, <1>6, <2>3, <2>4, <2>5
<1>8. Spells(e, s, p, p + 1)
  BY <1>7, Zenon DEF Spells
<1> QED
  BY <1>1, <1>5, <1>6, <1>8 DEF e, hex, c

\* Any other character, as it is.
LEMMA SpelledAsItIs ==
  ASSUME NEW s, IsText(s), NEW p \in 1 .. Len(s), s[p] \in Nat, 31 < s[p],
         s[p] \notin DOMAIN EscapeFor, utf8_validate_cz(Rest(s, p)) # 0
  PROVE  LET len == utf8_validate_cz(Rest(s, p))
             e   == SubSeq(Rest(s, p), 1, len)
         IN  /\ emit_char(s, p) = Success(p + len, e)
             /\ e \in Seq(Byte) /\ Len(e) = len
             /\ Spells(e, s, p, p + len)
<1> DEFINE c == s[p]
           r == Rest(s, p)
           len == utf8_validate_cz(r)
           e == SubSeq(r, 1, len)
           B == Byte
<1>1. emit_char(s, p) = Success(p + len, e)
  <2>1. ~(c < 31)
    OBVIOUS
  <2> QED
    BY <2>1, Zenon DEF emit_char, Rest
<1>2. c # Quote /\ c # BackSlash /\ c # 0 /\ ~(c <= 31)
  BY DEF EscapeFor
<1>3. len \in 1 .. 4 /\ p + len <= Len(s)
  BY <1>2, CharacterAt
<1>4. /\ IsText(r) /\ Len(r) = Len(s) - p + 1
      /\ \A i \in 1 .. Len(s) - p + 1 : r[i] = s[p + i - 1]
  BY RestText
<1>5. Len(s) \in Nat /\ s \in Seq(B) /\ r \in Seq(B)
  BY <1>4 DEF IsText
<1> HIDE DEF r, len, c, B
<1>6. e \in Seq(B) /\ Len(e) = len /\ \A i \in 1 .. len : e[i] = r[i]
  <2>1. \A i \in 1 .. len : r[i] \in B
    BY <1>3, <1>4, <1>5
  <2>2. /\ e \in Seq(B) /\ Len(e) = (IF 1 <= len THEN len - 1 + 1 ELSE 0)
        /\ \A i \in 1 .. len - 1 + 1 : e[i] = r[1 + i - 1]
    BY <1>3, <2>1, SubSeqProperties
  <2> HIDE DEF e
  <2> QED
    BY <1>3, <2>2
<1> HIDE DEF e
<1>7. SubSeq(s, p, (p + len) - 1) = e
  <2> DEFINE q == SubSeq(s, p, (p + len) - 1)
  <2>1. \A i \in p .. (p + len) - 1 : s[i] \in B
    BY <1>3, <1>5
  <2>2. p \in Int /\ (p + len) - 1 \in Int
    BY <1>3
  <2>3. /\ q \in Seq(B)
        /\ Len(q) = (IF p <= (p + len) - 1 THEN (p + len) - 1 - p + 1 ELSE 0)
        /\ \A i \in 1 .. (p + len) - 1 - p + 1 : q[i] = s[p + i - 1]
    BY <2>1, <2>2, SubSeqProperties
  <2> HIDE DEF q
  <2>4. Len(q) = len /\ \A i \in 1 .. len : q[i] = s[p + i - 1]
    BY <1>3, <2>3
  <2>5. \A i \in 1 .. len : s[p + i - 1] = r[i]
    BY <1>3, <1>4, <1>5
  <2>6. \A i \in 1 .. Len(q) : q[i] = e[i]
    BY <1>6, <2>4, <2>5
  <2> QED
    BY <1>6, <2>3, <2>4, <2>6, SeqEqual DEF q
<1>8. ASSUME NEW t, NEW at \in Nat, Stands(e, t, at)
      PROVE  t[at] # Quote /\ parse_char(t, at) = Success(at + Len(e), SubSeq(s, p, (p + len) - 1))
  <2> DEFINE b == Rest(t, at)
             m == utf8_validate_cz(b)
             q == SubSeq(t, at, at + m - 1)
  <2>1. IsText(t) /\ at \in 1 .. Len(t) /\ at + len <= Len(t) /\ \A i \in 1 .. len : t[at + i - 1] = e[i]
    BY <1>6, <1>8, Zenon DEF Stands
  <2>2. /\ IsText(b) /\ Len(b) = Len(t) - at + 1
        /\ \A i \in 1 .. Len(t) - at + 1 : b[i] = t[at + i - 1]
    BY <2>1, RestText
  <2>3. t[at] = c
    <3>1. 1 \in 1 .. len /\ at + 1 - 1 = at /\ p + 1 - 1 = p /\ 1 \in 1 .. Len(s) - p + 1
      BY <1>3, <1>5
    <3> QED
      BY <1>4, <1>6, <2>1, <3>1 DEF c
  <2>4. Len(t) \in Nat /\ t \in Seq(B)
    BY <2>1 DEF IsText, B
  <2>5. \A i \in 1 .. len : r[i] = b[i]
    <3> HIDE DEF b
    <3> TAKE i \in 1 .. len
    <3>1. i \in 1 .. Len(t) - at + 1
      BY <1>3, <2>1, <2>4
    <3> QED
      BY <1>6, <2>1, <2>2, <3>1
  <2>6. m = len
    BY <1>3, <1>4, <2>2, <2>5, SameLength DEF len
  <2>7. parse_char(t, at) = Success(at + m, q)
    <3>1. m # 0 /\ t[at] # BackSlash /\ ~(t[at] <= 31)
      BY <1>2, <1>3, <2>3, <2>6
    <3> QED
      BY <3>1, Zenon DEF parse_char, Rest
  <2> HIDE DEF m, b
  <2>8. q = e
    <3>1. \A i \in at .. at + m - 1 : t[i] \in B
      BY <1>3, <2>1, <2>4, <2>6
    <3>2. at \in Int /\ at + m - 1 \in Int
      BY <1>3, <2>6
    <3>3. /\ q \in Seq(B)
          /\ Len(q) = (IF at <= at + m - 1 THEN (at + m - 1) - at + 1 ELSE 0)
          /\ \A i \in 1 .. (at + m - 1) - at + 1 : q[i] = t[at + i - 1]
      <4> DEFINE n == at + m - 1
      <4>1. n \in Int /\ at \in Int /\ \A i \in at .. n : t[i] \in B
        BY <3>1, <3>2
      <4> HIDE DEF n
      <4>2. /\ SubSeq(t, at, n) \in Seq(B)
            /\ Len(SubSeq(t, at, n)) = (IF at <= n THEN n - at + 1 ELSE 0)
            /\ \A i \in 1 .. n - at + 1 : SubSeq(t, at, n)[i] = t[at + i - 1]
        BY <4>1, SubSeqProperties
      <4> QED
        BY <4>2, Zenon DEF n, q
    <3> HIDE DEF q
    <3>4. Len(q) = len /\ \A i \in 1 .. len : q[i] = t[at + i - 1]
      BY <1>3, <2>6, <3>3
    <3>5. \A i \in 1 .. Len(q) : q[i] = e[i]
      BY <2>1, <3>4
    <3> QED
      BY <1>6, <3>3, <3>4, <3>5, SeqEqual
  <2> QED
    BY <1>2, <1>6, <1>7, <2>3, <2>6, <2>7, <2>8
<1>9. Spells(e, s, p, p + len)
  BY <1>8, Zenon DEF Spells
<1> QED
  BY <1>1, <1>6, <1>9 DEF e, len, r, B

\* Whatever the character, parse_char reads what emit_char writes of it.
LEMMA OneCharacter ==
  ASSUME NEW s, IsText(s), NEW p \in 1 .. Len(s), s[p] # 0, s[p] # UnitSeparator,
         utf8_validate_cz(Rest(s, p)) # 0
  PROVE  \E e \in Seq(Byte) : /\ Len(e) >= 1
                              /\ emit_char(s, p) = Success(p + utf8_validate_cz(Rest(s, p)), e)
                              /\ Spells(e, s, p, p + utf8_validate_cz(Rest(s, p)))
<1> DEFINE c == s[p]
           len == utf8_validate_cz(Rest(s, p))
           Done == \E e \in Seq(Byte) : /\ Len(e) >= 1
                                        /\ emit_char(s, p) = Success(p + len, e)
                                        /\ Spells(e, s, p, p + len)
<1>1. c \in Nat
  <2> DEFINE B == Byte
  <2>1. s \in Seq(B)
    BY DEF IsText
  <2> HIDE DEF B
  <2>2. c \in B
    BY <2>1
  <2> QED
    BY <2>2, ByteRange DEF B
<1>2. len \in 1 .. 4 /\ (c <= 127 => len = 1)
  BY CharacterAt
<1> HIDE DEF len, c
<1>3. CASE c \in DOMAIN EscapeFor
  <2> DEFINE e == <<BackSlash, EscapeFor[c]>>
  <2>1. len = 1
    BY <1>2, <1>3, Escapes
  <2>2. e \in Seq(Byte) /\ Len(e) = 2 /\ emit_char(s, p) = Success(p + 1, e) /\ Spells(e, s, p, p + 1)
    BY <1>3, SpelledByEscape DEF c
  <2> HIDE DEF e
  <2>3. Len(e) >= 1
    BY <2>2
  <2>4. Done
    BY <2>1, <2>2, <2>3, Zenon
  <2> QED
    BY <2>4 DEF len
<1>4. CASE c \notin DOMAIN EscapeFor /\ c < 31
  <2> DEFINE e == Escape(write_hex16(c))
  <2>1. len = 1 /\ 0 < c
    BY <1>1, <1>2, <1>4 DEF c
  <2>2. e \in Seq(Byte) /\ Len(e) = 6 /\ emit_char(s, p) = Success(p + 1, e) /\ Spells(e, s, p, p + 1)
    BY <1>1, <1>4, <2>1, SpelledByCode DEF c
  <2> HIDE DEF e
  <2>3. Len(e) >= 1
    BY <2>2
  <2>4. Done
    BY <2>1, <2>2, <2>3, Zenon
  <2> QED
    BY <2>4 DEF len
<1>5. CASE c \notin DOMAIN EscapeFor /\ ~(c < 31)
  <2> DEFINE e == SubSeq(Rest(s, p), 1, len)
  <2>1. 31 < c
    BY <1>1, <1>5 DEF UnitSeparator, c
  <2>2. /\ e \in Seq(Byte) /\ Len(e) = len /\ emit_char(s, p) = Success(p + len, e)
        /\ Spells(e, s, p, p + len)
    BY <1>1, <1>5, <2>1, SpelledAsItIs DEF c, len
  <2> HIDE DEF e
  <2>3. Len(e) >= 1
    BY <1>2, <2>2
  <2>4. Done
    BY <2>2, <2>3, Zenon
  <2> QED
    BY <2>4 DEF len
<1> QED
  BY <1>3, <1>4, <1>5

-----------------------------------------------------------------------------
(* A whole string.                                                          *)

\* The text t begins with a quote and what is written up to now; it is read as
\* the bytes of s before p.
Literally(t, out) ==
  /\ IsText(t) /\ Len(t) >= Len(out) + 3 /\ \A i \in 1 .. Len(out) : t[1 + i] = out[i]
ReadUpTo(t, out, s, p) ==
  \E j \in 0 .. Len(out) : Reading(t, j, Success(2 + Len(out), SubSeq(s, 1, p - 1)))
Spelled(s, p, out) ==
  out \in Seq(Byte) /\ \A t : Literally(t, out) => ReadUpTo(t, out, s, p)

\* What is in front of p, and from there up to q.
LEMMA SubSeqJoin ==
  ASSUME NEW s, IsText(s), NEW p \in 1 .. Len(s), NEW q \in 1 .. Len(s), p < q
  PROVE  SubSeq(s, 1, p - 1) \o SubSeq(s, p, q - 1) = SubSeq(s, 1, q - 1)
<1> DEFINE B == Byte
           a == SubSeq(s, 1, p - 1)
           b == SubSeq(s, p, q - 1)
           m == SubSeq(s, 1, q - 1)
<1>1. Len(s) \in Nat /\ s \in Seq(B)
  BY DEF IsText
<1> HIDE DEF B
<1>2. \A i \in 1 .. Len(s) : s[i] \in B
  BY <1>1
<1>3. /\ a \in Seq(B) /\ Len(a) = (IF 1 <= p - 1 THEN (p - 1) - 1 + 1 ELSE 0)
      /\ \A i \in 1 .. (p - 1) - 1 + 1 : a[i] = s[1 + i - 1]
  <2>1. \A i \in 1 .. p - 1 : s[i] \in B
    BY <1>1, <1>2
  <2>2. 1 \in Int /\ p - 1 \in Int
    BY <1>1
  <2> QED
    BY <2>1, <2>2, SubSeqProperties
<1>4. /\ b \in Seq(B) /\ Len(b) = (IF p <= q - 1 THEN (q - 1) - p + 1 ELSE 0)
      /\ \A i \in 1 .. (q - 1) - p + 1 : b[i] = s[p + i - 1]
  <2>1. \A i \in p .. q - 1 : s[i] \in B
    BY <1>1, <1>2
  <2>2. p \in Int /\ q - 1 \in Int
    BY <1>1
  <2> QED
    BY <2>1, <2>2, SubSeqProperties
<1>5. /\ m \in Seq(B) /\ Len(m) = (IF 1 <= q - 1 THEN (q - 1) - 1 + 1 ELSE 0)
      /\ \A i \in 1 .. (q - 1) - 1 + 1 : m[i] = s[1 + i - 1]
  <2>1. \A i \in 1 .. q - 1 : s[i] \in B
    BY <1>1, <1>2
  <2>2. 1 \in Int /\ q - 1 \in Int
    BY <1>1
  <2> QED
    BY <2>1, <2>2, SubSeqProperties
<1> HIDE DEF a, b, m
<1>6. Len(a) = p - 1 /\ Len(b) = q - p /\ Len(m) = q - 1
  BY <1>1, <1>3, <1>4, <1>5
<1>7. \A i \in 1 .. p - 1 : a[i] = s[i]
  BY <1>1, <1>3
<1>8. \A i \in 1 .. q - p : b[i] = s[p + i - 1]
  BY <1>1, <1>4
<1>9. \A i \in 1 .. q - 1 : m[i] = s[i]
  BY <1>1, <1>5
<1>10. /\ a \o b \in Seq(B) /\ Len(a \o b) = Len(a) + Len(b)
       /\ \A i \in 1 .. Len(a) + Len(b) : (a \o b)[i] = IF i <= Len(a) THEN a[i] ELSE b[i - Len(a)]
  BY <1>3, <1>4, ConcatProperties
<1> DEFINE r == a \o b
<1> HIDE DEF r
<1>11. Len(r) = q - 1 /\ r \in Seq(B)
  BY <1>6, <1>10 DEF r
<1>12. ASSUME NEW i \in 1 .. q - 1 PROVE r[i] = m[i]
  <2>1. r[i] = IF i <= p - 1 THEN a[i] ELSE b[i - (p - 1)]
    BY <1>6, <1>10 DEF r
  <2>2. CASE i <= p - 1
    <3>1. i \in 1 .. p - 1
      BY <1>1, <2>2
    <3> QED
      BY <1>7, <1>9, <2>1, <2>2, <3>1
  <2>3. CASE ~(i <= p - 1)
    <3>1. i - (p - 1) \in 1 .. q - p /\ p + (i - (p - 1)) - 1 = i
      BY <1>1, <2>3
    <3> QED
      BY <1>8, <1>9, <2>1, <2>3, <3>1
  <2> QED
    BY <2>2, <2>3
<1>13. r = m
  BY <1>5, <1>6, <1>11, <1>12, SeqEqual
<1> QED
  BY <1>13 DEF r, a, b, m

\* One more character.
LEMMA SpelledFurther ==
  ASSUME NEW s, IsText(s), NEW p \in 1 .. Len(s), NEW q \in 1 .. Len(s), p < q,
         NEW out, Spelled(s, p, out), NEW e \in Seq(Byte), Len(e) >= 1, Spells(e, s, p, q)
  PROVE  Spelled(s, q, out \o e)
<1> DEFINE B == Byte
           r == out \o e
<1>1. out \in Seq(B) /\ e \in Seq(B)
  BY Zenon DEF Spelled
<1>2. r \in Seq(B) /\ Joins(r, out, e)
  BY <1>1, Joined
<1> HIDE DEF r, B
<1>3. /\ Len(out) \in Nat /\ Len(e) \in Nat /\ Len(r) = Len(out) + Len(e)
      /\ \A i \in 1 .. Len(out) : r[i] = out[i]
      /\ \A i \in 1 .. Len(e) : r[Len(out) + i] = e[i]
  BY <1>1, <1>2 DEF Joins
<1>4. ASSUME NEW t, Literally(t, r) PROVE ReadUpTo(t, r, s, q)
  <2> DEFINE at == 2 + Len(out)
             next == at + Len(e)
  <2>1. IsText(t) /\ Len(t) >= Len(r) + 3 /\ \A i \in 1 .. Len(r) : t[1 + i] = r[i]
    BY <1>4, Zenon DEF Literally
  <2>2. Len(t) \in Nat
    BY <2>1 DEF IsText
  <2>3. Literally(t, out)
    <3>1. Len(t) >= Len(out) + 3
      BY <1>3, <2>1, <2>2
    <3>2. \A i \in 1 .. Len(out) : t[1 + i] = out[i]
      <4> TAKE i \in 1 .. Len(out)
      <4>1. i \in 1 .. Len(r)
        BY <1>3
      <4> QED
        BY <1>3, <2>1, <4>1
    <3> QED
      BY <2>1, <3>1, <3>2, Zenon DEF Literally
  <2>4. PICK j \in 0 .. Len(out) : Reading(t, j, Success(at, SubSeq(s, 1, p - 1)))
    BY <2>3, Zenon DEF Spelled, ReadUpTo
  <2>5. at \in Nat /\ at \in 1 .. Len(t) /\ at + Len(e) <= Len(t) /\ next = 2 + Len(r)
    BY <1>3, <2>1, <2>2
  <2>6. Stands(e, t, at)
    <3>1. ASSUME NEW i \in 1 .. Len(e) PROVE t[at + i - 1] = e[i]
      <4>1. Len(out) + i \in 1 .. Len(r) /\ 1 + (Len(out) + i) = at + i - 1
        BY <1>3
      <4>2. t[1 + (Len(out) + i)] = r[Len(out) + i]
        BY <2>1, <4>1
      <4> QED
        BY <1>3, <4>1, <4>2
    <3> QED
      BY <2>1, <2>5, <3>1, Zenon DEF Stands
  <2>7. t[at] # Quote /\ parse_char(t, at) = Success(next, SubSeq(s, p, q - 1))
    BY <2>5, <2>6, Zenon DEF Spells
  <2>8. j \in Nat /\ j < Len(t) /\ at \in DOMAIN t /\ j + 1 \in 0 .. Len(r)
    BY <1>3, <2>1, <2>2, <2>4, <2>5 DEF IsText
  <2> HIDE DEF at, next
  <2>9. Reading(t, j + 1, Success(next, SubSeq(s, 1, p - 1) \o SubSeq(s, p, q - 1)))
    BY <2>2, <2>4, <2>7, <2>8, CharacterRead
  <2>10. SubSeq(s, 1, p - 1) \o SubSeq(s, p, q - 1) = SubSeq(s, 1, q - 1)
    BY SubSeqJoin
  <2>11. Reading(t, j + 1, Success(2 + Len(r), SubSeq(s, 1, q - 1)))
    BY <2>5, <2>9, <2>10
  <2> QED
    BY <2>8, <2>11, Zenon DEF ReadUpTo
<1> QED
  BY <1>2, <1>4, Zenon DEF Spelled, r, B

\* Before the first character.
LEMMA NothingSpelled ==
  ASSUME NEW s, IsText(s)
  PROVE  Spelled(s, 1, <<>>)
<1>1. <<>> \in Seq(Byte) /\ Len(<<>>) = 0 /\ 1 - 1 = 0 /\ 2 + 0 = 2 /\ 0 \in 0 .. 0
  OBVIOUS
<1>2. SubSeq(s, 1, 0) = <<>>
  BY SubSeqEmpty
<1>3. ASSUME NEW t, Literally(t, <<>>) PROVE ReadUpTo(t, <<>>, s, 1)
  <2>1. Len(t) \in Nat
    BY <1>3 DEF Literally, IsText
  <2>2. Reading(t, 0, Success(2, <<>>))
    BY <2>1, ReadingStarts
  <2>3. Reading(t, 0, Success(2 + Len(<<>>), SubSeq(s, 1, 1 - 1)))
    BY <1>1, <1>2, <2>2
  <2>4. 0 \in 0 .. Len(<<>>)
    BY <1>1
  <2> QED
    BY <2>3, <2>4, Zenon DEF ReadUpTo
<1> QED
  BY <1>1, <1>3, Zenon DEF Spelled

\* The loops of utf8_validate and emit_string.
ValidAt(s, at) ==
  LET len == utf8_validate_cz(SubSeq(s, at, Len(s))) IN
  IF len = 0 THEN Failure ELSE Success(at + len, <<>>)
Validated(s) == [at \in DOMAIN s |-> ValidAt(s, at)]
Emitted(s)   == [i \in DOMAIN s |-> emit_char(s, i)]

\* A string that emit_string may be given and parse_string reads back.
Quotable(s) ==
  /\ IsText(s) /\ \A i \in 1 .. Len(s) - 1 : s[i] # 0 /\ s[i] # UnitSeparator
  /\ each_char(s, Validated(s), 0, 1).ok

\* After k turns both loops have come to p, behind k characters or at the 0,
\* and what is written is read as the bytes before p.
EmittedUpTo(s, k) ==
  \E p \in 1 .. Len(s), out \in Seq(Byte) :
    /\ k + 1 <= p \/ p = Len(s)
    /\ Reaches(s, Validated(s), 0, 1, k, Success(p, <<>>))
    /\ Reaches(s, Emitted(s), 0, 1, k, Success(p, out))
    /\ Spelled(s, p, out)

\* Before the first turn,
LEMMA WritingStarts ==
  ASSUME NEW s, Quotable(s)
  PROVE  EmittedUpTo(s, 0)
<1>1. IsText(s) /\ Len(s) \in Nat /\ 1 \in 1 .. Len(s)
  BY DEF Quotable, IsText
<1>2. Spelled(s, 1, <<>>) /\ <<>> \in Seq(Byte) /\ 0 + 1 <= 1
  BY <1>1, NothingSpelled
<1>3. Reaches(s, Validated(s), 0, 1, 0, Success(1, <<>>)) /\ Reaches(s, Emitted(s), 0, 1, 0, Success(1, <<>>))
  BY <1>1, LoopStarts
<1> QED
  BY <1>1, <1>2, <1>3, Zenon DEF EmittedUpTo

\* and after each.
LEMMA WritingGoesOn ==
  ASSUME NEW s, Quotable(s), NEW k \in Nat, k < Len(s), EmittedUpTo(s, k)
  PROVE  EmittedUpTo(s, k + 1)
<1> DEFINE V == Validated(s)
           E == Emitted(s)
<1>0. Len(s) \in Nat
  BY DEF Quotable, IsText
<1>1. /\ IsText(s) /\ Len(s) \in Nat /\ s[Len(s)] = 0 /\ DOMAIN s = 1 .. Len(s)
      /\ \A i \in 1 .. Len(s) - 1 : s[i] # 0 /\ s[i] # UnitSeparator
      /\ each_char(s, V, 0, 1).ok
  BY DEF Quotable, IsText
<1>2. PICK p \in 1 .. Len(s), out \in Seq(Byte) :
        /\ k + 1 <= p \/ p = Len(s)
        /\ Reaches(s, V, 0, 1, k, Success(p, <<>>)) /\ Reaches(s, E, 0, 1, k, Success(p, out))
        /\ Spelled(s, p, out)
  BY Zenon DEF EmittedUpTo
<1>3. \A i \in DOMAIN s : V[i] = ValidAt(s, i) /\ E[i] = emit_char(s, i)
  BY Zenon DEF Validated, Emitted
<1> HIDE DEF V, E
<1>4. /\ Reaches(s, V, 0, 1, k + 1, next_char(s, V, 0, Success(p, <<>>)))
      /\ Reaches(s, E, 0, 1, k + 1, next_char(s, E, 0, Success(p, out)))
  BY <1>1, <1>2, LoopGoesOn
<1>5. CASE s[p] = 0
  <2>1. p = Len(s)
    <3>1. p # Len(s) => p \in 1 .. Len(s) - 1
      BY <1>0
    <3> QED
      BY <1>1, <1>5, <3>1, Zenon
  <2>2. /\ next_char(s, V, 0, Success(p, <<>>)) = Success(p, <<>>)
        /\ next_char(s, E, 0, Success(p, out)) = Success(p, out)
    <3>1. ASSUME NEW char, NEW value PROVE next_char(s, char, 0, Success(p, value)) = Success(p, value)
      BY <1>5 DEF next_char, Success
    <3> QED
      BY <3>1, Zenon
  <2> QED
    BY <1>2, <1>4, <2>1, <2>2, Zenon DEF EmittedUpTo, V, E
<1>6. CASE s[p] # 0
  <2> DEFINE len == utf8_validate_cz(Rest(s, p))
  <2>1. s[p] # UnitSeparator /\ p < Len(s)
    <3>1. p # Len(s)
      BY <1>1, <1>6
    <3>2. p \in 1 .. Len(s) - 1 /\ p < Len(s)
      BY <1>0, <3>1
    <3> QED
      BY <1>1, <3>2, Zenon
  <2>2. len # 0
    <3> SUFFICES ASSUME len = 0 PROVE FALSE
      OBVIOUS
    <3>1. V[p] = Failure
      BY <1>1, <1>3, Zenon DEF ValidAt, Rest
    <3>2. next_char(s, V, 0, Success(p, <<>>)) = Failure
      BY <1>6, <3>1, TurnTaken
    <3>3. Reaches(s, V, 0, 1, k + 1, Failure)
      BY <1>4, <3>2
    <3>4. each_char(s, V, 0, 1) = Failure
      BY <1>1, <3>3, TurnFails, LoopEnds
    <3> QED
      BY <1>1, <3>4 DEF Failure
  <2>3. len \in 1 .. 4 /\ p + len <= Len(s)
    BY <1>1, <1>6, <2>2, CharacterAt
  <2>4. PICK e \in Seq(Byte) : /\ Len(e) >= 1 /\ emit_char(s, p) = Success(p + len, e)
                               /\ Spells(e, s, p, p + len)
    BY <1>1, <1>6, <2>1, <2>2, OneCharacter
  <2>5. V[p] = Success(p + len, <<>>)
    BY <1>1, <1>3, <2>2, Zenon DEF ValidAt, Rest
  <2> HIDE DEF len
  <2> DEFINE q == p + len
  <2>6. q \in 1 .. Len(s) /\ p < q /\ ((k + 1) + 1 <= q \/ q = Len(s))
    <3>1. Len(s) \in Nat /\ (k + 1 <= p \/ p = Len(s)) /\ p < Len(s)
      BY <1>1, <1>2, <2>1
    <3> QED
      BY <2>3, <3>1
  <2> HIDE DEF q
  <2>7. next_char(s, V, 0, Success(p, <<>>)) = Success(q, <<>>)
    <3>1. <<>> \o <<>> = <<>>
      OBVIOUS
    <3>2. ASSUME NEW value PROVE next_char(s, V, 0, Success(p, value)) = Success(q, value \o <<>>)
      <4> DEFINE none == <<>>
      <4>1. V[p] = Success(q, none)
        BY <2>5 DEF q
      <4> HIDE DEF none
      <4>2. next_char(s, V, 0, Success(p, value)) = Success(q, value \o none)
        BY <1>6, <4>1, TurnTaken
      <4> QED
        BY <4>2 DEF none
    <3> QED
      BY <3>1, <3>2, Zenon
  <2>8. next_char(s, E, 0, Success(p, out)) = Success(q, out \o e)
    <3>1. E[p] = Success(q, e)
      BY <1>1, <1>3, <2>4 DEF q
    <3> QED
      BY <1>6, <3>1, TurnTaken
  <2>9. Spelled(s, q, out \o e)
    BY <1>1, <1>2, <2>4, <2>6, SpelledFurther DEF q
  <2>10. out \o e \in Seq(Byte)
    BY <2>9, Zenon DEF Spelled
  <2>11. Reaches(s, V, 0, 1, k + 1, Success(q, <<>>)) /\ Reaches(s, E, 0, 1, k + 1, Success(q, out \o e))
    BY <1>4, <2>7, <2>8, Zenon
  <2> QED
    BY <2>6, <2>9, <2>10, <2>11, Zenon DEF EmittedUpTo, V, E
<1> QED
  BY <1>5, <1>6

\* What emit_string makes of a string is read back by parse_string.
LEMMA WrittenAll ==
  ASSUME NEW s, Quotable(s)
  PROVE  EmittedUpTo(s, Len(s))
<1> DEFINE n == Len(s)
           T == {k \in Nat : k <= n => EmittedUpTo(s, k)}
<1>1. n \in Nat
  BY DEF Quotable, IsText
<1>2. 0 \in T
  BY WritingStarts
<1>3. ASSUME NEW k \in T PROVE k + 1 \in T
  <2>1. k \in Nat /\ k + 1 \in Nat
    OBVIOUS
  <2>2. ASSUME k + 1 <= n PROVE EmittedUpTo(s, k + 1)
    <3>1. k < Len(s) /\ EmittedUpTo(s, k)
      BY <1>1, <2>1, <2>2
    <3> QED
      BY <2>1, <3>1, WritingGoesOn
  <2> QED
    BY <2>1, <2>2
<1>4. T = Nat
  <2>1. T \in SUBSET Nat
    OBVIOUS
  <2> HIDE DEF T
  <2> QED
    BY <1>2, <1>3, <2>1, SetInduction
<1> QED
  BY <1>1, <1>4

\* After as many turns as there are characters the loop is over.
LEMMA LoopLast ==
  ASSUME NEW t, NEW char, NEW end, NEW at, NEW done, Reaches(t, char, end, at, Len(t), done)
  PROVE  each_char(t, char, end, at) = done
BY Zenon DEF Reaches

\* The literal around out.
LEMMA Quoted ==
  ASSUME NEW out \in Seq(Byte)
  PROVE  LET t == <<Quote>> \o out \o <<Quote>> \o <<0>>
         IN  /\ t \in Seq(Byte) /\ Len(t) = Len(out) + 3 /\ t[1] = Quote
             /\ Literally(t, out) /\ t[2 + Len(out)] = Quote
<1> DEFINE B == Byte
           q == <<Quote>>
           z == <<0>>
           a == q \o out
           b == a \o q
           t == b \o z
<1>1. Quote \in B /\ 0 \in B
  BY ByteRange DEF Quote
<1> HIDE DEF B
<1>2. q \in Seq(B) /\ Len(q) = 1 /\ q[1] = Quote /\ z \in Seq(B) /\ Len(z) = 1 /\ z[1] = 0
  BY <1>1
<1> HIDE DEF q, z
<1>3. out \in Seq(B) /\ Len(out) \in Nat
  BY DEF B
<1>4. a \in Seq(B) /\ Joins(a, q, out)
  BY <1>2, <1>3, Joined
<1> HIDE DEF a
<1>5. b \in Seq(B) /\ Joins(b, a, q)
  BY <1>2, <1>4, Joined
<1> HIDE DEF b
<1>6. t \in Seq(B) /\ Joins(t, b, z)
  BY <1>2, <1>5, Joined
<1> HIDE DEF t
<1>7. Len(a) = Len(out) + 1 /\ a[1] = Quote /\ \A i \in 1 .. Len(out) : a[1 + i] = out[i]
  BY <1>2, <1>3, <1>4 DEF Joins
<1>8. /\ Len(b) = Len(out) + 2 /\ \A i \in 1 .. Len(out) + 1 : b[i] = a[i]
      /\ b[2 + Len(out)] = Quote
  <2>1. /\ Len(b) = Len(a) + Len(q) /\ \A i \in 1 .. Len(a) : b[i] = a[i]
        /\ \A i \in 1 .. Len(q) : b[Len(a) + i] = q[i]
    BY <1>5, Zenon DEF Joins
  <2>2. 1 \in 1 .. Len(q) /\ Len(a) + 1 = 2 + Len(out) /\ Len(a) + Len(q) = Len(out) + 2
    BY <1>2, <1>3, <1>7
  <2> QED
    BY <1>2, <1>7, <2>1, <2>2
<1>9. /\ Len(t) = Len(out) + 3 /\ \A i \in 1 .. Len(out) + 2 : t[i] = b[i]
      /\ t[Len(t)] = 0
  <2>1. /\ Len(t) = Len(b) + Len(z) /\ \A i \in 1 .. Len(b) : t[i] = b[i]
        /\ \A i \in 1 .. Len(z) : t[Len(b) + i] = z[i]
    BY <1>6, Zenon DEF Joins
  <2>2. 1 \in 1 .. Len(z) /\ Len(b) + 1 = Len(t) /\ Len(b) + Len(z) = Len(out) + 3
    BY <1>2, <1>3, <1>8, <2>1
  <2> QED
    BY <1>2, <1>8, <2>1, <2>2
<1>10. t[1] = Quote /\ t[2 + Len(out)] = Quote
  <2>1. 1 \in 1 .. Len(out) + 1 /\ 1 \in 1 .. Len(out) + 2 /\ 2 + Len(out) \in 1 .. Len(out) + 2
    BY <1>3
  <2> QED
    BY <1>7, <1>8, <1>9, <2>1, Zenon
<1>11. ASSUME NEW i \in 1 .. Len(out) PROVE t[1 + i] = out[i]
  <2>1. 1 + i \in 1 .. Len(out) + 1 /\ 1 + i \in 1 .. Len(out) + 2
    BY <1>3
  <2> QED
    BY <1>7, <1>8, <1>9, <2>1, Zenon
<1>12. t # <<>> /\ Len(t) >= Len(out) + 3
  BY <1>3, <1>9
<1>13. Literally(t, out)
  BY <1>6, <1>9, <1>11, <1>12, Zenon DEF Literally, IsText, B
<1> QED
  BY <1>6, <1>9, <1>10, <1>13, Zenon DEF t, b, a, q, z, B

\* A string with its 0 behind it.
Terminated(str) == str \o <<0>>

\* A valid string without U+001F is read back: the loops of emit_string and
\* parse_string have come to their ends.
LEMMA StringRead ==
  ASSUME NEW str \in Seq(Byte), Quotable(Terminated(str))
  PROVE  ReadsBack(str)
<1> DEFINE B == Byte
           z == <<0>>
           s == str \o z
<1>1. 0 \in B
  BY ByteRange
<1> HIDE DEF B
<1>2. str \in Seq(B) /\ Len(str) \in Nat /\ z \in Seq(B) /\ Len(z) = 1
  BY <1>1 DEF B
<1> HIDE DEF z
<1>3. s \in Seq(B) /\ Joins(s, str, z)
  BY <1>2, Joined
<1>4. Quotable(s)
  BY DEF z, Terminated
<1> HIDE DEF s
<1>5. Len(s) = Len(str) + 1 /\ Len(s) \in Nat
  BY <1>2, <1>3 DEF Joins
<1>6. PICK p \in 1 .. Len(s), out \in Seq(Byte) :
        /\ Len(s) + 1 <= p \/ p = Len(s)
        /\ Reaches(s, Emitted(s), 0, 1, Len(s), Success(p, out))
        /\ Spelled(s, p, out)
  BY <1>4, WrittenAll, Zenon DEF EmittedUpTo
<1>7. p = Len(s)
  BY <1>5, <1>6
<1>8. each_char(s, Emitted(s), 0, 1).value = out
  BY <1>6, LoopLast DEF Success
<1> DEFINE text == emit_string(str) \o <<0>>
<1>9. text = <<Quote>> \o out \o <<Quote>> \o <<0>>
  <2>1. emit_string(str) = <<Quote>> \o each_char(s, Emitted(s), 0, 1).value \o <<Quote>>
    BY Zenon DEF emit_string, Emitted, s, z
  <2> QED
    BY <1>8, <2>1, Zenon
<1> HIDE DEF text
<1>10. /\ text \in Seq(Byte) /\ Len(text) = Len(out) + 3 /\ text[1] = Quote
       /\ Literally(text, out) /\ text[2 + Len(out)] = Quote
  BY <1>6, <1>9, Quoted, Zenon
<1>11. PICK j \in 0 .. Len(out) : Reading(text, j, Success(2 + Len(out), SubSeq(s, 1, p - 1)))
  BY <1>6, <1>10, Zenon DEF Spelled, ReadUpTo
<1>12. Len(text) \in Nat /\ (2 + Len(out)) + 1 = Len(text)
  BY <1>6, <1>10
<1>13. SubSeq(s, 1, p - 1) = str
  <2>1. p - 1 = Len(str)
    BY <1>2, <1>5, <1>7
  <2>2. \A i \in 1 .. Len(str) : s[i] = str[i]
    BY <1>3, Zenon DEF Joins
  <2> DEFINE q == SubSeq(s, 1, Len(str))
  <2>3. \A i \in 1 .. Len(str) : s[i] \in B
    BY <1>2, <2>2
  <2>4. /\ q \in Seq(B) /\ Len(q) = (IF 1 <= Len(str) THEN Len(str) - 1 + 1 ELSE 0)
        /\ \A i \in 1 .. Len(str) - 1 + 1 : q[i] = s[1 + i - 1]
    <3>1. 1 \in Int /\ Len(str) \in Int
      BY <1>2
    <3> QED
      BY <2>3, <3>1, SubSeqProperties
  <2> HIDE DEF q
  <2>5. Len(q) = Len(str) /\ \A i \in 1 .. Len(q) : q[i] = str[i]
    BY <1>2, <2>2, <2>4
  <2>6. q = str
    BY <1>2, <2>4, <2>5, SeqEqual
  <2> QED
    BY <2>1, <2>6 DEF q
<1>14. parse_string(text, 1) = Success((2 + Len(out)) + 1, SubSeq(s, 1, p - 1))
  <2> DEFINE at == 2 + Len(out)
             value == SubSeq(s, 1, p - 1)
  <2>1. Reaches(text, Parsed(text), Quote, 1 + 1, j, Success(at, value)) /\ text[at] = Quote
    BY <1>10, <1>11, Zenon DEF Reading
  <2> HIDE DEF at, value
  <2>2. parse_string(text, 1) = Success(at + 1, value)
    BY <1>10, <1>12, <2>1, LiteralRead
  <2> QED
    BY <2>2, Zenon DEF at, value
<1>15. parse_string(text, 1) = Success(Len(text), str)
  BY <1>12, <1>13, <1>14, Zenon
<1> QED
  BY <1>15, Zenon DEF ReadsBack, text

\* A string with its 0.
LEMMA Ended ==
  ASSUME NEW str \in Seq(Byte \ {0})
  PROVE  LET s == str \o <<0>>
         IN  /\ str \in Seq(Byte) /\ Len(s) = Len(str) + 1 /\ IsText(s)
             /\ \A i \in 1 .. Len(str) : s[i] = str[i] /\ str[i] # 0
<1> DEFINE B == Byte
           z == <<0>>
           s == str \o z
<1>1. 0 \in B
  BY ByteRange
<1> HIDE DEF B
<1>2. str \in Seq(B) /\ Len(str) \in Nat /\ \A i \in 1 .. Len(str) : str[i] # 0
  BY DEF B
<1>3. z \in Seq(B) /\ Len(z) = 1 /\ z[1] = 0
  BY <1>1
<1> HIDE DEF z
<1>4. s \in Seq(B) /\ Joins(s, str, z)
  BY <1>2, <1>3, Joined
<1> HIDE DEF s
<1>5. Len(s) = Len(str) + 1 /\ \A i \in 1 .. Len(str) : s[i] = str[i]
  BY <1>3, <1>4, Zenon DEF Joins
<1>6. s[Len(s)] = 0 /\ s # <<>>
  BY <1>2, <1>3, <1>4, <1>5 DEF Joins
<1> QED
  BY <1>2, <1>4, <1>5, <1>6, Zenon DEF IsText, s, z, B

\* Any string that emit_string takes, without U+001F, is read back.
THEOREM EveryStringRoundTrips == Spec => []StringRoundTrip
<1>1. Init => StringRoundTrip
  <2> SUFFICES ASSUME Init, input.kind = "quoted",
                      ~\E i \in DOMAIN input.string : input.string[i] = UnitSeparator
               PROVE  ReadsBack(input.string)
    BY DEF StringRoundTrip
  <2> DEFINE str == input.string
             s == str \o <<0>>
  <2>1. Valid(input)
    BY DEF Init, Transfer, Segments, Text, Character, Halves, Directory, Spawning
  <2>2. str \in Seq(Byte \ {0}) /\ utf8_validate(s)
    BY <2>1, Zenon DEF Valid
  <2> HIDE DEF str
  <2>3. /\ str \in Seq(Byte) /\ Len(s) = Len(str) + 1 /\ IsText(s)
        /\ \A i \in 1 .. Len(str) : s[i] = str[i] /\ str[i] # 0
    BY <2>2, Ended
  <2>4. each_char(s, Validated(s), 0, 1).ok
    BY <2>2, Zenon DEF utf8_validate, Validated, ValidAt
  <2>5. \A i \in 1 .. Len(s) - 1 : s[i] # 0 /\ s[i] # UnitSeparator
    <3>1. Len(str) \in Nat /\ Len(s) - 1 = Len(str) /\ DOMAIN str = 1 .. Len(str)
      BY <2>3
    <3> HIDE DEF s
    <3> QED
      BY <2>3, <3>1 DEF str
  <2>6. Quotable(s)
    BY <2>3, <2>4, <2>5, Zenon DEF Quotable
  <2>7. ReadsBack(str)
    BY <2>3, <2>6, StringRead DEF Terminated
  <2> QED
    BY <2>7 DEF str
<1>2. StringRoundTrip /\ [Next]_input => StringRoundTrip'
  <2> SUFFICES ASSUME StringRoundTrip, input' = input
               PROVE  StringRoundTrip'
    BY DEF Next
  <2> QED
    BY DEF StringRoundTrip
<1> QED
  BY <1>1, <1>2, PTL DEF Spec

\* In every string the parser may meet, exactly the characters of RFC 3629
\* are accepted, and each is read as what it is (utf8_validate_cz,
\* utf8_read_char).
THEOREM EveryCharacterDecodes == Spec => []Utf8Decodes
<1>1. Init => Utf8Decodes
  <2> SUFFICES ASSUME Init, input.kind = "string"
               PROVE  /\ \A k \in 1 .. 4 :
                           Encoded(input.bytes, k) <=> utf8_validate_cz(input.bytes) = k
                      /\ utf8_validate_cz(input.bytes) # 0 =>
                           utf8_read_char(input.bytes)
                             = Value(input.bytes, utf8_validate_cz(input.bytes))
    BY DEF Utf8Decodes
  <2>1. Text(input)
    BY DEF Init, Transfer, Segments, Character, Halves, Valid, Directory, Spawning
  <2> QED
    BY <2>1, Decodes DEF Text
<1>2. Utf8Decodes /\ [Next]_input => Utf8Decodes'
  <2> SUFFICES ASSUME Utf8Decodes, input' = input
               PROVE  Utf8Decodes'
    BY DEF Next
  <2> QED
    BY DEF Utf8Decodes
<1> QED
  BY <1>1, <1>2, PTL DEF Spec

=============================================================================
