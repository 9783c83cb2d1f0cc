---------------------------- MODULE MCFunctions ----------------------------
(***************************************************************************)
(* Algorithms on small inputs, and JSON text (JsonText) against reference  *)
(* definitions.                                                            *)
(***************************************************************************)
EXTENDS Algorithms, JsonText

-----------------------------------------------------------------------------
(* Inputs: lengths around multiples of the word, bytes and characters on    *)
(* both sides of every limit in the code.                                   *)

MaxLength == 2 * Word + 1
Memory    == 0 .. 7 * Word

\* A memory with no two bytes alike but the zeros.
MemoryWith(nuls) == [x \in Memory |-> IF x \in nuls THEN 0 ELSE x + 1]

Buffer(from, length) == [i \in 1 .. length |-> 64 * from + i]
Transfers == [kind : {"transfer"}, mem : {MemoryWith(nuls) : nuls \in SUBSET (0 .. MaxLength)},
              addr : 0 .. Word, buf : {Buffer(1, n) : n \in 0 .. MaxLength}]
Scratches ==
  [kind : {"segments"}, mem : {MemoryWith({})}, addr : 0 .. Word,
   bufs : {[k \in DOMAIN lengths |-> Buffer(k, lengths[k])] :
             lengths \in UNION {[1 .. n -> 0 .. Word + 1] : n \in 0 .. 3}}]

LeadBytes == {1, 127, 128, 191, 192, 193, 194, 223, 224, 225, 236, 237, 238, 239,
              240, 241, 243, 244, 245, 255}
NextBytes == {0, 127, 128, 143, 144, 159, 160, 191, 192}
Strings   == [kind : {"string"},
              bytes : {<<b, x, y, z, 0>> : b \in LeadBytes, x, y, z \in NextBytes}]

CodePoints == {1021 * i : i \in 1 .. 1091}
                \cup {1, 127, 128, 2047, 2048, 4095, 4096, 55295, 57344, 65535, 65536,
                      131071, 131072, 1048575, 1048576, 1114111}
Characters == [kind : {"character"}, code : CodePoints \ Surrogates]

HalfPairs == {0, 1, 159, 2570, 55295, 55296, 55297, 56319, 56320, 56321, 57343, 57344, 65535}
Pairs     == [kind : {"pair"}, uc : HalfPairs, lc : HalfPairs]

\* The tokens of JSON texts, as the characters they are made of.  No two of
\* them run together to a third.
Tokens == {<<OpenArray>>, <<CloseArray>>, <<OpenObject>>, <<CloseObject>>, <<Comma>>,
           <<Colon>>, <<Zero>>, <<null>>, <<Quote, Quote>>, <<LineFeed>>}

\* Longer documents, of which every text one token away is tried as well.
S == <<Quote, Quote>>
Documents ==
  {<< <<OpenArray>>, <<OpenArray>>, <<Zero>>, <<Comma>>, S, <<CloseArray>>, <<Comma>>,
      <<null>>, <<CloseArray>> >>,
   << <<OpenObject>>, S, <<LineFeed>>, <<Colon>>, <<Zero>>, <<Comma>>, S, <<Colon>>,
      <<OpenObject>>, <<CloseObject>>, <<LineFeed>>, <<CloseObject>> >>,
   << <<OpenArray>>, <<OpenObject>>, S, <<Colon>>, <<OpenArray>>, S, <<CloseArray>>,
      <<CloseObject>>, <<Comma>>, <<LineFeed>>, S, <<CloseArray>> >>}
Neighbours(doc) ==
  {doc} \cup {RemoveAt(doc, i) : i \in DOMAIN doc}
        \cup {ReplaceAt(doc, i, token) : i \in DOMAIN doc, token \in Tokens}
        \cup {InsertAt(doc, i, token) : i \in DOMAIN doc, token \in Tokens}

Texts == [kind : {"text"},
          tokens : (UNION {[1 .. n -> Tokens] : n \in 0 .. 5})
                     \cup UNION {Neighbours(doc) : doc \in Documents}]

NumberChars == {Minus, Plus, Dot, Zero, Zero + 1, Zero + 9, 101}
Numbers     == [kind : {"number"}, chars : UNION {[1 .. n -> NumberChars] : n \in 1 .. 6}]

\* Characters that the printer treats each in its way, in valid strings of
\* up to three, and every character next to a limit alone.
StringChars ==
  {<<1>>, <<8>>, <<9>>, <<10>>, <<12>>, <<13>>, <<14>>, <<30>>, <<31>>, <<32>>, <<Quote>>,
   <<Slash>>, <<BackSlash>>, <<98>>, <<117>>, <<127>>, <<194, 128>>, <<224, 160, 128>>,
   <<240, 144, 128, 128>>}
Quoted == [kind : {"quoted"},
           string : {FlattenSeq(c) : c \in UNION {[1 .. n -> StringChars] : n \in 0 .. 3}}
                      \cup {utf8_write_char(c) : c \in 1 .. 300}
                      \cup {utf8_write_char(c) : c \in CodePoints \ Surrogates}]

Leaves == {Leaf("null"), Bool(TRUE), Bool(FALSE), String(<<>>), String(<<Quote, 1>>)}
            \cup {Number(strtod(FALSE, d, e)) : d \in {<<0>>, <<1, 0, 9>>}, e \in {1, 5, 400}}
Keys == {<<>>, <<Colon, BackSlash>>}
Nested(values, n) ==
  {Array(a) : a \in UNION {[1 .. k -> values] : k \in 0 .. n}}
    \cup {Object(o) : o \in UNION {[1 .. k -> [key : Keys, value : values]] : k \in 0 .. n}}
Shallow == {Leaf("null"), Array(<<>>), Object(<<>>), Array(<<Bool(TRUE), Leaf("null")>>),
            Object(<<[key |-> <<>>, value |-> Array(<<>>)]>>)}
Trees == [kind : {"tree"}, tree : Leaves \cup Nested(Leaves, 2) \cup Nested(Shallow, 3),
          space : {<<>>, <<Space, 9>>}]

NameSizes   == {1, 3, 4, 5, 12, 13, 255}
Directories == [kind : {"directory"}, sizes : UNION {[1 .. n -> NameSizes] : n \in 0 .. 3}]

\* The host has its standard streams open; what else it has open is any set
\* of numbers at the first call and another one, but for the sockets, at the
\* second.
Numbered == 3 .. 8
Spawns   == [kind : {"spawn"}, before : SUBSET Numbered, after : SUBSET Numbered]

\* The inputs of Algorithms are among those it allows; the others are texts and
\* trees.
MCInit ==
  \/ /\ \/ input \in Transfers \/ input \in Scratches \/ input \in Strings
        \/ input \in Characters \/ input \in Pairs \/ input \in Quoted
        \/ input \in Directories \/ input \in Spawns
     /\ Init
  \/ input \in Texts \/ input \in Numbers \/ input \in Trees
MCSpec == MCInit /\ [][Next]_input

-----------------------------------------------------------------------------
(* JSON.                                                                    *)

\* A text is JSON if it reduces to one value: a key and its value are a member,
\* an array swallows its elements and an object its members from the left, and
\* closed brackets are a value.
Reductions ==
  { << <<"k", ":", "v">>, <<"m">> >>,
    << <<"[", "v", ",", "v">>, <<"[", "v">> >>, << <<"{", "m", ",", "m">>, <<"{", "m">> >>,
    << <<"[", "]">>, <<"v">> >>, << <<"[", "v", "]">>, <<"v">> >>,
    << <<"{", "}">>, <<"v">> >>, << <<"{", "m", "}">>, <<"v">> >> }

Redexes(t) == {<<i, r>> \in (DOMAIN t) \X Reductions :
                 /\ i + Len(r[1]) - 1 <= Len(t)
                 /\ SubSeq(t, i, i + Len(r[1]) - 1) = r[1]}

RECURSIVE ReducesToValue(_)
ReducesToValue(t) ==
  \/ t = <<"v">>
  \/ /\ Redexes(t) # {}
     /\ LET redex == CHOOSE x \in Redexes(t) : TRUE
            i     == redex[1]
            r     == redex[2]
        IN  ReducesToValue(SubSeq(t, 1, i - 1) \o r[2] \o SubSeq(t, i + Len(r[1]), Len(t)))

Symbols(tokens) ==
  LET solid == SelectSeq(tokens, LAMBDA token : token # <<LineFeed>>) IN
  [i \in DOMAIN solid |->
     CASE solid[i] = <<OpenArray>>   -> "["
       [] solid[i] = <<CloseArray>>  -> "]"
       [] solid[i] = <<OpenObject>>  -> "{"
       [] solid[i] = <<CloseObject>> -> "}"
       [] solid[i] = <<Comma>>       -> ","
       [] solid[i] = <<Colon>>       -> ":"
       [] solid[i] = S /\ i < Len(solid) /\ solid[i + 1] = <<Colon>> -> "k"
       [] OTHER -> "v"]

\* '-'? (0 | [1-9][0-9]*) ('.' [0-9]+)? ([Ee] [+-]? [0-9]+)?
Digits(s) == s # <<>> /\ \A i \in DOMAIN s : s[i] \in Zero .. Zero + 9
Whole(s)  == Digits(s) /\ (Head(s) # Zero \/ Len(s) = 1)
Fraction(s) == s = <<>> \/ (Head(s) = Dot /\ Digits(Tail(s)))
Power(s)    == \/ s = <<>>
               \/ /\ Head(s) \in {69, 101}
                  /\ \/ Digits(Tail(s))
                     \/ Len(s) > 1 /\ s[2] \in {Plus, Minus} /\ Digits(Tail(Tail(s)))
IsNumber(s) ==
  LET m == IF Head(s) = Minus THEN Tail(s) ELSE s IN
  \E i \in 1 .. Len(m) : \E j \in i .. Len(m) :
    Whole(SubSeq(m, 1, i)) /\ Fraction(SubSeq(m, i + 1, j)) /\ Power(SubSeq(m, j + 1, Len(m)))

\* The parser takes a text exactly if it is JSON: brackets match, commas and
\* colons are where they belong, a number follows the pattern its comment
\* gives, and nothing but white space comes before or behind (json_decode).
JsonAccepts ==
  /\ input.kind = "text" =>
       (json_decode(FlattenSeq(input.tokens) \o <<0>>).ok
          <=> ReducesToValue(Symbols(input.tokens)))
  /\ input.kind = "number" =>
       (json_decode(input.chars \o <<0>>).ok <=> IsNumber(input.chars))

\* What is printed, on one line or indented, is read as what it was, but for a
\* number no JSON text stands for, which becomes null (json_encode,
\* json_stringify, emit_number).
RECURSIVE Printable(_)
Printable(value) ==
  CASE value.tag = "number" -> IF value.number = Infinite(value.number.neg)
                                 THEN Leaf("null") ELSE value
    [] value.tag = "array"  -> Array([i \in DOMAIN value.elements |->
                                        Printable(value.elements[i])])
    [] value.tag = "object" -> Object([i \in DOMAIN value.members |->
                                  [key   |-> value.members[i].key,
                                   value |-> Printable(value.members[i].value)]])
    [] OTHER -> value
JsonRoundTrip ==
  LET ReadAs(text, value) == LET read == json_decode(text) IN
                             read.ok /\ read.value = Printable(value)
  IN  /\ input.kind = "tree" => /\ ReadAs(json_encode(input.tree), input.tree)
                                /\ ReadAs(json_stringify(input.tree, input.space), input.tree)
      /\ input.kind = "number" =>
           LET read == json_decode(input.chars \o <<0>>) IN
           read.ok => ReadAs(json_encode(read.value), read.value)

\* Every valid string goes through its literal unchanged: the parser's
\* "Control characters are not allowed in string literals" (json.c) holds of
\* what the printer writes.
EveryStringReadsBack == input.kind = "quoted" => ReadsBack(input.string)

=============================================================================
