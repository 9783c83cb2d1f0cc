------------------------------ MODULE JsonText ------------------------------
(***************************************************************************)
(* JSON text (src/src/json.c): the recursive descent parser and the two    *)
(* printers.  The three literals are characters of their own, and a number *)
(* is the decimal number it stands for, zeros stripped: what strtod and    *)
(* "%.16g" preserve of the numbers of at most 15 digits.                   *)
(***************************************************************************)
EXTENDS JsonStrings, SequencesExt

null == 256
true == 257
false == 258

Space == 32
Plus  == 43
Comma == 44
Minus == 45
Dot   == 46
Colon == 58
OpenArray   == 91
CloseArray  == 93
OpenObject  == 123
CloseObject == 125
Exponent    == {69, 101}
LineFeed    == 10

is_space(c) == c \in {9, LineFeed, 13, Space}

RECURSIVE skip_space(_, _)
skip_space(t, at) == IF is_space(t[at]) THEN skip_space(t, at + 1) ELSE at

-----------------------------------------------------------------------------
(* Numbers: 0.d1d2... * 10^exp, with the sign strtod keeps even on a zero.   *)

RECURSIVE skip_digits(_, _)
skip_digits(t, at) == IF is_digit(t[at]) THEN skip_digits(t, at + 1) ELSE at

DigitsOf(chars) == SelectSeq([i \in DOMAIN chars |-> chars[i] - Zero], LAMBDA d : d \in 0 .. 9)
CharsOf(digits) == [i \in DOMAIN digits |-> digits[i] + Zero]
Zeros(n)        == [i \in 1 .. n |-> 0]

Infinite(neg) == [neg |-> neg, digits |-> <<>>, exp |-> 400]
Nought(neg)   == [neg |-> neg, digits |-> <<>>, exp |-> 0]

\* The double nearest to digits * 10^exp, a point before the first digit:
\* overflow is infinite and underflow is 0 (to the power of ten).
strtod(neg, digits, exp) ==
  LET nonzero == {i \in DOMAIN digits : digits[i] # 0}
      first   == CHOOSE i \in nonzero : \A k \in nonzero : i <= k
      last    == CHOOSE i \in nonzero : \A k \in nonzero : k <= i
  IN  IF nonzero = {} \/ exp - first < -324 THEN Nought(neg)
      ELSE IF exp - first > 308 THEN Infinite(neg)
      ELSE [neg |-> neg, digits |-> SubSeq(digits, first, last), exp |-> exp - first + 1]

parse_number(t, at) ==
  LET whole == IF t[at] = Minus THEN at + 1 ELSE at
      point == IF t[whole] = Zero THEN whole + 1 ELSE skip_digits(t, whole)
      exp   == IF t[point] = Dot THEN skip_digits(t, point + 1) ELSE point
      power == IF t[exp + 1] \in {Plus, Minus} THEN exp + 2 ELSE exp + 1
      end   == IF t[exp] \in Exponent THEN skip_digits(t, power) ELSE exp
      tens[i \in power - 1 .. end - 1] ==
        IF i = power - 1 THEN 0 ELSE 10 * tens[i - 1] + (t[i] - Zero)
      scale == IF t[exp] \notin Exponent THEN 0
               ELSE IF t[power - 1] = Minus THEN -tens[end - 1] ELSE tens[end - 1]
  IN  IF \/ ~is_digit(t[whole])
         \/ t[point] = Dot /\ ~is_digit(t[point + 1])
         \/ t[exp] \in Exponent /\ ~is_digit(t[power])
        THEN Failure
        ELSE Success(end, strtod(whole > at, DigitsOf(SubSeq(t, whole, exp - 1)),
                                 point - whole + scale))

\* What "%.16g" prints of a number of at most 16 digits.
printf_g(num) ==
  LET n    == Len(num.digits)
      X    == num.exp - 1
      sign == IF num.neg THEN <<Minus>> ELSE <<>>
      fraction(digits) == IF digits = <<>> THEN <<>> ELSE <<Dot>> \o CharsOf(digits)
      power(e) == CharsOf(IF e < 100 THEN <<e \div 10, e % 10>>
                                     ELSE <<e \div 100, (e \div 10) % 10, e % 10>>)
      plain(digits) ==
        IF X < -4 \/ X >= 16 THEN
          CharsOf(<<Head(digits)>>) \o fraction(Tail(digits))
            \o <<101, IF X < 0 THEN Minus ELSE Plus>> \o power(IF X < 0 THEN -X ELSE X)
        ELSE IF X < 0 THEN <<Zero>> \o fraction(Zeros(-1 - X) \o digits)
        ELSE IF n <= num.exp THEN CharsOf(digits \o Zeros(num.exp - n))
        ELSE CharsOf(SubSeq(digits, 1, num.exp)) \o fraction(SubSeq(digits, num.exp + 1, n))
  IN  CASE num = Infinite(num.neg) -> sign \o <<105, 110, 102>>
        [] num = Nought(num.neg)   -> sign \o <<Zero>>
        [] num.digits # <<>>       -> sign \o plain(num.digits)

number_is_valid(chars) ==
  LET num == parse_number(chars \o <<0, 0>>, 1) IN num.ok /\ num.at = Len(chars) + 1

\* Mutant of emit_number: "inf" is printed like any number.
emit_number_Unchecked(num) == printf_g(num)

emit_number(num) == LET buf == printf_g(num) IN IF number_is_valid(buf) THEN buf ELSE <<null>>

-----------------------------------------------------------------------------
(* Values: trees by tag; a member of an object is its key and its value.     *)

Leaf(tag)    == [tag |-> tag]
Bool(b)      == [tag |-> "bool", bool |-> b]
String(s)    == [tag |-> "string", string |-> s]
Number(num)  == [tag |-> "number", number |-> num]
Array(elements)  == [tag |-> "array", elements |-> elements]
Object(members)  == [tag |-> "object", members |-> members]

\* Mutant of list_goes_on: what stands between two elements is skipped unseen.
list_goes_on_Unseen(t, at) == at < Len(t)

\* Behind an element or a member and the space that follows it.
list_goes_on(t, at) == t[at] = Comma

RECURSIVE parse_value(_, _), parse_list(_, _, _, _)

keyed(key, value) ==
  IF value.ok THEN Success(value.at, [key |-> key, value |-> value.value]) ELSE Failure

\* The member of an object that begins with this key.
parse_member(t, key) ==
  LET colon == skip_space(t, key.at) IN
  IF ~key.ok THEN Failure
  ELSE IF t[colon] # Colon THEN Failure
  ELSE keyed(key.value, parse_value(t, skip_space(t, colon + 1)))

\* An element or a member was read behind those done: the bracket that closes,
\* or a comma and the next one.
after_item(t, item, done, close) ==
  LET next == skip_space(t, item.at) IN
  IF ~item.ok THEN Failure
  ELSE IF t[next] = close THEN Success(next + 1, Append(done, item.value))
  ELSE IF list_goes_on(t, next)
    THEN parse_list(t, skip_space(t, next + 1), Append(done, item.value), close)
  ELSE Failure

parse_list(t, at, done, close) ==
  after_item(t, IF close = CloseArray THEN parse_value(t, at)
                                      ELSE parse_member(t, parse_string(t, at)), done, close)

\* An array or an object, by the bracket that closes it.
parse_brackets(t, at, close) ==
  LET first == skip_space(t, at + 1) IN
  IF t[first] = close THEN Success(first + 1, <<>>) ELSE parse_list(t, first, <<>>, close)

\* What was parsed, as the value its first character says it is.
valued(first, parsed) ==
  IF ~parsed.ok THEN Failure
  ELSE Success(parsed.at, CASE first = null         -> Leaf("null")
                            [] first \in {true, false} -> Bool(first = true)
                            [] first = Quote        -> String(parsed.value)
                            [] first = OpenArray    -> Array(parsed.value)
                            [] first = OpenObject   -> Object(parsed.value)
                            [] OTHER                -> Number(parsed.value))

parse_value(t, at) ==
  valued(t[at], CASE t[at] \in {null, true, false} -> Success(at + 1, <<>>)
                  [] t[at] = Quote      -> parse_string(t, at)
                  [] t[at] = OpenArray  -> parse_brackets(t, at, CloseArray)
                  [] t[at] = OpenObject -> parse_brackets(t, at, CloseObject)
                  [] OTHER              -> parse_number(t, at))

\* Nothing but space may follow the value.
whole_text(t, parsed) ==
  IF ~parsed.ok THEN Failure ELSE IF t[skip_space(t, parsed.at)] # 0 THEN Failure ELSE parsed

json_decode(t) == whole_text(t, parse_value(t, skip_space(t, 1)))

RECURSIVE emit_value(_), emit_value_indented(_, _, _)

Join(texts, separator) ==
  FlattenSeq([i \in DOMAIN texts |-> (IF i = 1 THEN <<>> ELSE separator) \o texts[i]])

emit_leaf(value) ==
  CASE value.tag = "null"   -> <<null>>
    [] value.tag = "bool"   -> <<IF value.bool THEN true ELSE false>>
    [] value.tag = "string" -> emit_string(value.string)
    [] value.tag = "number" -> emit_number(value.number)

emit_value(value) ==
  CASE value.tag = "array" ->
         <<OpenArray>>
           \o Join([i \in DOMAIN value.elements |-> emit_value(value.elements[i])], <<Comma>>)
           \o <<CloseArray>>
    [] value.tag = "object" ->
         <<OpenObject>>
           \o Join([i \in DOMAIN value.members |->
                      emit_string(value.members[i].key) \o <<Colon>>
                        \o emit_value(value.members[i].value)], <<Comma>>)
           \o <<CloseObject>>
    [] OTHER -> emit_leaf(value)

Indent(space, level) == FlattenSeq([i \in 1 .. level |-> space])

\* The lines of an array or an object, one level in from its brackets.
emit_indented(open, lines, close, space, level) ==
  IF lines = <<>> THEN <<open, close>>
  ELSE <<open, LineFeed>>
         \o Join([i \in DOMAIN lines |-> Indent(space, level + 1) \o lines[i]],
                 <<Comma, LineFeed>>)
         \o <<LineFeed>> \o Indent(space, level) \o <<close>>

emit_value_indented(value, space, level) ==
  CASE value.tag = "array" ->
         emit_indented(OpenArray,
           [i \in DOMAIN value.elements |->
              emit_value_indented(value.elements[i], space, level + 1)],
           CloseArray, space, level)
    [] value.tag = "object" ->
         emit_indented(OpenObject,
           [i \in DOMAIN value.members |->
              emit_string(value.members[i].key) \o <<Colon, Space>>
                \o emit_value_indented(value.members[i].value, space, level + 1)],
           CloseObject, space, level)
    [] OTHER -> emit_leaf(value)

json_encode(value)           == emit_value(value) \o <<0>>
json_stringify(value, space) == emit_value_indented(value, space, 0) \o <<0>>

=============================================================================
