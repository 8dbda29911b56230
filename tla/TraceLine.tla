----------------------------- MODULE TraceLine -----------------------------
(***************************************************************************)
(* How the pager's trace driver reads one line of a trace                  *)
(* (PAGE_HW/src/main.c): its tokens, and the numbers, names and targets    *)
(* among them.  A text is a sequence of characters; a uint64_t or an       *)
(* sf_word_t has as many values as WORDS says, and of an sf_word_t half of *)
(* them are negative.                                                      *)
(***************************************************************************)
EXTENDS Integers, Sequences, FiniteSets, SequencesExt

CONSTANTS HALF,         \* 2^63
          MAX_NAME_LENGTH, MAX_TOKENS,
          TypedTokens    \* tokens somebody may type

WORDS == 2 * HALF

\* What a text is read as: the set of one thing, or of none if it is refused.
Refused == {}

Digits  == <<"0", "1", "2", "3", "4", "5", "6", "7", "8", "9", "a", "b", "c", "d", "e", "f">>
SPACE   == " "
Letters == {"a", "b", "c", "r", "w", "x"}      \* enough of them

IsDigit(c, base) == \E v \in 1 .. base : Digits[v] = c

TokenChars == {Digits[v] : v \in 1 .. 16} \cup Letters \cup {"_", "+", "-"}

ASSUME TraceLineAssumption ==
  /\ {HALF, MAX_NAME_LENGTH, MAX_TOKENS} \subseteq Nat \ {0}
  /\ TypedTokens \subseteq Seq(TokenChars) \ {<< >>}

-----------------------------------------------------------------------------
(* Numbers.                                                                *)

StartsWith(t, c) == t # << >> /\ t[1] = c

\* The base strtoull and strtoll take when they are given 0: a 0 in front means octal.
\* Mutant: base 10.
BaseTen(t) == 10

Base(t) ==
  IF ~ StartsWith(t, "0") THEN 10
  ELSE IF Len(t) > 2 /\ t[2] = "x" /\ IsDigit(t[3], 16) THEN 16 ELSE 8

\* The number that the first i digits are.
DigitOf(c) == CHOOSE v \in 0 .. 15 : Digits[v + 1] = c
Value(digits, base) ==
  LET value[i \in 0 .. Len(digits)] ==
        IF i = 0 THEN 0 ELSE value[i - 1] * base + DigitOf(digits[i])
  IN  value

\* strtoull, strtoll without the sign: refused are a text that is not all digits (*end)
\* and a number above the limit (errno).
Magnitude(t, limit) ==
  LET base   == Base(t)
      digits == IF base = 16 THEN SubSeq(t, 3, Len(t)) ELSE t
      value  == Value(digits, base)[Len(digits)]
  IN  IF /\ digits # << >> /\ \A i \in DOMAIN digits : IsDigit(digits[i], base)
         /\ value <= limit
      THEN {value} ELSE Refused

Unsigned(t) == IF StartsWith(t, "+") THEN Tail(t) ELSE t

parse_u64(t) ==
  IF StartsWith(t, "-") THEN Refused ELSE Magnitude(Unsigned(t), WORDS - 1)

parse_word(t) ==
  IF StartsWith(t, "-")
  THEN {-m : m \in Magnitude(Tail(t), HALF)}
  ELSE Magnitude(Unsigned(t), HALF - 1)

-----------------------------------------------------------------------------
(* Names, targets, tokens.                                                 *)

valid_name(t) ==
  /\ t # << >> /\ t[1] \in Letters /\ Len(t) <= MAX_NAME_LENGTH
  /\ \A i \in DOMAIN t : t[i] \in Letters \cup {"_"} \/ IsDigit(t[i], 10)

\* NAME, NAME+OFFSET, or an absolute address; start has the address of each known name.
parse_target(t, start) ==
  LET plus   == SelectInSeq(t, LAMBDA c : c = "+")
      name   == IF plus = 0 THEN t ELSE SubSeq(t, 1, plus - 1)
      offset == IF plus = 0 THEN {0} ELSE parse_u64(SubSeq(t, plus + 1, Len(t)))
  IN  IF IsDigit(t[1], 10) THEN parse_u64(t)
      ELSE IF name \notin DOMAIN start \/ Len(name) > MAX_NAME_LENGTH THEN Refused
      ELSE {(start[name] + n) % WORDS : n \in offset}

\* A comment is cut off; what stands between spaces is a token.
\* Mutant: the comment is looked for among the tokens.
Uncut(line) == line

WithoutComment(line) ==
  LET hash == SelectInSeq(line, LAMBDA c : c = "#")
  IN  IF hash = 0 THEN line ELSE SubSeq(line, 1, hash - 1)

\* strtok takes the next token, from the next character that is no space ...
Begin(text, i) == SelectInSubSeq(text, i, Len(text), LAMBDA c : c # SPACE)

\* ... to the space behind it.
End(text, i) == SelectInSubSeq(text, i, Len(text), LAMBDA c : c = SPACE)

\* Where the tokens begin, one call after the other; 0 when there is no more.
Begins(text) ==
  LET begin[k \in 0 .. Len(text)] ==
        Begin(text, IF k = 0 THEN 1 ELSE End(text, begin[k - 1]))
  IN  begin

Tokens(line) ==
  LET text  == WithoutComment(line) \o <<SPACE>>
      begin == Begins(text)
      count == CHOOSE n \in 0 .. Len(text) :
                 begin[n] = 0 /\ \A k \in 0 .. n - 1 : begin[k] # 0
  IN  IF count > MAX_TOKENS THEN Refused
      ELSE {[k \in 1 .. count |-> SubSeq(text, begin[k - 1], End(text, begin[k - 1]) - 1)]}

-----------------------------------------------------------------------------
(* Properties.                                                             *)

\* A number as printf writes it.
Printed(n, base) ==
  LET text[k \in 0 .. n] ==
        IF k < base THEN <<Digits[k + 1]>>
        ELSE text[k \div base] \o <<Digits[(k % base) + 1]>>
  IN  text[n]

Decimal(n)     == IF n < 0 THEN <<"-">> \o Printed(-n, 10) ELSE Printed(n, 10)
Hexadecimal(n) == <<"0", "x">> \o Printed(n, 16)

\* Every number the driver prints - a start, a frame, a value - can be typed into a
\* trace as it is, and no number that has no room is taken for another one
\* (main.c:64-89, 284, 354).
NumbersComeBack ==
  /\ \A n \in 0 .. 2 * WORDS :
       LET meant == IF n < WORDS THEN {n} ELSE Refused
       IN  parse_u64(Decimal(n)) = meant /\ parse_u64(Hexadecimal(n)) = meant
  /\ \A n \in -WORDS .. WORDS :
       parse_word(Decimal(n)) = {n} \cap (-HALF .. HALF - 1)

\* Every name that alloc takes is a target, with and without an offset, whatever other
\* names there are (main.c:116-153) ...
NamesTyped ==
  {t \in UNION {[1 .. k -> {"a", "x", "0", "_", "+"}] : k \in 1 .. MAX_NAME_LENGTH + 1} :
     valid_name(t)}

NamesAreTargets ==
  LET start == [t \in NamesTyped |-> Len(t)]
  IN  \A t \in NamesTyped :
        /\ parse_target(t, start) = {Len(t) % WORDS}
        /\ \A n \in {0, 9, 10, WORDS - 1} \cap 0 .. WORDS - 1 :
             parse_target(t \o <<"+">> \o Hexadecimal(n), start) = {(Len(t) + n) % WORDS}

\* ... and the tokens of a line are those somebody typed, up to a comment.
Line(typed, gap) == FlattenSeq([j \in DOMAIN typed |-> gap \o typed[j]]) \o <<SPACE>>

TokensComeBack ==
  \A k \in 0 .. MAX_TOKENS + 1 :
    \A typed \in [1 .. k -> TypedTokens], gap \in {<<SPACE>>, <<SPACE, SPACE>>} :
      Tokens(Line(typed, gap) \o <<"#", "a", SPACE, "a">>) =
        IF k <= MAX_TOKENS THEN {typed} ELSE Refused

\* A trace means what its author typed.
ReadsAsTyped == NumbersComeBack /\ NamesAreTargets /\ TokensComeBack
=============================================================================
