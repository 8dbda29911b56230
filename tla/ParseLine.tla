----------------------------- MODULE ParseLine -----------------------------
(***************************************************************************)
(* parseline of the shell (SHELL_HW/src/tsh.c): a command line cut into    *)
(* arguments.  A line is a sequence of characters, of which only the       *)
(* space, the quote, the ampersand and the newline matter.                 *)
(***************************************************************************)
EXTENDS Integers, Sequences, SequencesExt

SPACE     == " "
QUOTE     == "'"
AMPERSAND == "&"
NEWLINE   == "\n"
LETTER    == "a"      \* any other character

Chars == {SPACE, QUOTE, AMPERSAND, NEWLINE, LETTER}

CONSTANTS Words,      \* arguments somebody may type
          MaxArgs     \* bound: how many of them on a line

ASSUME ParseLineAssumption == Words \subseteq Seq(Chars) /\ MaxArgs \in Nat

\* strchr(buf, c): the first place of c in s from place i on, 0 when there is none.
strchr(s, c, i) == SelectInSubSeq(s, i, Len(s), LAMBDA x : x = c)

\* Mutant: one space at most.
SkipOneSpace(s, i) == IF i <= Len(s) /\ s[i] = SPACE THEN i + 1 ELSE i

\* while (*buf && *buf == ' ') buf++
SkipSpaces(s, i) ==
  LET j == SelectInSubSeq(s, i, Len(s), LAMBDA x : x # SPACE)
  IN  IF j = 0 THEN Len(s) + 1 ELSE j

\* An argument starts at place i, behind its quote if it has one, and ends before
\* the next quote or space.
Starts(s, i) == IF i <= Len(s) /\ s[i] = QUOTE THEN i + 1 ELSE i
Delim(s, i) ==
  strchr(s, IF i <= Len(s) /\ s[i] = QUOTE THEN QUOTE ELSE SPACE, Starts(s, i))

\* The argument at place i.
Argument(s, i) == SubSeq(s, Starts(s, i), Delim(s, i) - 1)

\* Where buf is when argc arguments have been cut off.
Bufs(s) ==
  LET buf[argc \in 0 .. Len(s)] ==
        SkipSpaces(s, IF argc = 0 THEN 1 ELSE Delim(s, buf[argc - 1]) + 1)
  IN  buf

\* Arguments are cut off as long as a delimiter follows.  What is left when none
\* does (the end of the line, or a quote that is never closed) is not an argument.
Arguments(s) ==
  LET buf  == Bufs(s)
      argc == CHOOSE n \in 0 .. Len(s) :
                Delim(s, buf[n]) = 0 /\ \A k \in 0 .. n - 1 : Delim(s, buf[k]) # 0
  IN  [k \in 1 .. argc |-> Argument(s, buf[k - 1])]

\* The last character, whatever it is, becomes a space; a last argument that
\* begins with an ampersand is dropped and asks for the background; a blank line
\* does too.
parseline(cmdline) ==
  LET buf  == [cmdline EXCEPT ![Len(cmdline)] = SPACE]
      argv == Arguments(buf)
      amp  == argv # << >> /\ Last(argv) # << >> /\ Last(argv)[1] = AMPERSAND
  IN  IF amp THEN [argv |-> Front(argv), bg |-> TRUE]
             ELSE [argv |-> argv, bg |-> argv = << >>]

-----------------------------------------------------------------------------
(* Properties.                                                             *)

\* The ways to type an argument: as it is, or in quotes.
Spellings(w) ==
  (IF w # << >> /\ ~Contains(w, SPACE) /\ w[1] # QUOTE THEN {w} ELSE {})
    \cup (IF Contains(w, QUOTE) THEN {} ELSE {<<QUOTE>> \o w \o <<QUOTE>>})

\* A line of these spellings with so many spaces before each.
Line(typed, gap) ==
  FlattenSeq([k \in DOMAIN typed |-> [g \in 1 .. gap |-> SPACE] \o typed[k]])

Asked(args) ==
  IF args # << >> /\ Last(args) # << >> /\ Last(args)[1] = AMPERSAND
  THEN [argv |-> Front(args), bg |-> TRUE]
  ELSE [argv |-> args, bg |-> args = << >>]

\* Whatever is typed, spaced and quoted as it may be, comes back as the same
\* arguments, and a quote that is never closed takes away only what follows it.
ParsesBack ==
  \A n \in 0 .. MaxArgs, gap \in 1 .. 2 :
    \A args \in [1 .. n -> Words] :
      \A typed \in {t \in [1 .. n -> UNION {Spellings(w) : w \in Words}] :
                      \A k \in 1 .. n : t[k] \in Spellings(args[k])} :
        LET line == Line(typed, gap)
        IN  /\ parseline(line \o <<NEWLINE>>) = Asked(args)
            /\ parseline(line \o <<SPACE, QUOTE>> \o <<LETTER, NEWLINE>>) = Asked(args)
=============================================================================
