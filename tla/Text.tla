-------------------------------- MODULE Text --------------------------------
(***************************************************************************)
(* The string functions of source/utils.cc that the HTTP and the JSON      *)
(* parser are built on.  A text is a sequence of tokens; a token is a      *)
(* character that a parser looks for, or a word it never looks into.       *)
(***************************************************************************)
EXTENDS Integers, SequencesExt, FiniteSetsExt, TLC

CONSTANTS Numbers,   \* bound: the integers that occur in a text
          IntBits    \* the width of the int that atoi returns: 32

ASSUME TextAssumption ==
  Numbers \subseteq Int /\ IsFiniteSet(Numbers) /\ IntBits \in Nat \ {0}

(* Op of x; TLC evaluates x once. *)
With(x, Op(_)) == CHOOSE y \in {Op(z) : z \in {x}} : TRUE

Quote == "\""
Space == " "
(* kStringWss; TLA+ has no escape for two of its characters.               *)
Whitespace == {" ", "\t", "\n", "\r", "backspace", "bell"}

(* Where token occurs first in text from start on, 0 if it does not.       *)
StringPosition(text, token, start) ==
  LET found == {i \in start..(Len(text) - Len(token) + 1) :
                  SubSeq(text, i, i + Len(token) - 1) = token}
  IN  IF found = {} THEN 0 ELSE Min(found)

(* The first token from i on that is not white space.  Positions are       *)
(* strict: there is nothing after position 0.                              *)
Skip(text, i) ==
  IF i = 0 THEN 0
  ELSE SelectInSubSeq(text, i, Len(text), LAMBDA t : t \notin Whitespace)

(* StringExpect: past white space the next token must be what.             *)
StringExpect(text, what, i) ==
  LET next == Skip(text, i)
  IN  IF next # 0 /\ text[next] = what THEN next + 1 ELSE 0

(* StringExplode: the non-empty parts between delimiters.                  *)
StringExplode(text, delimiter) ==
  LET grow(parts, t) == IF t = delimiter THEN Append(parts, <<>>)
                        ELSE Append(Front(parts), Append(Last(parts), t))
  IN  SelectSeq(FoldLeft(grow, << <<>> >>, text), LAMBDA part : part # <<>>)

(* A number is one token, as the standard library prints it; a floating    *)
(* point number is printed with a dot and six digits.  A floating point    *)
(* value counts thirds of the last digit printed, so that printing rounds. *)
Numeral(n) == ToString(n)
FloatNumeral(x) == ToString((x + 1) \div 3) \o ".0"

IntegerOf == [t \in {Numeral(n) : n \in Numbers} |->
                CHOOSE n \in Numbers : Numeral(n) = t]
FloatOf == [t \in {FloatNumeral(3 * n) : n \in Numbers} |->
              CHOOSE x \in {3 * n : n \in Numbers} : FloatNumeral(x) = t]

(* The int that is left of an integer of more bits. *)
AsInt(n) == ((n + 2^(IntBits - 1)) % 2^IntBits) - 2^(IntBits - 1)

(* atoi and atof read the numeral that a text begins with; 0 without one.  *)
Atoi(text) ==
  IF text # <<>> /\ text[1] \in DOMAIN IntegerOf THEN AsInt(IntegerOf[text[1]])
  ELSE 0

Atof(text) ==
  IF text # <<>> /\ text[1] \in DOMAIN FloatOf THEN FloatOf[text[1]] ELSE 0
=============================================================================
