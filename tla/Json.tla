-------------------------------- MODULE Json --------------------------------
(***************************************************************************)
(* source/json.cc: the JSON values, their text (String and Parse) and the  *)
(* binary form that the journal and the snapshot keep (Serialize and       *)
(* Deserialize).                                                           *)
(*                                                                         *)
(* A value is its kind and, but for null, its data: a truth value, a       *)
(* number, a text, a function from keys to values, a sequence of values.   *)
(***************************************************************************)
EXTENDS Text

CONSTANTS TrueByte, FalseByte  \* the first bytes of the objects kJsonTrue
                               \* and kJsonFalse in memory: see Cells

ASSUME BytesAssumption == {TrueByte, FalseByte} \subseteq 0..255

Null == <<"null">>
Boolean(b) == <<"boolean", b>>
Integer(n) == <<"integer", n>>
Float(x) == <<"float", x>>
String(s) == <<"string", s>>
Object(members) == <<"object", members>>
Array(items) == <<"array", items>>

Kind(value) == value[1]
Data(value) == value[2]

(* unordered_map::insert leaves a key alone that is there already.         *)
Put(members, key, value) == members @@ (key :> value)

(* Keys: in whatever order the hash table has them. *)
KeysOf(members) == SetToSeq(DOMAIN members)

(***************************************************************************)
(* String.                                                                 *)
(***************************************************************************)
Quoted(s) == <<Quote>> \o s \o <<Quote>>

Joined(parts) ==
  With(parts, LAMBDA ps :
    FlattenSeq([i \in DOMAIN ps |-> IF i = 1 THEN ps[i] ELSE <<",">> \o ps[i]]))

RECURSIVE TextOf(_)
ObjectText(members) ==
  LET keys == KeysOf(members)
      member(k) == Quoted(k) \o <<":">> \o TextOf(members[k])
  IN  <<"{">> \o Joined([i \in DOMAIN keys |-> member(keys[i])]) \o <<"}">>

ArrayText(items) ==
  <<"[">> \o Joined([i \in DOMAIN items |-> TextOf(items[i])]) \o <<"]">>

TextOf(value) ==
  CASE Kind(value) = "null" -> <<"null">>
    [] Kind(value) = "boolean" -> <<IF Data(value) THEN "true" ELSE "false">>
    [] Kind(value) = "integer" -> <<Numeral(Data(value))>>
    [] Kind(value) = "float" -> <<FloatNumeral(Data(value))>>
    [] Kind(value) = "string" -> Quoted(Data(value))
    [] Kind(value) = "object" -> ObjectText(Data(value))
    [] Kind(value) = "array" -> ArrayText(Data(value))

(***************************************************************************)
(* Parse.  A result is the value and the position after it; 0 stands for   *)
(* the exception, with what had been read by then.                         *)
(***************************************************************************)
Parsed(value, next) == [value |-> value, next |-> next]
Invalid == Parsed(Null, 0)

(* What may follow a word or a number: kValueBorder. *)
Borders(closing) == Whitespace \cup {",", closing}

Words == ("null" :> Null) @@ ("true" :> Boolean(TRUE)) @@ ("false" :> Boolean(FALSE))

Number(text) ==
  IF \E i \in DOMAIN text : text[i] \in DOMAIN FloatOf
  THEN Float(Atof(text)) ELSE Integer(Atoi(text))

RECURSIVE ParseValue(_, _, _), ParseMembers(_, _, _), ParseItems(_, _, _)
RECURSIVE MembersAfter(_, _, _), ItemsAfter(_, _, _)

(* The value that starts at i, inside of what closing ends.                *)
ParseValue(text, i, closing) ==
  LET ends(j) == j <= Len(text) /\ text[j] \in Borders(closing)
      quote == SelectInSubSeq(text, i + 1, Len(text), LAMBDA t : t = Quote)
      stop == SelectInSubSeq(text, i + 1, Len(text),
                             LAMBDA t : t \in Borders(closing))
  IN  CASE i = 0 -> Invalid
        [] i # 0 /\ text[i] \in DOMAIN Words /\ ends(i + 1) ->
             Parsed(Words[text[i]], i + 1)
        [] i # 0 /\ text[i] = Quote /\ quote # 0 ->
             Parsed(String(SubSeq(text, i + 1, quote - 1)), quote + 1)
        [] i # 0 /\ text[i] \in DOMAIN IntegerOf \cup DOMAIN FloatOf /\ stop # 0 ->
             Parsed(Number(SubSeq(text, i, stop - 1)), stop)
        [] i # 0 /\ text[i] = "{" -> ParseMembers(text, i + 1, <<>>)
        [] i # 0 /\ text[i] = "[" -> ParseItems(text, i + 1, <<>>)
        [] OTHER -> Invalid

(* The rest of an object from its next key on.  A comma asks for another   *)
(* key, and there is no object without one.                                *)
ParseMembers(text, i, members) ==
  LET opened == StringExpect(text, Quote, i)
      quote == IF opened = 0 THEN 0
               ELSE SelectInSubSeq(text, opened, Len(text), LAMBDA t : t = Quote)
      colon == IF quote = 0 THEN 0 ELSE StringExpect(text, ":", quote + 1)
      put(read) == IF read.next = 0 THEN Parsed(members, 0)
                   ELSE Parsed(Put(members, SubSeq(text, opened, quote - 1), read.value),
                               Skip(text, read.next))
  IN  With(With(ParseValue(text, Skip(text, colon), "}"), put),
           LAMBDA all : MembersAfter(text, all.next, all.value))

MembersAfter(text, next, members) ==
  CASE next # 0 /\ text[next] = "," -> ParseMembers(text, next + 1, members)
    [] next # 0 /\ text[next] = "}" -> Parsed(Object(members), next + 1)
    [] OTHER -> Parsed(Object(members), 0)

ParseItems(text, i, items) ==
  LET append(read) == IF read.next = 0 THEN Parsed(items, 0)
                      ELSE Parsed(Append(items, read.value), Skip(text, read.next))
  IN  With(With(ParseValue(text, Skip(text, i), "]"), append),
           LAMBDA all : ItemsAfter(text, all.next, all.value))

ItemsAfter(text, next, items) ==
  CASE next # 0 /\ text[next] = "," -> ParseItems(text, next + 1, items)
    [] next # 0 /\ text[next] = "]" -> Parsed(Array(items), next + 1)
    [] OTHER -> Parsed(Array(items), 0)

(* What comes after the closing bracket of a body is not looked at.        *)
ParseObject(text) ==
  LET opened == StringExpect(text, "{", 1)
  IN  IF opened = 0 THEN Parsed(Object(<<>>), 0) ELSE ParseMembers(text, opened, <<>>)

ParseArray(text) ==
  LET opened == StringExpect(text, "[", 1)
  IN  IF opened = 0 THEN Parsed(Array(<<>>), 0) ELSE ParseItems(text, opened, <<>>)

(***************************************************************************)
(* Serialize writes cells: a size, a text with its length, a kind, and the *)
(* bytes of a value.  For a boolean that is the first byte of one of the   *)
(* std::string objects kJsonTrue and kJsonFalse, not of a bool.            *)
(***************************************************************************)
Tag(value) == << <<"kind", Kind(value)>> >>

RECURSIVE Cells(_)
ObjectCells(members) ==
  LET keys == KeysOf(members)
      cells(k) == << <<"key", k>> >> \o Tag(members[k]) \o Cells(members[k])
  IN  << <<"size", Len(keys)>> >> \o FlattenSeq([i \in DOMAIN keys |-> cells(keys[i])])

ArrayCells(items) ==
  << <<"size", Len(items)>> >> \o
  FlattenSeq([i \in DOMAIN items |-> Tag(items[i]) \o Cells(items[i])])

Cells(value) ==
  CASE Kind(value) = "null" -> <<>>
    [] Kind(value) = "boolean" ->
         << <<"byte", IF Data(value) THEN TrueByte ELSE FalseByte>> >>
    [] Kind(value) \in {"integer", "float", "string"} -> <<value>>
    [] Kind(value) = "object" -> ObjectCells(Data(value))
    [] Kind(value) = "array" -> ArrayCells(Data(value))

(* An array inside an array has its kind written from the address 6: the   *)
(* process is killed.                                                      *)
RECURSIVE Kills(_)
Kills(value) ==
  CASE Kind(value) = "object" ->
         \E k \in DOMAIN Data(value) : Kills(Data(value)[k])
    [] Kind(value) = "array" ->
         \E i \in DOMAIN Data(value) :
           Kind(Data(value)[i]) = "array" \/ Kills(Data(value)[i])
    [] OTHER -> FALSE

RECURSIVE ReadValue(_, _, _), ReadMembers(_, _, _, _), ReadItems(_, _, _, _)

(* Deserialize: a value of a kind, from cell i on.                         *)
ReadValue(cells, i, kind) ==
  CASE kind = "null" -> Parsed(Null, i)
    [] kind = "boolean" -> Parsed(Boolean(cells[i][2] # 0), i + 1)
    [] kind \in {"integer", "float", "string"} -> Parsed(cells[i], i + 1)
    [] kind = "object" -> ReadMembers(cells, i + 1, cells[i][2], <<>>)
    [] kind = "array" -> ReadItems(cells, i + 1, cells[i][2], <<>>)

ReadMembers(cells, i, size, members) ==
  IF size = 0 THEN Parsed(Object(members), i)
  ELSE With(ReadValue(cells, i + 2, cells[i + 1][2]), LAMBDA read :
         ReadMembers(cells, read.next, size - 1, Put(members, cells[i][2], read.value)))

(* Mutant: a null is not put into the array. *)
ReadItemsButNull(cells, i, size, items) ==
  IF size = 0 THEN Parsed(Array(items), i)
  ELSE With(ReadValue(cells, i + 1, cells[i][2]), LAMBDA read :
         ReadItems(cells, read.next, size - 1,
                   IF read.value = Null THEN items ELSE Append(items, read.value)))

ReadItems(cells, i, size, items) ==
  IF size = 0 THEN Parsed(Array(items), i)
  ELSE With(ReadValue(cells, i + 1, cells[i][2]), LAMBDA read :
         ReadItems(cells, read.next, size - 1, Append(items, read.value)))

Serialized(object) == Cells(object)
Deserialized(cells) == ReadValue(cells, 1, "object").value
=============================================================================
