---------------------------- MODULE HttpMessage ----------------------------
(***************************************************************************)
(* HTTP messages as source/http.cc prints and reads them, over the buffer  *)
(* of a TcpReader (source/tcp.cc).  A message arrives in pieces that may   *)
(* end anywhere, between the two characters of a line feed too: the parser *)
(* is resumed at the stage and the position it had come to.                *)
(***************************************************************************)
EXTENDS Text

CONSTANTS SizeBits,    \* the width of size_t: 64
          MaxHeaders,  \* kHttpMaxHeaderCount
          Methods,     \* the methods of GetMethod, but for INVALID_METHOD
          Reasons,     \* GetStatusString: the reason of every status in use
          LowerCase    \* StringToLower, for the words that it changes

ASSUME HttpAssumption ==
  /\ SizeBits \in Nat /\ IntBits <= SizeBits
  /\ MaxHeaders \in Nat /\ DOMAIN Reasons \subseteq Nat

LineFeed == <<"\r", "\n">>
Colon == <<":", " ">>
Protocol == <<"HTTP/1.1">>

Reader == [buffer |-> <<>>, base |-> 0, peak |-> 0, next |-> 0]

(***************************************************************************)
(* TcpReader: base_, peak_ and next_base_ count tokens of the buffer.      *)
(***************************************************************************)
Found(reader, token) == StringPosition(reader.buffer, token, reader.base + 1) # 0

(* Mutant: the delimiter is looked for behind what was searched before. *)
PeakForgets(reader, token) ==
  LET position == StringPosition(reader.buffer, token, reader.base + 1)
      last == Len(reader.buffer)
  IN  IF position = 0 THEN [reader EXCEPT !.base = last, !.peak = last, !.next = last]
      ELSE [reader EXCEPT !.peak = position - 1,
                          !.next = position - 1 + Len(token)]

Peak(reader, token) ==
  LET position == StringPosition(reader.buffer, token, reader.base + 1)
  IN  IF position = 0
      THEN [reader EXCEPT !.peak = reader.base, !.next = reader.base]
      ELSE [reader EXCEPT !.peak = position - 1,
                          !.next = position - 1 + Len(token)]

Tok(reader) == SubSeq(reader.buffer, reader.base + 1, reader.peak)

Advance(reader) == [reader EXCEPT !.base = reader.next, !.peak = reader.next]

(* What a size_t holds of an integer. *)
AsSize(n) == n % 2^SizeBits

(* Tok(length): as much of it as is there.  The sum of size_t may come out *)
(* before base_; of such a string the constructor throws length_error.     *)
TakenTo(reader, length) ==
  IF reader.base = Len(reader.buffer) THEN reader.base
  ELSE Min({AsSize(reader.base + length), Len(reader.buffer)})

Throws(reader, length) == TakenTo(reader, length) < reader.base

TokUpTo(reader, length) ==
  SubSeq(reader.buffer, reader.base + 1, TakenTo(reader, length))

Consume(reader, length) ==
  LET base == TakenTo(reader, length)
  IN  [reader EXCEPT !.base = base, !.peak = base, !.next = base]

(***************************************************************************)
(* HttpPacket, HttpRequest, HttpResponse.  The first line is three words;  *)
(* a header's name is kept in lower case and its last value counts.        *)
(***************************************************************************)
Lower(name) ==
  [i \in DOMAIN name |->
     IF name[i] \in DOMAIN LowerCase THEN LowerCase[name[i]] ELSE name[i]]

AddHeader(packet, name, value) ==
  [packet EXCEPT !.headers = (Lower(name) :> value) @@ @]

GetHeader(packet, name) ==
  IF name \in DOMAIN packet.headers THEN packet.headers[name] ELSE <<>>

(* Without a content length, or with one that is no number, none; one      *)
(* below zero is very large.                                               *)
ContentLength(packet) == AsSize(Atoi(GetHeader(packet, <<"content-length">>)))

Packet == [line |-> <<>>, headers |-> <<>>, body |-> <<>>]

(* The headers are printed in the order of their names.                    *)
HeaderOrder == << <<"authorization">>, <<"content-length">>, <<"content-type">> >>

PacketText(packet) ==
  LET names == SelectSeq(HeaderOrder, LAMBDA n : n \in DOMAIN packet.headers)
      header(n) == n \o Colon \o packet.headers[n] \o LineFeed
      line == packet.line
  IN  line[1] \o <<Space>> \o line[2] \o <<Space>> \o line[3] \o LineFeed
        \o FlattenSeq([i \in DOMAIN names |-> header(names[i])])
        \o LineFeed \o packet.body

WithBody(packet, body) ==
  AddHeader([packet EXCEPT !.body = body], <<"content-length">>, <<Numeral(Len(body))>>)

(***************************************************************************)
(* HttpConnection.  Its stage is "line" through METHOD, URL and PROTOCOL   *)
(* of a request, PROTOCOL, STATUS and MESSAGE of a response.  It is        *)
(* "thrown" when an exception left the parser: nothing catches it, and the *)
(* process ends.                                                           *)
(***************************************************************************)
Connection == [stage |-> "line", count |-> 0, reader |-> Reader, packet |-> Packet]

WellFormedUrl(url) ==
  url # <<>> /\ url[1] = "/" /\ StringPosition(url, <<"/", "/">>, 1) = 0

(* May word come next in the first line?                                   *)
Accepts(role, line, word) ==
  IF role = "request"
  THEN CASE Len(line) = 0 -> word \in Methods
         [] Len(line) = 1 -> WellFormedUrl(word)
         [] Len(line) = 2 -> word = Protocol
  ELSE CASE Len(line) = 0 -> word = Protocol
         [] Len(line) = 1 -> Atoi(word) \in DOMAIN Reasons
         [] Len(line) = 2 -> word = Reasons[Atoi(line[2])]

LineStep(role, c) ==
  LET delimiter == IF Len(c.packet.line) < 2 THEN <<Space>> ELSE LineFeed
      reader == Peak(c.reader, delimiter)
      line == Append(c.packet.line, Tok(reader))
  IN  IF ~Found(c.reader, delimiter) THEN [c EXCEPT !.reader = reader]
      ELSE IF ~Accepts(role, c.packet.line, Tok(reader))
      THEN [c EXCEPT !.reader = Advance(reader), !.stage = "failed"]
      ELSE [c EXCEPT !.reader = Advance(reader), !.packet.line = line,
                     !.stage = IF Len(line) = 3 THEN "headers" ELSE "line"]

WithHeader(c, reader, name, value) ==
  [c EXCEPT !.reader = reader, !.packet = AddHeader(c.packet, name, value),
            !.count = c.count + 1]

(* One round of the loop over the headers: an empty line ends them.        *)
HeaderStep(c) ==
  LET reader == Peak(c.reader, LineFeed)
      header == Tok(reader)
      colon == StringPosition(header, Colon, 1)
      name == SubSeq(header, 1, colon - 1)
      value == SubSeq(header, colon + 2, Len(header))
  IN  IF c.count > MaxHeaders THEN [c EXCEPT !.stage = "failed"]
      ELSE IF ~Found(c.reader, LineFeed) THEN [c EXCEPT !.reader = reader]
      ELSE IF header = <<>>
      THEN [c EXCEPT !.reader = Advance(reader), !.stage = "body"]
      ELSE IF colon <= 1 \/ value = <<>>
      THEN [c EXCEPT !.reader = Advance(reader), !.stage = "failed"]
      ELSE WithHeader(c, Advance(reader), name, value)

(* Mutant: a body is complete when one piece is. *)
BodyStepInOnePiece(c) ==
  LET length == ContentLength(c.packet)
      piece == TokUpTo(c.reader, length)
  IN  [c EXCEPT !.reader = Consume(c.reader, length), !.packet.body = @ \o piece,
                !.stage = IF Len(piece) < length THEN "body" ELSE "end"]

BodyStep(c) ==
  LET length == ContentLength(c.packet)
      missing == AsSize(length - Len(c.packet.body))
      body == c.packet.body \o TokUpTo(c.reader, missing)
  IN  IF length = 0 THEN [c EXCEPT !.stage = "end"]
      ELSE IF Throws(c.reader, missing) THEN [c EXCEPT !.stage = "thrown"]
      ELSE [c EXCEPT !.reader = Consume(c.reader, missing), !.packet.body = body,
                     !.stage = IF Len(body) < length THEN "body" ELSE "end"]

Step(role, c) ==
  CASE c.stage = "line" -> LineStep(role, c)
    [] c.stage = "headers" -> HeaderStep(c)
    [] c.stage = "body" -> BodyStep(c)
    [] OTHER -> c

(* ParseRequest, ParseResponse: as far as the buffer goes.  Every step but *)
(* the last two consumes a delimiter.                                      *)
Parse(role, c) ==
  LET after[n \in Nat] == IF n = 0 THEN c
                     ELSE With(after[n - 1], LAMBDA d : Step(role, d))
  IN  after[Len(c.reader.buffer) - c.reader.base + 2]

(* A piece comes in.                                                       *)
Resume(role, c, piece) == Parse(role, [c EXCEPT !.reader.buffer = @ \o piece])
=============================================================================
