------------------------- MODULE HttpMessageProofs -------------------------
(***************************************************************************)
(* Why it does not matter how a message is cut (HttpMessage.tla): what a   *)
(* step finds in the buffer is still there when the buffer goes on, so a   *)
(* step before a piece comes in is the step after it, or, for a body that  *)
(* is not all there, is made up for by the next step.  Steps end, since    *)
(* each reads on or is the last, and Parse takes steps enough; hence all   *)
(* of the steps that Parse takes before a piece comes in can be left out.  *)
(***************************************************************************)
EXTENDS HttpMessage, SequenceTheorems, WellFoundedInduction, TLAPS

(* A set that contains 0 and with n also n + 1. *)
LEMMA Climb ==
  ASSUME NEW S, 0 \in S, \A n \in Nat : n \in S => n + 1 \in S
  PROVE  \A n \in Nat : n \in S
<1> DEFINE Missing == {n \in Nat : n \notin S}
<1> SUFFICES ASSUME Missing # {} PROVE FALSE
  OBVIOUS
<1>1. PICK m \in Missing : \A y \in Missing : <<y, m>> \notin OpToRel(<, Nat)
  <2>1. Missing \subseteq Nat
    OBVIOUS
  <2> HIDE DEF Missing
  <2> QED BY <2>1, NatLessThanWellFounded, WFMin, Zenon
<1>2. m \in Nat /\ m # 0
  OBVIOUS
<1>3. m - 1 \in Nat /\ m - 1 < m /\ (m - 1) + 1 = m
  BY <1>2
<1>4. m - 1 \in Missing
  BY <1>3
<1>5. <<m - 1, m>> \in OpToRel(<, Nat)
  BY <1>2, <1>3, Zenon DEF OpToRel
<1> QED BY <1>1, <1>4, <1>5

(* The connection after each number of steps.                              *)
Run(role, c) ==
  LET after[n \in Nat] == IF n = 0 THEN c
                     ELSE With(after[n - 1], LAMBDA d : Step(role, d))
  IN  after

IsRun(role, c, f) == f = [n \in Nat |-> IF n = 0 THEN c ELSE Step(role, f[n - 1])]

LEMMA WithIs ==
  ASSUME NEW role, NEW x
  PROVE  With(x, LAMBDA d : Step(role, d)) = Step(role, x)
BY Zenon DEF With

LEMMA ParseIsRun ==
  ASSUME NEW role, NEW c
  PROVE  Parse(role, c) = Run(role, c)[Len(c.reader.buffer) - c.reader.base + 2]
BY Zenon DEF Parse, Run

LEMMA RunUnfolds ==
  ASSUME NEW role, NEW c,
         NEW f, IsRun(role, c, f)
  PROVE  IsRun(role, c, Run(role, c))
<1> DEFINE Written(g) == [n \in Nat |-> IF n = 0 THEN c ELSE With(g[n - 1], LAMBDA d : Step(role, d))]
           Meant(g) == [n \in Nat |-> IF n = 0 THEN c ELSE Step(role, g[n - 1])]
<1>1. ASSUME NEW g PROVE Written(g) = Meant(g)
  <2>1. ASSUME NEW n \in Nat
        PROVE  (IF n = 0 THEN c ELSE With(g[n - 1], LAMBDA d : Step(role, d)))
                 = (IF n = 0 THEN c ELSE Step(role, g[n - 1]))
    BY WithIs, Zenon
  <2> QED BY <2>1, Zenon
<1>2. Run(role, c) = CHOOSE g : g = Written(g)
  BY Zenon DEF Run
<1>3. f = Written(f)
  BY <1>1, Zenon DEF IsRun
<1> HIDE DEF Written
<1>4. Run(role, c) = Written(Run(role, c))
  BY <1>2, <1>3, Zenon
<1> QED BY <1>1, <1>4, Zenon DEF IsRun

(* There is such a function: every finite beginning of it exists, and two  *)
(* of them agree as far as both go.                                        *)
LEMMA RunExists ==
  ASSUME NEW role, NEW c
  PROVE  \E f : IsRun(role, c, f)
<1> DEFINE Begins(f, n) == f[0] = c /\ \A m \in 1..n : f[m] = Step(role, f[m - 1])
<1>1. \A n \in Nat : \E f : Begins(f, n)
  <2> DEFINE S == {n \in Nat : \E f : Begins(f, n)}
  <2>1. 0 \in S
    <3>1. Begins([m \in Nat |-> c], 0)
      OBVIOUS
    <3> QED BY <3>1
  <2>2. ASSUME NEW n \in Nat, n \in S PROVE n + 1 \in S
    <3>1. PICK f : Begins(f, n)
      BY <2>2
    <3> DEFINE g == [m \in Nat |-> IF m <= n THEN f[m] ELSE Step(role, f[n])]
    <3>2. g[0] = c
      BY <3>1
    <3>3. ASSUME NEW m \in 1..(n + 1) PROVE g[m] = Step(role, g[m - 1])
      <4>1. CASE m = n + 1
        <5>1. g[m] = Step(role, f[n]) /\ g[m - 1] = f[n]
          BY <4>1
        <5> QED BY <5>1
      <4>2. CASE m # n + 1
        <5>1. m \in 1..n /\ g[m] = f[m] /\ g[m - 1] = f[m - 1]
          BY <4>2
        <5> QED BY <3>1, <5>1
      <4> QED BY <4>1, <4>2
    <3>4. Begins(g, n + 1)
      BY <3>2, <3>3
    <3> HIDE DEF Begins, g
    <3> QED BY <3>4
  <2>3. \A n \in Nat : n \in S
    <3> HIDE DEF S
    <3> QED BY <2>1, <2>2, Climb
  <2> QED BY <2>3
<1>2. ASSUME NEW f, NEW g, NEW n \in Nat, Begins(f, n), Begins(g, n)
      PROVE  f[n] = g[n]
  <2> DEFINE S == {m \in Nat : m <= n => f[m] = g[m]}
  <2>1. 0 \in S
    BY <1>2
  <2>2. ASSUME NEW m \in Nat, m \in S PROVE m + 1 \in S
    <3> SUFFICES ASSUME m + 1 <= n PROVE f[m + 1] = g[m + 1]
      OBVIOUS
    <3>1. m + 1 \in 1..n /\ (m + 1) - 1 = m /\ f[m] = g[m]
      BY <2>2
    <3>2. f[m + 1] = Step(role, f[m]) /\ g[m + 1] = Step(role, g[m])
      BY <1>2, <3>1
    <3> QED BY <3>1, <3>2
  <2>3. n \in S
    <3> HIDE DEF S
    <3> QED BY <2>1, <2>2, Climb
  <2> QED BY <2>3
<1> DEFINE begin(n) == CHOOSE f : Begins(f, n)
           h == [n \in Nat |-> begin(n)[n]]
<1>3. ASSUME NEW n \in Nat PROVE Begins(begin(n), n)
  <2> HIDE DEF Begins
  <2> QED BY <1>1, Zenon
<1>4. h[0] = c
  BY <1>3
<1>5. ASSUME NEW n \in Nat, n # 0 PROVE h[n] = Step(role, h[n - 1])
  <2>1. n - 1 \in Nat /\ Begins(begin(n), n) /\ Begins(begin(n - 1), n - 1)
    BY <1>3, <1>5
  <2> HIDE DEF begin
  <2>2. Begins(begin(n), n - 1)
    BY <2>1
  <2>3. begin(n)[n - 1] = begin(n - 1)[n - 1]
    BY <1>2, <2>1, <2>2
  <2>4. begin(n)[n] = Step(role, begin(n)[n - 1])
    BY <1>5, <2>1
  <2> QED BY <2>1, <2>3, <2>4
<1> HIDE DEF Begins
<1>6. h = [n \in Nat |-> IF n = 0 THEN c ELSE Step(role, h[n - 1])]
  <2>1. ASSUME NEW n \in Nat PROVE h[n] = IF n = 0 THEN c ELSE Step(role, h[n - 1])
    <3> HIDE DEF h
    <3> QED BY <1>4, <1>5
  <2>2. h = [n \in Nat |-> h[n]]
    OBVIOUS
  <2> HIDE DEF h
  <2> QED BY <2>1, <2>2
<1> QED BY <1>6, Zenon DEF IsRun

LEMMA RunSteps ==
  ASSUME NEW role, NEW c
  PROVE  /\ Run(role, c)[0] = c
         /\ \A n \in Nat : Run(role, c)[n + 1] = Step(role, Run(role, c)[n])
<1> DEFINE run == Run(role, c)
<1>1. run = [n \in Nat |-> IF n = 0 THEN c ELSE Step(role, run[n - 1])]
  <2>1. PICK f : IsRun(role, c, f)
    BY RunExists, Zenon
  <2>2. IsRun(role, c, run)
    BY <2>1, RunUnfolds, Zenon
  <2> QED BY <2>2, Zenon DEF IsRun
<1> HIDE DEF run
<1>2. run[0] = c
  BY <1>1
<1>3. ASSUME NEW n \in Nat PROVE run[n + 1] = Step(role, run[n])
  <2>1. n + 1 \in Nat /\ n + 1 # 0 /\ (n + 1) - 1 = n
    OBVIOUS
  <2> QED BY <1>1, <2>1
<1> QED BY <1>2, <1>3 DEF run

(* A step that changes nothing is the last that counts ...                 *)
LEMMA RunStays ==
  ASSUME NEW role, NEW c, NEW n \in Nat, NEW m \in Nat, n <= m,
         Step(role, Run(role, c)[n]) = Run(role, c)[n]
  PROVE  Run(role, c)[m] = Run(role, c)[n]
<1> DEFINE run == Run(role, c)
           S == {k \in Nat : run[n + k] = run[n]}
<1>1. 0 \in S
  OBVIOUS
<1>2. ASSUME NEW k \in Nat, k \in S PROVE k + 1 \in S
  <2>1. n + k \in Nat /\ (n + k) + 1 = n + (k + 1)
    OBVIOUS
  <2>2. run[(n + k) + 1] = Step(role, run[n + k])
    BY <2>1, RunSteps
  <2> QED BY <1>2, <2>1, <2>2
<1>3. m - n \in Nat /\ n + (m - n) = m
  OBVIOUS
<1>4. m - n \in S
  <2> HIDE DEF S
  <2> QED BY <1>1, <1>2, <1>3, Climb
<1> QED BY <1>3, <1>4

(* ... and the steps after the first are those of what it made.            *)
LEMMA RunShift ==
  ASSUME NEW role, NEW c, NEW n \in Nat
  PROVE  Run(role, Step(role, c))[n] = Run(role, c)[n + 1]
<1> DEFINE S == {k \in Nat : Run(role, Step(role, c))[k] = Run(role, c)[k + 1]}
<1>1. 0 \in S
  <2>1. Run(role, Step(role, c))[0] = Step(role, c) /\ Run(role, c)[0] = c
    BY RunSteps
  <2>2. Run(role, c)[0 + 1] = Step(role, Run(role, c)[0])
    <3>1. 0 \in Nat
      OBVIOUS
    <3> QED BY <3>1, RunSteps
  <2> QED BY <2>1, <2>2
<1>2. ASSUME NEW k \in Nat, k \in S PROVE k + 1 \in S
  <2>1. Run(role, Step(role, c))[k + 1] = Step(role, Run(role, Step(role, c))[k])
    BY RunSteps
  <2>2. k + 1 \in Nat
    OBVIOUS
  <2>3. Run(role, c)[(k + 1) + 1] = Step(role, Run(role, c)[k + 1])
    BY <2>2, RunSteps
  <2> QED BY <1>2, <2>1, <2>2, <2>3
<1>3. n \in S
  <2> HIDE DEF S
  <2> QED BY <1>1, <1>2, Climb
<1> QED BY <1>3

(***************************************************************************)
(* A delimiter that was found stays where it was found.                    *)
(***************************************************************************)
LEMMA MinIsFirst ==
  ASSUME NEW S \in SUBSET Nat, S # {}
  PROVE  Min(S) \in S /\ \A y \in S : Min(S) =< y
<1>1. PICK x \in S : \A y \in S : <<y, x>> \notin OpToRel(<, Nat)
  BY NatLessThanWellFounded, WFMin, Zenon
<1>2. \A y \in S : x =< y
  <2> TAKE y \in S
  <2>1. ~ (y < x)
    BY <1>1, Zenon DEF OpToRel
  <2> QED BY <2>1
<1> QED BY <1>2, Zenon DEF Min

LEMMA SubSeqOfBeginning ==
  ASSUME NEW T, NEW text \in Seq(T), NEW more \in Seq(T),
         NEW i \in Nat, i >= 1, NEW j \in Nat, j <= Len(text)
  PROVE  SubSeq(text \o more, i, j) = SubSeq(text, i, j)
<1> DEFINE long == text \o more
<1>1. /\ long \in Seq(T) /\ Len(long) = Len(text) + Len(more)
      /\ \A k \in 1..Len(text) : long[k] = text[k]
  OBVIOUS
<1> HIDE DEF long
<1>2. CASE i <= j
  <2>1. /\ SubSeq(long, i, j) \in Seq(T) /\ Len(SubSeq(long, i, j)) = j - i + 1
        /\ \A k \in 1..(j - i + 1) : SubSeq(long, i, j)[k] = long[i + k - 1]
    BY <1>1, <1>2
  <2>2. /\ SubSeq(text, i, j) \in Seq(T) /\ Len(SubSeq(text, i, j)) = j - i + 1
        /\ \A k \in 1..(j - i + 1) : SubSeq(text, i, j)[k] = text[i + k - 1]
    BY <1>2
  <2>3. \A k \in 1..(j - i + 1) : SubSeq(long, i, j)[k] = SubSeq(text, i, j)[k]
    BY <1>1, <1>2, <2>1, <2>2
  <2> QED BY <2>1, <2>2, <2>3, SeqEqual
<1>3. CASE ~(i <= j)
  <2>1. SubSeq(long, i, j) = <<>> /\ SubSeq(text, i, j) = <<>>
    BY <1>1, <1>3
  <2> QED BY <2>1
<1> QED BY <1>2, <1>3 DEF long

(* What StringPosition finds, and that more text does not move it.         *)
LEMMA FoundStays ==
  ASSUME NEW T, NEW text \in Seq(T), NEW more \in Seq(T),
         NEW token, Len(token) \in Nat \ {0}, NEW start \in Nat \ {0},
         StringPosition(text, token, start) # 0
  PROVE  /\ StringPosition(text, token, start) \in Nat
         /\ start <= StringPosition(text, token, start)
         /\ StringPosition(text, token, start) + Len(token) - 1 <= Len(text)
         /\ StringPosition(text \o more, token, start) = StringPosition(text, token, start)
<1> DEFINE size == Len(token)
           In(t) == {i \in start..(Len(t) - size + 1) : SubSeq(t, i, i + size - 1) = token}
           long == text \o more
<1>1. long \in Seq(T) /\ Len(long) = Len(text) + Len(more)
  OBVIOUS
<1>2. In(text) # {} /\ StringPosition(text, token, start) = Min(In(text))
  BY DEF StringPosition
<1>3. In(text) \subseteq Nat /\ In(long) \subseteq Nat
  BY <1>1
<1>4. ASSUME NEW i \in Nat, start <= i, i + size - 1 <= Len(text)
      PROVE  i \in In(long) <=> i \in In(text)
  <2>1. SubSeq(long, i, i + size - 1) = SubSeq(text, i, i + size - 1)
    <3>1. i >= 1 /\ i + size - 1 \in Nat
      BY <1>4
    <3> QED BY <1>4, <3>1, SubSeqOfBeginning
  <2>2. i \in start..(Len(text) - size + 1) /\ i \in start..(Len(long) - size + 1)
    BY <1>1, <1>4
  <2> QED BY <2>1, <2>2
<1> DEFINE first == Min(In(text))
<1>5. first \in In(text) /\ \A y \in In(text) : first =< y
  <2> HIDE DEF In
  <2> QED BY <1>2, <1>3, MinIsFirst
<1>6. first \in Nat /\ start <= first /\ first + size - 1 <= Len(text)
  <2> HIDE DEF first
  <2> QED BY <1>5
<1>7. In(long) # {} /\ first \in In(long)
  BY <1>4, <1>5, <1>6
<1> DEFINE other == Min(In(long))
<1>8. other \in In(long) /\ \A y \in In(long) : other =< y
  <2> HIDE DEF In
  <2> QED BY <1>3, <1>7, MinIsFirst
<1>9. other \in Nat /\ start <= other /\ other <= first
  <2>1. other \in Nat /\ start <= other
    <3> HIDE DEF other
    <3> QED BY <1>3, <1>8
  <2> HIDE DEF other, first, In
  <2> QED BY <2>1, <1>7, <1>8
<1>10. other \in In(text)
  <2> HIDE DEF other, first, In
  <2>1. other + size - 1 <= Len(text)
    BY <1>6, <1>9
  <2> QED BY <1>4, <1>8, <1>9, <2>1
<1>11. other = first
  <2> HIDE DEF other, first, In
  <2> QED BY <1>5, <1>6, <1>9, <1>10
<1>12. StringPosition(long, token, start) = other
  BY <1>7 DEF StringPosition
<1> QED BY <1>2, <1>6, <1>11, <1>12

(***************************************************************************)
(* One step of the parser, case by case.  Between two steps nothing was    *)
(* looked at in vain: peak_ and next_base_ are where base_ is.             *)
(***************************************************************************)
At(buffer, b) == [buffer |-> buffer, base |-> b, peak |-> b, next |-> b]
Read(line, headers, body) == [line |-> line, headers |-> headers, body |-> body]

Conn(stage, n, buffer, b, line, headers, body) ==
  [stage |-> stage, count |-> n, reader |-> At(buffer, b),
   packet |-> Read(line, headers, body)]

LineDelimiter(line) == IF Len(line) < 2 THEN <<Space>> ELSE LineFeed
Where(buffer, b, token) == StringPosition(buffer, token, b + 1)
Word(buffer, b, token) == SubSeq(buffer, b + 1, Where(buffer, b, token) - 1)
Past(buffer, b, token) == Where(buffer, b, token) - 1 + Len(token)

LEMMA Delimiters ==
  /\ Len(LineFeed) \in Nat \ {0}
  /\ \A line : Len(LineDelimiter(line)) \in Nat \ {0}
<1>1. Len(<<Space>>) \in Nat \ {0} /\ Len(LineFeed) \in Nat \ {0}
  BY DEF LineFeed
<1> QED BY <1>1, Zenon DEF LineDelimiter

(* Two records of the same fields are equal when each of them is.          *)
ConnFields == {"stage", "count", "reader", "packet"}
ReaderFields == {"buffer", "base", "peak", "next"}
PacketFields == {"line", "headers", "body"}
Shaped(fields, x) == x = [f \in fields |-> x[f]]

LEMMA SameConn ==
  ASSUME NEW c, NEW d, Shaped(ConnFields, c), Shaped(ConnFields, d),
         c.stage = d.stage, c.count = d.count, c.reader = d.reader, c.packet = d.packet
  PROVE  c = d
BY DEF Shaped, ConnFields

LEMMA SameReader ==
  ASSUME NEW c, NEW d, Shaped(ReaderFields, c), Shaped(ReaderFields, d),
         c.buffer = d.buffer, c.base = d.base, c.peak = d.peak, c.next = d.next
  PROVE  c = d
BY DEF Shaped, ReaderFields

LEMMA SamePacket ==
  ASSUME NEW c, NEW d, Shaped(PacketFields, c), Shaped(PacketFields, d),
         c.line = d.line, c.headers = d.headers, c.body = d.body
  PROVE  c = d
BY DEF Shaped, PacketFields

LEMMA ConnIs ==
  ASSUME NEW stage, NEW n, NEW buffer, NEW b, NEW line, NEW headers, NEW body
  PROVE  LET c == Conn(stage, n, buffer, b, line, headers, body)
         IN  /\ Shaped(ConnFields, c) /\ c.stage = stage /\ c.count = n
             /\ c.reader = At(buffer, b) /\ c.packet = Read(line, headers, body)
BY DEF Conn, Shaped, ConnFields

LEMMA AtIs ==
  ASSUME NEW buffer, NEW b
  PROVE  LET r == At(buffer, b)
         IN  /\ Shaped(ReaderFields, r)
             /\ r.buffer = buffer /\ r.base = b /\ r.peak = b /\ r.next = b
BY DEF At, Shaped, ReaderFields

LEMMA ReadIs ==
  ASSUME NEW line, NEW headers, NEW body
  PROVE  LET p == Read(line, headers, body)
         IN  Shaped(PacketFields, p) /\ p.line = line /\ p.headers = headers /\ p.body = body
BY DEF Read, Shaped, PacketFields

LEMMA PeakIs ==
  ASSUME NEW buffer, NEW b, NEW token, NEW reader, reader = At(buffer, b)
  PROVE  /\ Found(reader, token) <=> Where(buffer, b, token) # 0
         /\ Where(buffer, b, token) = 0 => Peak(reader, token) = reader
         /\ Where(buffer, b, token) # 0 =>
              /\ Tok(Peak(reader, token)) = Word(buffer, b, token)
              /\ Advance(Peak(reader, token)) = At(buffer, Past(buffer, b, token))
<1> DEFINE where == Where(buffer, b, token)
           last == where - 1
           past == Past(buffer, b, token)
           peaked == Peak(reader, token)
           advanced == Advance(peaked)
<1>1. /\ Shaped(ReaderFields, reader) /\ reader.buffer = buffer
      /\ reader.base = b /\ reader.peak = b /\ reader.next = b
  BY AtIs
<1>2. where = StringPosition(reader.buffer, token, reader.base + 1)
  BY <1>1 DEF Where
<1>3. Found(reader, token) <=> where # 0
  BY <1>2, Zenon DEF Found
<1>4. ASSUME where = 0 PROVE peaked = reader
  <2>1. peaked = [reader EXCEPT !.peak = b, !.next = b]
    BY <1>1, <1>2, <1>4, Zenon DEF Peak
  <2> HIDE DEF peaked
  <2>2. /\ Shaped(ReaderFields, peaked) /\ peaked.buffer = buffer
        /\ peaked.base = b /\ peaked.peak = b /\ peaked.next = b
    BY <1>1, <2>1 DEF Shaped, ReaderFields
  <2> QED BY <1>1, <2>2, SameReader
<1>5. ASSUME where # 0
      PROVE  /\ Shaped(ReaderFields, peaked) /\ peaked.buffer = buffer
             /\ peaked.base = b /\ peaked.peak = last /\ peaked.next = past
  <2>1. peaked = [reader EXCEPT !.peak = last, !.next = past]
    BY <1>1, <1>2, <1>5, Zenon DEF Peak, Past
  <2> HIDE DEF peaked, last, past
  <2> QED BY <1>1, <2>1 DEF Shaped, ReaderFields
<1>6. ASSUME where # 0 PROVE Tok(peaked) = Word(buffer, b, token)
  <2> HIDE DEF peaked
  <2> QED BY <1>5, <1>6 DEF Tok, Word
<1>7. ASSUME where # 0 PROVE advanced = At(buffer, past)
  <2>1. advanced = [peaked EXCEPT !.base = past, !.peak = past]
    <3> HIDE DEF peaked, past
    <3> QED BY <1>5, <1>7 DEF Advance
  <2> HIDE DEF peaked, past, advanced
  <2>2. /\ Shaped(ReaderFields, advanced) /\ advanced.buffer = buffer
        /\ advanced.base = past /\ advanced.peak = past /\ advanced.next = past
    BY <1>5, <1>7, <2>1 DEF Shaped, ReaderFields
  <2> QED BY <2>2, AtIs, SameReader
<1> QED BY <1>3, <1>4, <1>6, <1>7

(* A connection with another reader and another stage.                     *)
MovedTo(c, reader, stage) == [c EXCEPT !.reader = reader, !.stage = stage]

LEMMA Moved ==
  ASSUME NEW stage, NEW n, NEW buffer, NEW b, NEW line, NEW headers, NEW body,
         NEW later, NEW past
  PROVE  MovedTo(Conn(stage, n, buffer, b, line, headers, body), At(buffer, past), later)
           = Conn(later, n, buffer, past, line, headers, body)
<1> DEFINE c == Conn(stage, n, buffer, b, line, headers, body)
           d == MovedTo(c, At(buffer, past), later)
           e == Conn(later, n, buffer, past, line, headers, body)
<1>1. Shaped(ConnFields, c) /\ c.count = n /\ c.packet = Read(line, headers, body)
  BY ConnIs
<1> HIDE DEF c
<1>2. /\ Shaped(ConnFields, d) /\ d.stage = later /\ d.count = n
      /\ d.reader = At(buffer, past) /\ d.packet = Read(line, headers, body)
  BY <1>1 DEF Shaped, ConnFields, MovedTo
<1>3. /\ Shaped(ConnFields, e) /\ e.stage = later /\ e.count = n
      /\ e.reader = At(buffer, past) /\ e.packet = Read(line, headers, body)
  BY ConnIs
<1> HIDE DEF d, e
<1>4. d = e
  BY <1>2, <1>3, SameConn
<1> QED BY <1>4 DEF c, d, e

(* A first line with one more word.                                        *)
GrownTo(c, reader, line, stage) ==
  [c EXCEPT !.reader = reader, !.packet.line = line, !.stage = stage]

LEMMA Grown ==
  ASSUME NEW stage, NEW n, NEW buffer, NEW b, NEW line, NEW headers, NEW body,
         NEW later, NEW past, NEW longer
  PROVE  GrownTo(Conn(stage, n, buffer, b, line, headers, body), At(buffer, past), longer, later)
           = Conn(later, n, buffer, past, longer, headers, body)
<1> DEFINE c == Conn(stage, n, buffer, b, line, headers, body)
           d == GrownTo(c, At(buffer, past), longer, later)
           e == Conn(later, n, buffer, past, longer, headers, body)
           p == [c.packet EXCEPT !.line = longer]
           r == Read(longer, headers, body)
<1>1. Shaped(ConnFields, c) /\ c.count = n /\ c.packet = Read(line, headers, body)
  BY ConnIs
<1> HIDE DEF c
<1>2. /\ Shaped(ConnFields, d) /\ d.stage = later /\ d.count = n
      /\ d.reader = At(buffer, past) /\ d.packet = p
  BY <1>1 DEF Shaped, ConnFields, GrownTo
<1>3. /\ Shaped(ConnFields, e) /\ e.stage = later /\ e.count = n
      /\ e.reader = At(buffer, past) /\ e.packet = r
  BY ConnIs
<1>4. p = r
  <2>1. Shaped(PacketFields, c.packet) /\ c.packet.headers = headers /\ c.packet.body = body
    BY <1>1, ReadIs
  <2>2. Shaped(PacketFields, p) /\ p.line = longer /\ p.headers = headers /\ p.body = body
    BY <2>1 DEF Shaped, PacketFields
  <2>3. Shaped(PacketFields, r) /\ r.line = longer /\ r.headers = headers /\ r.body = body
    BY ReadIs
  <2> HIDE DEF p, r
  <2> QED BY <2>2, <2>3, SamePacket
<1> HIDE DEF d, e, p, r
<1>5. d = e
  BY <1>2, <1>3, <1>4, SameConn
<1> QED BY <1>5 DEF c, d, e

LEMMA LineStepIs ==
  ASSUME NEW role, NEW n, NEW buffer, NEW b, NEW line, NEW headers, NEW body
  PROVE  LET token == LineDelimiter(line)
             word == Word(buffer, b, token)
             past == Past(buffer, b, token)
             longer == Append(line, word)
             c == Conn("line", n, buffer, b, line, headers, body)
         IN  /\ Where(buffer, b, token) = 0 => Step(role, c) = c
             /\ Where(buffer, b, token) # 0 /\ ~Accepts(role, line, word) =>
                  Step(role, c) = Conn("failed", n, buffer, past, line, headers, body)
             /\ Where(buffer, b, token) # 0 /\ Accepts(role, line, word) =>
                  Step(role, c) = Conn(IF Len(longer) = 3 THEN "headers" ELSE "line",
                                       n, buffer, past, longer, headers, body)
<1> DEFINE token == LineDelimiter(line)
           word == Word(buffer, b, token)
           past == Past(buffer, b, token)
           longer == Append(line, word)
           c == Conn("line", n, buffer, b, line, headers, body)
<1>0. /\ token = LineDelimiter(line) /\ word = Word(buffer, b, token)
      /\ past = Past(buffer, b, token) /\ longer = Append(line, word)
      /\ c = Conn("line", n, buffer, b, line, headers, body)
  OBVIOUS
<1> HIDE DEF token, word, past, longer, c
<1> USE <1>0
<1>1. /\ Shaped(ConnFields, c) /\ c.stage = "line"
      /\ c.reader = At(buffer, b) /\ c.packet = Read(line, headers, body)
      /\ c.packet.line = line
  BY ConnIs, ReadIs
<1> DEFINE stage == IF Len(longer) = 3 THEN "headers" ELSE "line"
           next == Step(role, c)
<1>2. next = LineStep(role, c)
  BY <1>1 DEF Step
<1>3. CASE Where(buffer, b, token) = 0
  <2>1. next = [c EXCEPT !.reader = c.reader]
    <3>1. Peak(c.reader, token) = c.reader /\ ~Found(c.reader, token)
      BY <1>1, <1>3, PeakIs
    <3> QED BY <1>1, <1>2, <3>1, Zenon DEF LineStep, LineDelimiter
  <2>2. [c EXCEPT !.reader = c.reader] = c
    BY <1>1 DEF Shaped, ConnFields
  <2> QED BY <1>3, <2>1, <2>2
<1>4. ASSUME Where(buffer, b, token) # 0
      PROVE  /\ Tok(Peak(c.reader, token)) = word
             /\ Advance(Peak(c.reader, token)) = At(buffer, past)
             /\ Found(c.reader, token)
  BY <1>1, <1>4, PeakIs
<1>5. CASE Where(buffer, b, token) # 0 /\ ~Accepts(role, line, word)
  <2>1. next = MovedTo(c, At(buffer, past), "failed")
    BY <1>1, <1>2, <1>4, <1>5, Zenon DEF LineStep, LineDelimiter, MovedTo
  <2> HIDE DEF next
  <2>2. next = Conn("failed", n, buffer, past, line, headers, body)
    BY <2>1, Moved
  <2> QED BY <1>5, <2>2 DEF next
<1>6. CASE Where(buffer, b, token) # 0 /\ Accepts(role, line, word)
  <2>1. next = GrownTo(c, At(buffer, past), longer, stage)
    BY <1>1, <1>2, <1>4, <1>6, Zenon DEF LineStep, LineDelimiter, GrownTo
  <2> HIDE DEF next, stage
  <2>2. next = Conn(stage, n, buffer, past, longer, headers, body)
    BY <2>1, Grown
  <2> QED BY <1>6, <2>2 DEF next, stage
<1> QED BY <1>3, <1>5, <1>6 DEF token, word, past, longer, c

(* The headers: another stage, or one header more.                         *)
StagedTo(c, stage) == [c EXCEPT !.stage = stage]

LEMMA Staged ==
  ASSUME NEW stage, NEW n, NEW buffer, NEW b, NEW line, NEW headers, NEW body, NEW later
  PROVE  StagedTo(Conn(stage, n, buffer, b, line, headers, body), later)
           = Conn(later, n, buffer, b, line, headers, body)
<1> DEFINE c == Conn(stage, n, buffer, b, line, headers, body)
           d == StagedTo(c, later)
           e == Conn(later, n, buffer, b, line, headers, body)
<1>1. /\ Shaped(ConnFields, c) /\ c.count = n /\ c.reader = At(buffer, b)
      /\ c.packet = Read(line, headers, body)
  BY ConnIs
<1> HIDE DEF c
<1>2. /\ Shaped(ConnFields, d) /\ d.stage = later /\ d.count = n
      /\ d.reader = At(buffer, b) /\ d.packet = Read(line, headers, body)
  BY <1>1 DEF Shaped, ConnFields, StagedTo
<1>3. /\ Shaped(ConnFields, e) /\ e.stage = later /\ e.count = n
      /\ e.reader = At(buffer, b) /\ e.packet = Read(line, headers, body)
  BY ConnIs
<1> HIDE DEF d, e
<1>4. d = e
  BY <1>2, <1>3, SameConn
<1> QED BY <1>4 DEF c, d, e

ColonIn(header) == StringPosition(header, Colon, 1)
NameIn(header) == SubSeq(header, 1, ColonIn(header) - 1)
ValueIn(header) == SubSeq(header, ColonIn(header) + 2, Len(header))
More(headers, header) == (Lower(NameIn(header)) :> ValueIn(header)) @@ headers

LEMMA HeaderAdded ==
  ASSUME NEW stage, NEW n, NEW buffer, NEW b, NEW line, NEW headers, NEW body,
         NEW past, NEW header
  PROVE  WithHeader(Conn(stage, n, buffer, b, line, headers, body), At(buffer, past),
                    NameIn(header), ValueIn(header))
           = Conn(stage, n + 1, buffer, past, line, More(headers, header), body)
<1> DEFINE name == NameIn(header)
           value == ValueIn(header)
           more == More(headers, header)
           c == Conn(stage, n, buffer, b, line, headers, body)
           d == WithHeader(c, At(buffer, past), name, value)
           e == Conn(stage, n + 1, buffer, past, line, more, body)
           p == AddHeader(c.packet, name, value)
           r == Read(line, more, body)
<1>1. /\ Shaped(ConnFields, c) /\ c.stage = stage /\ c.count = n
      /\ c.packet = Read(line, headers, body)
  BY ConnIs
<1>2. /\ Shaped(PacketFields, c.packet) /\ c.packet.line = line
      /\ c.packet.headers = headers /\ c.packet.body = body
  BY <1>1, ReadIs
<1> HIDE DEF c, name, value
<1>3. /\ Shaped(ConnFields, d) /\ d.stage = stage /\ d.count = n + 1
      /\ d.reader = At(buffer, past) /\ d.packet = p
  <2> HIDE DEF p
  <2>1. d = [c EXCEPT !.reader = At(buffer, past), !.packet = p, !.count = n + 1]
    BY <1>1, Zenon DEF WithHeader, p
  <2> HIDE DEF d
  <2> QED BY <1>1, <2>1 DEF Shaped, ConnFields
<1>4. /\ Shaped(ConnFields, e) /\ e.stage = stage /\ e.count = n + 1
      /\ e.reader = At(buffer, past) /\ e.packet = r
  BY ConnIs
<1>5. p = r
  <2>1. p = [c.packet EXCEPT !.headers = more]
    BY <1>2, Zenon DEF AddHeader, More, name, value
  <2> HIDE DEF p, more
  <2>2. Shaped(PacketFields, p) /\ p.line = line /\ p.headers = more /\ p.body = body
    BY <1>2, <2>1 DEF Shaped, PacketFields
  <2>3. Shaped(PacketFields, r) /\ r.line = line /\ r.headers = more /\ r.body = body
    BY ReadIs
  <2> HIDE DEF r
  <2> QED BY <2>2, <2>3, SamePacket
<1> HIDE DEF d, e, p, r
<1>6. d = e
  BY <1>3, <1>4, <1>5, SameConn
<1> QED BY <1>6 DEF c, d, e, name, value

Spoiled(header) == ColonIn(header) <= 1 \/ ValueIn(header) = <<>>

LEMMA HeaderStepIs ==
  ASSUME NEW role, NEW n, NEW buffer, NEW b, NEW line, NEW headers, NEW body
  PROVE  LET header == Word(buffer, b, LineFeed)
             past == Past(buffer, b, LineFeed)
             c == Conn("headers", n, buffer, b, line, headers, body)
         IN  /\ n > MaxHeaders =>
                  Step(role, c) = Conn("failed", n, buffer, b, line, headers, body)
             /\ ~(n > MaxHeaders) /\ Where(buffer, b, LineFeed) = 0 => Step(role, c) = c
             /\ ~(n > MaxHeaders) /\ Where(buffer, b, LineFeed) # 0 =>
                  Step(role, c)
                    = IF header = <<>> THEN Conn("body", n, buffer, past, line, headers, body)
                      ELSE IF Spoiled(header)
                      THEN Conn("failed", n, buffer, past, line, headers, body)
                      ELSE Conn("headers", n + 1, buffer, past, line,
                                More(headers, header), body)
<1> DEFINE header == Word(buffer, b, LineFeed)
           past == Past(buffer, b, LineFeed)
           c == Conn("headers", n, buffer, b, line, headers, body)
<1>0. /\ header = Word(buffer, b, LineFeed) /\ past = Past(buffer, b, LineFeed)
      /\ c = Conn("headers", n, buffer, b, line, headers, body)
  OBVIOUS
<1> HIDE DEF header, past, c
<1> USE <1>0
<1>1. /\ Shaped(ConnFields, c) /\ c.stage = "headers" /\ c.count = n
      /\ c.reader = At(buffer, b) /\ c.packet = Read(line, headers, body)
  BY ConnIs
<1> DEFINE next == Step(role, c)
<1>2. next = HeaderStep(c)
  BY <1>1 DEF Step
<1>3. CASE n > MaxHeaders
  <2>1. next = StagedTo(c, "failed")
    BY <1>1, <1>2, <1>3, Zenon DEF HeaderStep, StagedTo
  <2> HIDE DEF next
  <2>2. next = Conn("failed", n, buffer, b, line, headers, body)
    BY <2>1, Staged
  <2> QED BY <1>3, <2>2 DEF next
<1>4. CASE ~(n > MaxHeaders) /\ Where(buffer, b, LineFeed) = 0
  <2>1. next = [c EXCEPT !.reader = c.reader]
    <3>1. Peak(c.reader, LineFeed) = c.reader /\ ~Found(c.reader, LineFeed)
      BY <1>1, <1>4, PeakIs
    <3> QED BY <1>1, <1>2, <1>4, <3>1, Zenon DEF HeaderStep
  <2>2. [c EXCEPT !.reader = c.reader] = c
    BY <1>1 DEF Shaped, ConnFields
  <2> QED BY <1>4, <2>1, <2>2
<1>5. CASE ~(n > MaxHeaders) /\ Where(buffer, b, LineFeed) # 0
  <2>1. /\ Tok(Peak(c.reader, LineFeed)) = header
        /\ Advance(Peak(c.reader, LineFeed)) = At(buffer, past)
        /\ Found(c.reader, LineFeed)
    BY <1>1, <1>5, PeakIs
  <2>2. CASE header = <<>>
    <3>1. next = MovedTo(c, At(buffer, past), "body")
      BY <1>1, <1>2, <1>5, <2>1, <2>2, Zenon DEF HeaderStep, MovedTo
    <3> HIDE DEF next
    <3>2. next = Conn("body", n, buffer, past, line, headers, body)
      BY <3>1, Moved
    <3> QED BY <1>5, <2>2, <3>2 DEF next
  <2>3. CASE header # <<>> /\ Spoiled(header)
    <3>1. next = MovedTo(c, At(buffer, past), "failed")
      BY <1>1, <1>2, <1>5, <2>1, <2>3, Zenon
      DEF HeaderStep, MovedTo, Spoiled, ColonIn, ValueIn
    <3> HIDE DEF next
    <3>2. next = Conn("failed", n, buffer, past, line, headers, body)
      BY <3>1, Moved
    <3> QED BY <1>5, <2>3, <3>2 DEF next
  <2>4. CASE header # <<>> /\ ~Spoiled(header)
    <3>1. next = WithHeader(c, At(buffer, past), NameIn(header), ValueIn(header))
      BY <1>1, <1>2, <1>5, <2>1, <2>4, Zenon
      DEF HeaderStep, Spoiled, ColonIn, ValueIn, NameIn
    <3> HIDE DEF next
    <3>2. next = Conn("headers", n + 1, buffer, past, line, More(headers, header), body)
      BY <3>1, HeaderAdded
    <3> QED BY <1>5, <2>4, <3>2 DEF next
  <2> QED BY <2>2, <2>3, <2>4
<1> QED BY <1>3, <1>4, <1>5 DEF header, past, c

(* The body takes what is there, as far as it is missing.                  *)
BodyTo(c, reader, body, stage) ==
  [c EXCEPT !.reader = reader, !.packet.body = body, !.stage = stage]

LEMMA Filled ==
  ASSUME NEW stage, NEW n, NEW buffer, NEW b, NEW line, NEW headers, NEW body,
         NEW later, NEW past, NEW longer
  PROVE  BodyTo(Conn(stage, n, buffer, b, line, headers, body), At(buffer, past), longer, later)
           = Conn(later, n, buffer, past, line, headers, longer)
<1> DEFINE c == Conn(stage, n, buffer, b, line, headers, body)
           d == BodyTo(c, At(buffer, past), longer, later)
           e == Conn(later, n, buffer, past, line, headers, longer)
           p == [c.packet EXCEPT !.body = longer]
           r == Read(line, headers, longer)
<1>1. Shaped(ConnFields, c) /\ c.count = n /\ c.packet = Read(line, headers, body)
  BY ConnIs
<1> HIDE DEF c
<1>2. /\ Shaped(ConnFields, d) /\ d.stage = later /\ d.count = n
      /\ d.reader = At(buffer, past) /\ d.packet = p
  BY <1>1 DEF Shaped, ConnFields, BodyTo
<1>3. /\ Shaped(ConnFields, e) /\ e.stage = later /\ e.count = n
      /\ e.reader = At(buffer, past) /\ e.packet = r
  BY ConnIs
<1>4. p = r
  <2>1. Shaped(PacketFields, c.packet) /\ c.packet.headers = headers /\ c.packet.line = line
    BY <1>1, ReadIs
  <2>2. Shaped(PacketFields, p) /\ p.line = line /\ p.headers = headers /\ p.body = longer
    BY <2>1 DEF Shaped, PacketFields
  <2>3. Shaped(PacketFields, r) /\ r.line = line /\ r.headers = headers /\ r.body = longer
    BY ReadIs
  <2> HIDE DEF p, r
  <2> QED BY <2>2, <2>3, SamePacket
<1> HIDE DEF d, e, p, r
<1>5. d = e
  BY <1>2, <1>3, <1>4, SameConn
<1> QED BY <1>5 DEF c, d, e

LengthIn(headers) ==
  AsSize(Atoi(IF <<"content-length">> \in DOMAIN headers
              THEN headers[<<"content-length">>] ELSE <<>>))
Lacking(headers, body) == AsSize(LengthIn(headers) - Len(body))
Until(buffer, b, missing) ==
  IF b = Len(buffer) THEN b ELSE Min({AsSize(b + missing), Len(buffer)})
Piece(buffer, b, missing) == SubSeq(buffer, b + 1, Until(buffer, b, missing))

LEMMA BodyStepIs ==
  ASSUME NEW role, NEW n, NEW buffer, NEW b, NEW line, NEW headers, NEW body
  PROVE  LET missing == Lacking(headers, body)
             longer == body \o Piece(buffer, b, missing)
             past == Until(buffer, b, missing)
             c == Conn("body", n, buffer, b, line, headers, body)
         IN  Step(role, c)
               = IF LengthIn(headers) = 0 THEN Conn("end", n, buffer, b, line, headers, body)
                 ELSE IF past < b THEN Conn("thrown", n, buffer, b, line, headers, body)
                 ELSE Conn(IF Len(longer) < LengthIn(headers) THEN "body" ELSE "end",
                           n, buffer, past, line, headers, longer)
<1> DEFINE missing == Lacking(headers, body)
           longer == body \o Piece(buffer, b, missing)
           past == Until(buffer, b, missing)
           c == Conn("body", n, buffer, b, line, headers, body)
<1>0. /\ missing = Lacking(headers, body)
      /\ longer = body \o Piece(buffer, b, missing) /\ past = Until(buffer, b, missing)
      /\ c = Conn("body", n, buffer, b, line, headers, body)
  OBVIOUS
<1> HIDE DEF missing, longer, past, c
<1> USE <1>0
<1>1. /\ c.stage = "body" /\ c.reader = At(buffer, b)
      /\ c.packet = Read(line, headers, body)
  BY ConnIs
<1>2. c.packet.headers = headers /\ c.packet.body = body
  BY <1>1, ReadIs
<1> DEFINE next == Step(role, c)
           stage == IF Len(longer) < LengthIn(headers) THEN "body" ELSE "end"
<1>3. next = BodyStep(c)
  BY <1>1 DEF Step
<1>4. ContentLength(c.packet) = LengthIn(headers)
  BY <1>2, Zenon DEF ContentLength, GetHeader, LengthIn
<1>5. CASE LengthIn(headers) = 0
  <2>1. next = StagedTo(c, "end")
    BY <1>3, <1>4, <1>5, Zenon DEF BodyStep, StagedTo
  <2> HIDE DEF next
  <2>2. next = Conn("end", n, buffer, b, line, headers, body)
    BY <2>1, Staged
  <2> QED BY <1>5, <2>2 DEF next
<1>6. TakenTo(c.reader, missing) = past
  <2>1. c.reader.buffer = buffer /\ c.reader.base = b
    BY <1>1, AtIs
  <2> QED BY <2>1, Zenon DEF TakenTo, Until
<1>7. c.reader.base = b
  BY <1>1, AtIs
<1>8. AsSize(ContentLength(c.packet) - Len(c.packet.body)) = missing
  BY <1>2, <1>4, Zenon DEF Lacking
<1>9. CASE LengthIn(headers) # 0 /\ past < b
  <2>1. Throws(c.reader, missing)
    BY <1>6, <1>7, <1>9, Zenon DEF Throws
  <2>2. next = StagedTo(c, "thrown")
    BY <1>3, <1>4, <1>8, <1>9, <2>1, Zenon DEF BodyStep, StagedTo
  <2> HIDE DEF next
  <2>3. next = Conn("thrown", n, buffer, b, line, headers, body)
    BY <2>2, Staged
  <2> QED BY <1>9, <2>3 DEF next
<1>10. CASE LengthIn(headers) # 0 /\ ~(past < b)
  <2>1. TokUpTo(c.reader, missing) = Piece(buffer, b, missing)
    <3>1. c.reader.buffer = buffer
      BY <1>1, AtIs
    <3> QED BY <1>6, <1>7, <3>1, Zenon DEF TokUpTo, Piece
  <2>2. Consume(c.reader, missing) = At(buffer, past)
    <3> DEFINE r == Consume(c.reader, missing)
               q == At(buffer, past)
    <3>1. /\ Shaped(ReaderFields, c.reader) /\ c.reader.buffer = buffer
          /\ c.reader.base = b
      BY <1>1, AtIs
    <3>2. r = [c.reader EXCEPT !.base = past, !.peak = past, !.next = past]
      BY <1>6, Zenon DEF Consume
    <3> HIDE DEF r
    <3>3. /\ Shaped(ReaderFields, r) /\ r.buffer = buffer
          /\ r.base = past /\ r.peak = past /\ r.next = past
      BY <3>1, <3>2 DEF Shaped, ReaderFields
    <3>4. /\ Shaped(ReaderFields, q) /\ q.buffer = buffer
          /\ q.base = past /\ q.peak = past /\ q.next = past
      BY AtIs
    <3> HIDE DEF q
    <3>5. r = q
      BY <3>3, <3>4, SameReader
    <3> QED BY <3>5 DEF r, q
  <2>3. next = BodyTo(c, At(buffer, past), longer, stage)
    <3> DEFINE lacking == AsSize(ContentLength(c.packet) - Len(c.packet.body))
               filled == c.packet.body \o TokUpTo(c.reader, lacking)
               later == IF Len(filled) < ContentLength(c.packet) THEN "body" ELSE "end"
    <3>1. ~Throws(c.reader, lacking)
      BY <1>6, <1>7, <1>8, <1>10, Zenon DEF Throws
    <3>2. next = BodyTo(c, Consume(c.reader, lacking), filled, later)
      BY <1>3, <1>4, <1>10, <3>1, Zenon DEF BodyStep, BodyTo
    <3>3. lacking = missing
      BY <1>8, Zenon
    <3>4. filled = longer
      BY <1>2, <2>1, <3>3, Zenon
    <3>5. later = stage
      BY <1>4, <3>4, Zenon
    <3> HIDE DEF next, lacking, filled, later, stage
    <3> QED BY <2>2, <3>2, <3>4, <3>5, <3>3, Zenon
  <2> HIDE DEF next, stage
  <2>4. next = Conn(stage, n, buffer, past, line, headers, longer)
    BY <2>3, Filled
  <2> QED BY <1>10, <2>4 DEF next, stage
<1> QED BY <1>5, <1>9, <1>10 DEF missing, longer, past, c

(* Nothing happens once the message has ended.                             *)
LEMMA OverStepIs ==
  ASSUME NEW role, NEW c, c.stage \in {"end", "failed", "thrown"}
  PROVE  Step(role, c) = c
BY DEF Step

(* A piece comes in.                                                       *)
Feed(c, piece) == [c EXCEPT !.reader.buffer = @ \o piece]

LEMMA ResumeIs ==
  ASSUME NEW role, NEW c, NEW piece
  PROVE  Resume(role, c, piece) = Parse(role, Feed(c, piece))
BY Zenon DEF Resume, Feed

LEMMA FeedIs ==
  ASSUME NEW stage, NEW n, NEW buffer, NEW b, NEW line, NEW headers, NEW body, NEW piece
  PROVE  Feed(Conn(stage, n, buffer, b, line, headers, body), piece)
           = Conn(stage, n, buffer \o piece, b, line, headers, body)
<1> DEFINE c == Conn(stage, n, buffer, b, line, headers, body)
           d == Feed(c, piece)
           longer == buffer \o piece
           e == Conn(stage, n, longer, b, line, headers, body)
           p == [c.reader EXCEPT !.buffer = longer]
           r == At(longer, b)
<1>1. /\ Shaped(ConnFields, c) /\ c.stage = stage /\ c.count = n
      /\ c.reader = At(buffer, b) /\ c.packet = Read(line, headers, body)
  BY ConnIs
<1>2. /\ Shaped(ReaderFields, c.reader) /\ c.reader.buffer = buffer
      /\ c.reader.base = b /\ c.reader.peak = b /\ c.reader.next = b
  BY <1>1, AtIs
<1> HIDE DEF c
<1>3. d = [c EXCEPT !.reader = p]
  BY <1>1, <1>2 DEF Feed, Shaped, ConnFields
<1>4. p = r
  <2> HIDE DEF longer
  <2>1. /\ Shaped(ReaderFields, p) /\ p.buffer = longer
        /\ p.base = b /\ p.peak = b /\ p.next = b
    BY <1>2 DEF Shaped, ReaderFields
  <2>2. /\ Shaped(ReaderFields, r) /\ r.buffer = longer
        /\ r.base = b /\ r.peak = b /\ r.next = b
    BY AtIs
  <2> HIDE DEF p, r
  <2> QED BY <2>1, <2>2, SameReader
<1>5. /\ Shaped(ConnFields, e) /\ e.stage = stage /\ e.count = n
      /\ e.reader = r /\ e.packet = Read(line, headers, body)
  BY ConnIs
<1> HIDE DEF d, e, p, r
<1>6. /\ Shaped(ConnFields, d) /\ d.stage = stage /\ d.count = n
      /\ d.reader = r /\ d.packet = Read(line, headers, body)
  BY <1>1, <1>3, <1>4 DEF Shaped, ConnFields
<1>7. d = e
  BY <1>5, <1>6, SameConn
<1> QED BY <1>7 DEF c, d, e

(***************************************************************************)
(* The connections that there are: a text over some tokens, read up to a   *)
(* position in it, and of a body no more than the content length says.     *)
(***************************************************************************)
Stages == {"line", "headers", "body", "end", "failed", "thrown"}

Unfilled(stage, headers, body) ==
  /\ stage \in {"line", "headers"} => body = <<>>
  /\ stage = "body" => body = <<>> \/ Len(body) < LengthIn(headers)

Fits(T, stage, buffer, b, headers, body) ==
  /\ stage \in Stages /\ buffer \in Seq(T) /\ body \in Seq(T)
  /\ b \in Nat /\ b <= Len(buffer)
  /\ Unfilled(stage, headers, body)

Good(T, c) ==
  \E stage, n, buffer, b, line, headers, body :
     c = Conn(stage, n, buffer, b, line, headers, body) /\ Fits(T, stage, buffer, b, headers, body)

(* What the reader has not read yet.                                       *)
Left(c) == Len(c.reader.buffer) - c.reader.base

LEMMA LeftIs ==
  ASSUME NEW stage, NEW n, NEW buffer, NEW b, NEW line, NEW headers, NEW body
  PROVE  Left(Conn(stage, n, buffer, b, line, headers, body)) = Len(buffer) - b
<1> DEFINE c == Conn(stage, n, buffer, b, line, headers, body)
<1>1. c.reader = At(buffer, b)
  BY ConnIs
<1> HIDE DEF c
<1>2. c.reader.buffer = buffer /\ c.reader.base = b
  BY <1>1, AtIs
<1>3. Left(c) = Len(buffer) - b
  BY <1>2, Zenon DEF Left
<1> QED BY <1>3 DEF c

LEMMA GoodIs ==
  ASSUME NEW T, NEW stage, NEW n, NEW buffer, NEW b, NEW line, NEW headers, NEW body,
         Fits(T, stage, buffer, b, headers, body)
  PROVE  Good(T, Conn(stage, n, buffer, b, line, headers, body))
BY Zenon DEF Good

(* The powers of two of atoi: arithmetic that the provers do not know.     *)
PowersOfTwo ==
  2^IntBits \in Nat \ {0} /\ 2^(IntBits - 1) \in Nat /\ 2^SizeBits \in Nat \ {0}

LEMMA LengthsAreInts ==
  ASSUME PowersOfTwo, NEW text
  PROVE  Atoi(text) \in Int
<1>1. ASSUME NEW n \in Int PROVE AsInt(n) \in Int
  <2> DEFINE p == 2^(IntBits - 1)
             q == 2^IntBits
  <2>1. p \in Int /\ q \in Int /\ q > 0
    BY DEF PowersOfTwo
  <2>2. AsInt(n) = ((n + p) % q) - p
    BY Zenon DEF AsInt
  <2> HIDE DEF p, q
  <2> QED BY <2>1, <2>2
<1>2. CASE text # <<>> /\ text[1] \in DOMAIN IntegerOf
  <2>1. text[1] \in {Numeral(n) : n \in Numbers}
    BY <1>2, Zenon DEF IntegerOf
  <2>2. IntegerOf[text[1]] = CHOOSE n \in Numbers : Numeral(n) = text[1]
    BY <2>1, Zenon DEF IntegerOf
  <2>3. IntegerOf[text[1]] \in Numbers
    BY <2>1, <2>2, Zenon
  <2>4. IntegerOf[text[1]] \in Int
    BY <2>3, TextAssumption
  <2> QED BY <1>1, <1>2, <2>4, Zenon DEF Atoi
<1>3. CASE ~(text # <<>> /\ text[1] \in DOMAIN IntegerOf)
  <2>1. Atoi(text) = 0
    BY <1>3, Zenon DEF Atoi
  <2> QED BY <2>1
<1> QED BY <1>2, <1>3

(* A delimiter that was found is past what was read, and stays with the    *)
(* word before it wherever the text goes on.                               *)
LEMMA DelimiterStays ==
  ASSUME NEW T, NEW buffer \in Seq(T), NEW piece \in Seq(T), NEW b \in Nat,
         NEW token, Len(token) \in Nat \ {0}, Where(buffer, b, token) # 0
  PROVE  /\ Past(buffer, b, token) \in Nat
         /\ b < Past(buffer, b, token) /\ Past(buffer, b, token) <= Len(buffer)
         /\ Where(buffer \o piece, b, token) = Where(buffer, b, token)
         /\ Word(buffer \o piece, b, token) = Word(buffer, b, token)
         /\ Past(buffer \o piece, b, token) = Past(buffer, b, token)
<1> DEFINE where == Where(buffer, b, token)
           long == buffer \o piece
<1>1. b + 1 \in Nat \ {0} /\ Len(token) \in Nat \ {0}
  OBVIOUS
<1>2. /\ where \in Nat /\ b + 1 <= where /\ where + Len(token) - 1 <= Len(buffer)
      /\ Where(long, b, token) = where
  BY <1>1, FoundStays, Zenon DEF Where
<1> HIDE DEF where
<1>3. Word(buffer, b, token) = SubSeq(buffer, b + 1, where - 1)
  BY Zenon DEF Word, where
<1>4. Word(long, b, token) = SubSeq(long, b + 1, where - 1)
  BY <1>2, Zenon DEF Word
<1>5. SubSeq(long, b + 1, where - 1) = SubSeq(buffer, b + 1, where - 1)
  <2>1. b + 1 \in Nat /\ b + 1 >= 1 /\ where - 1 \in Nat /\ where - 1 <= Len(buffer)
    BY <1>2
  <2> QED BY <2>1, SubSeqOfBeginning
<1>6. Past(buffer, b, token) = where - 1 + Len(token)
  BY Zenon DEF Past, where
<1>7. Past(long, b, token) = where - 1 + Len(token)
  BY <1>2, Zenon DEF Past
<1>8. where - 1 + Len(token) \in Nat /\ b < where - 1 + Len(token)
      /\ where - 1 + Len(token) <= Len(buffer)
  BY <1>2
<1> HIDE DEF long
<1>9. Word(long, b, token) = Word(buffer, b, token) /\ Past(long, b, token) = Past(buffer, b, token)
  BY <1>3, <1>4, <1>5, <1>6, <1>7, Zenon
<1> QED BY <1>2, <1>6, <1>8, <1>9 DEF where, long

(***************************************************************************)
(* What every step does: it changes nothing, or is the last that changes   *)
(* something, or reads on; and a piece that comes in before it could as    *)
(* well have come in after it, or is made up for by the step that follows. *)
(***************************************************************************)
Proceeds(T, role, c, next, piece) ==
  /\ Good(T, next)
  /\ next = c \/ Step(role, next) = next \/ Left(next) < Left(c)
  /\ \/ next = c
     \/ Step(role, Feed(c, piece)) = Feed(next, piece)
     \/ Step(role, Feed(next, piece)) = Step(role, Feed(c, piece))

(* A step past a delimiter.                                                *)
LEMMA PastADelimiter ==
  ASSUME NEW T, NEW role, NEW stage, stage \in {"line", "headers"}, NEW n, NEW buffer, NEW b,
         NEW line, NEW headers, NEW body, Fits(T, stage, buffer, b, headers, body),
         NEW piece \in Seq(T), NEW token, Len(token) \in Nat \ {0},
         Where(buffer, b, token) # 0,
         NEW later \in Stages, NEW m, NEW lines, NEW heads,
         Step(role, Conn(stage, n, buffer, b, line, headers, body))
           = Conn(later, m, buffer, Past(buffer, b, token), lines, heads, body),
         Step(role, Conn(stage, n, buffer \o piece, b, line, headers, body))
           = Conn(later, m, buffer \o piece, Past(buffer, b, token), lines, heads, body)
  PROVE  LET c == Conn(stage, n, buffer, b, line, headers, body)
         IN  Proceeds(T, role, c, Step(role, c), piece)
<1> DEFINE past == Past(buffer, b, token)
           c == Conn(stage, n, buffer, b, line, headers, body)
           d == Conn(stage, n, buffer \o piece, b, line, headers, body)
           next == Conn(later, m, buffer, past, lines, heads, body)
           then == Conn(later, m, buffer \o piece, past, lines, heads, body)
<1>1. b \in Nat /\ buffer \in Seq(T) /\ body \in Seq(T) /\ b <= Len(buffer)
  BY DEF Fits
<1>2. past \in Nat /\ b < past /\ past <= Len(buffer)
  BY <1>1, DelimiterStays, Zenon
<1> HIDE DEF past
<1>3. Good(T, next)
  <2>1. Unfilled(later, heads, body)
    <3>1. body = <<>>
      BY Zenon DEF Fits, Unfilled
    <3> QED BY <3>1, Zenon DEF Unfilled
  <2>2. Fits(T, later, buffer, past, heads, body)
    BY <1>1, <1>2, <2>1, Zenon DEF Fits
  <2> QED BY <2>2, GoodIs
<1>4. Left(next) < Left(c)
  <2>1. Left(next) = Len(buffer) - past /\ Left(c) = Len(buffer) - b
    BY LeftIs
  <2>2. Len(buffer) \in Nat
    BY <1>1
  <2> HIDE DEF next, c
  <2> QED BY <1>1, <1>2, <2>1, <2>2
<1>5. Feed(c, piece) = d /\ Feed(next, piece) = then
  BY FeedIs
<1>6. Step(role, c) = next /\ Step(role, d) = then
  BY DEF past
<1> HIDE DEF c, d, next, then
<1>7. Proceeds(T, role, c, next, piece)
  BY <1>3, <1>4, <1>5, <1>6, Zenon DEF Proceeds
<1> QED BY <1>6, <1>7 DEF c

(* A step that waits.                                                      *)
LEMMA Waiting ==
  ASSUME NEW T, NEW role, NEW c, NEW piece, Good(T, c), Step(role, c) = c
  PROVE  Proceeds(T, role, c, Step(role, c), piece)
BY Zenon DEF Proceeds

LEMMA LineProceeds ==
  ASSUME NEW T, NEW role, NEW n, NEW buffer, NEW b, NEW line, NEW headers, NEW body,
         Fits(T, "line", buffer, b, headers, body), NEW piece \in Seq(T)
  PROVE  LET c == Conn("line", n, buffer, b, line, headers, body)
         IN  Proceeds(T, role, c, Step(role, c), piece)
<1> DEFINE c == Conn("line", n, buffer, b, line, headers, body)
           long == buffer \o piece
           d == Conn("line", n, long, b, line, headers, body)
           token == LineDelimiter(line)
           word == Word(buffer, b, token)
           past == Past(buffer, b, token)
           longer == Append(line, word)
           stage == IF Len(longer) = 3 THEN "headers" ELSE "line"
<1>1. Good(T, c)
  BY GoodIs
<1>2. Len(token) \in Nat \ {0}
  BY Delimiters, Zenon
<1>3. /\ Where(buffer, b, token) = 0 => Step(role, c) = c
      /\ Where(buffer, b, token) # 0 /\ ~Accepts(role, line, word) =>
           Step(role, c) = Conn("failed", n, buffer, past, line, headers, body)
      /\ Where(buffer, b, token) # 0 /\ Accepts(role, line, word) =>
           Step(role, c) = Conn(stage, n, buffer, past, longer, headers, body)
  BY LineStepIs
<1>4. CASE Where(buffer, b, token) = 0
  <2> HIDE DEF c
  <2>1. Proceeds(T, role, c, Step(role, c), piece)
    BY <1>1, <1>3, <1>4, Waiting
  <2> QED BY <2>1 DEF c
<1>5. CASE Where(buffer, b, token) # 0
  <2>1. /\ Where(long, b, token) = Where(buffer, b, token)
        /\ Word(long, b, token) = word /\ Past(long, b, token) = past
    <3>1. b \in Nat /\ buffer \in Seq(T)
      BY DEF Fits
    <3> HIDE DEF token
    <3> QED BY <1>2, <1>5, <3>1, DelimiterStays
  <2>2. /\ Where(long, b, token) # 0 /\ ~Accepts(role, line, Word(long, b, token)) =>
             Step(role, d) = Conn("failed", n, long, Past(long, b, token), line, headers, body)
        /\ Where(long, b, token) # 0 /\ Accepts(role, line, Word(long, b, token)) =>
             Step(role, d) = Conn(IF Len(Append(line, Word(long, b, token))) = 3
                                  THEN "headers" ELSE "line",
                                  n, long, Past(long, b, token),
                                  Append(line, Word(long, b, token)), headers, body)
    BY LineStepIs
  <2>3. CASE ~Accepts(role, line, word)
    <3>1. /\ Step(role, c) = Conn("failed", n, buffer, past, line, headers, body)
          /\ Step(role, d) = Conn("failed", n, long, past, line, headers, body)
      BY <1>3, <1>5, <2>1, <2>2, <2>3, Zenon
    <3>2. "line" \in {"line", "headers"} /\ "failed" \in Stages
      BY DEF Stages
    <3> HIDE DEF token
    <3> QED BY <1>2, <1>5, <3>1, <3>2, PastADelimiter
  <2>4. CASE Accepts(role, line, word)
    <3>1. /\ Step(role, c) = Conn(stage, n, buffer, past, longer, headers, body)
          /\ Step(role, d) = Conn(stage, n, long, past, longer, headers, body)
      BY <1>3, <1>5, <2>1, <2>2, <2>4, Zenon
    <3>2. "line" \in {"line", "headers"} /\ stage \in Stages
      BY DEF Stages
    <3> HIDE DEF token, longer, stage
    <3> QED BY <1>2, <1>5, <3>1, <3>2, PastADelimiter
  <2> QED BY <2>3, <2>4
<1> QED BY <1>4, <1>5

LEMMA HeaderProceeds ==
  ASSUME NEW T, NEW role, NEW n, NEW buffer, NEW b, NEW line, NEW headers, NEW body,
         Fits(T, "headers", buffer, b, headers, body), NEW piece \in Seq(T)
  PROVE  LET c == Conn("headers", n, buffer, b, line, headers, body)
         IN  Proceeds(T, role, c, Step(role, c), piece)
<1> DEFINE c == Conn("headers", n, buffer, b, line, headers, body)
           long == buffer \o piece
           d == Conn("headers", n, long, b, line, headers, body)
           header == Word(buffer, b, LineFeed)
           past == Past(buffer, b, LineFeed)
<1>1. Good(T, c)
  BY GoodIs
<1>2. CASE n > MaxHeaders
  <2> DEFINE next == Conn("failed", n, buffer, b, line, headers, body)
             then == Conn("failed", n, long, b, line, headers, body)
  <2>1. Step(role, c) = next /\ Step(role, d) = then
    BY <1>2, HeaderStepIs
  <2>2. Feed(c, piece) = d /\ Feed(next, piece) = then
    BY FeedIs
  <2>3. Good(T, next)
    <3>1. Fits(T, "failed", buffer, b, headers, body)
      BY DEF Fits, Stages, Unfilled
    <3> QED BY <3>1, GoodIs
  <2>4. Step(role, next) = next
    <3>1. next.stage = "failed"
      BY ConnIs
    <3> HIDE DEF next
    <3> QED BY <3>1, OverStepIs
  <2> HIDE DEF c, d, next, then
  <2>5. Proceeds(T, role, c, next, piece)
    BY <2>1, <2>2, <2>3, <2>4, Zenon DEF Proceeds
  <2> QED BY <2>1, <2>5 DEF c
<1>3. CASE ~(n > MaxHeaders) /\ Where(buffer, b, LineFeed) = 0
  <2>1. Step(role, c) = c
    BY <1>3, HeaderStepIs
  <2> HIDE DEF c
  <2>2. Proceeds(T, role, c, Step(role, c), piece)
    BY <1>1, <2>1, Waiting
  <2> QED BY <2>2 DEF c
<1>4. CASE ~(n > MaxHeaders) /\ Where(buffer, b, LineFeed) # 0
  <2>1. /\ Where(long, b, LineFeed) = Where(buffer, b, LineFeed)
        /\ Word(long, b, LineFeed) = header /\ Past(long, b, LineFeed) = past
    <3>1. b \in Nat /\ buffer \in Seq(T)
      BY DEF Fits
    <3> QED BY <1>4, <3>1, Delimiters, DelimiterStays
  <2>2. Step(role, c)
          = IF header = <<>> THEN Conn("body", n, buffer, past, line, headers, body)
            ELSE IF Spoiled(header) THEN Conn("failed", n, buffer, past, line, headers, body)
            ELSE Conn("headers", n + 1, buffer, past, line, More(headers, header), body)
    BY <1>4, HeaderStepIs
  <2>3. Step(role, d)
          = IF header = <<>> THEN Conn("body", n, long, past, line, headers, body)
            ELSE IF Spoiled(header) THEN Conn("failed", n, long, past, line, headers, body)
            ELSE Conn("headers", n + 1, long, past, line, More(headers, header), body)
    BY <1>4, <2>1, HeaderStepIs
  <2>4. /\ "headers" \in {"line", "headers"}
        /\ "headers" \in Stages /\ "body" \in Stages /\ "failed" \in Stages
    BY DEF Stages
  <2>5. CASE header = <<>>
    <3>1. /\ Step(role, c) = Conn("body", n, buffer, past, line, headers, body)
          /\ Step(role, d) = Conn("body", n, long, past, line, headers, body)
      BY <2>2, <2>3, <2>5, Zenon
    <3> QED BY <1>4, <2>4, <3>1, Delimiters, PastADelimiter
  <2>6. CASE header # <<>> /\ Spoiled(header)
    <3>1. /\ Step(role, c) = Conn("failed", n, buffer, past, line, headers, body)
          /\ Step(role, d) = Conn("failed", n, long, past, line, headers, body)
      BY <2>2, <2>3, <2>6, Zenon
    <3> QED BY <1>4, <2>4, <3>1, Delimiters, PastADelimiter
  <2>7. CASE header # <<>> /\ ~Spoiled(header)
    <3> DEFINE m == n + 1
               more == More(headers, header)
    <3>1. /\ Step(role, c) = Conn("headers", m, buffer, past, line, more, body)
          /\ Step(role, d) = Conn("headers", m, long, past, line, more, body)
      BY <2>2, <2>3, <2>7, Zenon
    <3> HIDE DEF m, more
    <3> QED BY <1>4, <2>4, <3>1, Delimiters, PastADelimiter
  <2> QED BY <2>5, <2>6, <2>7
<1> QED BY <1>2, <1>3, <1>4

(***************************************************************************)
(* The body: what is there of it is taken at once or in two pieces.        *)
(***************************************************************************)
LEMMA MinOfTwo ==
  ASSUME NEW x \in Int, NEW y \in Int
  PROVE  Min({x, y}) = IF x <= y THEN x ELSE y
<1> DEFINE m == IF x <= y THEN x ELSE y
<1>1. m \in {x, y} /\ \A z \in {x, y} : m <= z
  OBVIOUS
<1>2. ASSUME NEW k \in {x, y}, \A z \in {x, y} : k <= z PROVE k = m
  BY <1>2
<1> HIDE DEF m
<1>3. Min({x, y}) = m
  BY <1>1, <1>2, Zenon DEF Min
<1> QED BY <1>3 DEF m

LEMMA SubSeqIs ==
  ASSUME NEW T, NEW text \in Seq(T), NEW i \in Nat, NEW j \in Int, j <= Len(text)
  PROVE  /\ SubSeq(text, i + 1, j) \in Seq(T)
         /\ i <= j => /\ Len(SubSeq(text, i + 1, j)) = j - i
                      /\ \A k \in 1..(j - i) : SubSeq(text, i + 1, j)[k] = text[i + k]
         /\ j <= i => SubSeq(text, i + 1, j) = <<>>
<1>1. CASE j <= i
  <2>1. SubSeq(text, i + 1, j) = <<>>
    BY <1>1
  <2> QED BY <1>1, <2>1
<1>2. CASE i < j
  <2>1. /\ SubSeq(text, i + 1, j) \in Seq(T) /\ Len(SubSeq(text, i + 1, j)) = j - i
        /\ \A k \in 1..(j - i) : SubSeq(text, i + 1, j)[k] = text[i + k]
    BY <1>2
  <2> QED BY <1>2, <2>1
<1> QED BY <1>1, <1>2

(* What % leaves of a number that is not too far off.                      *)
LEMMA SizeIs ==
  ASSUME PowersOfTwo, NEW x \in Int
  PROVE  /\ AsSize(x) \in Nat /\ AsSize(x) < 2^SizeBits
         /\ 0 <= x /\ x < 2^SizeBits => AsSize(x) = x
         /\ 2^SizeBits <= x /\ x < 2^SizeBits + 2^SizeBits => AsSize(x) = x - 2^SizeBits
<1> DEFINE m == 2^SizeBits
<1>1. m \in Nat \ {0}
  BY DEF PowersOfTwo
<1>2. AsSize(x) = x % m
  BY Zenon DEF AsSize
<1> HIDE DEF m
<1>3. x % m \in Nat /\ x % m < m
  BY <1>1
<1>4. 0 <= x /\ x < m => x % m = x
  BY <1>1
<1>5. m <= x /\ x < m + m => x % m = x - m
  BY <1>1
<1>6. /\ AsSize(x) \in Nat /\ AsSize(x) < m
      /\ 0 <= x /\ x < m => AsSize(x) = x
      /\ m <= x /\ x < m + m => AsSize(x) = x - m
  BY <1>2, <1>3, <1>4, <1>5
<1> QED BY <1>6 DEF m

(* How far Tok(length) reads: as far as there is text, unless the sum of   *)
(* the position and the length is more than a size_t holds.                *)
LEMMA UntilIs ==
  ASSUME PowersOfTwo, NEW T, NEW text \in Seq(T), NEW i \in Nat, i <= Len(text),
         NEW m \in Nat, m < 2^SizeBits
  PROVE  /\ i + m < 2^SizeBits =>
              Until(text, i, m) = IF i + m <= Len(text) THEN i + m ELSE Len(text)
         /\ ~(i + m < 2^SizeBits) /\ i = Len(text) => Until(text, i, m) = i
         /\ ~(i + m < 2^SizeBits) /\ i # Len(text) => Until(text, i, m) < i
<1> DEFINE most == 2^SizeBits
           size == Len(text)
           sum == AsSize(i + m)
<1>1. most \in Nat \ {0} /\ size \in Nat /\ i + m \in Nat /\ m < most /\ i <= size
  BY DEF PowersOfTwo
<1>2. /\ sum \in Nat /\ sum < most
      /\ i + m < most => sum = i + m
      /\ most <= i + m /\ i + m < most + most => sum = i + m - most
  <2> DEFINE x == i + m
  <2>1. x \in Int /\ 0 <= x
    BY <1>1
  <2> HIDE DEF x, most
  <2>2. /\ AsSize(x) \in Nat /\ AsSize(x) < most
        /\ 0 <= x /\ x < most => AsSize(x) = x
        /\ most <= x /\ x < most + most => AsSize(x) = x - most
    BY <2>1, SizeIs, Zenon DEF most
  <2>3. sum = AsSize(x) /\ x = i + m
    BY Zenon DEF x
  <2> HIDE DEF sum
  <2> QED BY <1>1, <2>1, <2>2, <2>3
<1>3. Until(text, i, m) = IF i = size THEN i ELSE Min({sum, size})
  BY Zenon DEF Until
<1> HIDE DEF most, size, sum
<1>4. Min({sum, size}) = IF sum <= size THEN sum ELSE size
  BY <1>1, <1>2, MinOfTwo
<1>5. /\ i + m < most => Until(text, i, m) = IF i + m <= size THEN i + m ELSE size
      /\ ~(i + m < most) /\ i = size => Until(text, i, m) = i
      /\ ~(i + m < most) /\ i # size => Until(text, i, m) < i
  <2>1. CASE i = size
    BY <1>1, <1>3, <2>1
  <2>2. CASE i # size /\ i + m < most
    <3>1. sum = i + m
      BY <1>2, <2>2
    <3>2. Until(text, i, m) = IF sum <= size THEN sum ELSE size
      BY <1>3, <1>4, <2>2, Zenon
    <3> QED BY <2>2, <3>1, <3>2
  <2>3. CASE i # size /\ ~(i + m < most)
    <3>1. sum < i
      <4>1. CASE i + m < most + most
        BY <1>1, <1>2, <2>3, <4>1
      <4>2. CASE ~(i + m < most + most)
        BY <1>1, <1>2, <4>2
      <4> QED BY <4>1, <4>2
    <3>2. Min({sum, size}) = sum
      BY <1>1, <1>2, <1>4, <3>1
    <3>3. Until(text, i, m) = sum
      BY <1>3, <2>3, <3>2, Zenon
    <3> QED BY <2>3, <3>1, <3>3
  <2> QED BY <2>1, <2>2, <2>3
<1> QED BY <1>5 DEF most, size

(* What is missing of a body is what the content length leaves.            *)
LEMMA LackingIs ==
  ASSUME PowersOfTwo, NEW T, NEW headers, NEW body \in Seq(T)
  PROVE  /\ LengthIn(headers) \in Nat /\ LengthIn(headers) < 2^SizeBits
         /\ Len(body) <= LengthIn(headers) =>
              Lacking(headers, body) = LengthIn(headers) - Len(body)
<1> DEFINE text == IF <<"content-length">> \in DOMAIN headers
                   THEN headers[<<"content-length">>] ELSE <<>>
           length == LengthIn(headers)
           most == 2^SizeBits
<1>1. length = AsSize(Atoi(text))
  BY Zenon DEF LengthIn
<1>2. Atoi(text) \in Int
  BY LengthsAreInts
<1>3. Lacking(headers, body) = AsSize(length - Len(body))
  BY Zenon DEF Lacking
<1> HIDE DEF text, length
<1>4. length \in Nat /\ length < most
  <2>1. AsSize(Atoi(text)) \in Nat /\ AsSize(Atoi(text)) < most
    BY <1>2, SizeIs
  <2> QED BY <1>1, <2>1, Zenon
<1>5. ASSUME Len(body) <= length PROVE AsSize(length - Len(body)) = length - Len(body)
  <2> DEFINE x == length - Len(body)
  <2>1. most \in Nat
    BY DEF PowersOfTwo
  <2> HIDE DEF most
  <2>2. x \in Int /\ 0 <= x /\ x < most
    BY <1>4, <1>5, <2>1
  <2> HIDE DEF x
  <2>3. AsSize(x) = x
    BY <2>2, SizeIs DEF most
  <2> QED BY <2>3 DEF x
<1> QED BY <1>3, <1>4, <1>5 DEF length

LEMMA BodyProceeds ==
  ASSUME PowersOfTwo,
         NEW T, NEW role, NEW n, NEW buffer, NEW b, NEW line, NEW headers, NEW body,
         Fits(T, "body", buffer, b, headers, body), NEW piece \in Seq(T)
  PROVE  LET c == Conn("body", n, buffer, b, line, headers, body)
         IN  Proceeds(T, role, c, Step(role, c), piece)
<1> DEFINE c == Conn("body", n, buffer, b, line, headers, body)
           long == buffer \o piece
           d == Conn("body", n, long, b, line, headers, body)
           length == LengthIn(headers)
           most == 2^SizeBits
           missing == Lacking(headers, body)
           size == Len(buffer)
           longer == body \o Piece(buffer, b, missing)
           past == Until(buffer, b, missing)
<1>1. /\ buffer \in Seq(T) /\ body \in Seq(T) /\ long \in Seq(T)
      /\ b \in Nat /\ b <= size /\ size \in Nat /\ size <= Len(long) /\ Len(long) \in Nat
      /\ Len(body) \in Nat
  BY DEF Fits
<1>2. length \in Nat /\ length < most /\ most \in Nat \ {0}
  BY <1>1, LackingIs DEF PowersOfTwo
<1>3. /\ Step(role, c)
           = IF length = 0 THEN Conn("end", n, buffer, b, line, headers, body)
             ELSE IF past < b THEN Conn("thrown", n, buffer, b, line, headers, body)
             ELSE Conn(IF Len(longer) < length THEN "body" ELSE "end",
                       n, buffer, past, line, headers, longer)
      /\ Step(role, d)
           = IF length = 0 THEN Conn("end", n, long, b, line, headers, body)
             ELSE IF Until(long, b, missing) < b
             THEN Conn("thrown", n, long, b, line, headers, body)
             ELSE Conn(IF Len(body \o Piece(long, b, missing)) < length THEN "body" ELSE "end",
                       n, long, Until(long, b, missing), line, headers,
                       body \o Piece(long, b, missing))
  BY BodyStepIs
<1>4. Feed(c, piece) = d
  BY FeedIs
<1>5. /\ long = buffer \o piece /\ size = Len(buffer)
      /\ longer = body \o Piece(buffer, b, missing)
      /\ past = Until(buffer, b, missing)
  OBVIOUS
<1>6. ASSUME length # 0
      PROVE  /\ Len(body) < length /\ missing = length - Len(body)
             /\ missing \in Nat \ {0} /\ missing < most
  <2>1. body = <<>> \/ Len(body) < length
    BY DEF Fits, Unfilled
  <2>2. Len(body) < length
    <3> HIDE DEF length
    <3> QED BY <1>2, <1>6, <2>1
  <2>3. Len(body) <= length => missing = length - Len(body)
    BY <1>1, LackingIs
  <2> HIDE DEF length, missing, most
  <2> QED BY <1>1, <1>2, <2>2, <2>3
<1>7. ASSUME NEW text \in Seq(T), NEW i \in Nat, i <= Len(text), NEW m \in Nat, m < most,
             i + m < most
      PROVE  Until(text, i, m) = IF i + m <= Len(text) THEN i + m ELSE Len(text)
  BY <1>7, UntilIs
<1>8. ASSUME NEW text \in Seq(T), b <= Len(text), length # 0, ~(b + missing < most)
      PROVE  /\ b = Len(text) => Until(text, b, missing) = b
             /\ b # Len(text) => Until(text, b, missing) < b
  <2>1. b \in Nat /\ missing \in Nat /\ missing < most
    BY <1>1, <1>6, <1>8
  <2> HIDE DEF missing
  <2> QED BY <1>8, <2>1, UntilIs
<1> HIDE DEF long, length, most, missing, size, longer, past
<1>9. CASE length = 0
  <2> DEFINE next == Conn("end", n, buffer, b, line, headers, body)
             then == Conn("end", n, long, b, line, headers, body)
  <2>1. Step(role, c) = next /\ Step(role, d) = then
    BY <1>3, <1>9
  <2>2. Feed(next, piece) = then
    BY <1>5, FeedIs
  <2>3. Good(T, next)
    <3>1. Fits(T, "end", buffer, b, headers, body)
      BY <1>1, <1>5 DEF Fits, Stages, Unfilled
    <3> QED BY <3>1, GoodIs
  <2>4. Step(role, next) = next
    <3>1. next.stage = "end"
      BY ConnIs
    <3> HIDE DEF next
    <3> QED BY <3>1, OverStepIs
  <2> HIDE DEF c, d, next, then
  <2>5. Proceeds(T, role, c, next, piece)
    BY <1>4, <2>1, <2>2, <2>3, <2>4, Zenon DEF Proceeds
  <2> QED BY <2>1, <2>5 DEF c
<1>10. CASE length # 0 /\ b + missing < most /\ b + missing <= size
  <2> DEFINE until == b + missing
             next == Conn("end", n, buffer, until, line, headers, longer)
             then == Conn("end", n, long, until, line, headers, longer)
  <2>1. /\ until \in Nat /\ b <= until /\ until <= Len(buffer) /\ until <= Len(long)
        /\ until - b = missing
    BY <1>1, <1>5, <1>6, <1>10
  <2>2. past = until /\ Until(long, b, missing) = until /\ ~(until < b)
    <3>1. missing \in Nat /\ missing < most /\ b \in Nat /\ b <= Len(buffer) /\ b <= Len(long)
      BY <1>1, <1>5, <1>6, <1>10
    <3>2. /\ past = IF until <= Len(buffer) THEN until ELSE Len(buffer)
          /\ Until(long, b, missing) = IF until <= Len(long) THEN until ELSE Len(long)
      BY <1>1, <1>5, <1>7, <1>10, <3>1, Zenon
    <3>3. ~(until < b)
      BY <1>1, <2>1
    <3> HIDE DEF until
    <3> QED BY <2>1, <3>2, <3>3, Zenon
  <2> HIDE DEF until
  <2>3. /\ Piece(long, b, missing) = Piece(buffer, b, missing)
        /\ Piece(buffer, b, missing) \in Seq(T)
        /\ Len(Piece(buffer, b, missing)) = missing
    <3>1. /\ Piece(buffer, b, missing) = SubSeq(buffer, b + 1, until)
          /\ Piece(long, b, missing) = SubSeq(long, b + 1, until)
      BY <1>5, <2>2, Zenon DEF Piece
    <3>2. SubSeq(long, b + 1, until) = SubSeq(buffer, b + 1, until)
      <4>1. b + 1 \in Nat /\ b + 1 >= 1
        BY <1>1
      <4> QED BY <1>1, <1>5, <2>1, <4>1, SubSeqOfBeginning
    <3>3. /\ SubSeq(buffer, b + 1, until) \in Seq(T)
          /\ Len(SubSeq(buffer, b + 1, until)) = until - b
      BY <1>1, <2>1, SubSeqIs
    <3> QED BY <2>1, <3>1, <3>2, <3>3, Zenon
  <2>4. longer \in Seq(T) /\ ~(Len(longer) < length)
    <3> DEFINE part == Piece(buffer, b, missing)
    <3>1. longer = body \o part /\ part \in Seq(T) /\ Len(part) = missing
      BY <1>5, <2>3, Zenon
    <3> HIDE DEF part
    <3>2. body \in Seq(T)
      BY <1>1
    <3>3. body \o part \in Seq(T) /\ Len(body \o part) = Len(body) + Len(part)
      BY <3>1, <3>2, ConcatProperties
    <3>4. Len(longer) = length
      BY <1>1, <1>2, <1>6, <1>10, <3>1, <3>3
    <3> QED BY <1>2, <3>1, <3>3, <3>4
  <2>5. Step(role, c) = next
    BY <1>3, <1>10, <2>2, <2>4, Zenon
  <2>6. Step(role, d) = then
    BY <1>3, <1>5, <1>10, <2>2, <2>3, <2>4, Zenon
  <2>7. Feed(next, piece) = then
    BY <1>5, FeedIs
  <2>8. Good(T, next)
    <3>1. Unfilled("end", headers, longer)
      BY DEF Unfilled
    <3>2. Fits(T, "end", buffer, until, headers, longer)
      BY <1>1, <2>1, <2>4, <3>1 DEF Fits, Stages
    <3> QED BY <3>2, GoodIs
  <2>9. Step(role, next) = next
    <3>1. next.stage = "end"
      BY ConnIs
    <3> HIDE DEF next
    <3> QED BY <3>1, OverStepIs
  <2> HIDE DEF c, d, next, then
  <2>10. Proceeds(T, role, c, next, piece)
    BY <1>4, <2>5, <2>6, <2>7, <2>9, <2>8, Zenon DEF Proceeds
  <2> QED BY <2>5, <2>10 DEF c
<1>11. CASE length # 0 /\ b + missing < most /\ ~(b + missing <= size)
  <2> DEFINE next == Conn("body", n, buffer, size, line, headers, longer)
             fed == Conn("body", n, long, size, line, headers, longer)
             rest == Lacking(headers, longer)
  <2>1. past = size /\ ~(size < b)
    <3>1. missing \in Nat /\ missing < most /\ b <= Len(buffer)
      BY <1>1, <1>5, <1>6, <1>11
    <3>2. past = IF b + missing <= Len(buffer) THEN b + missing ELSE Len(buffer)
      BY <1>1, <1>5, <1>7, <1>11, <3>1, Zenon
    <3>3. ~(size < b)
      BY <1>1
    <3> QED BY <1>5, <1>11, <3>2, <3>3, Zenon
  <2>2. /\ Piece(buffer, b, missing) = SubSeq(buffer, b + 1, size)
        /\ SubSeq(buffer, b + 1, size) \in Seq(T)
        /\ Len(SubSeq(buffer, b + 1, size)) = size - b
    <3>1. Piece(buffer, b, missing) = SubSeq(buffer, b + 1, size)
      BY <1>5, <2>1, Zenon DEF Piece
    <3>2. size \in Int /\ size <= Len(buffer)
      BY <1>1, <1>5
    <3> QED BY <1>1, <3>1, <3>2, SubSeqIs
  <2>3. longer \in Seq(T) /\ Len(longer) = Len(body) + (size - b)
    <3> DEFINE part == SubSeq(buffer, b + 1, size)
    <3>1. longer = body \o part /\ part \in Seq(T) /\ Len(part) = size - b
      BY <1>5, <2>2, Zenon
    <3> HIDE DEF part
    <3>2. body \in Seq(T)
      BY <1>1
    <3>3. body \o part \in Seq(T) /\ Len(body \o part) = Len(body) + Len(part)
      BY <3>1, <3>2, ConcatProperties
    <3> QED BY <3>1, <3>3, Zenon
  <2>4. /\ Len(longer) < length /\ size + rest = b + missing
        /\ rest \in Nat /\ rest < most /\ ~(size + rest <= size)
    <3>1. Len(longer) <= length => rest = length - Len(longer)
      BY <2>3, LackingIs DEF length
    <3>2. ASSUME NEW w \in Nat, NEW v \in Nat, NEW r, missing = length - w,
                 v = w + (size - b), v <= length => r = length - v
          PROVE  /\ v < length /\ size + r = b + missing /\ r \in Nat /\ r < most
                 /\ ~(size + r <= size)
      <4>1. v < length /\ v <= length
        BY <1>1, <1>2, <1>11, <3>2
      <4>2. r = length - v
        BY <3>2, <4>1
      <4> QED BY <1>1, <1>2, <1>11, <3>2, <4>1, <4>2
    <3>3. Len(body) \in Nat /\ Len(longer) \in Nat
      BY <1>1, <2>3
    <3>4. missing = length - Len(body)
      BY <1>6, <1>11
    <3> HIDE DEF rest
    <3> QED BY <2>3, <3>1, <3>2, <3>3, <3>4, Zenon
  <2> HIDE DEF rest
  <2>5. Step(role, c) = next
    BY <1>3, <1>11, <2>1, <2>4, Zenon
  <2>6. Step(role, next) = next
    <3>1. Until(buffer, size, rest) = size
      <4>1. Until(buffer, size, rest)
              = IF size + rest <= Len(buffer) THEN size + rest ELSE Len(buffer)
        <5>1. size \in Nat /\ size <= Len(buffer) /\ size + rest < most
          BY <1>1, <1>5, <1>11, <2>4
        <5> QED BY <1>1, <1>7, <2>4, <5>1, Zenon
      <4> QED BY <1>5, <2>4, <4>1, Zenon
    <3>2. Piece(buffer, size, rest) = <<>>
      <4>1. Piece(buffer, size, rest) = SubSeq(buffer, size + 1, size)
        BY <3>1, Zenon DEF Piece
      <4>2. size \in Nat /\ size <= Len(buffer)
        BY <1>1, <1>5
      <4> QED BY <1>1, <4>1, <4>2, SubSeqIs
    <3>3. longer \o Piece(buffer, size, rest) = longer
      BY <2>3, <3>2
    <3>4. ~(size < size)
      BY <1>1
    <3>5. Step(role, next)
            = IF length = 0 THEN Conn("end", n, buffer, size, line, headers, longer)
              ELSE IF Until(buffer, size, rest) < size
              THEN Conn("thrown", n, buffer, size, line, headers, longer)
              ELSE Conn(IF Len(longer \o Piece(buffer, size, rest)) < length
                        THEN "body" ELSE "end",
                        n, buffer, Until(buffer, size, rest), line, headers,
                        longer \o Piece(buffer, size, rest))
      BY BodyStepIs DEF length, rest
    <3> QED BY <1>11, <2>4, <3>1, <3>3, <3>4, <3>5, Zenon
  <2>7. Step(role, fed) = Step(role, d)
    <3> DEFINE until == Until(long, b, missing)
    <3>1. /\ Until(long, size, rest) = until /\ until \in Nat
          /\ size <= until /\ until <= Len(long) /\ ~(until < size) /\ ~(until < b)
      <4>1. /\ until = IF b + missing <= Len(long) THEN b + missing ELSE Len(long)
            /\ Until(long, size, rest)
                 = IF size + rest <= Len(long) THEN size + rest ELSE Len(long)
        <5>1. /\ missing \in Nat /\ missing < most /\ b <= Len(long)
              /\ size \in Nat /\ size <= Len(long) /\ size + rest < most
          BY <1>1, <1>6, <1>11, <2>4
        <5> QED BY <1>1, <1>7, <1>11, <2>4, <5>1, Zenon
      <4>2. b + missing \in Nat /\ size <= b + missing
        BY <1>1, <1>6, <1>11
      <4> HIDE DEF until
      <4> QED BY <1>1, <2>4, <4>1, <4>2
    <3>2. longer \o Piece(long, size, rest) = body \o Piece(long, b, missing)
      <4> DEFINE x == SubSeq(long, b + 1, size)
                 y == SubSeq(long, size + 1, until)
                 z == SubSeq(long, b + 1, until)
      <4>1. Piece(long, size, rest) = y
        BY <3>1, Zenon DEF Piece
      <4>2. Piece(long, b, missing) = z
        BY Zenon DEF Piece
      <4> HIDE DEF until
      <4>3. x \o y = z
        <5>1. /\ b + 1 \in 1..(Len(long) + 1) /\ size \in ((b + 1) - 1)..Len(long)
              /\ until \in size..Len(long)
          BY <1>1, <3>1
        <5> QED BY <1>1, <5>1, ConcatAdjacentSubSeq
      <4>4. x = SubSeq(buffer, b + 1, size)
        <5>1. b + 1 \in Nat /\ b + 1 >= 1 /\ size \in Nat /\ size <= Len(buffer)
          BY <1>1, <1>5
        <5> QED BY <1>1, <1>5, <5>1, SubSeqOfBeginning
      <4>5. longer = body \o x
        BY <1>5, <2>2, <4>4, Zenon
      <4>6. x \in Seq(T) /\ y \in Seq(T)
        <5>1. x \in Seq(T)
          BY <2>2, <4>4, Zenon
        <5>2. y \in Seq(T)
          BY <1>1, <3>1, SubSeqIs
        <5> QED BY <5>1, <5>2
      <4> HIDE DEF x, y, z
      <4>7. (body \o x) \o y = body \o (x \o y)
        <5>1. body \in Seq(T) /\ x \in Seq(T) /\ y \in Seq(T)
          BY <1>1, <4>6
        <5> QED BY <5>1, ConcatAssociative
      <4>8. longer \o y = body \o z
        BY <4>3, <4>5, <4>7, Zenon
      <4> QED BY <4>1, <4>2, <4>8, Zenon
    <3>3. Step(role, fed)
            = IF length = 0 THEN Conn("end", n, long, size, line, headers, longer)
              ELSE IF Until(long, size, rest) < size
              THEN Conn("thrown", n, long, size, line, headers, longer)
              ELSE Conn(IF Len(longer \o Piece(long, size, rest)) < length
                        THEN "body" ELSE "end",
                        n, long, Until(long, size, rest), line, headers,
                        longer \o Piece(long, size, rest))
      BY BodyStepIs DEF length, rest
    <3> HIDE DEF fed, d
    <3> QED BY <1>3, <1>11, <3>1, <3>2, <3>3, Zenon
  <2>8. Feed(next, piece) = fed
    BY <1>5, FeedIs
  <2>9. Good(T, next)
    <3>1. Unfilled("body", headers, longer)
      BY <2>4 DEF Unfilled, length
    <3>2. Fits(T, "body", buffer, size, headers, longer)
      BY <1>1, <1>5, <2>3, <3>1 DEF Fits, Stages
    <3> QED BY <3>2, GoodIs
  <2> HIDE DEF c, d, next, fed
  <2>10. Proceeds(T, role, c, next, piece)
    BY <1>4, <2>5, <2>6, <2>7, <2>8, <2>9, Zenon DEF Proceeds
  <2> QED BY <2>5, <2>10 DEF c
<1>12. CASE length # 0 /\ ~(b + missing < most) /\ b = size
  <2>1. past = b
    BY <1>1, <1>5, <1>8, <1>12
  <2>2. Piece(buffer, b, missing) = <<>>
    <3>1. Piece(buffer, b, missing) = SubSeq(buffer, b + 1, b)
      BY <1>5, <2>1, Zenon DEF Piece
    <3>2. b <= Len(buffer)
      BY <1>1, <1>5
    <3> QED BY <1>1, <3>1, <3>2, SubSeqIs
  <2>3. longer = body
    BY <1>1, <1>5, <2>2
  <2>4. Len(longer) < length /\ ~(past < b)
    BY <1>1, <1>6, <1>12, <2>1, <2>3
  <2>5. Step(role, c) = c
    BY <1>3, <1>12, <2>1, <2>3, <2>4, Zenon
  <2>6. Good(T, c)
    BY GoodIs
  <2> HIDE DEF c
  <2>7. Proceeds(T, role, c, Step(role, c), piece)
    BY <2>5, <2>6, Waiting
  <2> QED BY <2>7 DEF c
<1>13. CASE length # 0 /\ ~(b + missing < most) /\ b # size
  <2> DEFINE next == Conn("thrown", n, buffer, b, line, headers, body)
             then == Conn("thrown", n, long, b, line, headers, body)
  <2>1. past < b /\ Until(long, b, missing) < b
    <3>1. b <= Len(buffer) /\ b # Len(buffer) /\ b <= Len(long) /\ b # Len(long)
      BY <1>1, <1>5, <1>13
    <3> QED BY <1>1, <1>5, <1>8, <1>13, <3>1
  <2>2. Step(role, c) = next /\ Step(role, d) = then
    BY <1>3, <1>13, <2>1, Zenon
  <2>3. Feed(next, piece) = then
    BY <1>5, FeedIs
  <2>4. Good(T, next)
    <3>1. Fits(T, "thrown", buffer, b, headers, body)
      BY <1>1, <1>5 DEF Fits, Stages, Unfilled
    <3> QED BY <3>1, GoodIs
  <2>5. Step(role, next) = next
    <3>1. next.stage = "thrown"
      BY ConnIs
    <3> HIDE DEF next
    <3> QED BY <3>1, OverStepIs
  <2> HIDE DEF c, d, next, then
  <2>6. Proceeds(T, role, c, next, piece)
    BY <1>4, <2>2, <2>3, <2>4, <2>5, Zenon DEF Proceeds
  <2> QED BY <2>2, <2>6 DEF c
<1> QED BY <1>9, <1>10, <1>11, <1>12, <1>13

LEMMA EveryStepProceeds ==
  ASSUME PowersOfTwo, NEW T, NEW role, NEW c, Good(T, c), NEW piece \in Seq(T)
  PROVE  Proceeds(T, role, c, Step(role, c), piece)
<1>1. PICK stage, n, buffer, b, line, headers, body :
        c = Conn(stage, n, buffer, b, line, headers, body) /\ Fits(T, stage, buffer, b, headers, body)
  BY Zenon DEF Good
<1>2. stage \in Stages
  BY <1>1 DEF Fits
<1>3. CASE stage = "line"
  BY <1>1, <1>3, LineProceeds, Zenon
<1>4. CASE stage = "headers"
  BY <1>1, <1>4, HeaderProceeds, Zenon
<1>5. CASE stage = "body"
  BY <1>1, <1>5, BodyProceeds, Zenon
<1>6. CASE stage \in {"end", "failed", "thrown"}
  <2>1. c.stage = stage
    BY <1>1, ConnIs
  <2>2. Step(role, c) = c
    BY <1>6, <2>1, OverStepIs
  <2> QED BY <2>2, Waiting
<1> QED BY <1>2, <1>3, <1>4, <1>5, <1>6 DEF Stages

LEMMA StepIsGood ==
  ASSUME PowersOfTwo, NEW T, NEW role, NEW c, Good(T, c)
  PROVE  /\ Good(T, Step(role, c))
         /\ \/ Step(role, c) = c
            \/ Step(role, Step(role, c)) = Step(role, c)
            \/ Left(Step(role, c)) < Left(c)
<1>1. <<>> \in Seq(T)
  OBVIOUS
<1>2. Proceeds(T, role, c, Step(role, c), <<>>)
  BY <1>1, EveryStepProceeds
<1> QED BY <1>2, Zenon DEF Proceeds

LEMMA FedIsGood ==
  ASSUME NEW T, NEW c, Good(T, c), NEW piece \in Seq(T)
  PROVE  Good(T, Feed(c, piece))
<1>1. PICK stage, n, buffer, b, line, headers, body :
        c = Conn(stage, n, buffer, b, line, headers, body) /\ Fits(T, stage, buffer, b, headers, body)
  BY Zenon DEF Good
<1> DEFINE long == buffer \o piece
<1>2. Feed(c, piece) = Conn(stage, n, long, b, line, headers, body)
  BY <1>1, FeedIs
<1>3. Fits(T, stage, long, b, headers, body)
  <2>1. /\ stage \in Stages /\ buffer \in Seq(T) /\ body \in Seq(T) /\ b \in Nat
        /\ b <= Len(buffer) /\ Unfilled(stage, headers, body)
    BY <1>1, Zenon DEF Fits
  <2>2. long \in Seq(T) /\ Len(long) = Len(buffer) + Len(piece)
    BY <2>1, ConcatProperties
  <2>3. Len(buffer) \in Nat /\ Len(piece) \in Nat
    BY <2>1
  <2>4. b <= Len(long)
    <3> HIDE DEF long
    <3> QED BY <2>1, <2>2, <2>3
  <2> HIDE DEF long
  <2> QED BY <2>1, <2>2, <2>4, Zenon DEF Fits
<1> HIDE DEF long
<1> QED BY <1>2, <1>3, GoodIs

LEMMA LeftIsNat ==
  ASSUME NEW T, NEW c, Good(T, c)
  PROVE  Left(c) \in Nat
<1>1. PICK stage, n, buffer, b, line, headers, body :
        c = Conn(stage, n, buffer, b, line, headers, body) /\ Fits(T, stage, buffer, b, headers, body)
  BY Zenon DEF Good
<1>2. Left(c) = Len(buffer) - b
  BY <1>1, LeftIs
<1>3. Len(buffer) \in Nat /\ b \in Nat /\ b <= Len(buffer)
  BY <1>1 DEF Fits
<1> QED BY <1>2, <1>3

(***************************************************************************)
(* Parse takes steps enough: after them nothing is left to do.             *)
(***************************************************************************)
LEMMA RunSettles ==
  ASSUME PowersOfTwo, NEW T, NEW role, NEW c, Good(T, c)
  PROVE  Step(role, Run(role, c)[Left(c) + 1]) = Run(role, c)[Left(c) + 1]
<1> DEFINE Settled(d, n) == Step(role, Run(role, d)[n]) = Run(role, d)[n]
           S == {m \in Nat : \A d : Good(T, d) /\ Left(d) <= m => Settled(d, m + 1)}
<1>1. ASSUME NEW d, NEW m \in Nat, Settled(d, 0) \/ Settled(d, 1) PROVE Settled(d, m + 1)
  <2>1. CASE Settled(d, 0)
    <3>1. 0 \in Nat /\ m + 1 \in Nat /\ 0 <= m + 1
      OBVIOUS
    <3>2. Run(role, d)[m + 1] = Run(role, d)[0]
      BY <2>1, <3>1, RunStays
    <3> QED BY <2>1, <3>2, Zenon
  <2>2. CASE Settled(d, 1)
    <3>1. 1 \in Nat /\ m + 1 \in Nat /\ 1 <= m + 1
      OBVIOUS
    <3>2. Run(role, d)[m + 1] = Run(role, d)[1]
      BY <2>2, <3>1, RunStays
    <3> QED BY <2>2, <3>2, Zenon
  <2> QED BY <1>1, <2>1, <2>2
<1>2. ASSUME NEW d, Good(T, d)
      PROVE  \/ Settled(d, 0) \/ Settled(d, 1)
             \/ Left(Step(role, d)) < Left(d)
  <2>1. Run(role, d)[0] = d /\ Run(role, d)[1] = Step(role, d)
    <3>1. 0 \in Nat /\ 0 + 1 = 1
      OBVIOUS
    <3>2. Run(role, d)[0] = d /\ Run(role, d)[0 + 1] = Step(role, Run(role, d)[0])
      BY <3>1, RunSteps
    <3> QED BY <3>1, <3>2, Zenon
  <2>2. \/ Step(role, d) = d \/ Step(role, Step(role, d)) = Step(role, d)
        \/ Left(Step(role, d)) < Left(d)
    BY <1>2, StepIsGood, Zenon
  <2> QED BY <2>1, <2>2, Zenon
<1>3. 0 \in S
  <2> SUFFICES ASSUME NEW d, Good(T, d), Left(d) <= 0 PROVE Settled(d, 0 + 1)
    OBVIOUS
  <2>1. Good(T, Step(role, d))
    BY StepIsGood
  <2>2. Left(d) \in Nat /\ Left(Step(role, d)) \in Nat
    BY <2>1, LeftIsNat
  <2>3. ~(Left(Step(role, d)) < Left(d))
    BY <2>2
  <2>4. 0 \in Nat
    OBVIOUS
  <2> QED BY <1>1, <1>2, <2>3, <2>4, Zenon
<1>4. ASSUME NEW m \in Nat, m \in S PROVE m + 1 \in S
  <2> SUFFICES ASSUME NEW d, Good(T, d), Left(d) <= m + 1 PROVE Settled(d, (m + 1) + 1)
    OBVIOUS
  <2>1. m + 1 \in Nat
    OBVIOUS
  <2>2. CASE Settled(d, 0) \/ Settled(d, 1)
    BY <1>1, <2>1, <2>2, Zenon
  <2>3. CASE Left(Step(role, d)) < Left(d)
    <3>1. Good(T, Step(role, d))
      BY StepIsGood
    <3>2. Left(d) \in Nat /\ Left(Step(role, d)) \in Nat
      BY <3>1, LeftIsNat
    <3>3. Left(Step(role, d)) <= m
      BY <2>3, <3>2
    <3>4. Settled(Step(role, d), m + 1)
      BY <1>4, <3>1, <3>3
    <3>5. Run(role, Step(role, d))[m + 1] = Run(role, d)[(m + 1) + 1]
      BY <2>1, RunShift
    <3> QED BY <3>4, <3>5, Zenon
  <2> QED BY <1>2, <2>2, <2>3, Zenon
<1>5. Left(c) \in Nat
  BY LeftIsNat
<1>6. Left(c) \in S
  <2> HIDE DEF S
  <2> QED BY <1>3, <1>4, <1>5, Climb
<1>7. Left(c) <= Left(c)
  BY <1>5
<1> QED BY <1>6, <1>7

LEMMA ParseIs ==
  ASSUME PowersOfTwo, NEW T, NEW role, NEW c, Good(T, c), NEW n \in Nat, Left(c) + 1 <= n
  PROVE  Run(role, c)[n] = Parse(role, c)
<1> DEFINE m == Left(c) + 1
<1>1. m \in Nat /\ m <= m + 1 /\ m + 1 \in Nat /\ m + 1 = Left(c) + 2
  BY LeftIsNat
<1>2. Step(role, Run(role, c)[m]) = Run(role, c)[m]
  BY RunSettles
<1>3. Parse(role, c) = Run(role, c)[Left(c) + 2]
  BY ParseIsRun, Zenon DEF Left
<1>4. m <= n
  OBVIOUS
<1> HIDE DEF m
<1>5. Run(role, c)[n] = Run(role, c)[m] /\ Run(role, c)[m + 1] = Run(role, c)[m]
  BY <1>1, <1>2, <1>4, RunStays
<1> QED BY <1>1, <1>3, <1>5, Zenon

(* A step taken in advance changes nothing ...                             *)
LEMMA ParseOfStep ==
  ASSUME PowersOfTwo, NEW T, NEW role, NEW c, Good(T, c)
  PROVE  Parse(role, Step(role, c)) = Parse(role, c)
<1> DEFINE d == Step(role, c)
           n == Left(c) + Left(d) + 1
<1>1. Good(T, d)
  BY StepIsGood
<1> HIDE DEF d
<1>2. Left(c) \in Nat /\ Left(d) \in Nat
  BY <1>1, LeftIsNat
<1>3. n \in Nat /\ n + 1 \in Nat /\ Left(d) + 1 <= n /\ Left(c) + 1 <= n + 1
  BY <1>2
<1> HIDE DEF n
<1>4. Run(role, d)[n] = Parse(role, d)
  BY <1>1, <1>3, ParseIs
<1>5. Run(role, c)[n + 1] = Parse(role, c)
  BY <1>3, ParseIs
<1>6. Run(role, d)[n] = Run(role, c)[n + 1]
  BY <1>3, RunShift DEF d
<1> QED BY <1>4, <1>5, <1>6, Zenon DEF d

(* ... nor does one taken before a piece comes in.                         *)
LEMMA StepBeforeThePiece ==
  ASSUME PowersOfTwo, NEW T, NEW role, NEW c, Good(T, c), NEW piece \in Seq(T)
  PROVE  Parse(role, Feed(Step(role, c), piece)) = Parse(role, Feed(c, piece))
<1> DEFINE next == Step(role, c)
           fed == Feed(c, piece)
<1>1. Good(T, next) /\ Good(T, fed) /\ Good(T, Feed(next, piece))
  <2>1. Good(T, next)
    BY StepIsGood
  <2> HIDE DEF next
  <2> QED BY <2>1, FedIsGood
<1>2. \/ next = c \/ Step(role, fed) = Feed(next, piece)
      \/ Step(role, Feed(next, piece)) = Step(role, fed)
  <2>1. Proceeds(T, role, c, Step(role, c), piece)
    BY EveryStepProceeds
  <2> QED BY <2>1, Zenon DEF Proceeds
<1> HIDE DEF next, fed
<1>3. CASE next = c
  BY <1>3, Zenon DEF next, fed
<1>4. CASE Step(role, fed) = Feed(next, piece)
  <2>1. Parse(role, Step(role, fed)) = Parse(role, fed)
    BY <1>1, ParseOfStep
  <2> QED BY <1>4, <2>1, Zenon DEF next, fed
<1>5. CASE Step(role, Feed(next, piece)) = Step(role, fed)
  <2>1. /\ Parse(role, Step(role, fed)) = Parse(role, fed)
        /\ Parse(role, Step(role, Feed(next, piece))) = Parse(role, Feed(next, piece))
    BY <1>1, ParseOfStep
  <2> QED BY <1>5, <2>1, Zenon DEF next, fed
<1> QED BY <1>2, <1>3, <1>4, <1>5

LEMMA RunBeforeThePiece ==
  ASSUME PowersOfTwo, NEW T, NEW role, NEW c, Good(T, c), NEW piece \in Seq(T), NEW n \in Nat
  PROVE  /\ Good(T, Run(role, c)[n])
         /\ Parse(role, Feed(Run(role, c)[n], piece)) = Parse(role, Feed(c, piece))
<1> DEFINE S == {m \in Nat :
                   /\ Good(T, Run(role, c)[m])
                   /\ Parse(role, Feed(Run(role, c)[m], piece)) = Parse(role, Feed(c, piece))}
<1>1. 0 \in S
  <2>1. Run(role, c)[0] = c
    BY RunSteps
  <2> QED BY <2>1
<1>2. ASSUME NEW m \in Nat, m \in S PROVE m + 1 \in S
  <2> DEFINE d == Run(role, c)[m]
  <2>1. Run(role, c)[m + 1] = Step(role, d)
    BY RunSteps
  <2>2. Good(T, d) /\ Parse(role, Feed(d, piece)) = Parse(role, Feed(c, piece))
    BY <1>2
  <2> HIDE DEF d
  <2>3. Good(T, Step(role, d))
    BY <2>2, StepIsGood
  <2>4. Parse(role, Feed(Step(role, d), piece)) = Parse(role, Feed(d, piece))
    BY <2>2, StepBeforeThePiece
  <2> QED BY <2>1, <2>2, <2>3, <2>4
<1>3. n \in S
  <2> HIDE DEF S
  <2> QED BY <1>1, <1>2, Climb
<1> QED BY <1>3

LEMMA ParseIsGood ==
  ASSUME PowersOfTwo, NEW T, NEW role, NEW c, Good(T, c)
  PROVE  Good(T, Parse(role, c))
<1>1. Left(c) + 1 \in Nat /\ Left(c) + 1 <= Left(c) + 1
  BY LeftIsNat
<1>2. Run(role, c)[Left(c) + 1] = Parse(role, c)
  BY <1>1, ParseIs
<1>3. <<>> \in Seq(T)
  OBVIOUS
<1>4. Good(T, Run(role, c)[Left(c) + 1])
  BY <1>1, <1>3, RunBeforeThePiece
<1> QED BY <1>2, <1>4, Zenon

LEMMA ParseBeforeThePiece ==
  ASSUME PowersOfTwo, NEW T, NEW role, NEW c, Good(T, c), NEW piece \in Seq(T)
  PROVE  Parse(role, Feed(Parse(role, c), piece)) = Parse(role, Feed(c, piece))
<1>1. Left(c) + 1 \in Nat /\ Left(c) + 1 <= Left(c) + 1
  BY LeftIsNat
<1>2. Run(role, c)[Left(c) + 1] = Parse(role, c)
  BY <1>1, ParseIs
<1>3. Parse(role, Feed(Run(role, c)[Left(c) + 1], piece)) = Parse(role, Feed(c, piece))
  BY <1>1, RunBeforeThePiece
<1> QED BY <1>2, <1>3, Zenon

(***************************************************************************)
(* HttpConnection::ParseRequest and ParseResponse (source/http.cc) over    *)
(* TcpReader::Peak and Tok (source/tcp.cc): wherever a message is cut,     *)
(* between the two characters of a line feed, in a header or in the body,  *)
(* the parser that is called for each of the pieces as it comes in is      *)
(* where it would be had they come in at once: the same stage, the same    *)
(* line, headers and body, the same position in the buffer, and the same   *)
(* failure.  It holds of every connection that pieces have led to, Good    *)
(* says, from the first on.  T is whatever texts are made of, role is that *)
(* of a request or of a response.                                          *)
(***************************************************************************)
THEOREM CutsAreHealed ==
  ASSUME PowersOfTwo, NEW T, NEW role
  PROVE  /\ Good(T, Connection)
         /\ \A c, piece : Good(T, c) /\ piece \in Seq(T) => Good(T, Resume(role, c, piece))
         /\ \A c, piece, more :
              Good(T, c) /\ piece \in Seq(T) /\ more \in Seq(T) =>
                Resume(role, Resume(role, c, piece), more) = Resume(role, c, piece \o more)
<1>1. Good(T, Connection)
  <2>1. Connection = Conn("line", 0, <<>>, 0, <<>>, <<>>, <<>>)
    BY Zenon DEF Connection, Conn, Reader, At, Packet, Read
  <2>2. Fits(T, "line", <<>>, 0, <<>>, <<>>)
    BY DEF Fits, Stages, Unfilled
  <2> QED BY <2>1, <2>2, GoodIs
<1>2. ASSUME NEW c, NEW piece, Good(T, c), piece \in Seq(T)
      PROVE  Good(T, Resume(role, c, piece))
  <2>1. Good(T, Feed(c, piece))
    BY <1>2, FedIsGood
  <2>2. Good(T, Parse(role, Feed(c, piece)))
    BY <1>2, <2>1, ParseIsGood
  <2> QED BY <2>2, ResumeIs
<1>3. ASSUME NEW c, NEW piece, NEW more, Good(T, c), piece \in Seq(T), more \in Seq(T)
      PROVE  Resume(role, Resume(role, c, piece), more) = Resume(role, c, piece \o more)
  <2>1. Good(T, Feed(c, piece))
    BY <1>3, FedIsGood
  <2>2. Parse(role, Feed(Parse(role, Feed(c, piece)), more))
          = Parse(role, Feed(Feed(c, piece), more))
    <3>1. ASSUME NEW d, Good(T, d), NEW next \in Seq(T)
          PROVE  Parse(role, Feed(Parse(role, d), next)) = Parse(role, Feed(d, next))
      BY <3>1, ParseBeforeThePiece
    <3> QED BY <1>3, <2>1, <3>1, Zenon
  <2>3. Feed(Feed(c, piece), more) = Feed(c, piece \o more)
    <3>1. PICK stage, n, buffer, b, line, headers, body :
            /\ c = Conn(stage, n, buffer, b, line, headers, body)
            /\ Fits(T, stage, buffer, b, headers, body)
      BY <1>3, Zenon DEF Good
    <3>2. /\ Feed(c, piece) = Conn(stage, n, buffer \o piece, b, line, headers, body)
          /\ Feed(c, piece \o more)
               = Conn(stage, n, buffer \o (piece \o more), b, line, headers, body)
      BY <3>1, FeedIs
    <3>3. Feed(Feed(c, piece), more)
            = Conn(stage, n, (buffer \o piece) \o more, b, line, headers, body)
      BY <3>2, FeedIs
    <3>4. buffer \in Seq(T)
      BY <3>1, Zenon DEF Fits
    <3>5. (buffer \o piece) \o more = buffer \o (piece \o more)
      BY <1>3, <3>4, ConcatAssociative
    <3> QED BY <3>2, <3>3, <3>5, Zenon
  <2>4. /\ Resume(role, c, piece) = Parse(role, Feed(c, piece))
        /\ Resume(role, c, piece \o more) = Parse(role, Feed(c, piece \o more))
    BY ResumeIs
  <2>5. Resume(role, Resume(role, c, piece), more)
          = Parse(role, Feed(Parse(role, Feed(c, piece)), more))
    BY <2>4, ResumeIs
  <2> QED BY <2>2, <2>3, <2>4, <2>5, Zenon
<1> QED BY <1>1, <1>2, <1>3
=============================================================================
