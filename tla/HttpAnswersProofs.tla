-------------------------- MODULE HttpAnswersProofs --------------------------
(***************************************************************************)
(* Theorems about HttpServer: what clients are answered, and why they are  *)
(* cut off.                                                                *)
(*                                                                         *)
(* Conversations and Events are inductive together, given the agreement of *)
(* the tables: that a stale event is only ever about a fresh connection is *)
(* what keeps it from being read into or written to as if it were another. *)
(***************************************************************************)
EXTENDS HttpServerInvariant, HttpServerProofs

(***************************************************************************)
(* The pieces a client sent and the buffer of its connection, whatever the *)
(* state: what Fits says of them is kept when a piece is sent, when pieces *)
(* come in, and when a response goes out.  First, requests of a prefix.    *)
(***************************************************************************)
LEMMA RequestsOfPrefix ==
  ASSUME NEW s \in Seq(Pieces), NEW n \in 0..Len(s)
  PROVE  /\ Requests(SubSeq(s, 1, n)) = Cardinality({i \in 1..n : s[i] \in Tails})
         /\ IsFiniteSet({i \in 1..n : s[i] \in Tails})
         /\ Requests(SubSeq(s, 1, n)) \in Nat
<1> DEFINE p == SubSeq(s, 1, n)
<1>0. n \in Nat /\ Len(s) \in Nat
  BY LenProperties
<1>1. p \in Seq(Pieces) /\ Len(p) = n /\ \A i \in 1..n : p[i] = s[i]
  BY Prefix
<1>2. DOMAIN p = 1..n
  BY <1>1, LenProperties
<1>3. {i \in DOMAIN p : p[i] \in Tails} = {i \in 1..n : s[i] \in Tails}
  BY <1>1, <1>2
<1>4. IsFiniteSet(1..n)
  BY <1>0, FS_Interval
<1>5. IsFiniteSet({i \in 1..n : s[i] \in Tails})
  BY <1>4, FS_Subset
<1> QED BY <1>3, <1>5, FS_CardinalityType DEF Requests

LEMMA NoRequests ==
  ASSUME NEW s \in Seq(Pieces)
  PROVE  Requests(SubSeq(s, 1, 0)) = 0
<1>1. 0 \in 0..Len(s) /\ {i \in 1..0 : s[i] \in Tails} = {}
  BY LenProperties
<1> QED BY <1>1, RequestsOfPrefix, FS_EmptySet

(* One more piece is one more request if it is a tail.                     *)
LEMMA RequestsOfNext ==
  ASSUME NEW s \in Seq(Pieces), NEW n \in 0..Len(s), n < Len(s)
  PROVE  Requests(SubSeq(s, 1, n + 1))
           = Requests(SubSeq(s, 1, n)) + (IF s[n + 1] \in Tails THEN 1 ELSE 0)
<1> DEFINE T(m) == {i \in 1..m : s[i] \in Tails}
<1>0. n \in Nat /\ Len(s) \in Nat /\ n + 1 \in 0..Len(s)
  BY LenProperties
<1>1. /\ Requests(SubSeq(s, 1, n)) = Cardinality(T(n)) /\ IsFiniteSet(T(n))
      /\ Requests(SubSeq(s, 1, n + 1)) = Cardinality(T(n + 1))
      /\ Cardinality(T(n)) \in Nat
  BY <1>0, RequestsOfPrefix
<1>2. n + 1 \notin T(n)
  BY <1>0
<1>3. CASE s[n + 1] \in Tails
  <2>1. T(n + 1) = T(n) \cup {n + 1}
    BY <1>0, <1>3
  <2> HIDE DEF T
  <2> QED BY <1>1, <1>2, <1>3, <2>1, FS_AddElement
<1>4. CASE s[n + 1] \notin Tails
  <2>1. T(n + 1) = T(n)
    BY <1>0, <1>4
  <2> HIDE DEF T
  <2> QED BY <1>1, <1>4, <2>1
<1> QED BY <1>3, <1>4

LEMMA RequestsGrow ==
  ASSUME NEW s \in Seq(Pieces), NEW m \in 0..Len(s), NEW n \in 0..Len(s), m =< n
  PROVE  Requests(SubSeq(s, 1, m)) =< Requests(SubSeq(s, 1, n))
<1> DEFINE T(k) == {i \in 1..k : s[i] \in Tails}
<1>1. T(m) \subseteq T(n)
  BY LenProperties
<1>2. /\ Requests(SubSeq(s, 1, m)) = Cardinality(T(m))
      /\ Requests(SubSeq(s, 1, n)) = Cardinality(T(n)) /\ IsFiniteSet(T(n))
  BY RequestsOfPrefix
<1> HIDE DEF T
<1> QED BY <1>1, <1>2, FS_Subset

(* Between m and n there are no tails.                                     *)
LEMMA RequestsStay ==
  ASSUME NEW s \in Seq(Pieces), NEW m \in 0..Len(s), NEW n \in 0..Len(s), m =< n,
         \A i \in m + 1..n : s[i] \notin Tails
  PROVE  Requests(SubSeq(s, 1, n)) = Requests(SubSeq(s, 1, m))
<1> DEFINE T(k) == {i \in 1..k : s[i] \in Tails}
<1>1. T(m) = T(n)
  BY LenProperties
<1>2. /\ Requests(SubSeq(s, 1, m)) = Cardinality(T(m))
      /\ Requests(SubSeq(s, 1, n)) = Cardinality(T(n))
  BY RequestsOfPrefix
<1> QED BY <1>1, <1>2

(* What was sent later does not change what a prefix holds.                *)
LEMMA PrefixOfAppend ==
  ASSUME NEW s \in Seq(Pieces), NEW p \in Pieces, NEW n \in 0..Len(s)
  PROVE  SubSeq(Append(s, p), 1, n) = SubSeq(s, 1, n)
<1> DEFINE t == Append(s, p)
<1>1. t \in Seq(Pieces) /\ Len(t) = Len(s) + 1 /\ \A i \in 1..Len(s) : t[i] = s[i]
  BY AppendProperties
<1>2. Len(s) \in Nat /\ n \in 0..Len(t)
  BY <1>1, LenProperties
<1>3. /\ SubSeq(t, 1, n) \in Seq(Pieces) /\ Len(SubSeq(t, 1, n)) = n
      /\ \A i \in 1..n : SubSeq(t, 1, n)[i] = t[i]
  <2> HIDE DEF t
  <2> QED BY <1>1, <1>2, Prefix
<1>4. /\ SubSeq(s, 1, n) \in Seq(Pieces) /\ Len(SubSeq(s, 1, n)) = n
      /\ \A i \in 1..n : SubSeq(s, 1, n)[i] = s[i]
  BY Prefix
<1>5. \A i \in 1..n : SubSeq(t, 1, n)[i] = SubSeq(s, 1, n)[i]
  BY <1>1, <1>2, <1>3, <1>4
<1> QED BY <1>3, <1>4, <1>5, SeqEqual

LEMMA RequestsOfAppend ==
  ASSUME NEW s \in Seq(Pieces), NEW p \in Pieces
  PROVE  Requests(Append(s, p)) = Requests(s) + (IF p \in Tails THEN 1 ELSE 0)
<1> DEFINE t == Append(s, p)
<1>1. t \in Seq(Pieces) /\ Len(t) = Len(s) + 1 /\ t[Len(s) + 1] = p
  BY AppendProperties
<1>2. Len(s) \in Nat /\ Len(s) \in 0..Len(t) /\ Len(s) < Len(t)
  BY <1>1, LenProperties
<1>3. SubSeq(t, 1, Len(s) + 1) = t
  BY <1>1, SubSeqFull
<1>4. SubSeq(t, 1, Len(s)) = s
  BY <1>2, PrefixOfAppend, SubSeqFull
<1> HIDE DEF t
<1>5. Requests(SubSeq(t, 1, Len(s) + 1))
        = Requests(SubSeq(t, 1, Len(s))) + (IF t[Len(s) + 1] \in Tails THEN 1 ELSE 0)
  BY <1>1, <1>2, RequestsOfNext
<1> QED BY <1>1, <1>3, <1>4, <1>5 DEF t

(***************************************************************************)
(* What a connection has of what was sent.                                 *)
(***************************************************************************)
LEMMA ConnectionType ==
  ASSUME NEW x \in Connection
  PROVE  x.buffer \in Seq(Pieces) /\ x.pending \in 0..Oversize /\ Len(x.buffer) \in Nat
<1>1. x.buffer \in Seq(Pieces) /\ x.pending \in 0..Oversize
  BY DEF Connection
<1> QED BY <1>1, LenProperties

LEMMA CompleteBuffer ==
  ASSUME NEW b \in Seq(Pieces)
  PROVE  (Stage(b) = "end") <=> (Len(b) > 1 /\ b[1] \in Heads /\ b[2] \in Tails)
<1>1. (b = <<>> <=> Len(b) = 0) /\ Len(b) \in Nat
  BY EmptySeq, LenProperties
<1>2. ASSUME Len(b) > 1, b[1] \in Heads, b[2] \in Tails PROVE Stage(b) = "end"
  <2>1. b # <<>> /\ Len(b) # 1
    BY <1>1, <1>2
  <2> QED BY <1>2, <2>1 DEF Stage
<1>3. ASSUME Stage(b) = "end" PROVE Len(b) > 1 /\ b[1] \in Heads /\ b[2] \in Tails
  <2>1. b # <<>>
    BY <1>3 DEF Stage
  <2>2. b[1] \in Heads
    BY <1>3, <2>1 DEF Stage
  <2>3. Len(b) # 1
    BY <1>3, <2>1, <2>2 DEF Stage
  <2>4. Len(b) > 1
    BY <1>1, <2>1, <2>3
  <2> QED BY <1>3, <2>1, <2>2, <2>3, <2>4 DEF Stage
<1> QED BY <1>2, <1>3

LEMMA FailedBuffer ==
  ASSUME NEW b \in Seq(Pieces)
  PROVE  Stage(b) = "failed" =>
           Len(b) > 0 /\ (b[1] \in Heads => Len(b) > 1 /\ b[2] \notin Tails)
<1>1. (b = <<>> <=> Len(b) = 0) /\ Len(b) \in Nat
  BY EmptySeq, LenProperties
<1>2. b # <<>> => Len(b) > 0
  BY <1>1
<1>3. b # <<>> /\ Len(b) # 1 => Len(b) > 1
  BY <1>1
<1>4. ASSUME Stage(b) = "failed"
      PROVE  b # <<>> /\ (b[1] \in Heads => Len(b) # 1 /\ b[2] \notin Tails)
  <2>1. b # <<>>
    BY <1>4 DEF Stage
  <2>2. ASSUME b[1] \in Heads PROVE Len(b) # 1 /\ b[2] \notin Tails
    <3>1. Len(b) # 1
      BY <1>4, <2>1, <2>2 DEF Stage
    <3>2. Len(b) > 1
      BY <1>3, <2>1, <3>1
    <3> QED BY <1>4, <2>1, <2>2, <3>1, <3>2 DEF Stage
  <2> QED BY <2>1, <2>2
<1> QED BY <1>2, <1>3, <1>4

(* The buffer holds the pieces n + 1 to g.                                 *)
LEMMA BufferOfFits ==
  ASSUME NEW x \in Connection, NEW s \in Seq(Pieces), NEW g \in 0..Len(s),
         NEW ran, NEW replied, NEW patient,
         Fits(x, s, g, ran, replied, patient)
  PROVE  LET n == Dropped(x, g)
         IN  /\ n \in Nat /\ n =< g /\ n + Len(x.buffer) = g
             /\ \A i \in 1..Len(x.buffer) : x.buffer[i] = s[n + i]
             /\ \A i \in n + 1..g : s[i] = x.buffer[i - n]
             /\ replied <= Requests(SubSeq(s, 1, n))
             /\ patient => /\ replied = Requests(SubSeq(s, 1, n))
                           /\ OneRequestAfter(s, n)
<1> DEFINE n == Dropped(x, g)
           l == Len(x.buffer)
<1>1. l \in Nat /\ Len(s) \in Nat /\ g \in Nat /\ n \in Int /\ n = g - l
  BY ConnectionType, LenProperties DEF Dropped
<1>2. /\ n >= 0 /\ \A i \in 1..l : x.buffer[i] = s[n + i]
      /\ replied <= Requests(SubSeq(s, 1, n))
      /\ patient => replied = Requests(SubSeq(s, 1, n)) /\ OneRequestAfter(s, n)
  BY DEF Fits
<1> HIDE DEF n, l
<1>3. n \in Nat /\ n =< g /\ n + l = g
  BY <1>1, <1>2
<1>4. \A i \in n + 1..g : s[i] = x.buffer[i - n]
  <2> TAKE i \in n + 1..g
  <2>1. i - n \in 1..l /\ n + (i - n) = i
    BY <1>1, <1>3
  <2>2. x.buffer[i - n] = s[n + (i - n)]
    BY <1>2, <2>1
  <2> QED BY <2>1, <2>2
<1> QED BY <1>2, <1>3, <1>4 DEF n, l

(* A patient client sends a head only once all before it is answered.      *)
LEMMA SendKeepsOneRequest ==
  ASSUME NEW s \in Seq(Pieces), NEW n \in 0..Len(s), OneRequestAfter(s, n),
         NEW p \in Pieces,
         IF s = <<>> \/ Last(s) \in Tails THEN p \notin Tails ELSE p \notin Heads,
         "garbage" \notin ToSet(s),
         ~(p \in Heads /\ Requests(SubSeq(s, 1, n)) < Requests(s))
  PROVE  OneRequestAfter(Append(s, p), n)
<1> DEFINE t == Append(s, p)
           l == Len(s)
<1>1. /\ t \in Seq(Pieces) /\ Len(t) = l + 1 /\ t[l + 1] = p /\ l \in Nat
      /\ \A i \in 1..l : t[i] = s[i]
  BY AppendProperties, LenProperties
<1>2. s # <<>> => l > 0 /\ Last(s) = s[l] /\ s[l] \in Pieces
  BY <1>1, EmptySeq, ElementOfSeq DEF Last
<1>3. \A i \in 1..l : s[i] # "garbage"
  BY LenProperties DEF ToSet
<1>4. n > 0 => t[n] \notin Heads
  BY <1>1 DEF OneRequestAfter
<1>5. p \in Heads => l = n
  <2> SUFFICES ASSUME p \in Heads, l # n PROVE FALSE
    OBVIOUS
  <2>1. l > n /\ s # <<>>
    BY <1>1, EmptySeq
  <2>2. s[l] \in Tails
    BY <1>2, <2>1 DEF Heads
  <2>3. l = n + 2
    BY <1>1, <2>1, <2>2 DEF OneRequestAfter
  <2>4. /\ n + 1 \in 0..l /\ n + 1 < l /\ n \in Nat /\ SubSeq(s, 1, n + 2) = s
        /\ (n + 1) + 1 = n + 2
    BY <1>1, <2>3, SubSeqFull
  <2>5. Requests(SubSeq(s, 1, n + 2)) = Requests(SubSeq(s, 1, n + 1)) + 1
    <3>1. Requests(SubSeq(s, 1, (n + 1) + 1))
            = Requests(SubSeq(s, 1, n + 1)) + (IF s[(n + 1) + 1] \in Tails THEN 1 ELSE 0)
      BY <2>4, RequestsOfNext
    <3> QED BY <2>2, <2>3, <2>4, <3>1
  <2>6. Requests(SubSeq(s, 1, n)) =< Requests(SubSeq(s, 1, n + 1))
    BY <2>4, RequestsGrow
  <2>7. /\ Requests(SubSeq(s, 1, n)) \in Nat
        /\ Requests(SubSeq(s, 1, n + 1)) \in Nat
    BY <2>4, RequestsOfPrefix
  <2>8. Requests(s) = Requests(SubSeq(s, 1, n + 1)) + 1
    BY <2>4, <2>5
  <2>9. Requests(SubSeq(s, 1, n)) < Requests(s)
    BY <2>6, <2>7, <2>8
  <2> QED BY <2>9
<1>6. p \in Tails => l = n + 1 /\ s[n + 1] \in Heads
  <2> SUFFICES ASSUME p \in Tails PROVE l = n + 1 /\ s[n + 1] \in Heads
    OBVIOUS
  <2>1. s # <<>> /\ s[l] \in Heads
    BY <1>1, <1>2, <1>3 DEF Pieces, Heads
  <2>2. l # n
    BY <1>1, <1>2, <2>1 DEF OneRequestAfter
  <2> QED BY <1>1, <2>1, <2>2 DEF OneRequestAfter
<1>7. ASSUME NEW i \in n + 1..Len(t)
      PROVE  /\ t[i] \in Heads => i = n + 1
             /\ t[i] \in Tails => i = n + 2 /\ t[n + 1] \in Heads
  <2>1. CASE i = l + 1
    BY <1>1, <1>5, <1>6, <2>1
  <2>2. CASE i # l + 1
    BY <1>1, <2>2 DEF OneRequestAfter
  <2> QED BY <2>1, <2>2
<1> QED BY <1>4, <1>7 DEF OneRequestAfter

LEMMA SendKeepsFits ==
  ASSUME NEW x \in Connection, NEW s \in Seq(Pieces), NEW g \in 0..Len(s),
         NEW ran \in Nat, NEW replied \in Nat,
         NEW patient \in BOOLEAN, NEW patient2 \in BOOLEAN,
         Fits(x, s, g, ran, replied, patient),
         NEW p \in Pieces,
         IF s = <<>> \/ Last(s) \in Tails THEN p \notin Tails ELSE p \notin Heads,
         "garbage" \notin ToSet(s),
         patient2 => patient /\ ~(p \in Heads /\ replied < Requests(s))
  PROVE  Fits(x, Append(s, p), g, ran, replied, patient2)
<1> DEFINE n == Dropped(x, g)
           t == Append(s, p)
<1>0. Len(s) \in Nat /\ g \in Nat /\ Len(x.buffer) \in Nat
  BY ConnectionType, LenProperties
<1>1. /\ n \in Nat /\ n =< g /\ n + Len(x.buffer) = g
      /\ \A i \in 1..Len(x.buffer) : x.buffer[i] = s[n + i]
      /\ replied <= Requests(SubSeq(s, 1, n))
      /\ patient => replied = Requests(SubSeq(s, 1, n)) /\ OneRequestAfter(s, n)
  BY BufferOfFits
<1>2. n \in 0..Len(s)
  BY <1>0, <1>1
<1>3. SubSeq(t, 1, n) = SubSeq(s, 1, n)
  BY <1>2, PrefixOfAppend
<1>4. patient2 => OneRequestAfter(t, n)
  BY <1>1, <1>2, SendKeepsOneRequest
<1>5. \A i \in 1..Len(x.buffer) : x.buffer[i] = t[n + i]
  <2> TAKE i \in 1..Len(x.buffer)
  <2>1. n + i \in 1..Len(s)
    BY <1>0, <1>1
  <2> QED BY <1>1, <2>1, AppendProperties
<1>6. /\ ran = replied + (IF x.pending > 0 THEN 1 ELSE 0)
      /\ replied <= Requests(SubSeq(t, 1, n))
      /\ patient2 => replied = Requests(SubSeq(t, 1, n))
  BY <1>1, <1>3 DEF Fits
<1> QED BY <1>1, <1>4, <1>5, <1>6 DEF Fits

(* A complete request is the first in the buffer; a patient client's only  *)
(* one.                                                                    *)
LEMMA CompleteRequest ==
  ASSUME NEW x \in Connection, NEW s \in Seq(Pieces), NEW g \in 0..Len(s),
         NEW ran \in Nat, NEW replied \in Nat, NEW patient \in BOOLEAN,
         Fits(x, s, g, ran, replied, patient), Stage(x.buffer) = "end"
  PROVE  /\ replied + 1 =< Requests(SubSeq(s, 1, g))
         /\ patient => replied + 1 = Requests(SubSeq(s, 1, g)) /\ OneRequestAfter(s, g)
<1> DEFINE n == Dropped(x, g)
           R(m) == Requests(SubSeq(s, 1, m))
<1>0. g \in Nat /\ Len(s) \in Nat /\ Len(x.buffer) \in Nat
  BY ConnectionType, LenProperties
<1> HIDE DEF n
<1>1. /\ n \in Nat /\ n =< g /\ n + Len(x.buffer) = g
      /\ \A i \in 1..Len(x.buffer) : x.buffer[i] = s[n + i]
      /\ replied =< R(n)
      /\ patient => replied = R(n) /\ OneRequestAfter(s, n)
  BY BufferOfFits DEF n
<1>2. Len(x.buffer) > 1 /\ x.buffer[1] \in Heads /\ x.buffer[2] \in Tails
  BY CompleteBuffer, ConnectionType
<1>3. s[n + 1] \in Heads /\ s[n + 2] \in Tails /\ n + 2 =< g /\ n \in 0..Len(s)
  <2>1. 1 \in 1..Len(x.buffer) /\ 2 \in 1..Len(x.buffer)
    BY <1>0, <1>1, <1>2
  <2>2. x.buffer[1] = s[n + 1] /\ x.buffer[2] = s[n + 2]
    BY <1>0, <1>1, <2>1
  <2> QED BY <1>0, <1>1, <1>2, <2>2
<1>4. n + 1 \in 0..Len(s) /\ n + 1 < Len(s) /\ (n + 1) + 1 = n + 2 /\ n + 2 \in 0..Len(s)
  BY <1>0, <1>1, <1>3
<1>5. /\ R(n) \in Nat /\ R(n + 1) \in Nat /\ R(n + 2) \in Nat /\ R(g) \in Nat
      /\ R(n) =< R(n + 1) /\ R(n + 2) =< R(g)
  <2>1. /\ R(n) \in Nat /\ R(n + 1) \in Nat /\ R(n + 2) \in Nat /\ R(g) \in Nat
    BY <1>3, <1>4, RequestsOfPrefix
  <2>2. R(n) =< R(n + 1)
    BY <1>1, <1>3, <1>4, RequestsGrow
  <2>3. R(n + 2) =< R(g)
    BY <1>1, <1>3, <1>4, RequestsGrow
  <2> QED BY <2>1, <2>2, <2>3
<1>6. R(n + 2) = R(n + 1) + 1
  BY <1>0, <1>3, <1>4, RequestsOfNext
<1>8. ASSUME patient PROVE replied + 1 = R(g) /\ OneRequestAfter(s, g)
  <2>1. \A i \in n + 3..Len(s) : s[i] \notin Tails /\ s[i] \notin Heads
    BY <1>0, <1>1, <1>8 DEF OneRequestAfter
  <2>2. R(g) = R(n + 2)
    BY <1>0, <1>1, <1>3, <1>4, <2>1, RequestsStay
  <2>3. R(n + 1) = R(n)
    <3>1. s[n + 1] \notin Tails /\ n < Len(s)
      BY <1>0, <1>1, <1>3 DEF Heads, Tails
    <3> QED BY <1>0, <1>1, <1>5, <3>1, RequestsOfNext
  <2>4. s[g] \notin Heads
    BY <1>0, <1>1, <1>3, <2>1 DEF Heads, Tails
  <2>5. OneRequestAfter(s, g)
    BY <1>0, <1>1, <1>3, <2>1, <2>4 DEF OneRequestAfter
  <2> QED BY <1>5, <1>6, <1>1, <1>8, <2>2, <2>3, <2>5
<1> HIDE DEF R
<1>9. replied + 1 =< R(g)
  BY <1>0, <1>1, <1>5, <1>6
<1> QED BY <1>8, <1>9 DEF R

LEMMA NoCompleteRequest ==
  ASSUME NEW x \in Connection, NEW s \in Seq(Pieces), NEW g \in 0..Len(s),
         NEW ran \in Nat, NEW replied \in Nat, NEW patient \in BOOLEAN,
         Fits(x, s, g, ran, replied, patient), Stage(x.buffer) # "end"
  PROVE  /\ replied =< Requests(SubSeq(s, 1, g))
         /\ patient => replied = Requests(SubSeq(s, 1, g))
<1> DEFINE n == Dropped(x, g)
           R(m) == Requests(SubSeq(s, 1, m))
<1>0. g \in Nat /\ Len(s) \in Nat /\ Len(x.buffer) \in Nat
  BY ConnectionType, LenProperties
<1> HIDE DEF n
<1>1. /\ n \in Nat /\ n =< g /\ n + Len(x.buffer) = g
      /\ \A i \in n + 1..g : s[i] = x.buffer[i - n]
  BY BufferOfFits DEF n
<1>2. replied =< R(n) /\ (patient => replied = R(n) /\ OneRequestAfter(s, n))
  BY BufferOfFits DEF n
<1>3. n \in 0..Len(s) /\ R(n) =< R(g) /\ R(n) \in Nat /\ R(g) \in Nat
  <2>1. n \in 0..Len(s)
    BY <1>0, <1>1
  <2> QED BY <1>0, <1>1, <2>1, RequestsGrow, RequestsOfPrefix
<1>4. ASSUME patient PROVE R(g) = R(n)
  <2>1. \A i \in n + 1..g : s[i] \notin Tails
    <3> SUFFICES ASSUME NEW i \in n + 1..g, s[i] \in Tails PROVE FALSE
      OBVIOUS
    <3>1. i = n + 2 /\ s[n + 1] \in Heads
      BY <1>0, <1>1, <1>2, <1>4 DEF OneRequestAfter
    <3>2. /\ (n + 1) - n = 1 /\ (n + 2) - n = 2
          /\ n + 1 \in n + 1..g /\ n + 2 \in n + 1..g
      <4>1. n + 2 \in n + 1..g
        BY <3>1
      <4> QED BY <1>0, <1>1, <4>1
    <3>3. s[n + 1] = x.buffer[(n + 1) - n] /\ s[n + 2] = x.buffer[(n + 2) - n]
      BY <1>0, <1>1, <3>2
    <3>4. Len(x.buffer) > 1 /\ x.buffer[1] \in Heads /\ x.buffer[2] \in Tails
      BY <1>0, <1>1, <3>1, <3>2, <3>3
    <3> QED BY <3>4, CompleteBuffer, ConnectionType
  <2> QED BY <1>0, <1>1, <1>3, <2>1, RequestsStay
<1> HIDE DEF R
<1>5. replied =< R(g)
  BY <1>2, <1>3
<1> QED BY <1>2, <1>4, <1>5 DEF R

(* So a handler never ran more often than requests came in, for a patient  *)
(* client exactly as often.                                                *)
LEMMA RanForWhatCameIn ==
  ASSUME NEW x \in Connection, NEW s \in Seq(Pieces), NEW g \in 0..Len(s),
         NEW ran \in Nat, NEW replied \in Nat, NEW patient \in BOOLEAN,
         Fits(x, s, g, ran, replied, patient),
         (x.pending > 0) <=> (Stage(x.buffer) = "end")
  PROVE  /\ ran =< Requests(SubSeq(s, 1, g))
         /\ patient => ran = Requests(SubSeq(s, 1, g))
<1>1. CASE Stage(x.buffer) = "end"
  <2>1. ran = replied + 1
    BY <1>1 DEF Fits
  <2> QED BY <1>1, <2>1, CompleteRequest
<1>2. CASE Stage(x.buffer) # "end"
  <2>1. ran = replied
    BY <1>2 DEF Fits
  <2> QED BY <1>2, <2>1, NoCompleteRequest
<1> QED BY <1>1, <1>2

(* What recv adds to a buffer is what was sent next.                       *)
TakesNext(s, g, buffer, waiting) ==
  LET read == Fitting(buffer, waiting)
      u == SubSeq(waiting, 1, read)
  IN  /\ u \in Seq(Pieces) /\ Len(u) = read /\ g + read \in 0..Len(s)
      /\ \A i \in 1..read : u[i] = s[g + i]

LEMMA NextPieces ==
  ASSUME NEW s \in Seq(Pieces), NEW g \in 0..Len(s), NEW buffer, NEW waiting,
         waiting \in {<<>>, SubSeq(s, g + 1, Len(s))}
  PROVE  TakesNext(s, g, buffer, waiting)
<1> DEFINE k == Len(s)
           m == Len(waiting)
           read == Fitting(buffer, waiting)
           u == SubSeq(waiting, 1, read)
<1>1. k \in Nat /\ g \in Nat /\ g =< k
  BY LenProperties
<1>2. /\ waiting \in Seq(Pieces) /\ m \in Nat /\ g + m =< k
      /\ \A i \in 1..m : waiting[i] = s[g + i]
  <2>1. CASE waiting = <<>>
    <3>1. waiting \in Seq(Pieces) /\ m = 0
      BY <2>1
    <3> QED BY <1>1, <3>1
  <2>2. CASE waiting = SubSeq(s, g + 1, k)
    <3>1. \A i \in g + 1..k : s[i] \in Pieces
      BY <1>1, LenProperties
    <3>2. g + 1 \in Int /\ k \in Int
      BY <1>1
    <3>3. /\ waiting \in Seq(Pieces)
          /\ m = IF g + 1 =< k THEN k - (g + 1) + 1 ELSE 0
          /\ \A i \in 1..k - (g + 1) + 1 : waiting[i] = s[(g + 1) + i - 1]
      BY <2>2, <3>1, <3>2, SubSeqProperties
    <3> HIDE DEF m, k
    <3>4. m = k - g
      BY <1>1, <3>3
    <3>5. \A i \in 1..m : (g + 1) + i - 1 = g + i /\ i \in 1..k - (g + 1) + 1
      BY <1>1, <3>4
    <3> QED BY <1>1, <3>3, <3>4, <3>5
  <2> QED BY <2>1, <2>2
<1>3. read \in 0..m
  BY <1>2, FittingIsBounded
<1> HIDE DEF read
<1>4. u \in Seq(Pieces) /\ Len(u) = read /\ \A i \in 1..read : u[i] = waiting[i]
  BY <1>2, <1>3, Prefix
<1> HIDE DEF u, m
<1>5. g + read \in 0..k /\ \A i \in 1..read : i \in 1..m
  <2> HIDE DEF k
  <2> QED BY <1>1, <1>2, <1>3
<1> QED BY <1>2, <1>4, <1>5 DEF read, u, k, TakesNext

(* What comes in goes to the end of the buffer.                            *)
Continues(b, s, n, g) ==
  b \in Seq(Pieces) /\ n + Len(b) = g /\ \A i \in 1..Len(b) : b[i] = s[n + i]

LEMMA BufferGrows ==
  ASSUME NEW s, NEW g \in Nat, NEW old, NEW n \in Nat, Continues(old, s, n, g),
         NEW u \in Seq(Pieces), \A i \in 1..Len(u) : u[i] = s[g + i]
  PROVE  Continues(old \o u, s, n, g + Len(u))
<1> DEFINE b == old \o u
           l == Len(old)
           m == Len(u)
<1>0. old \in Seq(Pieces) /\ \A i \in 1..l : old[i] = s[n + i]
  BY DEF Continues
<1>1. l \in Nat /\ n + l = g /\ m \in Nat
  BY LenProperties DEF Continues
<1>2. \A i \in 1..m : u[i] = s[g + i]
  OBVIOUS
<1>3. /\ b \in Seq(Pieces) /\ Len(b) = l + m
      /\ \A i \in 1..l + m : b[i] = IF i <= l THEN old[i] ELSE u[i - l]
  BY <1>0, ConcatProperties
<1> HIDE DEF b, l, m
<1>4. n + Len(b) = g + m
  BY <1>1, <1>3
<1>5. \A i \in 1..Len(b) : b[i] = s[n + i]
  <2> TAKE i \in 1..Len(b)
  <2>0. i \in 1..l + m
    BY <1>3
  <2>1. CASE i =< l
    <3>1. i \in 1..l /\ b[i] = old[i]
      BY <1>1, <1>3, <2>0, <2>1
    <3> QED BY <1>0, <3>1
  <2>2. CASE ~(i =< l)
    <3>1. i - l \in 1..m /\ g + (i - l) = n + i
      BY <1>1, <2>0, <2>2
    <3>2. b[i] = u[i - l]
      BY <1>3, <2>0, <2>2
    <3> QED BY <1>2, <3>1, <3>2
  <2> QED BY <2>1, <2>2
<1> QED BY <1>3, <1>4, <1>5 DEF b, m, Continues

(* Connection x, which has g pieces of s, becomes y by reading u.          *)
Hears(x, s, g, ran, y, u, h, ran2) ==
  /\ u \in Seq(Pieces) /\ \A i \in 1..Len(u) : u[i] = s[g + i]
  /\ y.buffer = x.buffer \o u /\ h = g + Len(u)
  /\ ran2 = ran + (IF y.pending > 0 THEN 1 ELSE 0)

LEMMA ReceiveKeepsFits ==
  ASSUME NEW x \in Connection, NEW s \in Seq(Pieces), NEW g \in 0..Len(s),
         NEW ran \in Nat, NEW replied \in Nat, NEW patient \in BOOLEAN,
         Fits(x, s, g, ran, replied, patient), x.pending = 0,
         NEW y, NEW u, NEW h, NEW ran2, Hears(x, s, g, ran, y, u, h, ran2)
  PROVE  y.buffer \in Seq(Pieces) /\ Fits(y, s, h, ran2, replied, patient)
<1> DEFINE n == Dropped(x, g)
           old == x.buffer
           b == old \o u
<1>0. /\ u \in Seq(Pieces) /\ \A i \in 1..Len(u) : u[i] = s[g + i]
      /\ y.buffer = b /\ h = g + Len(u)
      /\ ran2 = ran + (IF y.pending > 0 THEN 1 ELSE 0)
  BY DEF Hears
<1>1. old \in Seq(Pieces) /\ g \in Nat
  BY ConnectionType, LenProperties
<1>2. /\ n \in Nat /\ n + Len(old) = g
      /\ \A i \in 1..Len(old) : old[i] = s[n + i]
      /\ replied <= Requests(SubSeq(s, 1, n))
      /\ patient => replied = Requests(SubSeq(s, 1, n)) /\ OneRequestAfter(s, n)
  BY BufferOfFits
<1>3. /\ b \in Seq(Pieces) /\ n + Len(b) = h
      /\ \A i \in 1..Len(b) : b[i] = s[n + i]
  <2> DEFINE more == old \o u
  <2>1. Continues(old, s, n, g)
    BY <1>1, <1>2 DEF Continues
  <2>2. Continues(more, s, n, g + Len(u))
    <3> HIDE DEF n, old, b
    <3> QED BY <1>0, <1>1, <1>2, <2>1, BufferGrows
  <2> QED BY <1>0, <2>2 DEF Continues
<1>4. y.buffer = b
  BY <1>0
<1>5. ran = replied
  BY DEF Fits
<1>6. Len(b) \in Nat /\ h \in Nat
  BY <1>2, <1>3, LenProperties
<1> HIDE DEF b, n, old
<1>7. Dropped(y, h) = n
  <2>1. h - Len(b) = n
    BY <1>2, <1>3, <1>6
  <2> QED BY <1>4, <2>1 DEF Dropped
<1>8. Fits(y, s, h, ran2, replied, patient)
  <2>1. n >= 0
    BY <1>2
  <2>2. \A i \in 1..Len(y.buffer) : y.buffer[i] = s[n + i]
    BY <1>3, <1>4
  <2>3. ran2 = replied + (IF y.pending > 0 THEN 1 ELSE 0)
    BY <1>0, <1>5
  <2> QED BY <1>2, <1>7, <2>1, <2>2, <2>3 DEF Fits
<1> QED BY <1>3, <1>4, <1>8

(* A part of the response goes out ...                                     *)
LEMMA PartKeepsFits ==
  ASSUME NEW x \in Connection, NEW s, NEW g, NEW ran, NEW replied, NEW patient,
         Fits(x, s, g, ran, replied, patient), x.pending > 0,
         NEW left \in 0..Oversize, left > 0
  PROVE  Fits([x EXCEPT !.pending = left], s, g, ran, replied, patient)
<1> DEFINE y == [x EXCEPT !.pending = left]
<1>1. y.buffer = x.buffer /\ y.pending = left
  BY DEF Connection
<1> HIDE DEF y
<1>2. Dropped(y, g) = Dropped(x, g)
  BY <1>1 DEF Dropped
<1>3. Fits(y, s, g, ran, replied, patient)
  BY <1>1, <1>2 DEF Fits
<1> QED BY <1>3 DEF y

(* ... or the rest of it, and the connection starts again.                 *)
LEMMA RestartKeepsFits ==
  ASSUME NEW x \in Connection, NEW s \in Seq(Pieces), NEW g \in 0..Len(s),
         NEW ran \in Nat, NEW replied \in Nat, NEW patient \in BOOLEAN,
         Fits(x, s, g, ran, replied, patient),
         x.pending > 0, Stage(x.buffer) = "end"
  PROVE  ran = replied + 1 /\ Fits(Fresh, s, g, ran, replied + 1, patient)
<1>1. ran = replied + 1
  BY DEF Fits
<1>2. /\ replied + 1 =< Requests(SubSeq(s, 1, g))
      /\ patient => replied + 1 = Requests(SubSeq(s, 1, g)) /\ OneRequestAfter(s, g)
  BY CompleteRequest
<1>3. Fresh.pending = 0 /\ Len(Fresh.buffer) = 0 /\ g \in Nat
  BY LenProperties, EmptySeq DEF Fresh
<1>4. Dropped(Fresh, g) = g
  BY <1>3 DEF Dropped
<1> QED BY <1>1, <1>2, <1>3, <1>4 DEF Fits

(* A connection that was just accepted.                                    *)
LEMMA FreshFits ==
  ASSUME NEW s \in Seq(Pieces), NEW patient \in BOOLEAN,
         patient => OneRequestAfter(s, 0)
  PROVE  Fits(Fresh, s, 0, 0, 0, patient)
<1>1. Fresh.buffer = <<>> /\ Fresh.pending = 0 /\ Len(Fresh.buffer) = 0
  BY EmptySeq DEF Fresh
<1>2. Dropped(Fresh, 0) = 0
  <2>1. Len(Fresh.buffer) = 0
    BY <1>1
  <2> QED BY <2>1 DEF Dropped
<1>3. Requests(SubSeq(s, 1, 0)) = 0
  BY NoRequests
<1> QED BY <1>1, <1>2, <1>3 DEF Fits

(* A patient client's request fails only if it sent garbage.               *)
LEMMA OnlyGarbageFails ==
  ASSUME NEW x \in Connection, NEW s \in Seq(Pieces), NEW g \in 0..Len(s),
         NEW ran \in Nat, NEW replied \in Nat,
         Fits(x, s, g, ran, replied, TRUE), Stage(x.buffer) = "failed"
  PROVE  "garbage" \in ToSet(s)
<1> DEFINE n == Dropped(x, g)
           b == x.buffer
<1>0. Len(s) \in Nat /\ g \in Nat /\ Len(b) \in Nat /\ b \in Seq(Pieces)
  BY ConnectionType, LenProperties
<1>1. /\ n \in Nat /\ n =< g /\ n + Len(b) = g
      /\ \A i \in 1..Len(b) : b[i] = s[n + i]
      /\ OneRequestAfter(s, n)
  BY BufferOfFits
<1> HIDE DEF n
<1>2. \A i \in 1..Len(b) : n + i \in n + 1..Len(s) /\ s[n + i] \in Pieces
  BY <1>0, <1>1, ElementOfSeq
<1>3. ASSUME NEW i \in 1..Len(b), b[i] = "garbage" PROVE "garbage" \in ToSet(s)
  BY <1>0, <1>1, <1>2, <1>3 DEF ToSet
<1>4. Len(b) > 0 /\ (b[1] \in Heads => Len(b) > 1 /\ b[2] \notin Tails)
  BY <1>0, FailedBuffer
<1>5. CASE b[1] \notin Heads
  <2>1. 1 \in 1..Len(b) /\ s[n + 1] = b[1]
    BY <1>0, <1>1, <1>4
  <2>2. s[n + 1] \notin Tails
    BY <1>1, <1>2, <2>1 DEF OneRequestAfter
  <2>3. b[1] = "garbage"
    BY <1>2, <1>5, <2>1, <2>2 DEF Pieces
  <2> QED BY <1>3, <2>1, <2>3
<1>6. CASE b[1] \in Heads
  <2>1. Len(b) > 1 /\ b[2] \notin Tails
    BY <1>4, <1>6
  <2>2. 2 \in 1..Len(b) /\ s[n + 2] = b[2]
    BY <1>0, <1>1, <2>1
  <2>3. s[n + 2] \notin Heads
    BY <1>1, <1>2, <2>2 DEF OneRequestAfter
  <2>4. b[2] = "garbage"
    BY <1>2, <2>1, <2>2, <2>3 DEF Pieces
  <2> QED BY <1>3, <2>2, <2>4
<1> QED BY <1>5, <1>6

(***************************************************************************)
(* The server: its conversations and its events.                           *)
(***************************************************************************)

(* What is known of a connection that is open.                             *)
LEMMA OpenConnection ==
  ASSUME TablesInv, Conversations, NEW d \in Open
  PROVE  /\ d \in Descriptors /\ owner[d] \in Clients /\ link[owner[d]] = "open"
         /\ connections[d] \in Connection
         /\ sent[owner[d]] \in Seq(Pieces) /\ got[owner[d]] \in 0..Len(sent[owner[d]])
         /\ executed[owner[d]] \in Nat /\ answered[owner[d]] \in Nat
         /\ (connections[d].pending > 0) <=> (Stage(connections[d].buffer) = "end")
         /\ (interest[d] = "write") <=> (connections[d].pending > 0)
         /\ Fits(connections[d], sent[owner[d]], got[owner[d]], executed[owner[d]],
                 answered[owner[d]], owner[d] \notin eager)
<1>1. d \in Descriptors /\ owner[d] \in Clients /\ link[owner[d]] = "open"
  BY DEF TablesInv, Slots, ConnectionsMatchDescriptors, Open
<1>2. connections[d] \in Connection
  BY DEF TablesInv, Slots, Open
<1>3. /\ sent[owner[d]] \in Seq(Pieces) /\ got[owner[d]] \in Nat
      /\ executed[owner[d]] \in Nat /\ answered[owner[d]] \in Nat
  BY <1>1 DEF TablesInv, Rest
<1>4. got[owner[d]] \in 0..Len(sent[owner[d]])
  <2>1. got[owner[d]] <= Len(sent[owner[d]])
    BY <1>1 DEF Conversations, Counted
  <2> QED BY <1>3, <2>1, LenProperties
<1>5. /\ (interest[d] = "write") <=> (connections[d].pending > 0)
      /\ (interest[d] = "write") <=> (Stage(connections[d].buffer) = "end")
  BY DEF TablesInv, Slots, ConnectionsMatchDescriptors, Open
<1>6. Fits(connections[d], sent[owner[d]], got[owner[d]], executed[owner[d]],
           answered[owner[d]], owner[d] \notin eager)
  BY DEF Conversations, Counted
<1> QED BY <1>1, <1>2, <1>3, <1>4, <1>5, <1>6

(* Each socket has a client of its own.                                    *)
LEMMA OwnersDiffer ==
  ASSUME TablesInv, NEW d \in Open, NEW e \in Open, owner[d] = owner[e]
  PROVE  d = e
BY ServerAssumption DEF TablesInv, Slots, ConnectionsMatchDescriptors, Open

(***************************************************************************)
(* What a step may leave alone.                                            *)
(***************************************************************************)
(* No client begins to wait, and the connections that are open were open   *)
(* before: nothing was said.                                               *)
NoOneBegins ==
  /\ \A c \in Clients : /\ link'[c] = "new" => link[c] = "new"
                        /\ link'[c] \in {"new", "backlog"} => link[c] \in {"new", "backlog"}
  /\ UNCHANGED <<sent, eager>>

OthersStay(D) ==
  \A d \in Open' \ D :
    d \in Open /\ connections'[d] = connections[d] /\ owner'[d] = owner[d]

LEMMA NothingIsCounted ==
  ASSUME Conversations, NoOneBegins, UNCHANGED <<got, executed, answered>>
  PROVE  \A c \in Clients : Counted(c)'
<1> TAKE c \in Clients
<1>1. Requests(Received(c))' = Requests(Received(c))
  BY DEF Received, Requests, NoOneBegins
<1>2. Untouched(c)' <=> Untouched(c)
  BY DEF Untouched
<1> QED BY <1>1, <1>2 DEF Conversations, Counted, NoOneBegins

LEMMA NothingIsSaid ==
  ASSUME Conversations, NoOneBegins, OthersStay({}), UNCHANGED <<got, executed, answered>>
  PROVE  Conversations'
<1>1. \A d \in Open' :
        Fits(connections'[d], sent'[owner'[d]], got'[owner'[d]], executed'[owner'[d]],
             answered'[owner'[d]], owner'[d] \notin eager')
  BY DEF Conversations, OthersStay, NoOneBegins
<1> QED BY <1>1, NothingIsCounted DEF Conversations

(* Only the client of descriptor d was heard or answered.                  *)
LEMMA OneIsHeard ==
  ASSUME TablesInv, Conversations, NEW d \in Open, NoOneBegins, OthersStay({d}),
         \A c \in Clients \ {owner[d]} :
           got'[c] = got[c] /\ executed'[c] = executed[c] /\ answered'[c] = answered[c],
         got'[owner[d]] <= Len(sent[owner[d]]),
         executed'[owner[d]] <= Requests(SubSeq(sent[owner[d]], 1, got'[owner[d]])),
         answered'[owner[d]] <= executed'[owner[d]],
         executed'[owner[d]] <= answered'[owner[d]] + 1,
         d \in Open' =>
           /\ owner'[d] = owner[d]
           /\ Fits(connections'[d], sent[owner[d]], got'[owner[d]], executed'[owner[d]],
                   answered'[owner[d]], owner[d] \notin eager)
  PROVE  Conversations'
<1> DEFINE o == owner[d]
<1>0. o \in Clients /\ link[o] = "open"
  BY OpenConnection
<1>1. ASSUME NEW e \in Open'
      PROVE  Fits(connections'[e], sent'[owner'[e]], got'[owner'[e]], executed'[owner'[e]],
                  answered'[owner'[e]], owner'[e] \notin eager')
  <2>1. CASE e = d
    BY <2>1 DEF NoOneBegins
  <2>2. CASE e # d
    <3>1. e \in Open /\ connections'[e] = connections[e] /\ owner'[e] = owner[e]
      BY <2>2 DEF OthersStay
    <3>2. owner[e] \in Clients \ {o}
      BY <2>2, <3>1, OwnersDiffer, OpenConnection
    <3>3. Fits(connections[e], sent[owner[e]], got[owner[e]], executed[owner[e]],
               answered[owner[e]], owner[e] \notin eager)
      BY <3>1 DEF Conversations, Counted
    <3> QED BY <3>1, <3>2, <3>3 DEF NoOneBegins
  <2> QED BY <2>1, <2>2
<1>2. ASSUME NEW c \in Clients
      PROVE  Counted(c)'
  <2>1. CASE c = o
    <3>1. link'[c] \notin {"new", "backlog"}
      BY <1>0, <2>1 DEF NoOneBegins
    <3>2. Requests(Received(c))' = Requests(SubSeq(sent[o], 1, got'[o]))
      BY <2>1 DEF Received, Requests, NoOneBegins
    <3>3. sent'[c] = sent[o]
      BY <2>1 DEF NoOneBegins
    <3> QED BY <2>1, <3>1, <3>2, <3>3 DEF Counted
  <2>2. CASE c # o
    <3>0. /\ got'[c] = got[c] /\ executed'[c] = executed[c] /\ answered'[c] = answered[c]
          /\ sent'[c] = sent[c] /\ (c \notin eager' <=> c \notin eager)
          /\ link'[c] = "new" => link[c] = "new"
          /\ link'[c] \in {"new", "backlog"} => link[c] \in {"new", "backlog"}
      BY <2>2 DEF NoOneBegins
    <3>1. Requests(Received(c))' = Requests(Received(c))
      BY <3>0 DEF Received, Requests
    <3>2. Untouched(c)' <=> Untouched(c)
      BY <3>0 DEF Untouched
    <3> QED BY <3>0, <3>1, <3>2 DEF Conversations, Counted
  <2> QED BY <2>1, <2>2
<1> QED BY <1>1, <1>2 DEF Conversations, Counted

(* The events that still wait are about what they were about, or about a   *)
(* connection that was accepted meanwhile.                                 *)
LEMMA EventsStay ==
  ASSUME Events, batch' \subseteq batch,
         \A f \in batch' : f.on \in Open' =>
           \/ /\ f.on \in Open
              /\ connections'[f.on] = connections[f.on] /\ interest'[f.on] = interest[f.on]
              /\ owner'[f.on] = owner[f.on] /\ got'[owner[f.on]] = got[owner[f.on]]
              /\ Broken(owner[f.on]) => Broken(owner[f.on])'
           \/ connections'[f.on] = Fresh /\ got'[owner'[f.on]] = 0,
         [on |-> Listen, kind |-> "error"] \in batch' => Listen \in broken'
  PROVE  Events'
<1>1. \A e, f \in batch' : e.on = f.on => e = f
  BY DEF Events
<1>2. ASSUME NEW f \in batch', f.on \in Open'
      PROVE  \/ f.kind = "in" /\ interest'[f.on] = "read"
             \/ f.kind = "out" /\ interest'[f.on] = "write"
             \/ f.kind = "error" /\ Broken(owner[f.on])'
             \/ connections'[f.on] = Fresh /\ got'[owner'[f.on]] = 0
  BY <1>2 DEF Events, Broken
<1> QED BY <1>1, <1>2 DEF Events

(***************************************************************************)
(* The server's steps.                                                     *)
(***************************************************************************)
(* A connection that is closed takes nothing with it.                      *)
LEMMA ClosedConnection ==
  ASSUME TablesInv, NEW D, D \subseteq Open, Close(D)
  PROVE  /\ Open' = Open \ D /\ OthersStay({})
         /\ \A e \in Open' : interest'[e] = interest[e]
         /\ \A c \in Clients : link'[c] = link[c] \/ link'[c] = "gone"
<1>1. Open' = Open \ D
  BY DEF Close, Open
<1>2. \A e \in Open' :
        connections'[e] = connections[e] /\ owner'[e] = owner[e] /\ interest'[e] = interest[e]
  BY <1>1 DEF Close, Open
<1>3. \A c \in Clients : link'[c] = link[c] \/ link'[c] = "gone"
  BY DEF Close
<1> QED BY <1>1, <1>2, <1>3 DEF OthersStay

LEMMA KeptConnection ==
  ASSUME TablesInv, NEW d \in Open, NEW x \in Connection, NEW mode, Keep(d, x, mode)
  PROVE  /\ Open' = Open /\ OthersStay({d}) /\ UNCHANGED <<owner, link>>
         /\ connections'[d] = x /\ interest'[d] = mode
         /\ \A e \in Open \ {d} :
              connections'[e] = connections[e] /\ interest'[e] = interest[e]
<1>1. x # NoConnection
  BY NoConnectionAssumption, Zenon DEF Connection
<1>2. /\ connections' = [connections EXCEPT ![d] = x]
      /\ interest' = [interest EXCEPT ![d] = mode] /\ UNCHANGED <<owner, link>>
  BY DEF Keep
<1>3. d \in Descriptors /\ connections \in [Descriptors -> Connection \cup {NoConnection}]
      /\ interest \in [Descriptors -> {"none", "read", "write"}]
  BY DEF TablesInv, Slots, Open
<1>4. /\ connections'[d] = x /\ interest'[d] = mode
      /\ \A e \in Descriptors \ {d} :
           connections'[e] = connections[e] /\ interest'[e] = interest[e]
  BY <1>2, <1>3
<1>5. Open' = Open
  BY <1>1, <1>4 DEF Open
<1> QED BY <1>2, <1>4, <1>5 DEF OthersStay, Open

(* A connection is read from: it is one that waits for a request.          *)
LEMMA ReceiveKeepsConversations ==
  ASSUME TablesInv, Conversations, NEW d \in Open, Receive(d),
         Stage(connections[d].buffer) # "end", UNCHANGED <<sent, eager>>
  PROVE  /\ Conversations' /\ OthersStay({d})
         /\ \A c \in Clients \ {owner[d]} : got'[c] = got[c]
         /\ \/ /\ Close({d})
               /\ \/ peer[owner[d]] # "up" \/ TooLarge(owner[d])
                  \/ /\ executed'[owner[d]] = answered'[owner[d]]
                     /\ owner[d] \notin eager => "garbage" \in ToSet(sent[owner[d]])
            \/ d \in Open' /\ UNCHANGED link
         /\ \A e \in Open' \ {d} : interest'[e] = interest[e]
<1> DEFINE c == owner[d]
           x == connections[d]
           s == sent[c]
           g == got[c]
           waiting == IF Broken(c) THEN <<>> ELSE Unread(c)
           read == Fitting(x.buffer, waiting)
           u == SubSeq(waiting, 1, read)
           b == x.buffer \o u
           h == g + read
           complete == Stage(b) = "end"
           ran == executed[c] + (IF complete THEN 1 ELSE 0)
           patient == c \notin eager
           hasErrors == peer[c] # "up" \/ Overflows(x.buffer, waiting)
           reply(size) == [buffer |-> b, pending |-> IF complete THEN size ELSE 0]
           mode == IF complete THEN "write" ELSE "read"
<1>1. /\ d \in Descriptors /\ c \in Clients /\ link[c] = "open"
      /\ x \in Connection /\ s \in Seq(Pieces) /\ g \in 0..Len(s)
      /\ executed[c] \in Nat /\ answered[c] \in Nat
      /\ (x.pending > 0) <=> (Stage(x.buffer) = "end")
      /\ Fits(x, s, g, executed[c], answered[c], patient)
  BY OpenConnection
<1>2. x.buffer \in Seq(Pieces) /\ x.pending = 0
  BY <1>1, ConnectionType
<1>3. executed[c] = answered[c]
  BY <1>1, <1>2 DEF Fits
<1>4. answered' = answered
  BY DEF Receive, history
<1>5. /\ u \in Seq(Pieces) /\ Len(u) = read /\ h \in 0..Len(s)
      /\ \A i \in 1..read : u[i] = s[g + i]
  <2> DEFINE buffer == x.buffer
  <2>1. waiting \in {<<>>, SubSeq(s, g + 1, Len(s))}
    BY DEF Unread
  <2>2. TakesNext(s, g, buffer, waiting)
    <3> HIDE DEF waiting, s, g, x, c, buffer
    <3> QED BY <1>1, <2>1, NextPieces
  <2> QED BY <2>2 DEF TakesNext
<1>6. /\ got' = [got EXCEPT ![c] = @ + read]
      /\ executed' = IF complete THEN [executed EXCEPT ![c] = @ + 1] ELSE executed
      /\ IF Stage(b) = "failed" \/ hasErrors THEN Close({d})
         ELSE \E size \in Responses : Keep(d, reply(size), mode)
  BY DEF Receive
<1>7. ASSUME NEW size \in 0..Oversize, size > 0
      PROVE  /\ b \in Seq(Pieces) /\ Fits(reply(size), s, h, ran, answered[c], patient)
             /\ reply(size) \in Connection /\ reply(size).buffer = b
             /\ (reply(size).pending > 0) <=> complete
             /\ complete \/ reply(size).pending = 0
  <2> DEFINE p == IF complete THEN size ELSE 0
  <2>1. p \in 0..Oversize /\ p \in Nat /\ (p > 0 <=> complete)
    BY <1>7, OversizeIsMore
  <2> DEFINE y == [buffer |-> x.buffer \o u, pending |-> p]
  <2>2. y.buffer \in Seq(Pieces) /\ Fits(y, s, h, ran, answered[c], patient)
    <3>1. \A i \in 1..Len(u) : u[i] = s[g + i]
      BY <1>5
    <3>2. h = g + Len(u) /\ ran = executed[c] + (IF y.pending > 0 THEN 1 ELSE 0)
      BY <1>5, <2>1
    <3>3. Hears(x, s, g, executed[c], y, u, h, ran)
      BY <1>5, <3>1, <3>2 DEF Hears
    <3>4. /\ x \in Connection /\ s \in Seq(Pieces) /\ g \in 0..Len(s)
          /\ executed[c] \in Nat /\ answered[c] \in Nat /\ x.pending = 0
          /\ Fits(x, s, g, executed[c], answered[c], patient)
      BY <1>1, <1>2
    <3> HIDE DEF c, x, s, g, u, p, read, h, ran, y, complete, b
    <3> QED BY <3>3, <3>4, ReceiveKeepsFits
  <2>3. y = reply(size) /\ y.buffer = b /\ y.pending = p
    OBVIOUS
  <2>4. y \in Connection
    BY <2>1, <2>2, <2>3 DEF Connection
  <2>5. complete \/ p = 0
    OBVIOUS
  <2> HIDE DEF y, b, p, h, ran
  <2> QED BY <2>1, <2>2, <2>3, <2>4, <2>5
<1>8. b \in Seq(Pieces) /\ ran \in Nat /\ ran <= Requests(SubSeq(s, 1, h))
  <2> DEFINE z == reply(1)
  <2>0. 1 \in 0..Oversize /\ 1 > 0
    BY OversizeIsMore
  <2> HIDE DEF reply, b, h, ran, c, s
  <2>1. /\ b \in Seq(Pieces) /\ Fits(z, s, h, ran, answered[c], patient)
        /\ z.buffer = b /\ ((z.pending > 0) <=> complete) /\ z \in Connection
    BY <1>7, <2>0, Zenon
  <2>2. z \in Connection
    BY <2>1
  <2>3. ran \in Nat
    BY <1>1 DEF ran, c
  <2>4. (z.pending > 0) <=> (Stage(z.buffer) = "end")
    BY <2>1
  <2> HIDE DEF z, c, s, g, h, ran
  <2> QED BY <1>1, <1>5, <2>1, <2>2, <2>3, <2>4, RanForWhatCameIn
<1>9. /\ got'[c] = h /\ executed'[c] = ran
      /\ \A e \in Clients \ {c} : got'[e] = got[e] /\ executed'[e] = executed[e]
  <2> HIDE DEF read, complete
  <2> QED BY <1>1, <1>6 DEF TablesInv, Rest
<1>10. /\ answered'[c] <= executed'[c] /\ executed'[c] <= answered'[c] + 1
       /\ got'[c] <= Len(s)
  <2> HIDE DEF h, complete
  <2>1. Len(s) \in Nat
    BY <1>1, LenProperties
  <2> QED BY <1>1, <1>3, <1>4, <1>5, <1>9, <2>1
<1>11. CASE Close({d}) /\ (Stage(b) = "failed" \/ hasErrors)
  <2>1. /\ NoOneBegins /\ OthersStay({d}) /\ d \notin Open'
        /\ \A e \in Open' \ {d} : interest'[e] = interest[e]
    BY <1>1, <1>11, ClosedConnection DEF NoOneBegins, OthersStay
  <2>2. Conversations'
    <3> HIDE DEF b, ran, h, complete
    <3> QED BY <1>1, <1>4, <1>8, <1>9, <1>10, <2>1, OneIsHeard
  <2>3. hasErrors => peer[c] # "up" \/ TooLarge(c)
    BY <1>1, <1>2 DEF TooLarge, Broken
  <2>4. ASSUME Stage(b) = "failed"
        PROVE  executed'[c] = answered'[c] /\ (c \notin eager => "garbage" \in ToSet(s))
    <3>1. executed'[c] = executed[c]
      BY <1>6, <2>4
    <3>2. ASSUME patient PROVE "garbage" \in ToSet(s)
      <4> DEFINE z == reply(1)
      <4> HIDE DEF reply
      <4>0. 1 \in 0..Oversize
        BY OversizeIsMore
      <4>1. Fits(z, s, h, ran, answered[c], patient) /\ z.buffer = b /\ z \in Connection
        BY <1>7, <4>0
      <4>3. z \in Connection
        BY <4>1
      <4>4. Fits(z, s, h, ran, answered[c], TRUE) /\ Stage(z.buffer) = "failed"
        BY <2>4, <3>2, <4>1
      <4> HIDE DEF z, b, c, s, g, h, ran
      <4> QED BY <1>1, <1>5, <1>8, <4>3, <4>4, OnlyGarbageFails
    <3> QED BY <1>3, <1>4, <3>1, <3>2
  <2>5. \/ peer[c] # "up" \/ TooLarge(c)
        \/ executed'[c] = answered'[c] /\ (c \notin eager => "garbage" \in ToSet(s))
    <3> HIDE DEF b, c, s, hasErrors
    <3> QED BY <1>11, <2>3, <2>4
  <2>6. Close({d}) /\ \A e \in Clients \ {c} : got'[e] = got[e]
    BY <1>9, <1>11
  <2> HIDE DEF b, hasErrors, patient
  <2> QED BY <2>1, <2>2, <2>5, <2>6
<1>12. ASSUME NEW size \in Responses, Keep(d, reply(size), mode)
       PROVE  /\ Conversations' /\ OthersStay({d}) /\ d \in Open' /\ UNCHANGED link
              /\ \A e \in Open' \ {d} : interest'[e] = interest[e]
  <2> DEFINE z == reply(size)
  <2> HIDE DEF reply
  <2>1. size \in 0..Oversize /\ size > 0
    BY ResponseSizes
  <2>2. Fits(z, s, h, ran, answered[c], patient) /\ z \in Connection
    BY <1>7, <2>1
  <2>3. z \in Connection
    BY <2>2
  <2>4. Keep(d, z, mode)
    BY <1>12
  <2> HIDE DEF z
  <2>5. /\ NoOneBegins /\ OthersStay({d}) /\ UNCHANGED <<owner, link>>
        /\ connections'[d] = z /\ d \in Open'
        /\ \A e \in Open' \ {d} : interest'[e] = interest[e]
    BY <2>3, <2>4, KeptConnection DEF NoOneBegins
  <2>6. /\ owner'[d] = c
        /\ Fits(connections'[d], s, got'[c], executed'[c], answered'[c], patient)
    BY <1>4, <1>9, <2>2, <2>5
  <2>7. Conversations'
    <3> HIDE DEF b, ran, h, complete
    <3> QED BY <1>1, <1>4, <1>8, <1>9, <1>10, <2>5, <2>6, OneIsHeard
  <2> QED BY <2>5, <2>7
<1>13. \/ Close({d}) /\ (Stage(b) = "failed" \/ hasErrors)
       \/ \E size \in Responses : Keep(d, reply(size), mode)
  BY <1>6
<1>14. \A e \in Clients \ {c} : got'[e] = got[e]
  BY <1>9
<1> HIDE DEF b, hasErrors, reply, mode
<1> QED BY <1>11, <1>12, <1>13, <1>14

(* A connection is written to: there is a response, or it is fresh.        *)
LEMMA TransmitKeepsConversations ==
  ASSUME TablesInv, Conversations, NEW d \in Open, Transmit(d),
         connections[d].pending > 0 \/ connections[d] = Fresh, UNCHANGED <<sent, eager>>
  PROVE  /\ Conversations' /\ OthersStay({d}) /\ got' = got
         /\ \/ /\ Close({d})
               /\ \/ peer[owner[d]] # "up" \/ TooLarge(owner[d])
                  \/ /\ executed'[owner[d]] = answered'[owner[d]]
                     /\ answered'[owner[d]] > answered[owner[d]] \/ connections[d] = Fresh
            \/ d \in Open' /\ UNCHANGED link
         /\ \A e \in Open' \ {d} : interest'[e] = interest[e]
<1> DEFINE c == owner[d]
           x == connections[d]
           s == sent[c]
           patient == c \notin eager
<1>1. /\ d \in Descriptors /\ c \in Clients /\ link[c] = "open"
      /\ x \in Connection /\ s \in Seq(Pieces) /\ got[c] \in 0..Len(s)
      /\ executed[c] \in Nat /\ answered[c] \in Nat
      /\ (x.pending > 0) <=> (Stage(x.buffer) = "end")
      /\ Fits(x, s, got[c], executed[c], answered[c], patient)
  BY OpenConnection
<1>2. PICK left \in Left(c, x.pending) :
        /\ answered' = IF left = 0 /\ x.pending > 0
                       THEN [answered EXCEPT ![c] = @ + 1] ELSE answered
        /\ \/ left = 0 /\ KeepAlive(x.buffer) /\ Keep(d, Fresh, "read")
           \/ left = 0 /\ ~KeepAlive(x.buffer) /\ Close({d})
           \/ WriterHasErrors(c, left) /\ Close({d})
           \/ /\ left > 0 /\ ~WriterHasErrors(c, left)
              /\ Keep(d, [x EXCEPT !.pending = left], "write")
        /\ UNCHANGED <<got, executed>>
  BY DEF Transmit
<1>3. left \in 0..Oversize /\ (left > 0 => x.pending > 0)
  <2>1. x.pending \in 0..Oversize
    BY <1>1, ConnectionType
  <2> QED BY <1>2, <2>1, LeftOver
<1>4. /\ \A e \in Clients \ {c} :
           got'[e] = got[e] /\ executed'[e] = executed[e] /\ answered'[e] = answered[e]
      /\ got'[c] = got[c] /\ executed'[c] = executed[c] /\ got' = got
      /\ answered'[c] = IF left = 0 /\ x.pending > 0 THEN answered[c] + 1 ELSE answered[c]
  BY <1>1, <1>2 DEF TablesInv, Rest
<1>5. got[c] <= Len(s) /\ executed[c] <= Requests(SubSeq(s, 1, got[c]))
  BY <1>1 DEF Conversations, Counted, Received
<1>6. executed[c] = answered[c] + (IF x.pending > 0 THEN 1 ELSE 0)
  BY <1>1 DEF Fits
<1>7. answered'[c] <= executed'[c] /\ executed'[c] <= answered'[c] + 1
  BY <1>1, <1>4, <1>6
<1>8. ASSUME Close({d})
      PROVE  /\ NoOneBegins /\ OthersStay({d}) /\ d \notin Open'
             /\ \A e \in Open' \ {d} : interest'[e] = interest[e]
  BY <1>1, <1>8, ClosedConnection DEF NoOneBegins, OthersStay
<1>9. ASSUME NEW z \in Connection, NEW mode, Keep(d, z, mode)
      PROVE  /\ NoOneBegins /\ OthersStay({d}) /\ UNCHANGED <<owner, link>>
             /\ connections'[d] = z /\ d \in Open'
             /\ \A e \in Open' \ {d} : interest'[e] = interest[e]
  BY <1>9, KeptConnection DEF NoOneBegins
<1>10. CASE Close({d})
  <2>1. Conversations'
    <3> HIDE DEF c, s, x
    <3> QED BY <1>1, <1>4, <1>5, <1>7, <1>8, <1>10, OneIsHeard DEF c, s
  <2>2. \/ peer[c] # "up" \/ TooLarge(c)
        \/ /\ executed'[c] = answered'[c]
           /\ answered'[c] > answered[c] \/ x = Fresh
    <3>1. CASE left > 0
      <4>1. WriterHasErrors(c, left)
        <5>1. [x EXCEPT !.pending = left] \in Connection
          BY <1>1, <1>3 DEF Connection
        <5>2. ~Keep(d, [x EXCEPT !.pending = left], "write")
          BY <1>8, <1>9, <1>10, <5>1
        <5> QED BY <1>2, <3>1, <5>2
      <4>2. CASE Broken(c)
        BY <4>2 DEF Broken
      <4>3. CASE left = Oversize
        <5>1. x.pending = Oversize
          <6>1. x.pending \in 0..Oversize
            BY <1>1, ConnectionType
          <6> QED BY <1>2, <4>3, <6>1, LeftOver
        <5> QED BY <5>1 DEF TooLarge
      <4> QED BY <4>1, <4>2, <4>3 DEF WriterHasErrors
    <3>2. CASE left = 0 /\ x.pending > 0
      BY <1>1, <1>4, <1>6, <3>2
    <3>3. CASE ~(x.pending > 0)
      BY <1>1, <1>4, <1>6, <3>3
    <3> QED BY <1>3, <3>1, <3>2, <3>3
  <2> QED BY <1>4, <1>8, <1>10, <2>1, <2>2
<1>11. CASE left = 0 /\ KeepAlive(x.buffer) /\ Keep(d, Fresh, "read")
  <2>1. x # Fresh
    BY <1>11 DEF KeepAlive, Fresh
  <2>2. x.pending > 0
    BY <2>1
  <2>3. Fits(Fresh, s, got[c], executed[c], answered[c] + 1, patient)
    <3> HIDE DEF c, s, x
    <3> QED BY <1>1, <2>2, RestartKeepsFits
  <2> QED BY <1>1, <1>4, <1>5, <1>7, <1>9, <1>11, <2>2, <2>3, FreshIsConnection, OneIsHeard
<1>12. CASE left > 0 /\ Keep(d, [x EXCEPT !.pending = left], "write")
  <2> DEFINE z == [x EXCEPT !.pending = left]
  <2>1. z \in Connection
    BY <1>1, <1>3 DEF Connection
  <2>2. Fits(z, s, got[c], executed[c], answered[c], patient)
    <3> HIDE DEF c, s, x
    <3> QED BY <1>1, <1>3, <1>12, PartKeepsFits
  <2>3. Keep(d, z, "write")
    BY <1>12
  <2>4. answered'[c] = answered[c]
    BY <1>4, <1>12
  <2> HIDE DEF z
  <2>5. /\ NoOneBegins /\ OthersStay({d}) /\ UNCHANGED <<owner, link>>
        /\ connections'[d] = z /\ d \in Open'
        /\ \A e \in Open' \ {d} : interest'[e] = interest[e]
    BY <1>9, <2>1, <2>3
  <2>6. Conversations'
    BY <1>1, <1>4, <1>5, <1>7, <2>2, <2>4, <2>5, OneIsHeard
  <2> QED BY <1>4, <2>5, <2>6
<1> QED BY <1>2, <1>10, <1>11, <1>12

(* What epoll_wait reports fits the connections.                           *)
LEMMA ReadyEvents ==
  ASSUME TablesInv
  PROVE  /\ \A e, f \in Ready : e.on = f.on => e = f
         /\ \A e \in Ready : e.on \in Open =>
              \/ e.kind = "in" /\ interest[e.on] = "read"
              \/ e.kind = "out" /\ interest[e.on] = "write"
              \/ e.kind = "error" /\ Broken(owner[e.on])
         /\ [on |-> Listen, kind |-> "error"] \in Ready => Listen \in broken
<1>1. ASSUME NEW d \in Descriptors, NEW e \in ClientReady(d)
      PROVE  /\ e.on = d /\ \A f \in ClientReady(d) : e = f
             /\ \/ e.kind = "in" /\ interest[d] = "read"
                \/ e.kind = "out" /\ interest[d] = "write"
                \/ e.kind = "error" /\ Broken(owner[d])
  BY <1>1 DEF ClientReady, Broken
<1>2. ASSUME NEW d \in Own, NEW readable \in BOOLEAN, NEW e \in On(d, readable)
      PROVE  /\ e.on = d /\ \A f \in On(d, readable) : e = f
             /\ e.kind = "error" => d \in broken
  BY <1>2 DEF On
<1>3. /\ timerDue \in BOOLEAN /\ signalled \in BOOLEAN
      /\ Own \cap Descriptors = {} /\ Own = {Timer, Signals, Listen}
      /\ Timer # Signals /\ Timer # Listen /\ Signals # Listen
  BY ServerAssumption DEF TablesInv, Rest, Own, Timer, Signals, Listen
<1>4. ASSUME NEW e \in Ready
      PROVE  \/ e.on \in Descriptors /\ e \in ClientReady(e.on)
             \/ e.on = Timer /\ e \in On(Timer, timerDue)
             \/ e.on = Signals /\ e \in On(Signals, signalled)
             \/ e.on = Listen /\ e \in On(Listen, backlog # <<>>)
  <2>1. CASE \E d \in Descriptors : e \in ClientReady(d)
    BY <1>1, <2>1
  <2>2. CASE e \in On(Timer, timerDue)
    BY <1>2, <1>3, <2>2
  <2>3. CASE e \in On(Signals, signalled)
    BY <1>2, <1>3, <2>3
  <2>4. CASE e \in On(Listen, backlog # <<>>)
    <3>1. (backlog # <<>>) \in BOOLEAN /\ Listen \in Own
      BY <1>3
    <3>2. e.on = Listen
      BY <1>2, <2>4, <3>1, Zenon
    <3> QED BY <2>4, <3>2
  <2> QED BY <2>1, <2>2, <2>3, <2>4, Zenon DEF Ready
<1>5. \A e, f \in Ready : e.on = f.on => e = f
  <2> TAKE e \in Ready, f \in Ready
  <2> HAVE e.on = f.on
  <2>1. CASE e.on \in Descriptors
    BY <1>1, <1>3, <1>4, <2>1
  <2>2. CASE e.on \in Own
    <3>1. e.on \notin Descriptors
      BY <1>3, <2>2
    <3> QED BY <1>2, <1>3, <1>4, <2>2, <3>1
  <2> QED BY <1>3, <1>4, <2>1, <2>2
<1>6. \A e \in Ready : e.on \in Open =>
        \/ e.kind = "in" /\ interest[e.on] = "read"
        \/ e.kind = "out" /\ interest[e.on] = "write"
        \/ e.kind = "error" /\ Broken(owner[e.on])
  <2> TAKE e \in Ready
  <2> HAVE e.on \in Open
  <2>1. e.on \in Descriptors
    BY DEF Open
  <2> QED BY <1>1, <1>3, <1>4, <2>1
<1>7. [on |-> Listen, kind |-> "error"] \in Ready => Listen \in broken
  <2> DEFINE e == [on |-> Listen, kind |-> "error"]
  <2>1. e.on = Listen /\ e.kind = "error"
    OBVIOUS
  <2> HIDE DEF e
  <2>2. e \in Ready => e \in On(Listen, backlog # <<>>)
    BY <1>3, <1>4, <2>1
  <2>3. e \in Ready => Listen \in broken
    BY <1>2, <1>3, <2>1, <2>2
  <2> QED BY <2>3 DEF e
<1> QED BY <1>5, <1>6, <1>7

(* A client that says something is heard later.                            *)
LEMMA SendKeepsConversations ==
  ASSUME TablesInv, Conversations, NEW c \in Clients, SendPiece(c)
  PROVE  Conversations'
<1>1. PICK p \in Pieces :
        /\ IF sent[c] = <<>> \/ Last(sent[c]) \in Tails
           THEN p \notin Tails ELSE p \notin Heads
        /\ "garbage" \notin ToSet(sent[c])
        /\ sent' = [sent EXCEPT ![c] = Append(@, p)]
        /\ eager' = IF p \in Heads /\ answered[c] < Requests(sent[c])
                    THEN eager \cup {c} ELSE eager
  BY DEF SendPiece
<1>2. /\ UNCHANGED <<link, got, owner, connections, executed, answered>>
      /\ link[c] \in {"backlog", "open"}
  BY DEF SendPiece, kernel, history, Linked
<1>3. Open' = Open
  BY <1>2 DEF Open
<1>4. /\ sent[c] \in Seq(Pieces) /\ got[c] \in Nat /\ executed[c] \in Nat /\ answered[c] \in Nat
      /\ Append(sent[c], p) \in Seq(Pieces) /\ Len(Append(sent[c], p)) = Len(sent[c]) + 1
      /\ Len(sent[c]) \in Nat
  BY AppendProperties, LenProperties DEF TablesInv, Rest
<1>5. /\ sent'[c] = Append(sent[c], p)
      /\ \A b \in Clients \ {c} : sent'[b] = sent[b] /\ (b \in eager' <=> b \in eager)
      /\ c \notin eager' => c \notin eager /\ ~(p \in Heads /\ answered[c] < Requests(sent[c]))
  BY <1>1 DEF TablesInv, Rest
<1>6. got[c] <= Len(sent[c]) /\ got[c] \in 0..Len(sent[c])
  BY <1>4 DEF Conversations, Counted
<1>7. Received(c)' = Received(c)
  BY <1>2, <1>4, <1>5, <1>6, PrefixOfAppend DEF Received
<1>8. ASSUME NEW d \in Open
      PROVE  Fits(connections[d], sent'[owner[d]], got[owner[d]], executed[owner[d]],
                  answered[owner[d]], owner[d] \notin eager')
  <2>1. CASE owner[d] = c
    <3> DEFINE x == connections[d]
               s == sent[c]
               before == c \notin eager
               after == c \notin eager'
    <3>1. x \in Connection /\ Fits(x, s, got[c], executed[c], answered[c], before)
      BY <1>8, <2>1, OpenConnection
    <3>2. before \in BOOLEAN /\ after \in BOOLEAN
      OBVIOUS
    <3>3. after => before /\ ~(p \in Heads /\ answered[c] < Requests(s))
      BY <1>5
    <3>4. IF s = <<>> \/ Last(s) \in Tails THEN p \notin Tails ELSE p \notin Heads
      BY <1>1
    <3>5. "garbage" \notin ToSet(s) /\ s \in Seq(Pieces)
      BY <1>1, <1>4
    <3> HIDE DEF x, s, before, after
    <3>6. Fits(x, Append(s, p), got[c], executed[c], answered[c], after)
      BY <1>4, <1>6, <3>1, <3>2, <3>3, <3>4, <3>5, SendKeepsFits DEF s
    <3> QED BY <1>5, <2>1, <3>6 DEF x, s, after
  <2>2. CASE owner[d] # c
    <3>1. owner[d] \in Clients \ {c}
      BY <1>8, <2>2, OpenConnection
    <3> QED BY <1>5, <1>8, <3>1 DEF Conversations, Counted
  <2> QED BY <2>1, <2>2
<1>9. ASSUME NEW b \in Clients
      PROVE  Counted(b)'
  <2>1. Untouched(b)' <=> Untouched(b)
    BY <1>2 DEF Untouched
  <2>2. CASE b = c
    <3>1. got'[b] <= Len(sent'[b])
      BY <1>2, <1>4, <1>5, <1>6, <2>2
    <3>2. Requests(Received(c))' = Requests(Received(c))
      BY <1>7 DEF Requests
    <3>3. link'[c] # "new"
      BY <1>2
    <3>4. ASSUME link[c] = "backlog", c \notin eager'
          PROVE  OneRequestAfter(Append(sent[c], p), 0)
      <4>1. c \notin eager /\ ~(p \in Heads /\ answered[c] < Requests(sent[c]))
        BY <1>5, <3>4
      <4>2. OneRequestAfter(sent[c], 0) /\ answered[c] = 0
        BY <3>4, <4>1 DEF Conversations, Counted, Untouched
      <4>3. Requests(SubSeq(sent[c], 1, 0)) = 0
        BY <1>4, NoRequests
      <4>4. 0 \in 0..Len(sent[c])
        BY <1>4
      <4>5. ~(p \in Heads /\ Requests(SubSeq(sent[c], 1, 0)) < Requests(sent[c]))
        BY <4>1, <4>2, <4>3
      <4> QED BY <1>1, <1>4, <4>2, <4>4, <4>5, SendKeepsOneRequest
    <3> QED BY <1>2, <1>5, <2>1, <2>2, <3>1, <3>2, <3>3, <3>4 DEF Conversations, Counted
  <2>3. CASE b # c
    <3>1. Requests(Received(b))' = Requests(Received(b))
      BY <1>2, <1>5, <2>3 DEF Received, Requests
    <3> QED BY <1>2, <1>5, <2>1, <2>3, <3>1 DEF Conversations, Counted
  <2> QED BY <2>2, <2>3
<1> QED BY <1>2, <1>3, <1>8, <1>9 DEF Conversations, Counted

(* An event is taken from the batch and changes no connection but its own. *)
LEMMA EventTaken ==
  ASSUME TablesInv, Events, NEW e, Take(e), OthersStay({e.on}), UNCHANGED peer,
         \A d \in Open' \ {e.on} :
           interest'[d] = interest[d] /\ got'[owner[d]] = got[owner[d]],
         [on |-> Listen, kind |-> "error"] \in batch' => Listen \in broken'
  PROVE  Events'
<1>1. batch' \subseteq batch /\ \A f \in batch' : f.on # e.on
  BY DEF Take, Events
<1>2. ASSUME NEW f \in batch', f.on \in Open'
      PROVE  /\ f.on \in Open
             /\ connections'[f.on] = connections[f.on] /\ interest'[f.on] = interest[f.on]
             /\ owner'[f.on] = owner[f.on] /\ got'[owner[f.on]] = got[owner[f.on]]
             /\ Broken(owner[f.on]) => Broken(owner[f.on])'
  BY <1>1, <1>2 DEF OthersStay, Broken
<1> QED BY <1>1, <1>2, EventsStay

(* A client is cut off after its last response, or before anything came in *)
(* from it, or for what it sent; its requests were answered.               *)
GoesInOrder(c) ==
  /\ executed'[c] = answered'[c]
  /\ \/ answered'[c] > answered[c] \/ got'[c] = 0
     \/ "garbage" \in ToSet(sent[c]) \/ c \in eager

Justified == \A c \in Clients : CutOff(c) => Excused(c) \/ TooLarge(c) \/ GoesInOrder(c)

AnswersInv == Conversations /\ Events

LEMMA ClientEventKeepsAnswers ==
  ASSUME TablesInv, TablesInv', AnswersInv,
         NEW d \in Descriptors, NEW kind \in {"in", "out", "error"},
         HandleClientEvent(d, kind)
  PROVE  AnswersInv' /\ Justified
<1> DEFINE e == [on |-> d, kind |-> kind]
           o == owner[d]
<1> USE DEF AnswersInv
<1>1. /\ UNCHANGED <<sent, peer, eager, broken, server>>
      /\ Take(e) /\ e.on = d /\ e.kind = kind /\ e \in batch
  BY DEF HandleClientEvent, Take, clients, sources
<1> HIDE DEF e
<1>2. [on |-> Listen, kind |-> "error"] \in batch' => Listen \in broken'
  BY <1>1 DEF Take, Events
<1>3. d \in Open =>
        \/ kind = "in" /\ interest[d] = "read"
        \/ kind = "out" /\ interest[d] = "write"
        \/ kind = "error" /\ Broken(o)
        \/ connections[d] = Fresh /\ got[o] = 0
  BY <1>1 DEF Events
<1>4. Fresh.pending = 0 /\ Stage(Fresh.buffer) # "end"
  BY FreshIsConnection DEF Fresh
<1>5. CASE d \notin Open
  <2>1. UNCHANGED <<link, got, clogged, backlog, owner, interest, connections, expired,
                    executed, answered>>
    BY <1>5 DEF HandleClientEvent, kernel, history
  <2>2. OthersStay({}) /\ OthersStay({d}) /\ Open' = Open
    BY <2>1 DEF OthersStay, Open
  <2>3. Conversations'
    BY <1>1, <2>1, <2>2, NothingIsSaid DEF NoOneBegins
  <2>4. Events'
    BY <1>1, <1>2, <2>1, <2>2, EventTaken
  <2>5. Justified
    BY <2>1 DEF Justified, CutOff
  <2> QED BY <2>3, <2>4, <2>5
<1>6. ASSUME d \in Open, OthersStay({d}),
             \A c \in Clients \ {o} : got'[c] = got[c],
             \A f \in Open' \ {d} : interest'[f] = interest[f]
      PROVE  Events'
  <2>1. \A f \in Open' \ {d} : f \in Open
    BY <1>6 DEF OthersStay
  <2>2. \A f \in Open \ {d} : owner[f] \in Clients \ {o}
    BY <1>6, OpenConnection, OwnersDiffer
  <2> QED BY <1>1, <1>2, <1>6, <2>1, <2>2, EventTaken
<1>7. ASSUME d \in Open,
             \/ Close({d}) /\ (peer[o] # "up" \/ TooLarge(o) \/ GoesInOrder(o))
             \/ UNCHANGED link
      PROVE  Justified
  <2>1. CASE UNCHANGED link
    BY <2>1 DEF Justified, CutOff
  <2>2. CASE Close({d}) /\ (peer[o] # "up" \/ TooLarge(o) \/ GoesInOrder(o))
    <3>1. \A c \in Clients \ {o} : link'[c] = link[c]
      BY <2>2 DEF Close, TablesInv, Slots
    <3>2. \A c \in Clients : CutOff(c) => c = o
      BY <3>1 DEF CutOff
    <3> QED BY <2>2, <3>2 DEF Justified, Excused
  <2> QED BY <1>7, <2>1, <2>2
<1>8. CASE d \in Open /\ kind = "in" /\ Receive(d)
  <2>1. Stage(connections[d].buffer) # "end"
    <3>1. CASE interest[d] = "read"
      BY <1>8, <3>1, OpenConnection
    <3>2. CASE connections[d] = Fresh
      BY <1>4, <3>2
    <3> QED BY <1>3, <1>8, <3>1, <3>2
  <2>2. /\ Conversations' /\ OthersStay({d})
        /\ \A c \in Clients \ {o} : got'[c] = got[c]
        /\ \/ /\ Close({d})
              /\ \/ peer[o] # "up" \/ TooLarge(o)
                 \/ /\ executed'[o] = answered'[o]
                    /\ o \notin eager => "garbage" \in ToSet(sent[o])
           \/ d \in Open' /\ UNCHANGED link
        /\ \A f \in Open' \ {d} : interest'[f] = interest[f]
    BY <1>1, <1>8, <2>1, ReceiveKeepsConversations
  <2>3. (Close({d}) /\ (peer[o] # "up" \/ TooLarge(o) \/ GoesInOrder(o))) \/ UNCHANGED link
    BY <2>2 DEF GoesInOrder
  <2> QED BY <1>6, <1>7, <1>8, <2>2, <2>3
<1>9. CASE d \in Open /\ kind = "out" /\ Transmit(d)
  <2>1. connections[d].pending > 0 \/ (connections[d] = Fresh /\ got[o] = 0)
    BY <1>3, <1>9, OpenConnection
  <2>2. /\ Conversations' /\ OthersStay({d}) /\ got' = got
        /\ \/ /\ Close({d})
              /\ \/ peer[o] # "up" \/ TooLarge(o)
                 \/ /\ executed'[o] = answered'[o]
                    /\ answered'[o] > answered[o] \/ connections[d] = Fresh
           \/ d \in Open' /\ UNCHANGED link
        /\ \A f \in Open' \ {d} : interest'[f] = interest[f]
    BY <1>1, <1>9, <2>1, TransmitKeepsConversations
  <2>3. connections[d] = Fresh => got'[o] = 0
    BY <1>4, <2>1, <2>2
  <2>4. (Close({d}) /\ (peer[o] # "up" \/ TooLarge(o) \/ GoesInOrder(o))) \/ UNCHANGED link
    BY <2>2, <2>3 DEF GoesInOrder
  <2> QED BY <1>6, <1>7, <1>9, <2>2, <2>4
<1>10. CASE d \in Open /\ kind = "error" /\ Close({d}) /\ UNCHANGED <<got, history>>
  <2>1. /\ OthersStay({}) /\ OthersStay({d}) /\ NoOneBegins
        /\ \A f \in Open' : interest'[f] = interest[f]
    BY <1>1, <1>10, ClosedConnection DEF NoOneBegins, OthersStay
  <2>2. UNCHANGED <<got, executed, answered>>
    BY <1>10 DEF history
  <2>3. Conversations'
    BY <2>1, <2>2, NothingIsSaid
  <2>4. peer[o] # "up" \/ TooLarge(o) \/ GoesInOrder(o)
    <3>1. CASE Broken(o)
      BY <3>1 DEF Broken
    <3>2. CASE connections[d] = Fresh /\ got[o] = 0
      <4>1. executed[o] = answered[o]
        <5>1. /\ executed[o] = answered[o] + (IF connections[d].pending > 0 THEN 1 ELSE 0)
              /\ answered[o] \in Nat
          BY <1>10, OpenConnection DEF Fits
        <5> QED BY <1>4, <3>2, <5>1
      <4> QED BY <2>2, <3>2, <4>1 DEF GoesInOrder
    <3> QED BY <1>3, <1>10, <3>1, <3>2
  <2> QED BY <1>6, <1>7, <1>10, <2>1, <2>2, <2>3, <2>4
<1> QED BY <1>5, <1>8, <1>9, <1>10 DEF HandleClientEvent

LEMMA AcceptKeepsAnswers ==
  ASSUME TablesInv, AnswersInv, HandleServerEvent, Accept
  PROVE  AnswersInv' /\ Justified
<1> DEFINE c == Head(backlog)
           d == Min(Free)
           e == [on |-> Listen, kind |-> "in"]
           f == [on |-> Listen, kind |-> "error"]
<1> USE DEF AnswersInv
<1>1. /\ UNCHANGED <<sent, eager, peer, got, executed, answered>>
      /\ Take(e) /\ e \in batch /\ batch' \subseteq batch
  BY DEF HandleServerEvent, Take, clients, history
<1>2. f \notin batch'
  <2>1. e # f /\ e.on = f.on
    BY DEF Listen
  <2> QED BY <1>1, <2>1 DEF Events
<1>3. c \in Clients /\ link[c] = "backlog"
  <2>1. backlog \in Seq(Clients) /\ backlog # <<>>
    BY DEF TablesInv, Queue, Accept
  <2>2. c = backlog[1] /\ 1 \in 1..Len(backlog)
    BY <2>1, EmptySeq, HeadTailProperties, LenProperties
  <2> QED BY <2>1, <2>2, ElementOfSeq DEF TablesInv, Queue
<1>4. d \in Descriptors /\ d \notin Open /\ owner[d] = NoClient
  <2>1. Free \subseteq Nat /\ Free # {}
    BY ServerAssumption DEF Free, Accept
  <2>2. d \in Free
    BY <2>1, MinIsMember, Zenon
  <2>3. d \in Descriptors /\ owner[d] = NoClient
    BY <2>2 DEF Free
  <2> QED BY <2>3, ServerAssumption DEF TablesInv, Slots, ConnectionsMatchDescriptors
<1>5. \E k \in {"open", "gone", "lost"} : link' = [link EXCEPT ![c] = k]
  BY DEF Accept
<1> HIDE DEF c, d
<1>6. NoOneBegins /\ Justified
  <2>1. \A b \in Clients \ {c} : link'[b] = link[b]
    BY <1>5 DEF TablesInv, Slots
  <2>2. link'[c] \notin {"new", "backlog"} /\ link[c] # "open"
    BY <1>3, <1>5 DEF TablesInv, Slots
  <2> QED BY <1>1, <1>3, <2>1, <2>2 DEF NoOneBegins, Justified, CutOff
<1>7. CASE /\ owner' = [owner EXCEPT ![d] = c]
           /\ interest' = [interest EXCEPT ![d] = "read"]
           /\ connections' = [connections EXCEPT ![d] = Fresh]
  <2>1. /\ connections'[d] = Fresh /\ owner'[d] = c
        /\ \A x \in Descriptors \ {d} : /\ connections'[x] = connections[x]
                                       /\ owner'[x] = owner[x] /\ interest'[x] = interest[x]
    BY <1>4, <1>7 DEF TablesInv, Slots
  <2>2. \A x \in Open' \ {d} : x \in Open /\ x \in Descriptors
    BY <2>1 DEF Open
  <2>3. Untouched(c) /\ (c \notin eager => OneRequestAfter(sent[c], 0))
    BY <1>3 DEF Conversations, Counted
  <2>4. Fits(Fresh, sent[c], 0, 0, 0, c \notin eager)
    <3> DEFINE s == sent[c]
               patient == c \notin eager
    <3>1. s \in Seq(Pieces) /\ patient \in BOOLEAN /\ (patient => OneRequestAfter(s, 0))
      BY <1>3, <2>3 DEF TablesInv, Rest
    <3> HIDE DEF s, patient
    <3>2. Fits(Fresh, s, 0, 0, 0, patient)
      BY <3>1, FreshFits
    <3> QED BY <3>2 DEF s, patient
  <2>5. \A x \in Open' :
          Fits(connections'[x], sent'[owner'[x]], got'[owner'[x]], executed'[owner'[x]],
               answered'[owner'[x]], owner'[x] \notin eager')
    <3> TAKE x \in Open'
    <3>1. CASE x = d
      BY <1>1, <2>1, <2>3, <2>4, <3>1 DEF Untouched
    <3>2. CASE x # d
      BY <1>1, <2>1, <2>2, <3>2 DEF Conversations
    <3> QED BY <3>1, <3>2
  <2>6. Conversations'
    BY <1>1, <1>6, <2>5, NothingIsCounted DEF Conversations
  <2>7. ASSUME NEW x \in batch', x.on \in Open'
        PROVE  \/ /\ x.on \in Open
                  /\ connections'[x.on] = connections[x.on] /\ interest'[x.on] = interest[x.on]
                  /\ owner'[x.on] = owner[x.on] /\ got'[owner[x.on]] = got[owner[x.on]]
                  /\ Broken(owner[x.on]) => Broken(owner[x.on])'
               \/ connections'[x.on] = Fresh /\ got'[owner'[x.on]] = 0
    <3>1. CASE x.on = d
      BY <1>1, <2>1, <2>3, <3>1 DEF Untouched
    <3>2. CASE x.on # d
      BY <1>1, <2>1, <2>2, <2>7, <3>2 DEF Broken
    <3> QED BY <3>1, <3>2
  <2>8. Events'
    BY <1>1, <1>2, <2>7, EventsStay
  <2> QED BY <1>6, <2>6, <2>8
<1>8. CASE UNCHANGED <<interest, connections>> /\ (owner' = owner \/ owner' = [owner EXCEPT ![d] = c])
  <2>1. Open' = Open
    BY <1>8 DEF Open
  <2>2. \A x \in Open : owner'[x] = owner[x]
    BY <1>4, <1>8 DEF TablesInv, Slots, Open
  <2>3. OthersStay({})
    BY <1>8, <2>1, <2>2 DEF OthersStay
  <2>4. Conversations'
    BY <1>1, <1>6, <2>3, NothingIsSaid
  <2>5. \A x \in batch' : x.on \in Open' =>
          /\ x.on \in Open
          /\ connections'[x.on] = connections[x.on] /\ interest'[x.on] = interest[x.on]
          /\ owner'[x.on] = owner[x.on] /\ got'[owner[x.on]] = got[owner[x.on]]
          /\ Broken(owner[x.on]) => Broken(owner[x.on])'
    BY <1>1, <1>8, <2>1, <2>2 DEF Broken
  <2>6. Events'
    BY <1>1, <1>2, <2>5, EventsStay
  <2> QED BY <1>6, <2>4, <2>6
<1>9. \/ /\ owner' = [owner EXCEPT ![d] = c]
         /\ interest' = [interest EXCEPT ![d] = "read"]
         /\ connections' = [connections EXCEPT ![d] = Fresh]
      \/ UNCHANGED <<interest, connections>> /\ (owner' = owner \/ owner' = [owner EXCEPT ![d] = c])
  BY DEF Accept, c, d
<1> QED BY <1>7, <1>8, <1>9

LEMMA EnvironmentKeepsAnswers ==
  ASSUME TablesInv, AnswersInv, Environment
  PROVE  AnswersInv' /\ Justified
<1> USE DEF AnswersInv
<1>1. /\ UNCHANGED <<batch, connections, interest, owner, got, executed, answered>>
      /\ \A c \in Clients : Broken(c) => Broken(c)'
      /\ broken \subseteq broken'
  <2>1. ASSUME NEW c \in Clients, Connect(c) \/ SendPiece(c) \/ MakeRoom(c)
        PROVE  <1>1!:
    BY <2>1 DEF Connect, SendPiece, MakeRoom, clients, kernel, sources, history, Broken
  <2>2. ASSUME NEW c \in Clients, Leave(c)
        PROVE  <1>1!:
    <3>1. peer \in [Clients -> {"up", "half", "reset", "hangup"}]
      BY DEF TablesInv, Rest
    <3>2. ~Broken(c) /\ \E p \in Departures : peer' = [peer EXCEPT ![c] = p]
      BY <2>2 DEF Leave
    <3>3. \A b \in Clients : Broken(b) => Broken(b)'
      BY <3>1, <3>2 DEF Broken
    <3> QED BY <2>2, <3>3 DEF Leave, kernel, sources, history
  <2>3. ASSUME NEW d \in Descriptors, TimePasses(d)
        PROVE  <1>1!:
    BY <2>3 DEF TimePasses, clients, kernel, sources, history, Broken
  <2>4. ASSUME TimerFires \/ Signal \/ Breaks
        PROVE  <1>1!:
    BY <2>4 DEF TimerFires, Signal, Breaks, clients, kernel, history, Broken
  <2> QED BY <2>1, <2>2, <2>3, <2>4 DEF Environment
<1>2. Open' = Open /\ OthersStay({})
  BY <1>1 DEF Open, OthersStay
<1>3. \A c \in Clients :
        /\ link'[c] = "new" => link[c] = "new"
        /\ link'[c] \in {"new", "backlog"} => link[c] \in {"new", "backlog"}
        /\ link'[c] = "gone" => link[c] = "gone"
  <2>1. CASE \E c \in Clients : Connect(c)
    <3>1. PICK c \in Clients : link[c] = "new" /\ link' = [link EXCEPT ![c] = "backlog"]
      BY <2>1 DEF Connect
    <3> QED BY <3>1 DEF TablesInv, Slots
  <2>2. CASE ~ \E c \in Clients : Connect(c)
    <3>1. UNCHANGED link
      BY <2>2 DEF Environment, SendPiece, Leave, MakeRoom, TimePasses, TimerFires,
                  Signal, Breaks, kernel
    <3> QED BY <3>1
  <2> QED BY <2>1, <2>2
<1>4. Justified
  BY <1>3 DEF Justified, CutOff
<1>5. Conversations'
  <2>1. CASE \E c \in Clients : SendPiece(c)
    BY <2>1, SendKeepsConversations
  <2>2. CASE ~ \E c \in Clients : SendPiece(c)
    <3>1. UNCHANGED <<sent, eager>>
      BY <2>2 DEF Environment, Connect, Leave, MakeRoom, TimePasses, TimerFires,
                  Signal, Breaks, clients
    <3> QED BY <1>1, <1>2, <1>3, <3>1, NothingIsSaid DEF NoOneBegins
  <2> QED BY <2>1, <2>2
<1>6. Events'
  <2>1. \A f \in batch' : f.on \in Open' =>
          /\ f.on \in Open
          /\ connections'[f.on] = connections[f.on] /\ interest'[f.on] = interest[f.on]
          /\ owner'[f.on] = owner[f.on] /\ got'[owner[f.on]] = got[owner[f.on]]
          /\ Broken(owner[f.on]) => Broken(owner[f.on])'
    <3>1. \A d \in Open : owner[d] \in Clients
      BY OpenConnection
    <3> QED BY <1>1, <1>2, <3>1 DEF Broken
  <2>2. [on |-> Listen, kind |-> "error"] \in batch' => Listen \in broken'
    BY <1>1 DEF Events
  <2> QED BY <1>1, <2>1, <2>2, EventsStay
<1> QED BY <1>4, <1>5, <1>6

(* An event of the server's own descriptors that says nothing to a client. *)
LEMMA OwnEventKeepsAnswers ==
  ASSUME TablesInv, AnswersInv, NEW e, Take(e), e.on \in Own,
         UNCHANGED <<sent, peer, eager, got, executed, answered>>,
         OthersStay({}), \A d \in Open' : interest'[d] = interest[d],
         \A c \in Clients : link'[c] = link[c] \/ link'[c] = "gone",
         \A c \in Clients : CutOff(c) => Excused(c),
         [on |-> Listen, kind |-> "error"] \in batch' => Listen \in broken'
  PROVE  AnswersInv' /\ Justified
<1> USE DEF AnswersInv
<1>1. Conversations'
  BY NothingIsSaid DEF NoOneBegins
<1>2. OthersStay({e.on})
  BY DEF OthersStay
<1>3. Events'
  BY <1>2, EventTaken
<1> QED BY <1>1, <1>3 DEF Justified

LEMMA ServeKeepsAnswers ==
  ASSUME TablesInv, AnswersInv, Serve
  PROVE  AnswersInv' /\ Justified
<1> DEFINE E(d, k) == [on |-> d, kind |-> k]
<1>0. TablesInv'
  BY ServeKeepsTables
<1>1. \A d \in Own, k \in {"in", "error"} : E(d, k).on = d /\ E(d, k).kind = k
  OBVIOUS
<1>2. Timer \in Own /\ Signals \in Own /\ Listen \in Own /\ Listen # Timer /\ Listen # Signals
  BY DEF Own, Timer, Signals, Listen
<1>3. CASE Wait
  <2>1. /\ UNCHANGED <<sent, peer, eager, link, got, owner, interest, broken, connections,
                       executed, answered>>
        /\ batch' = Ready
    BY <1>3 DEF Wait, clients, kernel, sources, history
  <2>2. Open' = Open /\ OthersStay({})
    BY <2>1 DEF Open, OthersStay
  <2>3. Conversations'
    BY <2>1, <2>2, NothingIsSaid DEF AnswersInv, NoOneBegins
  <2>4. Events'
    BY <2>1, <2>2, ReadyEvents DEF Events, Broken
  <2> QED BY <2>1, <2>3, <2>4 DEF AnswersInv, Justified, CutOff
<1>4. CASE HandleTimerEvent
  <2>1. /\ Take(E(Timer, "in")) /\ Close(expired) /\ expired \subseteq Open
        /\ UNCHANGED <<sent, peer, eager, got, executed, answered, broken>>
    BY <1>4 DEF HandleTimerEvent, TablesInv, Slots, ConnectionsMatchDescriptors, clients, history
  <2>2. \A c \in Clients : CutOff(c) => Excused(c)
    BY <2>1 DEF CutOff, Excused, Close
  <2>3. E(Listen, "error") \in batch' => Listen \in broken'
    BY <2>1 DEF Take, AnswersInv, Events
  <2> HIDE DEF E
  <2> QED BY <1>1, <1>2, <2>1, <2>2, <2>3, ClosedConnection, OwnEventKeepsAnswers DEF E
<1>5. CASE HandleSignalEvent \/ HandleTimerError \/ HandleSignalError
  <2>1. /\ \E e \in {E(Signals, "in"), E(Timer, "error"), E(Signals, "error")} : Take(e)
        /\ UNCHANGED <<sent, peer, eager, link, got, owner, interest, connections,
                       executed, answered>>
        /\ Listen \in broken => Listen \in broken'
    BY <1>2, <1>5 DEF HandleSignalEvent, HandleTimerError, HandleSignalError,
                      clients, kernel, history
  <2>2. PICK e : Take(e) /\ e.on \in Own
    BY <1>2, <2>1
  <2>3. E(Listen, "error") \in batch' => Listen \in broken'
    BY <2>1, <2>2 DEF Take, AnswersInv, Events
  <2>4. OthersStay({}) /\ Open' = Open
    BY <2>1 DEF OthersStay, Open
  <2>5. \A c \in Clients : ~CutOff(c)
    BY <2>1 DEF CutOff
  <2> QED BY <2>1, <2>2, <2>3, <2>4, <2>5, OwnEventKeepsAnswers
<1>6. CASE HandleServerEvent
  <2>1. CASE Accept
    BY <1>6, <2>1, AcceptKeepsAnswers
  <2>2. CASE Refuse
    <3>1. /\ UNCHANGED <<sent, peer, eager, link, got, owner, interest, connections,
                         executed, answered>>
          /\ Take(E(Listen, "in"))
      BY <1>6, <2>2 DEF HandleServerEvent, Refuse, clients, history
    <3>2. E(Listen, "error") \notin batch'
      <4>1. E(Listen, "error") # E(Listen, "in")
        BY <1>1, <1>2
      <4> QED BY <3>1, <4>1 DEF Take, AnswersInv, Events
    <3>3. OthersStay({}) /\ Open' = Open
      BY <3>1 DEF OthersStay, Open
    <3>4. \A c \in Clients : ~CutOff(c)
      BY <3>1 DEF CutOff
    <3> QED BY <1>2, <3>1, <3>2, <3>3, <3>4, OwnEventKeepsAnswers
  <2> QED BY <1>6, <2>1, <2>2 DEF HandleServerEvent
<1>7. CASE HandleServerError
  <2>1. /\ UNCHANGED <<sent, peer, eager, got, executed, answered>>
        /\ Take(E(Listen, "error")) /\ Listen \in broken
    BY <1>7 DEF HandleServerError, Take, AnswersInv, Events, clients, history
  <2>2. E(Listen, "error") \notin batch'
    BY <2>1 DEF Take
  <2>3. OthersStay({}) /\ \A d \in Open' : interest'[d] = interest[d]
    <3>1. CASE connections' = [d \in Descriptors |-> NoConnection]
      <4>1. Open' = {}
        BY <3>1 DEF Open
      <4> QED BY <4>1 DEF OthersStay
    <3>2. CASE UNCHANGED <<connections, interest, owner, expired>>
      BY <3>2 DEF OthersStay, Open
    <3> QED BY <1>7, <3>1, <3>2 DEF HandleServerError
  <2>4. \A c \in Clients : link'[c] = link[c] \/ link'[c] = "gone"
    BY <1>7 DEF HandleServerError
  <2>5. \A c \in Clients : Excused(c)
    BY <2>1 DEF Excused
  <2> QED BY <1>2, <2>1, <2>2, <2>3, <2>4, <2>5, OwnEventKeepsAnswers
<1>8. CASE \E d \in Descriptors, kind \in {"in", "out", "error"} : HandleClientEvent(d, kind)
  BY <1>0, <1>8, ClientEventKeepsAnswers
<1>9. CASE Stop
  <2>1. /\ Open' = {} /\ batch' = {} /\ server = "stopping"
        /\ UNCHANGED <<sent, eager, got, executed, answered>>
        /\ \A c \in Clients : link'[c] \in {"new", "backlog"} => link[c] = "new"
    BY <1>9 DEF Stop, Open, clients, history
  <2>2. OthersStay({}) /\ NoOneBegins
    BY <2>1 DEF OthersStay, NoOneBegins
  <2>3. Conversations'
    BY <2>1, <2>2, NothingIsSaid DEF AnswersInv
  <2>4. Events' /\ Justified
    BY <2>1 DEF Events, Justified, Excused
  <2> QED BY <2>3, <2>4 DEF AnswersInv
<1> QED BY <1>3, <1>4, <1>5, <1>6, <1>7, <1>8, <1>9 DEF Serve

(***************************************************************************)
(* The theorems.                                                           *)
(***************************************************************************)
LEMMA InitAnswers == Init => AnswersInv
<1> SUFFICES ASSUME Init PROVE AnswersInv
  OBVIOUS
<1>1. Open = {} /\ batch = {}
  BY DEF Init, Open
<1>2. ASSUME NEW c \in Clients PROVE Counted(c)
  <2>1. /\ sent[c] = <<>> /\ got[c] = 0 /\ executed[c] = 0 /\ answered[c] = 0
    BY DEF Init
  <2>2. <<>> \in Seq(Pieces) /\ Len(<<>>) = 0
    BY EmptySeq
  <2>3. Requests(Received(c)) = 0
    BY <2>1, <2>2, NoRequests DEF Received
  <2>4. OneRequestAfter(<<>>, 0)
    BY <2>2 DEF OneRequestAfter
  <2>5. got[c] <= Len(sent[c]) /\ OneRequestAfter(sent[c], 0)
    BY <2>1, <2>2, <2>4
  <2> QED BY <2>1, <2>3, <2>5 DEF Counted, Untouched
<1> QED BY <1>1, <1>2 DEF AnswersInv, Conversations, Events

LEMMA StepKeepsAnswers ==
  ASSUME TablesInv, AnswersInv, [Next]_vars
  PROVE  AnswersInv' /\ Justified
<1>1. CASE Next
  BY <1>1, EnvironmentKeepsAnswers, ServeKeepsAnswers DEF Next
<1>2. CASE UNCHANGED vars
  <2>1. UNCHANGED <<sent, peer, eager, link, got, owner, interest, broken, batch, connections,
                    executed, answered>>
    BY <1>2 DEF vars, clients, kernel, sources, history
  <2>2. Open' = Open /\ OthersStay({})
    BY <2>1 DEF Open, OthersStay
  <2>3. Conversations'
    BY <2>1, <2>2, NothingIsSaid DEF AnswersInv, NoOneBegins
  <2>4. Events'
    BY <2>1, <2>2 DEF AnswersInv, Events, Broken
  <2> QED BY <2>1, <2>3, <2>4 DEF AnswersInv, Justified, CutOff
<1> QED BY <1>1, <1>2

(* What the buffers, the counts and the batch say of each other stays so,  *)
(* in whatever order pieces arrive and events are handled.                 *)
THEOREM AnswersInvariant == Spec => [](TablesInv /\ AnswersInv)
<1>1. Init => AnswersInv
  BY InitAnswers
<1>2. TablesInv /\ AnswersInv /\ [Next]_vars => AnswersInv'
  BY StepKeepsAnswers
<1>3. Spec => []TablesInv
  BY TablesInvariant
<1> QED BY <1>1, <1>2, <1>3, PTL DEF Spec

(* A handler runs at most once for a request that came in completely, its  *)
(* response is counted at most once and never before it ran, and while a   *)
(* response is on its way it is the only one its client waits for.         *)
THEOREM AnswersAreRight == Spec => []AnswersFollowRequests
<1>1. TablesInv /\ AnswersInv => AnswersFollowRequests
  <2> SUFFICES ASSUME TablesInv, AnswersInv PROVE AnswersFollowRequests
    OBVIOUS
  <2>1. \A c \in Clients : /\ executed[c] <= Requests(Received(c))
                           /\ answered[c] <= executed[c] /\ executed[c] <= answered[c] + 1
    BY DEF AnswersInv, Conversations, Counted
  <2>2. ASSUME NEW d \in Open
        PROVE  (connections[d].pending > 0) <=> (executed[owner[d]] # answered[owner[d]])
    <3>1. /\ answered[owner[d]] \in Nat
          /\ executed[owner[d]]
               = answered[owner[d]] + (IF connections[d].pending > 0 THEN 1 ELSE 0)
      BY OpenConnection DEF AnswersInv, Fits
    <3> QED BY <3>1
  <2> QED BY <2>1, <2>2 DEF AnswersFollowRequests
<1> QED BY <1>1, AnswersInvariant, PTL

(* Each request of a patient client that came in was executed, however     *)
(* often Restart dropped what the buffer still held.                       *)
THEOREM NothingIsLost == Spec => []PatientClientsLoseNothing
<1>1. TablesInv /\ AnswersInv => PatientClientsLoseNothing
  <2> SUFFICES ASSUME TablesInv, AnswersInv, NEW d \in Open, owner[d] \notin eager
               PROVE  executed[owner[d]] = Requests(Received(owner[d]))
    BY DEF PatientClientsLoseNothing
  <2> DEFINE x == connections[d]
             s == sent[owner[d]]
             g == got[owner[d]]
             ran == executed[owner[d]]
             replied == answered[owner[d]]
  <2>1. /\ x \in Connection /\ s \in Seq(Pieces) /\ g \in 0..Len(s)
        /\ ran \in Nat /\ replied \in Nat
        /\ (x.pending > 0) <=> (Stage(x.buffer) = "end")
        /\ Fits(x, s, g, ran, replied, TRUE)
    BY OpenConnection DEF AnswersInv
  <2>2. ran = Requests(SubSeq(s, 1, g))
    <3> HIDE DEF x, s, g, ran, replied
    <3> QED BY <2>1, RanForWhatCameIn
  <2> QED BY <2>2 DEF Received
<1> QED BY <1>1, AnswersInvariant, PTL

(* A client whose request was executed is cut off without its response     *)
(* only if it left, was silent for ten seconds, or the server stops or     *)
(* starts over.                                                            *)
THEOREM PromiseIsKept == Spec => KeepsItsPromise
<1>1. TablesInv /\ AnswersInv /\ [Next]_vars =>
        [\A c \in Clients : CutOff(c) /\ executed'[c] # answered'[c] =>
           Excused(c) \/ TooLarge(c)]_vars
  BY StepKeepsAnswers DEF Justified, GoesInOrder
<1> QED BY <1>1, AnswersInvariant, PTL DEF Spec, KeepsItsPromise

(* Beyond that a connection is closed only with its last response, for     *)
(* what its client sent, or before anything was received from it: no stale *)
(* event drops a client whose request has begun to come in.                *)
THEOREM NoneIsDroppedByChance == Spec => ClosedForAReason
<1>1. TablesInv /\ AnswersInv /\ [Next]_vars =>
        [\A c \in Clients :
           CutOff(c) =>
             \/ Excused(c) \/ TooLarge(c) \/ answered'[c] > answered[c]
             \/ "garbage" \in ToSet(sent[c]) \/ c \in eager
             \/ got'[c] = 0]_vars
  BY StepKeepsAnswers DEF Justified, GoesInOrder
<1> QED BY <1>1, AnswersInvariant, PTL DEF Spec, ClosedForAReason
=============================================================================
