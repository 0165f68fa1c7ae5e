------------------------------ MODULE Exchange ------------------------------
(***************************************************************************)
(* One request and its answer from end to end: the client library          *)
(* (source/client.cc, http::SendRequest), the network, the server's        *)
(* connection, the API (source/api.cc), the document database              *)
(* (source/service.cc) and what it leaves on the disk.                     *)
(*                                                                         *)
(* The clients do what the threads of source/test.cc do: each keeps a      *)
(* mirror of the documents that it stored and ends with the first call     *)
(* that fails.  Strangers send letters: HTTP that no client program sends. *)
(*                                                                         *)
(* HttpServer models the event loop, Storage the files; here a connection  *)
(* serves one request and the disk is a sequence of records.               *)
(***************************************************************************)
EXTENDS HttpMessage, Json

CONSTANTS Threads, Strangers,
          Draws,        \* what Uuid may return, one after the other
          InsertLists,  \* what a thread may insert: arrays
          Documents,    \* what it may update a document to
          Letters,      \* what a stranger may send
          Users,        \* users_: the hash of a user's password
          Hash, Base64, \* Sha256Hash, EncodeBase64 of what occurs
          Account,      \* the credentials the threads send
          MaxPayload,   \* kTcpMaximumPayloadSize
          MaxEvents     \* bound: calls, letters, restarts, cuts twice

ASSUME ExchangeAssumption ==
  /\ Threads \cap Strangers = {}
  /\ \A draws \in Draws : IsInjective(draws)
  /\ \A list \in InsertLists : Kind(list) = "array"
  /\ \A document \in Documents : Kind(document) = "object"
  /\ Account \in DOMAIN Base64
  /\ {MaxPayload, MaxEvents} \subseteq Nat

Peers == Threads \cup Strangers
Keys == UNION {Range(draws) : draws \in Draws}

VARIABLES call,        \* what a thread waits for, Idle or Failed
          mirror,      \* by thread: the documents it believes are stored
          wire, reply, \* the text underway to the server, to a thread
          gone,        \* the peers that closed before the server did
          connection,  \* the server's, by peer
          response,    \* what its writer holds
          database, disk, server,
          executed,    \* history: calls executed, by thread
          calls,       \* history: calls and letters begun, by peer
          cuts, restarts  \* counted for the bound

network == <<wire, reply, gone>>
store == <<database, disk, server>>
bounds == <<calls, cuts, restarts>>
vars == <<call, mirror, network, connection, response, store, executed, bounds>>

Idle == [op |-> "idle"]
Failed == [op |-> "failed"]
Closed == [stage |-> "closed"]

Waits(c) == call[c] \notin {Idle, Failed}
Open(p) == connection[p] # Closed

Init ==
  /\ call = [c \in Threads |-> Idle]
  /\ mirror = [c \in Threads |-> <<>>]
  /\ wire = [p \in Peers |-> <<>>] /\ reply = [c \in Threads |-> <<>>] /\ gone = {}
  /\ connection = [p \in Peers |-> Closed] /\ response = [p \in Peers |-> <<>>]
  /\ database = <<>> /\ disk = <<>> /\ server = "up"
  /\ executed = [c \in Threads |-> 0]
  /\ calls = [p \in Peers |-> 0] /\ cuts = 0 /\ restarts = 0

(***************************************************************************)
(* DocumentDatabase: what a request does, as the records that it appends   *)
(* to the journal, and what it returns.                                    *)
(***************************************************************************)
Record(op, key, document) == [op |-> op, key |-> key, document |-> document]

(* What the records leave of a database: the last of a key decides.        *)
After(db, records) ==
  LET named == {records[i].key : i \in DOMAIN records}
      last(k) == records[Max({i \in DOMAIN records : records[i].key = k})]
      left == {k \in DOMAIN db \cup named : k \in named => last(k).op # "erase"}
  IN  [k \in left |-> IF k \in named THEN last(k).document ELSE db[k]]

Effect(result, records) == [result |-> result, records |-> records]

(* Mutant: an identifier is not looked up before it is used. *)
InsertWithoutLookup(items) ==
  LET objects == {i \in DOMAIN items : Kind(items[i]) = "object"}
      rank(i) == Cardinality({j \in objects : j <= i})
      order == SetToSortSeq(objects, <)
  IN  {Effect(Array([i \in DOMAIN items |->
                       IF i \in objects THEN String(keys[rank(i)]) ELSE Null]),
              [n \in DOMAIN order |-> Record("insert", keys[n], items[order[n]])]) :
         keys \in Draws}

(* Each object of the array gets an identifier that is not in use, anything *)
(* else a null in the result.                                              *)
InsertEffects(items) ==
  LET objects == {i \in DOMAIN items : Kind(items[i]) = "object"}
      rank(i) == Cardinality({j \in objects : j <= i})
      order == SetToSortSeq(objects, <)
      unused(draws) == SelectSeq(draws, LAMBDA k : k \notin DOMAIN database)
  IN  {Effect(Array([i \in DOMAIN items |->
                       IF i \in objects THEN String(keys[rank(i)]) ELSE Null]),
              [n \in DOMAIN order |-> Record("insert", keys[n], items[order[n]])]) :
         keys \in {unused(draws) : draws \in Draws}}

(* Mutant: what is returned is the new document. *)
UpdateReturnsNew(values) ==
  LET known == {k \in DOMAIN values : Kind(values[k]) = "object" /\ k \in DOMAIN database}
      order == SetToSeq(known)
  IN  Effect(Object([k \in DOMAIN values |-> IF k \in known THEN values[k] ELSE Null]),
             [n \in DOMAIN order |-> Record("update", order[n], values[order[n]])])

(* The result of a key is the document that was there before.              *)
UpdateEffect(values) ==
  LET known == {k \in DOMAIN values : Kind(values[k]) = "object" /\ k \in DOMAIN database}
      order == SetToSeq(known)
  IN  Effect(Object([k \in DOMAIN values |-> IF k \in known THEN database[k] ELSE Null]),
             [n \in DOMAIN order |-> Record("update", order[n], values[order[n]])])

(* A key that is named twice is gone the second time.                      *)
EraseEffect(items) ==
  LET present(i) == /\ Kind(items[i]) = "string" /\ Data(items[i]) \in DOMAIN database
                    /\ \A j \in 1..(i - 1) : items[j] # items[i]
      order == SetToSortSeq({i \in DOMAIN items : present(i)}, <)
      key(n) == Data(items[order[n]])
  IN  Effect(Array([i \in DOMAIN items |-> IF present(i) THEN items[i] ELSE Null]),
             [n \in DOMAIN order |-> Record("erase", key(n), database[key(n)])])

FindEffect(items) ==
  LET present(i) == Kind(items[i]) = "string" /\ Data(items[i]) \in DOMAIN database
  IN  Effect(Array([i \in DOMAIN items |->
                      IF present(i) THEN database[Data(items[i])] ELSE Null]), <<>>)

(***************************************************************************)
(* The API.                                                                *)
(***************************************************************************)
Url(op) == <<"/", op>>
Operations == {"insert", "update", "erase", "find"}

(* Credentials in their order: scheme, base 64 of user:password.           *)
AccessPermitted(packet) ==
  LET parts == StringExplode(GetHeader(packet, <<"authorization">>), Space)
      decoded == CHOOSE text \in DOMAIN Base64 : Base64[text] = parts[2][1]
      account == StringExplode(decoded, ":")
  IN  /\ Len(parts) = 2 /\ parts[1] = <<"Basic">>
      /\ Len(account) = 2
      /\ account[1] \in DOMAIN Users
      /\ Hash[account[2]] = Users[account[1]]

JsonContent(packet) ==
  GetHeader(packet, <<"content-type">>) = <<"application/json">>

(* HttpResponse::Build. *)
StatusLine(status) == <<Protocol, <<Numeral(status)>>, Reasons[status]>>
Build(status) == WithBody([Packet EXCEPT !.line = StatusLine(status)], <<>>)
BuildJson(body) ==
  WithBody(AddHeader([Packet EXCEPT !.line = StatusLine(200)],
                     <<"content-type">>, <<"application/json">>), body)

(* Mutant: the credentials are not looked at. *)
RefusedWithoutLogin(packet) ==
  IF packet.line[1] # <<"POST">> \/ packet.line[2] \notin {Url(op) : op \in Operations}
  THEN {404}
  ELSE IF ~JsonContent(packet) THEN {400}
  ELSE {}

(* The status a request is turned away with before its body is looked at.  *)
Refused(packet) ==
  IF packet.line[1] # <<"POST">> \/ packet.line[2] \notin {Url(op) : op \in Operations}
  THEN {404}
  ELSE IF ~AccessPermitted(packet) THEN {401}
  ELSE IF ~JsonContent(packet) THEN {400}
  ELSE {}

(* ExecuteHandler: the answers it may give, with the records it appends.   *)
Handlings(packet) ==
  LET op == packet.line[2][2]
      parsed == IF op = "update" THEN ParseObject(packet.body) ELSE ParseArray(packet.body)
      value == Data(parsed.value)
      refusal(status) == Effect(Build(status), <<>>)
      answer(e) == Effect(BuildJson(TextOf(e.result)), e.records)
  IN  IF Refused(packet) # {} THEN {refusal(status) : status \in Refused(packet)}
      ELSE IF parsed.next = 0 THEN {refusal(400)}
      ELSE CASE op = "insert" -> {answer(e) : e \in InsertEffects(value)}
             [] op = "update" -> {answer(UpdateEffect(value))}
             [] op = "erase" -> {answer(EraseEffect(value))}
             [] op = "find" -> {answer(FindEffect(value))}

(***************************************************************************)
(* The clients.                                                            *)
(***************************************************************************)
(* http::SendRequest.                                                      *)
RequestText(op, value) ==
  LET login == AddHeader([Packet EXCEPT !.line = << <<"POST">>, Url(op), Protocol >>],
                         <<"authorization">>, <<"Basic", Space, Base64[Account]>>)
      json == AddHeader(login, <<"content-type">>, <<"application/json">>)
  IN  PacketText(WithBody(json, TextOf(value)))

Events == SumFunctionOnSet(calls, Peers) + restarts + 2 * cuts

(* How much of text passes at once: all of it, or a piece.                 *)
Pieces(text, begun) ==
  {Len(text)} \cup IF Events + begun + 2 <= MaxEvents THEN 1..(Len(text) - 1) ELSE {}
Cut(text, n) == cuts' = IF n < Len(text) THEN cuts + 1 ELSE cuts
Rest(text, n) == SubSeq(text, n + 1, Len(text))

Connect(p, text) ==
  /\ wire' = [wire EXCEPT ![p] = text]
  /\ connection' = [connection EXCEPT ![p] = Connection]
  /\ calls' = [calls EXCEPT ![p] = @ + 1]

(* An exception ends the thread. *)
Fail(c) == call' = [call EXCEPT ![c] = Failed] /\ UNCHANGED mirror

(* The writer may come to no more than a part of the request, and sends    *)
(* nothing of one that is too long.  A server that is down is not reached. *)
Call(c, op, value) ==
  LET text == RequestText(op, value)
  IN  /\ call[c] = Idle /\ Events < MaxEvents
      /\ \/ /\ server = "up"
            /\ \E n \in IF Len(text) > MaxPayload THEN {0} ELSE Pieces(text, 1) :
                 /\ Connect(c, SubSeq(text, 1, n))
                 /\ Cut(text, n)
                 /\ call' = [call EXCEPT ![c] = [op |-> op, value |-> value,
                                                sent |-> n = Len(text)]]
                 /\ UNCHANGED mirror
         \/ /\ server = "down"
            /\ Fail(c)
            /\ calls' = [calls EXCEPT ![c] = @ + 1]
            /\ UNCHANGED <<wire, connection, cuts>>
      /\ UNCHANGED <<reply, gone, response, store, executed, restarts>>

(* What test.cc asks for, of the keys in its mirror.                       *)
CallSome(c) ==
  \/ \E list \in InsertLists : Call(c, "insert", list)
  \/ \E k \in DOMAIN mirror[c] :
       \/ \E d \in Documents : Call(c, "update", Object(k :> d))
       \/ \E op \in {"erase", "find"} : Call(c, op, Array(<<String(k), String(k)>>))

Speak(s) ==
  /\ calls[s] = 0 /\ Events < MaxEvents /\ server = "up"
  /\ \E letter \in Letters : Connect(s, letter)
  /\ UNCHANGED <<call, mirror, reply, gone, response, store, executed, cuts, restarts>>

(* The one ParseResponse at the end of SendRequest, and what Insert,       *)
(* Update, Erase and Find of Client make of it: a result, or an exception. *)
Answer(c) ==
  Resume("response", Connection, SubSeq(reply[c], 1, Min({Len(reply[c]), MaxPayload})))

Succeeds(c) ==
  LET a == Answer(c)
  IN  a.stage = "end" /\ a.packet.line[2] = <<Numeral(200)>> /\ a.packet.body # <<>>

Result(c) ==
  LET body == Answer(c).packet.body
  IN  Data(IF call[c].op = "update" THEN ParseObject(body).value
           ELSE ParseArray(body).value)

(* The mirror after a call that returned result. *)
Mirrored(c, result) ==
  LET value == Data(call[c].value)
      stored == {i \in DOMAIN value \cap DOMAIN result : Kind(result[i]) = "string"}
      key(i) == Data(result[i])
  IN  CASE call[c].op = "insert" ->
             mirror[c] @@ [k \in {key(i) : i \in stored} |->
                             value[CHOOSE i \in stored : key(i) = k]]
        [] call[c].op = "update" -> value @@ mirror[c]
        [] call[c].op = "erase" ->
             [k \in DOMAIN mirror[c] \ {key(i) : i \in stored} |-> mirror[c][k]]
        [] call[c].op = "find" -> mirror[c]

(* Mutant: the next answer is read behind this one. *)
ConcludeKeepsReply(c) ==
  /\ IF Succeeds(c)
     THEN /\ call' = [call EXCEPT ![c] = Idle]
          /\ mirror' = With(Result(c), LAMBDA r : [mirror EXCEPT ![c] = Mirrored(c, r)])
     ELSE Fail(c)
  /\ UNCHANGED reply

Conclude(c) ==
  /\ IF Succeeds(c)
     THEN /\ call' = [call EXCEPT ![c] = Idle]
          /\ mirror' = With(Result(c), LAMBDA r : [mirror EXCEPT ![c] = Mirrored(c, r)])
     ELSE Fail(c)
  /\ reply' = [reply EXCEPT ![c] = <<>>]

(* SyncRead ends when the server has closed the connection.                *)
Answered(c) == Waits(c) /\ (~Open(c) \/ Len(reply[c]) >= MaxPayload)

Return(c) ==
  /\ Answered(c)
  /\ UNCHANGED <<wire, gone, connection, response, store, executed, bounds>>
  /\ Conclude(c)

(* Nothing came for kTcpTimeout: the client takes what it has and leaves.  *)
GiveUp(c) ==
  /\ Waits(c) /\ Open(c)
  /\ Conclude(c)
  /\ gone' = gone \cup {c}
  /\ UNCHANGED <<wire, connection, response, store, executed, bounds>>

(***************************************************************************)
(* The server.                                                             *)
(***************************************************************************)
(* Mutant: what was not sent is kept. *)
CloseKeepsResponse(P) ==
  /\ connection' = [p \in Peers |-> IF p \in P THEN Closed ELSE connection[p]]
  /\ wire' = [p \in Peers |-> IF p \in P THEN <<>> ELSE wire[p]]
  /\ gone' = gone \ P
  /\ UNCHANGED response

Close(P) ==
  /\ connection' = [p \in Peers |-> IF p \in P THEN Closed ELSE connection[p]]
  /\ response' = [p \in Peers |-> IF p \in P THEN <<>> ELSE response[p]]
  /\ wire' = [p \in Peers |-> IF p \in P THEN <<>> ELSE wire[p]]
  /\ gone' = gone \ P

(* The journal takes the records one by one; the process does not survive  *)
(* the first that Serialize cannot write.                                  *)
Written(records) ==
  [i \in DOMAIN records |-> [op |-> records[i].op, key |-> records[i].key,
                             cells |-> Serialized(records[i].document)]]

Execute(p, records) ==
  LET deadly == {i \in DOMAIN records : Kills(records[i].document)}
      kept == IF deadly = {} THEN records ELSE SubSeq(records, 1, Min(deadly) - 1)
  IN  /\ disk' = disk \o Written(kept)
      /\ server' = IF deadly = {} THEN "up" ELSE "down"
      /\ database' = IF deadly = {} THEN After(database, kept) ELSE <<>>
      /\ executed' = IF p \in Threads THEN [executed EXCEPT ![p] = @ + 1] ELSE executed

(* A readable connection: TcpSocket::Receive takes what is there, up to    *)
(* kTcpMaximumPayloadSize; ParseRequest, which may end the process; once   *)
(* the request is complete, its handler.  A reader that met the end or the *)
(* limit closes even then.                                                 *)
Readable(p) ==
  /\ server = "up" /\ Open(p) /\ response[p] = <<>>
  /\ wire[p] # <<>> \/ p \in gone

Receive(p) ==
  /\ Readable(p)
  /\ UNCHANGED <<call, mirror, reply, calls, restarts>>
  /\ \E n \in Pieces(wire[p], 0) :
       LET room == MaxPayload - Len(connection[p].reader.buffer)
           hasErrors == n >= room \/ (p \in gone /\ n = Len(wire[p]))
       IN \E c \in {Resume("request", connection[p], SubSeq(wire[p], 1, Min({n, room})))} :
           /\ Cut(wire[p], n)
           /\ IF c.stage = "thrown"
              THEN /\ server' = "down" /\ database' = <<>>
                   /\ Close(Peers)
                   /\ UNCHANGED <<disk, executed>>
              ELSE IF c.stage = "end"
              THEN \E e \in Handlings(c.packet) :
                     /\ Execute(p, e.records)
                     /\ IF server' = "down" THEN Close(Peers)
                        ELSE IF hasErrors THEN Close({p})
                        ELSE /\ connection' = [connection EXCEPT ![p] = c]
                             /\ wire' = [wire EXCEPT ![p] = Rest(wire[p], n)]
                             /\ response' = [response EXCEPT ![p] = PacketText(e.result)]
                             /\ UNCHANGED gone
              ELSE /\ IF c.stage = "failed" \/ hasErrors THEN Close({p})
                      ELSE /\ connection' = [connection EXCEPT ![p] = c]
                           /\ wire' = [wire EXCEPT ![p] = Rest(wire[p], n)]
                           /\ UNCHANGED <<response, gone>>
                   /\ UNCHANGED <<store, executed>>

(* A writable connection: TcpSocket::Send.  Nothing is sent of a response  *)
(* that is too long; when nothing is left the connection is closed.        *)
Writable(p) == server = "up" /\ Open(p) /\ response[p] # <<>>

Send(p) ==
  /\ Writable(p)
  /\ UNCHANGED <<call, mirror, store, executed, calls, restarts>>
  /\ \/ /\ Len(response[p]) > MaxPayload \/ p \in gone
        /\ Close({p})
        /\ UNCHANGED <<reply, cuts>>
     \/ /\ Len(response[p]) <= MaxPayload /\ p \notin gone
        /\ \E n \in Pieces(response[p], 0) :
             /\ Cut(response[p], n)
             /\ reply' = IF p \in Threads
                         THEN [reply EXCEPT ![p] = @ \o SubSeq(response[p], 1, n)] ELSE reply
             /\ IF n = Len(response[p]) THEN Close({p})
                ELSE /\ response' = [response EXCEPT ![p] = Rest(response[p], n)]
                     /\ UNCHANGED <<connection, wire, gone>>

(* DeleteExpiredConnections. *)
Expire(p) ==
  /\ server = "up" /\ Open(p)
  /\ Close({p})
  /\ UNCHANGED <<call, mirror, reply, store, executed, bounds>>

(* Replay: what the records on the disk amount to.                         *)
Loaded ==
  After(<<>>, [i \in DOMAIN disk |->
                 Record(disk[i].op, disk[i].key, Deserialized(disk[i].cells))])

(* The process ends, if it has not, and starts again: Initialize reads the *)
(* disk and leaves a snapshot of it.                                       *)
Restart ==
  /\ Events < MaxEvents
  /\ restarts' = restarts + 1
  /\ database' = Loaded /\ server' = "up"
  /\ LET keys == KeysOf(Loaded)
     IN  disk' = Written([i \in DOMAIN keys |-> Record("insert", keys[i], Loaded[keys[i]])])
  /\ Close(Peers)
  /\ UNCHANGED <<call, mirror, reply, executed, calls, cuts>>

Next ==
  \/ \E c \in Threads : CallSome(c) \/ Return(c) \/ GiveUp(c)
  \/ \E s \in Strangers : Speak(s)
  \/ \E p \in Peers : Receive(p) \/ Send(p) \/ Expire(p)
  \/ Restart

Spec == Init /\ [][Next]_vars

(* epoll is level-triggered: no connection stays readable or writable for  *)
(* ever, and a call goes on when its connection is closed.  Each of these  *)
(* steps consumes what makes it possible, so this is weak fairness of      *)
(* Receive, Send and Return, in terms that TLC evaluates faster than       *)
(* ENABLED.  No timeout is relied on.                                      *)
FairSpec ==
  /\ Spec
  /\ \A p \in Peers : []<>~Readable(p) /\ []<>~Writable(p)
  /\ \A c \in Threads : []<>~Answered(c)

(***************************************************************************)
(* Properties.                                                             *)
(***************************************************************************)
TypeOK ==
  /\ \A c \in Threads : DOMAIN mirror[c] \subseteq Keys /\ Waits(c) => call[c].op \in Operations
  /\ gone \subseteq Threads /\ server \in {"up", "down"}
  /\ \A p \in Peers : Open(p) => connection[p].stage \in {"line", "headers", "body", "end"}
  /\ DOMAIN database \subseteq Keys /\ \A k \in DOMAIN database : Kind(database[k]) = "object"
  /\ \A p \in Peers : response[p] # <<>> => Open(p) /\ connection[p].stage = "end"

(* However a request is cut on its way, in a line feed or in its body: the *)
(* parser has come to the same place, with the same headers and the same   *)
(* body, as if all that has arrived had arrived at once.                   *)
CutsDoNotMatter ==
  \A p \in Peers :
    Open(p) => connection[p] = Resume("request", Connection, connection[p].reader.buffer)

(* What is left of a document on the way: Parse keeps the int of an        *)
(* integer, and String prints six digits of a floating point number.       *)
RECURSIVE Narrowed(_)
Narrowed(value) ==
  CASE Kind(value) = "integer" -> Integer(AsInt(Data(value)))
    [] Kind(value) \in {"object", "array"} ->
         <<Kind(value), [i \in DOMAIN Data(value) |-> Narrowed(Data(value)[i])]>>
    [] OTHER -> value

(* test.cc compares documents by what they print.                          *)
Same(stored, sent) == TextOf(stored) = TextOf(Narrowed(sent))

(* The server holds what its clients believe: between its calls a thread's *)
(* mirror is what the database has under its keys, whatever was lost,      *)
(* refused, cut or restarted meanwhile, and though other calls failed.     *)
MirrorsAgree ==
  server = "up" =>
    \A c \in Threads : call[c] = Idle =>
      \A k \in DOMAIN mirror[c] :
        k \in DOMAIN database /\ Same(database[k], mirror[c][k])

(* A call that returned was executed once, one that failed at most once:   *)
(* an answer is never one to an earlier call, and nothing is repeated.     *)
ExecutedOnce ==
  \A c \in Threads :
    /\ executed[c] \in {calls[c] - 1, calls[c]}
    /\ call[c] = Idle => executed[c] = calls[c]

(* What is on the disk is the database: a restart at any time, in the      *)
(* middle of a call too, gives back every document and every value in it.  *)
RestartKeepsDocuments == server = "up" => Loaded = database

(* The checks of test.cc: an insertion returns a new key for each document *)
(* and null for what is none, an update the document that was there        *)
(* before, an erasure the key, a search the document, once for each time   *)
(* the key was named unless it is gone by then.                            *)
Matches(c, result) ==
  LET value == Data(call[c].value)
  IN  /\ DOMAIN result = DOMAIN value
      /\ \A i \in DOMAIN result :
           CASE call[c].op = "insert" ->
                  IF Kind(value[i]) = "object"
                  THEN /\ Kind(result[i]) = "string"
                       /\ \A t \in Threads : t = c \/ call[t] = Idle =>
                            Data(result[i]) \notin DOMAIN mirror[t]
                  ELSE result[i] = Null
             [] call[c].op = "update" -> Same(result[i], mirror[c][i])
             [] call[c].op = "erase" -> result[i] = IF i = 1 THEN value[i] ELSE Null
             [] call[c].op = "find" -> Same(result[i], mirror[c][Data(value[i])])

ResultsMatchMirror ==
  [][\A c \in Threads :
       Waits(c) /\ call'[c] = Idle => With(Result(c), LAMBDA r : Matches(c, r))]_vars

(* Documents change only while the call of a thread is executed, and only  *)
(* new ones and its own: no letter of a stranger changes any.              *)
OnlyCallsChangeDocuments ==
  [][database' # database /\ server' = "up" /\ UNCHANGED restarts =>
       \E c \in Threads :
         /\ executed'[c] > executed[c]
         /\ \A k \in DOMAIN database :
              k \notin DOMAIN mirror[c] =>
                k \in DOMAIN database' /\ database'[k] = database[k]]_vars

(* A call whose request went out whole comes back without any timeout: the *)
(* server answers it or closes its connection.                             *)
EveryCallEnds ==
  \A c \in Threads : (Waits(c) /\ call[c].sent) ~> ~Waits(c)
=============================================================================
