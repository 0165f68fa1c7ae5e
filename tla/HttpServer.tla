----------------------------- MODULE HttpServer -----------------------------
(***************************************************************************)
(* HttpServer of source/http.cc: the epoll loop with its connections, the  *)
(* timer that drops expired ones, the signal that stops it, and the        *)
(* clients and the kernel around it.                                       *)
(*                                                                         *)
(* The loop takes a batch of events from epoll_wait and handles them one   *)
(* by one.  An event names a descriptor, not a connection: by the time it  *)
(* is handled, an earlier event of the batch may have closed the           *)
(* descriptor, and another one may have given its number to a new client.  *)
(*                                                                         *)
(* A request is a head, which says whether the connection is to be kept    *)
(* alive, and a tail, which may be large; a client may send them apart or  *)
(* run requests together, and may send something that does not parse.      *)
(* What a connection takes in before a Restart is limited, and so is what  *)
(* a response may hold.                                                    *)
(***************************************************************************)
EXTENDS Naturals, SequencesExt, FiniteSetsExt

CONSTANTS Clients,         \* each opens at most one connection
          NoClient,
          Descriptors,     \* the numbers the kernel may give to a socket
          MaxConnections,  \* kEpollMaximumEvents - kHttpReservedSockets
          MaxPieces,       \* bound: pieces one client sends
          MaxPayload,      \* kTcpMaximumPayloadSize, in ordinary pieces
          Large,           \* what may be large: tails, responses
          ResponseSize,    \* bound: sends a response takes at most
          Departures,      \* how a client may leave: values of peer
          NoConnection,
          AcceptFaults,    \* what may fail in HandleServerEvent
          Faulty           \* the descriptors of its own that may break

(* The descriptors of the server's own, opened before any client's.        *)
Listen == 0
Signals == 1
Timer == 2
Own == {Listen, Signals, Timer}

ASSUME ServerAssumption ==
  /\ NoClient \notin Clients
  /\ Descriptors \subseteq Nat \ Own /\ IsFiniteSet(Descriptors)
  /\ {MaxConnections, MaxPieces, MaxPayload, ResponseSize} \subseteq Nat \ {0}
  /\ Large \subseteq {"exact", "excess", "response"}
  /\ Departures \subseteq {"half", "reset", "hangup"}
  /\ AcceptFaults \subseteq {"lookup", "setup"} /\ Faulty \subseteq Own

Heads == {"keep-alive", "close"}
Tails == {"tail", "exact", "excess"}
Pieces == Heads \cup Tails \cup {"garbage"}

(* What is pending of a response that is larger than kTcpMaximumPayloadSize. *)
Oversize == ResponseSize + 1
Responses == {ResponseSize} \cup (IF "response" \in Large THEN {Oversize} ELSE {})

ASSUME NoConnectionAssumption ==
  NoConnection \notin [buffer : Seq(Pieces), pending : 0..Oversize]

VARIABLES link,        \* "new", "backlog", "open", "lost" or "gone", by client
          sent, got,   \* the pieces a client sent, how many were received
          peer,        \* "up"; "half": it closed its sending side; or broken
          clogged,     \* the clients that have no room for more response
          backlog,     \* the clients that wait to be accepted
          owner,       \* whose socket a descriptor is
          interest,    \* what epoll watches a descriptor for
          timerDue, signalled,
          broken,      \* the descriptors of its own with an error
          server,      \* "running", "stopping" (running_ is false), "stopped"
          batch,       \* the events of the last epoll_wait still to handle
          connections, \* connections_: by descriptor
          expired,     \* the descriptors whose connection's time is over
          executed, answered,  \* history: handlers run, responses sent
          eager        \* history: who sent a request before the last answer

clients == <<sent, peer, eager>>
kernel == <<link, got, clogged, backlog, owner, interest>>
sources == <<timerDue, signalled, broken>>
history == <<executed, answered>>
vars == <<clients, kernel, sources, server, batch, connections, expired, history>>

Connection == [buffer : Seq(Pieces), pending : 0..Oversize]
Fresh == [buffer |-> <<>>, pending |-> 0]

ClientEvents == [on : Descriptors, kind : {"in", "out", "error"}]
OwnEvents == [on : Own, kind : {"in", "error"}]

Open == {d \in Descriptors : connections[d] # NoConnection}
Free == {d \in Descriptors : owner[d] = NoClient}
Broken(c) == peer[c] \in {"reset", "hangup"}
Unread(c) == SubSeq(sent[c], got[c] + 1, Len(sent[c]))

Requests(pieces) == Cardinality({i \in DOMAIN pieces : pieces[i] \in Tails})

(* With its head an "exact" tail fills a buffer, an "excess" one is more.   *)
Weight(piece) ==
  CASE piece = "exact" -> MaxPayload - 1
    [] piece = "excess" -> MaxPayload
    [] OTHER -> 1

Size(pieces) == MapThenSumSet(LAMBDA i : Weight(pieces[i]), DOMAIN pieces)

Init ==
  /\ link = [c \in Clients |-> "new"]
  /\ sent = [c \in Clients |-> <<>>] /\ got = [c \in Clients |-> 0]
  /\ peer = [c \in Clients |-> "up"] /\ clogged = {} /\ backlog = <<>>
  /\ owner = [d \in Descriptors |-> NoClient]
  /\ interest = [d \in Descriptors |-> "none"]
  /\ timerDue = FALSE /\ signalled = FALSE /\ broken = {}
  /\ server = "running" /\ batch = {}
  /\ connections = [d \in Descriptors |-> NoConnection] /\ expired = {}
  /\ executed = [c \in Clients |-> 0] /\ answered = [c \in Clients |-> 0]
  /\ eager = {}

(***************************************************************************)
(* Clients, time and the kernel.                                           *)
(***************************************************************************)
Linked(c) == link[c] \in {"backlog", "open"}

Connect(c) ==
  /\ server # "stopped"
  /\ link[c] = "new"
  /\ link' = [link EXCEPT ![c] = "backlog"]
  /\ backlog' = Append(backlog, c)
  /\ UNCHANGED <<clients, got, clogged, owner, interest, sources, server, batch,
                 connections, expired, history>>

(* A tail follows a head, a head follows a tail; garbage ends it. *)
SendPiece(c) ==
  /\ Linked(c) /\ peer[c] = "up"
  /\ Len(sent[c]) < MaxPieces
  /\ \E p \in Pieces :
       /\ IF sent[c] = <<>> \/ Last(sent[c]) \in Tails
          THEN p \notin Tails ELSE p \notin Heads
       /\ "garbage" \notin ToSet(sent[c])
       /\ p \in Tails \ {"tail"} => p \in Large
       /\ sent' = [sent EXCEPT ![c] = Append(@, p)]
       /\ eager' = IF p \in Heads /\ answered[c] < Requests(sent[c])
                   THEN eager \cup {c} ELSE eager
  /\ UNCHANGED <<peer, kernel, sources, server, batch, connections, expired,
                 history>>

(* The client closes its sending side, or the connection breaks; some      *)
(* breaks are reported as readable, some only as an error.                 *)
Leave(c) ==
  /\ Linked(c) /\ ~Broken(c)
  /\ \E p \in Departures \ {peer[c]} : peer' = [peer EXCEPT ![c] = p]
  /\ UNCHANGED <<sent, eager, kernel, sources, server, batch, connections, expired,
                 history>>

MakeRoom(c) ==
  /\ c \in clogged
  /\ clogged' = clogged \ {c}
  /\ UNCHANGED <<clients, link, got, backlog, owner, interest, sources, server,
                 batch, connections, expired, history>>

(* Ten seconds since the last event of a connection. *)
TimePasses(d) ==
  /\ d \in Open \ expired
  /\ expired' = expired \cup {d}
  /\ UNCHANGED <<clients, kernel, sources, server, batch, connections, history>>

TimerFires ==
  /\ server # "stopped" /\ ~timerDue
  /\ timerDue' = TRUE
  /\ UNCHANGED <<clients, kernel, signalled, broken, server, batch,
                 connections, expired, history>>

Signal ==
  /\ server = "running" /\ ~signalled
  /\ signalled' = TRUE
  /\ UNCHANGED <<clients, kernel, timerDue, broken, server, batch,
                 connections, expired, history>>

Breaks ==
  /\ server = "running"
  /\ \E d \in Faulty \ broken : broken' = broken \cup {d}
  /\ UNCHANGED <<clients, kernel, timerDue, signalled, server, batch,
                 connections, expired, history>>

Environment ==
  \/ \E c \in Clients : Connect(c) \/ SendPiece(c) \/ Leave(c) \/ MakeRoom(c)
  \/ \E d \in Descriptors : TimePasses(d)
  \/ TimerFires \/ Signal \/ Breaks

(***************************************************************************)
(* What epoll_wait reports: level-triggered, one event per descriptor.     *)
(***************************************************************************)
ClientReady(d) ==
  LET c == owner[d]
      event(k) == {[on |-> d, kind |-> k]}
  IN  CASE interest[d] = "none" -> {}
        [] interest[d] # "none" /\ peer[c] = "hangup" -> event("error")
        [] interest[d] = "read" /\ (Unread(c) # <<>> \/ peer[c] \in {"half", "reset"})
             -> event("in")
        [] interest[d] = "write" /\ (c \notin clogged \/ peer[c] = "reset")
             -> event("out")
        [] OTHER -> {}

(* An error is looked at only when there is nothing to read.               *)
On(d, readable) ==
  IF readable THEN {[on |-> d, kind |-> "in"]}
  ELSE IF d \in broken THEN {[on |-> d, kind |-> "error"]} ELSE {}

Ready ==
  (UNION {ClientReady(d) : d \in Descriptors})
    \cup On(Timer, timerDue) \cup On(Signals, signalled) \cup On(Listen, backlog # <<>>)

(***************************************************************************)
(* The server.  ParseRequest: how far the bytes of a connection bring it;  *)
(* what follows the first request stays in the buffer.                     *)
(***************************************************************************)
(* Mutants: the content length is not waited for; a request that is not yet   *)
(* complete fails. *)
HeadCompletes(buffer) ==
  IF buffer = <<>> THEN "start"
  ELSE IF buffer[1] \in Heads THEN "end" ELSE "failed"

PartialFails(buffer) ==
  IF buffer = <<>> THEN "start"
  ELSE IF Len(buffer) > 1 /\ buffer[1] \in Heads /\ buffer[2] \in Tails
  THEN "end" ELSE "failed"

Stage(buffer) ==
  CASE buffer = <<>> -> "start"
    [] buffer # <<>> /\ buffer[1] \notin Heads -> "failed"
    [] Len(buffer) = 1 /\ buffer[1] \in Heads -> "partial"
    [] Len(buffer) > 1 /\ buffer[1] \in Heads ->
         IF buffer[2] \in Tails THEN "end" ELSE "failed"

KeepAlive(buffer) == buffer # <<>> /\ buffer[1] = "keep-alive"

(* Mutant: the entry of connections_ is not erased. *)
CloseKeepsEntry(D) ==
  /\ interest' = [d \in Descriptors |-> IF d \in D THEN "none" ELSE interest[d]]
  /\ owner' = [d \in Descriptors |-> IF d \in D THEN NoClient ELSE owner[d]]
  /\ link' = [c \in Clients |->
                IF \E d \in D : owner[d] = c THEN "gone" ELSE link[c]]
  /\ expired' = expired \ D
  /\ UNCHANGED connections

(* The connections of D go: DeleteConnection, DeleteAllConnections.        *)
Close(D) ==
  /\ connections' = [d \in Descriptors |->
                       IF d \in D THEN NoConnection ELSE connections[d]]
  /\ interest' = [d \in Descriptors |-> IF d \in D THEN "none" ELSE interest[d]]
  /\ owner' = [d \in Descriptors |-> IF d \in D THEN NoClient ELSE owner[d]]
  /\ link' = [c \in Clients |->
                IF \E d \in D : owner[d] = c THEN "gone" ELSE link[c]]
  /\ expired' = expired \ D

(* A connection's event leaves it open, its time starts again.             *)
Keep(d, connection, mode) ==
  /\ connections' = [connections EXCEPT ![d] = connection]
  /\ interest' = [interest EXCEPT ![d] = mode]
  /\ expired' = expired \ {d}
  /\ UNCHANGED <<owner, link>>

Take(e) == e \in batch /\ batch' = batch \ {e}

Wait ==
  /\ server = "running" /\ batch = {} /\ Ready # {}
  /\ batch' = Ready
  /\ UNCHANGED <<clients, kernel, sources, server, connections, expired, history>>

(* Mutant: expired connections are left open. *)
TickOnly ==
  /\ Take([on |-> Timer, kind |-> "in"])
  /\ timerDue' = FALSE
  /\ UNCHANGED <<clients, kernel, signalled, broken, server, connections,
                 expired, history>>

(* The services tick (Storage), then the expired connections go.           *)
HandleTimerEvent ==
  /\ Take([on |-> Timer, kind |-> "in"])
  /\ timerDue' = FALSE
  /\ Close(expired)
  /\ UNCHANGED <<clients, got, clogged, backlog, signalled, broken, server,
                 history>>

HandleSignalEvent ==
  /\ Take([on |-> Signals, kind |-> "in"])
  /\ signalled' = FALSE
  /\ server' = "stopping"
  /\ UNCHANGED <<clients, kernel, timerDue, broken, connections, expired,
                 history>>

(* A new timer, and ten seconds more; without one the loop ends.           *)
HandleTimerError ==
  /\ Take([on |-> Timer, kind |-> "error"])
  /\ broken' = broken \ {Timer}
  /\ timerDue' = FALSE
  /\ server' \in {server, "stopping"}
  /\ UNCHANGED <<clients, kernel, signalled, connections, expired, history>>

(* Mutant: signals that came before are asked for no more. *)
SignalErrorDrops ==
  /\ Take([on |-> Signals, kind |-> "error"])
  /\ broken' = broken \ {Signals}
  /\ signalled' = FALSE
  /\ server' \in {server, "stopping"}
  /\ UNCHANGED <<clients, kernel, timerDue, connections, expired, history>>

(* The signals stay blocked: one that came meanwhile is found by the new   *)
(* descriptor.                                                             *)
HandleSignalError ==
  /\ Take([on |-> Signals, kind |-> "error"])
  /\ broken' = broken \ {Signals}
  /\ server' \in {server, "stopping"}
  /\ UNCHANGED <<clients, kernel, timerDue, signalled, connections, expired, history>>

(* Mutant: one connection less than there is room for. *)
FullTooEarly == Cardinality(Open) + 1 >= MaxConnections

Full == Cardinality(Open) >= MaxConnections

(* Accept takes the first client that waits, on the lowest number that is  *)
(* free.  Looking up its name may fail with the socket open, watching it   *)
(* or unblocking it with the socket closed again.                          *)
Accept ==
  LET c == Head(backlog)
      d == Min(Free)
  IN  /\ ~Full /\ Listen \notin broken /\ Free # {} /\ backlog # <<>>
      /\ backlog' = Tail(backlog)
      /\ \/ /\ link' = [link EXCEPT ![c] = "open"]
            /\ owner' = [owner EXCEPT ![d] = c]
            /\ interest' = [interest EXCEPT ![d] = "read"]
            /\ connections' = [connections EXCEPT ![d] = Fresh]
         \/ /\ "setup" \in AcceptFaults
            /\ link' = [link EXCEPT ![c] = "gone"]
            /\ UNCHANGED <<owner, interest, connections>>
         \/ /\ "lookup" \in AcceptFaults
            /\ link' = [link EXCEPT ![c] = "lost"]
            /\ owner' = [owner EXCEPT ![d] = c]
            /\ UNCHANGED <<interest, connections>>
      /\ UNCHANGED broken

(* No client is accepted; asking the socket for its error clears it.       *)
Refuse ==
  /\ Full \/ Listen \in broken \/ Free = {} \/ backlog = <<>>
  /\ broken' = IF Full THEN broken ELSE broken \ {Listen}
  /\ UNCHANGED <<link, backlog, owner, interest, connections>>

HandleServerEvent ==
  /\ Take([on |-> Listen, kind |-> "in"])
  /\ Accept \/ Refuse
  /\ UNCHANGED <<clients, got, clogged, timerDue, signalled, server, expired,
                 history>>

(* The listening socket is closed, with it the clients that wait go.  With *)
(* a new one in place every connection is dropped; without, the loop ends. *)
HandleServerError ==
  /\ Take([on |-> Listen, kind |-> "error"])
  /\ broken' = broken \ {Listen}
  /\ backlog' = <<>>
  /\ LET waiting == ToSet(backlog)
     IN  \/ /\ connections' = [d \in Descriptors |-> NoConnection]
            /\ interest' = [d \in Descriptors |-> "none"]
            /\ owner' = [d \in Descriptors |->
                           IF d \in Open THEN NoClient ELSE owner[d]]
            /\ link' = [c \in Clients |->
                          IF Linked(c) THEN "gone" ELSE link[c]]
            /\ expired' = {}
            /\ UNCHANGED server
         \/ /\ server' = "stopping"
            /\ link' = [c \in Clients |->
                          IF c \in waiting THEN "gone" ELSE link[c]]
            /\ UNCHANGED <<connections, interest, owner, expired>>
  /\ UNCHANGED <<clients, got, clogged, timerDue, signalled, history>>

(* Of the pieces that wait, how many recv adds to a buffer before what is  *)
(* in it comes to kTcpMaximumPayloadSize; a piece that does not fit is cut. *)
Fitting(buffer, waiting) ==
  Cardinality({n \in 1..Len(waiting) :
                 Size(buffer \o SubSeq(waiting, 1, n)) <= MaxPayload})

(* TcpSocket::Receive ends with OVERFLOW.                                  *)
Overflows(buffer, waiting) == Size(buffer \o waiting) >= MaxPayload

(* A readable client: read what there is, parse, run the handler once the  *)
(* request is complete and leave the response to the writer.  A client     *)
(* that closed its side is dropped even then, and one that filled the      *)
(* buffer.                                                                 *)
Receive(d) ==
  LET c == owner[d]
      connection == connections[d]
      waiting == IF Broken(c) THEN <<>> ELSE Unread(c)
      read == Fitting(connection.buffer, waiting)
      buffer == connection.buffer \o SubSeq(waiting, 1, read)
      complete == Stage(buffer) = "end"
      hasErrors == peer[c] # "up" \/ Overflows(connection.buffer, waiting)
  IN  IF Stage(connection.buffer) = "end"
      THEN Close({d}) /\ UNCHANGED <<got, history>>
      ELSE /\ got' = [got EXCEPT ![c] = @ + read]
           /\ executed' = IF complete THEN [executed EXCEPT ![c] = @ + 1]
                          ELSE executed
           /\ UNCHANGED answered
           /\ IF Stage(buffer) = "failed" \/ hasErrors THEN Close({d})
              ELSE \E size \in Responses :
                     Keep(d, [buffer |-> buffer,
                              pending |-> IF complete THEN size ELSE 0],
                          IF complete THEN "write" ELSE "read")

Stuck(c, pending) == pending \in {0, Oversize} \/ c \in clogged \/ Broken(c)

(* Mutant: what was sent stays in the buffer, and more. *)
SendAppends(c, pending) ==
  IF Stuck(c, pending) THEN {pending} ELSE 0..(pending + 2)

(* How much of the response a send may leave; nothing of one that is past  *)
(* the limit is sent.                                                      *)
Left(c, pending) ==
  IF Stuck(c, pending) THEN {pending} ELSE 0..(pending - 1)

(* Mutant: TcpReader's rule, by which all but one status is an error. *)
BlockedIsAnError(c, left) == left > 0

(* TcpWriter::HasErrors: anything but SUCCESS and BLOCKED, OVERFLOW too.   *)
WriterHasErrors(c, left) == left > 0 /\ (left = Oversize \/ Broken(c))

(* A writable client: send what fits.  Once nothing is left, Restart with  *)
(* an empty buffer if the request said keep-alive, else close.             *)
Transmit(d) ==
  LET c == owner[d]
      connection == connections[d]
  IN  \E left \in Left(c, connection.pending) :
        /\ answered' = IF left = 0 /\ connection.pending > 0
                       THEN [answered EXCEPT ![c] = @ + 1] ELSE answered
        /\ clogged' = IF left > 0 /\ ~WriterHasErrors(c, left)
                      THEN clogged \cup {c} ELSE clogged
        /\ \/ left = 0 /\ KeepAlive(connection.buffer) /\ Keep(d, Fresh, "read")
           \/ left = 0 /\ ~KeepAlive(connection.buffer) /\ Close({d})
           \/ WriterHasErrors(c, left) /\ Close({d})
           \/ /\ left > 0 /\ ~WriterHasErrors(c, left)
              /\ Keep(d, [connection EXCEPT !.pending = left], "write")
        /\ UNCHANGED <<got, executed>>

HandleClientEvent(d, kind) ==
  /\ Take([on |-> d, kind |-> kind])
  /\ \/ /\ d \notin Open
        /\ UNCHANGED <<kernel, connections, expired, history>>
     \/ /\ d \in Open /\ kind = "in"
        /\ Receive(d)
        /\ UNCHANGED <<clogged, backlog>>
     \/ /\ d \in Open /\ kind = "out"
        /\ Transmit(d)
        /\ UNCHANGED backlog
     \/ /\ d \in Open /\ kind = "error"
        /\ Close({d})
        /\ UNCHANGED <<got, clogged, backlog, history>>
  /\ UNCHANGED <<clients, sources, server>>

(* The end of Serve: everything is closed; Shutdown of the services is     *)
(* Storage's.                                                              *)
Stop ==
  /\ server = "stopping" /\ batch = {}
  /\ server' = "stopped"
  /\ connections' = [d \in Descriptors |-> NoConnection]
  /\ interest' = [d \in Descriptors |-> "none"]
  /\ owner' = [d \in Descriptors |-> NoClient]
  /\ link' = [c \in Clients |-> IF link[c] = "new" THEN "new" ELSE "gone"]
  /\ backlog' = <<>> /\ expired' = {} /\ broken' = {}
  /\ UNCHANGED <<clients, got, clogged, timerDue, signalled, batch, history>>

Serve ==
  \/ Wait \/ HandleTimerEvent \/ HandleSignalEvent
  \/ HandleTimerError \/ HandleSignalError
  \/ HandleServerEvent \/ HandleServerError
  \/ \E d \in Descriptors, kind \in {"in", "out", "error"} :
       HandleClientEvent(d, kind)
  \/ Stop

Next == Serve \/ Environment

Spec == Init /\ [][Next]_vars

(* The loop runs on; the timer fires every ten seconds; a connection       *)
(* without events for ten seconds expires.  The server's own descriptors   *)
(* do not break again and again.  Nothing is asked of a client.            *)
FairSpec ==
  /\ Spec
  /\ WF_vars(Serve)
  /\ WF_vars(TimerFires)
  /\ \A d \in Descriptors : WF_vars(TimePasses(d))
  /\ <>[](broken = {})

(***************************************************************************)
(* Properties.                                                             *)
(***************************************************************************)
TypeOK ==
  /\ link \in [Clients -> {"new", "backlog", "open", "lost", "gone"}]
  /\ sent \in [Clients -> Seq(Pieces)] /\ got \in [Clients -> Nat]
  /\ peer \in [Clients -> {"up", "half", "reset", "hangup"}]
  /\ clogged \subseteq Clients /\ backlog \in Seq(Clients)
  /\ owner \in [Descriptors -> Clients \cup {NoClient}]
  /\ interest \in [Descriptors -> {"none", "read", "write"}]
  /\ timerDue \in BOOLEAN /\ signalled \in BOOLEAN /\ broken \subseteq Own
  /\ server \in {"running", "stopping", "stopped"}
  /\ batch \subseteq ClientEvents \cup OwnEvents
  /\ connections \in [Descriptors -> Connection \cup {NoConnection}]
  /\ expired \subseteq Descriptors
  /\ executed \in [Clients -> Nat] /\ answered \in [Clients -> Nat]
  /\ eager \subseteq Clients

(* connections_, the kernel's table and epoll agree: a descriptor is       *)
(* watched exactly while it has a connection, its socket is that of one    *)
(* open client, and it is watched for room to write exactly while a        *)
(* complete request waits for the rest of its response.                    *)
ConnectionsMatchDescriptors ==
  /\ \A d \in Descriptors :
       /\ (d \in Open) <=> (interest[d] # "none")
       /\ d \in Open =>
            /\ owner[d] \in Clients /\ link[owner[d]] = "open"
            /\ (interest[d] = "write") <=> (connections[d].pending > 0)
            /\ (interest[d] = "write") <=> (Stage(connections[d].buffer) = "end")
  /\ \A d1, d2 \in Descriptors :
       owner[d1] = owner[d2] /\ owner[d1] # NoClient => d1 = d2
  /\ expired \subseteq Open

Received(c) == SubSeq(sent[c], 1, got[c])
(* However the pieces arrive and whatever events are stale: a handler runs *)
(* at most once for a request that came in completely, its response is     *)
(* counted at most once and never before it ran, and while a response is   *)
(* on its way it is the only one its client waits for.                     *)
AnswersFollowRequests ==
  /\ \A c \in Clients :
       /\ executed[c] <= Requests(Received(c))
       /\ answered[c] <= executed[c] /\ executed[c] <= answered[c] + 1
  /\ \A d \in Open :
       (connections[d].pending > 0) <=> (executed[owner[d]] # answered[owner[d]])

(* A client that sends its next request only after the answer to the last  *)
(* loses none to Restart, which drops what the buffer still holds: each    *)
(* request that came in was executed, however often the connection was     *)
(* kept alive.                                                             *)
PatientClientsLoseNothing ==
  \A d \in Open :
    owner[d] \notin eager => executed[owner[d]] = Requests(Received(owner[d]))

CutOff(c) == link[c] = "open" /\ link'[c] = "gone"

Excused(c) ==
  \/ peer[c] # "up" \/ \E d \in expired : owner[d] = c
  \/ server = "stopping" \/ Listen \in broken

(* What came in from client c and what still waits fill a buffer, or the   *)
(* response to c is past the limit.                                        *)
TooLarge(c) ==
  \E d \in Open :
    /\ owner[d] = c
    /\ \/ connections[d].pending = Oversize
       \/ connections[d].pending = 0 /\ Overflows(connections[d].buffer, Unread(c))

(* A client whose request was executed is cut off without its response     *)
(* only if it closed its side or broke, was silent for ten seconds, or the *)
(* server stops or starts over, or if the request filled the buffer or the *)
(* response is past the limit: a response sent in several parts is not cut. *)
KeepsItsPromise ==
  [][\A c \in Clients :
       CutOff(c) /\ executed'[c] # answered'[c] =>
         Excused(c) \/ TooLarge(c)]_vars

(* Beyond that a connection is closed only with its last response, for     *)
(* what the client sent, or before anything was received from it: an event *)
(* meant for an earlier owner of the descriptor may drop a new client, but *)
(* none whose request has begun to come in.                                *)
ClosedForAReason ==
  [][\A c \in Clients :
       CutOff(c) =>
         \/ Excused(c) \/ TooLarge(c) \/ answered'[c] > answered[c]
         \/ "garbage" \in ToSet(sent[c]) \/ c \in eager
         \/ got'[c] = 0]_vars

(* Every connection is closed in the end, a clogged one too.               *)
EveryConnectionEnds ==
  \A c \in Clients : (link[c] = "open") ~> (link[c] = "gone")

(* A client that waits is accepted or refused, though the pool was full.   *)
BacklogIsServed ==
  \A c \in Clients : (link[c] = "backlog") ~> (link[c] # "backlog")

(* A signal stops the server whatever the clients do.                      *)
SignalStops == signalled ~> (server = "stopped")
=============================================================================
