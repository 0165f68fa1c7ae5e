-------------------------- MODULE HttpServerProofs --------------------------
(***************************************************************************)
(* Theorems about HttpServer: the types of its variables, and that         *)
(* connections_, epoll's table and the open sockets always agree.          *)
(*                                                                         *)
(* The agreement is inductive once it also says of every socket whether it *)
(* has a connection or was lost in Accept (Slots), and that the clients    *)
(* that wait to be accepted are distinct and have no socket yet (Queue).   *)
(***************************************************************************)
EXTENDS HttpServer, SequenceTheorems, FiniteSetTheorems, WellFoundedInduction, TLAPS

USE ServerAssumption, NoConnectionAssumption

Slots ==
  /\ link \in [Clients -> {"new", "backlog", "open", "lost", "gone"}]
  /\ owner \in [Descriptors -> Clients \cup {NoClient}]
  /\ interest \in [Descriptors -> {"none", "read", "write"}]
  /\ connections \in [Descriptors -> Connection \cup {NoConnection}]
  /\ expired \subseteq Descriptors
  /\ ConnectionsMatchDescriptors
  /\ \A d \in Descriptors :
       owner[d] # NoClient =>
         link[owner[d]] = IF d \in Open THEN "open" ELSE "lost"

Queue ==
  /\ backlog \in Seq(Clients)
  /\ \A i \in 1..Len(backlog) : link[backlog[i]] = "backlog"
  /\ \A i, j \in 1..Len(backlog) : backlog[i] = backlog[j] => i = j

Rest ==
  /\ sent \in [Clients -> Seq(Pieces)] /\ got \in [Clients -> Nat]
  /\ peer \in [Clients -> {"up", "half", "reset", "hangup"}]
  /\ clogged \subseteq Clients
  /\ timerDue \in BOOLEAN /\ signalled \in BOOLEAN /\ broken \subseteq Own
  /\ server \in {"running", "stopping", "stopped"}
  /\ batch \subseteq ClientEvents \cup OwnEvents
  /\ executed \in [Clients -> Nat] /\ answered \in [Clients -> Nat]
  /\ eager \subseteq Clients

TablesInv == Slots /\ Queue /\ Rest

(* The lowest number of a set is one of its members.                       *)
LEMMA MinIsMember ==
  ASSUME NEW D, D \subseteq Nat, D # {}
  PROVE  Min(D) \in D
<1>1. PICK x \in D : \A y \in D : ~ (<<y, x>> \in OpToRel(<, Nat))
  BY NatLessThanWellFounded, WFMin, Zenon
<1>2. \A y \in D : x =< y
  <2> TAKE y \in D
  <2>1. ~ (y < x)
    BY <1>1, Zenon DEF OpToRel
  <2> QED BY <2>1
<1> QED BY <1>2 DEF Min

LEMMA FreshIsConnection == Fresh \in Connection /\ Stage(Fresh.buffer) = "start"
  BY DEF Fresh, Connection, Stage, Oversize

(* Closing connections that are open keeps the tables in order and touches *)
(* no client that still waits.                                             *)
LEMMA CloseKeepsSlots ==
  ASSUME Slots, NEW D, D \subseteq Open, Close(D)
  PROVE  Slots' /\ \A c \in Clients : link[c] = "backlog" => link'[c] = "backlog"
<1> USE DEF Slots, Close, ConnectionsMatchDescriptors, Open
<1>1. D \subseteq Descriptors
  OBVIOUS
<1>2. /\ connections' \in [Descriptors -> Connection \cup {NoConnection}]
      /\ owner' \in [Descriptors -> Clients \cup {NoClient}]
      /\ interest' \in [Descriptors -> {"none", "read", "write"}]
      /\ link' \in [Clients -> {"new", "backlog", "open", "lost", "gone"}]
      /\ expired' \subseteq Descriptors
  OBVIOUS
<1>3. \A c \in Clients : link[c] = "backlog" => link'[c] = "backlog"
  OBVIOUS
<1>4. \A d \in Descriptors :
        /\ d \in D => d \notin Open' /\ owner'[d] = NoClient /\ interest'[d] = "none"
        /\ d \notin D => /\ (d \in Open') <=> (d \in Open)
                         /\ connections'[d] = connections[d]
                         /\ owner'[d] = owner[d] /\ interest'[d] = interest[d]
                         /\ owner[d] # NoClient => link'[owner[d]] = link[owner[d]]
  OBVIOUS
<1>5. ConnectionsMatchDescriptors'
  BY <1>4
<1>6. \A d \in Descriptors :
        owner'[d] # NoClient =>
          link'[owner'[d]] = IF d \in Open' THEN "open" ELSE "lost"
  BY <1>4
<1> QED BY <1>2, <1>3, <1>5, <1>6

(* So does an event that leaves its connection open in a mode that fits.   *)
LEMMA KeepKeepsSlots ==
  ASSUME Slots, NEW d \in Open, NEW x \in Connection, NEW mode \in {"read", "write"},
         (mode = "write") <=> (x.pending > 0),
         (mode = "write") <=> (Stage(x.buffer) = "end"),
         Keep(d, x, mode)
  PROVE  Slots' /\ link' = link
<1> USE DEF Slots, Keep, ConnectionsMatchDescriptors, Open
<1>1. x # NoConnection
  BY DEF Connection
<1>2. Open' = Open
  BY <1>1
<1>3. /\ connections' \in [Descriptors -> Connection \cup {NoConnection}]
      /\ interest' \in [Descriptors -> {"none", "read", "write"}]
      /\ expired' \subseteq Open /\ UNCHANGED <<owner, link>>
  OBVIOUS
<1>4. \A e \in Descriptors \ {d} :
        connections'[e] = connections[e] /\ interest'[e] = interest[e]
  OBVIOUS
<1>5. connections'[d] = x /\ interest'[d] = mode
  OBVIOUS
<1>6. ConnectionsMatchDescriptors'
  BY <1>2, <1>3, <1>4, <1>5
<1> QED BY <1>2, <1>3, <1>6

LEMMA QueueKept ==
  ASSUME Queue, UNCHANGED backlog,
         \A c \in Clients : link[c] = "backlog" => link'[c] = "backlog"
  PROVE  Queue'
<1>1. \A i \in 1..Len(backlog) : backlog[i] \in Clients
  BY ElementOfSeq DEF Queue
<1> QED BY <1>1 DEF Queue

LEMMA InitTables == Init => TablesInv
<1> SUFFICES ASSUME Init PROVE TablesInv
  OBVIOUS
<1>1. Slots
  BY DEF Init, Slots, ConnectionsMatchDescriptors, Open
<1>2. Queue
  BY DEF Init, Queue
<1>3. sent \in [Clients -> Seq(Pieces)]
  <2>1. <<>> \in Seq(Pieces)
    OBVIOUS
  <2> QED BY <2>1 DEF Init
<1>4. Rest
  BY <1>3 DEF Init, Rest
<1> QED BY <1>1, <1>2, <1>4 DEF TablesInv

(***************************************************************************)
(* One step of the environment or the server.                              *)
(***************************************************************************)
LEMMA EnvironmentKeepsTables == TablesInv /\ Environment => TablesInv'
<1> SUFFICES ASSUME TablesInv, Environment PROVE TablesInv'
  OBVIOUS
<1> USE DEF TablesInv, clients, kernel, sources, history
<1>1. ASSUME UNCHANGED <<owner, interest, connections>>, expired' \subseteq Open,
             link' \in [Clients -> {"new", "backlog", "open", "lost", "gone"}],
             \A d \in Descriptors :
               owner[d] # NoClient => link'[owner[d]] = link[owner[d]]
      PROVE  Slots'
  BY <1>1 DEF Slots, ConnectionsMatchDescriptors, Open
<1>2. ASSUME UNCHANGED <<link, owner, interest, connections>>, expired' \subseteq Open
      PROVE  Slots'
  BY <1>1, <1>2 DEF Slots
<1>3. expired \subseteq Open
  BY DEF Slots, ConnectionsMatchDescriptors
<1>4. ASSUME UNCHANGED <<link, backlog>> PROVE Queue'
  BY <1>4, QueueKept
<1>5. CASE \E c \in Clients : Connect(c)
  <2> PICK c \in Clients : Connect(c)
    BY <1>5
  <2> USE DEF Connect
  <2>1. Slots'
    <3>1. \A d \in Descriptors :
            owner[d] # NoClient => link'[owner[d]] = link[owner[d]]
      BY DEF Slots
    <3> QED BY <1>1, <1>3, <3>1 DEF Slots
  <2>2. Queue'
    <3> DEFINE b == Append(backlog, c)
    <3>1. /\ b \in Seq(Clients) /\ Len(b) = Len(backlog) + 1
          /\ \A i \in 1..Len(backlog) : b[i] = backlog[i]
          /\ b[Len(backlog) + 1] = c
      BY AppendProperties DEF Queue
    <3>2. \A i \in 1..Len(backlog) : backlog[i] \in Clients /\ backlog[i] # c
      BY ElementOfSeq DEF Queue
    <3>3. \A i \in 1..Len(b) : link'[b[i]] = "backlog"
      BY <3>1, <3>2, LenProperties DEF Queue, Slots
    <3>4. \A i, j \in 1..Len(b) : b[i] = b[j] => i = j
      BY <3>1, <3>2, LenProperties DEF Queue
    <3>5. backlog' = b
      OBVIOUS
    <3> HIDE DEF b
    <3> QED BY <3>1, <3>3, <3>4, <3>5 DEF Queue
  <2>3. Rest'
    BY DEF Rest
  <2> QED BY <2>1, <2>2, <2>3
<1>6. CASE \E c \in Clients : SendPiece(c)
  <2> PICK c \in Clients : SendPiece(c)
    BY <1>6
  <2> PICK p \in Pieces :
        /\ sent' = [sent EXCEPT ![c] = Append(@, p)]
        /\ eager' = IF p \in Heads /\ answered[c] < Requests(sent[c])
                    THEN eager \cup {c} ELSE eager
    BY DEF SendPiece
  <2>1. UNCHANGED <<peer, kernel, sources, server, batch, connections, expired,
                    history>>
    BY DEF SendPiece
  <2>2. Append(sent[c], p) \in Seq(Pieces)
    BY AppendProperties DEF Rest
  <2>3. Rest'
    <3>1. sent' \in [Clients -> Seq(Pieces)]
      BY <2>2 DEF Rest
    <3>2. eager' \subseteq Clients
      BY DEF Rest
    <3> QED BY <2>1, <3>1, <3>2 DEF Rest
  <2> QED BY <2>1, <2>3, <1>2, <1>3, <1>4
<1>7. CASE \E c \in Clients : Leave(c) \/ MakeRoom(c)
  <2>1. Rest'
    BY <1>7 DEF Leave, MakeRoom, Rest
  <2>2. UNCHANGED <<link, owner, interest, connections, expired, backlog>>
    BY <1>7 DEF Leave, MakeRoom
  <2> QED BY <2>1, <2>2, <1>2, <1>3, <1>4
<1>8. CASE \E d \in Descriptors : TimePasses(d)
  <2>1. Rest'
    BY <1>8 DEF TimePasses, Rest
  <2>2. expired' \subseteq Open /\ UNCHANGED <<link, owner, interest, connections, backlog>>
    BY <1>8, <1>3 DEF TimePasses
  <2> QED BY <2>1, <2>2, <1>2, <1>4
<1>9. CASE TimerFires \/ Signal \/ Breaks
  <2>1. Rest'
    BY <1>9 DEF TimerFires, Signal, Breaks, Rest
  <2>2. UNCHANGED <<link, owner, interest, connections, expired, backlog>>
    BY <1>9 DEF TimerFires, Signal, Breaks
  <2> QED BY <2>1, <2>2, <1>2, <1>3, <1>4
<1> QED BY <1>5, <1>6, <1>7, <1>8, <1>9 DEF Environment

LEMMA AcceptKeepsTables ==
  ASSUME Slots, Queue, Accept, UNCHANGED expired
  PROVE  Slots' /\ Queue'
<1> DEFINE c == Head(backlog)
           d == Min(Free)
<1>1. /\ c \in Clients /\ link[c] = "backlog" /\ c = backlog[1]
      /\ Tail(backlog) \in Seq(Clients) /\ Len(Tail(backlog)) = Len(backlog) - 1
      /\ \A i \in 1..Len(Tail(backlog)) : Tail(backlog)[i] = backlog[i + 1]
  BY HeadTailProperties, EmptySeq, ElementOfSeq, LenProperties DEF Queue, Accept
<1>2. d \in Descriptors /\ owner[d] = NoClient
  <2>1. Free \subseteq Nat /\ Free # {}
    BY DEF Free, Accept
  <2>2. d \in Free
    BY <2>1, MinIsMember, Zenon
  <2> QED BY <2>2 DEF Free
<1>3. \A e \in Descriptors : owner[e] # c
  BY <1>1 DEF Slots
<1>4. d \notin Open
  BY <1>2 DEF Slots, ConnectionsMatchDescriptors
<1>5. c # NoClient
  BY <1>1
<1>6. backlog' = Tail(backlog) /\
      \E k \in {"open", "gone", "lost"} : link' = [link EXCEPT ![c] = k]
  BY DEF Accept
<1>7. Queue'
  <2>1. \A i \in 1..Len(Tail(backlog)) :
          Tail(backlog)[i] \in Clients /\ Tail(backlog)[i] # c /\ i + 1 \in 1..Len(backlog)
    BY <1>1, LenProperties, ElementOfSeq DEF Queue
  <2>2. \A i \in 1..Len(Tail(backlog)) : link'[Tail(backlog)[i]] = "backlog"
    BY <1>1, <1>6, <2>1 DEF Queue, Slots
  <2>3. \A i, j \in 1..Len(Tail(backlog)) :
          Tail(backlog)[i] = Tail(backlog)[j] => i = j
    BY <1>1, <2>1, LenProperties DEF Queue
  <2> QED BY <1>1, <1>6, <2>2, <2>3 DEF Queue
<1>8. CASE /\ link' = [link EXCEPT ![c] = "open"] /\ owner' = [owner EXCEPT ![d] = c]
           /\ interest' = [interest EXCEPT ![d] = "read"]
           /\ connections' = [connections EXCEPT ![d] = Fresh]
  <2> HIDE DEF c, d
  <2>1. Fresh # NoConnection /\ ~(Fresh.pending > 0)
    <3>1. Fresh # NoConnection
      BY FreshIsConnection, Zenon DEF Connection
    <3>2. ~(Fresh.pending > 0)
      BY DEF Fresh
    <3> QED BY <3>1, <3>2
  <2>2. Open' = Open \cup {d}
    BY <1>2, <1>8, <2>1 DEF Open, Slots
  <2>3. ConnectionsMatchDescriptors'
    <3>1. \A e \in Descriptors :
            /\ owner'[e] = IF e = d THEN c ELSE owner[e]
            /\ interest'[e] = IF e = d THEN "read" ELSE interest[e]
            /\ connections'[e] = IF e = d THEN Fresh ELSE connections[e]
      BY <1>1, <1>8 DEF Slots
    <3>2. \A e \in Open' : link'[owner'[e]] = "open" /\ owner'[e] \in Clients
      BY <1>1, <1>3, <1>8, <2>2, <3>1 DEF Slots, ConnectionsMatchDescriptors, Open
    <3>3. \A d1, d2 \in Descriptors :
            owner'[d1] = owner'[d2] /\ owner'[d1] # NoClient => d1 = d2
      BY <1>3, <3>1 DEF Slots, ConnectionsMatchDescriptors
    <3>4. /\ interest'[d] # "none" /\ interest'[d] # "write"
          /\ ~(connections'[d].pending > 0) /\ Stage(connections'[d].buffer) # "end"
      BY <1>2, <2>1, <3>1, FreshIsConnection
    <3>5. \A e \in Descriptors \ {d} :
            /\ (e \in Open') <=> (interest'[e] # "none")
            /\ e \in Open' =>
                 /\ (interest'[e] = "write") <=> (connections'[e].pending > 0)
                 /\ (interest'[e] = "write") <=> (Stage(connections'[e].buffer) = "end")
      BY <2>2, <3>1 DEF Slots, ConnectionsMatchDescriptors
    <3>6. expired' \subseteq Open'
      BY <2>2 DEF Slots, ConnectionsMatchDescriptors
    <3>7. d \in Open' /\ d \in Descriptors
      BY <1>2, <2>2
    <3> QED BY <3>2, <3>3, <3>4, <3>5, <3>6, <3>7 DEF ConnectionsMatchDescriptors
  <2>4. \A e \in Descriptors :
          owner'[e] # NoClient =>
            link'[owner'[e]] = IF e \in Open' THEN "open" ELSE "lost"
    BY <1>1, <1>2, <1>3, <1>5, <1>8, <2>2 DEF Slots
  <2>5. /\ link' \in [Clients -> {"new", "backlog", "open", "lost", "gone"}]
        /\ owner' \in [Descriptors -> Clients \cup {NoClient}]
        /\ interest' \in [Descriptors -> {"none", "read", "write"}]
        /\ connections' \in [Descriptors -> Connection \cup {NoConnection}]
    BY <1>1, <1>8, FreshIsConnection DEF Slots
  <2> QED BY <1>7, <2>3, <2>4, <2>5 DEF Slots
<1>9. CASE link' = [link EXCEPT ![c] = "gone"] /\ UNCHANGED <<owner, interest, connections>>
  <2>1. \A e \in Descriptors :
          owner[e] # NoClient => link'[owner[e]] = link[owner[e]]
    BY <1>3, <1>9 DEF Slots
  <2>2. Open' = Open
    BY <1>9 DEF Open
  <2>3. link' \in [Clients -> {"new", "backlog", "open", "lost", "gone"}]
    BY <1>9 DEF Slots
  <2>4. ConnectionsMatchDescriptors'
    BY <1>9, <2>1, <2>2 DEF Slots, ConnectionsMatchDescriptors
  <2> QED BY <1>7, <1>9, <2>1, <2>2, <2>3, <2>4 DEF Slots
<1>10. CASE /\ link' = [link EXCEPT ![c] = "lost"] /\ owner' = [owner EXCEPT ![d] = c]
            /\ UNCHANGED <<interest, connections>>
  <2> HIDE DEF c, d
  <2>1. Open' = Open
    BY <1>10 DEF Open
  <2>2. ConnectionsMatchDescriptors'
    <3>1. \A e \in Descriptors :
            owner'[e] = IF e = d THEN c ELSE owner[e]
      BY <1>1, <1>10 DEF Slots
    <3>2. \A e \in Open : owner'[e] = owner[e] /\ link'[owner'[e]] = "open"
      BY <1>1, <1>3, <1>4, <1>10, <3>1 DEF Slots, ConnectionsMatchDescriptors, Open
    <3>3. \A d1, d2 \in Descriptors :
            owner'[d1] = owner'[d2] /\ owner'[d1] # NoClient => d1 = d2
      BY <1>3, <3>1 DEF Slots, ConnectionsMatchDescriptors
    <3>4. UNCHANGED <<interest, connections, expired>>
      BY <1>10
    <3> QED BY <2>1, <3>2, <3>3, <3>4 DEF Slots, ConnectionsMatchDescriptors, Open
  <2>3. \A e \in Descriptors :
          owner'[e] # NoClient =>
            link'[owner'[e]] = IF e \in Open' THEN "open" ELSE "lost"
    BY <1>1, <1>2, <1>3, <1>4, <1>5, <1>10, <2>1 DEF Slots
  <2> QED BY <1>1, <1>7, <1>10, <2>2, <2>3 DEF Slots
<1> QED BY <1>8, <1>9, <1>10 DEF Accept

LEMMA OversizeIsMore == Oversize \in Nat /\ Oversize > 1
BY DEF Oversize

LEMMA ResponseSizes ==
  ASSUME NEW size \in Responses
  PROVE  size \in 0..Oversize /\ size > 0
BY DEF Responses, Oversize

(* Reading from a client.                                                  *)
LEMMA Prefix ==
  ASSUME NEW s \in Seq(Pieces), NEW n \in 0..Len(s)
  PROVE  /\ SubSeq(s, 1, n) \in Seq(Pieces) /\ Len(SubSeq(s, 1, n)) = n
         /\ \A i \in 1..n : SubSeq(s, 1, n)[i] = s[i]
<1>1. \A i \in 1..n : s[i] \in Pieces
  BY LenProperties
<1>2. n \in Int /\ 1 \in Int /\ Len(s) \in Nat
  BY LenProperties
<1> QED BY <1>1, <1>2, SubSeqProperties

LEMMA FittingIsBounded ==
  ASSUME NEW buffer, NEW waiting \in Seq(Pieces)
  PROVE  Fitting(buffer, waiting) \in 0..Len(waiting)
<1> DEFINE k == Len(waiting)
           fits == {n \in 1..k : Size(buffer \o SubSeq(waiting, 1, n)) <= MaxPayload}
<1>1. k \in Nat
  BY LenProperties
<1>2. Fitting(buffer, waiting) = Cardinality(fits) /\ fits \subseteq 1..k
  BY DEF Fitting
<1> HIDE DEF fits, k
<1>3. IsFiniteSet(1..k) /\ Cardinality(1..k) = k
  <2>1. 1 \in Int /\ k \in Int
    BY <1>1
  <2>2. /\ IsFiniteSet(1..k)
        /\ Cardinality(1..k) = IF 1 > k THEN 0 ELSE k - 1 + 1
    BY <2>1, FS_Interval, Zenon
  <2> QED BY <1>1, <2>2
<1>4. IsFiniteSet(fits) /\ Cardinality(fits) <= k
  <2>1. fits \in SUBSET (1..k)
    BY <1>2
  <2>2. IsFiniteSet(fits) /\ Cardinality(fits) <= Cardinality(1..k)
    BY <1>3, <2>1, FS_Subset, Zenon
  <2> QED BY <1>3, <2>2
<1>5. Cardinality(fits) \in Nat
  BY <1>4, FS_CardinalityType
<1> QED BY <1>1, <1>2, <1>4, <1>5 DEF k

LEMMA ReceiveKeepsTables ==
  ASSUME Slots, NEW d \in Open, Receive(d),
         sent \in [Clients -> Seq(Pieces)], got \in [Clients -> Nat],
         peer \in [Clients -> {"up", "half", "reset", "hangup"}],
         executed \in [Clients -> Nat]
  PROVE  /\ Slots' /\ \A c \in Clients : link[c] = "backlog" => link'[c] = "backlog"
         /\ got' \in [Clients -> Nat] /\ executed' \in [Clients -> Nat]
<1> DEFINE c == owner[d]
           connection == connections[d]
           waiting == IF Broken(c) THEN <<>> ELSE Unread(c)
           read == Fitting(connection.buffer, waiting)
           buffer == connection.buffer \o SubSeq(waiting, 1, read)
           complete == Stage(buffer) = "end"
<1>1. /\ d \in Descriptors /\ c \in Clients /\ connection \in Connection
      /\ connection.buffer \in Seq(Pieces)
  BY DEF Slots, ConnectionsMatchDescriptors, Open, Connection
<1>2. buffer \in Seq(Pieces) /\ read \in Nat
  <2>1. Unread(c) \in Seq(Pieces)
    <3>1. sent[c] \in Seq(Pieces) /\ got[c] \in Nat
      BY <1>1
    <3>2. \A i \in got[c] + 1..Len(sent[c]) : i \in 1..Len(sent[c])
      BY <3>1, LenProperties
    <3> QED BY <3>1, <3>2, SubSeqProperties, LenProperties DEF Unread
  <2>2. waiting \in Seq(Pieces)
    BY <2>1
  <2> HIDE DEF waiting, connection
  <2>3. read \in 0..Len(waiting)
    BY <2>2, FittingIsBounded
  <2> HIDE DEF read
  <2>4. SubSeq(waiting, 1, read) \in Seq(Pieces)
    BY <2>2, <2>3, Prefix
  <2> QED BY <1>1, <2>3, <2>4, ConcatProperties
<1>3. got' \in [Clients -> Nat] /\ executed' \in [Clients -> Nat]
  <2>1. /\ got' = got \/ got' = [got EXCEPT ![c] = @ + read]
        /\ executed' = executed \/ executed' = [executed EXCEPT ![c] = @ + 1]
    BY DEF Receive, history
  <2>2. c \in Clients /\ executed[c] + 1 \in Nat /\ got[c] + read \in Nat
    BY <1>1, <1>2
  <2> HIDE DEF c, read
  <2>3. got' \in [Clients -> Nat]
    BY <2>1, <2>2
  <2>4. executed' \in [Clients -> Nat]
    BY <2>1, <2>2
  <2> QED BY <2>3, <2>4
<1>4. CASE Close({d})
  BY <1>1, <1>3, <1>4, CloseKeepsSlots
<1>5. ASSUME NEW size \in Responses,
             Keep(d, [buffer |-> buffer, pending |-> IF complete THEN size ELSE 0],
                  IF complete THEN "write" ELSE "read")
      PROVE  /\ Slots'
             /\ \A b \in Clients : link[b] = "backlog" => link'[b] = "backlog"
  <2> DEFINE x == [buffer |-> buffer, pending |-> IF complete THEN size ELSE 0]
             mode == IF complete THEN "write" ELSE "read"
  <2>1. size \in 0..Oversize /\ size > 0 /\ Oversize \in Nat
    BY ResponseSizes DEF Oversize
  <2>2. x \in Connection
    BY <1>2, <2>1 DEF Connection
  <2>3. /\ mode \in {"read", "write"}
        /\ (mode = "write") <=> (x.pending > 0)
        /\ (mode = "write") <=> (Stage(x.buffer) = "end")
    BY <2>1
  <2>4. Keep(d, x, mode)
    BY <1>5
  <2> HIDE DEF x, mode
  <2> QED BY <2>2, <2>3, <2>4, KeepKeepsSlots
<1>6. \/ Close({d})
      \/ \E size \in Responses :
           Keep(d, [buffer |-> buffer, pending |-> IF complete THEN size ELSE 0],
                IF complete THEN "write" ELSE "read")
  BY DEF Receive
<1> QED BY <1>3, <1>4, <1>5, <1>6

(* Writing to a client.                                                    *)
LEMMA LeftOver ==
  ASSUME NEW c, NEW pending \in 0..Oversize, NEW left \in Left(c, pending)
  PROVE  /\ left \in 0..Oversize /\ (left > 0 => pending > 0)
         /\ left = Oversize => pending = Oversize
<1>1. Oversize \in Nat
  BY OversizeIsMore
<1>2. left = pending \/ left \in 0..(pending - 1)
  BY DEF Left
<1> QED BY <1>1, <1>2

LEMMA TransmitKeepsTables ==
  ASSUME Slots, NEW d \in Open, Transmit(d),
         got \in [Clients -> Nat], clogged \subseteq Clients,
         executed \in [Clients -> Nat], answered \in [Clients -> Nat]
  PROVE  /\ Slots' /\ \A c \in Clients : link[c] = "backlog" => link'[c] = "backlog"
         /\ got' \in [Clients -> Nat] /\ clogged' \subseteq Clients
         /\ executed' \in [Clients -> Nat] /\ answered' \in [Clients -> Nat]
<1> DEFINE c == owner[d]
           connection == connections[d]
<1>1. /\ d \in Descriptors /\ c \in Clients /\ connection \in Connection
      /\ connection.pending \in 0..Oversize
      /\ (connection.pending > 0) <=> (Stage(connection.buffer) = "end")
  <2>1. d \in Descriptors /\ c \in Clients /\ connection \in Connection
    BY DEF Slots, ConnectionsMatchDescriptors, Open
  <2>2. connection.pending \in 0..Oversize
    BY <2>1 DEF Connection
  <2>3. (connection.pending > 0) <=> (Stage(connection.buffer) = "end")
    BY <2>1 DEF Slots, ConnectionsMatchDescriptors
  <2> QED BY <2>1, <2>2, <2>3
<1>2. PICK left \in Left(c, connection.pending) :
        /\ answered' = IF left = 0 /\ connection.pending > 0
                       THEN [answered EXCEPT ![c] = @ + 1] ELSE answered
        /\ clogged' = IF left > 0 /\ ~WriterHasErrors(c, left)
                      THEN clogged \cup {c} ELSE clogged
        /\ \/ left = 0 /\ KeepAlive(connection.buffer) /\ Keep(d, Fresh, "read")
           \/ left = 0 /\ ~KeepAlive(connection.buffer) /\ Close({d})
           \/ WriterHasErrors(c, left) /\ Close({d})
           \/ /\ left > 0 /\ ~WriterHasErrors(c, left)
              /\ Keep(d, [connection EXCEPT !.pending = left], "write")
        /\ UNCHANGED <<got, executed>>
  BY DEF Transmit
<1>3. left \in 0..Oversize /\ (left > 0 => connection.pending > 0)
  BY <1>1, <1>2, LeftOver
<1>4. /\ got' \in [Clients -> Nat] /\ clogged' \subseteq Clients
      /\ executed' \in [Clients -> Nat] /\ answered' \in [Clients -> Nat]
  BY <1>1, <1>2
<1>5. CASE Keep(d, Fresh, "read")
  <2>1. Fresh \in Connection /\ ~(Fresh.pending > 0) /\ Stage(Fresh.buffer) = "start"
    BY FreshIsConnection DEF Fresh
  <2>2. ("read" = "write") <=> (Fresh.pending > 0)
    BY <2>1
  <2>3. ("read" = "write") <=> (Stage(Fresh.buffer) = "end")
    BY <2>1
  <2> QED BY <1>4, <1>5, <2>1, <2>2, <2>3, KeepKeepsSlots
<1>6. CASE Close({d})
  BY <1>1, <1>4, <1>6, CloseKeepsSlots
<1>7. CASE left > 0 /\ Keep(d, [connection EXCEPT !.pending = left], "write")
  <2> DEFINE x == [connection EXCEPT !.pending = left]
  <2>1. x \in Connection /\ x.pending = left /\ x.buffer = connection.buffer
    BY <1>1, <1>3 DEF Connection
  <2>2. (x.pending > 0) /\ Stage(x.buffer) = "end" /\ Keep(d, x, "write")
    BY <1>1, <1>3, <1>7, <2>1
  <2> HIDE DEF x
  <2> QED BY <1>4, <2>1, <2>2, KeepKeepsSlots
<1> QED BY <1>2, <1>5, <1>6, <1>7

LEMMA ReadyIsEvents == Slots /\ Rest => Ready \subseteq ClientEvents \cup OwnEvents
<1> SUFFICES ASSUME Slots, Rest PROVE Ready \subseteq ClientEvents \cup OwnEvents
  OBVIOUS
<1>1. \A d \in Descriptors : ClientReady(d) \subseteq ClientEvents
  BY DEF ClientReady, ClientEvents
<1>2. \A d \in Own, readable \in BOOLEAN : On(d, readable) \subseteq OwnEvents
  BY DEF On, OwnEvents
<1>3. (UNION {ClientReady(d) : d \in Descriptors}) \subseteq ClientEvents
  BY <1>1
<1>4. /\ On(Timer, timerDue) \subseteq OwnEvents /\ On(Signals, signalled) \subseteq OwnEvents
      /\ On(Listen, backlog # <<>>) \subseteq OwnEvents
  BY <1>2 DEF Own, Rest
<1> QED BY <1>3, <1>4, Zenon DEF Ready

LEMMA ServeKeepsTables == TablesInv /\ Serve => TablesInv'
<1> SUFFICES ASSUME TablesInv, Serve PROVE TablesInv'
  OBVIOUS
<1> USE DEF TablesInv, clients, kernel, sources, history
<1>1. expired \subseteq Open
  BY DEF Slots, ConnectionsMatchDescriptors
<1>2. ASSUME NEW e, Take(e) PROVE batch' \subseteq ClientEvents \cup OwnEvents
  BY <1>2 DEF Take, Rest
<1>3. CASE Wait
  <2>1. Slots' /\ Queue'
    BY <1>3 DEF Wait, Slots, Queue, ConnectionsMatchDescriptors, Open
  <2>2. Rest'
    BY <1>3, ReadyIsEvents DEF Wait, Rest
  <2> QED BY <2>1, <2>2
<1>4. CASE HandleTimerEvent
  <2>1. Slots' /\ Queue'
    BY <1>1, <1>4, CloseKeepsSlots, QueueKept DEF HandleTimerEvent
  <2>2. Rest'
    BY <1>2, <1>4 DEF HandleTimerEvent, Rest
  <2> QED BY <2>1, <2>2
<1>5. CASE HandleSignalEvent
  <2>1. Slots' /\ Queue'
    BY <1>5 DEF HandleSignalEvent, Slots, Queue, ConnectionsMatchDescriptors, Open
  <2>2. Rest'
    BY <1>2, <1>5 DEF HandleSignalEvent, Rest
  <2> QED BY <2>1, <2>2
<1>6. CASE HandleServerEvent
  <2>1. CASE Accept
    <3>1. Slots' /\ Queue'
      BY <1>6, <2>1, AcceptKeepsTables DEF HandleServerEvent
    <3>2. Rest'
      BY <1>2, <1>6, <2>1 DEF HandleServerEvent, Accept, Rest
    <3> QED BY <3>1, <3>2
  <2>2. CASE Refuse
    <3>1. UNCHANGED <<link, backlog, owner, interest, connections, expired>>
      BY <1>6, <2>2 DEF HandleServerEvent, Refuse
    <3>2. Slots' /\ Queue'
      BY <3>1 DEF Slots, Queue, ConnectionsMatchDescriptors, Open
    <3>3. broken' \subseteq Own
      BY <2>2 DEF Refuse, Rest
    <3>4. Rest'
      BY <1>2, <1>6, <3>3 DEF HandleServerEvent, Rest
    <3> QED BY <3>2, <3>4
  <2> QED BY <1>6, <2>1, <2>2 DEF HandleServerEvent
<1>7. CASE HandleServerError
  <2>1. Queue'
    BY <1>7 DEF HandleServerError, Queue
  <2>2. Rest'
    BY <1>2, <1>7 DEF HandleServerError, Rest
  <2>3. CASE /\ connections' = [d \in Descriptors |-> NoConnection]
             /\ interest' = [d \in Descriptors |-> "none"]
             /\ owner' = [d \in Descriptors |->
                            IF d \in Open THEN NoClient ELSE owner[d]]
             /\ link' = [c \in Clients |->
                           IF Linked(c) THEN "gone" ELSE link[c]]
             /\ expired' = {}
    <3>1. Open' = {}
      BY <2>3 DEF Open
    <3>2. ConnectionsMatchDescriptors'
      BY <2>3, <3>1 DEF Slots, ConnectionsMatchDescriptors
    <3>3. \A d \in Descriptors :
            owner'[d] # NoClient => link'[owner'[d]] = "lost"
      BY <2>3 DEF Slots, Linked
    <3>4. /\ link' \in [Clients -> {"new", "backlog", "open", "lost", "gone"}]
          /\ owner' \in [Descriptors -> Clients \cup {NoClient}]
          /\ interest' \in [Descriptors -> {"none", "read", "write"}]
          /\ connections' \in [Descriptors -> Connection \cup {NoConnection}]
      BY <2>3 DEF Slots
    <3> QED BY <2>1, <2>2, <2>3, <3>1, <3>2, <3>3, <3>4 DEF Slots
  <2>4. CASE /\ link' = [c \in Clients |->
                           IF c \in ToSet(backlog) THEN "gone" ELSE link[c]]
             /\ UNCHANGED <<connections, interest, owner, expired>>
    <3>1. \A c \in ToSet(backlog) : link[c] = "backlog"
      BY DEF ToSet, Queue
    <3>2. \A d \in Descriptors :
            owner[d] # NoClient => link'[owner[d]] = link[owner[d]]
      BY <2>4, <3>1 DEF Slots
    <3>3. Open' = Open
      BY <2>4 DEF Open
    <3>4. ConnectionsMatchDescriptors'
      <4>1. /\ connections' = connections /\ interest' = interest
            /\ owner' = owner /\ expired' = expired
        BY <2>4
      <4>2. \A d \in Open : link'[owner[d]] = link[owner[d]]
        BY <3>2 DEF Slots, ConnectionsMatchDescriptors, Open
      <4> QED BY <3>3, <4>1, <4>2 DEF Slots, ConnectionsMatchDescriptors
    <3>5. link' \in [Clients -> {"new", "backlog", "open", "lost", "gone"}]
      BY <2>4 DEF Slots
    <3> QED BY <2>1, <2>2, <2>4, <3>2, <3>3, <3>4, <3>5 DEF Slots
  <2> QED BY <1>7, <2>3, <2>4 DEF HandleServerError
<1>8. CASE \E d \in Descriptors, kind \in {"in", "out", "error"} :
             HandleClientEvent(d, kind)
  <2> PICK d \in Descriptors, kind \in {"in", "out", "error"} :
             HandleClientEvent(d, kind)
    BY <1>8
  <2>1. /\ UNCHANGED <<sent, peer, eager, timerDue, signalled, broken, server>>
        /\ UNCHANGED backlog
        /\ batch' \subseteq ClientEvents \cup OwnEvents
    BY <1>2 DEF HandleClientEvent
  <2>2. CASE d \notin Open
    <3>1. UNCHANGED <<kernel, connections, expired, history>>
      BY <2>2 DEF HandleClientEvent
    <3>2. Slots' /\ Queue'
      BY <3>1 DEF Slots, Queue, ConnectionsMatchDescriptors, Open
    <3>3. Rest'
      BY <2>1, <3>1 DEF Rest
    <3> QED BY <3>2, <3>3
  <2>3. CASE d \in Open /\ Receive(d) /\ UNCHANGED clogged
    <3>1. Slots' /\ Queue' /\ got' \in [Clients -> Nat] /\ executed' \in [Clients -> Nat]
      BY <2>1, <2>3, ReceiveKeepsTables, QueueKept DEF Rest
    <3>2. answered' = answered
      BY <2>3 DEF Receive
    <3> QED BY <2>1, <2>3, <3>1, <3>2 DEF Rest
  <2>4. CASE d \in Open /\ Transmit(d)
    <3>1. /\ Slots' /\ Queue' /\ got' \in [Clients -> Nat] /\ clogged' \subseteq Clients
          /\ executed' \in [Clients -> Nat] /\ answered' \in [Clients -> Nat]
      BY <2>1, <2>4, TransmitKeepsTables, QueueKept DEF Rest
    <3> QED BY <2>1, <3>1 DEF Rest
  <2>5. CASE d \in Open /\ Close({d}) /\ UNCHANGED <<got, clogged, history>>
    <3>1. Slots' /\ Queue'
      BY <2>1, <2>5, CloseKeepsSlots, QueueKept
    <3> QED BY <2>1, <2>5, <3>1 DEF Rest
  <2> QED BY <2>2, <2>3, <2>4, <2>5 DEF HandleClientEvent
<1>9. CASE HandleTimerError \/ HandleSignalError
  <2>0. UNCHANGED <<link, backlog, owner, interest, connections, expired>>
    BY <1>9 DEF HandleTimerError, HandleSignalError
  <2>1. Slots' /\ Queue'
    BY <2>0 DEF Slots, Queue, ConnectionsMatchDescriptors, Open
  <2>2. Rest'
    BY <1>2, <1>9 DEF HandleTimerError, HandleSignalError, Rest
  <2> QED BY <2>1, <2>2
<1>10. CASE Stop
  <2>1. Open' = {}
    BY <1>10 DEF Stop, Open
  <2>2. Slots'
    BY <1>10, <2>1 DEF Stop, Slots, ConnectionsMatchDescriptors
  <2>3. Queue'
    BY <1>10 DEF Stop, Queue
  <2>4. Rest'
    BY <1>10 DEF Stop, Rest
  <2> QED BY <2>2, <2>3, <2>4
<1> QED BY <1>3, <1>4, <1>5, <1>6, <1>7, <1>8, <1>9, <1>10 DEF Serve

THEOREM TablesInvariant == Spec => []TablesInv
<1>1. Init => TablesInv
  BY InitTables
<1>2. TablesInv /\ [Next]_vars => TablesInv'
  <2>1. ASSUME TablesInv, UNCHANGED vars PROVE TablesInv'
    <3>1. /\ UNCHANGED <<link, backlog, owner, interest, connections, expired>>
          /\ UNCHANGED <<sent, got, peer, clogged, timerDue, signalled, broken>>
          /\ UNCHANGED <<server, batch, executed, answered, eager>>
      BY <2>1 DEF vars, clients, kernel, sources, history
    <3>2. Slots'
      BY <2>1, <3>1 DEF TablesInv, Slots, ConnectionsMatchDescriptors, Open
    <3>3. Queue'
      BY <2>1, <3>1 DEF TablesInv, Queue
    <3>4. Rest'
      BY <2>1, <3>1 DEF TablesInv, Rest
    <3> QED BY <3>2, <3>3, <3>4 DEF TablesInv
  <2> QED BY <2>1, EnvironmentKeepsTables, ServeKeepsTables DEF Next
<1> QED BY <1>1, <1>2, PTL DEF Spec

(* Every variable keeps its type.                                          *)
THEOREM TypeCorrect == Spec => []TypeOK
<1>1. TablesInv => TypeOK
  BY DEF TablesInv, Slots, Queue, Rest, TypeOK
<1> QED BY <1>1, TablesInvariant, PTL

(* connections_, epoll's table and the open sockets agree, whatever the    *)
(* order of the events of a batch, with accept faults and restarts of the  *)
(* listening socket.                                                       *)
THEOREM TablesAgree == Spec => []ConnectionsMatchDescriptors
<1>1. TablesInv => ConnectionsMatchDescriptors
  BY DEF TablesInv, Slots
<1> QED BY <1>1, TablesInvariant, PTL
=============================================================================
