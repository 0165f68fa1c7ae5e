------------------------- MODULE HttpServerInvariant -------------------------
(***************************************************************************)
(* The inductive invariant behind the answers of HttpServer: what a        *)
(* connection has of what its client sent, and what an event that still    *)
(* waits in the batch can be about.                                        *)
(***************************************************************************)
EXTENDS HttpServer

(* Of the pieces s, all up to the n-th belong to requests that were        *)
(* answered.  A patient client has sent at most one request since.         *)
OneRequestAfter(s, n) ==
  /\ n > 0 => s[n] \notin Heads
  /\ \A i \in n + 1..Len(s) :
       /\ s[i] \in Heads => i = n + 1
       /\ s[i] \in Tails => i = n + 2 /\ s[n + 1] \in Heads

(* How many of the g pieces that came in are no longer in the buffer.      *)
Dropped(x, g) == g - Len(x.buffer)

(* Connection x serves a client that sent s, of which g pieces came in, ran *)
(* that many requests for it and answered that many.  The buffer holds the *)
(* last pieces that came in; those before it were dropped by Restart, and  *)
(* they hold a request for every answer.                                   *)
Fits(x, s, g, ran, replied, patient) ==
  LET n == Dropped(x, g)
  IN  /\ n >= 0
      /\ \A i \in 1..Len(x.buffer) : x.buffer[i] = s[n + i]
      /\ ran = replied + (IF x.pending > 0 THEN 1 ELSE 0)
      /\ replied <= Requests(SubSeq(s, 1, n))
      /\ patient => /\ replied = Requests(SubSeq(s, 1, n))
                    /\ OneRequestAfter(s, n)

Untouched(c) == got[c] = 0 /\ executed[c] = 0 /\ answered[c] = 0

(* What was counted for client c.                                          *)
Counted(c) ==
  /\ got[c] <= Len(sent[c])
  /\ executed[c] <= Requests(Received(c))
  /\ answered[c] <= executed[c] /\ executed[c] <= answered[c] + 1
  /\ link[c] = "new" => sent[c] = <<>>
  /\ link[c] \in {"new", "backlog"} =>
       Untouched(c) /\ (c \notin eager => OneRequestAfter(sent[c], 0))

Conversations ==
  /\ \A c \in Clients : Counted(c)
  /\ \A d \in Open :
       LET c == owner[d]
       IN  Fits(connections[d], sent[c], got[c], executed[c], answered[c], c \notin eager)

(* An event is about the connection it was reported for, which nothing but *)
(* an event of its own descriptor changes, or about one that was accepted  *)
(* since and from which nothing was read yet.                              *)
Events ==
  /\ \A e, f \in batch : e.on = f.on => e = f
  /\ \A e \in batch :
       e.on \in Open =>
         \/ e.kind = "in" /\ interest[e.on] = "read"
         \/ e.kind = "out" /\ interest[e.on] = "write"
         \/ e.kind = "error" /\ Broken(owner[e.on])
         \/ connections[e.on] = Fresh /\ got[owner[e.on]] = 0
  /\ [on |-> Listen, kind |-> "error"] \in batch => Listen \in broken
=============================================================================
