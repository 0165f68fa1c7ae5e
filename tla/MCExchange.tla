----------------------------- MODULE MCExchange -----------------------------
(* Instances of Exchange for TLC: one account, short documents, and the    *)
(* letters that the parser or the API must see through.                    *)
EXTENDS Exchange

MCNumbers == 0..70 \cup {200, 400, 401, 404, 500, 600, -424}
MCMethods == {<<"GET">>, <<"POST">>, <<"PUT">>}
MCReasons == 200 :> <<"OK">> @@ 400 :> <<"Bad", " ", "Request">>
             @@ 401 :> <<"Unauthorized">> @@ 404 :> <<"Not", " ", "Found">>
MCLowerCase == "Authorization" :> "authorization" @@ "Content-Type" :> "content-type"
               @@ "Content-Length" :> "content-length"

MCDraws == {<< <<"k1">>, <<"k2">>, <<"k3">>, <<"k4">> >>,
            << <<"k4">>, <<"k3">>, <<"k2">>, <<"k1">> >>}

MCUsers == <<"root">> :> "hash of 0000"
MCHash == <<"0000">> :> "hash of 0000" @@ <<"1111">> :> "hash of 1111"
MCAccount == <<"root", ":", "0000">>
Mistaken == <<"root", ":", "1111">>
MCBase64 == MCAccount :> "cm9vdDowMDAw" @@ Mistaken :> "cm9vdDoxMTEx"

(* A number of each type that does not come back as it was sent, a text    *)
(* that holds what a parser looks for, a key with another inside of it.    *)
Wide == Object(<<"a">> :> Integer(600) @@ <<"b">> :> Array(<<Float(5), Null>>))
Deep == Object(<<"a">> :> Object(<<"a">> :> String(<<"}", ",">>)))
Nested == Object(<<"a">> :> Array(<<Array(<<Integer(1)>>)>>))
Small == Object(<<"a">> :> Null)
Truth == Object(<<"a">> :> Boolean(FALSE))

Long == Object(<<"a">> :> Array([i \in 1..10 |-> Null]))

MCDocuments == {Deep, Long}
MCInsertLists == {Array(<<Wide, Null>>), Array(<<Small, Nested>>), Array(<<Long>>)}
BooleanLists == {Array(<<Truth>>)}

(* Letters, of headers in any order and case.                              *)
Posted(method, url, headers, body) ==
  method \o <<Space>> \o url \o <<Space>> \o Protocol \o LineFeed
    \o FlattenSeq([i \in DOMAIN headers |->
                     headers[i][1] \o Colon \o headers[i][2] \o LineFeed])
    \o LineFeed \o body

Login(account) == << <<"Authorization">>, <<"Basic", Space, MCBase64[account]>> >>
Type(name) == << <<"Content-Type">>, <<name>> >>
Length(body) == << <<"Content-Length">>, <<Numeral(Len(body))>> >>
BelowZero == << <<"Content-Length">>, <<Numeral(-424)>> >>
Headers(body) == <<Login(MCAccount), Type("application/json"), Length(body)>>

Some == TextOf(Array(<<Deep>>))
Unknown == TextOf(Array(<<String(<<"k0">>), Null>>))

Carried(op, body) == Posted(<<"POST">>, Url(op), Headers(body), body)

MCLetters == {
  Carried("find", Unknown),
  Carried("update", TextOf(Object(<<"k0">> :> Deep @@ <<"k1">> :> Null))),
  Carried("insert", Front(Some)),
  Posted(<<"POST">>, Url("insert"), <<Login(Mistaken)>> \o Tail(Headers(Some)), Some),
  Posted(<<"POST">>, Url("insert"), Headers(Some) \o <<Type("text/html")>>, Some),
  Posted(<<"POST">>, Url("insert"), Front(Headers(Some)), Some),
  Posted(<<"POST">>, Url("drop"), Headers(Some), Some),
  Posted(<<"POST">>, Url("find"), Front(Headers(Unknown)) \o <<BelowZero>>, Unknown),
  Posted(<<"POST">>, Url("insert"),
         <<Type("text/html"), Type("text/html")>> \o Headers(Unknown), Unknown),
  Carried("insert", TextOf(Array(<<Long, Deep>>))) }
=============================================================================
