------------------------------ MODULE Journal ------------------------------
(***************************************************************************)
(* The journal of include/journal.h: what a record does to a database, and *)
(* what replaying a whole file of records computes.                        *)
(*                                                                         *)
(* A database is a total function over the keys whose value is NoDoc where *)
(* the B+ tree of include/map.h holds no such key.  A record keeps the     *)
(* three fields Append writes: the operation, the key and a document (the  *)
(* one an erase removes, which replay ignores).  A record whose write was  *)
(* cut short has the operation "torn": Replay cannot read it.              *)
(***************************************************************************)
EXTENDS Naturals, SequencesExt, FiniteSetsExt

CONSTANTS Keys,      \* the document keys (UUIDs)
          Docs,      \* the JSON objects a client may store
          NoDoc,     \* "no such key in the tree"
          DocSize    \* the bytes one record or one snapshot entry takes

ASSUME DocsAssumption == NoDoc \notin Docs
ASSUME SizeAssumption == DocSize \in [Docs -> Nat \ {0}]

Databases == [Keys -> Docs \cup {NoDoc}]
EmptyDatabase == [k \in Keys |-> NoDoc]

Operations == {"insert", "update", "erase"}
Record == [op : Operations \cup {"torn"}, key : Keys, doc : Docs]

(* The database after a record that replays without an exception. *)
Effect(db, r) ==
  [db EXCEPT ![r.key] = IF r.op = "erase" THEN NoDoc ELSE r.doc]

(* Map::Insert throws on a key that exists, an update of a key that does   *)
(* not exist throws in Replay, and a torn record cannot be read; an erase  *)
(* of a key that does not exist is a no-op.                                *)
Throws(db, r) ==
  \/ r.op = "torn"
  \/ r.op = "insert" /\ db[r.key] # NoDoc
  \/ r.op = "update" /\ db[r.key] = NoDoc

(* What the first n records leave under a key: the last of them that names *)
(* the key decides, whatever the database held before.                     *)
ValueAfter(db, records, n, k) ==
  LET naming == {i \in 1..n : records[i].key = k}
  IN  IF naming = {} THEN db[k] ELSE Effect(db, records[Max(naming)])[k]

(* A whole Replay: does one of the records throw, and if none does, what   *)
(* the database is in the end.                                             *)
ReplayThrows(db, records) ==
  \E i \in DOMAIN records :
    Throws([k \in Keys |-> ValueAfter(db, records, i - 1, k)], records[i])

Replayed(db, records) ==
  [k \in Keys |-> ValueAfter(db, records, Len(records), k)]

JournalSize(records) ==
  MapThenSumSet(LAMBDA i : DocSize[records[i].doc], DOMAIN records)

SnapshotSize(db) ==
  MapThenSumSet(LAMBDA k : DocSize[db[k]], {k \in Keys : db[k] # NoDoc})
=============================================================================
