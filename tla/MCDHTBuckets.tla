---------------------------- MODULE MCDHTBuckets ----------------------------
(***************************************************************************)
(* Instance of DHTBuckets for TLC: ids of two bytes of two bits, hence     *)
(* four buckets.  Three nodes share the farthest bucket, which keeps two;  *)
(* the others are empty; a query may carry our own id.                     *)
(***************************************************************************)
EXTENDS DHTBuckets

CONSTANTS a1, t1

IdOf(high, low) == [i \in Bytes |-> IF i = 0 THEN high ELSE low]

MCSelfId == IdOf({1}, {0})
far1 == IdOf({}, {})
far2 == IdOf({0}, {1})
far3 == IdOf({}, {0, 1})
near == IdOf({1}, {})

MCIds    == {MCSelfId, near, far1, far2, far3}
MCBucket == [id \in MCIds |-> xorBucket(MCSelfId, id)]

Known(tok, seen) == [addr |-> a1, tok |-> tok, seen |-> seen]

\* Three rows in the farthest bucket, or two, one of them with its token.
MCInitTables ==
    {MCSelfId :> None @@ near :> None @@ far1 :> Known(t1, 1) @@ far2 :> Known(None, 2) @@ far3 :> row :
        row \in {Known(None, 3), None}}

MCBootstrap == <<a1>>

\* Answers are the business of MCDHTNode: here every probe times out.
MCResponses == {}

Ping(id) == [q |-> "ping", t |-> "ok", id |-> id, idForm |-> "ok", hashForm |-> "ok",
             tok |-> None, addr |-> a1]

MCQueries == {Ping(id) : id \in {far1, near, MCSelfId}}
=============================================================================
