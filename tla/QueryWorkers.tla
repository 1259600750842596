---------------------------- MODULE QueryWorkers ----------------------------
(***************************************************************************)
(* The workers that handle queries of other nodes: ping, find_node,        *)
(* get_peers and announce_peer.  A worker takes a query, runs its handler  *)
(* statement by statement against the shared tables, and hands its replies *)
(* to the send queue.  A query is described by what the handlers tell      *)
(* apart: which arguments are there and have the right length.             *)
(***************************************************************************)
EXTENDS NodeStore

CONSTANTS Workers,    \* goroutines running handleReceivePktLoop
          Queries,    \* the queries that may arrive, a set of Query records
          MaxQueries  \* bound: queries handled

\* An argument has 20 bytes, more, or fewer, none or no entry at all in the
\* dictionary a of arguments; or there is no such dictionary.
Form  == {"ok", "long", "short", "no_a"}
Query == [q : {"ping", "find_node", "get_peers", "announce_peer"},
          t : {"ok", "bad"},       \* the transaction id: a string or not
          id : Ids, idForm : Form, \* a.id
          hashForm : Form,         \* a.info_hash, or a.target of find_node
          tok : Token,             \* a.token, None when absent
          addr : Addrs]            \* the IP the query came from

ASSUME WorkersAssumption ==
    /\ Workers \subseteq Goroutines
    /\ Queries \subseteq Query
    /\ MaxQueries \in Nat
    /\ \A q \in Queries : "no_a" \in {q.idForm, q.hashForm} =>
                             q.idForm = q.hashForm /\ q.tok = None

VARIABLES wpc,      \* where each worker is in its handler
          wq,       \* the query it handles or handled last
          replies,  \* what it handed to the send queue for that query
          nq        \* queries taken so far

workerVars == <<wpc, wq, replies, nq>>

WorkerTypeOK ==
    /\ wpc \in [Workers -> {"idle", "upsert", "answer", "rows", "near", "verify"}]
    /\ wq \in [Workers -> Queries \cup {None}]
    /\ replies \in [Workers -> Seq({"r", "e", "near"})]
    /\ nq \in 0 .. MaxQueries

WorkerStart == /\ wpc = [w \in Workers |-> "idle"]
               /\ wq = [w \in Workers |-> None]
               /\ replies = [w \in Workers |-> <<>>]
WorkerRestart == /\ wpc' = [w \in Workers |-> "idle"]
                 /\ wq' = [w \in Workers |-> None]
                 /\ replies' = [w \in Workers |-> <<>>]

-----------------------------------------------------------------------------
At(w, pc) == up /\ wpc[w] = pc
Goto(w, pc) == wpc' = [wpc EXCEPT ![w] = pc]
\* sendPktToChannel / sendError; a full queue drops the packet later on.
Send(w, rs) == replies' = [replies EXCEPT ![w] = @ \o rs]
\* Hand over the last reply and take the next query.
Finish(w, rs) == Send(w, rs) /\ Goto(w, "idle") /\ UNCHANGED <<wq, nq>>

Take(w, q, kinds) ==
    /\ At(w, "idle")
    /\ nq < MaxQueries
    /\ q.q \in kinds
    /\ nq' = nq + 1
    /\ wq' = [wq EXCEPT ![w] = q]

\* ping and find_node: store the sender when its id is well formed.
TakeContact(w, q) ==
    /\ Take(w, q, {"ping", "find_node"})
    /\ replies' = [replies EXCEPT ![w] = <<>>]
    /\ IF q.idForm = "ok"
       THEN Goto(w, "upsert") /\ Stamp(w, q.id, q.addr, None)
       ELSE Goto(w, "answer") /\ UNCHANGED <<clock, pend>>
    /\ UNCHANGED <<nodes, proc>>

StoreContact(w) ==
    /\ At(w, "upsert")
    /\ \/ UpsertNode(w) /\ Goto(w, "answer") /\ UNCHANGED <<clock, proc>>
       \/ UpsertPanics /\ UNCHANGED wpc
    /\ UNCHANGED <<wq, replies, nq>>

\* sendPingResponse and sendFindNodeResponse.  Without a transaction id there is
\* no answer; nor to a find_node with a bad target, or whose read of the bucket
\* fails.
AnswerContact_stuck(w) ==
    /\ At(w, "answer")
    /\ wq[w].t = "ok"
    /\ IF wq[w].q = "ping" THEN Finish(w, <<"r">>)
       ELSE wq[w].hashForm = "ok" /\ Finish(w, <<"near">>)
    /\ UNCHANGED storeVars
AnswerContact(w) ==
    /\ At(w, "answer")
    /\ \/ wq[w].t = "bad" /\ Finish(w, <<>>)
       \/ wq[w].t = "ok" /\ wq[w].q = "ping" /\ Finish(w, <<"r">>)
       \/ /\ wq[w].t = "ok" /\ wq[w].q = "find_node"
          /\ \/ dbOpen /\ wq[w].hashForm = "ok" /\ Finish(w, <<"near">>)
             \/ (wq[w].hashForm # "ok" \/ MayFail) /\ Finish(w, <<>>)
    /\ UNCHANGED storeVars

-----------------------------------------------------------------------------
(* get_peers                                                               *)

\* The arguments.  Looking up an absent entry of a is no error.  An id or
\* info_hash of the wrong length is answered with an error and the handler goes
\* on: the conversion to a 20-byte array then panics when there are fewer than
\* 20 bytes, and cuts when there are more.
TakeGetPeers(w, q) ==
    /\ Take(w, q, {"get_peers"})
    /\ \/ /\ q.t = "bad"
          /\ replies' = [replies EXCEPT ![w] = <<>>]
          /\ UNCHANGED <<wpc, storeVars>>
       \/ /\ q.t = "ok" /\ q.idForm = "no_a"
          /\ replies' = [replies EXCEPT ![w] = <<"e">>]
          /\ UNCHANGED <<wpc, storeVars>>
       \/ /\ q.t = "ok" /\ "short" \in {q.idForm, q.hashForm}
          /\ replies' = [replies EXCEPT ![w] = IF q.idForm = "long" THEN <<"e", "e">> ELSE <<"e">>]
          /\ Panic
          /\ UNCHANGED wpc
       \/ /\ q.t = "ok" /\ {q.idForm, q.hashForm} \subseteq {"ok", "long"}
          /\ replies' = [replies EXCEPT ![w] =
                [i \in 1 .. Cardinality({f \in {"idForm", "hashForm"} : q[f] = "long"}) |-> "e"]]
          /\ Goto(w, "rows")
          /\ UNCHANGED storeVars

\* Read the infohash rows, of which there are none, then look for the token.
GetPeersRows_noReturn(w) ==
    /\ At(w, "rows")
    /\ IF wq[w].tok = None THEN Send(w, <<"e">>) ELSE UNCHANGED replies
    /\ Goto(w, "near")
    /\ UNCHANGED <<wq, nq, storeVars>>
GetPeersRows(w) ==
    /\ At(w, "rows")
    /\ \/ (wq[w].tok = None \/ MayFail) /\ Finish(w, <<"e">>)
       \/ dbOpen /\ wq[w].tok # None /\ Goto(w, "near") /\ UNCHANGED <<wq, replies, nq>>
    /\ UNCHANGED storeVars

\* Reply with the nodes of the sender's bucket.
GetPeersNear(w) ==
    /\ At(w, "near")
    /\ \/ dbOpen /\ Finish(w, <<"near">>)
       \/ MayFail /\ Finish(w, <<"e">>)
    /\ UNCHANGED storeVars

-----------------------------------------------------------------------------
(* announce_peer                                                           *)

\* The arguments of an announcement, as far as they are looked at before it is
\* verified.
WellFormed(q) == q.t = "ok" /\ q.idForm = "ok" /\ q.hashForm = "ok" /\ q.tok # None

TakeAnnounce(w, q) ==
    /\ Take(w, q, {"announce_peer"})
    /\ IF WellFormed(q) THEN Goto(w, "verify") ELSE UNCHANGED wpc
    /\ replies' = [replies EXCEPT ![w] =
                      IF WellFormed(q) \/ q.t = "bad" THEN <<>> ELSE <<"e">>]
    /\ UNCHANGED storeVars

\* verifyTokenAndIp.  GetNode is given the id as a plain array of bytes, which
\* database/sql does not convert: the read fails whatever the table holds, and
\* GetNode takes the first of no rows before anyone looks at the error.
Verify(w) ==
    /\ At(w, "verify")
    /\ Panic
    /\ UNCHANGED workerVars

-----------------------------------------------------------------------------
WorkerTake(w) == \E q \in Queries : \/ TakeContact(w, q)
                                    \/ TakeGetPeers(w, q)
                                    \/ TakeAnnounce(w, q)

WorkerStep(w) == \/ StoreContact(w)
                 \/ AnswerContact(w)
                 \/ GetPeersRows(w)
                 \/ GetPeersNear(w)
                 \/ Verify(w)
=============================================================================
