---------------------------- MODULE PendingTable ----------------------------
(***************************************************************************)
(* The request side of the DHT service: DoSend registers a query in the    *)
(* pending table, hands it to the send queue and waits for the response or *)
(* the timer; the receive loop looks a response up in the table and hands  *)
(* it to the waiting caller through a channel of capacity one.             *)
(*                                                                         *)
(* Goroutines: the Callers of DoSend (the first sweep, which runs in Run,  *)
(* and the sweeps of the ticker goroutine overlap, so there are two), the  *)
(* send loop, the receive loop, and the workers, which appear here only    *)
(* through the places their replies take in the send queue.                *)
(*                                                                         *)
(* The network: a query that was written to the socket may be answered any *)
(* number of times, at any later moment, or never; and a response to a     *)
(* query this process never sent may arrive (one sent before a restart).   *)
(***************************************************************************)
EXTENDS Integers, Sequences

CONSTANTS Callers,  \* goroutines that call DoSend
          MaxReq,   \* bound: the number of DoSend calls
          TxIds,    \* transaction ids (randomTxID(2) draws one of them)
          Addrs,    \* remote UDP addresses
          SendCap,  \* capacity of sendCh
          None      \* nil

Requests == 1 .. MaxReq
Query    == [tx : TxIds, addr : Addrs]
\* A response packet; re is the request it answers, which no code can see.
Packet   == [tx : TxIds, addr : Addrs, re : Requests \cup {None}]
\* A matched packet on its way to the channel of its request.
Matched  == [req : Requests, pkt : Packet]

ASSUME ConstantsAssumption ==
    /\ MaxReq \in Nat
    /\ SendCap \in Nat \ {0}
    /\ None \notin Requests \cup Query \cup Packet \cup Matched

(***************************************************************************)
(* The keys of the table are strings.  Put and Match use the hexadecimal   *)
(* form of the transaction id, Remove its raw bytes: for the two-byte ids  *)
(* in use the first has four characters and the second two.                *)
(***************************************************************************)
HexKey(t) == <<"hex", t>>
RawKey(t) == <<"raw", t>>
Keys      == {"hex", "raw"} \X TxIds

\* A send-queue element: the number of a request, or a reply of the service.
Reply == 0

VARIABLES items,    \* PendingTable.items: key -> request, None when absent
          request,  \* the PendingRequest objects made so far
          nReq,     \* how many there are
          respChan, \* PendingRequest.RespChan: the buffered packet or None
          pc,       \* where each caller is in DoSend
          cur,      \* the request each caller is waiting for
          taken,    \* the packet a caller took out of RespChan
          result,   \* how the DoSend call of each request ended
          sendCh,   \* the send queue
          sent,     \* requests whose query was written to the socket
          rx        \* a packet the receive loop matched and must hand over

vars == <<items, request, nReq, respChan, pc, cur, taken, result, sendCh, sent, rx>>

\* Types, and the bound of the send queue.
TypeOK ==
    /\ items \in [Keys -> Requests \cup {None}]
    /\ request \in [Requests -> Query \cup {None}]
    /\ nReq \in 0 .. MaxReq
    /\ respChan \in [Requests -> Packet \cup {None}]
    /\ pc \in [Callers -> {"idle", "enqueue", "wait"}]
    /\ cur \in [Callers -> Requests \cup {None}]
    /\ taken \in [Requests -> Packet \cup {None}]
    /\ result \in [Requests -> {"open", "answered", "failed"}]
    /\ sendCh \in Seq(Requests \cup {Reply})
    /\ Len(sendCh) <= SendCap
    /\ sent \subseteq Requests
    /\ rx \in Matched \cup {None}

Init ==
    /\ items = [k \in Keys |-> None]
    /\ request = [r \in Requests |-> None]
    /\ nReq = 0
    /\ respChan = [r \in Requests |-> None]
    /\ pc = [c \in Callers |-> "idle"]
    /\ cur = [c \in Callers |-> None]
    /\ taken = [r \in Requests |-> None]
    /\ result = [r \in Requests |-> "open"]
    /\ sendCh = <<>>
    /\ sent = {}
    /\ rx = None

-----------------------------------------------------------------------------
(* The pending table.  Each operation runs under its mutex.                *)

\* PendingTable.Put: a request with the same key is silently replaced.
Put(t, r) == items' = [items EXCEPT ![HexKey(t)] = r]

\* PendingTable.Remove
Remove_hexKey(t) == items' = [items EXCEPT ![HexKey(t)] = None]
Remove(t) == items' = [items EXCEPT ![RawKey(t)] = None]

\* PendingTable.Match: does packet p find a request, from the right address?
Matches_anyAddr(p) == items[HexKey(p.tx)] # None
Matches(p) == /\ items[HexKey(p.tx)] # None
              /\ request[items[HexKey(p.tx)]].addr = p.addr

-----------------------------------------------------------------------------
(* DoSend                                                                  *)

\* Line 34-64: build the PendingRequest and register it.
DoSendPut(c, t, a) ==
    /\ pc[c] = "idle"
    /\ nReq < MaxReq
    /\ nReq' = nReq + 1
    /\ request' = [request EXCEPT ![nReq + 1] = [tx |-> t, addr |-> a]]
    /\ Put(t, nReq + 1)
    /\ cur' = [cur EXCEPT ![c] = nReq + 1]
    /\ pc' = [pc EXCEPT ![c] = "enqueue"]
    /\ UNCHANGED <<respChan, taken, result, sendCh, sent, rx>>

\* Return from DoSend; the deferred Remove runs on every return path.
Return(c, how) ==
    /\ Remove(request[cur[c]].tx)
    /\ result' = [result EXCEPT ![cur[c]] = how]
    /\ cur' = [cur EXCEPT ![c] = None]
    /\ pc' = [pc EXCEPT ![c] = "idle"]

\* Line 68-72, first case.
Enqueue(c) ==
    /\ pc[c] = "enqueue"
    /\ Len(sendCh) < SendCap
    /\ sendCh' = Append(sendCh, cur[c])
    /\ pc' = [pc EXCEPT ![c] = "wait"]
    /\ UNCHANGED <<items, request, nReq, respChan, cur, taken, result, sent, rx>>

\* Line 68-72, default: the queue is full and the query is given up.
EnqueueFull(c) ==
    /\ pc[c] = "enqueue"
    /\ Len(sendCh) >= SendCap
    /\ Return(c, "failed")
    /\ UNCHANGED <<request, nReq, respChan, taken, sendCh, sent, rx>>

\* Line 77-78: take the response and handle it.  (The error packet of line 104 is never
\* sent: GetDictValue fails only for what is no dictionary, and the receive loop has
\* dropped that.)
TakeResponse(c) ==
    /\ pc[c] = "wait"
    /\ respChan[cur[c]] # None
    /\ taken' = [taken EXCEPT ![cur[c]] = respChan[cur[c]]]
    /\ respChan' = [respChan EXCEPT ![cur[c]] = None]
    /\ Return(c, "answered")
    /\ UNCHANGED <<request, nReq, sendCh, sent, rx>>

\* Line 79-81: the timer.  It may win against a response that is there.
Timeout_none(c) == FALSE /\ UNCHANGED vars
Timeout(c) ==
    /\ pc[c] = "wait"
    /\ Return(c, "failed")
    /\ UNCHANGED <<request, nReq, respChan, taken, sendCh, sent, rx>>

-----------------------------------------------------------------------------
(* The other goroutines                                                    *)

\* A non-blocking send on sendCh: the element is dropped when it is full.
Offer_unbounded(e) == Append(sendCh, e)
Offer(e) == IF Len(sendCh) < SendCap THEN Append(sendCh, e) ELSE sendCh

\* A worker's reply takes a place in the send queue, or is dropped.
WorkerReply ==
    /\ sendCh' = Offer(Reply)
    /\ UNCHANGED <<items, request, nReq, respChan, pc, cur, taken, result, sent, rx>>

\* sendLoop: write the head of the queue to the socket.
SendLoop ==
    /\ sendCh # <<>>
    /\ sendCh' = Tail(sendCh)
    /\ sent' = IF Head(sendCh) = Reply THEN sent ELSE sent \cup {Head(sendCh)}
    /\ UNCHANGED <<items, request, nReq, respChan, pc, cur, taken, result, rx>>

\* The responses that may arrive: to any query sent so far, as often as the
\* network likes, and to queries of an earlier incarnation.
Arriving == {[tx |-> request[r].tx, addr |-> request[r].addr, re |-> r] : r \in sent}
            \cup [tx : TxIds, addr : Addrs, re : {None}]

\* receiveLoop with checkReceivePacket, case "r"/"e": Match takes the entry
\* out under the mutex; the channel send is a step of its own.  A packet
\* that finds no request is dropped and changes nothing.
Receive_keep(p) ==
    /\ rx = None
    /\ Matches(p)
    /\ rx' = [req |-> items[HexKey(p.tx)], pkt |-> p]
    /\ UNCHANGED <<items, request, nReq, respChan, pc, cur, taken, result, sendCh, sent>>
Receive(p) ==
    /\ rx = None
    /\ Matches(p)
    /\ rx' = [req |-> items[HexKey(p.tx)], pkt |-> p]
    /\ items' = [items EXCEPT ![HexKey(p.tx)] = None]
    /\ UNCHANGED <<request, nReq, respChan, pc, cur, taken, result, sendCh, sent>>

\* pr.RespChan <- pkt: blocks the whole receive loop while the channel is full.
Deliver ==
    /\ rx # None
    /\ respChan[rx.req] = None
    /\ respChan' = [respChan EXCEPT ![rx.req] = rx.pkt]
    /\ rx' = None
    /\ UNCHANGED <<items, request, nReq, pc, cur, taken, result, sendCh, sent>>

-----------------------------------------------------------------------------
CallerStep(c) == \/ Enqueue(c)
                 \/ EnqueueFull(c)
                 \/ TakeResponse(c)
                 \/ Timeout(c)

Next == \/ \E c \in Callers, t \in TxIds, a \in Addrs : DoSendPut(c, t, a)
        \/ \E c \in Callers : CallerStep(c)
        \/ WorkerReply
        \/ SendLoop
        \/ \E p \in Arriving : Receive(p)
        \/ Deliver

Spec == Init /\ [][Next]_vars

\* The Go scheduler runs every goroutine that can run; the timer of a waiting
\* caller fires.  Nothing obliges the network to deliver anything.
Fairness == /\ \A c \in Callers : WF_vars(CallerStep(c))
            /\ WF_vars(SendLoop)
            /\ WF_vars(Deliver)

FairSpec == Spec /\ Fairness

-----------------------------------------------------------------------------
(* Properties                                                              *)

\* The one goroutine that reads the socket never blocks on a response channel:
\* whatever it matched finds the channel of its request empty.  (The send of
\* checkReceivePacket has no default branch, dht.go:195.)
ReceiverNeverBlocks == rx # None => respChan[rx.req] = None

\* A packet that reached a request came from the address the request was sent
\* to, with its transaction id ("double check" of Match), whatever was replaced
\* in the table in between.
Fits(p, r) == p # None => /\ p.tx = request[r].tx
                          /\ p.addr = request[r].addr
ResponseFitsRequest == /\ \A r \in Requests : Fits(respChan[r], r) /\ Fits(taken[r], r)
                       /\ rx # None => Fits(rx.pkt, rx.req)

\* A caller that has had no response stays findable: its request is in the
\* table unless a later request drew the same transaction id.  In particular
\* the deferred Remove of one call never unregisters another.
Unanswered(c) == /\ cur[c] # None
                 /\ respChan[cur[c]] = None
                 /\ ~ (rx # None /\ rx.req = cur[c])
WaiterRegistered ==
    \A c \in Callers : Unanswered(c) =>
        \/ items[HexKey(request[cur[c]].tx)] = cur[c]
        \/ \E q \in Requests : /\ q > cur[c]
                               /\ request[q] # None
                               /\ request[q].tx = request[cur[c]].tx

\* Every DoSend call returns, so a sweep always gets to its next bucket.
DoSendReturns == \A c \in Callers : pc[c] # "idle" ~> pc[c] = "idle"

\* The comment on the deferred Remove (handler_Response.go:65, "delete the
\* corresponding entry"): once DoSend returned its request is not in the table.
RemovedOnReturn == \A k \in Keys : items[k] # None => \E c \in Callers : cur[c] = items[k]

-----------------------------------------------------------------------------
(* The abstract specification this module implements.                      *)

AcceptedBar == [r \in Requests |->
                  IF rx # None /\ rx.req = r THEN rx.pkt
                  ELSE IF respChan[r] # None THEN respChan[r]
                  ELSE taken[r]]

Promise == INSTANCE RequestReply WITH asked <- request, accepted <- AcceptedBar

\* Every DoSend step and every receive-loop step is a step of RequestReply: a
\* query is answered at most once, by the address it was sent to, even when
\* responses are duplicated, late, or meet a replaced table entry.
ImplementsRequestReply == Promise!AbsSpec
=============================================================================
