------------------------- MODULE PendingTableProofs -------------------------
(***************************************************************************)
(* Proofs about PendingTable for every number of callers, requests,        *)
(* transaction ids and addresses, and every capacity of the send queue.    *)
(***************************************************************************)
EXTENDS PendingTable, SequenceTheorems, TLAPS

USE DEF Requests, Keys, HexKey, RawKey

-----------------------------------------------------------------------------
(* The inductive invariant.                                                *)

\* Requests exist exactly up to the counter, and nothing is known of the rest.
Allocated ==
    /\ \A r \in Requests : request[r] # None <=> r <= nReq
    /\ \A r \in Requests : r > nReq => /\ respChan[r] = None
                                       /\ taken[r] = None
                                       /\ result[r] = "open"
    /\ \A k \in Keys : items[k] # None => items[k] <= nReq
    /\ \A c \in Callers : cur[c] # None => cur[c] <= nReq
    /\ rx # None => rx.req <= nReq

\* Only queries that were made are queued or written to the socket.
QueueAllocated ==
    /\ \A i \in 1 .. Len(sendCh) : sendCh[i] <= nReq
    /\ \A r \in sent : r <= nReq

\* An entry sits under the hexadecimal form of its own transaction id.
KeyOfEntry ==
    \A k \in Keys : items[k] # None => k = HexKey(request[items[k]].tx)

\* A packet for a request is in one place at most, and while the request is
\* in the table there is none.
OnePlace ==
    /\ \A k \in Keys : items[k] # None => /\ respChan[items[k]] = None
                                          /\ taken[items[k]] = None
                                          /\ rx # None => rx.req # items[k]
    /\ rx # None => respChan[rx.req] = None /\ taken[rx.req] = None
    /\ \A r \in Requests : respChan[r] # None => taken[r] = None

\* A caller inside DoSend has a request of its own, which is still open.
OwnRequest ==
    /\ \A c \in Callers : pc[c] = "idle" <=> cur[c] = None
    /\ \A c \in Callers : cur[c] # None => result[cur[c]] = "open"
    /\ \A c, d \in Callers : cur[c] # None /\ cur[c] = cur[d] => c = d

IInv == /\ TypeOK
        /\ Allocated
        /\ QueueAllocated
        /\ KeyOfEntry
        /\ OnePlace
        /\ OwnRequest
        /\ ResponseFitsRequest
        /\ WaiterRegistered

-----------------------------------------------------------------------------
(* Type correctness.                                                       *)

\* Whatever may arrive has the shape of a response packet: only queries that
\* were really made are answered.
LEMMA ArrivingIsPacket ==
    ASSUME TypeOK, Allocated, QueueAllocated, NEW p \in Arriving
    PROVE  p \in Packet
<1> USE ConstantsAssumption DEF TypeOK, Query, Packet, Matched
<1>1. \A r \in sent : request[r] \in Query
  BY DEF Allocated, QueueAllocated
<1>2. CASE p \in [tx : TxIds, addr : Addrs, re : {None}]
  BY <1>2
<1>3. CASE \E r \in sent : p = [tx |-> request[r].tx, addr |-> request[r].addr, re |-> r]
  BY <1>1, <1>3
<1> QED
  BY <1>2, <1>3 DEF Arriving

\* Every step keeps every variable in its type and the send queue within its
\* capacity.
LEMMA TypeStep == TypeOK /\ OwnRequest /\ Allocated /\ QueueAllocated /\ [Next]_vars => TypeOK'
<1> SUFFICES ASSUME TypeOK, OwnRequest, Allocated, QueueAllocated, [Next]_vars
             PROVE  TypeOK'
  OBVIOUS
<1> USE ConstantsAssumption DEF TypeOK, Query, Packet, Matched, Reply
<1>1. ASSUME NEW c \in Callers, NEW t \in TxIds, NEW a \in Addrs, DoSendPut(c, t, a)
      PROVE  TypeOK'
  <2>1. nReq + 1 \in Requests
    BY <1>1 DEF DoSendPut
  <2> QED
    BY <1>1, <2>1 DEF DoSendPut, Put
<1>2. ASSUME NEW c \in Callers, Enqueue(c)
      PROVE  TypeOK'
  <2>1. cur[c] \in Requests
    BY <1>2 DEF Enqueue, OwnRequest
  <2>2. sendCh' \in Seq(Requests \cup {Reply}) /\ Len(sendCh') <= SendCap
    BY <1>2, <2>1 DEF Enqueue
  <2> QED
    BY <1>2, <2>2 DEF Enqueue
<1>3. ASSUME NEW c \in Callers, EnqueueFull(c)
      PROVE  TypeOK'
  BY <1>3 DEF EnqueueFull, Return, Remove, OwnRequest, Allocated
<1>4. ASSUME NEW c \in Callers, TakeResponse(c)
      PROVE  TypeOK'
  <2>1. cur[c] \in Requests
    BY <1>4 DEF TakeResponse, OwnRequest
  <2>2. sendCh' \in Seq(Requests \cup {Reply}) /\ Len(sendCh') <= SendCap
    BY <1>4 DEF TakeResponse
  <2> QED
    BY <1>4, <2>1, <2>2 DEF TakeResponse, Return, Remove
<1>5. ASSUME NEW c \in Callers, Timeout(c)
      PROVE  TypeOK'
  BY <1>5 DEF Timeout, Return, Remove, OwnRequest
<1>6. CASE WorkerReply
  <2>1. sendCh' \in Seq(Requests \cup {Reply}) /\ Len(sendCh') <= SendCap
    BY <1>6 DEF WorkerReply, Offer
  <2> QED
    BY <1>6, <2>1 DEF WorkerReply
<1>7. CASE SendLoop
  <2>1. /\ Head(sendCh) \in Requests \cup {Reply}
        /\ Tail(sendCh) \in Seq(Requests \cup {Reply})
        /\ Len(Tail(sendCh)) <= SendCap
    BY <1>7, HeadTailProperties DEF SendLoop
  <2> QED
    BY <1>7, <2>1 DEF SendLoop
<1>8. ASSUME NEW p \in Arriving, Receive(p)
      PROVE  TypeOK'
  <2>1. p \in Packet
    BY ArrivingIsPacket
  <2> QED
    BY <1>8, <2>1 DEF Receive, Matches
<1>9. CASE Deliver
  BY <1>9 DEF Deliver
<1>10. CASE UNCHANGED vars
  BY <1>10 DEF vars
<1> HIDE DEF TypeOK, Query, Packet, Matched
<1> QED
  BY <1>1, <1>2, <1>3, <1>4, <1>5, <1>6, <1>7, <1>8, <1>9, <1>10 DEF Next, CallerStep

-----------------------------------------------------------------------------
(* The parts of the inductive invariant, one lemma per part.               *)

\* Nothing refers to a request that was never made.
LEMMA AllocatedStep == IInv /\ TypeOK' /\ [Next]_vars => Allocated'
<1> SUFFICES ASSUME IInv, TypeOK', [Next]_vars
             PROVE  Allocated'
  OBVIOUS
<1> USE ConstantsAssumption DEF TypeOK, Query, Packet, Matched, IInv, Allocated, OwnRequest
<1>1. ASSUME NEW c \in Callers, NEW t \in TxIds, NEW a \in Addrs, DoSendPut(c, t, a)
      PROVE  Allocated'
  <2>1. /\ nReq + 1 \in Requests
        /\ [tx |-> t, addr |-> a] # None
    BY <1>1 DEF DoSendPut
  <2>2. \A r \in Requests : request'[r] # None <=> r <= nReq'
    BY <1>1, <2>1 DEF DoSendPut
  <2>3. \A k \in Keys : items'[k] # None => items'[k] <= nReq'
    BY <1>1, <2>1 DEF DoSendPut, Put
  <2>4. \A d \in Callers : cur'[d] # None => cur'[d] <= nReq'
    BY <1>1, <2>1 DEF DoSendPut
  <2> QED
    BY <1>1, <2>1, <2>2, <2>3, <2>4 DEF DoSendPut
<1>2. ASSUME NEW c \in Callers, Return(c, "failed"), UNCHANGED <<request, nReq, respChan, taken, rx>>,
             cur[c] # None
      PROVE  Allocated'
  <2>1. cur[c] \in Requests /\ cur[c] <= nReq
    BY <1>2
  <2>2. \A k \in Keys : items'[k] # None => items'[k] <= nReq'
    BY <1>2 DEF Return, Remove
  <2>3. \A d \in Callers : cur'[d] # None => cur'[d] <= nReq'
    BY <1>2 DEF Return
  <2>4. \A r \in Requests : r > nReq' => result'[r] = "open"
    BY <1>2, <2>1 DEF Return
  <2>5. /\ \A r \in Requests : request'[r] # None <=> r <= nReq'
        /\ \A r \in Requests : r > nReq' => respChan'[r] = None /\ taken'[r] = None
        /\ rx' # None => rx'.req <= nReq'
    BY <1>2
  <2> HIDE DEF IInv, TypeOK
  <2> QED
    BY <2>2, <2>3, <2>4, <2>5
<1>3. ASSUME NEW c \in Callers, TakeResponse(c)
      PROVE  Allocated'
  BY <1>3 DEF TakeResponse, Return, Remove
<1>4. ASSUME NEW p \in Arriving, Receive(p)
      PROVE  Allocated'
  BY <1>4, ArrivingIsPacket DEF Receive, Matches
<1>5. CASE Deliver
  BY <1>5 DEF Deliver
<1>6. CASE UNCHANGED <<items, request, nReq, respChan, cur, taken, result, rx>>
  BY <1>6
<1>7. ASSUME NEW c \in Callers, EnqueueFull(c) \/ Timeout(c)
      PROVE  Allocated'
  <2>1. cur[c] # None
    BY <1>7 DEF EnqueueFull, Timeout
  <2> QED
    BY <1>2, <1>7, <2>1 DEF EnqueueFull, Timeout
<1> HIDE DEF TypeOK, IInv, Allocated, OwnRequest
<1> QED
  BY <1>1, <1>3, <1>4, <1>5, <1>6, <1>7
     DEF Next, CallerStep, Enqueue, WorkerReply, SendLoop, vars

\* The send queue and the set of written queries only ever hold made requests.
LEMMA QueueAllocatedStep == IInv /\ [Next]_vars => QueueAllocated'
<1> SUFFICES ASSUME IInv, [Next]_vars
             PROVE  QueueAllocated'
  OBVIOUS
<1> USE ConstantsAssumption DEF TypeOK, IInv, QueueAllocated, Reply
<1>1. ASSUME NEW e \in Requests \cup {Reply}, e <= nReq, sendCh' = Append(sendCh, e),
             UNCHANGED <<nReq, sent>>
      PROVE  QueueAllocated'
  BY <1>1
<1>2. CASE SendLoop
  <2>1. /\ Len(Tail(sendCh)) = Len(sendCh) - 1
        /\ \A i \in 1 .. Len(sendCh) - 1 : Tail(sendCh)[i] = sendCh[i + 1]
        /\ Head(sendCh) = sendCh[1]
        /\ Len(sendCh) >= 1
    BY <1>2, HeadTailProperties DEF SendLoop
  <2>2. \A i \in 1 .. Len(sendCh') : sendCh'[i] <= nReq'
    BY <1>2, <2>1 DEF SendLoop
  <2>3. \A r \in sent' : r <= nReq'
    BY <1>2, <2>1 DEF SendLoop
  <2> QED
    BY <2>2, <2>3
<1>3. CASE UNCHANGED <<sendCh, nReq, sent>>
  BY <1>3
<1>4. ASSUME NEW c \in Callers, NEW t \in TxIds, NEW a \in Addrs, DoSendPut(c, t, a)
      PROVE  QueueAllocated'
  <2>1. \A i \in 1 .. Len(sendCh) : sendCh[i] \in Int
    OBVIOUS
  <2> QED
    BY <1>4, <2>1 DEF DoSendPut
<1>5. ASSUME NEW c \in Callers, Enqueue(c)
      PROVE  QueueAllocated'
  <2>1. cur[c] \in Requests /\ cur[c] <= nReq
    BY <1>5 DEF Enqueue, OwnRequest, Allocated
  <2> QED
    BY <1>1, <1>5, <2>1 DEF Enqueue
<1>6. ASSUME NEW c \in Callers, TakeResponse(c)
      PROVE  QueueAllocated'
  BY <1>1, <1>3, <1>6 DEF TakeResponse
<1>7. CASE WorkerReply
  BY <1>1, <1>3, <1>7 DEF WorkerReply, Offer
<1> HIDE DEF TypeOK, IInv, QueueAllocated
<1> QED
  BY <1>2, <1>3, <1>4, <1>5, <1>6, <1>7
     DEF Next, CallerStep, EnqueueFull, Timeout, Receive, Deliver, vars

\* Put is the only operation that adds an entry; Remove and Match only take out.
LEMMA KeyOfEntryStep == IInv /\ [Next]_vars => KeyOfEntry'
<1> SUFFICES ASSUME IInv, [Next]_vars
             PROVE  KeyOfEntry'
  OBVIOUS
<1> USE ConstantsAssumption DEF TypeOK, IInv, Allocated, KeyOfEntry
<1>1. ASSUME NEW c \in Callers, NEW t \in TxIds, NEW a \in Addrs, DoSendPut(c, t, a)
      PROVE  KeyOfEntry'
  BY <1>1 DEF DoSendPut, Put
<1>2. ASSUME NEW c \in Callers, Return(c, "failed") \/ Return(c, "answered"), UNCHANGED request
      PROVE  KeyOfEntry'
  BY <1>2, ZenonT(60) DEF Return, Remove
<1>3. ASSUME NEW p \in Arriving, Receive(p)
      PROVE  KeyOfEntry'
  BY <1>3, ArrivingIsPacket DEF Receive, Matches, Packet
<1>4. CASE UNCHANGED <<items, request>>
  BY <1>4
<1> HIDE DEF TypeOK, IInv, Allocated, KeyOfEntry
<1> QED
  BY <1>1, <1>2, <1>3, <1>4
     DEF Next, CallerStep, Enqueue, EnqueueFull, TakeResponse, Timeout, WorkerReply,
         SendLoop, Deliver, vars

\* A packet is in one place: Match takes the entry out before the packet goes
\* to the channel, and a new entry is for a new request.
LEMMA OnePlaceStep == IInv /\ [Next]_vars => OnePlace'
<1> SUFFICES ASSUME IInv, [Next]_vars
             PROVE  OnePlace'
  OBVIOUS
<1> USE ConstantsAssumption DEF TypeOK, IInv, Allocated, OnePlace
<1>1. ASSUME NEW c \in Callers, NEW t \in TxIds, NEW a \in Addrs, DoSendPut(c, t, a)
      PROVE  OnePlace'
  BY <1>1 DEF DoSendPut, Put
<1>2. ASSUME NEW c \in Callers, Return(c, "failed"), UNCHANGED <<request, respChan, taken, rx>>
      PROVE  OnePlace'
  BY <1>2 DEF Return, Remove
<1>3. ASSUME NEW c \in Callers, TakeResponse(c)
      PROVE  OnePlace'
  BY <1>3 DEF TakeResponse, Return, Remove, OwnRequest
<1>4. ASSUME NEW p \in Arriving, Receive(p)
      PROVE  OnePlace'
  <2>1. p \in Packet
    BY ArrivingIsPacket
  <2>2. HexKey(p.tx) \in Keys /\ items[HexKey(p.tx)] # None
    BY <1>4, <2>1 DEF Receive, Matches, Packet
  <2>3. ASSUME NEW k \in Keys, items[k] = items[HexKey(p.tx)]
        PROVE  k = HexKey(p.tx)
    <3>1. k = HexKey(request[items[k]].tx)
      BY <2>2, <2>3 DEF KeyOfEntry
    <3>2. HexKey(p.tx) = HexKey(request[items[HexKey(p.tx)]].tx)
      BY <2>2 DEF KeyOfEntry
    <3> QED
      BY <2>3, <3>1, <3>2
  <2> QED
    BY <1>4, <2>1, <2>2, <2>3 DEF Receive
<1>5. CASE Deliver
  BY <1>5 DEF Deliver
<1>6. CASE UNCHANGED <<items, respChan, taken, rx>>
  BY <1>6
<1> HIDE DEF TypeOK, IInv, Allocated, OnePlace
<1> QED
  BY <1>1, <1>2, <1>3, <1>4, <1>5, <1>6
     DEF Next, CallerStep, Enqueue, EnqueueFull, Timeout, WorkerReply, SendLoop, vars

\* Two callers never wait for the same request.
LEMMA OwnRequestStep == IInv /\ [Next]_vars => OwnRequest'
<1> SUFFICES ASSUME IInv, [Next]_vars
             PROVE  OwnRequest'
  OBVIOUS
<1> USE ConstantsAssumption DEF TypeOK, IInv, Allocated, OwnRequest
<1>1. ASSUME NEW c \in Callers, NEW t \in TxIds, NEW a \in Addrs, DoSendPut(c, t, a)
      PROVE  OwnRequest'
  BY <1>1 DEF DoSendPut
<1>2. ASSUME NEW c \in Callers, NEW how \in {"failed", "answered"}, Return(c, how), cur[c] # None
      PROVE  OwnRequest'
  BY <1>2 DEF Return
<1>3. ASSUME NEW c \in Callers, Enqueue(c)
      PROVE  OwnRequest'
  BY <1>3 DEF Enqueue
<1>4. CASE UNCHANGED <<pc, cur, result>>
  BY <1>4
<1>5. ASSUME NEW c \in Callers,
             EnqueueFull(c) \/ Timeout(c) \/ TakeResponse(c)
      PROVE  OwnRequest'
  <2>1. cur[c] # None
    BY <1>5 DEF EnqueueFull, Timeout, TakeResponse
  <2> QED
    BY <1>2, <1>5, <2>1 DEF EnqueueFull, Timeout, TakeResponse
<1> HIDE DEF TypeOK, IInv, Allocated, OwnRequest
<1> QED
  BY <1>1, <1>3, <1>4, <1>5 DEF Next, CallerStep, WorkerReply, SendLoop, Receive, Deliver, vars

\* A matched packet fits its request, and stays with it.
LEMMA ResponseFitsStep == IInv /\ [Next]_vars => ResponseFitsRequest'
<1> SUFFICES ASSUME IInv, [Next]_vars
             PROVE  ResponseFitsRequest'
  OBVIOUS
<1> USE ConstantsAssumption DEF TypeOK, IInv, Matched, ResponseFitsRequest, Fits
<1>1. ASSUME NEW c \in Callers, NEW t \in TxIds, NEW a \in Addrs, DoSendPut(c, t, a)
      PROVE  ResponseFitsRequest'
  BY <1>1 DEF DoSendPut, Allocated
<1>2. ASSUME NEW c \in Callers, TakeResponse(c)
      PROVE  ResponseFitsRequest'
  BY <1>2 DEF TakeResponse, Return
<1>3. ASSUME NEW p \in Arriving, Receive(p)
      PROVE  ResponseFitsRequest'
  <2>1. p \in Packet
    BY ArrivingIsPacket
  <2>2. request[items[HexKey(p.tx)]].tx = p.tx
    BY <1>3, <2>1 DEF KeyOfEntry, Receive, Matches, Packet
  <2> QED
    BY <1>3, <2>1, <2>2 DEF Receive, Matches
<1>4. CASE Deliver
  BY <1>4 DEF Deliver
<1>5. CASE UNCHANGED <<request, respChan, taken, rx>>
  BY <1>5
<1> HIDE DEF TypeOK, IInv, Matched, ResponseFitsRequest, Fits
<1> QED
  BY <1>1, <1>2, <1>3, <1>4, <1>5
     DEF Next, CallerStep, Enqueue, EnqueueFull, Timeout, Return, WorkerReply, SendLoop, vars

\* A waiting caller's entry leaves the table only with a packet for it, or for
\* a later request with the same transaction id.
LEMMA WaiterRegisteredStep == IInv /\ TypeOK' /\ [Next]_vars => WaiterRegistered'
<1> SUFFICES ASSUME IInv, TypeOK', [Next]_vars
             PROVE  WaiterRegistered'
  OBVIOUS
<1> DEFINE Held(d) == items[HexKey(request[cur[d]].tx)] = cur[d]
           Redrawn(d) == \E q \in Requests : /\ q > cur[d]
                                             /\ request[q] # None
                                             /\ request[q].tx = request[cur[d]].tx
<1> SUFFICES ASSUME NEW d \in Callers, Unanswered(d)'
             PROVE  Held(d)' \/ Redrawn(d)'
  BY DEF WaiterRegistered
<1> TypeOK
  BY DEF IInv
<1> USE ConstantsAssumption DEF TypeOK, Query, Packet, Matched
<1>0. /\ cur[d] # None => cur[d] \in Requests /\ request[cur[d]] \in Query
      /\ Unanswered(d) => Held(d) \/ Redrawn(d)
  BY DEF IInv, Allocated, WaiterRegistered
<1>1. ASSUME NEW c \in Callers, NEW t \in TxIds, NEW a \in Addrs, DoSendPut(c, t, a)
      PROVE  Held(d)' \/ Redrawn(d)'
  <2>1. /\ nReq + 1 \in Requests
        /\ request' = [request EXCEPT ![nReq + 1] = [tx |-> t, addr |-> a]]
        /\ items' = [items EXCEPT ![HexKey(t)] = nReq + 1]
    BY <1>1 DEF DoSendPut, Put
  <2>2. CASE d = c
    BY <1>1, <2>1, <2>2 DEF DoSendPut
  <2>3. CASE d # c
    <3>1. cur'[d] = cur[d] /\ Unanswered(d)
      BY <1>1, <2>3 DEF DoSendPut, Unanswered
    <3>2. cur[d] \in Requests /\ cur[d] <= nReq /\ request'[cur[d]] = request[cur[d]]
      BY <2>1, <3>1, <1>0 DEF Unanswered, IInv, Allocated
    <3>3. CASE request[cur[d]].tx = t
      <4>1. /\ nReq + 1 > cur[d]
            /\ request'[nReq + 1] # None
            /\ request'[nReq + 1].tx = t
        BY <2>1, <3>2
      <4> QED
        BY <2>1, <3>1, <3>2, <3>3, <4>1
    <3>4. CASE request[cur[d]].tx # t
      <4>1. Held(d) => Held(d)'
        <5>1. request'[cur'[d]].tx = request[cur[d]].tx /\ request[cur[d]].tx \in TxIds
          BY <1>0, <3>1, <3>2 DEF Unanswered
        <5>2. items'[HexKey(request[cur[d]].tx)] = items[HexKey(request[cur[d]].tx)]
          BY <2>1, <3>4, <5>1
        <5> QED
          BY <3>1, <5>1, <5>2
      <4>2. \A q \in Requests : request[q] # None => request'[q] = request[q]
        BY <2>1 DEF IInv, Allocated
      <4>3. Redrawn(d) => Redrawn(d)'
        BY <3>1, <3>2, <4>2
      <4> QED
        BY <1>0, <3>1, <4>1, <4>3
    <3> QED
      BY <3>3, <3>4
  <2> QED
    BY <2>2, <2>3
<1>2. ASSUME NEW c \in Callers, Return(c, "failed"), UNCHANGED <<request, respChan, rx>>
      PROVE  Held(d)' \/ Redrawn(d)'
  <2>1. cur'[d] = cur[d] /\ Unanswered(d)
    BY <1>2 DEF Return, Unanswered
  <2> QED
    BY <1>0, <1>2, <2>1 DEF Return, Remove, Unanswered
<1>3. ASSUME NEW c \in Callers, TakeResponse(c)
      PROVE  Held(d)' \/ Redrawn(d)'
  <2>1. d # c /\ cur'[d] = cur[d]
    BY <1>3 DEF TakeResponse, Return, Unanswered
  <2>2. cur[d] # cur[c]
    BY <1>3, <2>1 DEF TakeResponse, Unanswered, IInv, OwnRequest
  <2>3. Unanswered(d)
    BY <1>3, <2>1, <2>2 DEF TakeResponse, Unanswered
  <2>4. /\ request' = request
        /\ cur[c] \in Requests
        /\ items' = [items EXCEPT ![RawKey(request[cur[c]].tx)] = None]
    BY <1>3 DEF TakeResponse, Return, Remove, IInv, OwnRequest
  <2> QED
    BY <1>0, <2>1, <2>3, <2>4 DEF Unanswered
<1>4. ASSUME NEW p \in Arriving, Receive(p)
      PROVE  Held(d)' \/ Redrawn(d)'
  <2>1. cur' = cur /\ request' = request /\ Unanswered(d)
    BY <1>4 DEF Receive, Unanswered
  <2>2. /\ p.tx \in TxIds
        /\ items[HexKey(p.tx)] \in Requests
        /\ rx' = [req |-> items[HexKey(p.tx)], pkt |-> p]
        /\ items' = [items EXCEPT ![HexKey(p.tx)] = None]
    BY <1>4, ArrivingIsPacket DEF Receive, Matches, IInv
  <2>3. items[HexKey(p.tx)] # cur[d]
    BY <2>1, <2>2, ArrivingIsPacket DEF Unanswered, IInv
  <2>4. Held(d) => Held(d)'
    BY <1>0, <2>1, <2>2, <2>3 DEF Unanswered
  <2> QED
    BY <1>0, <2>1, <2>4
<1>5. CASE Deliver
  <2>1. UNCHANGED <<items, request, cur>> /\ Unanswered(d)
    BY <1>5 DEF Deliver, Unanswered
  <2> QED
    BY <1>0, <2>1
<1>6. CASE UNCHANGED <<items, request, respChan, cur, rx>>
  BY <1>0, <1>6 DEF Unanswered
<1> HIDE DEF TypeOK, Held, Redrawn
<1> QED
  BY <1>1, <1>2, <1>3, <1>4, <1>5, <1>6
     DEF Next, CallerStep, Enqueue, EnqueueFull, Timeout, WorkerReply, SendLoop, vars

-----------------------------------------------------------------------------
(* The theorems.                                                           *)

\* The inductive invariant holds in every behaviour of the specification.
THEOREM InductiveInvariant == Spec => []IInv
<1>1. Init => IInv
  BY ConstantsAssumption
     DEF Init, IInv, TypeOK, Allocated, QueueAllocated, KeyOfEntry, OnePlace, OwnRequest,
         ResponseFitsRequest, Fits, WaiterRegistered, Unanswered
<1>2. IInv /\ [Next]_vars => IInv'
  <2> SUFFICES ASSUME IInv, [Next]_vars
               PROVE  IInv'
    OBVIOUS
  <2>1. TypeOK'
    BY TypeStep DEF IInv
  <2> QED
    BY <2>1, AllocatedStep, QueueAllocatedStep, KeyOfEntryStep, OnePlaceStep, OwnRequestStep,
       ResponseFitsStep, WaiterRegisteredStep DEF IInv
<1> QED
  BY <1>1, <1>2, PTL DEF Spec

\* Every variable keeps its type, and the send queue its bound (dht.go:67-68).
THEOREM TypeCorrect == Spec => []TypeOK
<1>1. IInv => TypeOK
  BY DEF IInv
<1> QED
  BY <1>1, InductiveInvariant, PTL

\* The receive loop never blocks on a response channel (dht.go:195), because
\* Match takes the entry out of the table under the mutex.
THEOREM ReceiverFree == Spec => []ReceiverNeverBlocks
<1>1. IInv => ReceiverNeverBlocks
  BY DEF IInv, OnePlace, ReceiverNeverBlocks
<1> QED
  BY <1>1, InductiveInvariant, PTL

\* A response reaches only a request sent to its source address with its
\* transaction id (helpers.go:91-95).
THEOREM ResponseFits == Spec => []ResponseFitsRequest
<1>1. IInv => ResponseFitsRequest
  BY DEF IInv
<1> QED
  BY <1>1, InductiveInvariant, PTL

\* A waiting caller can be found until its response came or its transaction
\* id was drawn again (helpers.go:62-77).
THEOREM WaiterFound == Spec => []WaiterRegistered
<1>1. IInv => WaiterRegistered
  BY DEF IInv
<1> QED
  BY <1>1, InductiveInvariant, PTL

-----------------------------------------------------------------------------
(* Refinement of RequestReply.                                             *)

\* Every step is, seen through the refinement mapping, a step of RequestReply
\* or a stutter.
LEMMA StepRefines == IInv /\ IInv' /\ [Next]_vars => [Promise!AbsNext]_(Promise!absVars)
<1> SUFFICES ASSUME IInv, IInv', [Next]_vars
             PROVE  [Promise!AbsNext]_(Promise!absVars)
  OBVIOUS
<1> USE ConstantsAssumption DEF Promise!absVars, Promise!Requests, Promise!Query, Promise!Packet
<1> DEFINE AbsStep == Promise!AbsNext \/ UNCHANGED <<request, AcceptedBar, result>>
<1>1. ASSUME NEW c \in Callers, NEW t \in TxIds, NEW a \in Addrs, DoSendPut(c, t, a)
      PROVE  AbsStep
  <2>1. /\ nReq + 1 \in Requests
        /\ [tx |-> t, addr |-> a] \in Query
    BY <1>1 DEF DoSendPut, IInv, TypeOK, Query
  <2>2. Promise!Ask(nReq + 1, [tx |-> t, addr |-> a])
    BY <1>1, <2>1 DEF DoSendPut, Promise!Ask, IInv, Allocated, TypeOK, AcceptedBar
  <2> QED
    BY <2>1, <2>2 DEF Promise!AbsNext, Query
<1>2. ASSUME NEW c \in Callers, Return(c, "failed"), cur[c] # None,
             UNCHANGED <<request, respChan, taken, rx>>
      PROVE  AbsStep
  <2>1. cur[c] \in Requests /\ request[cur[c]] # None /\ result[cur[c]] = "open"
    BY <1>2 DEF IInv, TypeOK, Allocated, OwnRequest
  <2>2. Promise!CloseFailed(cur[c])
    BY <1>2, <2>1 DEF Return, Promise!CloseFailed, AcceptedBar
  <2> QED
    BY <2>1, <2>2 DEF Promise!AbsNext
<1>3. ASSUME NEW c \in Callers, TakeResponse(c)
      PROVE  AbsStep
  <2>1. /\ cur[c] \in Requests
        /\ result[cur[c]] = "open"
        /\ rx # None => rx.req # cur[c]
        /\ \A r \in Requests : respChan[r] # None => taken[r] = None
    BY <1>3 DEF TakeResponse, IInv, TypeOK, OwnRequest, OnePlace
  <2>2. AcceptedBar[cur[c]] # None
    BY <1>3, <2>1 DEF TakeResponse, AcceptedBar
  <2>3. AcceptedBar' = AcceptedBar
    BY <1>3, <2>1 DEF TakeResponse, AcceptedBar, IInv, TypeOK
  <2>4. Promise!CloseAnswered(cur[c])
    BY <1>3, <2>1, <2>2, <2>3 DEF TakeResponse, Return, Promise!CloseAnswered
  <2> QED
    BY <2>1, <2>4 DEF Promise!AbsNext
<1>4. ASSUME NEW p \in Arriving, Receive(p)
      PROVE  AbsStep
  <2> DEFINE r == items[HexKey(p.tx)]
  <2>1. p \in Packet
    BY ArrivingIsPacket DEF IInv
  <2>2. /\ r \in Requests
        /\ request[r] # None
        /\ respChan[r] = None
        /\ taken[r] = None
        /\ p.tx = request[r].tx
        /\ p.addr = request[r].addr
    BY <1>4, <2>1 DEF Receive, Matches, Packet, IInv, TypeOK, Allocated, KeyOfEntry, OnePlace
  <2>3. rx' = [req |-> r, pkt |-> p] /\ rx' # None /\ rx = None
    BY <1>4, <2>1, <2>2 DEF Receive, Matched
  <2> HIDE DEF r
  <2>4. AcceptedBar[r] = None
    BY <2>2, <2>3 DEF AcceptedBar
  <2>5. UNCHANGED <<respChan, taken>>
    BY <1>4 DEF Receive
  <2>6. \A q \in Requests : AcceptedBar'[q] = IF q = r THEN p ELSE AcceptedBar[q]
    BY <2>2, <2>3, <2>5 DEF AcceptedBar
  <2>7. AcceptedBar' = [AcceptedBar EXCEPT ![r] = p]
    BY <2>2, <2>6 DEF AcceptedBar
  <2>8. Promise!Accept(r, p)
    BY <1>4, <2>2, <2>4, <2>7 DEF Receive, Promise!Accept
  <2> QED
    BY <2>1, <2>2, <2>8 DEF Promise!AbsNext, Packet
<1>5. CASE Deliver
  <2>1. AcceptedBar' = AcceptedBar
    BY <1>5 DEF Deliver, AcceptedBar, IInv, TypeOK, Matched, OnePlace
  <2> QED
    BY <1>5, <2>1 DEF Deliver
<1>6. CASE UNCHANGED <<request, respChan, taken, result, rx>>
  BY <1>6 DEF AcceptedBar
<1>7. ASSUME NEW c \in Callers, EnqueueFull(c) \/ Timeout(c)
      PROVE  AbsStep
  <2>1. cur[c] # None
    BY <1>7 DEF EnqueueFull, Timeout, IInv, OwnRequest
  <2> QED
    BY <1>2, <1>7, <2>1 DEF EnqueueFull, Timeout
<1>8. AbsStep
  <2> HIDE DEF AbsStep
  <2> QED
    BY <1>1, <1>3, <1>4, <1>5, <1>6, <1>7
       DEF Next, CallerStep, Enqueue, WorkerReply, SendLoop, vars, AbsStep
<1> QED
  BY <1>8

\* DoSend, the pending table and the receive loop together implement
\* RequestReply: at most one packet is accepted for a request, from the right
\* address, and a caller reports an answer only for an accepted packet.
THEOREM Refinement == Spec => ImplementsRequestReply
<1>1. Init => Promise!AbsInit
  BY DEF Init, Promise!AbsInit, AcceptedBar, Promise!Requests
<1>2. IInv /\ IInv' /\ [Next]_vars => [Promise!AbsNext]_(Promise!absVars)
  BY StepRefines
<1> QED
  BY <1>1, <1>2, InductiveInvariant, PTL DEF Spec, ImplementsRequestReply, Promise!AbsSpec
=============================================================================
