--------------------------- MODULE PacketPipeline ---------------------------
(***************************************************************************)
(* The way of a datagram through the DHT service, and what its bytes are   *)
(* when they are read.  receiveLoop reads every datagram into one buffer   *)
(* and decodes it there: the strings of a packet are slices of the buffer, *)
(* not copies.  Workers read them later, and the reply they queue still    *)
(* holds the slice of the transaction id when sendLoop encodes it.         *)
(*                                                                         *)
(* The buffer is cut into the cells that the messages tell apart, for node *)
(* ids of 20 bytes and transaction ids of two: bytes 0-31, 32-46, 47-55,   *)
(* 56-91, 92-94 and 95-128.  A cell holds the number of the datagram that  *)
(* wrote it last.  What the handlers do to the tables is in QueryWorkers.  *)
(***************************************************************************)
EXTENDS Integers, Sequences

CONSTANTS Workers,    \* goroutines running handleReceivePktLoop
          RecvCap,    \* capacity of recvCh, 2048 in the code
          SendCap,    \* capacity of sendCh, 2048 in the code
          Arriving,   \* bound: the kinds the first, second, ... datagram may be of
          None        \* bytes that are not the value of that field of any datagram

\* A "get_peers" brings no token; both arguments of "get_peers_long" have 37
\* bytes, those of "get_peers_short" one and two.  "no_t" is a query without a
\* transaction id; "junk" cannot be decoded, or fills the buffer and is skipped
\* for that.
WrongLengths == {"get_peers_long", "get_peers_short"}
GetPeers == {"get_peers"} \cup WrongLengths
Queries == {"ping", "find_node", "announce_peer"} \cup GetPeers
Kinds == Queries \cup {"response", "no_t", "junk"}
Cells == 1 .. 6

ASSUME PipelineAssumption ==
    /\ RecvCap \in Nat /\ SendCap \in Nat
    /\ Arriving \in Seq(SUBSET Kinds)
    /\ None \notin Int

MaxDgrams == Len(Arriving)

\* The last cell a datagram fills.
End(kind) == CASE kind = "no_t"                                      -> 1
               [] kind = "response"                                  -> 2
               [] kind \in {"ping", "get_peers_short"}               -> 3
               [] kind = "find_node"                                 -> 4
               [] kind = "get_peers"                                 -> 5
               [] kind \in {"get_peers_long", "announce_peer", "junk"} -> 6
Written(kind) == 1 .. End(kind)

\* The cell a field of a query lies in: t and y are its last entries.
Where(kind, f) == CASE f = "id"                                      -> 1
                    [] f = "q" /\ kind \in {"ping", "get_peers_short"} -> 2
                    [] f \in {"q", "t"} /\ kind = "get_peers"        -> 4
                    [] OTHER                                         -> End(kind)

\* Datagrams of the other kind have field f at the same bytes as those of kind.
SamePlace(kind, other, f) ==
    CASE f = "id" -> other \in {"ping", "find_node", "get_peers", "announce_peer", "response"}
      [] f = "q"  -> other = kind
      [] f \in {"t", "y"} -> other \in Queries /\ End(other) = End(kind)

VARIABLES dgram,   \* kinds of the datagrams that arrived; a datagram is its number
          buf,     \* the receive buffer
          rpc,     \* receiveLoop: "wait", "read" or "check"
          left,    \* cells the read has still to write
          recvCh,  \* queue of packets, each the number of its datagram
          wpc,     \* where each worker is
          job,     \* the packet each worker handles
          sendCh,  \* queue of replies: <<n, part>>, to datagram n
          stored,  \* history: <<n, k>>: handling n, the id of k was stored for n's address
          sent,    \* history: <<reply, k>>: sent with the transaction id of k
          up       \* FALSE once a goroutine has panicked

receiveVars == <<dgram, buf, rpc, left>>
workerVars  == <<wpc, job>>
vars == <<receiveVars, recvCh, workerVars, sendCh, stored, sent, up>>

Dgrams == 1 .. Len(dgram)

\* What a reply is: the error for an argument of the wrong length, or the last
\* that the handler of the datagram sends.
Part  == {"id", "info_hash", "answer"}
Replies == Dgrams \X Part

TypeOK ==
    /\ dgram \in Seq(Kinds) /\ Len(dgram) <= MaxDgrams
    /\ buf \in [Cells -> 0 .. Len(dgram)]
    /\ rpc \in {"wait", "read", "check"}
    /\ left \subseteq Cells
    /\ recvCh \in Seq(Dgrams) /\ Len(recvCh) <= RecvCap
    /\ wpc \in [Workers -> {"idle", "y", "q", "id", "target", "peer_id", "info_hash", "announce",
                         "reply"}]
    /\ job \in [Workers -> 0 .. Len(dgram)]
    /\ sendCh \in Seq(Replies) /\ Len(sendCh) <= SendCap
    /\ stored \subseteq Dgrams \X (Dgrams \cup {None})
    /\ sent \in Seq(Replies \X (Dgrams \cup {None}))
    /\ up \in BOOLEAN

Init == /\ dgram = <<>>
        /\ buf = [c \in Cells |-> 0]
        /\ rpc = "wait" /\ left = {}
        /\ recvCh = <<>> /\ sendCh = <<>>
        /\ wpc = [w \in Workers |-> "idle"]
        /\ job = [w \in Workers |-> 0]
        /\ stored = {} /\ sent = <<>>
        /\ up = TRUE

\* The bytes of field f of packet n, as they are now: the field of the datagram
\* that filled its cell, when that datagram has the field there too.
Bytes(n, f) ==
    LET k == buf[Where(dgram[n], f)] IN
    IF k \in Dgrams /\ SamePlace(dgram[n], dgram[k], f) THEN k ELSE None

-----------------------------------------------------------------------------
(* receiveLoop                                                             *)

\* ReadFromUDP starts to copy the next datagram into the buffer.
Arrive(kind) ==
    /\ up
    /\ rpc = "wait"
    /\ Len(dgram) < MaxDgrams
    /\ kind \in Arriving[Len(dgram) + 1]
    /\ dgram' = Append(dgram, kind)
    /\ left' = Written(kind)
    /\ rpc' = "read"
    /\ UNCHANGED <<buf, recvCh, workerVars, sendCh, stored, sent, up>>

\* The copy goes on, in any order, while workers read.
Copy(c) ==
    /\ up
    /\ rpc = "read"
    /\ c \in left
    /\ buf' = [buf EXCEPT ![c] = Len(dgram)]
    /\ left' = left \ {c}
    /\ rpc' = IF left = {c} THEN "check" ELSE "read"
    /\ UNCHANGED <<dgram, recvCh, workerVars, sendCh, stored, sent, up>>

\* Decode, checkReceivePacket and the non-blocking send to recvCh.  Without a
\* transaction id the check dereferences nil; responses go to DoSend instead.
Check_early ==
    /\ up
    /\ rpc \in {"read", "check"}
    /\ rpc' = "wait"
    /\ IF dgram[Len(dgram)] \in Queries /\ Len(recvCh) < RecvCap
       THEN recvCh' = Append(recvCh, Len(dgram))
       ELSE UNCHANGED recvCh
    /\ left' = {}
    /\ UNCHANGED <<dgram, buf, workerVars, sendCh, stored, sent, up>>
Check_noDefault ==
    /\ up
    /\ rpc = "check"
    /\ rpc' = "wait"
    /\ IF dgram[Len(dgram)] \in Queries
       THEN recvCh' = Append(recvCh, Len(dgram))
       ELSE UNCHANGED recvCh
    /\ UNCHANGED <<dgram, buf, left, workerVars, sendCh, stored, sent, up>>
Check ==
    LET kind == dgram[Len(dgram)] IN
    /\ up
    /\ rpc = "check"
    /\ rpc' = "wait"
    /\ up' = (kind # "no_t")
    /\ recvCh' = IF kind \in Queries /\ Len(recvCh) < RecvCap
                 THEN Append(recvCh, Len(dgram)) ELSE recvCh
    /\ UNCHANGED <<dgram, buf, left, workerVars, sendCh, stored, sent>>

-----------------------------------------------------------------------------
(* The workers                                                             *)

At(w, pc) == up /\ wpc[w] = pc
Goto(w, pc) == wpc' = [wpc EXCEPT ![w] = pc]

Take_peek(w) ==
    /\ At(w, "idle")
    /\ recvCh # <<>>
    /\ job' = [job EXCEPT ![w] = Head(recvCh)]
    /\ recvCh' = IF \E v \in Workers : wpc[v] = "y" THEN Tail(recvCh) ELSE recvCh
    /\ Goto(w, "y")
    /\ UNCHANGED <<receiveVars, sendCh, stored, sent, up>>
Take(w) ==
    /\ At(w, "idle")
    /\ recvCh # <<>>
    /\ job' = [job EXCEPT ![w] = Head(recvCh)]
    /\ recvCh' = Tail(recvCh)
    /\ Goto(w, "y")
    /\ UNCHANGED <<receiveVars, sendCh, stored, sent, up>>

\* The type of the message: bytes of something else are no query.
ReadY_return(w) ==
    /\ At(w, "y")
    /\ Bytes(job[w], "y") # None
    /\ Goto(w, "q")
    /\ UNCHANGED <<receiveVars, recvCh, job, sendCh, stored, sent, up>>
ReadY(w) ==
    /\ At(w, "y")
    /\ Goto(w, IF Bytes(job[w], "y") = None THEN "idle" ELSE "q")
    /\ UNCHANGED <<receiveVars, recvCh, job, sendCh, stored, sent, up>>

\* Its method: an unknown one is ignored.
Handler(kind) == CASE kind \in {"ping", "find_node"} -> "id"
                   [] kind = "announce_peer"         -> "announce"
                   [] OTHER                          -> "peer_id"
ReadQ(w) ==
    /\ At(w, "q")
    /\ Goto(w, IF Bytes(job[w], "q") = None THEN "idle" ELSE Handler(dgram[job[w]]))
    /\ UNCHANGED <<receiveVars, recvCh, job, sendCh, stored, sent, up>>

\* upsertQueryDhtNode: the id is copied, and stored with the sender's address.
ReadId(w) ==
    /\ At(w, "id")
    /\ stored' = stored \cup {<<job[w], Bytes(job[w], "id")>>}
    /\ Goto(w, IF dgram[job[w]] = "find_node" THEN "target" ELSE "reply")
    /\ UNCHANGED <<receiveVars, recvCh, job, sendCh, sent, up>>

\* sendFindNodeResponse: whatever the target, some bucket is read; when that
\* fails there is no reply.
ReadTarget(w) ==
    /\ At(w, "target")
    /\ Goto(w, "reply") \/ Goto(w, "idle")
    /\ UNCHANGED <<receiveVars, recvCh, job, sendCh, stored, sent, up>>

\* sendPktToChannel: non-blocking; the reply refers to the bytes of t.
Offer(w, part) ==
    sendCh' = IF Len(sendCh) < SendCap THEN Append(sendCh, <<job[w], part>>) ELSE sendCh

\* handleGetPeers: the error for an id of the wrong length does not end the
\* handler.
PeerId(w) ==
    /\ At(w, "peer_id")
    /\ IF dgram[job[w]] = "get_peers" THEN UNCHANGED sendCh ELSE Offer(w, "id")
    /\ Goto(w, "info_hash")
    /\ UNCHANGED <<receiveVars, recvCh, job, stored, sent, up>>
\* The conversion of a short id panics; then comes the other argument.
InfoHash(w) ==
    /\ At(w, "info_hash")
    /\ CASE dgram[job[w]] = "get_peers_short" -> up' = FALSE /\ UNCHANGED <<wpc, sendCh>>
         [] dgram[job[w]] = "get_peers_long"  -> Offer(w, "info_hash") /\ Goto(w, "reply") /\ UNCHANGED up
         [] dgram[job[w]] = "get_peers"       -> Goto(w, "reply") /\ UNCHANGED <<sendCh, up>>
    /\ UNCHANGED <<receiveVars, recvCh, job, stored, sent>>

\* handleAnnouncePeer: an error for a token that is no string; otherwise
\* verifyTokenAndIp, which never returns (QueryWorkers).
Announce(w) ==
    /\ At(w, "announce")
    /\ \/ Goto(w, "reply") /\ UNCHANGED up
       \/ up' = FALSE /\ UNCHANGED wpc
    /\ UNCHANGED <<receiveVars, recvCh, job, sendCh, stored, sent>>

\* The last reply of a handler: a response, or an error.
Reply(w) ==
    /\ At(w, "reply")
    /\ Offer(w, "answer")
    /\ Goto(w, "idle")
    /\ UNCHANGED <<receiveVars, recvCh, job, stored, sent, up>>

\* sendLoop: the reply is encoded now.
SendLoop ==
    /\ up
    /\ sendCh # <<>>
    /\ sent' = Append(sent, <<Head(sendCh), Bytes(Head(sendCh)[1], "t")>>)
    /\ sendCh' = Tail(sendCh)
    /\ UNCHANGED <<receiveVars, recvCh, workerVars, stored, up>>

-----------------------------------------------------------------------------
WorkerStep(w) == \/ Take(w)
                 \/ ReadY(w)
                 \/ ReadQ(w)
                 \/ ReadId(w)
                 \/ ReadTarget(w)
                 \/ PeerId(w)
                 \/ InfoHash(w)
                 \/ Announce(w)
                 \/ Reply(w)

Next == \/ \E kind \in Kinds : Arrive(kind)
        \/ \E c \in Cells : Copy(c)
        \/ Check
        \/ \E w \in Workers : WorkerStep(w)
        \/ SendLoop

Spec == Init /\ [][Next]_vars

\* Every goroutine that can run does; no datagram has to arrive.
Fairness == /\ WF_vars(\E c \in Cells : Copy(c))
            /\ WF_vars(Check)
            /\ \A w \in Workers : WF_vars(WorkerStep(w))
            /\ WF_vars(SendLoop)
FairSpec == Spec /\ Fairness

-----------------------------------------------------------------------------
(* Properties                                                              *)

\* A datagram gets at most one answer, whatever the workers do to each other's
\* packets.  Only a query is answered, and only a get_peers with arguments of the
\* wrong length gets more than that: one error for each of them.
OneAnswer ==
    /\ \A i, j \in DOMAIN sent : sent[i][1] = sent[j][1] => i = j
    /\ \A i \in DOMAIN sent :
          LET n == sent[i][1][1] IN
          /\ dgram[n] \in Queries
          /\ sent[i][1][2] # "answer" => dgram[n] \in WrongLengths

\* What is read out of the shared buffer is never older than the packet it is
\* read for: the id that is stored and the transaction id that is sent are the
\* packet's own, or belong to a datagram that arrived after it.
NeverOlder ==
    /\ \A s \in stored : s[2] # None => s[2] >= s[1]
    /\ \A i \in DOMAIN sent : sent[i][2] # None => sent[i][2] >= sent[i][1][1]

\* The parts of the inductive invariant the proofs rest on.  Where the read of
\* the datagram that arrived last is:
Reading ==
    /\ rpc = "wait" => left = {}
    /\ rpc # "wait" => Len(dgram) > 0 /\ left \subseteq Written(dgram[Len(dgram)])
    /\ rpc # "wait" => \A c \in Written(dgram[Len(dgram)]) \ left : buf[c] = Len(dgram)
    /\ rpc = "check" => left = {}

\* A packet that can still be read was decoded from a query, and the cells it
\* was decoded from have only been overwritten by later datagrams since.
Intact(n) == /\ dgram[n] \in Queries
             /\ \A c \in Written(dgram[n]) : buf[c] >= n
\* An error for an argument answers a get_peers.
Fits(r) == r[2] # "answer" => dgram[r[1]] \in WrongLengths
AllIntact ==
    /\ \A i \in DOMAIN recvCh : Intact(recvCh[i])
    /\ \A i \in DOMAIN sendCh : Intact(sendCh[i][1]) /\ Fits(sendCh[i])
    /\ \A w \in Workers : wpc[w] # "idle" => job[w] > 0 /\ Intact(job[w])
    /\ \A w \in Workers : wpc[w] \in {"peer_id", "info_hash"} => dgram[job[w]] \in GetPeers

\* A packet is in one place only: in recvCh, which is in the order of arrival, or
\* at one worker.  Each part of a reply to it is in sendCh or on the wire once,
\* and was sent earlier in the handler than where the handler is.
Busy(w) == wpc[w] # "idle"
Answered == {sendCh[i] : i \in DOMAIN sendCh} \cup {sent[i][1] : i \in DOMAIN sent}
Earlier(part, pc) == \/ part = "id" /\ pc \in {"info_hash", "reply"}
                     \/ part = "info_hash" /\ pc = "reply"
OnePlace ==
    /\ \A i, j \in DOMAIN recvCh : i < j => recvCh[i] < recvCh[j]
    /\ rpc # "wait" => \A i \in DOMAIN recvCh : recvCh[i] < Len(dgram)
    /\ rpc # "wait" => \A w \in Workers : job[w] < Len(dgram)
    /\ \A i \in DOMAIN recvCh : \A w \in Workers : job[w] < recvCh[i]
    /\ \A v, w \in Workers : v # w /\ job[v] = job[w] => job[v] = 0
    /\ \A i, j \in DOMAIN sendCh : sendCh[i] = sendCh[j] => i = j
    /\ \A i \in DOMAIN sendCh : \A j \in DOMAIN sent : sendCh[i] # sent[j][1]
    /\ \A r \in Answered :
          /\ rpc # "wait" => r[1] < Len(dgram)
          /\ \A i \in DOMAIN recvCh : recvCh[i] # r[1]
          /\ \A w \in Workers : Busy(w) /\ job[w] = r[1] => Earlier(r[2], wpc[w])

IInv == /\ TypeOK /\ Reading /\ AllIntact /\ OnePlace /\ OneAnswer /\ NeverOlder

\* A packet or a reply does not stay in a queue or a handler for ever.
InFlight(n) ==
    \/ \E i \in DOMAIN recvCh : recvCh[i] = n
    \/ \E i \in DOMAIN sendCh : sendCh[i][1] = n
    \/ \E w \in Workers : wpc[w] # "idle" /\ job[w] = n
Handled == \A n \in 1 .. MaxDgrams : InFlight(n) ~> ~ InFlight(n) \/ ~ up

\* "t": "the original txid" (Handler_Request.go:59): a reply carries the
\* transaction id of the query it answers.
OriginalTxid == \A i \in DOMAIN sent : sent[i][2] = sent[i][1][1]
=============================================================================
