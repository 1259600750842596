------------------------ MODULE PacketPipelineProofs ------------------------
(***************************************************************************)
(* Theorems about PacketPipeline, for any number of workers, datagrams and *)
(* queue capacities: what is read out of the shared receive buffer is never*)
(* older than the packet it is read for, and a datagram gets at most one   *)
(* answer, and at most one error for each argument of a get_peers.         *)
(***************************************************************************)
EXTENDS PacketPipeline, SequenceTheorems, TLAPS

(***************************************************************************)
(* What is left of a queue when its head is taken.                         *)
(***************************************************************************)
LEMMA TailElements ==
    ASSUME NEW S, NEW s \in Seq(S), s # <<>>
    PROVE  /\ \A i \in DOMAIN Tail(s) : i \in Nat /\ i + 1 \in DOMAIN s /\ Tail(s)[i] = s[i + 1]
           /\ 1 \in DOMAIN s /\ Head(s) = s[1] /\ Head(s) \in S
<1>1. /\ Tail(s) \in Seq(S) /\ Len(Tail(s)) = Len(s) - 1
      /\ \A i \in 1 .. Len(Tail(s)) : Tail(s)[i] = s[i + 1]
    BY HeadTailProperties
<1>2. DOMAIN s = 1 .. Len(s) /\ DOMAIN Tail(s) = 1 .. Len(Tail(s)) /\ Len(s) \in Nat
    BY <1>1
<1>3. Len(s) > 0
    BY EmptySeq
<1> QED
    BY <1>1, <1>2, <1>3

(***************************************************************************)
(* The elements of a queue to which one is added.                          *)
(***************************************************************************)
LEMMA AppendElements ==
    ASSUME NEW S, NEW s \in Seq(S), NEW e
    PROVE  /\ DOMAIN Append(s, e) = 1 .. Len(s) + 1
           /\ DOMAIN s = 1 .. Len(s) /\ Len(s) \in Nat
           /\ \A i \in DOMAIN s : Append(s, e)[i] = s[i]
           /\ Append(s, e)[Len(s) + 1] = e
           /\ \A i \in DOMAIN Append(s, e) : \/ i \in DOMAIN s /\ Append(s, e)[i] = s[i]
                                            \/ Append(s, e)[i] = e
<1> DEFINE T == S \cup {e}
<1>1. s \in Seq(T) /\ e \in T
    OBVIOUS
<1> HIDE DEF T
<1> QED
    BY <1>1, AppendProperties

(***************************************************************************)
(* The fields of a query lie in a cell the query fills.                    *)
(***************************************************************************)
LEMMA FieldsWritten ==
    ASSUME NEW kind \in Queries, NEW f \in {"id", "q", "t", "y"}
    PROVE  Where(kind, f) \in Written(kind) /\ Written(kind) \subseteq Cells
<1>1. ASSUME kind \in {"ping", "get_peers_short"}
      PROVE  Where(kind, f) \in Written(kind) /\ Written(kind) \subseteq Cells
    BY <1>1 DEF Where, End, Written, Cells
<1>2. ASSUME kind = "find_node"
      PROVE  Where(kind, f) \in Written(kind) /\ Written(kind) \subseteq Cells
    BY <1>2 DEF Where, End, Written, Cells
<1>3. ASSUME kind = "get_peers"
      PROVE  Where(kind, f) \in Written(kind) /\ Written(kind) \subseteq Cells
    BY <1>3 DEF Where, End, Written, Cells
<1>4. ASSUME kind \in {"get_peers_long", "announce_peer"}
      PROVE  Where(kind, f) \in Written(kind) /\ Written(kind) \subseteq Cells
    <2>1. End(kind) = 6
        BY <1>4 DEF End
    <2>2. Where(kind, f) \in {1, End(kind)}
        BY <1>4 DEF Where
    <2> QED
        BY <2>1, <2>2 DEF Written, Cells
<1> QED
    BY <1>1, <1>2, <1>3, <1>4 DEF Queries, GetPeers, WrongLengths

(***************************************************************************)
(* Every datagram fills some of the cells.                                 *)
(***************************************************************************)
LEMMA WrittenCells ==
    ASSUME NEW kind \in Kinds
    PROVE  Written(kind) \subseteq Cells /\ Written(kind) # {}
<1>1. End(kind) \in 1 .. 6
    BY DEF Kinds, Queries, GetPeers, WrongLengths, End
<1> QED
    BY <1>1 DEF Written, Cells

(***************************************************************************)
(* Reading an intact packet yields its own bytes, those of a later         *)
(* datagram, or bytes of no such field.                                    *)
(***************************************************************************)
LEMMA BytesFresh ==
    ASSUME TypeOK, NEW n \in Dgrams, Intact(n), NEW f \in {"id", "q", "t", "y"}
    PROVE  /\ Bytes(n, f) \in Dgrams \cup {None}
           /\ Bytes(n, f) # None => Bytes(n, f) >= n
<1> DEFINE k == buf[Where(dgram[n], f)]
<1>1. k >= n
    BY FieldsWritten DEF Intact
<1>2. Bytes(n, f) \in {k, None} /\ (Bytes(n, f) # None => Bytes(n, f) = k /\ k \in Dgrams)
    BY DEF Bytes
<1> QED
    BY <1>1, <1>2

(***************************************************************************)
(* What a busy worker handles is a packet.                                 *)
(***************************************************************************)
LEMMA JobIsPacket ==
    ASSUME TypeOK, AllIntact, NEW w \in Workers, Busy(w)
    PROVE  job[w] \in Dgrams /\ Intact(job[w])
<1>1. job[w] > 0 /\ Intact(job[w])
    BY DEF AllIntact, Busy
<1>2. job[w] \in 0 .. Len(dgram)
    BY DEF TypeOK
<1> QED
    BY <1>1, <1>2 DEF Dgrams

(***************************************************************************)
(* A worker queues a part of its reply and goes on.                        *)
(***************************************************************************)
Adds(w, part) ==
    /\ Len(sendCh) < SendCap
    /\ sendCh' = Append(sendCh, <<job[w], part>>)
    /\ part = "id" => wpc[w] = "peer_id" /\ wpc'[w] = "info_hash"
    /\ part = "info_hash" => wpc[w] = "info_hash" /\ wpc'[w] = "reply"
    /\ part = "answer" => wpc[w] = "reply" /\ wpc'[w] = "idle"
    /\ part # "answer" => dgram[job[w]] \in WrongLengths

Steps == {"idle", "y", "q", "id", "target", "peer_id", "info_hash", "announce", "reply"}

(***************************************************************************)
(* What a worker with a packet does: it never goes back in its handler.    *)
(***************************************************************************)
Handles(w) ==
    /\ Busy(w)
    /\ UNCHANGED <<receiveVars, recvCh, job, sent>>
    /\ wpc' = [wpc EXCEPT ![w] = wpc'[w]]
    /\ wpc'[w] \in Steps /\ up' \in BOOLEAN
    /\ UNCHANGED sendCh \/ \E part \in Part : Adds(w, part)
    /\ \A part \in Part : Earlier(part, wpc[w]) /\ wpc'[w] # "idle" => Earlier(part, wpc'[w])
    /\ wpc'[w] \in {"peer_id", "info_hash"} => dgram[job[w]] \in GetPeers

LEMMA WorkerHandles ==
    ASSUME TypeOK, AllIntact, NEW w \in Workers, WorkerStep(w), ~ Take(w)
    PROVE  Handles(w)
<1> USE DEF At, Busy, Steps
<1>1. wpc = [wpc EXCEPT ![w] = wpc[w]] /\ w \in DOMAIN wpc /\ up \in BOOLEAN
    BY DEF TypeOK
<1>2. ASSUME NEW pc \in Steps, Goto(w, pc)
      PROVE  wpc' = [wpc EXCEPT ![w] = wpc'[w]] /\ wpc'[w] = pc
    BY <1>1, <1>2 DEF Goto
<1>3. \A part \in Part : ~ Earlier(part, "y") /\ ~ Earlier(part, "q") /\ ~ Earlier(part, "id")
                         /\ ~ Earlier(part, "target") /\ ~ Earlier(part, "announce") /\ ~ Earlier(part, "peer_id")
    BY DEF Part, Earlier
<1>4. CASE ReadY(w)
    <2>1. PICK pc \in {"idle", "q"} : Goto(w, pc)
        BY <1>4 DEF ReadY
    <2> QED
        BY <1>1, <1>2, <1>3, <1>4, <2>1 DEF ReadY, Handles
<1>5. CASE ReadQ(w)
    <2>1. job[w] \in Dgrams /\ dgram[job[w]] \in Queries
        BY <1>5, JobIsPacket DEF ReadQ, Intact
    <2>2. PICK pc \in {"idle", Handler(dgram[job[w]])} : Goto(w, pc)
        BY <1>5 DEF ReadQ
    <2>3. pc \in {"idle", "id", "announce", "peer_id"} /\ (pc = "peer_id" => dgram[job[w]] \in GetPeers)
        BY <2>1, <2>2 DEF Handler, Queries, GetPeers, WrongLengths
    <2> QED
        BY <1>1, <1>2, <1>3, <1>5, <2>2, <2>3 DEF ReadQ, Handles
<1>6. CASE ReadId(w) \/ ReadTarget(w)
    <2>1. PICK pc \in {"target", "reply", "idle"} : Goto(w, pc)
        BY <1>6 DEF ReadId, ReadTarget
    <2> QED
        BY <1>1, <1>2, <1>3, <1>6, <2>1 DEF ReadId, ReadTarget, Handles
<1>7. CASE PeerId(w)
    <2>1. Goto(w, "info_hash") /\ dgram[job[w]] \in GetPeers /\ wpc[w] = "peer_id"
        BY <1>7 DEF PeerId, AllIntact
    <2>2. UNCHANGED sendCh \/ Adds(w, "id")
        BY <1>2, <1>7, <2>1 DEF PeerId, Offer, Adds, GetPeers
    <2> QED
        BY <1>1, <1>2, <1>3, <1>7, <2>1, <2>2 DEF PeerId, Handles, Part
<1>8. CASE InfoHash(w)
    <2>1. dgram[job[w]] \in GetPeers /\ wpc[w] = "info_hash"
        BY <1>8 DEF InfoHash, AllIntact
    <2>2. CASE dgram[job[w]] = "get_peers_short"
        BY <1>1, <1>8, <2>1, <2>2 DEF InfoHash, Handles
    <2>3. CASE dgram[job[w]] # "get_peers_short"
        <3>1. Goto(w, "reply") /\ UNCHANGED up
            BY <1>8, <2>1, <2>3 DEF InfoHash, GetPeers, WrongLengths
        <3>2. UNCHANGED sendCh \/ Adds(w, "info_hash")
            BY <1>2, <1>8, <2>1, <2>3, <3>1 DEF InfoHash, GetPeers, WrongLengths, Offer, Adds
        <3>3. \A part \in Part : Earlier(part, "info_hash") => Earlier(part, "reply")
            BY DEF Earlier
        <3> QED
            BY <1>1, <1>2, <1>8, <2>1, <3>1, <3>2, <3>3 DEF InfoHash, Handles, Part
    <2> QED
        BY <2>2, <2>3
<1>9. CASE Announce(w)
    <2>1. CASE Goto(w, "reply") /\ UNCHANGED up
        BY <1>1, <1>2, <1>3, <1>9, <2>1 DEF Announce, Handles
    <2>2. CASE up' = FALSE /\ UNCHANGED wpc
        BY <1>1, <1>3, <1>9, <2>2 DEF Announce, Handles
    <2> QED
        BY <1>9, <2>1, <2>2 DEF Announce
<1>10. CASE Reply(w)
    <2>1. UNCHANGED sendCh \/ Adds(w, "answer")
        BY <1>2, <1>10 DEF Reply, Offer, Adds
    <2> QED
        BY <1>1, <1>2, <1>10, <2>1 DEF Reply, Handles, Part
<1> QED
    BY <1>4, <1>5, <1>6, <1>7, <1>8, <1>9, <1>10 DEF WorkerStep

-----------------------------------------------------------------------------
(***************************************************************************)
(* Every step keeps the types.                                             *)
(***************************************************************************)
LEMMA TypeStep ==
    ASSUME IInv, [Next]_vars
    PROVE  TypeOK'
<1> USE PipelineAssumption
<1>0. TypeOK /\ Reading /\ AllIntact
    BY DEF IInv
<1>1. ASSUME NEW kind \in Kinds, Arrive(kind)
      PROVE  TypeOK'
    <2>1. Written(kind) \subseteq Cells
        BY WrittenCells
    <2>2. dgram' \in Seq(Kinds) /\ Len(dgram') = Len(dgram) + 1 /\ Len(dgram) \in Nat
        BY <1>0, <1>1 DEF Arrive, TypeOK
    <2>3. Dgrams \subseteq Dgrams'
        BY <2>2 DEF Dgrams
    <2>4. 0 .. Len(dgram) \subseteq 0 .. Len(dgram')
        BY <2>2
    <2>5. recvCh \in Seq(Dgrams') /\ sendCh \in Seq(Replies')
        <3>1. Replies \subseteq Replies'
            BY <2>3 DEF Replies
        <3> QED
            BY <1>0, <2>3, <3>1 DEF TypeOK
    <2>6. stored \subseteq Dgrams' \X (Dgrams' \cup {None})
        BY <1>0, <2>3 DEF TypeOK
    <2>7. sent \in Seq(Replies' \X (Dgrams' \cup {None}))
        <3>1. Replies \X (Dgrams \cup {None}) \subseteq Replies' \X (Dgrams' \cup {None})
            BY <2>3 DEF Replies
        <3> QED
            BY <1>0, <3>1 DEF TypeOK
    <2>8. /\ UNCHANGED <<buf, recvCh, wpc, job, sendCh, stored, sent, up>>
          /\ rpc' = "read" /\ left' = Written(kind) /\ Len(dgram) < MaxDgrams
        BY <1>1 DEF Arrive, workerVars
    <2>9. buf \in [Cells -> 0 .. Len(dgram')] /\ job \in [Workers -> 0 .. Len(dgram')]
        BY <1>0, <2>4 DEF TypeOK
    <2>10. Len(dgram') <= MaxDgrams
        BY <2>2, <2>8 DEF MaxDgrams
    <2> QED
        BY <1>0, <2>1, <2>2, <2>5, <2>6, <2>7, <2>8, <2>9, <2>10 DEF TypeOK
<1>2. ASSUME NEW c \in Cells, Copy(c)
      PROVE  TypeOK'
    BY <1>0, <1>2 DEF Copy, TypeOK, workerVars, Replies, Dgrams
<1>3. CASE Check
    <2>1. Len(dgram) \in Dgrams
        BY <1>0, <1>3 DEF Check, Reading, TypeOK, Dgrams
    <2>2. recvCh' \in Seq(Dgrams) /\ Len(recvCh') <= RecvCap
        BY <1>0, <1>3, <2>1 DEF Check, TypeOK
    <2>3. up' \in BOOLEAN
        BY <1>3 DEF Check
    <2> QED
        BY <1>0, <1>3, <2>2, <2>3 DEF Check, TypeOK, workerVars, Replies, Dgrams
<1>4. ASSUME NEW w \in Workers, WorkerStep(w)
      PROVE  TypeOK'
    <2>1. CASE Take(w)
        BY <1>0, <2>1, SMTT(60) DEF Take, At, Goto, TypeOK, receiveVars, Replies, Dgrams
    <2>2. CASE ~ Take(w)
        <3>1. Handles(w) /\ job[w] \in Dgrams /\ Intact(job[w])
            BY <1>0, <1>4, <2>2, WorkerHandles, JobIsPacket DEF Handles
        <3>2. stored' \subseteq Dgrams \X (Dgrams \cup {None})
            <4>1. CASE ReadId(w)
                <5>1. Bytes(job[w], "id") \in Dgrams \cup {None}
                    BY <1>0, <3>1, BytesFresh
                <5> QED
                    BY <1>0, <3>1, <4>1, <5>1 DEF ReadId, TypeOK
            <4>2. CASE UNCHANGED stored
                BY <1>0, <4>2 DEF TypeOK
            <4> QED
                BY <1>4, <2>2, <4>1, <4>2 DEF WorkerStep, ReadY, ReadQ, ReadTarget, PeerId, InfoHash, Announce, Reply
        <3>3. sendCh' \in Seq(Replies) /\ Len(sendCh') <= SendCap
            <4>1. CASE UNCHANGED sendCh
                BY <1>0, <4>1 DEF TypeOK
            <4>2. ASSUME NEW part \in Part, Adds(w, part)
                  PROVE  sendCh' \in Seq(Replies) /\ Len(sendCh') <= SendCap
                <5>1. <<job[w], part>> \in Replies
                    BY <3>1 DEF Replies
                <5> QED
                    BY <1>0, <4>2, <5>1 DEF Adds, TypeOK
            <4> QED
                BY <3>1, <4>1, <4>2 DEF Handles
        <3>4. wpc' \in [Workers -> Steps]
            BY <1>0, <3>1 DEF Handles, TypeOK, Steps
        <3> QED
            BY <1>0, <3>1, <3>2, <3>3, <3>4 DEF Handles, Steps, TypeOK, receiveVars, Replies, Dgrams
    <2> QED
        BY <2>1, <2>2
<1>5. CASE SendLoop
    <2> DEFINE r == Head(sendCh)
    <2>1. r \in Replies /\ r[1] \in Dgrams /\ Intact(r[1])
        BY <1>0, <1>5 DEF SendLoop, AllIntact, TypeOK, Replies
    <2>2. Bytes(r[1], "t") \in Dgrams \cup {None}
        BY <1>0, <2>1, BytesFresh
    <2>3. sent' \in Seq(Replies \X (Dgrams \cup {None}))
        <3>1. <<r, Bytes(r[1], "t")>> \in Replies \X (Dgrams \cup {None})
            BY <2>1, <2>2
        <3>2. sent' = Append(sent, <<r, Bytes(r[1], "t")>>)
            BY <1>5 DEF SendLoop
        <3> QED
            BY <1>0, <3>1, <3>2, AppendProperties DEF TypeOK
    <2>4. sendCh' \in Seq(Replies) /\ Len(sendCh') <= SendCap
        BY <1>0, <1>5 DEF SendLoop, TypeOK
    <2> QED
        BY <1>0, <1>5, <2>3, <2>4 DEF SendLoop, TypeOK, receiveVars, workerVars, Replies, Dgrams
<1>6. CASE UNCHANGED vars
    BY <1>0, <1>6 DEF vars, receiveVars, workerVars, TypeOK, Replies, Dgrams
<1> QED
    BY <1>1, <1>2, <1>3, <1>4, <1>5, <1>6 DEF Next

(***************************************************************************)
(* The read in progress: Arrive starts it, Copy advances it, Check ends it.*)
(***************************************************************************)
LEMMA ReadingStep ==
    ASSUME IInv, [Next]_vars
    PROVE  Reading'
<1>0. TypeOK /\ Reading
    BY DEF IInv
<1>1. ASSUME NEW kind \in Kinds, Arrive(kind)
      PROVE  Reading'
    <2>1. /\ dgram' = Append(dgram, kind) /\ rpc' = "read"
          /\ left' = Written(kind)
        BY <1>1 DEF Arrive
    <2>2. Len(dgram') > 0 /\ dgram'[Len(dgram')] = kind
        BY <1>0, <2>1 DEF TypeOK
    <2> QED
        BY <2>1, <2>2 DEF Reading
<1>2. ASSUME NEW c \in Cells, Copy(c)
      PROVE  Reading'
    <2> DEFINE W == Written(dgram[Len(dgram)])
    <2>1. /\ Len(dgram) > 0 /\ left \subseteq W
          /\ \A d \in W \ left : buf[d] = Len(dgram)
        BY <1>0, <1>2 DEF Copy, Reading
    <2>2. /\ c \in left /\ dgram' = dgram /\ left' = left \ {c}
          /\ rpc' = IF left = {c} THEN "check" ELSE "read"
          /\ buf' = [buf EXCEPT ![c] = Len(dgram)]
        BY <1>2 DEF Copy
    <2>3. \A d \in W \ left' : buf'[d] = Len(dgram)
        <3>1. W \subseteq Cells
            BY <1>0, <2>1, WrittenCells DEF TypeOK
        <3> HIDE DEF W
        <3> QED
            BY <1>0, <2>1, <2>2, <3>1 DEF TypeOK
    <2>4. rpc' = "check" => left' = {}
        BY <2>2
    <2> QED
        BY <2>1, <2>2, <2>3, <2>4 DEF Reading
<1>3. CASE Check
    BY <1>0, <1>3 DEF Check, Reading
<1>4. ASSUME NEW w \in Workers, WorkerStep(w)
      PROVE  Reading'
    <2>1. UNCHANGED receiveVars
        BY <1>4 DEF WorkerStep, Take, ReadY, ReadQ, ReadId, ReadTarget, PeerId, InfoHash, Announce, Reply
    <2> QED
        BY <1>0, <2>1 DEF receiveVars, Reading
<1>5. CASE SendLoop
    BY <1>0, <1>5 DEF SendLoop, receiveVars, Reading
<1>6. CASE UNCHANGED vars
    BY <1>0, <1>6 DEF vars, receiveVars, Reading
<1> QED
    BY <1>1, <1>2, <1>3, <1>4, <1>5, <1>6 DEF Next

(***************************************************************************)
(* A datagram stays what it is.                                            *)
(***************************************************************************)
LEMMA KindStays ==
    ASSUME IInv, [Next]_vars
    PROVE  \A n \in Dgrams : dgram'[n] = dgram[n]
<1>1. dgram' = dgram \/ \E kind \in Kinds : dgram' = Append(dgram, kind)
    BY DEF Next, Arrive, Copy, Check, WorkerStep, Take, ReadY, ReadQ, ReadId, ReadTarget,
           PeerId, InfoHash, Announce, Reply, SendLoop, receiveVars, vars
<1>2. dgram \in Seq(Kinds) /\ Dgrams = DOMAIN dgram
    BY DEF IInv, TypeOK, Dgrams
<1> QED
    BY <1>1, <1>2, AppendElements

(***************************************************************************)
(* An intact packet stays intact: a copy writes the number of the datagram *)
(* that arrived last.                                                      *)
(***************************************************************************)
LEMMA IntactStays ==
    ASSUME IInv, [Next]_vars, NEW n \in Dgrams, Intact(n)
    PROVE  Intact(n)'
<1>0. TypeOK
    BY DEF IInv
<1>1. ASSUME NEW kind \in Kinds, Arrive(kind)
      PROVE  Intact(n)'
    <2>1. dgram'[n] = dgram[n] /\ buf' = buf
        BY <1>0, <1>1 DEF Arrive, TypeOK, Dgrams
    <2> QED
        BY <2>1 DEF Intact
<1>2. ASSUME NEW c \in Cells, Copy(c)
      PROVE  Intact(n)'
    <2>1. dgram' = dgram /\ buf' = [buf EXCEPT ![c] = Len(dgram)]
        BY <1>2 DEF Copy
    <2>2. Len(dgram) >= n
        BY <1>0 DEF Dgrams, TypeOK
    <2>3. \A d \in Cells : buf'[d] = buf[d] \/ buf'[d] = Len(dgram)
        BY <1>0, <2>1 DEF TypeOK
    <2>4. Written(dgram[n]) \subseteq Cells
        BY FieldsWritten DEF Intact
    <2> QED
        BY <2>1, <2>2, <2>3, <2>4 DEF Intact
<1>3. CASE UNCHANGED <<dgram, buf>>
    BY <1>3 DEF Intact
<1>4. ASSUME NEW w \in Workers, WorkerStep(w)
      PROVE  UNCHANGED <<dgram, buf>>
    BY <1>4 DEF WorkerStep, Take, ReadY, ReadQ, ReadId, ReadTarget, PeerId, InfoHash, Announce, Reply, receiveVars
<1>5. Check \/ SendLoop \/ UNCHANGED vars => UNCHANGED <<dgram, buf>>
    BY DEF Check, SendLoop, vars, receiveVars
<1> QED
    BY <1>1, <1>2, <1>3, <1>4, <1>5 DEF Next

(***************************************************************************)
(* The datagram that was just read is intact when it is checked.           *)
(***************************************************************************)
LEMMA CheckedIntact ==
    ASSUME TypeOK, Reading, rpc = "check", dgram[Len(dgram)] \in Queries
    PROVE  Len(dgram) \in Dgrams /\ Intact(Len(dgram))
<1>1. Len(dgram) \in Nat /\ Len(dgram) > 0
    BY DEF TypeOK, Reading
<1>2. \A c \in Written(dgram[Len(dgram)]) : buf[c] = Len(dgram)
    BY DEF Reading
<1> QED
    BY <1>1, <1>2 DEF Dgrams, Intact

(***************************************************************************)
(* What waits in a queue or is handled stays intact.                       *)
(***************************************************************************)
LEMMA AllIntactStep ==
    ASSUME IInv, [Next]_vars
    PROVE  AllIntact'
<1> USE PipelineAssumption
<1> DEFINE Good == {n \in Dgrams : Intact(n)'}
           Fine == {r \in Replies : r[1] \in Good /\ Fits(r)'}
           Peers(w) == wpc[w] \in {"peer_id", "info_hash"} => dgram[job[w]] \in GetPeers
<1>0. TypeOK /\ Reading /\ AllIntact
    BY DEF IInv
<1>1. \A n \in Dgrams : dgram'[n] = dgram[n] /\ (Intact(n) => n \in Good)
    BY IntactStays, KindStays
<1>2. \A i \in DOMAIN recvCh : recvCh[i] \in Good
    BY <1>0, <1>1 DEF AllIntact, TypeOK
<1>3. \A i \in DOMAIN sendCh : sendCh[i] \in Fine
    <2>1. \A i \in DOMAIN sendCh : sendCh[i] \in Replies /\ sendCh[i][1] \in Dgrams
        BY <1>0 DEF TypeOK, Replies
    <2> QED
        BY <1>0, <1>1, <2>1 DEF AllIntact, Fits
<1>4. \A w \in Workers : Busy(w) => job[w] \in Good
    BY <1>0, <1>1, JobIsPacket
<1>20. \A w \in Workers : Busy(w) => job[w] \in Dgrams /\ dgram'[job[w]] = dgram[job[w]]
    BY <1>0, <1>1, JobIsPacket
<1>21. \A w \in Workers : Peers(w)
    BY <1>0 DEF AllIntact
<1>5. SUFFICES /\ \A i \in DOMAIN recvCh' : recvCh'[i] \in Good
               /\ \A i \in DOMAIN sendCh' : sendCh'[i] \in Fine
               /\ \A w \in Workers : wpc'[w] # "idle" => job'[w] \in Good
               /\ \A w \in Workers : Peers(w)'
    BY <1>0 DEF AllIntact, Intact, Dgrams, TypeOK
<1>22. \A w \in Workers : wpc'[w] = wpc[w] /\ job'[w] = job[w] => Peers(w)'
    BY <1>20, <1>21 DEF Busy
<1> HIDE DEF Good, Fine, Peers
<1>13. recvCh \in Seq(Dgrams) /\ sendCh \in Seq(Replies)
    BY <1>0 DEF TypeOK
<1>6. CASE UNCHANGED <<recvCh, sendCh, wpc, job>>
    BY <1>2, <1>3, <1>4, <1>6, <1>22 DEF Busy
<1>7. CASE Check
    <2>1. /\ UNCHANGED <<sendCh, wpc, job>>
          /\ recvCh' = recvCh \/ /\ dgram[Len(dgram)] \in Queries
                                 /\ recvCh' = Append(recvCh, Len(dgram))
        BY <1>7 DEF Check, workerVars
    <2>2. CASE recvCh' = recvCh
        BY <2>1, <2>2, <1>6
    <2>3. CASE recvCh' # recvCh
        <3>1. Len(dgram) \in Good
            BY <1>0, <1>1, <1>7, <2>1, <2>3, CheckedIntact DEF Check
        <3>2. \A i \in DOMAIN recvCh' : \/ i \in DOMAIN recvCh /\ recvCh'[i] = recvCh[i]
                                        \/ recvCh'[i] = Len(dgram)
            <4>1. recvCh' = Append(recvCh, Len(dgram))
                BY <2>1, <2>3
            <4>2. \A i \in DOMAIN Append(recvCh, Len(dgram)) :
                      \/ i \in DOMAIN recvCh /\ Append(recvCh, Len(dgram))[i] = recvCh[i]
                      \/ Append(recvCh, Len(dgram))[i] = Len(dgram)
                BY <1>13, AppendElements, SMTT(60)
            <4> QED
                BY <4>1, <4>2
        <3> QED
            BY <1>2, <1>3, <1>4, <1>22, <2>1, <3>1, <3>2 DEF Busy
    <2> QED
        BY <2>1, <2>2, <2>3
<1>8. ASSUME NEW w \in Workers, WorkerStep(w)
      PROVE  /\ \A i \in DOMAIN recvCh' : recvCh'[i] \in Good
             /\ \A i \in DOMAIN sendCh' : sendCh'[i] \in Fine
             /\ \A v \in Workers : wpc'[v] # "idle" => job'[v] \in Good
             /\ \A v \in Workers : Peers(v)'
    <2>1. CASE Take(w)
        <3>1. /\ recvCh # <<>> /\ recvCh' = Tail(recvCh) /\ sendCh' = sendCh
              /\ job' = [job EXCEPT ![w] = Head(recvCh)]
              /\ wpc' = [wpc EXCEPT ![w] = "y"]
            BY <2>1 DEF Take, Goto
        <3>2. 1 \in DOMAIN recvCh /\ Head(recvCh) = recvCh[1]
            BY <1>0, <3>1 DEF TypeOK
        <3>3. \A i \in DOMAIN recvCh' : i + 1 \in DOMAIN recvCh /\ recvCh'[i] = recvCh[i + 1]
            BY <1>13, <3>1, TailElements
        <3>4. \A v \in Workers : v # w => job'[v] = job[v] /\ wpc'[v] = wpc[v]
            BY <1>0, <3>1 DEF TypeOK
        <3>5. job'[w] = Head(recvCh) /\ wpc'[w] = "y"
            BY <1>0, <3>1 DEF TypeOK
        <3>6. \A v \in Workers : Peers(v)'
            BY <1>22, <3>4, <3>5 DEF Peers
        <3> QED
            BY <1>2, <1>3, <1>4, <3>1, <3>2, <3>3, <3>4, <3>5, <3>6 DEF Busy
    <2>2. CASE ~ Take(w)
        <3>1. Handles(w)
            BY <1>0, <1>8, <2>2, WorkerHandles
        <3>2. /\ Busy(w) /\ UNCHANGED <<recvCh, job>>
              /\ \A v \in Workers : v # w => wpc'[v] = wpc[v]
            BY <1>0, <3>1 DEF Handles, TypeOK
        <3>3. \A i \in DOMAIN sendCh' : sendCh'[i] \in Fine
            <4>1. ASSUME NEW part \in Part, Adds(w, part)
                  PROVE  \A i \in DOMAIN sendCh' : sendCh'[i] \in Fine
                <5> DEFINE r == <<job[w], part>>
                <5>1. r \in Fine
                    BY <1>4, <1>20, <3>2, <4>1 DEF Fine, Fits, Replies, Adds
                <5> HIDE DEF r
                <5>2. sendCh' = Append(sendCh, r)
                    BY <4>1 DEF Adds, r
                <5>3. \A i \in DOMAIN sendCh' : \/ i \in DOMAIN sendCh /\ sendCh'[i] = sendCh[i]
                                                \/ sendCh'[i] = r
                    BY <1>13, <5>2, AppendElements
                <5> QED
                    BY <1>3, <5>1, <5>3
            <4> QED
                BY <1>3, <3>1, <4>1 DEF Handles
        <3>4. \A v \in Workers : wpc'[v] # "idle" => Busy(v)
            BY <3>2 DEF Busy
        <3>5. Peers(w)'
            BY <1>20, <3>1, <3>2 DEF Handles, Peers
        <3>6. \A v \in Workers : Peers(v)'
            BY <1>22, <3>2, <3>5
        <3> QED
            BY <1>2, <1>4, <3>2, <3>3, <3>4, <3>6
    <2> QED
        BY <2>1, <2>2
<1>9. CASE SendLoop
    <2>1. /\ UNCHANGED <<recvCh, wpc, job>> /\ sendCh # <<>> /\ sendCh' = Tail(sendCh)
        BY <1>9 DEF SendLoop, workerVars
    <2>2. \A i \in DOMAIN sendCh' : i + 1 \in DOMAIN sendCh /\ sendCh'[i] = sendCh[i + 1]
        BY <1>13, <2>1, TailElements
    <2> QED
        BY <1>2, <1>3, <1>4, <1>22, <2>1, <2>2 DEF Busy
<1>10. ASSUME NEW kind \in Kinds, Arrive(kind)
       PROVE  UNCHANGED <<recvCh, sendCh, wpc, job>>
    BY <1>10 DEF Arrive, workerVars
<1>11. ASSUME NEW c \in Cells, Copy(c)
       PROVE  UNCHANGED <<recvCh, sendCh, wpc, job>>
    BY <1>11 DEF Copy, workerVars
<1>12. UNCHANGED vars => UNCHANGED <<recvCh, sendCh, wpc, job>>
    BY DEF vars, workerVars
<1> QED
    BY <1>6, <1>7, <1>8, <1>9, <1>10, <1>11, <1>12 DEF Next

(***************************************************************************)
(* Nothing older than its packet is ever read.                             *)
(***************************************************************************)
LEMMA NeverOlderStep ==
    ASSUME IInv, [Next]_vars
    PROVE  NeverOlder'
<1>0. TypeOK /\ AllIntact /\ NeverOlder
    BY DEF IInv
<1>1. ASSUME NEW w \in Workers, ReadId(w)
      PROVE  NeverOlder'
    <2>1. job[w] \in Dgrams /\ Intact(job[w])
        BY <1>0, <1>1, JobIsPacket DEF ReadId, At, Busy
    <2>2. Bytes(job[w], "id") # None => Bytes(job[w], "id") >= job[w]
        BY <1>0, <2>1, BytesFresh
    <2>3. stored' = stored \cup {<<job[w], Bytes(job[w], "id")>>} /\ sent' = sent
        BY <1>1 DEF ReadId
    <2> QED
        BY <1>0, <2>2, <2>3 DEF NeverOlder
<1>2. CASE SendLoop
    <2> DEFINE r == Head(sendCh)
               e == <<r, Bytes(r[1], "t")>>
    <2>1. r[1] \in Dgrams /\ Intact(r[1])
        BY <1>0, <1>2 DEF SendLoop, AllIntact, TypeOK, Replies
    <2>2. Bytes(r[1], "t") # None => Bytes(r[1], "t") >= r[1]
        BY <1>0, <2>1, BytesFresh
    <2>3. e[1] = r /\ e[2] = Bytes(r[1], "t")
        OBVIOUS
    <2> HIDE DEF r
    <2>4. stored' = stored /\ sent' = Append(sent, e)
        BY <1>2 DEF SendLoop, r
    <2> HIDE DEF e
    <2>5. \A i \in DOMAIN sent' : \/ i \in DOMAIN sent /\ sent'[i] = sent[i]
                                  \/ sent'[i] = e
        BY <1>0, <2>4, AppendElements DEF TypeOK
    <2> QED
        BY <1>0, <2>2, <2>3, <2>4, <2>5 DEF NeverOlder
<1>3. CASE UNCHANGED <<stored, sent>>
    BY <1>0, <1>3 DEF NeverOlder
<1>4. ASSUME NEW w \in Workers, WorkerStep(w), ~ ReadId(w)
      PROVE  UNCHANGED <<stored, sent>>
    BY <1>4 DEF WorkerStep, Take, ReadY, ReadQ, ReadTarget, PeerId, InfoHash, Announce, Reply
<1>5. ASSUME NEW kind \in Kinds, Arrive(kind)
      PROVE  UNCHANGED <<stored, sent>>
    BY <1>5 DEF Arrive
<1>6. ASSUME NEW c \in Cells, Copy(c)
      PROVE  UNCHANGED <<stored, sent>>
    BY <1>6 DEF Copy
<1>7. Check \/ UNCHANGED vars => UNCHANGED <<stored, sent>>
    BY DEF Check, vars
<1> QED
    BY <1>1, <1>2, <1>3, <1>4, <1>5, <1>6, <1>7 DEF Next

(***************************************************************************)
(* One reply for a packet: what sendLoop sends is a query's, and was not   *)
(* sent before.                                                            *)
(***************************************************************************)
LEMMA OneAnswerStep ==
    ASSUME IInv, [Next]_vars
    PROVE  OneAnswer'
<1>0. TypeOK /\ AllIntact /\ OnePlace /\ OneAnswer
    BY DEF IInv
<1>1. \A n \in Dgrams : dgram'[n] = dgram[n]
    BY KindStays
<1> DEFINE Proper(e) == dgram[e[1][1]] \in Queries /\ (e[1][2] # "answer" => dgram[e[1][1]] \in WrongLengths)
<1>2. \A i \in DOMAIN sent : sent[i][1][1] \in Dgrams /\ Proper(sent[i])
    BY <1>0 DEF TypeOK, Replies, OneAnswer
<1>3. CASE sent' = sent
    BY <1>0, <1>1, <1>2, <1>3 DEF OneAnswer
<1>4. CASE SendLoop
    <2> DEFINE r == Head(sendCh)
               e == <<r, Bytes(r[1], "t")>>
    <2>1. sendCh # <<>> /\ sent' = Append(sent, e) /\ dgram' = dgram
        BY <1>4 DEF SendLoop, receiveVars
    <2>2. 1 \in DOMAIN sendCh /\ r = sendCh[1]
        BY <1>0, <2>1, TailElements DEF TypeOK
    <2>3. e[1] = r
        OBVIOUS
    <2> HIDE DEF e, r
    <2>4. Proper(e) /\ \A j \in DOMAIN sent : r # sent[j][1]
        BY <1>0, <2>2, <2>3 DEF AllIntact, Intact, Fits, OnePlace
    <2>5. sent \in Seq(Replies \X (Dgrams \cup {None}))
        BY <1>0 DEF TypeOK
    <2>6. /\ \A i \in DOMAIN sent : sent'[i] = sent[i]
          /\ sent'[Len(sent) + 1] = e
          /\ DOMAIN sent' = 1 .. Len(sent) + 1
          /\ DOMAIN sent = 1 .. Len(sent) /\ Len(sent) \in Nat
        BY <2>1, <2>5, AppendElements
    <2>7. \A i \in DOMAIN sent' : i \in DOMAIN sent \/ i = Len(sent) + 1
        BY <2>6
    <2>8. \A i, j \in DOMAIN sent' : sent'[i][1] = sent'[j][1] => i = j
        BY <1>0, <2>3, <2>4, <2>6, <2>7 DEF OneAnswer
    <2>9. \A i \in DOMAIN sent' : Proper(sent'[i])
        BY <1>2, <2>4, <2>6, <2>7
    <2> QED
        BY <2>1, <2>8, <2>9 DEF OneAnswer
<1>5. SendLoop \/ sent' = sent
    BY DEF Next, Arrive, Copy, Check, WorkerStep, Take, ReadY, ReadQ, ReadId, ReadTarget,
           PeerId, InfoHash, Announce, Reply, vars
<1> QED
    BY <1>3, <1>4, <1>5

(***************************************************************************)
(* A packet moves from one place to the next.                              *)
(***************************************************************************)
LEMMA OnePlaceStep ==
    ASSUME IInv, [Next]_vars
    PROVE  OnePlace'
<1>0. TypeOK /\ Reading /\ AllIntact /\ OnePlace
    BY DEF IInv
<1>1. /\ recvCh \in Seq(Dgrams) /\ sendCh \in Seq(Replies)
      /\ sent \in Seq(Replies \X (Dgrams \cup {None}))
      /\ job \in [Workers -> 0 .. Len(dgram)]
      /\ Len(dgram) \in Nat
    BY <1>0 DEF TypeOK
<1>8. \A r \in Answered : /\ rpc # "wait" => r[1] < Len(dgram)
                          /\ \A i \in DOMAIN recvCh : recvCh[i] # r[1]
                          /\ \A w \in Workers : Busy(w) /\ job[w] = r[1] => Earlier(r[2], wpc[w])
    <2>1. OnePlace
        BY <1>0
    <2> QED
        BY <2>1, Zenon DEF OnePlace
<1>9. \A r \in Answered : r \in Replies /\ r[1] \in Dgrams /\ r[2] \in Part
    <2>1. \A i \in DOMAIN sendCh : sendCh[i] \in Replies
        BY <1>1
    <2>2. \A i \in DOMAIN sent : sent[i][1] \in Replies
        <3>1. \A i \in DOMAIN sent : sent[i] \in Replies \X (Dgrams \cup {None})
            BY <1>1
        <3> QED
            BY <3>1
    <2>3. \A r \in Answered : r \in Replies
        BY <2>1, <2>2 DEF Answered
    <2> QED
        BY <2>3 DEF Replies
<1>2. ASSUME NEW kind \in Kinds, Arrive(kind)
      PROVE  OnePlace'
    <2>1. UNCHANGED <<recvCh, wpc, job, sendCh, sent>> /\ dgram' = Append(dgram, kind)
        BY <1>2 DEF Arrive, workerVars
    <2>2. Len(dgram') = Len(dgram) + 1
        BY <1>0, <2>1 DEF TypeOK
    <2>3. \A i \in DOMAIN recvCh : recvCh[i] < Len(dgram')
        BY <1>1, <2>2 DEF Dgrams
    <2>4. \A w \in Workers : job[w] < Len(dgram')
        BY <1>1, <2>2
    <2>5. \A r \in Answered : r[1] < Len(dgram')
        BY <1>1, <1>9, <2>2 DEF Dgrams
    <2>6. Answered' = Answered
        BY <2>1 DEF Answered
    <2> QED
        BY <1>0, <1>8, <2>1, <2>3, <2>4, <2>5, <2>6 DEF OnePlace, Busy
<1>3. ASSUME NEW c \in Cells, Copy(c)
      PROVE  OnePlace'
    <2>1. UNCHANGED <<dgram, recvCh, wpc, job, sendCh, sent>> /\ rpc = "read"
        BY <1>3 DEF Copy, workerVars
    <2> QED
        BY <1>0, <2>1 DEF OnePlace, Answered, Busy
<1>4. CASE Check
    <2>1. /\ UNCHANGED <<dgram, wpc, job, sendCh, sent>> /\ rpc = "check" /\ rpc' = "wait"
          /\ recvCh' = recvCh \/ recvCh' = Append(recvCh, Len(dgram))
        BY <1>4 DEF Check, workerVars
    <2>2. CASE recvCh' = recvCh
        BY <1>0, <2>1, <2>2 DEF OnePlace, Answered, Busy
    <2>3. CASE recvCh' = Append(recvCh, Len(dgram))
        <3>1. /\ \A i \in DOMAIN recvCh : recvCh'[i] = recvCh[i]
              /\ recvCh'[Len(recvCh) + 1] = Len(dgram)
              /\ DOMAIN recvCh' = 1 .. Len(recvCh) + 1
              /\ DOMAIN recvCh = 1 .. Len(recvCh) /\ Len(recvCh) \in Nat
            BY <1>1, <2>3, AppendElements
        <3>2. \A i \in DOMAIN recvCh' : \/ i \in DOMAIN recvCh /\ i < Len(recvCh) + 1
                                        \/ i = Len(recvCh) + 1
            BY <3>1
        <3>3. /\ \A i \in DOMAIN recvCh : recvCh[i] < Len(dgram)
              /\ \A w \in Workers : job[w] < Len(dgram)
              /\ \A r \in Answered : r[1] < Len(dgram)
            BY <1>0, <1>8, <2>1 DEF OnePlace
        <3>4. \A i, j \in DOMAIN recvCh' : i < j => recvCh'[i] < recvCh'[j]
            BY <1>0, <3>1, <3>2, <3>3 DEF OnePlace
        <3>5. \A i \in DOMAIN recvCh' : \A w \in Workers : job[w] < recvCh'[i]
            BY <1>0, <3>1, <3>2, <3>3 DEF OnePlace
        <3>6. \A r \in Answered : r[1] # Len(dgram)
            BY <1>1, <1>9, <3>3 DEF Dgrams
        <3>7. \A r \in Answered : \A i \in DOMAIN recvCh' : recvCh'[i] # r[1]
            BY <1>8, <3>1, <3>2, <3>6
        <3>8. Answered' = Answered
            BY <2>1 DEF Answered
        <3>9. \A r \in Answered' :
                 /\ \A i \in DOMAIN recvCh' : recvCh'[i] # r[1]
                 /\ \A w \in Workers : wpc'[w] # "idle" /\ job'[w] = r[1] => Earlier(r[2], wpc'[w])
            BY <1>8, <2>1, <3>7, <3>8 DEF Busy
        <3> QED
            BY <1>0, <2>1, <3>4, <3>5, <3>9 DEF OnePlace, Busy
    <2> QED
        BY <2>1, <2>2, <2>3
<1>5. ASSUME NEW w \in Workers, WorkerStep(w)
      PROVE  OnePlace'
    <2>1. CASE Take(w)
        <3>1. /\ UNCHANGED <<dgram, rpc, sendCh, sent>> /\ recvCh # <<>>
              /\ recvCh' = Tail(recvCh)
              /\ job' = [job EXCEPT ![w] = Head(recvCh)]
              /\ wpc' = [wpc EXCEPT ![w] = "y"]
            BY <2>1 DEF Take, Goto, receiveVars
        <3>2. /\ \A i \in DOMAIN recvCh' : i \in Nat /\ i + 1 \in DOMAIN recvCh
                                           /\ recvCh'[i] = recvCh[i + 1]
              /\ 1 \in DOMAIN recvCh /\ Head(recvCh) = recvCh[1] /\ Head(recvCh) \in Dgrams
            BY <1>1, <3>1, TailElements
        <3>3. /\ \A v \in Workers : v # w => job'[v] = job[v] /\ wpc'[v] = wpc[v]
              /\ job'[w] = recvCh[1]
            BY <1>0, <3>1, <3>2 DEF TypeOK
        <3>4. \A i \in DOMAIN recvCh' : recvCh[1] < recvCh[i + 1]
            <4>1. \A i \in DOMAIN recvCh' : i >= 1
                BY <1>1, <3>1, HeadTailProperties
            <4> QED
                BY <1>0, <3>2, <4>1 DEF OnePlace
        <3>5. \A i, j \in DOMAIN recvCh' : i < j => recvCh'[i] < recvCh'[j]
            <4>1. \A i, j \in DOMAIN recvCh' : i < j => i + 1 < j + 1
                BY <3>2
            <4> QED
                BY <1>0, <3>2, <4>1 DEF OnePlace
        <3>6. \A i \in DOMAIN recvCh' : \A v \in Workers : job'[v] < recvCh'[i]
            BY <1>0, <3>2, <3>3, <3>4 DEF OnePlace
        <3>7. \A v \in Workers : job[v] < recvCh[1]
            BY <1>0, <3>2 DEF OnePlace
        <3>8. \A v \in Workers : job[v] # recvCh[1]
            BY <1>1, <3>2, <3>7 DEF Dgrams
        <3>9. \A u, v \in Workers : u # v /\ job'[u] = job'[v] => job'[u] = 0
            BY <1>0, <3>3, <3>8 DEF OnePlace
        <3>10. rpc # "wait" => /\ \A i \in DOMAIN recvCh' : recvCh'[i] < Len(dgram)
                               /\ \A v \in Workers : job'[v] < Len(dgram)
            BY <1>0, <3>2, <3>3 DEF OnePlace
        <3>11. \A r \in Answered :
                  /\ \A i \in DOMAIN recvCh' : recvCh'[i] # r[1]
                  /\ \A v \in Workers : wpc'[v] # "idle" /\ job'[v] = r[1] => Earlier(r[2], wpc'[v])
            BY <1>8, <3>2, <3>3 DEF Busy
        <3>12. Answered' = Answered
            BY <3>1 DEF Answered
        <3>13. \A r \in Answered' : rpc # "wait" => r[1] < Len(dgram)
            BY <1>8, <3>12
        <3> QED
            BY <1>0, <3>1, <3>5, <3>6, <3>9, <3>10, <3>11, <3>12, <3>13 DEF OnePlace, Busy
    <2>2. CASE ~ Take(w)
        <3>1. Handles(w) /\ job[w] \in Dgrams
            BY <1>0, <1>5, <2>2, WorkerHandles, JobIsPacket DEF Handles
        <3>2. /\ UNCHANGED <<dgram, rpc, recvCh, job, sent>> /\ Busy(w)
              /\ \A v \in Workers : v # w => wpc'[v] = wpc[v]
            BY <1>0, <3>1 DEF Handles, TypeOK, receiveVars
        <3>3. \A r \in Answered : \A v \in Workers :
                 wpc'[v] # "idle" /\ job[v] = r[1] => Earlier(r[2], wpc'[v])
            BY <1>8, <1>9, <3>1, <3>2 DEF Handles, Busy
        <3>4. CASE sendCh' = sendCh
            <4>1. Answered' = Answered
                BY <3>2, <3>4 DEF Answered
            <4> QED
                BY <1>0, <1>8, <3>2, <3>3, <3>4, <4>1 DEF OnePlace, Busy
        <3>5. ASSUME NEW part \in Part, Adds(w, part)
              PROVE  OnePlace'
            <4> DEFINE new == <<job[w], part>>
            <4>1. new[1] = job[w] /\ new[2] = part
                OBVIOUS
            <4> HIDE DEF new
            <4>2. sendCh' = Append(sendCh, new)
                BY <3>5 DEF Adds, new
            <4>3. /\ \A i \in DOMAIN sendCh : sendCh'[i] = sendCh[i]
                  /\ sendCh'[Len(sendCh) + 1] = new
                  /\ DOMAIN sendCh' = 1 .. Len(sendCh) + 1
                  /\ DOMAIN sendCh = 1 .. Len(sendCh) /\ Len(sendCh) \in Nat
                BY <1>1, <4>2, AppendElements
            <4>4. \A i \in DOMAIN sendCh' : i \in DOMAIN sendCh \/ i = Len(sendCh) + 1
                BY <4>3
            <4>5. ~ Earlier(part, wpc[w])
                BY <3>5 DEF Adds, Part, Earlier
            <4>6. new \notin Answered
                BY <1>8, <3>2, <4>1, <4>5
            <4>7. \A i, j \in DOMAIN sendCh' : sendCh'[i] = sendCh'[j] => i = j
                BY <1>0, <4>3, <4>4, <4>6 DEF OnePlace, Answered
            <4>8. \A i \in DOMAIN sendCh' : \A j \in DOMAIN sent : sendCh'[i] # sent[j][1]
                BY <1>0, <4>3, <4>4, <4>6 DEF OnePlace, Answered
            <4>9. Answered' \subseteq Answered \cup {new}
                BY <3>2, <4>3, <4>4 DEF Answered
            <4>10. rpc # "wait" => job[w] < Len(dgram)
                BY <1>0 DEF OnePlace
            <4>11. \A i \in DOMAIN recvCh : recvCh[i] # job[w]
                <5>1. \A i \in DOMAIN recvCh : recvCh[i] \in Int /\ job[w] < recvCh[i]
                    BY <1>0, <1>1 DEF OnePlace, Dgrams
                <5> QED
                    BY <3>1, <5>1 DEF Dgrams
            <4>12. \A v \in Workers : wpc'[v] # "idle" /\ job[v] = job[w] => Earlier(part, wpc'[v])
                <5>1. \A v \in Workers : v # w => job[v] # job[w]
                    BY <1>0, <3>1 DEF OnePlace, Dgrams
                <5>2. wpc'[w] # "idle" => Earlier(part, wpc'[w])
                    BY <3>5 DEF Adds, Part, Earlier
                <5> QED
                    BY <5>1, <5>2
            <4>13. \A r \in Answered' :
                      /\ rpc # "wait" => r[1] < Len(dgram)
                      /\ \A i \in DOMAIN recvCh : recvCh[i] # r[1]
                      /\ \A v \in Workers : wpc'[v] # "idle" /\ job[v] = r[1] => Earlier(r[2], wpc'[v])
                BY <1>8, <3>3, <4>1, <4>9, <4>10, <4>11, <4>12
            <4> QED
                BY <1>0, <3>2, <4>7, <4>8, <4>13 DEF OnePlace, Busy
        <3> QED
            BY <3>1, <3>4, <3>5 DEF Handles
    <2> QED
        BY <2>1, <2>2
<1>6. CASE SendLoop
    <2> DEFINE e == <<Head(sendCh), Bytes(Head(sendCh)[1], "t")>>
    <2>1. /\ UNCHANGED <<dgram, rpc, recvCh, wpc, job>> /\ sendCh # <<>>
          /\ sendCh' = Tail(sendCh) /\ sent' = Append(sent, e)
        BY <1>6 DEF SendLoop, receiveVars, workerVars
    <2>2. /\ \A i \in DOMAIN sendCh' : i \in Nat /\ i + 1 \in DOMAIN sendCh
                                       /\ sendCh'[i] = sendCh[i + 1]
          /\ 1 \in DOMAIN sendCh /\ Head(sendCh) = sendCh[1]
        BY <1>1, <2>1, TailElements
    <2>3. e[1] = sendCh[1]
        BY <2>2
    <2> HIDE DEF e
    <2>4. \A i \in DOMAIN sent' : \/ i \in DOMAIN sent /\ sent'[i] = sent[i]
                                  \/ sent'[i] = e
        BY <1>1, <2>1, AppendElements
    <2>5. \A i \in DOMAIN sendCh' : sendCh'[i] # sendCh[1]
        <3>1. \A i \in DOMAIN sendCh' : i >= 1 /\ i + 1 # 1
            BY <1>1, <2>1, HeadTailProperties
        <3> QED
            BY <1>0, <2>2, <3>1 DEF OnePlace
    <2>6. \A i \in DOMAIN sendCh' : \A j \in DOMAIN sent' : sendCh'[i] # sent'[j][1]
        BY <1>0, <2>2, <2>3, <2>4, <2>5 DEF OnePlace
    <2>7. \A i, j \in DOMAIN sendCh' : sendCh'[i] = sendCh'[j] => i = j
        BY <1>0, <2>2 DEF OnePlace
    <2>8. Answered' \subseteq Answered
        BY <2>2, <2>3, <2>4 DEF Answered
    <2>9. \A r \in Answered' :
             /\ rpc # "wait" => r[1] < Len(dgram)
             /\ \A i \in DOMAIN recvCh : recvCh[i] # r[1]
             /\ \A v \in Workers : Busy(v) /\ job[v] = r[1] => Earlier(r[2], wpc[v])
        BY <1>8, <2>8
    <2> QED
        BY <1>0, <2>1, <2>6, <2>7, <2>9 DEF OnePlace, Busy
<1>7. CASE UNCHANGED vars
    BY <1>0, <1>7 DEF vars, receiveVars, workerVars, OnePlace, Answered, Busy
<1> QED
    BY <1>2, <1>3, <1>4, <1>5, <1>6, <1>7 DEF Next

-----------------------------------------------------------------------------
(* The inductive invariant holds in every reachable state. *)
THEOREM InductiveInvariant == Spec => []IInv
<1>1. Init => IInv
    BY PipelineAssumption
       DEF Init, IInv, TypeOK, Reading, AllIntact, OnePlace, OneAnswer, NeverOlder, Answered,
           Busy, Dgrams, MaxDgrams
<1>2. IInv /\ [Next]_vars => IInv'
    BY TypeStep, ReadingStep, AllIntactStep, OnePlaceStep, OneAnswerStep, NeverOlderStep DEF IInv
<1> QED
    BY <1>1, <1>2, PTL DEF Spec

\* Types, and the bounds of the two queues.
THEOREM TypeCorrect == Spec => []TypeOK
<1>1. IInv => TypeOK
    BY DEF IInv
<1> QED
    BY <1>1, InductiveInvariant, PTL

\* A datagram gets at most one answer, nothing but a query gets one, and only a
\* get_peers gets more than that: one error for each argument of the wrong length.
THEOREM AtMostOneAnswer == Spec => []OneAnswer
<1>1. IInv => OneAnswer
    BY DEF IInv
<1> QED
    BY <1>1, InductiveInvariant, PTL

\* The shared buffer never yields anything older than the packet it is read for.
THEOREM NothingOlder == Spec => []NeverOlder
<1>1. IInv => NeverOlder
    BY DEF IInv
<1> QED
    BY <1>1, InductiveInvariant, PTL
=============================================================================
