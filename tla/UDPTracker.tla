----------------------------- MODULE UDPTracker -----------------------------
(***************************************************************************)
(* The UDP side of the tracker: Run reads datagrams and starts a goroutine *)
(* for each; a connect is answered with a fresh connection id from a table *)
(* under a mutex, an announce looks its id up there.  (Announce stores no  *)
(* peer and answers nothing yet, scrape does nothing.)  The table holds    *)
(* the ids alone: their time stamps are never read.                        *)
(***************************************************************************)
EXTENDS Integers

CONSTANTS Handlers,  \* goroutines running handlePacket
          Packets,   \* the datagrams that may arrive, a set of Packet records
          MaxReq,    \* bound: datagrams read
          None       \* no goroutine, no datagram

\* What the handlers tell apart: the action, whether the datagram has the
\* length of its kind, whether a connect starts with the protocol id, and the
\* connection id of an announce.
Packet == [action : {"connect", "announce", "scrape", "other"},
           long : BOOLEAN, magic : BOOLEAN, connID : Nat]

ASSUME UDPTrackerAssumption ==
    /\ None \notin Handlers
    /\ Packets \subseteq Packet
    /\ MaxReq \in Nat

VARIABLES loop,         \* Run is reading; once it returns nobody reads
          conn,         \* the socket: "open" or "closed"
          mu,           \* the goroutine that holds the mutex, or None
          connections,  \* the ids in the table
          nextConnID,
          hpc,          \* where each handler is
          job,          \* its datagram [req, pkt]; req numbers the datagrams
          connID,       \* its local variable
          nReq,         \* datagrams read so far
          sent          \* history: <<req, id>> of the connect replies of this process

udpVars == <<loop, conn, mu, connections, nextConnID, hpc, job, connID, nReq, sent>>

Steps == {"free", "new", "lock", "read", "bump", "store", "check", "unlock", "reply"}

UDPTypeOK ==
    /\ loop \in BOOLEAN
    /\ conn \in {"open", "closed"}
    /\ mu \in Handlers \cup {None}
    /\ connections \subseteq Nat
    /\ nextConnID \in Nat
    /\ hpc \in [Handlers -> Steps]
    /\ job \in [Handlers -> [req : 1 .. MaxReq, pkt : Packets] \cup {None}]
    /\ connID \in [Handlers -> Nat]
    /\ nReq \in 0 .. MaxReq
    /\ sent \subseteq (1 .. MaxReq) \X Nat

-----------------------------------------------------------------------------
\* NewUDPTracker and go Run
UDPInit == /\ loop = TRUE
           /\ conn = "open"
           /\ mu = None
           /\ connections = {}
           /\ nextConnID = 1
           /\ hpc = [h \in Handlers |-> "free"]
           /\ job = [h \in Handlers |-> None]
           /\ connID = [h \in Handlers |-> 0]
           /\ nReq = 0
           /\ sent = {}

\* The process ends and its memory with it: the next one starts like this again.
UDPLost == /\ loop' = TRUE
           /\ conn' = "open"
           /\ mu' = None
           /\ connections' = {}
           /\ nextConnID' = 1
           /\ hpc' = [h \in Handlers |-> "free"]
           /\ job' = [h \in Handlers |-> None]
           /\ connID' = [h \in Handlers |-> 0]
           /\ sent' = {}
           /\ UNCHANGED nReq

At(h, pc)   == hpc[h] = pc
Goto(h, pc) == hpc' = [hpc EXCEPT ![h] = pc] /\ UNCHANGED job
\* The goroutine ends, and its datagram with it.
End(h) == /\ hpc' = [hpc EXCEPT ![h] = "free"]
          /\ job' = [job EXCEPT ![h] = None]

Receive_noCopy(h, pkt) ==
    /\ loop
    /\ conn = "open"
    /\ At(h, "free")
    /\ nReq < MaxReq
    /\ nReq' = nReq + 1
    /\ job' = [job EXCEPT ![h] = [req |-> nReq + 1, pkt |->
           [action |-> "connect", long |-> pkt.long, magic |-> FALSE, connID |-> 0]]]
    /\ hpc' = [hpc EXCEPT ![h] = "new"]
    /\ UNCHANGED <<loop, conn, mu, connections, nextConnID, connID, sent>>
\* Run reads a datagram and starts handlePacket on a copy of it.
Receive(h, pkt) ==
    /\ loop
    /\ conn = "open"
    /\ At(h, "free")
    /\ nReq < MaxReq
    /\ nReq' = nReq + 1
    /\ job' = [job EXCEPT ![h] = [req |-> nReq + 1, pkt |-> pkt]]
    /\ hpc' = [hpc EXCEPT ![h] = "new"]
    /\ UNCHANGED <<loop, conn, mu, connections, nextConnID, connID, sent>>

\* Any read error but a timeout ends Run, also when the socket stays open.
ReadError ==
    /\ loop
    /\ loop' = FALSE
    /\ UNCHANGED <<conn, mu, connections, nextConnID, hpc, job, connID, nReq, sent>>

\* Close, called by main
UDPClose ==
    /\ conn' = "closed"
    /\ UNCHANGED <<loop, mu, connections, nextConnID, hpc, job, connID, nReq, sent>>

\* handlePacket, and the tests before the mutex: what does not fit is dropped.
Dispatch(h) ==
    LET pkt == job[h].pkt IN
    /\ At(h, "new")
    /\ IF pkt.long /\ (pkt.action = "announce" \/ (pkt.action = "connect" /\ pkt.magic))
       THEN Goto(h, "lock") ELSE End(h)
    /\ UNCHANGED <<loop, conn, mu, connections, nextConnID, connID, nReq, sent>>

Lock_free(h) ==
    /\ At(h, "lock")
    /\ Goto(h, IF job[h].pkt.action = "connect" THEN "read" ELSE "check")
    /\ mu' = h
    /\ UNCHANGED <<loop, conn, connections, nextConnID, connID, nReq, sent>>
Lock(h) ==
    /\ At(h, "lock")
    /\ mu = None
    /\ mu' = h
    /\ Goto(h, IF job[h].pkt.action = "connect" THEN "read" ELSE "check")
    /\ UNCHANGED <<loop, conn, connections, nextConnID, connID, nReq, sent>>

-----------------------------------------------------------------------------
(* handleConnect under the mutex: connID := next; next++; table[connID].   *)

ReadNext(h) ==
    /\ At(h, "read")
    /\ connID' = [connID EXCEPT ![h] = nextConnID]
    /\ Goto(h, "bump")
    /\ UNCHANGED <<loop, conn, mu, connections, nextConnID, nReq, sent>>
Bump(h) ==
    /\ At(h, "bump")
    /\ nextConnID' = nextConnID + 1
    /\ Goto(h, "store")
    /\ UNCHANGED <<loop, conn, mu, connections, connID, nReq, sent>>
Store_next(h) ==
    /\ At(h, "store")
    /\ connections' = connections \cup {nextConnID}
    /\ Goto(h, "unlock")
    /\ UNCHANGED <<loop, conn, mu, nextConnID, connID, nReq, sent>>
Store(h) ==
    /\ At(h, "store")
    /\ connections' = connections \cup {connID[h]}
    /\ Goto(h, "unlock")
    /\ UNCHANGED <<loop, conn, mu, nextConnID, connID, nReq, sent>>

\* handleAnnounce under the mutex.  Known or not, nothing follows yet.
Check_noUnlock(h) ==
    /\ At(h, "check")
    /\ IF job[h].pkt.connID \in connections THEN Goto(h, "unlock") ELSE End(h)
    /\ UNCHANGED <<loop, conn, mu, connections, nextConnID, connID, nReq, sent>>
Check(h) ==
    /\ At(h, "check")
    /\ Goto(h, "unlock")
    /\ UNCHANGED <<loop, conn, mu, connections, nextConnID, connID, nReq, sent>>

Unlock(h) ==
    /\ At(h, "unlock")
    /\ mu' = None
    /\ IF job[h].pkt.action = "connect" THEN Goto(h, "reply") ELSE End(h)
    /\ UNCHANGED <<loop, conn, connections, nextConnID, connID, nReq, sent>>

\* The answer is written after the mutex is free; an error of the write, as on
\* a closed socket, is ignored.
Reply(h) ==
    /\ At(h, "reply")
    /\ End(h)
    /\ connID' = [connID EXCEPT ![h] = 0]
    /\ sent' = IF conn = "open" THEN sent \cup {<<job[h].req, connID[h]>>} ELSE sent
    /\ UNCHANGED <<loop, conn, mu, connections, nextConnID, nReq>>

HandlerStep(h) == \/ Dispatch(h)
                  \/ Lock(h)
                  \/ ReadNext(h)
                  \/ Bump(h)
                  \/ Store(h)
                  \/ Check(h)
                  \/ Unlock(h)
                  \/ Reply(h)

UDPStep == \/ \E h \in Handlers : HandlerStep(h) \/ \E pkt \in Packets : Receive(h, pkt)
           \/ ReadError

-----------------------------------------------------------------------------
(* Properties                                                              *)

\* Two connects are never answered with the same id by one process, however their
\* handlers interleave: an id tells clients apart as long as the process lives.
UniqueIds == \A r, s \in sent : r[2] = s[2] => r = s

\* A client that has got its connection id can announce with it: the id is in the
\* table before the reply leaves, and stays there.
ReplyUsable == \A r \in sent : r[2] \in connections

\* Outside the mutex the table holds exactly the ids below the counter: none is
\* lost, none is foreign, and none is ever removed while the process lives.
TableComplete == mu = None => connections = 1 .. nextConnID - 1
=============================================================================
