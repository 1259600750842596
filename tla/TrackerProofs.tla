---------------------------- MODULE TrackerProofs ----------------------------
(***************************************************************************)
(* Proofs about the tracker, for any number of handlers and calls.         *)
(*                                                                         *)
(* The properties of the connection ids speak of moments when the mutex is *)
(* free, or of replies that have left.  The invariant below follows an id  *)
(* from the counter to the reply: who holds the mutex, how far the holder  *)
(* has brought the table, and that an id on its way to its client is in    *)
(* the table and is nobody else's.                                         *)
(***************************************************************************)
EXTENDS TrackerService, TLAPS

InMutex == {"read", "bump", "store", "check", "unlock"}

\* Between Lock and Unlock a handler holds the mutex, and only then.
MutexHeld == \A h \in Handlers : hpc[h] \in InMutex <=> mu = h

\* A handler has a datagram until it ends; only a connect is given an id.
HasJob == \A h \in Handlers :
    /\ hpc[h] # "free" => job[h] \in [req : 1 .. MaxReq, pkt : Packets]
    /\ hpc[h] = "check" => job[h].pkt.action # "connect"

\* How the table and the counter stand at each step of the critical section.
TableAt == \A h \in Handlers :
    /\ hpc[h] \in {"read", "check", "unlock"} => connections = 1 .. nextConnID - 1
    /\ hpc[h] = "bump" => /\ connections = 1 .. nextConnID - 1
                          /\ connID[h] = nextConnID
    /\ hpc[h] = "store" => /\ connections = 1 .. nextConnID - 2
                           /\ connID[h] = nextConnID - 1
                           /\ nextConnID > 1

\* h has an id in the table that its client has not been told.
Owes(h) == \/ hpc[h] = "reply"
           \/ hpc[h] = "unlock" /\ job[h].pkt.action = "connect"

OwedIds == \A h \in Handlers : Owes(h) =>
    /\ connID[h] \in connections
    /\ \A s \in sent : s[2] # connID[h]
    /\ \A g \in Handlers : Owes(g) /\ connID[g] = connID[h] => g = h

IInv == /\ UDPTypeOK
        /\ nextConnID > 0
        /\ MutexHeld
        /\ HasJob
        /\ TableAt
        /\ TableComplete
        /\ OwedIds
        /\ ReplyUsable
        /\ UniqueIds

-----------------------------------------------------------------------------
\* A socket that was just opened has answered nobody.
LEMMA UDPFirst == ASSUME UDPInit PROVE IInv
  <1>. USE UDPTrackerAssumption DEF UDPInit
  <1>1. UDPTypeOK
    BY DEF UDPTypeOK, Steps
  <1>2. MutexHeld /\ HasJob /\ TableAt /\ OwedIds
    BY DEF MutexHeld, InMutex, HasJob, TableAt, OwedIds, Owes
  <1>3. TableComplete /\ ReplyUsable /\ UniqueIds
    BY DEF TableComplete, ReplyUsable, UniqueIds
  <1>. QED  BY <1>1, <1>2, <1>3 DEF IInv

\* Nor has one that will be opened again.
LEMMA UDPAgain == ASSUME UDPLost, nReq \in 0 .. MaxReq PROVE IInv'
  <1>. USE UDPTrackerAssumption DEF UDPLost
  <1>1. UDPTypeOK'
    BY DEF UDPTypeOK, Steps
  <1>2. MutexHeld' /\ HasJob' /\ TableAt' /\ OwedIds'
    BY DEF MutexHeld, InMutex, HasJob, TableAt, OwedIds, Owes
  <1>3. TableComplete' /\ ReplyUsable' /\ UniqueIds'
    BY DEF TableComplete, ReplyUsable, UniqueIds
  <1>. QED  BY <1>1, <1>2, <1>3 DEF IInv

\* Everything the invariant says survives what leaves these variables alone.
LEMMA UDPSame ==
    ASSUME IInv, loop' \in BOOLEAN, conn' \in {"open", "closed"},
           UNCHANGED <<mu, connections, nextConnID, hpc, job, connID, nReq, sent>>
    PROVE  IInv'
  BY DEF IInv, UDPTypeOK, MutexHeld, HasJob, TableAt, TableComplete, OwedIds, Owes,
         ReplyUsable, UniqueIds

\* Each step of a handler preserves it.
LEMMA HandlerKeeps ==
    ASSUME IInv, NEW h \in Handlers, HandlerStep(h)
    PROVE  IInv'
  <1>. USE UDPTrackerAssumption DEF At, Goto, End, IInv
  <1>1. CASE Dispatch(h)
    <2>. USE <1>1 DEF Dispatch
    <2>1. UDPTypeOK'
      BY DEF UDPTypeOK, Steps
    <2>2. MutexHeld' /\ HasJob' /\ TableAt'
      BY DEF UDPTypeOK, MutexHeld, InMutex, HasJob, TableAt
    <2>3. OwedIds'
      BY DEF UDPTypeOK, OwedIds, Owes
    <2>4. TableComplete' /\ ReplyUsable' /\ UniqueIds'
      BY DEF TableComplete, ReplyUsable, UniqueIds
    <2>. QED  BY <2>1, <2>2, <2>3, <2>4
  <1>2. CASE Lock(h)
    <2>. USE <1>2 DEF Lock
    <2>1. UDPTypeOK'
      BY DEF UDPTypeOK, Steps
    <2>2. MutexHeld' /\ HasJob' /\ TableAt'
      BY DEF UDPTypeOK, MutexHeld, InMutex, HasJob, TableAt, TableComplete
    <2>3. OwedIds'
      BY DEF UDPTypeOK, OwedIds, Owes
    <2>4. TableComplete' /\ ReplyUsable' /\ UniqueIds'
      BY DEF TableComplete, ReplyUsable, UniqueIds
    <2>. QED  BY <2>1, <2>2, <2>3, <2>4
  <1>3. CASE ReadNext(h)
    <2>. USE <1>3 DEF ReadNext
    <2>1. UDPTypeOK'
      BY DEF UDPTypeOK, Steps
    <2>2. MutexHeld' /\ HasJob' /\ TableAt'
      BY DEF UDPTypeOK, MutexHeld, InMutex, HasJob, TableAt
    <2>3. OwedIds'
      BY DEF UDPTypeOK, OwedIds, Owes
    <2>4. TableComplete' /\ ReplyUsable' /\ UniqueIds'
      BY DEF TableComplete, ReplyUsable, UniqueIds
    <2>. QED  BY <2>1, <2>2, <2>3, <2>4
  <1>4. CASE Bump(h)
    <2>. USE <1>4 DEF Bump
    <2>1. UDPTypeOK'
      BY DEF UDPTypeOK, Steps
    <2>2. MutexHeld' /\ HasJob'
      BY DEF UDPTypeOK, MutexHeld, InMutex, HasJob
    <2>3. TableAt'
      BY DEF UDPTypeOK, MutexHeld, InMutex, TableAt
    <2>4. OwedIds'
      BY DEF UDPTypeOK, OwedIds, Owes
    <2>5. TableComplete' /\ ReplyUsable' /\ UniqueIds'
      BY DEF MutexHeld, InMutex, TableComplete, ReplyUsable, UniqueIds
    <2>6. nextConnID' > 0
      BY DEF UDPTypeOK
    <2>. QED  BY <2>1, <2>2, <2>3, <2>4, <2>5, <2>6
  <1>5. CASE Store(h)
    <2>. USE <1>5 DEF Store
    <2>1. UDPTypeOK'
      BY DEF UDPTypeOK, Steps
    <2>2. MutexHeld' /\ HasJob'
      BY DEF UDPTypeOK, MutexHeld, InMutex, HasJob
    <2>3. connections' = 1 .. nextConnID - 1 /\ connID[h] \notin connections
      BY DEF UDPTypeOK, TableAt
    <2>4. TableAt'
      BY <2>3 DEF UDPTypeOK, MutexHeld, InMutex, TableAt
    <2>5. OwedIds'
      BY <2>3 DEF UDPTypeOK, OwedIds, Owes, ReplyUsable
    <2>6. TableComplete' /\ ReplyUsable' /\ UniqueIds'
      BY <2>3 DEF MutexHeld, InMutex, TableComplete, ReplyUsable, UniqueIds
    <2>. QED  BY <2>1, <2>2, <2>4, <2>5, <2>6
  <1>6. CASE Check(h)
    <2>. USE <1>6 DEF Check
    <2>1. UDPTypeOK'
      BY DEF UDPTypeOK, Steps
    <2>2. MutexHeld' /\ HasJob' /\ TableAt'
      BY DEF UDPTypeOK, MutexHeld, InMutex, HasJob, TableAt
    <2>3. OwedIds'
      BY DEF UDPTypeOK, OwedIds, Owes, HasJob
    <2>4. TableComplete' /\ ReplyUsable' /\ UniqueIds'
      BY DEF TableComplete, ReplyUsable, UniqueIds
    <2>. QED  BY <2>1, <2>2, <2>3, <2>4
  <1>7. CASE Unlock(h)
    <2>. USE <1>7 DEF Unlock
    <2>1. UDPTypeOK'
      BY DEF UDPTypeOK, Steps
    <2>2. MutexHeld' /\ HasJob' /\ TableAt'
      BY SMTT(30) DEF UDPTypeOK, MutexHeld, InMutex, HasJob, TableAt
    <2>3. OwedIds'
      BY DEF UDPTypeOK, OwedIds, Owes
    <2>4. TableComplete' /\ ReplyUsable' /\ UniqueIds'
      BY DEF TableAt, TableComplete, ReplyUsable, UniqueIds
    <2>. QED  BY <2>1, <2>2, <2>3, <2>4
  <1>8. CASE Reply(h)
    <2>. USE <1>8 DEF Reply
    <2>0. job[h].req \in 1 .. MaxReq /\ Owes(h)
      BY DEF HasJob, Owes
    <2>1. UDPTypeOK'
      BY <2>0 DEF UDPTypeOK, Steps
    <2>2. MutexHeld' /\ HasJob'
      BY DEF UDPTypeOK, MutexHeld, InMutex, HasJob
    <2>3. TableAt'
      BY DEF UDPTypeOK, TableAt
    <2>4. OwedIds'
      BY <2>0 DEF UDPTypeOK, OwedIds, Owes
    <2>5. TableComplete' /\ ReplyUsable' /\ UniqueIds'
      BY <2>0 DEF TableComplete, ReplyUsable, UniqueIds, OwedIds
    <2>. QED  BY <2>1, <2>2, <2>3, <2>4, <2>5
  <1>. QED  BY <1>1, <1>2, <1>3, <1>4, <1>5, <1>6, <1>7, <1>8 DEF HandlerStep

\* A datagram that is read is a job for a handler that had none.
LEMMA ReaderKeeps ==
    ASSUME IInv, NEW h \in Handlers, NEW pkt \in Packets, Receive(h, pkt)
    PROVE  IInv'
  <1>. USE UDPTrackerAssumption DEF Receive, At, IInv
  <1>1. UDPTypeOK'
    BY DEF UDPTypeOK, Steps
  <1>2. MutexHeld' /\ HasJob' /\ TableAt'
    BY DEF UDPTypeOK, MutexHeld, InMutex, HasJob, TableAt
  <1>3. OwedIds'
    BY DEF UDPTypeOK, OwedIds, Owes
  <1>4. TableComplete' /\ ReplyUsable' /\ UniqueIds'
    BY DEF TableComplete, ReplyUsable, UniqueIds
  <1>. QED  BY <1>1, <1>2, <1>3, <1>4

-----------------------------------------------------------------------------
\* While a call is being served main has not passed GracefulStop.
RInv == /\ TypeOK
        /\ \A r \in Rpcs : rpc[r] # "idle" => proc \in {"serving", "draining"}

\* The tracker starts with no call and no handler.
LEMMA ServiceFirst == ASSUME Init PROVE IInv /\ RInv
  <1>1. IInv
    BY UDPFirst DEF Init
  <1>. QED  BY <1>1, TrackerAssumption DEF Init, IInv, RInv, TypeOK, Phases

\* What main, the calls and the clean-up do to the UDP side, and the UDP side itself.
LEMMA NextKeepsIds == ASSUME IInv, [Next]_vars PROVE IInv'
  <1>1. nReq \in 0 .. MaxReq /\ loop \in BOOLEAN /\ conn \in {"open", "closed"}
    BY DEF IInv, UDPTypeOK
  <1>2. CASE UNCHANGED udpVars
    BY <1>1, <1>2, UDPSame DEF udpVars
  <1>3. CASE UDPStep
    <2>1. CASE ReadError
      BY <1>1, <2>1, UDPSame DEF ReadError
    <2>. QED  BY <1>3, <2>1, HandlerKeeps, ReaderKeeps DEF UDPStep
  <1>4. CASE UDPClose
    BY <1>1, <1>4, UDPSame DEF UDPClose
  <1>5. CASE UDPLost
    BY <1>1, <1>5, UDPAgain
  <1>. QED
    BY <1>2, <1>3, <1>4, <1>5
    DEF Next, vars, Call, CallGoto, Statement, Cleanup, GrpcListen, Signal, MainStep, Kill,
        Restart, GracefulStop, CloseUDP, CloseDb, Exit, ProcessEnds

\* No call starts once main has passed GracefulStop.
LEMMA NextKeepsCalls == ASSUME RInv, IInv', [Next]_vars PROVE RInv'
  <1>. USE TrackerAssumption DEF RInv, TypeOK, Phases
  <1>0. UDPTypeOK'
    BY DEF IInv
  <1>1. CASE (UDPStep /\ OthersUnchanged) \/ UNCHANGED vars
    BY <1>0, <1>1 DEF OthersUnchanged, vars
  <1>2. ASSUME NEW r \in Rpcs, Call(r) PROVE RInv'
    BY <1>0, <1>2 DEF Call, CallGoto
  <1>3. ASSUME NEW r \in Rpcs, Statement(r) PROVE RInv'
    <2>1. After[rpc[r]] \in {"idle", "leechers", "torrents"}
      BY <1>3 DEF After, Statement
    <2>. QED  BY <1>0, <1>3, <2>1 DEF Statement, CallGoto
  <1>4. CASE Cleanup
    BY <1>0, <1>4 DEF Cleanup
  <1>5. CASE GrpcListen \/ Signal
    BY <1>0, <1>5 DEF GrpcListen, Signal, Main
  <1>6. CASE GracefulStop \/ CloseUDP \/ CloseDb
    BY <1>0, <1>6 DEF GracefulStop, CloseUDP, CloseDb, Main
  <1>7. CASE Exit \/ Kill
    BY <1>0, <1>7 DEF Exit, Kill, ProcessEnds
  <1>8. CASE Restart
    BY <1>0, <1>8 DEF Restart, alive
  <1>. QED
    BY <1>1, <1>2, <1>3, <1>4, <1>5, <1>6, <1>7, <1>8 DEF Next, MainStep

\* The invariants hold in every reachable state.
THEOREM IdsInductive == Spec => [](IInv /\ RInv)
  <1>1. IInv /\ RInv /\ [Next]_vars => IInv' /\ RInv'
    BY NextKeepsIds, NextKeepsCalls
  <1>. QED  BY <1>1, ServiceFirst, PTL DEF Spec

-----------------------------------------------------------------------------
\* Every variable of the tracker keeps its type, across stops, kills and restarts.
THEOREM TrackerTyped == Spec => []TypeOK
  <1>1. IInv /\ RInv => TypeOK
    BY DEF RInv
  <1>. QED  BY <1>1, IdsInductive, PTL

\* One process answers no two connects with the same id.
THEOREM IdsUnique == Spec => []UniqueIds
  <1>1. IInv /\ RInv => UniqueIds
    BY DEF IInv
  <1>. QED  BY <1>1, IdsInductive, PTL

\* An id a client was told is in the table handleAnnounce looks it up in.
THEOREM IdsUsable == Spec => []ReplyUsable
  <1>1. IInv /\ RInv => ReplyUsable
    BY DEF IInv
  <1>. QED  BY <1>1, IdsInductive, PTL

\* Whenever the mutex is free the table holds all the ids given out, and grows for ever.
THEOREM TableIsAllIds == Spec => []TableComplete
  <1>1. IInv /\ RInv => TableComplete
    BY DEF IInv
  <1>. QED  BY <1>1, IdsInductive, PTL

\* An accepted call is answered before main closes the database.
THEOREM CallsServed == Spec => []RpcServed
  <1>1. IInv /\ RInv => RpcServed
    BY DEF RInv, RpcServed, dbOpen
  <1>. QED  BY <1>1, IdsInductive, PTL
=============================================================================
