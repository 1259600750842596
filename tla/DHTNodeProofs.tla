--------------------------- MODULE DHTNodeProofs ----------------------------
(***************************************************************************)
(* Proofs about the DHT service, for any tables, nodes, workers, sweepers, *)
(* queries, failures, stops, kills and restarts.                           *)
(*                                                                         *)
(* The invariant says what a goroutine relies on between two statements:   *)
(* the upsert it has stamped is still its own, and until it replies it has *)
(* sent nothing but the errors of wrong lengths; what a sweeper still has  *)
(* to delete leaves a full bucket behind.                                  *)
(***************************************************************************)
EXTENDS DHTBuckets, SharedProofs, SequenceTheorems, TLAPS

Tables == nodes = [id \in Ids |-> nodes[id]]

Stamps == /\ pend = [g \in Goroutines |-> pend[g]]
          /\ spc = [s \in Sweepers |-> spc[s]]
          /\ \A s \in Sweepers : spc[s] = "exec" => pend[s] \in Stamped
          /\ \A w \in Workers : wpc[w] = "upsert" => pend[w] \in Stamped

\* What holds of a worker between two statements of its handler: it has sent
\* nothing but the errors of wrong lengths.
Busy(w) == wpc[w] # "idle" => /\ wq[w] \in Queries
                              /\ Len(replies[w]) <= WrongLengths(wq[w])

\* SingleReply of one worker
One(w) == wq[w] # None => Len(replies[w]) <= 1 + WrongLengths(wq[w])

Handlers == WorkerTypeOK /\ \A w \in Workers : Busy(w) /\ One(w)

\* What a sweeper at pc and bucket b relies on: what it still has to delete is of
\* that bucket, and whom it asks has an address or is a zero row.
Fits(pc, b, ws, ln) ==
    /\ pc \in {"rest", "list", "delnode", "delpeers", "probe", "learn", "exec"}
    /\ b \in 0 .. Buckets - 1
    /\ ws \in Seq(Ids \cup Addrs \cup {None}) /\ ln \in Seq(Contact)
    /\ Deleting(pc) => /\ ws \in Seq(Ids) /\ ws # <<>>
                       /\ \A i \in DOMAIN ws : Bucket[ws[i]] = b
    /\ pc = "probe" => ws \in Seq(Addrs \cup {None}) /\ ws # <<>>
    /\ pc \in {"learn", "exec"} => ws \in Seq(Addrs \cup {None}) /\ ln # <<>>

\* Unless the other sweep deleted from its bucket meanwhile, a sweeper that deletes
\* leaves a full bucket of rows alone.
Spares(K, ws) == Cardinality(K) = KSize /\ \A i \in DOMAIN ws : ws[i] \notin K
Spared(s) == Deleting(spc[s]) /\ ~ raced[s] =>
                \E K \in SUBSET InBucket(sbucket[s]) : Spares(K, work[s])

Fitting == \A s \in Sweepers : Fits(spc[s], sbucket[s], work[s], learned[s])
Sweeps  == Fitting /\ \A s \in Sweepers : Spared(s)

IInv == TypeOK /\ Tables /\ Stamps /\ Handlers /\ Sweeps

-----------------------------------------------------------------------------
\* A process starts with tables it may find, and nothing under way.
LEMMA AtStart == ASSUME Init PROVE IInv
  <1>1. Tables
    BY NodeAssumption DEF Init, Tables
  <1>2. Stamps
    BY SweepAssumption DEF Init, Stamps, SweepStart, Starting, WorkerStart
  <1>3. Handlers
    BY WorkersAssumption DEF Init, Handlers, WorkerTypeOK, WorkerStart, Busy, One
  <1>4. TypeOK
    <2>1. clock \in Nat /\ nodes \in [Ids -> Row \cup {None}]
      BY StoreAssumption, NodeAssumption, FS_CardinalityType DEF Init
    <2>2. StoreTypeOK
      BY <2>1 DEF Init, StoreTypeOK
    <2>3. <<>> \in Seq(Ids \cup Addrs \cup {None}) /\ <<>> \in Seq(Contact)
      OBVIOUS
    <2>4. SweepTypeOK
      BY <2>3, SweepAssumption DEF Init, SweepTypeOK, SweepStart, Starting, Nothing, RunSweeps
    <2>. QED  BY <1>3, <2>2, <2>4 DEF TypeOK, Handlers
  <1>5. Sweeps
    <2>1. \A s \in Sweepers : /\ spc[s] \in {"list", "rest"} /\ sbucket[s] = 0
                               /\ work[s] = <<>> /\ learned[s] = <<>>
      BY DEF Init, SweepStart, Starting, Nothing
    <2>2. \A s \in Sweepers : Fits(spc[s], sbucket[s], work[s], learned[s])
      BY <1>4, <2>1 DEF TypeOK, SweepTypeOK, Fits, Deleting
    <2>. QED  BY <2>1, <2>2 DEF Sweeps, Fitting, Spared, Deleting
  <1>. QED  BY <1>1, <1>2, <1>3, <1>4, <1>5 DEF IInv

-----------------------------------------------------------------------------
(* Tables                                                                  *)

\* Every statement on the node table is an upsert or a deletion.
LEMMA TablesKept ==
    ASSUME Tables,
           \/ UNCHANGED nodes
           \/ \E id : DeleteById(id)
           \/ \E g \in Goroutines : UpsertNode(g)
    PROVE  Tables'
  BY DEF Tables, DeleteById, UpsertNode

\* An upsert that brings no token leaves the one that is there.
LEMMA UpsertKeepsToken ==
    ASSUME Tables, NEW g \in Goroutines, pend[g] \in Stamped, UpsertNode(g),
           NEW id \in Ids, nodes[id] # None, nodes[id].tok # None
    PROVE  nodes'[id].tok # None
  <1>1. CASE id # pend[g].id
    BY <1>1 DEF Tables, UpsertNode
  <1>2. CASE id = pend[g].id
    <2>1. PICK i, addr, tok, seen :
             pend[g] = [id |-> i, row |-> [addr |-> addr, tok |-> tok, seen |-> seen]]
      BY DEF Stamped, Row
    <2>2. nodes'[id] = Merged(nodes[id], pend[g].row)
      BY <1>2 DEF Tables, UpsertNode
    <2>3. CASE tok = None
      BY <2>1, <2>2, <2>3 DEF Merged
    <2>4. CASE tok # None
      BY <2>1, <2>2, <2>4 DEF Merged
    <2>. QED  BY <2>3, <2>4
  <1>. QED  BY <1>1, <1>2

-----------------------------------------------------------------------------
(* Workers                                                                 *)

Reply == {"r", "e", "near"}
Pc == {"idle", "upsert", "answer", "rows", "near", "verify"}

\* A get_peers has two arguments, which may be of the wrong length.
LEMMA WrongLengthsCount ==
    ASSUME NEW q
    PROVE  /\ WrongLengths(q) \in Nat
           /\ q.q = "get_peers" /\ "long" \in {q["idForm"], q["hashForm"]} => WrongLengths(q) >= 1
  <1> DEFINE W == {f \in {"idForm", "hashForm"} : q[f] \in {"long", "short"}}
  <1>1. IsFiniteSet({"idForm"} \cup {"hashForm"})
    BY FS_Singleton, FS_AddElement
  <1>2. W \subseteq {"idForm"} \cup {"hashForm"}
    OBVIOUS
  <1>3. IsFiniteSet(W) /\ Cardinality(W) \in Nat
    BY <1>1, <1>2, FS_Subset, FS_CardinalityType
  <1>4. ASSUME "long" \in {q["idForm"], q["hashForm"]} PROVE Cardinality(W) >= 1
    <2>1. "idForm" \in W \/ "hashForm" \in W
      BY <1>4
    <2>2. W # {}
      BY <2>1
    <2>. QED  BY <1>3, <2>2, FS_EmptySet
  <1>. QED  BY <1>3, <1>4 DEF WrongLengths

\* Only w moves, and what holds between two statements holds of it again.
Moves(w) ==
    /\ wpc' = [wpc EXCEPT ![w] = wpc'[w]] /\ wpc'[w] \in Pc
    /\ wq' = [wq EXCEPT ![w] = wq'[w]] /\ wq'[w] \in Queries \cup {None}
    /\ replies' = [replies EXCEPT ![w] = replies'[w]]
    /\ replies'[w] \in Seq(Reply)
    /\ nq' \in 0 .. MaxQueries
    /\ Busy(w)' /\ One(w)'

\* Then the others keep what they rely on.
LEMMA OthersKeep ==
    ASSUME Handlers, NEW w \in Workers, Moves(w)
    PROVE  Handlers'
  <1>1. WorkerTypeOK'
    BY DEF Handlers, WorkerTypeOK, Moves, Pc, Reply
  <1>2. ASSUME NEW v \in Workers, v # w
        PROVE  Busy(v)' /\ One(v)'
    <2>1. wpc'[v] = wpc[v] /\ wq'[v] = wq[v] /\ replies'[v] = replies[v]
      BY <1>2 DEF Handlers, WorkerTypeOK, Moves
    <2>. QED  BY <2>1 DEF Handlers, Busy, One
  <1>. QED  BY <1>1, <1>2 DEF Handlers, Moves

\* A handler ends with at most one reply more than the errors it has sent.
LEMMA LastReply ==
    ASSUME Handlers, NEW w \in Workers, wpc[w] # "idle",
           NEW rs \in Seq(Reply), Finish(w, rs), Len(rs) <= 1
    PROVE  Moves(w)
  <1>1. /\ replies' = [replies EXCEPT ![w] = replies[w] \o rs]
        /\ wpc' = [wpc EXCEPT ![w] = "idle"] /\ UNCHANGED <<wq, nq>>
    BY DEF Finish, Send, Goto
  <1>2. replies[w] \in Seq(Reply) /\ w \in DOMAIN wpc /\ w \in DOMAIN replies
    BY DEF Handlers, WorkerTypeOK, Reply
  <1>3. /\ replies'[w] = replies[w] \o rs
        /\ wpc'[w] = "idle"
        /\ wq' = [wq EXCEPT ![w] = wq[w]] /\ wq[w] \in Queries \cup {None}
        /\ nq \in 0 .. MaxQueries
    BY <1>1, <1>2 DEF Handlers, WorkerTypeOK
  <1>4. /\ replies[w] \o rs \in Seq(Reply)
        /\ Len(replies[w] \o rs) = Len(replies[w]) + Len(rs)
        /\ Len(replies[w]) \in Nat /\ Len(rs) \in Nat
    BY <1>2, ConcatProperties
  <1>5. Len(replies[w]) <= WrongLengths(wq[w]) /\ WrongLengths(wq[w]) \in Nat
    BY WrongLengthsCount DEF Handlers, Busy
  <1>6. One(w)'
    <2>1. Len(replies'[w]) <= 1 + WrongLengths(wq[w])
      BY <1>3, <1>4, <1>5
    <2>. QED  BY <1>1, <2>1 DEF One
  <1>7. Busy(w)'
    BY <1>3 DEF Busy
  <1>. QED  BY <1>1, <1>3, <1>4, <1>6, <1>7 DEF Moves, Pc

\* The handler goes on at pc and has sent nothing.
LEMMA GoesOn ==
    ASSUME Handlers, NEW w \in Workers, wpc[w] # "idle", NEW pc \in Pc, Goto(w, pc),
           UNCHANGED <<wq, replies, nq>>
    PROVE  Moves(w)
  <1>1. wpc' = [wpc EXCEPT ![w] = pc] /\ wpc'[w] = pc
    BY DEF Goto, Handlers, WorkerTypeOK
  <1>2. Busy(w)' /\ One(w)'
    BY <1>1 DEF Handlers, Busy, One
  <1>. QED  BY <1>1, <1>2 DEF Moves, Handlers, WorkerTypeOK, Reply

\* A worker begins with a query and nothing of an earlier one.
LEMMA Begins ==
    ASSUME Handlers, NEW w \in Workers, NEW q \in Queries, NEW pc \in Pc,
           NEW rs \in Seq(Reply),
           wq' = [wq EXCEPT ![w] = q], nq < MaxQueries, nq' = nq + 1,
           replies' = [replies EXCEPT ![w] = rs],
           wpc' = [wpc EXCEPT ![w] = pc],
           pc # "idle" => Len(rs) <= WrongLengths(q),
           Len(rs) <= 1 + WrongLengths(q)
    PROVE  Moves(w)
  <1>1. wq'[w] = q /\ replies'[w] = rs /\ wpc'[w] = pc
    BY DEF Handlers, WorkerTypeOK
  <1>2. Busy(w)' /\ One(w)'
    BY <1>1 DEF Busy, One
  <1>3. nq' \in 0 .. MaxQueries
    BY WorkersAssumption DEF Handlers, WorkerTypeOK
  <1>. QED  BY <1>1, <1>2, <1>3 DEF Moves

\* What a handler replies, as sequences.
LEMMA Replies ==
    /\ <<>> \in Seq(Reply) /\ Len(<<>>) = 0
    /\ \A x \in Reply : <<x>> \in Seq(Reply) /\ Len(<<x>>) = 1
    /\ <<"e", "e">> \in Seq(Reply) /\ Len(<<"e", "e">>) = 2
  BY DEF Reply

LEMMA TakeMoves ==
    ASSUME Handlers, NEW w \in Workers, NEW q \in Queries,
           TakeContact(w, q) \/ TakeGetPeers(w, q) \/ TakeAnnounce(w, q)
    PROVE  Moves(w)
  <1>1. /\ nq < MaxQueries /\ nq' = nq + 1
        /\ wq' = [wq EXCEPT ![w] = q]
        /\ wpc = [wpc EXCEPT ![w] = "idle"]
    BY DEF TakeContact, TakeGetPeers, TakeAnnounce, Take, At, Handlers, WorkerTypeOK
  <1>2. WrongLengths(q) \in Nat
    BY WrongLengthsCount
  <1>3. PICK none \in Seq(Reply) : none = <<>> /\ Len(none) = 0
    BY Replies, Zenon
  <1>4. PICK err \in Seq(Reply) : err = <<"e">> /\ Len(err) = 1
    BY Replies, Zenon DEF Reply
  <1>5. ASSUME NEW pc \in Pc, wpc' = [wpc EXCEPT ![w] = pc], replies' = [replies EXCEPT ![w] = none]
        PROVE  Moves(w)
    <2>1. Len(none) <= WrongLengths(q) /\ Len(none) <= 1 + WrongLengths(q)
      BY <1>2, <1>3
    <2>. QED  BY <1>1, <1>5, <2>1, Begins, Zenon
  <1>6. ASSUME UNCHANGED wpc, replies' = [replies EXCEPT ![w] = err]
        PROVE  Moves(w)
    <2>1. Len(err) <= 1 + WrongLengths(q) /\ "idle" \in Pc
      BY <1>2, <1>4 DEF Pc
    <2>. QED  BY <1>1, <1>6, <2>1, Begins, Zenon
  <1>7. CASE TakeContact(w, q)
    <2>1. PICK pc \in {"upsert", "answer"} : wpc' = [wpc EXCEPT ![w] = pc]
      BY <1>7 DEF TakeContact, Goto
    <2>2. replies' = [replies EXCEPT ![w] = none]
      BY <1>3, <1>7 DEF TakeContact
    <2>. QED  BY <1>5, <2>1, <2>2 DEF Pc
  <1>8. CASE TakeAnnounce(w, q)
    <2>1. PICK pc \in {"idle", "verify"} : wpc' = [wpc EXCEPT ![w] = pc]
      BY <1>1, <1>8 DEF TakeAnnounce, Goto
    <2>2. CASE replies' = [replies EXCEPT ![w] = none]
      BY <1>5, <2>1, <2>2 DEF Pc
    <2>3. CASE UNCHANGED wpc /\ replies' = [replies EXCEPT ![w] = err]
      BY <1>6, <2>3
    <2>. QED  BY <1>3, <1>4, <1>8, <2>2, <2>3 DEF TakeAnnounce
  <1>9. CASE TakeGetPeers(w, q)
    <2> DEFINE L == {f \in {"idForm", "hashForm"} : q[f] = "long"}
               W == {f \in {"idForm", "hashForm"} : q[f] \in {"long", "short"}}
               errors == [i \in 1 .. Cardinality(L) |-> "e"]
    <2>1. q.q = "get_peers" /\ WrongLengths(q) = Cardinality(W)
      BY <1>9 DEF TakeGetPeers, Take, WrongLengths
    <2>2. CASE UNCHANGED wpc /\ replies' = [replies EXCEPT ![w] = <<>>]
      BY <1>1, <1>3, <1>5, <2>2 DEF Pc
    <2>3. CASE UNCHANGED wpc /\ replies' = [replies EXCEPT ![w] = <<"e">>]
      BY <1>4, <1>6, <2>3
    <2>4. CASE UNCHANGED wpc /\ q.idForm = "long" /\ replies' = [replies EXCEPT ![w] = <<"e", "e">>]
      <3>1. PICK rs \in Seq(Reply) : rs = <<"e", "e">> /\ Len(rs) = 2
        BY Replies, Zenon
      <3>2. WrongLengths(q) >= 1
        BY <2>1, <2>4, WrongLengthsCount
      <3>3. Len(rs) <= 1 + WrongLengths(q) /\ "idle" \in Pc
        BY <1>2, <3>1, <3>2 DEF Pc
      <3>. QED  BY <1>1, <2>4, <3>1, <3>3, Begins, Zenon
    <2>5. CASE /\ {q.idForm, q.hashForm} \subseteq {"ok", "long"}
               /\ replies' = [replies EXCEPT ![w] = errors] /\ Goto(w, "rows")
      <3>1. L = W
        BY <2>5
      <3>2. Cardinality(L) \in Nat /\ Cardinality(L) = WrongLengths(q)
        BY <1>2, <2>1, <3>1
      <3> HIDE DEF L, W
      <3>3. errors \in Seq(Reply) /\ Len(errors) = Cardinality(L)
        BY <3>2 DEF Reply
      <3> HIDE DEF errors
      <3>4. /\ Len(errors) <= WrongLengths(q) /\ Len(errors) <= 1 + WrongLengths(q)
            /\ "rows" \in Pc
        BY <1>2, <3>2, <3>3 DEF Pc
      <3>5. wpc' = [wpc EXCEPT ![w] = "rows"]
        BY <2>5 DEF Goto
      <3>. QED  BY <1>1, <2>5, <3>3, <3>4, <3>5, Begins, Zenon
    <2>. QED  BY <1>9, <2>2, <2>3, <2>4, <2>5 DEF TakeGetPeers
  <1>. QED  BY <1>7, <1>8, <1>9

\* A handler that ends with one more reply, or with none.
LEMMA Ending ==
    ASSUME Handlers, NEW w \in Workers, wpc[w] # "idle",
           Finish(w, <<>>) \/ \E x \in Reply : Finish(w, <<x>>)
    PROVE  Moves(w)
  <1>1. CASE Finish(w, <<>>)
    <2>1. PICK rs \in Seq(Reply) : rs = <<>> /\ Len(rs) = 0
      BY Replies, Zenon
    <2>2. Len(rs) <= 1
      BY <2>1
    <2>. QED  BY <1>1, <2>1, <2>2, LastReply, Zenon
  <1>2. ASSUME NEW x \in Reply, Finish(w, <<x>>) PROVE Moves(w)
    <2>1. PICK rs \in Seq(Reply) : rs = <<x>> /\ Len(rs) = 1
      BY Replies, Zenon
    <2>2. Len(rs) <= 1
      BY <2>1
    <2>. QED  BY <1>2, <2>1, <2>2, LastReply, Zenon
  <1>. QED  BY <1>1, <1>2

\* A panic, or another goroutine's step, moves no worker.
LEMMA Stays ==
    ASSUME Handlers, UNCHANGED <<wpc, wq, replies, nq>>
    PROVE  Handlers'
  BY DEF Handlers, WorkerTypeOK, Busy, One

\* A handler goes on, ends, or ends the process.
LEMMA StepMoves ==
    ASSUME Handlers, NEW w \in Workers, WorkerStep(w)
    PROVE  Moves(w) \/ UNCHANGED <<wpc, wq, replies, nq>>
  <1>1. wpc[w] # "idle"
    BY DEF WorkerStep, StoreContact, AnswerContact, GetPeersRows, GetPeersNear, Verify, At
  <1>2. CASE Finish(w, <<>>) \/ \E x \in Reply : Finish(w, <<x>>)
    BY <1>1, <1>2, Ending
  <1>3. CASE (Goto(w, "answer") \/ Goto(w, "near")) /\ UNCHANGED <<wq, replies, nq>>
    BY <1>1, <1>3, GoesOn DEF Pc
  <1>4. CASE StoreContact(w)
    BY <1>3, <1>4 DEF StoreContact
  <1>5. CASE AnswerContact(w) \/ GetPeersRows(w) \/ GetPeersNear(w)
    BY <1>2, <1>3, <1>5 DEF AnswerContact, GetPeersRows, GetPeersNear, Reply
  <1>6. CASE Verify(w)
    BY <1>6 DEF Verify, workerVars
  <1>. QED  BY <1>4, <1>5, <1>6 DEF WorkerStep

\* Every step of a worker leaves all workers what they rely on.
LEMMA WorkersKeep ==
    ASSUME Handlers, NEW w \in Workers, WorkerTake(w) \/ WorkerStep(w)
    PROVE  Handlers'
  <1>1. Moves(w) \/ UNCHANGED <<wpc, wq, replies, nq>>
    BY TakeMoves, StepMoves DEF WorkerTake
  <1>. QED  BY <1>1, OthersKeep, Stays

-----------------------------------------------------------------------------
(* Stamps                                                                  *)

\* A goroutine that stamps an upsert has one.
LEMMA StampReady ==
    ASSUME Stamps, clock \in Nat, NEW g \in Goroutines,
           NEW id \in Ids, NEW addr \in Addrs, NEW tok \in Token, Stamp(g, id, addr, tok)
    PROVE  pend'[g] \in Stamped /\ \A h \in Goroutines \ {g} : pend'[h] = pend[h]
  BY DEF Stamps, Stamp, Stamped, Row

\* A worker's step leaves the stamped upserts of the others alone.
LEMMA WorkerStamps ==
    ASSUME Stamps, WorkerTypeOK, clock \in Nat, NEW w \in Workers, WorkerTake(w) \/ WorkerStep(w),
           UNCHANGED sweepVars
    PROVE  Stamps'
  <1>0. w \in Goroutines /\ w \notin Sweepers
    BY WorkersAssumption, NodeAssumption
  <1>1. \A v \in Workers \ {w} : wpc'[v] = wpc[v]
    BY DEF WorkerTake, WorkerStep, TakeContact, TakeGetPeers, TakeAnnounce, StoreContact, AnswerContact,
           GetPeersRows, GetPeersNear, Verify, Finish, Goto, workerVars, WorkerTypeOK
  <1>2. /\ pend' = [g \in Goroutines |-> pend'[g]]
        /\ \A g \in Goroutines \ {w} : pend'[g] = pend[g]
    BY <1>0 DEF WorkerTake, WorkerStep, TakeContact, TakeGetPeers, TakeAnnounce, StoreContact, AnswerContact,
           GetPeersRows, GetPeersNear, Verify, Stamp, UpsertNode, UpsertPanics, Panic,
           storeVars, Stamps
  <1>3. wpc'[w] = "upsert" => pend'[w] \in Stamped
    <2>1. ASSUME NEW q \in Queries, TakeContact(w, q) PROVE wpc'[w] = "upsert" => pend'[w] \in Stamped
      <3>1. q.id \in Ids /\ q.addr \in Addrs /\ None \in Token
        BY WorkersAssumption DEF Query, Token
      <3>. QED  BY <1>0, <2>1, <3>1, StampReady DEF TakeContact, Goto, WorkerTypeOK
    <2>2. CASE UNCHANGED <<wpc, pend>>
      BY <2>2 DEF Stamps
    <2>3. CASE wpc'[w] # "upsert"
      BY <2>3
    <2>4. ASSUME NEW q \in Queries, TakeGetPeers(w, q) \/ TakeAnnounce(w, q) PROVE wpc'[w] # "upsert"
      BY <2>4 DEF TakeGetPeers, TakeAnnounce, Take, At, Goto, WorkerTypeOK
    <2>5. ASSUME WorkerStep(w), ~ UpsertPanics, ~ Panic PROVE wpc'[w] # "upsert"
      BY <2>5 DEF WorkerStep, StoreContact, AnswerContact, GetPeersRows, GetPeersNear,
                  Verify, Finish, Goto, WorkerTypeOK
    <2>6. ASSUME WorkerStep(w), Panic PROVE UNCHANGED <<wpc, pend>> \/ wpc'[w] # "upsert"
      BY <2>6 DEF WorkerStep, StoreContact, AnswerContact, GetPeersRows, GetPeersNear,
                  Verify, Finish, Goto, Panic, workerVars, WorkerTypeOK
    <2>. QED  BY <2>1, <2>2, <2>3, <2>4, <2>5, <2>6 DEF WorkerTake, UpsertPanics
  <1>4. \A s \in Sweepers : s \in Goroutines \ {w}
    BY <1>0, SweepAssumption
  <1>5. \A v \in Workers \ {w} : v \in Goroutines \ {w}
    BY WorkersAssumption
  <1>. QED  BY <1>1, <1>2, <1>3, <1>4, <1>5 DEF Stamps, sweepVars

\* Going on with a bucket, or with the next one, is no step to an upsert.
LEMMA ContinueMoves ==
    ASSUME Stamps, NEW s \in Sweepers, NEW pc, pc # "exec", NEW ws, Continue(s, pc, ws)
    PROVE  /\ spc' = [t \in Sweepers |-> spc'[t]] /\ spc'[s] # "exec"
           /\ \A t \in Sweepers \ {s} : spc'[t] = spc[t]
  <1>1. PICK to : spc' = [spc EXCEPT ![s] = to] /\ to # "exec"
    <2>1. CASE ws # <<>>
      BY <2>1 DEF Continue
    <2>2. CASE ws = <<>>
      <3>1. /\ (IF sbucket[s] + 1 < Buckets THEN "list" ELSE "rest") # "exec"
            /\ spc' = [spc EXCEPT ![s] = IF sbucket[s] + 1 < Buckets THEN "list" ELSE "rest"]
        BY <2>2 DEF Continue
      <3>. QED  BY <3>1
    <2>. QED  BY <2>1, <2>2
  <1>. QED  BY <1>1 DEF Stamps

\* A sweeper's step leaves the stamped upserts of the others alone.
LEMMA SweeperStamps ==
    ASSUME Stamps, Fitting, clock \in Nat, NEW s \in Sweepers, Tick(s) \/ SweepStep(s), UNCHANGED workerVars
    PROVE  Stamps'
  <1>0. s \in Goroutines /\ \A w \in Workers : w \in Goroutines \ {s}
    BY SweepAssumption, WorkersAssumption, NodeAssumption
  <1>1. CASE UNCHANGED spc /\ UNCHANGED pend
    BY <1>1 DEF Stamps, workerVars
  <1>2. ASSUME /\ spc' = [t \in Sweepers |-> spc'[t]]
               /\ \A t \in Sweepers \ {s} : spc'[t] = spc[t]
               /\ pend' = [g \in Goroutines |-> pend'[g]]
               /\ \A g \in Goroutines \ {s} : pend'[g] = pend[g]
               /\ spc'[s] = "exec" => pend'[s] \in Stamped
        PROVE  Stamps'
    BY <1>0, <1>2, SweepAssumption DEF Stamps, workerVars
  <1>3. /\ pend' = [g \in Goroutines |-> pend'[g]]
        /\ \A g \in Goroutines \ {s} : pend'[g] = pend[g]
    BY DEF Tick, SweepStep, SweepRun, ListBucket, DeleteNode, DeletePeers, ProbeFails, ProbeAnswered, Learn,
           LearnExec, LearnPanics, Stamp, UpsertNode, UpsertPanics, Panic, storeVars, Stamps
  <1>4. CASE \E pc, ws : pc # "exec" /\ Continue(s, pc, ws)
    BY <1>2, <1>3, <1>4, ContinueMoves
  <1>5. ASSUME NEW to, to # "exec", spc' = [spc EXCEPT ![s] = to] PROVE Stamps'
    BY <1>2, <1>3, <1>5 DEF Stamps
  <1>6. CASE ListBucket(s)
    BY <1>4, <1>6 DEF ListBucket
  <1>7. CASE DeleteNode(s)
    BY <1>4, <1>5, <1>7 DEF DeleteNode
  <1>8. CASE DeletePeers(s) \/ ProbeFails(s)
    BY <1>4, <1>8 DEF DeletePeers, ProbeFails
  <1>9. CASE Tick(s) \/ \E resp \in Responses : ProbeAnswered(s, resp)
    BY <1>5, <1>9 DEF Tick, ProbeAnswered
  <1>10. CASE Learn(s)
    <2>0. Head(learned[s]) \in Contact
      BY <1>10 DEF Learn, Fitting, Fits
    <2>1. spc' = [spc EXCEPT ![s] = "exec"] /\ pend'[s] \in Stamped
      BY <1>0, <1>10, <2>0, StampReady DEF Learn, Contact
    <2>. QED  BY <1>2, <1>3, <2>1 DEF Stamps
  <1>11. CASE LearnExec(s)
    BY <1>4, <1>5, <1>11 DEF LearnExec
  <1>12. CASE LearnPanics(s)
    BY <1>1, <1>12 DEF LearnPanics, UpsertPanics, Panic, sweepVars
  <1>. QED
    BY <1>6, <1>7, <1>8, <1>9, <1>10, <1>11, <1>12 DEF SweepStep, SweepRun

-----------------------------------------------------------------------------
(* Sweepers                                                                *)

\* A bucket as the sweep reads it: every row once.
LEMMA Listing ==
    ASSUME StoreTypeOK, NEW b
    PROVE  LET r == ListRecentNodes(b) IN
           /\ IsFiniteSet(InBucket(b)) /\ Cardinality(InBucket(b)) \in Nat
           /\ r \in Seq(Ids) /\ Len(r) = Cardinality(InBucket(b))
           /\ \A i \in 1 .. Len(r) : r[i] \in InBucket(b)
           /\ \A i, j \in 1 .. Len(r) : r[i] = r[j] => i = j
  <1> DEFINE S == InBucket(b)
             n == Cardinality(S)
             r == ListRecentNodes(b)
  <1>1. IsFiniteSet(S) /\ n \in Nat /\ S \subseteq Ids
    BY StoreAssumption, FS_Subset, FS_CardinalityType DEF InBucket
  <1>2. \A id \in S : nodes[id].seen \in Nat
    BY DEF InBucket, StoreTypeOK, Row
  <1>3. Orders(SeenLater(S), S)
    BY <1>2 DEF Orders, SeenLater
  <1>4. r \in [1 .. n -> S] /\ \A i, j \in 1 .. n : r[i] = r[j] => i = j
    BY <1>1, <1>3, OrderByReturns DEF ListRecentNodes
  <1> HIDE DEF r, n, S
  <1>5. r \in Seq(S) /\ Len(r) = n
    BY <1>1, <1>4
  <1>. QED  BY <1>1, <1>4, <1>5 DEF r, n, S

\* One sweeper has moved, and to where it fits.
Moved(s) == \E pc, b, ws, ln :
    /\ spc' = [spc EXCEPT ![s] = pc]
    /\ sbucket' = [sbucket EXCEPT ![s] = b]
    /\ work' = [work EXCEPT ![s] = ws]
    /\ learned' = [learned EXCEPT ![s] = ln]
    /\ Fits(pc, b, ws, ln)

LEMMA MovedFits ==
    ASSUME SweepTypeOK, Fitting, NEW s \in Sweepers, Moved(s), sweeps' \in 0 .. MaxSweeps
    PROVE  /\ SweepTypeOK' /\ Fitting'
           /\ \A t \in Sweepers \ {s} : /\ spc'[t] = spc[t] /\ sbucket'[t] = sbucket[t]
                                       /\ work'[t] = work[t]
  <1>1. PICK pc, b, ws, ln : /\ spc' = [spc EXCEPT ![s] = pc]
                             /\ sbucket' = [sbucket EXCEPT ![s] = b]
                             /\ work' = [work EXCEPT ![s] = ws]
                             /\ learned' = [learned EXCEPT ![s] = ln]
                             /\ Fits(pc, b, ws, ln)
    BY DEF Moved
  <1>2. SweepTypeOK'
    BY <1>1 DEF SweepTypeOK, Fits
  <1>3. /\ spc'[s] = pc /\ sbucket'[s] = b /\ work'[s] = ws /\ learned'[s] = ln
        /\ \A t \in Sweepers \ {s} : /\ spc'[t] = spc[t] /\ sbucket'[t] = sbucket[t]
                                     /\ work'[t] = work[t] /\ learned'[t] = learned[t]
    BY <1>1 DEF SweepTypeOK
  <1>4. Fitting'
    <2>1. SUFFICES ASSUME NEW t \in Sweepers PROVE Fits(spc'[t], sbucket'[t], work'[t], learned'[t])
      BY DEF Fitting, Fits
    <2>2. CASE t = s
      BY <1>1, <1>3, <2>2
    <2>3. CASE t # s
      BY <1>3, <2>3 DEF Fitting
    <2>. QED  BY <2>2, <2>3
  <1>. QED  BY <1>2, <1>3, <1>4

\* Going on with this bucket, or with the next one
LEMMA ContinueTo ==
    ASSUME SweepTypeOK, NEW s \in Sweepers, NEW pc, NEW ws, Continue(s, pc, ws)
    PROVE  \/ spc'[s] = pc /\ sbucket'[s] = sbucket[s] /\ work'[s] = ws
           \/ ~ Deleting(spc'[s])
  <1>1. CASE ws # <<>>
    BY <1>1 DEF Continue, SweepTypeOK
  <1>2. CASE ws = <<>>
    <2>1. spc'[s] = IF sbucket[s] + 1 < Buckets THEN "list" ELSE "rest"
      BY <1>2 DEF Continue, SweepTypeOK
    <2>2. spc'[s] \in {"list", "rest"}
      BY <2>1
    <2>. QED  BY <2>2 DEF Deleting
  <1>. QED  BY <1>1, <1>2

\* Where it goes on fits, when this bucket's does.
LEMMA ContinueFits ==
    ASSUME SweepTypeOK, NEW s \in Sweepers, NEW pc, NEW ws, NEW ln \in Seq(Contact), Continue(s, pc, ws),
           learned' = [learned EXCEPT ![s] = ln],
           ws # <<>> => Fits(pc, sbucket[s], ws, ln)
    PROVE  Moved(s)
  <1>0. /\ sbucket[s] \in 0 .. Buckets - 1 /\ sbucket = [sbucket EXCEPT ![s] = sbucket[s]]
        /\ Buckets \in Nat \ {0}
    BY SweepAssumption DEF SweepTypeOK
  <1>1. CASE ws # <<>>
    <2>1. /\ spc' = [spc EXCEPT ![s] = pc] /\ work' = [work EXCEPT ![s] = ws]
          /\ sbucket' = [sbucket EXCEPT ![s] = sbucket[s]]
      BY <1>0, <1>1 DEF Continue
    <2>. QED  BY <1>1, <2>1 DEF Moved
  <1>2. CASE ws = <<>>
    <2> DEFINE next == sbucket[s] + 1
               b  == IF next < Buckets THEN next ELSE 0
               to == IF next < Buckets THEN "list" ELSE "rest"
    <2>1. /\ spc' = [spc EXCEPT ![s] = to] /\ work' = [work EXCEPT ![s] = <<>>]
          /\ sbucket' = [sbucket EXCEPT ![s] = b]
      BY <1>2 DEF Continue
    <2>2. to \in {"list", "rest"} /\ b \in 0 .. Buckets - 1
      BY <1>0
    <2> HIDE DEF to, b
    <2>3. Fits(to, b, <<>>, ln)
      BY <2>2 DEF Fits, Deleting
    <2>. QED  BY <2>1, <2>3 DEF Moved
  <1>. QED  BY <1>1, <1>2

\* Every step of a sweeper leads to where it fits.
LEMMA SweeperMoves ==
    ASSUME StoreTypeOK, SweepTypeOK, Fitting, NEW s \in Sweepers, Tick(s) \/ SweepStep(s)
    PROVE  (Moved(s) \/ UNCHANGED <<spc, sbucket, work, learned>>) /\ sweeps' \in 0 .. MaxSweeps
  <1> DEFINE Asked == Seq(Addrs \cup {None})
             Work  == Seq(Ids \cup Addrs \cup {None})
  <1>0. /\ Fits(spc[s], sbucket[s], work[s], learned[s])
        /\ sbucket[s] \in 0 .. Buckets - 1 /\ learned[s] \in Seq(Contact)
        /\ spc = [spc EXCEPT ![s] = spc[s]] /\ sbucket = [sbucket EXCEPT ![s] = sbucket[s]]
        /\ work = [work EXCEPT ![s] = work[s]] /\ learned = [learned EXCEPT ![s] = learned[s]]
    BY DEF Fitting, SweepTypeOK
  <1>1. Asked \subseteq Work /\ Seq(Ids) \subseteq Work
    OBVIOUS
  <1>2. ASSUME NEW ws \in Asked, UNCHANGED learned, Continue(s, "probe", ws) PROVE Moved(s)
    <2>1. ws # <<>> => Fits("probe", sbucket[s], ws, learned[s])
      BY <1>0, <1>1 DEF Fits, Deleting
    <2>. QED  BY <1>0, <1>2, <2>1, ContinueFits
  <1>3. ASSUME NEW ws \in Seq(Ids), \A i \in DOMAIN ws : Bucket[ws[i]] = sbucket[s],
               UNCHANGED learned, Continue(s, "delnode", ws)
        PROVE  Moved(s)
    <2>1. ws # <<>> => Fits("delnode", sbucket[s], ws, learned[s])
      BY <1>0, <1>1, <1>3 DEF Fits, Deleting
    <2>. QED  BY <1>0, <1>3, <2>1, ContinueFits
  <1>4. CASE Tick(s)
    <2>1. Fits("list", sbucket[s], work[s], learned[s])
      BY <1>0 DEF Fits, Deleting
    <2>2. Moved(s)
      BY <1>0, <1>4, <2>1 DEF Tick, Moved
    <2>3. sweeps' \in 0 .. MaxSweeps
      BY <1>4, SweepAssumption DEF Tick, SweepTypeOK
    <2>. QED  BY <2>2, <2>3
  <1>5. CASE ListBucket(s)
    <2> DEFINE rows == ListRecentNodes(sbucket[s])
               n == Len(rows)
    <2>1. /\ rows \in Seq(Ids) /\ n \in Nat
          /\ \A i \in 1 .. n : rows[i] \in InBucket(sbucket[s])
      BY Listing
    <2>2. \A i \in 1 .. n : nodes[rows[i]].addr \in Addrs /\ Bucket[rows[i]] = sbucket[s]
      BY <2>1 DEF InBucket, StoreTypeOK, Row
    <2> HIDE DEF rows
    <2>3. KSize \in Nat /\ Bootstrap \in Asked /\ <<>> \in Asked
      BY SweepAssumption
    <2>4. AddrsOf(rows) \in Asked /\ Padded(rows) \in Asked /\ Len(Padded(rows)) = KSize
      BY <2>1, <2>2, <2>3 DEF AddrsOf, Padded
    <2>5. ASSUME NEW fresh \in 0 .. n PROVE SubSeq(Padded(rows), fresh + 1, KSize) \in Asked
      BY <2>3, <2>4
    <2>6. ASSUME n > KSize
          PROVE  /\ SubSeq(rows, KSize + 1, n) \in Seq(Ids)
                 /\ \A i \in DOMAIN SubSeq(rows, KSize + 1, n) :
                       Bucket[SubSeq(rows, KSize + 1, n)[i]] = sbucket[s]
      <3> DEFINE ws == SubSeq(rows, KSize + 1, n)
      <3>1. KSize + 1 \in 1 .. n + 1
        BY <2>1, <2>3, <2>6
      <3>2. /\ ws \in Seq(Ids) /\ Len(ws) = n - KSize
            /\ \A i \in 1 .. n - KSize : ws[i] = rows[KSize + i]
        BY <2>1, <2>3, <3>1, <2>6
      <3>3. \A i \in 1 .. n - KSize : KSize + i \in 1 .. n
        BY <2>1, <2>3
      <3> HIDE DEF ws
      <3>4. DOMAIN ws = 1 .. n - KSize
        BY <3>2
      <3>5. \A i \in DOMAIN ws : Bucket[ws[i]] = sbucket[s]
        BY <2>2, <3>2, <3>3, <3>4
      <3>. QED  BY <3>2, <3>5 DEF ws
    <2>7. /\ UNCHANGED <<learned, sweeps>>
          /\ \/ n > KSize /\ Continue(s, "delnode", SubSeq(rows, KSize + 1, n))
             \/ \E ws \in Asked : Continue(s, "probe", ws)
             \/ Continue(s, "list", <<>>)
      BY <1>5, <2>3, <2>4, <2>5 DEF ListBucket, rows
    <2>8. Continue(s, "list", <<>>) => Moved(s)
      BY <1>0, <2>7, ContinueFits
    <2>. QED  BY <1>2, <1>3, <2>6, <2>7, <2>8 DEF SweepTypeOK
  <1>6. CASE DeleteNode(s) \/ DeletePeers(s)
    <2>1. /\ spc[s] \in {"delnode", "delpeers"} /\ work[s] \in Seq(Ids) /\ work[s] # <<>>
          /\ \A i \in DOMAIN work[s] : Bucket[work[s][i]] = sbucket[s]
          /\ UNCHANGED <<learned, sweeps>>
      BY <1>0, <1>6 DEF DeleteNode, DeletePeers, Fits, Deleting
    <2>2. /\ Tail(work[s]) \in Seq(Ids)
          /\ \A i \in DOMAIN Tail(work[s]) : Bucket[Tail(work[s])[i]] = sbucket[s]
      BY <2>1
    <2>3. Continue(s, "delnode", Tail(work[s])) => Moved(s)
      BY <1>3, <2>1, <2>2
    <2>4. Fits("delpeers", sbucket[s], work[s], learned[s])
      BY <1>0, <2>1 DEF Fits, Deleting
    <2>5. spc' = [spc EXCEPT ![s] = "delpeers"] /\ UNCHANGED <<work, sbucket>> => Moved(s)
      BY <1>0, <2>1, <2>4 DEF Moved
    <2>. QED  BY <1>6, <2>1, <2>3, <2>5 DEF DeleteNode, DeletePeers, SweepTypeOK
  <1>7. CASE ProbeFails(s)
    <2>1. Tail(work[s]) \in Asked
      BY <1>0, <1>7 DEF ProbeFails, Fits
    <2>. QED  BY <1>2, <1>7, <2>1 DEF ProbeFails, SweepTypeOK
  <1>8. ASSUME NEW resp \in Responses, ProbeAnswered(s, resp) PROVE Moved(s) /\ UNCHANGED sweeps
    <2>1. /\ work[s] \in Asked /\ work[s] # <<>>
          /\ Head(work[s]) \in Addrs /\ Tail(work[s]) \in Asked
      BY <1>0, <1>8 DEF ProbeAnswered, Fits
    <2> DEFINE c == Contacts(resp, Head(work[s]))
    <2>2. c \in Seq(Contact) /\ c # <<>>
      <3>1. /\ resp.id \in Ids \cup {None} /\ resp.tok \in Token /\ resp.listed \in Seq(Contact)
        BY SweepAssumption
      <3>2. resp.id # None => [id |-> resp.id, addr |-> Head(work[s]), tok |-> resp.tok] \in Contact
        BY <2>1, <3>1 DEF Contact
      <3>. QED  BY <1>8, <3>1, <3>2 DEF ProbeAnswered, Contacts
    <2> HIDE DEF c
    <2>3. Fits("learn", sbucket[s], Tail(work[s]), c)
      BY <1>0, <1>1, <2>1, <2>2 DEF Fits, Deleting
    <2>. QED  BY <1>0, <1>8, <2>3 DEF ProbeAnswered, Moved, c
  <1>9. CASE Learn(s)
    <2>1. Fits("exec", sbucket[s], work[s], learned[s])
      BY <1>0, <1>9 DEF Learn, Fits, Deleting
    <2>. QED  BY <1>0, <1>9, <2>1 DEF Learn, Moved, SweepTypeOK
  <1>10. CASE LearnExec(s)
    <2>0. Len(<<>>) = 0
      OBVIOUS
    <2>1. /\ work[s] \in Asked /\ learned[s] # <<>> /\ Tail(learned[s]) \in Seq(Contact)
          /\ learned' = [learned EXCEPT ![s] = Tail(learned[s])] /\ UNCHANGED sweeps
          /\ Len(learned[s]) > 1 => Tail(learned[s]) # <<>>
      <3>1. work[s] \in Asked /\ learned[s] # <<>> /\ learned[s] \in Seq(Contact)
        BY <1>0, <1>10 DEF LearnExec, Fits
      <3>2. Tail(learned[s]) \in Seq(Contact)
        BY <3>1
      <3>3. Len(learned[s]) > 1 => Tail(learned[s]) # <<>>
        <4>1. Len(learned[s]) > 1 => Len(Tail(learned[s])) > 0
          BY <3>1
        <4>2. Tail(learned[s]) = <<>> => Len(Tail(learned[s])) = 0
          BY <2>0, Zenon
        <4>. QED  BY <4>1, <4>2
      <3>. QED  BY <1>10, <3>1, <3>2, <3>3 DEF LearnExec
    <2>2. CASE Len(learned[s]) > 1
      <3>1. Fits("learn", sbucket[s], work[s], Tail(learned[s]))
        BY <1>0, <1>1, <2>1, <2>2 DEF Fits, Deleting
      <3>. QED  BY <1>0, <1>10, <2>1, <2>2, <3>1 DEF LearnExec, Moved, SweepTypeOK
    <2>3. CASE ~ (Len(learned[s]) > 1)
      <3>1. work[s] # <<>> => Fits("probe", sbucket[s], work[s], Tail(learned[s]))
        BY <1>0, <1>1, <2>1 DEF Fits, Deleting
      <3>. QED  BY <1>10, <2>1, <2>3, <3>1, ContinueFits DEF LearnExec, SweepTypeOK
    <2>. QED  BY <2>2, <2>3
  <1>11. CASE LearnPanics(s)
    BY <1>11 DEF LearnPanics, sweepVars, SweepTypeOK
  <1>. QED  BY <1>4, <1>5, <1>6, <1>7, <1>8, <1>9, <1>10, <1>11 DEF SweepStep, SweepRun, SweepTypeOK

-----------------------------------------------------------------------------
(* What a sweep spares                                                     *)

\* An upsert leaves a row.
LEMMA UpsertTyped ==
    ASSUME StoreTypeOK, NEW g \in Goroutines, pend[g] \in Stamped, UpsertNode(g)
    PROVE  /\ nodes' \in [Ids -> Row \cup {None}]
           /\ \A id \in Ids : nodes[id] # None => nodes'[id] # None
           /\ pend' \in [Goroutines -> Stamped \cup {None}]
  <1>1. pend[g].id \in Ids /\ pend[g].row \in Row
    BY DEF Stamped
  <1> DEFINE old == nodes[pend[g].id]
             new == Merged(old, pend[g].row)
  <1>2. old \in Row \cup {None}
    BY <1>1 DEF StoreTypeOK
  <1>3. new \in Row
    <2>1. CASE old # None /\ pend[g].row.tok = None
      BY <1>1, <1>2, <2>1 DEF Merged, Row
    <2>2. CASE ~ (old # None /\ pend[g].row.tok = None)
      <3>1. new = pend[g].row
        BY <2>2 DEF Merged
      <3>. QED  BY <1>1, <3>1
    <2>. QED  BY <2>1, <2>2
  <1>4. nodes' = [nodes EXCEPT ![pend[g].id] = new] /\ pend' = [pend EXCEPT ![g] = None]
    BY DEF UpsertNode
  <1> HIDE DEF new
  <1>5. new # None
    BY <1>3, StoreAssumption
  <1>. QED  BY <1>1, <1>3, <1>4, <1>5 DEF StoreTypeOK

\* The row a sweeper deletes is the first of those it has to delete, and one of the
\* bucket it is at.
Deletes(s) == /\ spc[s] = "delnode" /\ spc' = [spc EXCEPT ![s] = "delpeers"]
              /\ nodes' = [nodes EXCEPT ![Head(work[s])] = None]
              /\ UNCHANGED <<work, sbucket>>
              /\ work[s] \in Seq(Ids) /\ work[s] # <<>>
              /\ Head(work[s]) \in Ids /\ Bucket[Head(work[s])] = sbucket[s]

\* A step leaves every row there is, or is such a deletion.
LEMMA RowsKept ==
    ASSUME StoreTypeOK, Stamps, Fitting, Step
    PROVE  \/ \A id \in Ids : nodes[id] # None => nodes'[id] # None
           \/ \E s \in Sweepers : Deletes(s) /\ (Tick(s) \/ SweepStep(s))
  <1>1. CASE UNCHANGED nodes
    BY <1>1
  <1>2. ASSUME NEW g \in Goroutines, pend[g] \in Stamped, UpsertNode(g)
        PROVE  \A id \in Ids : nodes[id] # None => nodes'[id] # None
    BY <1>2, UpsertTyped
  <1>3. ASSUME NEW s \in Sweepers, Tick(s) \/ SweepStep(s)
        PROVE  \/ UNCHANGED nodes
               \/ pend[s] \in Stamped /\ UpsertNode(s)
               \/ Deletes(s)
    <2>1. CASE DeleteNode(s)
      <3>1. /\ work[s] \in Seq(Ids) /\ work[s] # <<>>
            /\ \A i \in DOMAIN work[s] : Bucket[work[s][i]] = sbucket[s]
        BY <2>1 DEF DeleteNode, Fitting, Fits, Deleting
      <3>2. Head(work[s]) \in Ids /\ Bucket[Head(work[s])] = sbucket[s]
        BY <3>1
      <3>. QED  BY <2>1, <3>1, <3>2 DEF DeleteNode, DeleteById, Deletes
    <2>2. CASE LearnExec(s) \/ LearnPanics(s)
      BY <2>2 DEF LearnExec, LearnPanics, UpsertPanics, Panic, Stamps
    <2>. QED
      BY <1>3, <2>1, <2>2 DEF Tick, SweepStep, SweepRun, ListBucket, DeletePeers, ProbeFails, ProbeAnswered,
                              Learn, storeVars
  <1>4. ASSUME NEW w \in Workers, WorkerTake(w) \/ WorkerStep(w)
        PROVE  UNCHANGED nodes \/ (pend[w] \in Stamped /\ UpsertNode(w))
    BY <1>4 DEF WorkerTake, WorkerStep, TakeContact, TakeGetPeers, TakeAnnounce, StoreContact, AnswerContact,
                GetPeersRows, GetPeersNear, Verify, At, UpsertPanics, Panic, storeVars,
                Stamps
  <1>5. CASE \E s \in Sweepers : Tick(s) \/ SweepStep(s)
    BY <1>1, <1>2, <1>3, <1>5, SweepAssumption
  <1>6. CASE \E w \in Workers : WorkerTake(w) \/ WorkerStep(w)
    BY <1>1, <1>2, <1>4, <1>6, WorkersAssumption
  <1>. QED
    BY <1>1, <1>5, <1>6 DEF Step, Stop, CloseDb, Exit, Kill, Main, Restart

\* A sweeper that does not move keeps what it spares, unless another deletes from its
\* bucket, which the history then says.
LEMMA OthersSpared ==
    ASSUME Histories, NEW t \in Sweepers, Spared(t),
           spc'[t] = spc[t], sbucket'[t] = sbucket[t], work'[t] = work[t],
           \/ \A id \in InBucket(sbucket[t]) : nodes'[id] # None
           \/ \E u \in Sweepers \ {t} : DeletesFrom(sbucket[t], u)
    PROVE  Spared(t)'
  <1>1. SUFFICES ASSUME Deleting(spc'[t]), ~ raced'[t]
                 PROVE  \E K \in SUBSET InBucket(sbucket[t])' : Spares(K, work'[t])
    BY DEF Spared
  <1>2. ~ raced[t] /\ ~ \E u \in Sweepers \ {t} : DeletesFrom(sbucket[t], u)
    BY <1>1 DEF Histories
  <1>3. PICK K \in SUBSET InBucket(sbucket[t]) : Spares(K, work[t])
    BY <1>1, <1>2 DEF Spared
  <1>4. K \in SUBSET InBucket(sbucket[t])'
    BY <1>2, <1>3 DEF InBucket
  <1>. QED  BY <1>3, <1>4

\* What a sweeper reads to delete leaves out the first rows of the bucket.
LEMMA ListSpares ==
    ASSUME StoreTypeOK, NEW b, KSize < Len(ListRecentNodes(b))
    PROVE  \E K \in SUBSET InBucket(b) :
              Spares(K, SubSeq(ListRecentNodes(b), KSize + 1, Len(ListRecentNodes(b))))
  <1> DEFINE rows == ListRecentNodes(b)
             n  == Len(rows)
             ws == SubSeq(rows, KSize + 1, n)
             K  == {rows[i] : i \in 1 .. KSize}
             f  == [i \in 1 .. KSize |-> rows[i]]
  <1>1. /\ rows \in Seq(Ids) /\ n \in Nat /\ KSize \in Nat /\ KSize < n
        /\ \A i \in 1 .. n : rows[i] \in InBucket(b)
        /\ \A i, j \in 1 .. n : rows[i] = rows[j] => i = j
    BY Listing, SweepAssumption
  <1> HIDE DEF rows
  <1>2. Len(ws) = n - KSize /\ ws \in Seq(Ids) /\ \A i \in 1 .. n - KSize : ws[i] = rows[KSize + i]
    BY <1>1
  <1>3. K \subseteq InBucket(b)
    BY <1>1
  <1>4. Cardinality(K) = KSize
    <2>1. f \in [1 .. KSize -> K] /\ \A x \in K : \E i \in 1 .. KSize : f[i] = x
      OBVIOUS
    <2>2. \A i, j \in 1 .. KSize : f[i] = f[j] => i = j
      BY <1>1
    <2>3. f \in Bijection(1 .. KSize, K)
      BY <2>1, <2>2, Fun_IsBij
    <2>4. ExistsBijection(1 .. KSize, K)
      BY <2>3 DEF ExistsBijection
    <2>. QED  BY <1>1, <2>4, FS_CountingElements
  <1>5. ASSUME NEW i \in DOMAIN ws PROVE ws[i] \notin K
    <2>1. i \in 1 .. n - KSize
      BY <1>1, <1>2
    <2>2. ws[i] = rows[KSize + i] /\ KSize + i \in 1 .. n /\ KSize + i \notin 1 .. KSize
      BY <1>1, <1>2, <2>1
    <2>3. \A j \in 1 .. KSize : j \in 1 .. n /\ rows[j] # ws[i]
      BY <1>1, <2>2
    <2>. QED  BY <2>3
  <1>. QED  BY <1>3, <1>4, <1>5 DEF Spares, rows

\* A sweeper deletes and goes on with what it read, and spares the same rows.
LEMMA SelfSpared ==
    ASSUME StoreTypeOK, SweepTypeOK, Fitting, Histories, NEW s \in Sweepers, Spared(s),
           Tick(s) \/ SweepStep(s)
    PROVE  Spared(s)'
  <1>1. SUFFICES ASSUME Deleting(spc'[s]), ~ raced'[s]
                 PROVE  \E K \in SUBSET InBucket(sbucket[s])' : Spares(K, work'[s])
    BY DEF Spared
  <1>2. CASE ListBucket(s)
    <2> DEFINE b == sbucket[s]
               rows == ListRecentNodes(b)
    <2>1. /\ KSize < Len(rows) /\ sbucket'[s] = b
          /\ work'[s] = SubSeq(rows, KSize + 1, Len(rows))
      <3>1. \A pc, ws : Continue(s, pc, ws) /\ ~ Deleting(pc) => ~ Deleting(spc'[s])
        BY ContinueTo
      <3>2. ~ Deleting("probe") /\ ~ Deleting("list")
        BY DEF Deleting
      <3>3. Len(rows) \in Nat /\ KSize \in Nat
        BY Listing, SweepAssumption
      <3>4. Len(rows) > KSize /\ Continue(s, "delnode", SubSeq(rows, KSize + 1, Len(rows)))
        BY <1>1, <1>2, <3>1, <3>2 DEF ListBucket
      <3>. QED  BY <1>1, <3>3, <3>4, ContinueTo
    <2>2. PICK K \in SUBSET InBucket(b) : Spares(K, SubSeq(rows, KSize + 1, Len(rows)))
      BY <2>1, ListSpares
    <2>3. K \in SUBSET InBucket(sbucket[s])'
      BY <1>2, <2>1 DEF ListBucket, storeVars, InBucket
    <2>. QED  BY <2>1, <2>2, <2>3
  <1>3. CASE DeleteNode(s) \/ DeletePeers(s)
    <2>1. Deleting(spc[s]) /\ ~ raced[s]
      <3>1. Deleting(spc[s])
        BY <1>3 DEF DeleteNode, DeletePeers, Deleting
      <3>. QED  BY <1>1, <3>1 DEF Histories
    <2>2. PICK K \in SUBSET InBucket(sbucket[s]) : Spares(K, work[s])
      BY <2>1 DEF Spared
    <2>3. work[s] \in Seq(Ids) /\ work[s] # <<>> /\ Head(work[s]) \in Ids
      BY <2>1 DEF Fitting, Fits
    <2>4. Head(work[s]) \notin K /\ Spares(K, Tail(work[s]))
      BY <2>2, <2>3 DEF Spares
    <2>5. sbucket'[s] = sbucket[s] /\ work'[s] \in {work[s], Tail(work[s])}
      BY <1>1, <1>3, ContinueTo DEF DeleteNode, DeletePeers
    <2>6. K \in SUBSET InBucket(sbucket[s])'
      <3>1. UNCHANGED nodes \/ nodes' = [nodes EXCEPT ![Head(work[s])] = None]
        BY <1>3 DEF DeleteNode, DeletePeers, DeleteById, storeVars
      <3>. QED  BY <2>2, <2>4, <2>5, <3>1 DEF InBucket, StoreTypeOK
    <2>. QED  BY <2>2, <2>4, <2>5, <2>6
  <1>4. CASE ProbeFails(s) \/ LearnExec(s)
    <2>1. ~ Deleting("probe") /\ ~ Deleting("learn")
      BY DEF Deleting
    <2>2. \/ Continue(s, "probe", Tail(work[s])) \/ Continue(s, "probe", work[s])
          \/ spc' = [spc EXCEPT ![s] = "learn"]
      BY <1>4 DEF ProbeFails, LearnExec
    <2>. QED  BY <1>1, <2>1, <2>2, ContinueTo DEF SweepTypeOK
  <1>5. CASE \/ Tick(s) \/ Learn(s) \/ LearnPanics(s)
             \/ \E resp \in Responses : ProbeAnswered(s, resp)
    BY <1>1, <1>5 DEF Tick, Learn, LearnPanics, ProbeAnswered, sweepVars, Deleting, SweepTypeOK
  <1>. QED  BY <1>2, <1>3, <1>4, <1>5 DEF SweepStep, SweepRun

-----------------------------------------------------------------------------
(* The invariant                                                           *)

\* A goroutine writes the node table only by deleting a row, or by running the
\* upsert it has stamped.
LEMMA NodeWrites ==
    ASSUME IInv, Step
    PROVE  \/ UNCHANGED nodes
           \/ \E id : DeleteById(id)
           \/ \E g \in Goroutines : pend[g] \in Stamped /\ UpsertNode(g)
  <1>1. ASSUME NEW s \in Sweepers, Tick(s) \/ SweepStep(s)
        PROVE  \/ UNCHANGED nodes
               \/ \E id : DeleteById(id)
               \/ pend[s] \in Stamped /\ UpsertNode(s)
    BY <1>1 DEF Tick, SweepStep, SweepRun, ListBucket, DeleteNode, DeletePeers, ProbeFails, ProbeAnswered,
                Learn, LearnExec, LearnPanics, UpsertPanics, Panic, storeVars, IInv, Stamps
  <1>2. ASSUME NEW w \in Workers, WorkerTake(w) \/ WorkerStep(w)
        PROVE  UNCHANGED nodes \/ (pend[w] \in Stamped /\ UpsertNode(w))
    BY <1>2 DEF WorkerTake, WorkerStep, TakeContact, TakeGetPeers, TakeAnnounce, StoreContact, AnswerContact,
                GetPeersRows, GetPeersNear, Verify, At, UpsertPanics, Panic, storeVars,
                IInv, Stamps
  <1>. QED
    BY <1>1, <1>2, SweepAssumption, WorkersAssumption
    DEF Step, Stop, CloseDb, Exit, Kill, Main, Restart

\* Every statement leaves rows in the tables, and every upsert is stamped in full.
LEMMA StoreTyped ==
    ASSUME StoreTypeOK, Stamps, Fitting, Step
    PROVE  StoreTypeOK'
  <1>. USE DEF StoreTypeOK
  <1> DEFINE Procs == {"up", "closing", "dbclosed", "exited", "panicked", "killed"}
  <1>1. ASSUME UNCHANGED <<nodes, pend, clock>>, proc' \in Procs
        PROVE  StoreTypeOK'
    BY <1>1
  <1>2. ASSUME NEW g \in Goroutines, pend[g] \in Stamped, UpsertNode(g), UNCHANGED <<clock, proc>>
        PROVE  StoreTypeOK'
    BY <1>2, UpsertTyped
  <1>3. ASSUME NEW g \in Goroutines, NEW id \in Ids, NEW addr \in Addrs, NEW tok \in Token,
               Stamp(g, id, addr, tok), UNCHANGED <<nodes, proc>>
        PROVE  StoreTypeOK'
    <2>0. clock \in Nat /\ clock' = clock + 1
      BY <1>3 DEF Stamp
    <2>1. pend'[g] \in Stamped /\ clock' \in Nat
      BY <1>3, <2>0, StampReady
    <2>2. pend' \in [Goroutines -> Stamped \cup {None}]
      BY <1>3, <2>1 DEF Stamp
    <2>. QED  BY <1>3, <2>1, <2>2
  <1>4. ASSUME NEW s \in Sweepers, Tick(s) \/ SweepStep(s)
        PROVE  StoreTypeOK'
    <2>0. s \in Goroutines
      BY SweepAssumption
    <2>1. CASE DeleteNode(s)
      <3>1. nodes' \in [Ids -> Row \cup {None}]
        BY <2>1 DEF DeleteNode, DeleteById
      <3>. QED  BY <2>1, <3>1 DEF DeleteNode
    <2>3. CASE Learn(s)
      <3>1. Head(learned[s]) \in Contact
        BY <2>3 DEF Learn, Fitting, Fits
      <3>. QED  BY <1>3, <2>0, <2>3, <3>1 DEF Learn, Contact
    <2>4. CASE LearnExec(s)
      BY <1>2, <2>0, <2>4 DEF LearnExec, Stamps
    <2>5. CASE LearnPanics(s)
      BY <2>5 DEF LearnPanics, UpsertPanics, Panic
    <2>. QED
      BY <1>4, <2>1, <2>3, <2>4, <2>5 DEF Tick, SweepStep, SweepRun, ListBucket, DeletePeers,
                                          ProbeFails, ProbeAnswered, storeVars
  <1>5. ASSUME NEW w \in Workers, WorkerTake(w) \/ WorkerStep(w)
        PROVE  StoreTypeOK'
    <2>0. w \in Goroutines
      BY WorkersAssumption
    <2>1. CASE UNCHANGED storeVars \/ Panic
      BY <2>1 DEF storeVars, Panic
    <2>2. ASSUME NEW q \in Queries, TakeContact(w, q) PROVE StoreTypeOK'
      <3>1. q.id \in Ids /\ q.addr \in Addrs /\ None \in Token
        BY WorkersAssumption DEF Query, Token
      <3>2. CASE q.idForm = "ok"
        BY <1>3, <2>0, <2>2, <3>1, <3>2 DEF TakeContact
      <3>3. CASE q.idForm # "ok"
        BY <2>2, <3>3 DEF TakeContact
      <3>. QED  BY <3>2, <3>3
    <2>3. CASE StoreContact(w)
      BY <1>2, <2>0, <2>1, <2>3 DEF StoreContact, UpsertPanics, Stamps, At
    <2>. QED
      BY <1>5, <2>1, <2>2, <2>3 DEF WorkerTake, WorkerStep, TakeGetPeers, TakeAnnounce, AnswerContact,
                                    GetPeersRows, GetPeersNear, Verify
  <1>6. CASE Stop \/ CloseDb \/ Exit \/ Kill
    BY <1>1, <1>6 DEF Stop, CloseDb, Exit, Kill, Main
  <1>7. CASE Restart
    BY <1>7 DEF Restart
  <1>. QED  BY <1>4, <1>5, <1>6, <1>7 DEF Step

\* A sweeper moves to where it fits, and no sweeper loses what it spares unseen.
LEMMA SweepsKept ==
    ASSUME TypeOK, Stamps, Sweeps, Step, Histories, NEW s \in Sweepers, Tick(s) \/ SweepStep(s)
    PROVE  SweepTypeOK' /\ Sweeps'
  <1>. USE DEF TypeOK, Sweeps
  <1>1. /\ SweepTypeOK' /\ Fitting'
        /\ \A t \in Sweepers \ {s} : /\ spc'[t] = spc[t] /\ sbucket'[t] = sbucket[t]
                                    /\ work'[t] = work[t]
    <2>1. CASE Moved(s)
      BY <2>1, SweeperMoves, MovedFits
    <2>2. CASE UNCHANGED <<spc, sbucket, work, learned>>
      BY <2>2, SweeperMoves DEF SweepTypeOK, Fitting
    <2>. QED  BY <2>1, <2>2, SweeperMoves
  <1>2. ASSUME NEW t \in Sweepers, t # s PROVE Spared(t)'
    <2>1. CASE \A id \in Ids : nodes[id] # None => nodes'[id] # None
      BY <1>1, <1>2, <2>1, OthersSpared DEF InBucket
    <2>2. CASE Deletes(s)
      <3>1. CASE sbucket[s] = sbucket[t]
        <4>1. DeletesFrom(sbucket[t], s)
          BY <2>2, <3>1 DEF Deletes, DeletesFrom, SweepTypeOK
        <4>. QED  BY <1>1, <1>2, <4>1, OthersSpared
      <3>2. CASE sbucket[s] # sbucket[t]
        <4>1. \A id \in InBucket(sbucket[t]) : nodes'[id] # None
          BY <2>2, <3>2 DEF Deletes, InBucket, StoreTypeOK
        <4>. QED  BY <1>1, <1>2, <4>1, OthersSpared
      <3>. QED  BY <3>1, <3>2
    <2>3. ASSUME NEW u \in Sweepers, Deletes(u), u # s PROVE FALSE
      <3>1. spc[u] = "delnode" /\ spc'[u] = "delpeers"
        BY <2>3 DEF Deletes, SweepTypeOK
      <3>. QED  BY <1>1, <2>3, <3>1
    <2>. QED  BY <2>1, <2>2, <2>3, RowsKept
  <1>3. Spared(s)'
    BY SelfSpared
  <1>. QED  BY <1>1, <1>2, <1>3

\* Every step keeps the invariant.
LEMMA NextKeeps == ASSUME IInv, [Next]_vars PROVE IInv'
  <1>. USE DEF IInv
  <1>1. CASE UNCHANGED vars
    <2>1. TypeOK' /\ Sweeps'
      BY <1>1 DEF vars, storeVars, sweepVars, workerVars, TypeOK, StoreTypeOK, SweepTypeOK, WorkerTypeOK, Sweeps,
                  Fitting, Spared, InBucket
    <2>2. Tables' /\ Stamps' /\ Handlers'
      BY <1>1 DEF vars, storeVars, sweepVars, workerVars, Tables, Stamps, Handlers, WorkerTypeOK, Busy, One
    <2>. QED  BY <2>1, <2>2
  <1>2. CASE Next
    <2>1. Step /\ Histories
      BY <1>2 DEF Next
    <2>2. Tables' /\ StoreTypeOK'
      BY <2>1, NodeWrites, TablesKept, StoreTyped DEF TypeOK, Sweeps
    <2>3. clock \in Nat
      BY DEF TypeOK, StoreTypeOK
    <2>4. ASSUME NEW s \in Sweepers, Tick(s) \/ SweepStep(s), UNCHANGED workerVars
          PROVE  Stamps' /\ Handlers' /\ SweepTypeOK' /\ Sweeps'
      <3>1. Stamps'
        BY <2>3, <2>4, SweeperStamps DEF Sweeps
      <3>2. Handlers'
        BY <2>1, <2>4, Stays DEF workerVars
      <3>3. SweepTypeOK' /\ Sweeps'
        BY <2>1, <2>4, SweepsKept
      <3>. QED  BY <3>1, <3>2, <3>3
    <2>5. ASSUME UNCHANGED <<spc, sbucket, work, learned, sweeps>>,
                 \A id \in Ids : nodes[id] # None => nodes'[id] # None
          PROVE  SweepTypeOK' /\ Sweeps'
      <3>1. \A t \in Sweepers : Spared(t)'
        BY <2>1, <2>5, OthersSpared DEF Sweeps, InBucket
      <3>. QED  BY <2>5, <3>1 DEF Sweeps, Fitting, TypeOK, SweepTypeOK
    <2>6. ASSUME NEW w \in Workers, WorkerTake(w) \/ WorkerStep(w), UNCHANGED sweepVars
          PROVE  Stamps' /\ Handlers' /\ SweepTypeOK' /\ Sweeps'
      <3>1. Stamps'
        BY <2>3, <2>6, WorkerStamps DEF Handlers
      <3>2. Handlers'
        BY <2>1, <2>6, WorkersKeep
      <3>3. \A id \in Ids : nodes[id] # None => nodes'[id] # None
        <4>1. ~ \E s \in Sweepers : Deletes(s)
          BY <2>6 DEF Deletes, sweepVars, TypeOK, SweepTypeOK
        <4>. QED  BY <2>1, <4>1, RowsKept DEF TypeOK, Sweeps
      <3>4. SweepTypeOK' /\ Sweeps'
        BY <2>5, <2>6, <3>3 DEF sweepVars
      <3>. QED  BY <3>1, <3>2, <3>4
    <2>7. CASE Stop \/ CloseDb \/ Exit \/ Kill
      <3>1. UNCHANGED <<nodes, pend, sweepVars, workerVars>>
        BY <2>7 DEF Stop, CloseDb, Exit, Kill, Main
      <3>2. SweepTypeOK' /\ Sweeps'
        BY <2>5, <3>1 DEF sweepVars
      <3>3. Stamps' /\ Handlers'
        BY <2>1, <3>1, Stays DEF Stamps, sweepVars, workerVars
      <3>. QED  BY <2>2, <3>2, <3>3 DEF TypeOK, Handlers
    <2>8. CASE Restart
      <3>1. Stamps'
        BY <2>8, SweepAssumption DEF Restart, SweepRestart, Starting, WorkerRestart, Stamps
      <3>2. Handlers'
        BY <2>8 DEF Restart, WorkerRestart, Handlers, WorkerTypeOK, Busy, One
      <3>3. /\ <<>> \in Seq(Ids \cup Addrs \cup {None}) /\ <<>> \in Seq(Contact)
            /\ RunSweeps \in {0, 1}
        BY DEF RunSweeps
      <3>4. SweepTypeOK'
        BY <2>8, <3>3, SweepAssumption DEF Restart, SweepRestart, Starting, Nothing, TypeOK, SweepTypeOK
      <3>5. \A s \in Sweepers : spc'[s] \in {"list", "rest"} /\ work'[s] = <<>> /\ learned'[s] = <<>>
        BY <2>8 DEF Restart, SweepRestart, Starting, Nothing
      <3>6. Sweeps'
        BY <3>4, <3>5 DEF Sweeps, Fitting, Fits, Spared, Deleting, SweepTypeOK
      <3>. QED  BY <2>2, <3>1, <3>2, <3>4, <3>6 DEF TypeOK, Handlers
    <2>9. TypeOK' <=> StoreTypeOK' /\ SweepTypeOK' /\ WorkerTypeOK'
      BY DEF TypeOK
    <2>. QED  BY <2>1, <2>2, <2>4, <2>6, <2>7, <2>8, <2>9 DEF Step, Handlers
  <1>. QED  BY <1>1, <1>2

\* The invariant holds in every reachable state.
THEOREM NodeInductive == Spec => []IInv
  BY AtStart, NextKeeps, PTL DEF Spec

-----------------------------------------------------------------------------
\* A worker sends at most one reply to a query, and one error more for each argument of
\* a get_peers that is of the wrong length, whatever fails and whatever the others do.
THEOREM RepliesOnce == Spec => []SingleReply
  <1>1. IInv => SingleReply
    BY DEF IInv, Handlers, One, SingleReply
  <1>. QED  BY <1>1, NodeInductive, PTL

\* No upsert takes from a row the token it has.
THEOREM TokensStay == Spec => TokenKept
  <1>1. ASSUME IInv, [Next]_vars, NEW id \in Ids,
               nodes[id] # None, nodes'[id] # None, nodes[id].tok # None
        PROVE  nodes'[id].tok # None
    <2>1. CASE UNCHANGED nodes
      BY <1>1, <2>1
    <2>2. ASSUME NEW i, DeleteById(i) PROVE nodes'[id].tok # None
      BY <1>1, <2>2 DEF IInv, Tables, DeleteById
    <2>3. ASSUME NEW g \in Goroutines, pend[g] \in Stamped, UpsertNode(g) PROVE nodes'[id].tok # None
      BY <1>1, <2>3, UpsertKeepsToken DEF IInv
    <2>. QED  BY <1>1, <2>1, <2>2, <2>3, NodeWrites DEF Next, vars, storeVars
  <1>2. IInv /\ [Next]_vars =>
           [\A id \in Ids : nodes[id] # None /\ nodes'[id] # None /\ nodes[id].tok # None
              => nodes'[id].tok # None]_vars
    BY <1>1
  <1>. QED  BY <1>2, NodeInductive, PTL DEF Spec, TokenKept

\* Every row, stamped upsert, list of work and query is of its type in every reachable
\* state, whatever is read, listed, stopped or killed.
THEOREM NodeTyped == Spec => []TypeOK
  <1>1. IInv => TypeOK
    BY DEF IInv
  <1>. QED  BY <1>1, NodeInductive, PTL

\* A bucket shrinks only to its size or above it, but for a sweep whose list went stale
\* because the other sweep deleted from that bucket meanwhile: of any number of rows,
\* refreshed or added at any moment, with any number of sweepers.
THEOREM FloorHolds == Spec => BucketFloor
  <1> DEFINE After(b) == {id \in Ids : nodes'[id] # None /\ Bucket[id] = b}
  <1>1. ASSUME IInv, [Next]_vars, NEW b \in 0 .. Buckets - 1,
               Cardinality(After(b)) < Cardinality(InBucket(b))
        PROVE  \/ Cardinality(After(b)) >= KSize
               \/ \E s \in Sweepers : DeletesFrom(b, s) /\ raced[s]
    <2>1. /\ IsFiniteSet(After(b)) /\ IsFiniteSet(InBucket(b))
          /\ Cardinality(After(b)) \in Nat /\ Cardinality(InBucket(b)) \in Nat
      BY StoreAssumption, FS_Subset, FS_CardinalityType DEF InBucket
    <2>2. ~ (InBucket(b) \subseteq After(b))
      <3>1. InBucket(b) \subseteq After(b) => Cardinality(InBucket(b)) <= Cardinality(After(b))
        BY <2>1, FS_Subset
      <3>. QED  BY <1>1, <2>1, <3>1
    <2>3. ~ \A id \in Ids : nodes[id] # None => nodes'[id] # None
      BY <2>2 DEF InBucket
    <2>4. PICK s \in Sweepers : Deletes(s)
      <3>1. Step
        BY <1>1, <2>3 DEF Next, vars, storeVars
      <3>. QED  BY <1>1, <2>3, <3>1, RowsKept DEF IInv, TypeOK, Sweeps
    <2>5. sbucket[s] = b
      <3>1. SUFFICES ASSUME sbucket[s] # b PROVE InBucket(b) \subseteq After(b)
        BY <2>2
      <3>. QED  BY <1>1, <2>4, <3>1 DEF Deletes, InBucket, IInv, TypeOK, StoreTypeOK
    <2>6. DeletesFrom(b, s)
      BY <1>1, <2>4, <2>5 DEF Deletes, DeletesFrom, IInv, TypeOK, SweepTypeOK
    <2>7. CASE raced[s]
      BY <2>6, <2>7
    <2>8. CASE ~ raced[s]
      <3>1. PICK K \in SUBSET InBucket(b) : Spares(K, work[s])
        BY <1>1, <2>4, <2>5, <2>8 DEF IInv, Sweeps, Spared, Deletes, Deleting
      <3>2. Head(work[s]) \notin K
        BY <2>4, <3>1 DEF Deletes, Spares
      <3>3. K \subseteq After(b)
        BY <1>1, <2>4, <3>1, <3>2 DEF Deletes, InBucket, IInv, TypeOK, StoreTypeOK
      <3>4. Cardinality(K) = KSize /\ Cardinality(K) <= Cardinality(After(b))
        BY <2>1, <3>1, <3>3, FS_Subset DEF Spares
      <3>5. KSize \in Nat
        BY SweepAssumption
      <3>. QED  BY <2>1, <3>4, <3>5
    <2>. QED  BY <2>7, <2>8
  <1>2. IInv /\ [Next]_vars =>
           [\A b \in 0 .. Buckets - 1 :
               LET after == {id \in Ids : nodes'[id] # None /\ Bucket[id] = b} IN
               Cardinality(after) < Cardinality(InBucket(b)) =>
                   \/ Cardinality(after) >= KSize
                   \/ \E s \in Sweepers : DeletesFrom(b, s) /\ raced[s]]_vars
    BY <1>1
  <1>. QED  BY <1>2, NodeInductive, PTL DEF Spec, BucketFloor

-----------------------------------------------------------------------------
(***************************************************************************)
(* The bucket arithmetic the sweep uses, for ids of any number of bytes of *)
(* any number of bits: GenerateNodeIDInBucket and xorBucket agree, so that *)
(* every sweep asks for ids of the bucket it is in, and the sweep's        *)
(* buckets are all there are.                                              *)
(***************************************************************************)

(***************************************************************************)
(* A bucket index is a byte and a bit of it.                               *)
(***************************************************************************)
LEMMA Division ==
    ASSUME NEW k \in 0 .. IdBits - 1
    PROVE  /\ k \div ByteBits \in Bytes
           /\ k % ByteBits \in 0 .. ByteBits - 1
           /\ k = (k \div ByteBits) * ByteBits + (k % ByteBits)
<1>1. IdBytes \in Nat \ {0} /\ ByteBits \in Nat \ {0}
    BY KBucketAssumption
<1>2. k \in Nat /\ k < IdBytes * ByteBits
    BY <1>1 DEF IdBits
<1> DEFINE q == k \div ByteBits
<1>3. /\ q \in Nat /\ k % ByteBits \in 0 .. ByteBits - 1
      /\ k = q * ByteBits + (k % ByteBits)
    BY <1>1, <1>2, Z3
<1>4. q < IdBytes
    <2>1. SUFFICES ASSUME q >= IdBytes PROVE FALSE
        BY <1>1, <1>3
    <2>2. q * ByteBits >= IdBytes * ByteBits
        BY <1>1, <1>3, <2>1
    <2> QED BY <1>1, <1>2, <1>3, <2>2
<1> QED BY <1>1, <1>3, <1>4 DEF Bytes

(***************************************************************************)
(* xor with the same id twice gives the other one back.                    *)
(***************************************************************************)
LEMMA XorTwice ==
    ASSUME NEW a \in NodeId, NEW m \in NodeId
    PROVE  Xor(a, m) \in NodeId /\ Xor(a, Xor(a, m)) = m
<1>1. Xor(a, m) \in NodeId
    BY DEF Xor, NodeId, Byte
<1>2. ASSUME NEW i \in Bytes PROVE Xor(a, Xor(a, m))[i] = m[i]
    BY DEF Xor, NodeId, Byte
<1>3. Xor(a, Xor(a, m)) = [i \in Bytes |-> Xor(a, Xor(a, m))[i]] /\ m = [i \in Bytes |-> m[i]]
    BY DEF Xor, NodeId
<1> QED BY <1>1, <1>2, <1>3

(***************************************************************************)
(* The bucket of an id whose distance has its highest one bit t in byte i. *)
(***************************************************************************)
LEMMA BucketOfDistance ==
    ASSUME NEW a, NEW n, NEW i \in Bytes, NEW t \in 0 .. ByteBits - 1,
           Xor(a, n) \in NodeId,
           t \in Xor(a, n)[i],
           \A l \in Xor(a, n)[i] : l <= t,
           \A j \in Bytes : j < i => Xor(a, n)[j] = {}
    PROVE  xorBucket(a, n) = i * ByteBits + (ByteBits - 1 - t)
<1> DEFINE d == Xor(a, n)
           x == CHOOSE y \in Bytes : d[y] # {} /\ \A j \in 0 .. y - 1 : d[j] = {}
<1>1. Bytes \subseteq Nat /\ \A y \in Bytes : 0 .. y - 1 \subseteq Bytes
    BY KBucketAssumption DEF Bytes
<1>2. d[i] # {} /\ \A j \in 0 .. i - 1 : d[j] = {}
    BY <1>1
<1>3. x \in Bytes /\ d[x] # {} /\ \A j \in 0 .. x - 1 : d[j] = {}
    BY <1>2
<1> HIDE DEF x
<1>4. x = i
    <2>1. ~ (x < i)
        BY <1>3
    <2>2. ~ (i < x)
        BY <1>1, <1>3
    <2> QED BY <1>1, <1>3, <2>1, <2>2
<1>5. (CHOOSE h \in d[i] : \A l \in d[i] : l <= h) = t
    <2>1. d[i] \subseteq Nat
        BY KBucketAssumption DEF NodeId, Byte
    <2> QED BY <2>1
<1>6. LeadingZeros(d[i]) = ByteBits - 1 - t
    BY <1>5 DEF LeadingZeros
<1>7. ~ \A y \in Bytes : d[y] = {}
    BY <1>2
<1>8. xorBucket(a, n) = x * ByteBits + LeadingZeros(d[x])
    BY <1>7 DEF xorBucket, x
<1> QED BY <1>4, <1>6, <1>8

(***************************************************************************)
(* The mask of bucket k has its highest one bit where bucket k wants it.   *)
(***************************************************************************)
LEMMA MaskShape ==
    ASSUME NEW k \in 0 .. IdBits - 1, NEW r \in NodeId
    PROVE  LET b == k \div ByteBits
               t == ByteBits - 1 - (k % ByteBits)
               m == Mask(k, r)
           IN  /\ m \in NodeId
               /\ t \in m[b]
               /\ \A l \in m[b] : l <= t
               /\ \A j \in Bytes : j < b => m[j] = {}
<1> DEFINE b == k \div ByteBits
           t == ByteBits - 1 - (k % ByteBits)
<1>1. b \in Bytes /\ t \in 0 .. ByteBits - 1
    BY Division, KBucketAssumption
<1>2. Bytes \subseteq Int
    BY DEF Bytes
<1>3. Mask(k, r) = [i \in Bytes |-> CASE i < b -> {}
                                      [] i = b -> {t} \cup (r[i] \cap 0 .. t - 1)
                                      [] i > b -> r[i]]
    BY DEF Mask
<1> HIDE DEF b, t
<1>4. Mask(k, r)[b] = {t} \cup (r[b] \cap 0 .. t - 1)
    BY <1>1, <1>2, <1>3
<1>5. ASSUME NEW j \in Bytes PROVE j < b => Mask(k, r)[j] = {}
    BY <1>1, <1>2, <1>3
<1>6. ASSUME NEW j \in Bytes PROVE j > b => Mask(k, r)[j] = r[j]
    BY <1>1, <1>2, <1>3
<1>7. ASSUME NEW j \in Bytes PROVE Mask(k, r)[j] \in Byte
    <2>1. r[j] \in Byte
        BY DEF NodeId
    <2>2. {t} \cup (r[b] \cap 0 .. t - 1) \in Byte
        BY <1>1, KBucketAssumption DEF Byte
    <2> QED BY <1>1, <1>2, <1>4, <1>5, <1>6, <2>1, <2>2 DEF Byte
<1>8. Mask(k, r) \in NodeId
    BY <1>3, <1>7 DEF NodeId
<1>9. \A l \in Mask(k, r)[b] : l <= t
    BY <1>1, <1>4, KBucketAssumption
<1> QED BY <1>4, <1>5, <1>8, <1>9 DEF b, t

(***************************************************************************)
(* The id that GenerateNodeIDInBucket draws for bucket k is an id, and     *)
(* xorBucket puts it into bucket k: at every byte boundary, for the first  *)
(* and the last bucket, and whatever the random bytes are.                 *)
(***************************************************************************)
THEOREM DrawnInBucket ==
    ASSUME NEW self \in NodeId, NEW k \in 0 .. IdBits - 1, NEW r \in NodeId
    PROVE  /\ GenerateNodeIDInBucket(self, k, r) \in NodeId
           /\ xorBucket(self, GenerateNodeIDInBucket(self, k, r)) = k
<1> DEFINE b == k \div ByteBits
           t == ByteBits - 1 - (k % ByteBits)
           m == Mask(k, r)
           n == GenerateNodeIDInBucket(self, k, r)
<1>1. /\ m \in NodeId /\ t \in m[b]
      /\ \A l \in m[b] : l <= t
      /\ \A j \in Bytes : j < b => m[j] = {}
    BY MaskShape
<1>2. b \in Bytes /\ t \in 0 .. ByteBits - 1
    BY Division, KBucketAssumption
<1>3. n = Xor(self, m)
    BY DEF GenerateNodeIDInBucket
<1>4. n \in NodeId /\ Xor(self, n) = m
    BY <1>1, <1>3, XorTwice
<1> HIDE DEF n, m, b, t
<1>5. xorBucket(self, n) = b * ByteBits + (ByteBits - 1 - t)
    BY <1>1, <1>2, <1>4, BucketOfDistance
<1>6. b * ByteBits + (ByteBits - 1 - t) = k
    <2>1. ByteBits \in Nat /\ k % ByteBits \in Nat /\ ByteBits - 1 - t = k % ByteBits
        BY Division, KBucketAssumption DEF t
    <2>2. k = b * ByteBits + (k % ByteBits)
        BY Division DEF b
    <2> QED BY <2>1, <2>2
<1> QED BY <1>4, <1>5, <1>6 DEF n

(***************************************************************************)
(* xorBucket gives a bucket of the sweep to every id but the node's own.   *)
(***************************************************************************)
THEOREM BucketRange ==
    ASSUME NEW self \in NodeId, NEW n \in NodeId, n # self
    PROVE  xorBucket(self, n) \in 0 .. IdBits - 1
<1> DEFINE d == Xor(self, n)
           Apart == {i \in Bytes : d[i] # {}}
<1>1. d \in NodeId
    BY XorTwice
<1>2. PICK i \in Apart : \A j \in Apart : i <= j
    <2>1. PICK j \in Bytes : self[j] # n[j]
        BY DEF NodeId
    <2>2. self[j] \subseteq Int /\ n[j] \subseteq Int
        BY <2>1 DEF NodeId, Byte
    <2>3. d[j] = (self[j] \ n[j]) \cup (n[j] \ self[j])
        BY DEF Xor
    <2>4. j \in Apart
        BY <2>1, <2>2, <2>3
    <2>5. Apart \subseteq Nat
        BY KBucketAssumption DEF Bytes
    <2> QED BY <2>4, <2>5, LeastElement
<1>3. PICK t \in d[i] : \A l \in d[i] : l <= t
    <2> DEFINE Down == {ByteBits - 1 - l : l \in d[i]}
    <2>1. d[i] # {} /\ d[i] \subseteq 0 .. ByteBits - 1
        BY <1>1, <1>2 DEF NodeId, Byte
    <2>2. Down # {} /\ Down \subseteq Nat
        BY <2>1, KBucketAssumption
    <2> HIDE DEF Down
    <2>3. PICK x \in Down : \A y \in Down : x <= y
        BY <2>2, LeastElement
    <2>4. PICK t \in d[i] : x = ByteBits - 1 - t
        BY DEF Down
    <2>5. ASSUME NEW l \in d[i] PROVE l <= t
        <3>1. ByteBits - 1 - l \in Down
            BY DEF Down
        <3> QED BY <2>1, <2>3, <2>4, <3>1, KBucketAssumption
    <2> QED BY <2>5
<1>4. i \in Bytes /\ t \in 0 .. ByteBits - 1
    BY <1>1, <1>2 DEF NodeId, Byte
<1>5. ASSUME NEW j \in Bytes, j < i PROVE d[j] = {}
    BY <1>2, <1>4, <1>5 DEF Bytes
<1>6. xorBucket(self, n) = i * ByteBits + (ByteBits - 1 - t)
    BY <1>1, <1>3, <1>4, <1>5, BucketOfDistance
<1>7. i * ByteBits + (ByteBits - 1 - t) \in 0 .. IdBits - 1
    <2>1. /\ IdBytes \in Nat /\ ByteBits \in Nat /\ i \in Nat /\ i + 1 <= IdBytes
          /\ ByteBits - 1 - t \in 0 .. ByteBits - 1
        BY <1>4, KBucketAssumption DEF Bytes
    <2>2. (i + 1) * ByteBits <= IdBytes * ByteBits /\ i * ByteBits \in Nat
        BY <2>1
    <2>3. (i + 1) * ByteBits = i * ByteBits + ByteBits
        BY <2>1
    <2> QED BY <2>1, <2>2, <2>3 DEF IdBits
<1> QED BY <1>6, <1>7

-----------------------------------------------------------------------------
(***************************************************************************)
(* Only the node's own id can be stored where no sweep comes, whatever     *)
(* nodes there are.                                                        *)
(***************************************************************************)
THEOREM OthersAreSwept == Spec => []OnlySelfUnswept
<1>1. OnlySelfUnswept
    <2>1. SUFFICES ASSUME NEW id \in Ids, id # SelfId
                   PROVE  Bucket[id] \in 0 .. Buckets - 1
        BY DEF OnlySelfUnswept
    <2> QED BY <2>1, BucketRange, BucketsAssumption
<1> QED BY <1>1, PTL

(***************************************************************************)
(* Every sweeper is at a bucket that exists.                               *)
(***************************************************************************)
SweepInRange == sbucket \in [Sweepers -> 0 .. Buckets - 1]

LEMMA ContinueInRange ==
    ASSUME SweepInRange, NEW s \in Sweepers, NEW pc, NEW ws, Continue(s, pc, ws)
    PROVE  SweepInRange'
BY SweepAssumption DEF SweepInRange, Continue

LEMMA SweepersInRange == Spec => []SweepInRange
<1>1. Init => SweepInRange
    BY SweepAssumption DEF Init, SweepStart, SweepInRange
<1>2. SweepInRange /\ [Next]_vars => SweepInRange'
    <2> SUFFICES ASSUME SweepInRange, [Next]_vars PROVE SweepInRange'
        OBVIOUS
    <2>1. CASE UNCHANGED sbucket
        BY <2>1 DEF SweepInRange
    <2>2. CASE SweepRestart
        BY <2>2, SweepAssumption DEF SweepRestart, SweepInRange
    <2>3. ASSUME NEW s \in Sweepers, Tick(s) \/ SweepStep(s) PROVE SweepInRange'
        <3>1. CASE \E pc, ws : Continue(s, pc, ws)
            BY <3>1, ContinueInRange
        <3>2. CASE ListBucket(s)
            BY <3>1, <3>2 DEF ListBucket
        <3>3. CASE DeleteNode(s)
            BY <2>1, <3>1, <3>3 DEF DeleteNode
        <3>4. CASE DeletePeers(s) \/ ProbeFails(s)
            BY <3>1, <3>4 DEF DeletePeers, ProbeFails
        <3>5. CASE LearnExec(s)
            BY <2>1, <3>1, <3>5 DEF LearnExec
        <3>6. CASE Tick(s) \/ Learn(s) \/ LearnPanics(s) \/ \E resp \in Responses : ProbeAnswered(s, resp)
            BY <2>1, <3>6 DEF Tick, Learn, LearnPanics, ProbeAnswered, sweepVars
        <3> QED BY <2>3, <3>2, <3>3, <3>4, <3>5, <3>6 DEF SweepStep, SweepRun
    <2> QED BY <2>1, <2>2, <2>3
        DEF Next, Step, Stop, CloseDb, Exit, Kill, Main, Restart, vars, sweepVars
<1> QED BY <1>1, <1>2, PTL DEF Spec

(***************************************************************************)
(* Every find_node a sweep sends asks for an id of the bucket being swept, *)
(* for every length of ids, every own id and any number of sweeps.         *)
(***************************************************************************)
THEOREM ProbesHitTheirBucket == Spec => []ProbeTargets
<1>1. SweepInRange => ProbeTargets
    <2>1. SUFFICES ASSUME SweepInRange, NEW s \in Sweepers
                   PROVE  /\ InRange(sbucket[s])
                          /\ \A random \in NodeId :
                                xorBucket(SelfId, GenerateNodeIDInBucket(SelfId, sbucket[s], random)) = sbucket[s]
        BY DEF ProbeTargets
    <2>2. sbucket[s] \in 0 .. IdBits - 1 /\ IdBits \in Int
        BY <2>1, BucketsAssumption, KBucketAssumption DEF SweepInRange, IdBits
    <2>3. InRange(sbucket[s])
        BY <2>2 DEF InRange
    <2>4. ASSUME NEW random \in NodeId
          PROVE  xorBucket(SelfId, GenerateNodeIDInBucket(SelfId, sbucket[s], random)) = sbucket[s]
        BY <2>2, DrawnInBucket, BucketsAssumption
    <2> QED BY <2>3, <2>4
<1> QED BY <1>1, SweepersInRange, PTL
=============================================================================
