------------------------------ MODULE DHTNode -------------------------------
(***************************************************************************)
(* The DHT service as one process: the sweepers and the workers run        *)
(* concurrently on the same table.  The process may panic or be            *)
(* killed between any two statements; main may also stop it in order,      *)
(* which closes the database under the goroutines that still run.  It is   *)
(* started again on the table it left behind.                              *)
(***************************************************************************)
EXTENDS BucketSweep, QueryWorkers

CONSTANTS InitTables,  \* tables a run may start from: a set of nodes functions
          MaxStops     \* bound: orderly stops

ASSUME NodeAssumption ==
    /\ Workers \cap Sweepers = {}
    /\ InitTables \subseteq [Ids -> Row \cup {None}]

VARIABLES stops,   \* orderly stops so far
          raced    \* history: another sweep has deleted from the bucket since
                   \* this sweeper read what it is deleting

vars == <<storeVars, sweepVars, workerVars, stops, raced>>

TypeOK == StoreTypeOK /\ SweepTypeOK /\ WorkerTypeOK

Init == /\ nodes \in InitTables
        /\ clock = Cardinality(Ids)
        /\ pend = [g \in Goroutines |-> None]
        /\ proc = "up"
        /\ SweepStart
        /\ WorkerStart /\ nq = 0
        /\ stops = 0
        /\ raced = [s \in Sweepers |-> FALSE]

-----------------------------------------------------------------------------
(* main                                                                    *)

\* A step of main, which touches no state of the goroutines.
Main(from, to) == /\ proc = from
                  /\ proc' = to
                  /\ UNCHANGED <<nodes, clock, pend, sweepVars, workerVars>>

\* A signal, or the gRPC port cannot be opened once the goroutines run: run
\* returns, cancels the context and closes the socket.  Workers may still take
\* what is queued (select picks any ready case), the ticker has no context.
Stop == stops < MaxStops /\ Main("up", "closing") /\ stops' = stops + 1

\* The last deferred call closes the database; then the process ends.
CloseDb == Main("closing", "dbclosed") /\ UNCHANGED stops
Exit    == Main("dbclosed", "exited") /\ UNCHANGED stops

\* The process is killed, or its machine stops, at any moment.
Kill == up /\ Main(proc, "killed") /\ UNCHANGED stops

\* A new process starts on the table that is there.
Restart == /\ ~ up
           /\ proc' = "up"
           /\ pend' = [g \in Goroutines |-> None]
           /\ SweepRestart /\ WorkerRestart
           /\ UNCHANGED <<nodes, clock, nq, stops>>

-----------------------------------------------------------------------------
Step == \/ \E s \in Sweepers : (Tick(s) \/ SweepStep(s)) /\ UNCHANGED <<workerVars, stops>>
        \/ \E w \in Workers : (WorkerTake(w) \/ WorkerStep(w)) /\ UNCHANGED <<sweepVars, stops>>
        \/ Stop
        \/ CloseDb
        \/ Exit
        \/ Kill
        \/ Restart

Deleting(pc) == pc \in {"delnode", "delpeers"}
DeletesFrom(b, s) == spc[s] = "delnode" /\ spc'[s] = "delpeers" /\ sbucket[s] = b

Histories ==
    /\ raced' = [s \in Sweepers |->
                    /\ Deleting(spc[s]) /\ Deleting(spc'[s])
                    /\ raced[s] \/ \E t \in Sweepers \ {s} : DeletesFrom(sbucket[s], t)]

Next == Step /\ Histories

Spec == Init /\ [][Next]_vars

\* Every goroutine that can run does; no node has to answer, nobody has to stop
\* the process, and nobody has to start a dead one again.
Fairness ==
    /\ \A s \in Sweepers : WF_vars(SweepRun(s) /\ UNCHANGED <<workerVars, stops>> /\ Histories)
    /\ \A w \in Workers : WF_vars(WorkerStep(w) /\ UNCHANGED <<sweepVars, stops>> /\ Histories)

FairSpec == Spec /\ Fairness

-----------------------------------------------------------------------------
(* Properties                                                              *)

\* Deleting never leaves a bucket below its size, even when rows were refreshed
\* or added after the sweep read the bucket.  The only exception is a sweep whose
\* list went stale because the other sweep deleted from that bucket meanwhile.
BucketFloor ==
    [][\A b \in 0 .. Buckets - 1 :
          LET after == {id \in Ids : nodes'[id] # None /\ Bucket[id] = b} IN
          Cardinality(after) < Cardinality(InBucket(b)) =>
              \/ Cardinality(after) >= KSize
              \/ \E s \in Sweepers : DeletesFrom(b, s) /\ raced[s]]_vars

\* A token that a node handed us stays with its row as long as the row exists:
\* no later ping, find_node or listing of that node erases it.
TokenKept ==
    [][\A id \in Ids : nodes[id] # None /\ nodes'[id] # None /\ nodes[id].tok # None
          => nodes'[id].tok # None]_vars

\* A query gets at most one reply, apart from the error that a get_peers gets for
\* each of its arguments that is of the wrong length.
WrongLengths(q) == IF q.q = "get_peers"
                   THEN Cardinality({f \in {"idForm", "hashForm"} : q[f] \in {"long", "short"}})
                   ELSE 0
SingleReply ==
    \A w \in Workers : wq[w] # None => Len(replies[w]) <= 1 + WrongLengths(wq[w])

\* A sweep reaches its end, whatever fails on the way, or the process died.
SweepEnds == \A s \in Sweepers : spc[s] # "rest" ~> spc[s] = "rest" \/ ~ up

\* A worker gets to its next query, or the process died.
QueryEnds == \A w \in Workers : wpc[w] # "idle" ~> wpc[w] = "idle" \/ ~ up
=============================================================================
