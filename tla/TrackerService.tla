--------------------------- MODULE TrackerService ---------------------------
(***************************************************************************)
(* The tracker as one process: the UDP side, the gRPC calls of the web     *)
(* service, the clean-up loop, and main, which starts them, waits for a    *)
(* signal and takes them down in the order of its deferred calls.          *)
(*                                                                         *)
(* Nothing writes the table of peers yet, so a statement on it has an      *)
(* outcome and no effect.                                                  *)
(***************************************************************************)
EXTENDS UDPTracker

CONSTANTS Rpcs,        \* goroutines that serve gRPC calls
          DbOutcomes,  \* whether statements may fail: {TRUE} or {TRUE, FALSE}
          MaxStarts    \* bound: starts of the process

ASSUME TrackerAssumption == /\ TRUE \in DbOutcomes
                            /\ DbOutcomes \subseteq BOOLEAN
                            /\ MaxStarts \in Nat \ {0}

VARIABLES proc,     \* how far main is
          rpc,      \* the statement each call is at, or "idle"
          cleanup,  \* CleanupLoop is running
          starts

vars == <<udpVars, proc, rpc, cleanup, starts>>

\* main returns through its deferred calls: close(done), Close, sqlDB.Close.
Phases == {"starting", "serving", "draining", "done", "udpclosed", "dbclosed", "ended"}

alive   == proc # "ended"
dbOpen  == proc \notin {"dbclosed", "ended"}
MayFail == FALSE \in DbOutcomes \/ ~ dbOpen

TypeOK == /\ UDPTypeOK
          /\ proc \in Phases
          /\ rpc \in [Rpcs -> {"idle", "peers", "seeders", "leechers", "torrents"}]
          /\ cleanup \in BOOLEAN
          /\ starts \in 1 .. MaxStarts

Init == /\ UDPInit
        /\ proc = "starting"
        /\ rpc = [r \in Rpcs |-> "idle"]
        /\ cleanup = TRUE
        /\ starts = 1

-----------------------------------------------------------------------------
(* gRPC calls                                                              *)

CallGoto(r, pc) == /\ rpc' = [rpc EXCEPT ![r] = pc]
                   /\ UNCHANGED <<udpVars, proc, cleanup, starts>>

\* A call starts, which it only can before GracefulStop: GetTorrentPeers, which
\* answers at once when it is given no hash, and GetStats.
Call(r) == /\ proc = "serving"
           /\ rpc[r] = "idle"
           /\ CallGoto(r, "peers") \/ CallGoto(r, "seeders")

\* Its next statement, ListPeersByTorrent or one of the three counts; after the
\* last one, or one that fails, the call is answered.
After_stuck == [peers |-> "idle", seeders |-> "leechers", leechers |-> "seeders", torrents |-> "idle"]
After       == [peers |-> "idle", seeders |-> "leechers", leechers |-> "torrents", torrents |-> "idle"]
Statement(r) == /\ alive
                /\ rpc[r] # "idle"
                /\ \/ dbOpen /\ CallGoto(r, After[rpc[r]])
                   \/ MayFail /\ CallGoto(r, "idle")

-----------------------------------------------------------------------------
(* CleanupLoop: a tick deletes from a table that nobody fills, or fails and *)
(* is logged, so only the end of the loop shows.                           *)

Cleanup == /\ proc \in {"done", "udpclosed", "dbclosed"}
           /\ cleanup
           /\ cleanup' = FALSE
           /\ UNCHANGED <<udpVars, proc, rpc, starts>>

-----------------------------------------------------------------------------
(* main                                                                    *)

Main(from, to) == /\ proc = from
                  /\ proc' = to
                  /\ UNCHANGED <<rpc, cleanup, starts>>

GrpcListen == Main("starting", "serving") /\ UNCHANGED udpVars
Signal     == Main("serving", "draining") /\ UNCHANGED udpVars

\* GracefulStop returns when the last call has been answered.
GracefulStop_atOnce == Main("draining", "done") /\ UNCHANGED udpVars
GracefulStop == /\ \A r \in Rpcs : rpc[r] = "idle"
                /\ Main("draining", "done")
                /\ UNCHANGED udpVars
CloseUDP == Main("done", "udpclosed") /\ UDPClose
CloseDb  == Main("udpclosed", "dbclosed") /\ UNCHANGED udpVars

\* The process ends, and nothing of it is left.
ProcessEnds(from) == /\ proc = from
                     /\ proc' = "ended"
                     /\ rpc' = [r \in Rpcs |-> "idle"]
                     /\ cleanup' = TRUE
                     /\ UDPLost
                     /\ UNCHANGED starts
Exit == ProcessEnds("dbclosed")

\* The process is killed; or main, or the goroutine of Serve, calls os.Exit,
\* which runs no deferred call, as when the gRPC port cannot be opened.
Kill == alive /\ ProcessEnds(proc)

Restart == /\ ~ alive
           /\ starts < MaxStarts
           /\ starts' = starts + 1
           /\ proc' = "starting"
           /\ UNCHANGED <<udpVars, rpc, cleanup>>

MainStep == GracefulStop \/ CloseUDP \/ CloseDb \/ Exit

-----------------------------------------------------------------------------
OthersUnchanged == UNCHANGED <<proc, rpc, cleanup, starts>>

Next == \/ alive /\ UDPStep /\ OthersUnchanged
        \/ \E r \in Rpcs : Call(r) \/ Statement(r)
        \/ Cleanup
        \/ GrpcListen
        \/ Signal
        \/ MainStep
        \/ Kill
        \/ Restart

Spec == Init /\ [][Next]_vars

\* Goroutines that can run do, and main goes on once it has its signal; nobody
\* has to send a datagram, a call or a signal, or to start a dead process.  Go's
\* mutex is given to a goroutine that has waited long: Lock is strongly fair.
Fairness == /\ \A h \in Handlers : /\ WF_vars(alive /\ HandlerStep(h) /\ OthersUnchanged)
                                  /\ SF_vars(alive /\ Lock(h) /\ OthersUnchanged)
            /\ \A r \in Rpcs : WF_vars(Statement(r))
            /\ WF_vars(MainStep)

FairSpec == Spec /\ Fairness

-----------------------------------------------------------------------------
(* Properties                                                              *)

\* No call of the web service ever meets the closed database: main's order of
\* stopping lets every call that was accepted be answered before.
RpcServed == \A r \in Rpcs : rpc[r] # "idle" => dbOpen \/ ~ alive

\* A handler that was started ends: it gets the mutex, and gives it back.
HandlerEnds == \A h \in Handlers : hpc[h] # "free" ~> hpc[h] = "free" \/ ~ alive

\* Once it has its signal the tracker stops, whatever calls it is serving.
StopEnds == proc = "draining" ~> ~ alive
=============================================================================
