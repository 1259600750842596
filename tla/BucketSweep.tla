---------------------------- MODULE BucketSweep -----------------------------
(***************************************************************************)
(* The periodic sweep of the K buckets, cleanExpiredNode.  For one bucket  *)
(* after the other it reads the rows, then deletes what exceeds the bucket *)
(* size, or asks nodes for more nodes with DoSend and stores whatever the  *)
(* responses name.                                                         *)
(*                                                                         *)
(* DoSend is used through what RequestReply promises of it: it fails, or   *)
(* it returns one response, from the address that was asked.               *)
(***************************************************************************)
EXTENDS NodeStore

CONSTANTS Sweepers,   \* goroutines that sweep: Run's first one and the ticker's
          First,      \* the sweeper of Run, which sweeps once
          Buckets,    \* the number of buckets, 160 in the code
          KSize,      \* rows a bucket keeps, 8 in the code
          KFew,       \* up to here a bucket counts as poor, 4 in the code
          Bootstrap,  \* sequence of bootstrap addresses
          Responses,  \* find_node responses that may come: [id, tok, listed]
          MaxSweeps   \* bound: sweeps started

\* A node as a response names it
Contact == [id : Ids, addr : Addrs, tok : Token]

ASSUME SweepAssumption ==
    /\ Buckets \in Nat \ {0}
    /\ KFew \in Nat /\ KSize \in Nat /\ 0 < KFew /\ KFew < KSize
    /\ Sweepers \subseteq Goroutines
    /\ Bootstrap \in Seq(Addrs)
    /\ Responses \subseteq [id : Ids \cup {None}, tok : Token, listed : Seq(Contact)]
    /\ MaxSweeps \in Nat /\ (First \in Sweepers => MaxSweeps > 0)

VARIABLES spc,      \* where each sweeper is
          sbucket,  \* the bucket it is at
          work,     \* the victims it still has to delete, or the addresses to ask
          learned,  \* contacts of a response that are still to be stored
          sweeps    \* sweeps started so far

sweepVars == <<spc, sbucket, work, learned, sweeps>>

SweepTypeOK ==
    /\ spc \in [Sweepers -> {"rest", "list", "delnode", "delpeers", "probe", "learn", "exec"}]
    /\ sbucket \in [Sweepers -> 0 .. Buckets - 1]
    /\ work \in [Sweepers -> Seq(Ids \cup Addrs \cup {None})]
    /\ learned \in [Sweepers -> Seq(Contact)]
    /\ sweeps \in 0 .. MaxSweeps

\* A process starts: Run sweeps at once, the ticker waits for its first tick.
Starting == [s \in Sweepers |-> IF s = First THEN "list" ELSE "rest"]
Nothing  == [s \in Sweepers |-> <<>>]
RunSweeps == IF First \in Sweepers THEN 1 ELSE 0
SweepStart == /\ spc = Starting
              /\ sbucket = [s \in Sweepers |-> 0]
              /\ work = Nothing
              /\ learned = Nothing
              /\ sweeps = RunSweeps
SweepRestart == /\ sweeps' = sweeps + RunSweeps
                /\ sweeps' <= MaxSweeps
                /\ spc' = Starting
                /\ sbucket' = [s \in Sweepers |-> 0]
                /\ work' = Nothing
                /\ learned' = Nothing

-----------------------------------------------------------------------------
\* Go on at step pc with the work ws of this bucket, or with the next bucket
\* when none is left; after the last bucket the sweep is over.
Continue_pastEnd(s, pc, ws) ==
    IF ws # <<>>
    THEN spc' = [spc EXCEPT ![s] = pc] /\ work' = [work EXCEPT ![s] = ws] /\ UNCHANGED sbucket
    ELSE /\ work' = [work EXCEPT ![s] = <<>>]
         /\ sbucket' = [sbucket EXCEPT ![s] = IF @ < Buckets THEN @ + 1 ELSE 0]
         /\ spc' = [spc EXCEPT ![s] = IF sbucket[s] < Buckets THEN "list" ELSE "rest"]
Continue(s, pc, ws) ==
    IF ws # <<>>
    THEN /\ spc' = [spc EXCEPT ![s] = pc]
         /\ work' = [work EXCEPT ![s] = ws]
         /\ UNCHANGED sbucket
    ELSE LET b == sbucket[s] + 1 IN
         /\ work' = [work EXCEPT ![s] = <<>>]
         /\ sbucket' = [sbucket EXCEPT ![s] = IF b < Buckets THEN b ELSE 0]
         /\ spc' = [spc EXCEPT ![s] = IF b < Buckets THEN "list" ELSE "rest"]

\* startCleanExpiredNodes: the ticker fires; a sweep in progress is not interrupted.
Tick(s) ==
    /\ up
    /\ s # First
    /\ spc[s] = "rest"
    /\ sweeps < MaxSweeps
    /\ sweeps' = sweeps + 1
    /\ spc' = [spc EXCEPT ![s] = "list"]
    /\ UNCHANGED <<sbucket, work, learned, storeVars>>

\* nodes[:8] of a slice with 5 to 7 rows reaches into its capacity: the missing
\* rows are zero values, without an address and never seen.
Padded(rows) == [i \in 1 .. KSize |-> IF i <= Len(rows) THEN nodes[rows[i]].addr ELSE None]

AddrsOf(rows) == [i \in 1 .. Len(rows) |-> nodes[rows[i]].addr]

\* Read the bucket and choose what to do with it.
ListBucket_offByOne(s) ==
    /\ up
    /\ spc[s] = "list"
    /\ LET rows == ListRecentNodes(sbucket[s]) IN
       IF Len(rows) > KSize
       THEN Continue(s, "delnode", SubSeq(rows, KSize, Len(rows)))
       ELSE Continue(s, "probe", AddrsOf(rows))
    /\ UNCHANGED <<learned, sweeps, storeVars>>
ListBucket(s) ==
    /\ up
    /\ spc[s] = "list"
    /\ LET rows == ListRecentNodes(sbucket[s])
           n    == Len(rows)
       IN  \/ dbOpen /\ n > KSize /\ Continue(s, "delnode", SubSeq(rows, KSize + 1, n))
           \/ /\ dbOpen /\ KFew < n /\ n <= KSize
              \* The rows last seen before the deadline: the oldest ones,
              \* however many, and every zero row.
              /\ \E fresh \in 0 .. n :
                    Continue(s, "probe", SubSeq(Padded(rows), fresh + 1, KSize))
           \/ dbOpen /\ 0 < n /\ n <= KFew /\ Continue(s, "probe", AddrsOf(rows))
           \/ dbOpen /\ n = 0 /\ Continue(s, "probe", Bootstrap)
           \/ MayFail /\ Continue(s, "list", <<>>)
    /\ UNCHANGED <<learned, sweeps, storeVars>>

\* deleteNodes, first statement: the node row.  On an error the node is skipped.
DeleteNode(s) ==
    /\ up
    /\ spc[s] = "delnode"
    /\ \/ /\ DeleteById(Head(work[s]))
          /\ spc' = [spc EXCEPT ![s] = "delpeers"]
          /\ UNCHANGED <<work, sbucket>>
       \/ /\ MayFail
          /\ Continue(s, "delnode", Tail(work[s]))
          /\ UNCHANGED nodes
    /\ UNCHANGED <<learned, sweeps, clock, pend, proc>>

\* deleteNodes, second statement: its infohash rows, of which there are none.
DeletePeers(s) ==
    /\ up
    /\ spc[s] = "delpeers"
    /\ Continue(s, "delnode", Tail(work[s]))
    /\ UNCHANGED <<learned, sweeps, storeVars>>

\* sendFindNode: DoSend fails or times out, or the node that was asked answers.
ProbeFails_never(s) == FALSE /\ UNCHANGED <<sweepVars, storeVars>>
ProbeFails(s) ==
    /\ up
    /\ spc[s] = "probe"
    /\ Continue(s, "probe", Tail(work[s]))
    /\ UNCHANGED <<learned, sweeps, storeVars>>
\* upsertRespDhtNode and handleFindNodeResp: store the sender when it gave a
\* well-formed id, then every listed contact, whoever it is.  A response that
\* names nobody is like none.
Contacts(resp, addr) ==
    (IF resp.id = None THEN <<>> ELSE <<[id |-> resp.id, addr |-> addr, tok |-> resp.tok]>>)
        \o resp.listed
ProbeAnswered(s, resp) ==
    /\ up
    /\ spc[s] = "probe"
    /\ Head(work[s]) # None
    /\ Contacts(resp, Head(work[s])) # <<>>
    /\ learned' = [learned EXCEPT ![s] = Contacts(resp, Head(work[s]))]
    /\ work' = [work EXCEPT ![s] = Tail(@)]
    /\ spc' = [spc EXCEPT ![s] = "learn"]
    /\ UNCHANGED <<sbucket, sweeps, storeVars>>

Learn(s) ==
    /\ up
    /\ spc[s] = "learn"
    /\ LET c == Head(learned[s]) IN Stamp(s, c.id, c.addr, c.tok)
    /\ spc' = [spc EXCEPT ![s] = "exec"]
    /\ UNCHANGED <<sbucket, work, learned, sweeps, nodes, proc>>
LearnExec(s) ==
    /\ up
    /\ spc[s] = "exec"
    /\ UpsertNode(s)
    /\ learned' = [learned EXCEPT ![s] = Tail(@)]
    /\ IF Len(learned[s]) > 1
       THEN spc' = [spc EXCEPT ![s] = "learn"] /\ UNCHANGED <<work, sbucket>>
       ELSE Continue(s, "probe", work[s])
    /\ UNCHANGED <<sweeps, clock, proc>>
LearnPanics(s) ==
    /\ up
    /\ spc[s] = "exec"
    /\ UpsertPanics
    /\ UNCHANGED sweepVars

\* What a sweeper does by itself, and what it does when a node answers.
SweepRun(s) == \/ ListBucket(s)
               \/ DeleteNode(s)
               \/ DeletePeers(s)
               \/ ProbeFails(s)
               \/ Learn(s)
               \/ LearnExec(s)
               \/ LearnPanics(s)

SweepStep(s) == SweepRun(s) \/ \E resp \in Responses : ProbeAnswered(s, resp)
=============================================================================
