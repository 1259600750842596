----------------------------- MODULE NodeStore ------------------------------
(***************************************************************************)
(* The database of the DHT service: the table dht_nodes, the repository    *)
(* operations on it, and the process that uses it.  The table survives the *)
(* end of the process; everything else is lost.                            *)
(*                                                                         *)
(* The other table, dht_infohash, has no variable: the one statement that  *)
(* would write it comes after the verification of an announcement, which   *)
(* never returns (QueryWorkers), so it is empty whenever it is read.       *)
(*                                                                         *)
(* Every SQL statement is atomic; what a goroutine does between two        *)
(* statements is not.  An upsert in particular takes its time stamp        *)
(* (time.Now()) before the statement runs.                                 *)
(***************************************************************************)
EXTENDS Integers, Sequences, SequencesExt, OrderBy

CONSTANTS Ids,         \* node ids
          Bucket,      \* Bucket[id]: xorBucket(selfID, id)
          Addrs,       \* remote addresses
          Tokens,      \* tokens
          Goroutines,  \* workers and sweepers
          DbOutcomes,  \* whether statements may fail: {TRUE} or {TRUE, FALSE}
          None         \* NULL

Token == Tokens \cup {None}
Row   == [addr : Addrs, tok : Token, seen : Nat]

ASSUME StoreAssumption ==
    /\ IsFiniteSet(Ids)
    /\ Bucket \in [Ids -> Nat]
    /\ TRUE \in DbOutcomes /\ DbOutcomes \subseteq BOOLEAN
    /\ None \notin Row

VARIABLES nodes,  \* dht_nodes: id -> row, None when there is no row
          clock,  \* the last time stamp that was handed out
          pend,   \* the upsert each goroutine has stamped and not yet run
          proc    \* "up"; how far main's orderly stop has come; how the process ended

storeVars == <<nodes, clock, pend, proc>>

\* The goroutines run until the process has ended: nothing waits for them.
up     == proc \in {"up", "closing", "dbclosed"}
\* main's deferred sqlDB.Close: from then on every statement fails.
dbOpen == proc # "dbclosed"
MayFail == FALSE \in DbOutcomes \/ ~ dbOpen

Stamped == [id : Ids, row : Row]

StoreTypeOK ==
    /\ nodes \in [Ids -> Row \cup {None}]
    /\ clock \in Nat
    /\ pend \in [Goroutines -> Stamped \cup {None}]
    /\ proc \in {"up", "closing", "dbclosed", "exited", "panicked", "killed"}

-----------------------------------------------------------------------------
(* Reads                                                                   *)

InBucket(b) == {id \in Ids : nodes[id] # None /\ Bucket[id] = b}

\* ListRecentNodes: the ids of a bucket, the latest seen first.
SeenLater(ids) == {p \in ids \X ids : nodes[p[1]].seen > nodes[p[2]].seen}
ListRecentNodes(b) == OrderBy(InBucket(b), SeenLater(InBucket(b)))

-----------------------------------------------------------------------------
(* Writes                                                                  *)

\* The arguments of UpsertNode are evaluated: the row gets its time stamp.
Stamp(g, id, addr, tok) ==
    /\ clock' = clock + 1
    /\ pend' = [pend EXCEPT ![g] =
                  [id |-> id, row |-> [addr |-> addr, tok |-> tok, seen |-> clock + 1]]]

\* The row an upsert leaves behind: a NULL token keeps the stored one.
Merged_nullToken(old, new) == new
Merged(old, new) == IF old # None /\ new.tok = None THEN [new EXCEPT !.tok = old.tok] ELSE new

\* INSERT ... ON CONFLICT(node_id) DO UPDATE
UpsertNode(g) ==
    LET u == pend[g] IN
    /\ dbOpen
    /\ nodes' = [nodes EXCEPT ![u.id] = Merged(@, u.row)]
    /\ pend' = [pend EXCEPT ![g] = None]

DeleteById(id) == dbOpen /\ nodes' = [nodes EXCEPT ![id] = None]

\* A panic in any goroutine ends the process.
Panic == proc' = "panicked" /\ UNCHANGED <<nodes, clock, pend>>

\* UpsertNode asks the result of a failed statement for its row count: the
\* result is a nil interface then.
UpsertPanics == MayFail /\ Panic
=============================================================================
