----------------------------- MODULE DHTBuckets -----------------------------
(***************************************************************************)
(* DHTNode with the bucket numbers the code computes: a node is stored in  *)
(* the bucket xorBucket gives it, the sweep goes through one bucket per    *)
(* bit of an id, and asks each node it probes for an id that               *)
(* GenerateNodeIDInBucket draws in the bucket it is sweeping.              *)
(***************************************************************************)
EXTENDS DHTNode, KBucket

CONSTANT SelfId  \* selfID: SHA1 of the address, the same after every start

ASSUME BucketsAssumption ==
    /\ SelfId \in NodeId
    /\ Ids \subseteq NodeId
    /\ Bucket = [id \in Ids |-> xorBucket(SelfId, id)]
    /\ Buckets = IdBits

\* Every find_node that a sweep sends asks for an id in the very bucket it wants
\* to fill, whatever the random bytes are: at the first and the last bucket, on
\* both sides of a byte boundary, and never for an index that is refused.
ProbeTargets ==
    \A s \in Sweepers : spc[s] = "probe" =>
        /\ InRange(sbucket[s])
        /\ \A random \in NodeId :
              xorBucket(SelfId, GenerateNodeIDInBucket(SelfId, sbucket[s], random)) = sbucket[s]

\* No node but this one is stored where the sweep does not come: our own id, that
\* others list to us, is the only row that is never probed and never deleted.
OnlySelfUnswept ==
    \A id \in Ids : nodes[id] # None /\ Bucket[id] \notin 0 .. Buckets - 1 => id = SelfId
=============================================================================
