----------------------------- MODULE MCTracker ------------------------------
(***************************************************************************)
(* Instance of TrackerService for TLC, with the theorems about it, so that *)
(* the assumptions they use are evaluated.                                 *)
(***************************************************************************)
EXTENDS TrackerProofs

Dgram(action, long, magic, id) ==
    [action |-> action, long |-> long, magic |-> magic, connID |-> id]

\* One that is answered, one that is looked up, one that is dropped.
MCPackets == {Dgram("connect", TRUE, TRUE, 0),
              Dgram("announce", TRUE, FALSE, 1),
              Dgram("scrape", TRUE, FALSE, 1)}
=============================================================================
