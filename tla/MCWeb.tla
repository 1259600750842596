------------------------------- MODULE MCWeb --------------------------------
(***************************************************************************)
(* Instance of WebService for TLC, with the theorems about it, so that the *)
(* assumptions they use are evaluated.                                     *)
(***************************************************************************)
EXTENDS WebProofs

CONSTANTS u1, u2, h1, h2, h3, c1, c2

\* An empty database; and one with an account, whose owner has a token on two
\* clients, and two torrents of different seconds.
MCInitTables ==
    {[users |-> {}, torrents |-> <<>>, token |-> [c \in Clients |-> None]],
     [users |-> {u1},
      torrents |-> <<[hash |-> h1, by |-> u1, at |-> 2], [hash |-> h2, by |-> u1, at |-> 1]>>,
      token |-> [c \in Clients |-> u1]]}
=============================================================================
