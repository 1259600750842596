----------------------------- MODULE MCDHTNode ------------------------------
(***************************************************************************)
(* Instance of DHTNode for TLC: one bucket that keeps two rows, and three  *)
(* nodes that belong to it.                                                *)
(***************************************************************************)
EXTENDS DHTNode

CONSTANTS i1, i2, i3, a1, a2, t1

MCBucket == [id \in Ids |-> 0]

Known(addr, tok, seen) == [addr |-> addr, tok |-> tok, seen |-> seen]

\* One row too many, one row, no row.
MCInitTables ==
    {(i1 :> Known(a1, t1, 1)   @@ i2 :> Known(a2, None, 2) @@ i3 :> Known(a2, None, 3)),
     (i1 :> Known(a1, None, 1) @@ i2 :> None               @@ i3 :> None),
     (i1 :> None               @@ i2 :> None               @@ i3 :> None)}

MCBootstrap == <<a1>>

\* The first node answers with a token, the second names the third, and one
\* response has no usable id in it.
MCResponses ==
    {[id |-> i1,   tok |-> t1,   listed |-> <<>>],
     [id |-> i2,   tok |-> None, listed |-> <<[id |-> i3, addr |-> a2, tok |-> None]>>],
     [id |-> None, tok |-> None, listed |-> <<[id |-> i2, addr |-> a2, tok |-> None]>>]}

Ask(q, t, id, idForm, hashForm, tok) ==
    [q |-> q, t |-> t, id |-> id, idForm |-> idForm, hashForm |-> hashForm,
     tok |-> tok, addr |-> a1]

MCQueries ==
    {Ask("ping",          "ok",  i1, "ok",    "ok",    None),
     Ask("ping",          "bad", i2, "ok",    "ok",    None),
     Ask("ping",          "ok",  i3, "short", "ok",    None),
     Ask("find_node",     "ok",  i3, "ok",    "ok",    None),
     Ask("find_node",     "ok",  i3, "no_a",  "no_a",  None),
     Ask("get_peers",     "ok",  i1, "ok",    "ok",    t1),
     Ask("get_peers",     "ok",  i1, "ok",    "ok",    None),
     Ask("get_peers",     "ok",  i1, "long",  "long",  t1),
     Ask("get_peers",     "ok",  i1, "long",  "short", t1),
     Ask("get_peers",     "ok",  i1, "short", "ok",    t1),
     Ask("get_peers",     "ok",  i1, "no_a",  "no_a",  None),
     Ask("get_peers",     "bad", i1, "short", "ok",    t1),
     Ask("announce_peer", "ok",  i1, "ok",    "ok",    t1),
     Ask("announce_peer", "ok",  i1, "ok",    "short", t1),
     Ask("announce_peer", "ok",  i1, "ok",    "ok",    None),
     Ask("announce_peer", "bad", i1, "ok",    "ok",    t1)}
=============================================================================
