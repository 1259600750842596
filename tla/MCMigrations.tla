---------------------------- MODULE MCMigrations ----------------------------
(***************************************************************************)
(* Instance of Migrations for TLC.                                         *)
(***************************************************************************)
EXTENDS MigrationsProofs

CONSTANTS ta, tb, tc

MCTables == {ta, tb, tc}

Ln(kind, t, ine) == [kind |-> kind, creates |-> t, ifNotExists |-> ine]

\* First files: the shape of the dht-service's one (two statements over several
\* lines, the second without IF NOT EXISTS), all short sequences of lines that
\* create one table, and one without a final semicolon.
DhtFile == <<Ln("part", ta, TRUE), Ln("last", ta, TRUE), Ln("skip", ta, TRUE),
             Ln("part", tb, FALSE), Ln("skip", tb, FALSE), Ln("last", tb, FALSE)>>
Short == UNION {[1 .. n -> {Ln(k, ta, TRUE) : k \in {"skip", "part", "last"}}] : n \in 0 .. 3}
NoSemicolon == <<Ln("last", ta, TRUE), Ln("part", tb, TRUE)>>

\* A second file that creates another table, or fails on the first file's.
Second == {<<Ln("last", tc, FALSE)>>, <<Ln("last", tc, TRUE), Ln("last", ta, FALSE)>>}

MCTexts == {<<a, b>> : a \in Short \cup {DhtFile, NoSemicolon}, b \in Second}

\* The dht-service's only file.
MCDhtTexts == {<<DhtFile>>}
=============================================================================
