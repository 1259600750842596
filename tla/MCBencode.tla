----------------------------- MODULE MCBencode ------------------------------
(***************************************************************************)
(* Instance of Bencode for TLC: all concatenations of a few pieces, alone  *)
(* and as the inside of a dictionary.                                      *)
(***************************************************************************)
EXTENDS Bencode

MCChars == <<"+", "-", "0", "1", "2", "3", "4", "5", "6", "7", "8", "9", ":", "d", "e", "i", "l">>

Pieces == {<<"d">>, <<"l">>, <<"e">>, <<":">>, <<"0", ":">>, <<"1", ":", "1">>,
           <<"1", ":", "e">>, <<"i", "1", "e">>, <<"i", "0", "2", "e">>, <<"i", "-", "0", "e">>,
           <<"i", "-", "1", "e">>,
           <<"+", "1">>, <<"2", "2", ":">>}

Joined(n) == {FlattenSeq(ps) : ps \in [1 .. n -> Pieces]}
InDict(s) == <<"d">> \o s \o <<"e">>
MCInputs == UNION {Joined(n) : n \in 1 .. 3} \cup {InDict(s) : s \in UNION {Joined(n) : n \in 1 .. 4}}
=============================================================================
