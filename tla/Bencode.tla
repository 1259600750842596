------------------------------ MODULE Bencode -------------------------------
(***************************************************************************)
(* pkg/bencode: Decode and Encode on sequences of characters.  A decoded   *)
(* integer or string keeps the bytes it was decoded from (raw) and is      *)
(* encoded by them; one that the program builds has none.  A dictionary is *)
(* encoded with its keys sorted.                                           *)
(*                                                                         *)
(* Nodes refer to each other by pointers, so what was decoded is a         *)
(* function from pointers to nodes; the pointer to a decoded node is the   *)
(* position it was decoded at.  The recursions of the code are recursive   *)
(* functions of positions and pointers.                                    *)
(***************************************************************************)
EXTENDS OrderBy, SequencesExt

CONSTANTS Chars,   \* the characters, in the order of their bytes
          Inputs,  \* what Decode is called with
          IntMax,  \* the greatest int, 2^63 - 1 in the code
          None

VARIABLES data,   \* the input
          result  \* what Decode returned, None before

vars == <<data, result>>

Digits == <<"0", "1", "2", "3", "4", "5", "6", "7", "8", "9">>
DigitChars == {Digits[k] : k \in 1 .. 10}
Char == {Chars[k] : k \in DOMAIN Chars}
Text == Seq(Char)

ASSUME BencodeAssumption ==
    /\ Chars \in Seq(STRING)
    /\ \A i, j \in DOMAIN Chars : Chars[i] = Chars[j] => i = j
    /\ DigitChars \cup {"+", "-", ":", "d", "e", "i", "l"} \subseteq Char
    /\ IntMax \in Nat
    /\ \A s \in Inputs : s \in Text /\ Len(s) <= IntMax
    /\ None \notin Int

\* strconv.ParseInt and Atoi: an optional sign, then digits, within the range.
DigitValue(c) == CHOOSE v \in 0 .. 9 : Digits[v + 1] = c
Magnitude(ds) ==
    LET upTo[n \in 0 .. Len(ds)] == IF n = 0 THEN 0 ELSE 10 * upTo[n - 1] + DigitValue(ds[n])
    IN  upTo[Len(ds)]
Unsigned(text) == IF text # <<>> /\ text[1] \in {"+", "-"} THEN Tail(text) ELSE text
InRange(n) == IF - IntMax - 1 <= n /\ n <= IntMax THEN n ELSE None
Signed(n, text) == IF text[1] = "-" THEN - n ELSE n
NumberOf(text) ==
    IF Unsigned(text) # <<>> /\ \A k \in DOMAIN Unsigned(text) : Unsigned(text)[k] \in DigitChars
    THEN InRange(Signed(Magnitude(Unsigned(text)), text))
    ELSE None

\* The index of the first c after position p, the one after the end when there is none.
NextIndex(s, p, c) ==
    CHOOSE k \in p + 1 .. Len(s) + 1 : /\ k <= Len(s) => s[k] = c
                                       /\ \A j \in p + 1 .. k - 1 : s[j] # c

-----------------------------------------------------------------------------
(* Decode.  What a parser returns is [st, node, pos]: st is "ok", "error"  *)
(* or "panic", and pos is the number of characters consumed.               *)

Error == [st |-> "error", node |-> None, pos |-> 0]
Panic == [st |-> "panic", node |-> None, pos |-> 0]
Ok(node, pos) == [st |-> "ok", node |-> node, pos |-> pos]

ParseInt(s, p) ==
    LET e == NextIndex(s, p + 1, "e")
        text == SubSeq(s, p + 2, e - 1)
    IN  IF e > Len(s) \/ text = <<"-", "0">> \/ NumberOf(text) = None THEN Error
        ELSE Ok([type |-> "int", int |-> NumberOf(text), raw |-> SubSeq(s, p + 1, e)], e)

\* The end of the string is computed in an int: past IntMax it wraps around, the
\* bound check passes and the slice expression panics.
StringNode_offByOne(s, p, colon, n) ==
    IF n = None \/ n < 0 \/ colon + n >= Len(s) THEN Error
    ELSE Ok([type |-> "str", str |-> SubSeq(s, colon + 1, colon + n),
             raw |-> SubSeq(s, p + 1, colon + n)], colon + n)
StringNode_rawNoLength(s, p, colon, n) ==
    IF n = None \/ n < 0 \/ colon + n > Len(s) THEN Error
    ELSE Ok([type |-> "str", str |-> SubSeq(s, colon + 1, colon + n),
             raw |-> SubSeq(s, colon + 1, colon + n)], colon + n)
StringNode(s, p, colon, n) ==
    IF n = None \/ n < 0 THEN Error
    ELSE IF colon + n > IntMax THEN Panic
    ELSE IF colon + n > Len(s) THEN Error
    ELSE Ok([type |-> "str", str |-> SubSeq(s, colon + 1, colon + n),
             raw |-> SubSeq(s, p + 1, colon + n)], colon + n)
ParseString(s, p) ==
    LET colon == NextIndex(s, p, ":") IN
    IF colon > Len(s) THEN Error
    ELSE StringNode(s, p, colon, NumberOf(SubSeq(s, p + 1, colon - 1)))

\* The loops of parseList and parseDict from position p on: what is there up to the
\* next "e".  The key of a dictionary is parsed as a string whatever its first
\* character, and a repeated key overwrites the earlier one.
AddItem(item, rest) ==
    IF rest.st # "ok" THEN rest
    ELSE Ok([type |-> "list", list |-> <<item>> \o rest.node.list], rest.pos)
ParseItems(parsed, s, p) ==
    IF p >= Len(s) THEN Error
    ELSE IF s[p + 1] = "e" THEN Ok([type |-> "list", list |-> <<>>], p + 1)
    ELSE LET item == parsed[<<"value", p>>] IN
         IF item.st # "ok" THEN item ELSE AddItem(p, parsed[<<"items", item.pos>>])

AddPair(str, val, rest) ==
    IF rest.st # "ok" THEN rest
    ELSE LET dict == rest.node.dict IN
         Ok([type |-> "dict",
             dict |-> [k \in DOMAIN dict \cup {str} |-> IF k \in DOMAIN dict THEN dict[k] ELSE val]],
            rest.pos)
ParsePair(parsed, key) ==
    LET val == parsed[<<"value", key.pos>>] IN
    IF val.st # "ok" THEN val ELSE AddPair(key.node.str, key.pos, parsed[<<"pairs", val.pos>>])
ParsePairs(parsed, s, p) ==
    IF p >= Len(s) THEN Error
    ELSE IF s[p + 1] = "e" THEN Ok([type |-> "dict", dict |-> <<>>], p + 1)
    ELSE LET key == ParseString(s, p) IN
         IF key.st # "ok" THEN key ELSE ParsePair(parsed, key)

DecodeValue(parsed, s, p) ==
    IF p >= Len(s) THEN Error
    ELSE CASE s[p + 1] = "i" -> ParseInt(s, p)
           [] s[p + 1] = "l" -> parsed[<<"items", p + 1>>]
           [] s[p + 1] = "d" -> parsed[<<"pairs", p + 1>>]
           [] s[p + 1] \in DigitChars -> ParseString(s, p)
           [] OTHER -> Error

\* What each parser returns at each position.
Places(s) == {"value", "items", "pairs"} \X (0 .. Len(s))
Parsed(s) ==
    LET parsed[x \in Places(s)] ==
            CASE x[1] = "value" -> DecodeValue(parsed, s, x[2])
              [] x[1] = "items" -> ParseItems(parsed, s, x[2])
              [] x[1] = "pairs" -> ParsePairs(parsed, s, x[2])
    IN  parsed

\* The nodes: those that the root leads to are the ones the program has.
NodesOf(parsed, s) ==
    LET values == {p \in 0 .. Len(s) : parsed[<<"value", p>>].st = "ok"}
    IN  [p \in values |-> parsed[<<"value", p>>].node]

\* The test for bytes that were not consumed, pos > len(data), never holds.
Decode(s) ==
    LET parsed == Parsed(s)
        root == parsed[<<"value", 0>>]
    IN  IF root.st # "ok" THEN [st |-> root.st, pos |-> 0, nodes |-> <<>>]
        ELSE IF root.pos > Len(s) THEN [st |-> "error", pos |-> 0, nodes |-> <<>>]
        ELSE [st |-> "ok", pos |-> root.pos, nodes |-> NodesOf(parsed, s)]

-----------------------------------------------------------------------------
(* Encode                                                                  *)

Decimal(n) ==
    LET digits[k \in 0 .. n] == IF k < 10 THEN <<Digits[k + 1]>>
                                ELSE Append(digits[k \div 10], Digits[(k % 10) + 1])
    IN  digits[n]

\* strconv.AppendInt
FormatInt(n) == IF n < 0 THEN <<"-">> \o Decimal(- n) ELSE Decimal(n)

EncodeInt(n) == <<"i">> \o FormatInt(n) \o <<"e">>
EncodeString(str) == FormatInt(Len(str)) \o <<":">> \o str

\* sort.Strings: by bytes, a prefix first.
Ord(c) == CHOOSE k \in DOMAIN Chars : Chars[k] = c
KeyLess(a, b) ==
    \E k \in 0 .. Len(a) :
        /\ k <= Len(b) /\ \A j \in 1 .. k : a[j] = b[j]
        /\ \/ k = Len(a) /\ k < Len(b)
           \/ k < Len(a) /\ k < Len(b) /\ Ord(a[k + 1]) < Ord(b[k + 1])
SortedBy(dict, Less(_, _)) ==
    OrderBy(DOMAIN dict, {w \in (DOMAIN dict) \X (DOMAIN dict) : Less(w[1], w[2])})
SortedKeys_descending(dict) == SortedBy(dict, LAMBDA a, b : KeyLess(b, a))
SortedKeys(dict) == SortedBy(dict, KeyLess)

\* appendNode
EncodeList(enc, list) ==
    <<"l">> \o FlattenSeq([k \in DOMAIN list |-> enc[list[k]]]) \o <<"e">>
EncodeDict(enc, dict) ==
    LET keys == SortedKeys(dict) IN
    <<"d">> \o FlattenSeq([k \in DOMAIN keys |-> EncodeString(keys[k]) \o enc[dict[keys[k]]]])
            \o <<"e">>
EncodeNode(enc, node) ==
    CASE node.type = "int"  -> IF node.raw # <<>> THEN node.raw ELSE EncodeInt(node.int)
      [] node.type = "str"  -> IF node.raw # <<>> THEN node.raw ELSE EncodeString(node.str)
      [] node.type = "list" -> EncodeList(enc, node.list)
      [] node.type = "dict" -> EncodeDict(enc, node.dict)
Encode(nodes) ==
    LET enc[p \in DOMAIN nodes] == EncodeNode(enc, nodes[p])
    IN  enc

-----------------------------------------------------------------------------
Init == data \in Inputs /\ result = None
Next == result = None /\ result' = Decode(data) /\ UNCHANGED data
Spec == Init /\ [][Next]_vars

Decoded == result # None /\ result.st = "ok"

(***************************************************************************)
(* The grammar: where a value, the items of a list or the pairs of a       *)
(* dictionary that begin at a position may end.                            *)
(***************************************************************************)
IntEnds(s, p) ==
    {e \in p + 2 .. Len(s) :
        /\ s[p + 1] = "i" /\ s[e] = "e"
        /\ LET text == SubSeq(s, p + 2, e - 1) IN
           /\ \A j \in DOMAIN text : text[j] # "e"
           /\ text # <<"-", "0">> /\ NumberOf(text) # None}
StringEnds(s, p) ==
    {e \in p + 1 .. Len(s) :
        \E k \in p + 1 .. e :
            /\ s[k] = ":" /\ \A j \in p + 1 .. k - 1 : s[j] # ":"
            /\ NumberOf(SubSeq(s, p + 1, k - 1)) = e - k}
Enclosed(s, p, open, ends) ==
    IF s[p + 1] = open THEN {e + 1 : e \in {e \in ends : e < Len(s) /\ s[e + 1] = "e"}} ELSE {}
ValueEnds(ends, s, p) ==
    IF p >= Len(s) THEN {}
    ELSE UNION {IntEnds(s, p),
                IF s[p + 1] \in DigitChars THEN StringEnds(s, p) ELSE {},
                Enclosed(s, p, "l", ends[<<"items", p + 1>>]),
                Enclosed(s, p, "d", ends[<<"pairs", p + 1>>])}
ItemsEnds(ends, s, p) ==
    {p} \cup UNION {ends[<<"items", v>>] : v \in ends[<<"value", p>>]}
PairsEnds(ends, s, p) ==
    {p} \cup IF p >= Len(s) \/ s[p + 1] = "e" THEN {}
             ELSE UNION {ends[<<"pairs", v>>] :
                         v \in UNION {ends[<<"value", k>>] : k \in StringEnds(s, p)}}
Ends(s) ==
    LET ends[x \in Places(s)] ==
            CASE x[1] = "value" -> ValueEnds(ends, s, x[2])
              [] x[1] = "items" -> ItemsEnds(ends, s, x[2])
              [] x[1] = "pairs" -> PairsEnds(ends, s, x[2])
    IN  ends

\* Some string of s announces a length that ends past the greatest int.
Overflows(s) ==
    \E p \in 0 .. Len(s) : \E colon \in p + 1 .. Len(s) :
        LET n == NumberOf(SubSeq(s, p + 1, colon - 1)) IN
        s[colon] = ":" /\ n # None /\ n >= 0 /\ colon + n > IntMax

\* DecodeValue, called at any position of any input (a stream of values, README of
\* pkg/bencode), accepts exactly the values of the grammar that begin there, consumes
\* exactly one, and fails with an error otherwise; it panics at most when the length
\* of a string overflows.  There is one way to read an input.
AgreesWithGrammar ==
    \A p \in 0 .. Len(data) :
        LET value == Parsed(data)[<<"value", p>>] IN
        /\ Ends(data)[<<"value", p>>] = IF value.st = "ok" THEN {value.pos} ELSE {}
        /\ value.st = "panic" => Overflows(data)

\* "Decode must consume all bytes, surplus bytes at the end are an error"
\* (decode.go:17, bencode_test.go:331), and "any bytes: no crash" (bencode_test.go:722):
\* Decode accepts an input that is a value from its beginning to its end, and answers
\* any other with an error.  The code accepts what comes behind a value, too, and
\* panics when the length of a string overflows.
DecodesStrictly ==
    result # None =>
        result.st = IF Len(data) \in Ends(data)[<<"value", 0>>] THEN "ok" ELSE "error"

(***************************************************************************)
(* What nodes say, without how they were written: g at p is h at q.        *)
(***************************************************************************)
SameNode(same, a, b) ==
    /\ a.type = b.type
    /\ CASE a.type = "int"  -> a.int = b.int
         [] a.type = "str"  -> a.str = b.str
         [] a.type = "list" -> /\ Len(a.list) = Len(b.list)
                               /\ \A k \in DOMAIN a.list : same[<<a.list[k], b.list[k]>>]
         [] a.type = "dict" -> /\ DOMAIN a.dict = DOMAIN b.dict
                               /\ \A k \in DOMAIN a.dict : same[<<a.dict[k], b.dict[k]>>]
Same(g, h) ==
    LET same[x \in (DOMAIN g) \X (DOMAIN h)] == SameNode(same, g[x[1]], h[x[2]])
    IN  same

\* The same nodes as a program builds them, without the bytes they were decoded from.
Built(nodes) ==
    [p \in DOMAIN nodes |-> IF nodes[p].type \in {"int", "str"}
                            THEN [nodes[p] EXCEPT !.raw = <<>>] ELSE nodes[p]]

\* What was decoded, and what the program builds with the same content, is encoded
\* to something that decodes to the same meaning and is consumed to its end,
\* whatever the order and repetition of the keys.
RoundTrip ==
    Decoded => \A nodes \in {result.nodes, Built(result.nodes)} :
                  LET text == Encode(nodes)[0]
                      again == Decode(text)
                  IN  /\ again.st = "ok"
                      /\ again.pos = Len(text)
                      /\ Same(nodes, again.nodes)[<<0, 0>>]

\* The encoding is canonical: encoding what it decodes to gives it again, whether
\* the bytes are kept or the nodes built anew, and keys come in their order.
Canonical ==
    Decoded =>
        /\ LET text == Encode(result.nodes)[0] IN Encode(Decode(text).nodes)[0] = text
        /\ LET text == Encode(Built(result.nodes))[0] IN
           Encode(Built(Decode(text).nodes))[0] = text
        /\ \A p \in DOMAIN result.nodes : result.nodes[p].type = "dict" =>
              LET keys == SortedKeys(result.nodes[p].dict) IN
              \A i, j \in DOMAIN keys : i < j => KeyLess(keys[i], keys[j])
=============================================================================
