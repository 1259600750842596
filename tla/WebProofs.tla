----------------------------- MODULE WebProofs ------------------------------
(***************************************************************************)
(* Proofs about the web server, for any number of clients, names, hashes,  *)
(* requests and restarts.                                                  *)
(*                                                                         *)
(* Acknowledged speaks of requests whose 201 has arrived.  The invariant   *)
(* says the same of those whose statement has succeeded and whose answer   *)
(* is still on its way: no two of all these can have won the same row.     *)
(***************************************************************************)
EXTENDS WebService, SharedProofs, TLAPS

Creates == {"register", "upload"}

\* What a request that was answered with 201 has put into the database.
InDb(r) == IF r.op = "register" THEN r.arg \in users
           ELSE \E i \in DOMAIN torrents : torrents[i].hash = r.arg /\ torrents[i].by = r.by
Same(r, s) == r.op = s.op /\ r.arg = s.arg

\* The statement of c's request has succeeded and the client does not know yet.
Won(c) == ans[c] # None /\ ans[c].ok /\ req[c].op \in Creates

\* A request names what its statement will store.
Fits(r) == /\ r.op = "upload" => r.arg \in Hashes /\ r.by \in Names
           /\ r.op = "login" => r.arg \in Names

Shape == /\ req = [c \in Everyone |-> req[c]]
         /\ \A c \in Everyone : req[c] # None => Fits(req[c])
         /\ ans = [c \in Everyone |-> ans[c]]
         /\ \A c \in Everyone : req[c] = None => ans[c] = None
         /\ token \in [Clients -> {None} \cup Names]
         /\ torrents \in Seq(Row)
         /\ \A r \in acks : r.op \in Creates

WonRows == \A c \in Everyone : Won(c) =>
    /\ InDb(req[c])
    /\ \A s \in acks : ~ Same(req[c], s)
    /\ \A d \in Everyone : Won(d) /\ Same(req[c], req[d]) => c = d

AckedRows == /\ \A r \in acks : InDb(r)
             /\ \A r, s \in acks : Same(r, s) => r = s

IInv == Shape /\ WonRows /\ AckedRows /\ RequestsDrained

-----------------------------------------------------------------------------
\* Before the first request there is nothing to show.
LEMMA First == ASSUME Init PROVE IInv
  <1>1. /\ req = Nobody /\ ans = Nobody /\ acks = {} /\ proc = "serving"
        /\ torrents \in Seq(Row) /\ token \in [Clients -> {None} \cup Names]
    BY WebAssumption DEF Init, Row
  <1>. QED
    BY <1>1, WebAssumption
    DEF IInv, Shape, WonRows, Won, AckedRows, RequestsDrained, Nobody

\* What neither touches the tables, the answers and the acknowledgements nor changes
\* a request that is answered, keeps what is said of them.
LEMMA Quiet ==
    ASSUME IInv, UNCHANGED <<dbVars, acks, ans>>,
           \A c \in Everyone : ans[c] # None => req'[c] = req[c]
    PROVE  WonRows' /\ AckedRows'
  <1>1. \A c \in Everyone : Won(c)' => Won(c) /\ req'[c] = req[c]
    BY DEF Won
  <1>2. WonRows'
    BY <1>1 DEF IInv, WonRows, InDb, Same, dbVars
  <1>3. AckedRows'
    BY DEF IInv, AckedRows, InDb, Same, dbVars
  <1>. QED  BY <1>2, <1>3

\* A new request names what its statement will store, and nothing is won yet.
LEMMA ArriveKeeps == ASSUME IInv, NEW c \in Clients, Arrive(c) PROVE IInv'
  <1>. USE DEF Arrive
  <1>0. c \in Everyone
    BY DEF Everyone
  <1>1. PICK r \in Asks(c) : req' = [req EXCEPT ![c] = r]
    OBVIOUS
  <1>2. Fits(r)
    <2>1. token[c] \in {None} \cup Names
      BY DEF IInv, Shape
    <2>2. CASE r \in Public
      BY <2>2 DEF Public, New, Fits
    <2>3. CASE token[c] # None /\ r \in Protected(token[c])
      BY <2>1, <2>3 DEF Protected, New, Fits
    <2>. QED  BY <2>2, <2>3 DEF Asks
  <1>3. Shape'
    <2>1. req' = [d \in Everyone |-> req'[d]]
      BY <1>1 DEF IInv, Shape
    <2>2. \A d \in Everyone : /\ req'[d] = None => ans[d] = None
                             /\ req'[d] # None => Fits(req'[d])
      BY <1>0, <1>1, <1>2 DEF IInv, Shape
    <2>. QED  BY <2>1, <2>2 DEF IInv, Shape, Fits, dbVars, clientVars
  <1>4. \A d \in Everyone : ans[d] # None => req'[d] = req[d]
    BY <1>1 DEF IInv, Shape
  <1>5. WonRows' /\ AckedRows'
    BY <1>4, Quiet DEF clientVars
  <1>. QED  BY <1>3, <1>5 DEF IInv, RequestsDrained

\* Nor does the reader win anything.
LEMMA ReaderKeeps == ASSUME IInv, ReaderAsks PROVE IInv'
  <1>. USE DEF ReaderAsks
  <1>1. Shape'
    BY DEF IInv, Shape, Fits, dbVars
  <1>2. \A d \in Everyone : ans[d] # None => req'[d] = req[d]
    BY DEF IInv, Shape
  <1>3. WonRows' /\ AckedRows'
    BY <1>2, Quiet
  <1>. QED  BY <1>1, <1>3 DEF IInv, RequestsDrained

-----------------------------------------------------------------------------
(* Handlers                                                                *)

\* A handler that wins nothing: it failed, or it creates nothing.
LEMMA Loses ==
    ASSUME IInv, NEW c \in Everyone, NEW ok, NEW rows, req[c] # None,
           AnswersWith(c, ok, rows), UNCHANGED dbVars, ~ ok \/ req[c].op \notin Creates
    PROVE  IInv'
  <1>. USE DEF AnswersWith, clientVars, dbVars
  <1>1. Shape'
    BY DEF IInv, Shape
  <1>2. \A d \in Everyone : Won(d)' => Won(d) /\ d # c
    BY DEF IInv, Shape, Won
  <1>3. WonRows'
    BY <1>2 DEF IInv, WonRows, InDb, Same
  <1>4. AckedRows'
    BY DEF IInv, AckedRows, InDb, Same
  <1>. QED  BY <1>1, <1>3, <1>4 DEF IInv, RequestsDrained, Idle, Nobody, Everyone

\* A handler that wins a row nobody had: what is in the tables stays, and nothing
\* that was won or acknowledged before is the same.
LEMMA Wins ==
    ASSUME IInv, NEW c \in Everyone, req[c] # None, req[c].op \in Creates, ans[c] = None,
           AnswersWith(c, TRUE, {}), torrents' \in Seq(Row), InDb(req[c])',
           \A r : InDb(r) => InDb(r)' /\ ~ Same(req[c], r)
    PROVE  IInv'
  <1>. USE DEF AnswersWith, clientVars
  <1>1. Shape'
    BY DEF IInv, Shape
  <1>2. \A d \in Everyone : Won(d)' => d = c \/ Won(d)
    BY DEF IInv, Shape, Won
  <1>3. WonRows'
    BY <1>2 DEF IInv, WonRows, AckedRows, InDb, Same
  <1>4. AckedRows'
    BY DEF IInv, AckedRows
  <1>. QED  BY <1>1, <1>3, <1>4 DEF IInv, RequestsDrained, Idle, Nobody, Everyone

\* A handler wins a row that nobody had, or wins nothing.
LEMMA HandlerKeeps == ASSUME IInv, NEW c \in Everyone, Handler(c) PROVE IInv'
  <1>1. CASE StatementFails(c)
    BY <1>1, Loses DEF StatementFails, Waits
  <1>2. CASE Register(c)
    <2>. USE <1>2 DEF Register, Waits
    <2>1. CASE req[c].arg \in users
      <3>1. UNCHANGED dbVars
        BY <2>1 DEF dbVars
      <3>. QED  BY <2>1, <3>1, Loses
    <2>2. CASE req[c].arg \notin users
      <3>1. torrents' \in Seq(Row)
        BY DEF IInv, Shape
      <3>2. InDb(req[c])' /\ \A r : InDb(r) => InDb(r)' /\ ~ Same(req[c], r)
        BY <2>2 DEF InDb, Same, AnswersWith
      <3>. QED  BY <2>2, <3>1, <3>2, Wins DEF Creates
    <2>. QED  BY <2>1, <2>2
  <1>3. CASE Login(c)
    BY <1>3, Loses DEF Login, Waits, Creates
  <1>4. CASE UploadTorrent(c)
    <2>. USE <1>4 DEF UploadTorrent, Waits
    <2>1. CASE ~ (req[c].arg \notin Uploaded /\ req[c].by \in users)
      <3>1. UNCHANGED dbVars
        BY <2>1 DEF dbVars
      <3>. QED  BY <2>1, <3>1, Loses
    <2>2. CASE req[c].arg \notin Uploaded /\ req[c].by \in users
      <3>1. PICK now \in Seconds : torrents' = Append(torrents,
                    [hash |-> req[c].arg, by |-> req[c].by, at |-> now])
        BY <2>2
      <3>2. [hash |-> req[c].arg, by |-> req[c].by, at |-> now] \in Row
        BY DEF IInv, Shape, Fits, Row
      <3>3. torrents \in Seq(Row) /\ torrents' \in Seq(Row)
        BY <3>1, <3>2 DEF IInv, Shape
      <3>4. /\ Len(torrents) \in Nat
            /\ DOMAIN torrents = 1 .. Len(torrents)
            /\ DOMAIN torrents' = 1 .. Len(torrents) + 1
            /\ \A i \in DOMAIN torrents : torrents'[i] = torrents[i]
            /\ torrents'[Len(torrents) + 1].hash = req[c].arg
            /\ torrents'[Len(torrents) + 1].by = req[c].by
        BY <3>1, <3>2, <3>3
      <3>5. InDb(req[c])'
        BY <3>4 DEF InDb, AnswersWith
      <3>6. \A r : InDb(r) => InDb(r)' /\ ~ Same(req[c], r)
        BY <2>2, <3>4 DEF InDb, Same, Uploaded
      <3>. QED  BY <2>2, <3>3, <3>5, <3>6, Wins DEF Creates
    <2>. QED  BY <2>1, <2>2
  <1>5. CASE ListTorrents(c)
    BY <1>5, Loses DEF ListTorrents, Waits, Creates
  <1>6. CASE Remote(c)
    <2>1. PICK ok \in BOOLEAN : AnswersWith(c, ok, {})
      BY <1>6 DEF Remote
    <2>. QED  BY <1>6, <2>1, Loses DEF Remote, Waits, Creates
  <1>. QED  BY <1>1, <1>2, <1>3, <1>4, <1>5, <1>6 DEF Handler

-----------------------------------------------------------------------------
\* An answer takes what was won along, or is lost with it.
LEMMA ReplyKeeps == ASSUME IInv, NEW c \in Everyone, Reply(c) PROVE IInv'
  <1>. USE DEF Reply, clientVars, dbVars
  <1>1. acks' = acks \/ (Won(c) /\ acks' = acks \cup {req[c]})
    BY DEF Delivered, Won, Creates
  <1>2. Fits(req[c])
    BY DEF IInv, Shape
  <1>3. Shape'
    <2>1. token' \in [Clients -> {None} \cup Names]
      BY <1>2 DEF IInv, Shape, Delivered, Fits
    <2>. QED  BY <1>1, <2>1 DEF IInv, Shape, Fits, Won
  <1>4. \A d \in Everyone : Won(d)' => Won(d) /\ d # c /\ req'[d] = req[d]
    BY DEF IInv, Shape, Won
  <1>5. WonRows'
    BY <1>1, <1>4 DEF IInv, WonRows, InDb, Same
  <1>6. AckedRows'
    BY <1>1 DEF IInv, WonRows, AckedRows, InDb, Same
  <1>7. RequestsDrained'
    BY DEF IInv, Shape, RequestsDrained, Idle, Nobody
  <1>. QED  BY <1>3, <1>5, <1>6, <1>7 DEF IInv

\* The process ends: the requests it was serving are lost, the tables are not.
LEMMA EndKeeps == ASSUME IInv, NEW from, Ends(from) PROVE IInv'
  <1>. USE DEF Ends, Nobody, dbVars, clientVars
  <1>1. Shape'
    BY DEF IInv, Shape
  <1>2. WonRows' /\ AckedRows'
    BY DEF IInv, WonRows, Won, AckedRows, InDb, Same
  <1>. QED  BY <1>1, <1>2 DEF IInv, RequestsDrained

\* What only moves main, and so cannot leave a request behind unless it is late.
LEMMA MainKeeps ==
    ASSUME IInv, UNCHANGED <<dbVars, clientVars, req, ans>>, RequestsDrained'
    PROVE  IInv'
  <1>1. Shape'
    BY DEF IInv, Shape, dbVars, clientVars
  <1>2. WonRows' /\ AckedRows'
    BY Quiet DEF clientVars
  <1>. QED  BY <1>1, <1>2 DEF IInv

\* Every step of the server and of its clients keeps the invariant.
LEMMA NextKeeps == ASSUME IInv, [Next]_vars PROVE IInv'
  <1>. USE DEF Main, Idle, RequestsDrained
  <1>1. CASE Signal \/ Restart \/ UNCHANGED vars
    BY <1>1, MainKeeps DEF IInv, Signal, Restart, vars
  <1>2. CASE ShutdownIdle \/ ShutdownTimeout
    BY <1>2, MainKeeps DEF ShutdownIdle, ShutdownTimeout
  <1>3. CASE CloseSvc \/ CloseDb
    BY <1>3, MainKeeps DEF IInv, CloseSvc, CloseDb
  <1>4. CASE Exit \/ Kill
    BY <1>4, EndKeeps DEF Exit, Kill
  <1>. QED
    BY <1>1, <1>2, <1>3, <1>4, ArriveKeeps, ReaderKeeps, HandlerKeeps, ReplyKeeps
    DEF Next, MainStep, Shutdown

\* The invariant holds in every reachable state.
THEOREM WebInductive == Spec => []IInv
  BY First, NextKeeps, PTL DEF Spec

-----------------------------------------------------------------------------
\* A 201 holds for good and is given for a row once, across lost answers, kills and
\* restarts.
THEOREM AcknowledgedHolds == Spec => []Acknowledged
  <1>1. IInv => Acknowledged
    BY DEF IInv, AckedRows, Acknowledged, InDb, Same
  <1>. QED  BY <1>1, WebInductive, PTL

\* Requests that end within the five seconds meet an open connection and database.
THEOREM DrainedInTime == Spec => []RequestsDrained
  <1>1. IInv => RequestsDrained
    BY DEF IInv
  <1>. QED  BY <1>1, WebInductive, PTL

-----------------------------------------------------------------------------
(* Listings                                                                *)

Listed(ts) == {ts[i].hash : i \in DOMAIN ts}
Unique(ts) == \A i, j \in DOMAIN ts : ts[i].hash = ts[j].hash => i = j

\* The place of a row in the listing, and the hashes behind the first n places.
PlaceIn(ts, i) == Place(i, DOMAIN ts, Newer(ts))
Behind(ts, n) == {ts[i].hash : i \in {j \in DOMAIN ts : PlaceIn(ts, j) > n}}

\* Rows of the same second come in the order of their row ids, so no two tie.
LEMMA NewerOrders ==
    ASSUME NEW ts \in Seq(Row)
    PROVE  /\ DOMAIN ts = 1 .. Len(ts) /\ Len(ts) \in Nat
           /\ IsFiniteSet(DOMAIN ts) /\ Cardinality(DOMAIN ts) = Len(ts)
           /\ Orders(Newer(ts), DOMAIN ts) /\ NoTies(Newer(ts), DOMAIN ts)
  <1>1. DOMAIN ts = 1 .. Len(ts) /\ Len(ts) \in Nat
    OBVIOUS
  <1>2. IsFiniteSet(DOMAIN ts) /\ Cardinality(DOMAIN ts) = Len(ts)
    BY <1>1, FS_Interval, SMTT(30)
  <1>3. \A i \in DOMAIN ts : ts[i].at \in Int
    <2>1. \A i \in DOMAIN ts : ts[i] \in Row
      BY <1>1
    <2>2. Seconds \subseteq Int
      BY WebAssumption
    <2>. QED  BY <2>1, <2>2 DEF Row
  <1>4. Orders(Newer(ts), DOMAIN ts) /\ NoTies(Newer(ts), DOMAIN ts)
    BY <1>1, <1>3 DEF Orders, NoTies, Newer
  <1>. QED  BY <1>1, <1>2, <1>4

\* Places are 1, 2, ..., one row at each.
LEMMA Places ==
    ASSUME NEW ts \in Seq(Row)
    PROVE  /\ \A i \in DOMAIN ts : PlaceIn(ts, i) \in 1 .. Len(ts)
           /\ \A i, j \in DOMAIN ts : PlaceIn(ts, i) = PlaceIn(ts, j) => i = j
           /\ \A k \in 1 .. Len(ts) : \E i \in DOMAIN ts : PlaceIn(ts, i) = k
  <1> DEFINE r == OrderBy(DOMAIN ts, Newer(ts))
  <1>1. /\ r \in [1 .. Len(ts) -> DOMAIN ts]
        /\ \A x \in DOMAIN ts : \E k \in 1 .. Len(ts) : r[k] = x
    BY NewerOrders, OrderByReturns
  <1>2. \A k \in 1 .. Len(ts) : PlaceIn(ts, r[k]) = k
    BY NewerOrders, OrderByPlaces DEF PlaceIn
  <1>. QED  BY <1>1, <1>2

\* A page is what is behind its offset and not behind the next one's.
LEMMA ListReturns ==
    ASSUME torrents \in Seq(Row), Unique(torrents), NEW offset \in Nat, NEW limit \in Nat
    PROVE  List(offset, limit) = Behind(torrents, offset) \ Behind(torrents, offset + limit)
  <1> DEFINE n == Len(torrents)
             r == OrderBy(DOMAIN torrents, Newer(torrents))
             K == (offset + 1 .. offset + limit) \cap DOMAIN r
  <1>1. /\ r \in [1 .. n -> DOMAIN torrents] /\ n \in Nat
        /\ \A x \in DOMAIN torrents : \E k \in 1 .. n : r[k] = x
    BY NewerOrders, OrderByReturns
  <1>2. \A k \in 1 .. n : PlaceIn(torrents, r[k]) = k
    BY NewerOrders, OrderByPlaces DEF PlaceIn
  <1>3. List(offset, limit) = {torrents[r[k]].hash : k \in K}
    BY DEF List
  <1> HIDE DEF r
  <1>4. ASSUME NEW k \in K
        PROVE  torrents[r[k]].hash \in Behind(torrents, offset) \ Behind(torrents, offset + limit)
    <2>1. r[k] \in DOMAIN torrents /\ PlaceIn(torrents, r[k]) = k /\ k > offset /\ ~ (k > offset + limit)
      BY <1>1, <1>2
    <2>. QED  BY <2>1 DEF Behind, Unique
  <1>5. ASSUME NEW h \in Behind(torrents, offset) \ Behind(torrents, offset + limit)
        PROVE  \E k \in K : torrents[r[k]].hash = h
    <2>1. PICK i \in DOMAIN torrents : PlaceIn(torrents, i) > offset /\ torrents[i].hash = h
      BY DEF Behind
    <2>2. ~ (PlaceIn(torrents, i) > offset + limit)
      BY <2>1 DEF Behind
    <2>3. PICK k \in 1 .. n : r[k] = i
      BY <1>1
    <2>. QED  BY <1>1, <1>2, <2>1, <2>2, <2>3
  <1>. QED  BY <1>3, <1>4, <1>5

\* Behind the first places is less and less, and at first everything.
LEMMA BehindLess ==
    ASSUME NEW ts \in Seq(Row)
    PROVE  /\ IsFiniteSet(Listed(ts))
           /\ Behind(ts, 0) = Listed(ts)
           /\ \A n \in Nat : Behind(ts, n) \subseteq Listed(ts)
           /\ \A n, l \in Nat : Behind(ts, n + l) \subseteq Behind(ts, n)
  <1> DEFINE f == [i \in DOMAIN ts |-> ts[i].hash]
  <1>1. f \in Surjection(DOMAIN ts, Listed(ts))
    BY Fun_IsSurj DEF Listed
  <1>2. IsFiniteSet(Listed(ts))
    BY <1>1, NewerOrders, FS_Surjection
  <1>3. \A i \in DOMAIN ts : PlaceIn(ts, i) \in Nat /\ PlaceIn(ts, i) > 0
    BY Places, NewerOrders
  <1>. QED  BY <1>2, <1>3 DEF Behind, Listed

\* An empty page is behind the last row.
LEMMA EmptyPage ==
    ASSUME NEW ts \in Seq(Row), Unique(ts), NEW n \in Nat, NEW l \in Nat \ {0},
           Behind(ts, n) \ Behind(ts, n + l) = {}
    PROVE  Behind(ts, n) = {}
  <1>1. SUFFICES ASSUME NEW i \in DOMAIN ts, PlaceIn(ts, i) > n PROVE FALSE
    BY DEF Behind
  <1>2. n + 1 \in 1 .. Len(ts)
    BY <1>1, Places, NewerOrders
  <1>3. PICK j \in DOMAIN ts : PlaceIn(ts, j) = n + 1
    BY <1>2, Places
  <1>4. ts[j].hash \in Behind(ts, n)
    BY <1>3 DEF Behind
  <1>5. ts[j].hash \notin Behind(ts, n + l)
    BY <1>3 DEF Behind, Unique
  <1>. QED  BY <1>4, <1>5

\* A new row moves at most one other behind any given place: each row keeps its
\* place or takes the next one.
LEMMA UploadShifts ==
    ASSUME NEW ts \in Seq(Row), Unique(ts), NEW row \in Row, row.hash \notin Listed(ts),
           NEW n \in Nat
    PROVE  /\ Append(ts, row) \in Seq(Row) /\ Unique(Append(ts, row))
           /\ Listed(Append(ts, row)) = Listed(ts) \cup {row.hash}
           /\ Behind(ts, n) \subseteq Behind(Append(ts, row), n)
           /\ \E h : Behind(Append(ts, row), n) \subseteq Behind(ts, n) \cup {h, row.hash}
  <1> DEFINE us == Append(ts, row)
             m  == Len(ts) + 1
  <1>1. /\ us \in Seq(Row) /\ m \in Nat /\ Len(ts) \in Nat
        /\ DOMAIN ts = 1 .. Len(ts) /\ DOMAIN us = 1 .. m
        /\ \A i \in DOMAIN ts : us[i] = ts[i]
        /\ us[m] = row
    OBVIOUS
  <1>2. DOMAIN us = DOMAIN ts \cup {m} /\ m \notin DOMAIN ts
    BY <1>1
  <1> HIDE DEF us, m
  <1>3. Unique(us)
    <2>1. \A i \in DOMAIN ts : us[i].hash # us[m].hash
      BY <1>1 DEF Listed
    <2>. QED  BY <1>1, <1>2, <2>1 DEF Unique
  <1>4. Listed(us) = Listed(ts) \cup {row.hash}
    <2>1. \A h \in Listed(us) : h \in Listed(ts) \cup {row.hash}
      BY <1>1, <1>2 DEF Listed
    <2>2. Listed(ts) \subseteq Listed(us)
      BY <1>1, <1>2 DEF Listed
    <2>3. row.hash \in Listed(us)
      BY <1>1, <1>2 DEF Listed
    <2>. QED  BY <2>1, <2>2, <2>3
  <1>5. ASSUME NEW i \in DOMAIN ts
        PROVE  PlaceIn(us, i) \in {PlaceIn(ts, i), PlaceIn(ts, i) + 1}
    <2> DEFINE a == Earlier(i, DOMAIN ts, Newer(ts))
               b == Earlier(i, DOMAIN us, Newer(us))
    <2>1. b = a \/ b = a \cup {m}
      BY <1>1, <1>2 DEF Earlier, Newer
    <2>2. IsFiniteSet(a) /\ Cardinality(a) \in Nat
      BY NewerOrders, FS_Subset, FS_CardinalityType DEF Earlier
    <2>3. Cardinality(b) \in {Cardinality(a), Cardinality(a) + 1}
      BY <2>1, <2>2, FS_AddElement
    <2>. QED  BY <2>2, <2>3 DEF PlaceIn, Place
  <1>6. \A i \in DOMAIN ts : PlaceIn(ts, i) \in Nat
    BY Places, NewerOrders
  <1>7. Behind(ts, n) \subseteq Behind(us, n)
    BY <1>1, <1>2, <1>5, <1>6 DEF Behind
  <1>8. \E h : Behind(us, n) \subseteq Behind(ts, n) \cup {h, row.hash}
    <2>1. ASSUME NEW i \in DOMAIN ts, PlaceIn(us, i) > n
          PROVE  PlaceIn(ts, i) > n \/ PlaceIn(ts, i) = n
      BY <1>5, <1>6, <2>1
    <2>2. CASE \E j \in DOMAIN ts : PlaceIn(ts, j) = n
      <3>1. PICK j \in DOMAIN ts : PlaceIn(ts, j) = n
        BY <2>2
      <3>2. \A i \in DOMAIN ts : PlaceIn(us, i) > n => PlaceIn(ts, i) > n \/ i = j
        BY <2>1, <3>1, Places
      <3>3. Behind(us, n) \subseteq Behind(ts, n) \cup {ts[j].hash, row.hash}
        BY <1>1, <1>2, <3>2 DEF Behind
      <3>. QED  BY <3>3
    <2>3. CASE ~ \E j \in DOMAIN ts : PlaceIn(ts, j) = n
      <3>1. Behind(us, n) \subseteq Behind(ts, n) \cup {row.hash}
        BY <1>1, <1>2, <2>1, <2>3 DEF Behind
      <3>. QED  BY <3>1
    <2>. QED  BY <2>2, <2>3
  <1>. QED  BY <1>1, <1>3, <1>4, <1>7, <1>8 DEF us

-----------------------------------------------------------------------------
(* Types                                                                   *)

\* What is there at first has its type.
LEMMA TypesAtStart == ASSUME Init PROVE TypeOK
  <1>1. PICK s \in Sizes : walk = [st |-> "idle", page |-> 1, size |-> s,
                                   base |-> {}, got |-> {}, again |-> 0]
    BY DEF Init
  <1>2. walk \in Walk
    BY <1>1 DEF Walk
  <1>3. req \in [Everyone -> {None} \cup Request] /\ ans \in [Everyone -> {None} \cup Answer]
    BY DEF Init, Nobody
  <1>4. users \subseteq Names /\ torrents \in Seq(Row) /\ token \in [Clients -> {None} \cup Names]
    BY WebAssumption DEF Init, Row
  <1>5. nReq \in 0 .. MaxReq /\ starts \in 1 .. MaxStarts
    BY WebAssumption DEF Init
  <1>. QED  BY <1>2, <1>3, <1>4, <1>5 DEF Init, TypeOK

\* A client asks for what it can ask for: an upload in the name of its token's user.
LEMMA AskedTyped ==
    ASSUME TypeOK, NEW c \in Clients, nReq < MaxReq
    PROVE  Asks(c) \subseteq Request /\ \A r \in Asks(c) : r.op # "list"
  <1>1. nReq + 1 \in 1 .. MaxReq
    BY WebAssumption DEF TypeOK
  <1>2. Public \subseteq Request /\ \A r \in Public : r.op # "list"
    BY <1>1 DEF Public, New, Request
  <1>3. token[c] # None => token[c] \in Names
    BY DEF TypeOK
  <1>4. ASSUME token[c] # None
        PROVE  Protected(token[c]) \subseteq Request /\ \A r \in Protected(token[c]) : r.op # "list"
    BY <1>1, <1>3, <1>4 DEF Protected, New, Request
  <1>. QED  BY <1>2, <1>4 DEF Asks

\* The answer of a handler, with what it put into the tables.
LEMMA AnswerTyped ==
    ASSUME TypeOK, NEW c \in Everyone, NEW ok \in BOOLEAN, NEW rows \in SUBSET Hashes,
           AnswersWith(c, ok, rows), users' \subseteq Names, torrents' \in Seq(Row)
    PROVE  TypeOK'
  <1>1. [ok |-> ok, rows |-> rows] \in Answer
    BY DEF Answer
  <1>2. ans' \in [Everyone -> {None} \cup Answer]
    BY <1>1 DEF AnswersWith, TypeOK
  <1>. QED  BY <1>2 DEF AnswersWith, clientVars, TypeOK

\* A page consists of hashes that were uploaded.
LEMMA PageUploaded ==
    ASSUME torrents \in Seq(Row), NEW offset, NEW limit
    PROVE  List(offset, limit) \subseteq Uploaded /\ Uploaded \subseteq Hashes
  <1> DEFINE r == OrderBy(DOMAIN torrents, Newer(torrents))
  <1>1. \A k \in DOMAIN r : r[k] \in DOMAIN torrents
    BY NewerOrders, OrderByReturns
  <1>2. List(offset, limit) \subseteq {torrents[r[k]].hash : k \in DOMAIN r}
    BY DEF List
  <1> HIDE DEF r
  <1>3. \A i \in DOMAIN torrents : torrents[i] \in Row
    OBVIOUS
  <1>. QED  BY <1>1, <1>2, <1>3 DEF Uploaded, Row

LEMMA HandlerTyped == ASSUME TypeOK, NEW c \in Everyone, Handler(c) PROVE TypeOK'
  <1>0. users \subseteq Names /\ torrents \in Seq(Row) /\ req[c] \in {None} \cup Request
    BY DEF TypeOK
  <1>1. CASE StatementFails(c)
    BY <1>0, <1>1, AnswerTyped DEF StatementFails, dbVars
  <1>2. CASE Register(c)
    <2>1. req[c].arg \in Names
      BY <1>0, <1>2 DEF Register, Waits, Request
    <2>. QED  BY <1>0, <1>2, <2>1, AnswerTyped DEF Register
  <1>3. CASE Login(c)
    <2>1. (req[c].arg \in users) \in BOOLEAN /\ {} \in SUBSET Hashes
      OBVIOUS
    <2>2. \E ok \in BOOLEAN : AnswersWith(c, ok, {})
      BY <1>3, <2>1, Zenon DEF Login
    <2>. QED  BY <1>0, <1>3, <2>2, AnswerTyped DEF Login, dbVars
  <1>4. CASE UploadTorrent(c)
    <2>1. req[c].arg \in Hashes /\ req[c].by \in Names
      BY <1>0, <1>4 DEF UploadTorrent, Waits, Request
    <2>2. torrents' \in Seq(Row)
      <3>1. PICK now \in Seconds : \/ torrents' = torrents
                                   \/ torrents' = Append(torrents,
                                        [hash |-> req[c].arg, by |-> req[c].by, at |-> now])
        BY <1>4 DEF UploadTorrent
      <3>2. [hash |-> req[c].arg, by |-> req[c].by, at |-> now] \in Row
        BY <2>1 DEF Row
      <3>. QED  BY <1>0, <3>1, <3>2
    <2>3. \E ok \in BOOLEAN : AnswersWith(c, ok, {})
      BY <1>4 DEF UploadTorrent
    <2>. QED  BY <1>0, <1>4, <2>2, <2>3, AnswerTyped DEF UploadTorrent
  <1>5. CASE ListTorrents(c)
    <2>1. Rows(req[c].arg, walk.size) \in SUBSET Hashes
      BY <1>0, PageUploaded DEF Rows
    <2>. QED  BY <1>0, <1>5, <2>1, AnswerTyped DEF ListTorrents, dbVars
  <1>6. CASE Remote(c)
    BY <1>0, <1>6, AnswerTyped DEF Remote, dbVars
  <1>. QED  BY <1>1, <1>2, <1>3, <1>4, <1>5, <1>6 DEF Handler

\* A client that reads an answer learns its name or a page.
LEMMA ReplyTyped ==
    ASSUME TypeOK, IInv, IsFiniteSet(walk.got), NEW c \in Everyone, Reply(c)
    PROVE  TypeOK'
  <1>1. req[c] \in Request /\ ans[c] \in Answer
    BY DEF Reply, IInv, Shape, TypeOK
  <1>2. ASSUME Delivered(c)
        PROVE  token' \in [Clients -> {None} \cup Names] /\ walk' \in Walk /\ acks' \subseteq Request
    <2>1. req[c].op = "login" => req[c].arg \in Names
      BY <1>1 DEF Request
    <2>2. token' \in [Clients -> {None} \cup Names]
      BY <1>2, <2>1 DEF Delivered, TypeOK
    <2>3. ASSUME NEW page \in SUBSET Hashes PROVE Read(page) \in Walk
      <3>1. walk \in Walk
        BY DEF TypeOK
      <3>2. Cardinality(walk.got \cap page) \in Nat
        BY FS_Intersection, FS_CardinalityType
      <3>3. /\ walk.page + 1 \in Nat
            /\ walk.got \cup page \in SUBSET Hashes
            /\ walk.again + Cardinality(walk.got \cap page) \in Nat
        BY <3>1, <3>2 DEF Walk
      <3>4. [walk EXCEPT !.st = "done"] \in Walk
        BY <3>1 DEF Walk
      <3>5. [walk EXCEPT !.page = walk.page + 1, !.got = walk.got \cup page,
                         !.again = walk.again + Cardinality(walk.got \cap page)] \in Walk
        BY <3>1, <3>3 DEF Walk
      <3>. QED  BY <3>4, <3>5 DEF Read
    <2>. QED  BY <1>1, <1>2, <2>2, <2>3 DEF Delivered, TypeOK, Answer
  <1>3. token' \in [Clients -> {None} \cup Names] /\ walk' \in Walk /\ acks' \subseteq Request
    BY <1>2 DEF Reply, clientVars, TypeOK
  <1>4. req' \in [Everyone -> {None} \cup Request] /\ ans' \in [Everyone -> {None} \cup Answer]
    BY DEF Reply, TypeOK
  <1>. QED  BY <1>3, <1>4 DEF Reply, TypeOK, dbVars

-----------------------------------------------------------------------------
(* The reader                                                              *)

\* Behind the first n places is all that the reader wants and has not seen; and what
\* it saw twice, or has seen and may see again there, is made up for by uploads.
Paged(ts, base, n, seen, times) ==
    /\ base \subseteq seen \cup Behind(ts, n)
    /\ times \in Nat
    /\ times + Cardinality(seen \cap Behind(ts, n)) <= Cardinality(Listed(ts) \ base)

LEMMA PagedAtStart == ASSUME NEW ts \in Seq(Row) PROVE Paged(ts, Listed(ts), 0, {}, 0)
  <1>1. Listed(ts) \ Listed(ts) = {} /\ {} \cap Behind(ts, 0) = {}
    OBVIOUS
  <1>2. Listed(ts) \subseteq {} \cup Behind(ts, 0)
    BY BehindLess
  <1>3. Cardinality({}) = 0
    BY FS_EmptySet
  <1>4. 0 + Cardinality({}) <= Cardinality({}) /\ 0 \in Nat
    BY <1>3
  <1>. QED  BY <1>1, <1>2, <1>4 DEF Paged

\* An upload moves at most one row behind the place, and is one.
LEMMA PagedUpload ==
    ASSUME NEW ts \in Seq(Row), Unique(ts), NEW row \in Row, row.hash \notin Listed(ts),
           NEW base \in SUBSET Listed(ts), NEW seen \in SUBSET Listed(ts),
           NEW n \in Nat, NEW times, Paged(ts, base, n, seen, times)
    PROVE  Paged(Append(ts, row), base, n, seen, times)
  <1> DEFINE us == Append(ts, row)
             a  == seen \cap Behind(ts, n)
             b  == seen \cap Behind(us, n)
             u  == Listed(ts) \ base
             v  == Listed(us) \ base
  <1>1. PICK h : Behind(us, n) \subseteq Behind(ts, n) \cup {h, row.hash}
    BY UploadShifts
  <1>2. /\ Listed(us) = Listed(ts) \cup {row.hash}
        /\ Behind(ts, n) \subseteq Behind(us, n)
        /\ IsFiniteSet(Listed(ts))
    BY UploadShifts, BehindLess
  <1> HIDE DEF us
  <1>3. IsFiniteSet(a) /\ Cardinality(a) \in Nat /\ IsFiniteSet(u) /\ Cardinality(u) \in Nat
    BY <1>2, FS_Subset, FS_CardinalityType
  <1>4. IsFiniteSet(a \cup {h}) /\ Cardinality(a \cup {h}) <= Cardinality(a) + 1
    <2>1. /\ IsFiniteSet(a \cup {h})
          /\ Cardinality(a \cup {h}) = IF h \in a THEN Cardinality(a) ELSE Cardinality(a) + 1
      BY <1>3, FS_AddElement
    <2> HIDE DEF a
    <2>. QED  BY <1>3, <2>1
  <1>5. b \subseteq a \cup {h}
    BY <1>1
  <1>6. Cardinality(b) \in Nat /\ Cardinality(b) <= Cardinality(a \cup {h})
    BY <1>4, <1>5, FS_Subset, FS_CardinalityType
  <1>7. v = u \cup {row.hash} /\ row.hash \notin u
    BY <1>2
  <1>8. Cardinality(v) = Cardinality(u) + 1
    BY <1>3, <1>7, FS_AddElement
  <1>9. Cardinality(a \cup {h}) \in Nat
    BY <1>4, FS_CardinalityType
  <1>10. base \subseteq seen \cup Behind(us, n) /\ times \in Nat
    BY <1>2 DEF Paged
  <1>11. times + Cardinality(a) <= Cardinality(u)
    BY DEF Paged
  <1>12. times + Cardinality(b) <= Cardinality(v)
    BY <1>3, <1>4, <1>6, <1>8, <1>9, <1>10, <1>11
  <1>. QED  BY <1>10, <1>12 DEF Paged, us

\* Reading the next page counts what it shows again, and nothing else is lost.
LEMMA PagedOn ==
    ASSUME NEW ts \in Seq(Row), Unique(ts), NEW base, NEW seen \in SUBSET Listed(ts),
           NEW n \in Nat, NEW l \in Nat \ {0}, NEW times, Paged(ts, base, n, seen, times),
           NEW page, page = Behind(ts, n) \ Behind(ts, n + l)
    PROVE  /\ Paged(ts, base, n + l, seen \cup page, times + Cardinality(seen \cap page))
           /\ page = {} => base \subseteq seen
  <1> DEFINE a == seen \cap Behind(ts, n)
             b == (seen \cup page) \cap Behind(ts, n + l)
             c == seen \cap page
  <1>1. Behind(ts, n + l) \subseteq Behind(ts, n) /\ IsFiniteSet(seen)
    BY BehindLess, FS_Subset
  <1>2. a = b \cup c /\ b \cap c = {} /\ a \subseteq seen /\ b \subseteq seen /\ c \subseteq seen
    BY <1>1
  <1>3. /\ IsFiniteSet(b) /\ Cardinality(b) \in Nat
        /\ IsFiniteSet(c) /\ Cardinality(c) \in Nat
    BY <1>1, <1>2, FS_Subset, FS_CardinalityType
  <1>4. Cardinality(a) = Cardinality(b) + Cardinality(c)
    <2>1. Cardinality(b \cup c) = Cardinality(b) + Cardinality(c) - Cardinality(b \cap c)
      BY <1>3, FS_Union
    <2>2. Cardinality(b \cap c) = 0
      BY <1>2, FS_EmptySet
    <2>3. a = b \cup c
      BY <1>2
    <2> HIDE DEF a, b, c
    <2>. QED  BY <1>3, <2>1, <2>2, <2>3
  <1>5. base \subseteq (seen \cup page) \cup Behind(ts, n + l)
    BY DEF Paged
  <1>6. page = {} => base \subseteq seen
    BY EmptyPage DEF Paged
  <1>7. times \in Nat /\ times + Cardinality(a) <= Cardinality(Listed(ts) \ base)
    BY DEF Paged
  <1> HIDE DEF a, b, c
  <1>8. /\ times + Cardinality(c) \in Nat
        /\ (times + Cardinality(c)) + Cardinality(b) = times + Cardinality(a)
    BY <1>3, <1>4, <1>7
  <1>9. (times + Cardinality(c)) + Cardinality(b) <= Cardinality(Listed(ts) \ base)
    BY <1>7, <1>8
  <1>. QED  BY <1>5, <1>6, <1>8, <1>9 DEF Paged, b, c

Offset == (walk.page - 1) * Size(walk.size)

\* A page is on its way: the reader has paged on when it arrives.
PageComes(page) ==
    /\ page \subseteq Uploaded
    /\ page = {} => walk.base \subseteq walk.got
    /\ Paged(torrents, walk.base, Offset + Size(walk.size), walk.got \cup page,
             walk.again + Cardinality(walk.got \cap page))

Reads == /\ Unique(torrents)
         /\ walk.page >= 1
         /\ walk.base \subseteq Uploaded /\ walk.got \subseteq Uploaded
         /\ walk.st = "idle" => walk.page = 1 /\ walk.got = {} /\ walk.again = 0
         /\ walk.st = "reading" => Paged(torrents, walk.base, Offset, walk.got, walk.again)
         /\ PagesComplete
         /\ \A c \in Clients : req[c] # None => req[c].op # "list"
         /\ req[Reader] # None => /\ walk.st = "reading"
                                  /\ req[Reader].op = "list" /\ req[Reader].arg = walk.page
         /\ ans[Reader] # None /\ ans[Reader].ok => PageComes(ans[Reader].rows)

\* Pages have a size, and offsets are multiples of it.
LEMMA Sized ==
    ASSUME TypeOK, walk.page >= 1
    PROVE  Size(walk.size) \in Nat \ {0} /\ Offset \in Nat
  <1>1. walk.size \in Int /\ walk.page - 1 \in Nat
    <2>1. walk.size \in Sizes /\ walk.page \in Nat
      BY DEF TypeOK, Walk
    <2>2. Sizes \subseteq Int
      BY WebAssumption
    <2>3. walk.size \in Int
      BY <2>1, <2>2
    <2>4. \A k \in Nat : k >= 1 => k - 1 \in Nat
      OBVIOUS
    <2>5. walk.page - 1 \in Nat
      BY <2>1, <2>4
    <2>. QED  BY <2>3, <2>5
  <1>2. Size(walk.size) \in Nat \ {0}
    BY <1>1, WebAssumption DEF Size
  <1>. QED  BY <1>1, <1>2 DEF Offset

\* No request and no answer, nor a step that touches neither the torrents nor the
\* reader, disturbs the reader.
LEMMA ReadsStay ==
    ASSUME Reads, UNCHANGED <<torrents, walk>>,
           \A c \in Clients : req'[c] # None => req'[c].op # "list",
           req'[Reader] \in {None, req[Reader]},
           ans'[Reader] # None /\ ans'[Reader].ok => ans'[Reader] = ans[Reader]
    PROVE  Reads'
  BY DEF Reads, PageComes, Offset, Uploaded, PagesComplete

\* The reader begins with nothing seen and everything still to come.
LEMMA AsksReads == ASSUME TypeOK, IInv, Reads, ReaderAsks PROVE Reads'
  <1>0. Reader \in Everyone /\ \A c \in Clients : c \in Everyone /\ c # Reader
    BY WebAssumption DEF Everyone
  <1>1. /\ req[Reader] = None /\ ans[Reader] = None /\ ans' = ans
        /\ req'[Reader] = [op |-> "list", arg |-> walk.page, by |-> None, n |-> 0]
        /\ \A c \in Clients : req'[c] = req[c]
        /\ torrents' = torrents
    BY <1>0 DEF ReaderAsks, TypeOK, IInv, Shape, dbVars
  <1>2. CASE walk.st = "reading"
    <2>1. walk' = walk
      BY <1>2 DEF ReaderAsks
    <2>. QED  BY <1>1, <1>2, <2>1 DEF Reads, PageComes, Offset, Uploaded, PagesComplete
  <1>3. CASE walk.st = "idle"
    <2>1. walk' = [walk EXCEPT !.st = "reading", !.base = Uploaded] /\ walk \in Walk
      BY <1>3 DEF ReaderAsks, TypeOK
    <2>2. /\ walk'.st = "reading" /\ walk'.base = Uploaded /\ walk'.page = walk.page
          /\ walk'.got = walk.got /\ walk'.again = walk.again /\ walk'.size = walk.size
      BY <2>1 DEF Walk
    <2>3. walk.page = 1 /\ walk.got = {} /\ walk.again = 0
      BY <1>3 DEF Reads
    <2>4. Offset' = 0
      <3>1. Size(walk.size) \in Nat
        BY <2>3, Sized
      <3>. QED  BY <2>2, <2>3, <3>1 DEF Offset, Size
    <2>5. Paged(torrents, Uploaded, 0, {}, 0)
      BY PagedAtStart DEF TypeOK, Uploaded, Listed
    <2>. QED  BY <1>1, <2>2, <2>3, <2>4, <2>5 DEF Reads, Uploaded, PagesComplete
  <1>. QED  BY <1>2, <1>3 DEF ReaderAsks, TypeOK, Walk

\* A page shows what is between two offsets at the moment of the query.
LEMMA ListReads == ASSUME TypeOK, IInv, Reads, NEW c \in Everyone, ListTorrents(c) PROVE Reads'
  <1> DEFINE page == Rows(req[c].arg, walk.size)
  <1>1. /\ c = Reader /\ walk.st = "reading" /\ req[c].arg = walk.page
        /\ torrents \in Seq(Row) /\ Unique(torrents)
    BY DEF ListTorrents, Waits, Reads, Everyone, TypeOK
  <1>2. Size(walk.size) \in Nat \ {0} /\ Offset \in Nat /\ walk.page >= 1
    BY Sized DEF Reads
  <1>3. page = List(Offset, Size(walk.size))
    <2>1. Page(walk.page) = walk.page
      BY <1>2 DEF Page, TypeOK, Walk
    <2>. QED  BY <1>1, <2>1 DEF Rows, Offset
  <1>4. page = Behind(torrents, Offset) \ Behind(torrents, Offset + Size(walk.size))
    BY <1>1, <1>2, <1>3, ListReturns
  <1>5. page \subseteq Uploaded
    BY <1>1, <1>3, PageUploaded
  <1> HIDE DEF page
  <1>6. walk.got \in SUBSET Listed(torrents) /\ Paged(torrents, walk.base, Offset, walk.got, walk.again)
    BY <1>1 DEF Reads, Uploaded, Listed
  <1>7. /\ Paged(torrents, walk.base, Offset + Size(walk.size), walk.got \cup page,
                 walk.again + Cardinality(walk.got \cap page))
        /\ page = {} => walk.base \subseteq walk.got
    <2> DEFINE base == walk.base
               seen == walk.got
               times == walk.again
               n == Offset
               l == Size(walk.size)
    <2>1. /\ seen \in SUBSET Listed(torrents) /\ n \in Nat /\ l \in Nat \ {0}
          /\ Paged(torrents, base, n, seen, times)
      BY <1>2, <1>6
    <2>2. page = Behind(torrents, n) \ Behind(torrents, n + l)
      BY <1>4
    <2> HIDE DEF base, seen, times, n, l
    <2>3. \A pg :
             pg = Behind(torrents, n) \ Behind(torrents, n + l)
             => /\ Paged(torrents, base, n + l, seen \cup pg, times + Cardinality(seen \cap pg))
                /\ pg = {} => base \subseteq seen
      BY <1>1, <2>1, PagedOn
    <2>4. /\ Paged(torrents, base, n + l, seen \cup page, times + Cardinality(seen \cap page))
          /\ page = {} => base \subseteq seen
      BY <2>2, <2>3, Zenon
    <2>. QED  BY <2>4 DEF base, seen, times, n, l
  <1>8. PageComes(page)
    BY <1>5, <1>7 DEF PageComes
  <1>9. /\ ans'[Reader] = [ok |-> TRUE, rows |-> page]
        /\ UNCHANGED <<torrents, walk, req>>
    BY <1>1 DEF ListTorrents, AnswersWith, clientVars, dbVars, TypeOK, page
  <1>. QED  BY <1>8, <1>9 DEF Reads, PageComes, Offset, Uploaded, PagesComplete

\* An upload moves at most one row behind the reader's offset, and is one more that
\* was not there when the reader began.
LEMMA UploadReads == ASSUME TypeOK, IInv, Reads, NEW c \in Everyone, UploadTorrent(c) PROVE Reads'
  <1>1. /\ c # Reader /\ torrents \in Seq(Row) /\ Unique(torrents)
        /\ req[c].arg \in Hashes /\ req[c].by \in Names
    BY DEF UploadTorrent, Waits, Reads, TypeOK, Request
  <1>2. UNCHANGED <<walk, req>> /\ ans'[Reader] = ans[Reader]
    BY <1>1 DEF UploadTorrent, AnswersWith, clientVars, TypeOK, Everyone
  <1>3. CASE torrents' = torrents
    BY <1>2, <1>3, ReadsStay DEF Reads
  <1>4. CASE torrents' # torrents
    <2>1. PICK now \in Seconds :
             torrents' = Append(torrents, [hash |-> req[c].arg, by |-> req[c].by, at |-> now])
      BY <1>4 DEF UploadTorrent
    <2> DEFINE row == [hash |-> req[c].arg, by |-> req[c].by, at |-> now]
    <2>2. row \in Row /\ row.hash \notin Listed(torrents) /\ torrents' = Append(torrents, row)
      BY <1>1, <1>4, <2>1 DEF UploadTorrent, Row, Uploaded, Listed
    <2> HIDE DEF row
    <2>3. /\ Unique(torrents') /\ torrents' \in Seq(Row)
          /\ Listed(torrents') = Listed(torrents) \cup {row.hash}
      BY <1>1, <2>2, UploadShifts
    <2>4. ASSUME NEW n \in Nat, NEW seen \in SUBSET Listed(torrents), NEW times,
                 Paged(torrents, walk.base, n, seen, times)
          PROVE  Paged(torrents', walk.base, n, seen, times)
      <3>1. walk.base \in SUBSET Listed(torrents)
        BY DEF Reads, Uploaded, Listed
      <3>2. \A base \in SUBSET Listed(torrents) :
               Paged(torrents, base, n, seen, times) => Paged(torrents', base, n, seen, times)
        BY <1>1, <2>2, PagedUpload
      <3>. QED  BY <2>4, <3>1, <3>2
    <2>5. Offset \in Nat /\ Offset + Size(walk.size) \in Nat /\ Offset' = Offset
      BY <1>2, Sized DEF Reads, Offset
    <2>6. walk.st = "reading" => Paged(torrents', walk.base, Offset, walk.got, walk.again)
      <3>1. walk.got \in SUBSET Listed(torrents)
        BY DEF Reads, Uploaded, Listed
      <3>. QED  BY <2>4, <2>5, <3>1 DEF Reads
    <2>7. PagesComplete'
      <3>1. /\ IsFiniteSet(Listed(torrents') \ walk.base)
            /\ Listed(torrents) \ walk.base \subseteq Listed(torrents') \ walk.base
        BY <2>3, BehindLess, FS_Subset
      <3>2. /\ Cardinality(Listed(torrents) \ walk.base) <= Cardinality(Listed(torrents') \ walk.base)
            /\ Cardinality(Listed(torrents) \ walk.base) \in Nat
            /\ Cardinality(Listed(torrents') \ walk.base) \in Nat
        BY <3>1, FS_Subset, FS_CardinalityType
      <3>3. walk.again \in Nat
        BY DEF TypeOK, Walk
      <3>. QED  BY <1>2, <3>2, <3>3 DEF Reads, PagesComplete, Uploaded, Listed
    <2>8. ASSUME ans[Reader] # None, ans[Reader].ok
          PROVE  PageComes(ans[Reader].rows)'
      <3> DEFINE page == ans[Reader].rows
      <3>1. PageComes(page)
        BY <2>8 DEF Reads
      <3>2. page \subseteq Uploaded' /\ walk.got \cup page \in SUBSET Listed(torrents)
        BY <2>3, <3>1 DEF PageComes, Reads, Uploaded, Listed
      <3> HIDE DEF page
      <3>3. Paged(torrents', walk.base, Offset + Size(walk.size), walk.got \cup page,
                  walk.again + Cardinality(walk.got \cap page))
        BY <2>4, <2>5, <3>1, <3>2 DEF PageComes
      <3>. QED  BY <1>2, <2>5, <3>1, <3>2, <3>3 DEF PageComes, page
    <2>9. walk.base \subseteq Uploaded' /\ walk.got \subseteq Uploaded'
      BY <2>3 DEF Reads, Uploaded, Listed
    <2>. QED  BY <1>2, <2>3, <2>5, <2>6, <2>7, <2>8, <2>9 DEF Reads
  <1>. QED  BY <1>3, <1>4

\* A page that arrives moves the reader on; the empty one ends its walk, and then it
\* has seen whatever there was.
LEMMA ReplyReads == ASSUME TypeOK, IInv, Reads, NEW c \in Everyone, Reply(c) PROVE Reads'
  <1>0. Reader \in Everyone /\ \A d \in Clients : d \in Everyone /\ d # Reader
    BY WebAssumption DEF Everyone
  <1>1. /\ req[c] # None /\ ans[c] # None /\ torrents' = torrents
        /\ req' = [req EXCEPT ![c] = None] /\ ans' = [ans EXCEPT ![c] = None]
    BY DEF Reply, IInv, Shape, dbVars
  <1>2. /\ \A d \in Clients : req'[d] # None => req'[d].op # "list"
        /\ req'[Reader] \in {None, req[Reader]} /\ ans'[Reader] \in {None, ans[Reader]}
    BY <1>0, <1>1 DEF Reads, TypeOK
  <1>3. CASE walk' = walk
    BY <1>1, <1>2, <1>3, ReadsStay
  <1>4. CASE walk' # walk
    <2> DEFINE page == ans[Reader].rows
    <2>1. c = Reader /\ ans[c].ok /\ walk' = Read(page)
      BY <1>1, <1>4 DEF Reply, Delivered, clientVars, Reads, Everyone
    <2>2. /\ walk.st = "reading" /\ PageComes(page) /\ page \subseteq Uploaded
          /\ req'[Reader] = None /\ ans'[Reader] = None
      BY <1>0, <1>1, <2>1 DEF Reads, PageComes, TypeOK
    <2> HIDE DEF page
    <2>3. CASE page = {}
      <3>1. walk' = [walk EXCEPT !.st = "done"] /\ walk \in Walk
        BY <2>1, <2>3 DEF Read, TypeOK
      <3>2. /\ walk'.st = "done" /\ walk'.base = walk.base /\ walk'.got = walk.got
            /\ walk'.again = walk.again /\ walk'.page = walk.page
        BY <3>1 DEF Walk
      <3>3. walk.base \subseteq walk.got
        BY <2>2, <2>3 DEF PageComes
      <3>4. walk.again <= Cardinality(Uploaded \ walk.base)
        <4>1. IsFiniteSet(walk.got \cap Behind(torrents, Offset))
          <5>1. IsFiniteSet(walk.got)
            BY BehindLess, FS_Subset DEF Reads, TypeOK, Uploaded, Listed
          <5>. QED  BY <5>1, FS_Intersection
        <4>2. Cardinality(walk.got \cap Behind(torrents, Offset)) \in Nat
          BY <4>1, FS_CardinalityType
        <4>3. IsFiniteSet(Uploaded \ walk.base)
          BY BehindLess, FS_Subset DEF TypeOK, Uploaded, Listed
        <4>4. Cardinality(Uploaded \ walk.base) \in Nat
          BY <4>3, FS_CardinalityType
        <4>5. /\ walk.again \in Nat
              /\ walk.again + Cardinality(walk.got \cap Behind(torrents, Offset))
                   <= Cardinality(Uploaded \ walk.base)
          BY <2>2 DEF Reads, Paged, Uploaded, Listed
        <4>. QED  BY <4>2, <4>4, <4>5
      <3>. QED  BY <1>1, <1>2, <2>2, <3>2, <3>3, <3>4 DEF Reads, Uploaded, PagesComplete
    <2>4. CASE page # {}
      <3>1. /\ walk' = [walk EXCEPT !.page = walk.page + 1, !.got = walk.got \cup page,
                                    !.again = walk.again + Cardinality(walk.got \cap page)]
            /\ walk \in Walk
        BY <2>1, <2>4 DEF Read, TypeOK
      <3>2. /\ walk'.st = "reading" /\ walk'.base = walk.base /\ walk'.got = walk.got \cup page
            /\ walk'.again = walk.again + Cardinality(walk.got \cap page)
            /\ walk'.page = walk.page + 1 /\ walk'.size = walk.size
        BY <2>2, <3>1 DEF Walk
      <3>3. Offset' = Offset + Size(walk.size) /\ walk'.page >= 1
        <4>1. Size(walk.size) \in Nat /\ walk.page \in Nat /\ walk.page >= 1
          BY Sized DEF Reads, TypeOK, Walk
        <4>. QED  BY <3>2, <4>1 DEF Offset
      <3>4. Paged(torrents, walk.base, Offset', walk'.got, walk'.again)
        BY <2>2, <3>2, <3>3 DEF PageComes
      <3>. QED  BY <1>1, <1>2, <2>2, <3>2, <3>3, <3>4 DEF Reads, Uploaded, PagesComplete
    <2>. QED  BY <2>3, <2>4
  <1>. QED  BY <1>3, <1>4

\* The other handlers answer others, or the reader with an error.
LEMMA HandlerReads == ASSUME TypeOK, IInv, Reads, NEW c \in Everyone, Handler(c) PROVE Reads'
  <1>1. ASSUME NEW ok, NEW rows, AnswersWith(c, ok, rows), UNCHANGED torrents, c # Reader \/ ~ ok
        PROVE  Reads'
    <2>1. /\ UNCHANGED <<walk, req>>
          /\ ans' = [ans EXCEPT ![c] = [ok |-> ok, rows |-> rows]]
      BY <1>1 DEF AnswersWith, clientVars
    <2>2. ans'[Reader] # None /\ ans'[Reader].ok => ans'[Reader] = ans[Reader]
      BY <1>1, <2>1 DEF TypeOK, Everyone
    <2>. QED  BY <1>1, <2>1, <2>2, ReadsStay DEF Reads
  <1>2. \A op : Waits(c, op) /\ op # "list" => c # Reader
    BY DEF Waits, Reads
  <1>3. CASE StatementFails(c)
    BY <1>1, <1>3 DEF StatementFails, dbVars
  <1>4. CASE Register(c)
    BY <1>1, <1>2, <1>4 DEF Register
  <1>5. CASE Login(c)
    BY <1>1, <1>2, <1>5 DEF Login, dbVars
  <1>6. CASE UploadTorrent(c)
    BY <1>6, UploadReads
  <1>7. CASE ListTorrents(c)
    BY <1>7, ListReads
  <1>8. CASE Remote(c)
    BY <1>1, <1>2, <1>8 DEF Remote, dbVars
  <1>. QED  BY <1>3, <1>4, <1>5, <1>6, <1>7, <1>8 DEF Handler

-----------------------------------------------------------------------------
(* Every step keeps the types and the reader's place                       *)

WebInv == TypeOK /\ IInv /\ Reads

\* Before the first page nothing has been seen.
LEMMA StartReads == ASSUME Init PROVE WebInv
  <1>1. TypeOK /\ IInv
    BY TypesAtStart, First
  <1>2. Unique(torrents)
    BY WebAssumption DEF Init, Unique
  <1>3. PICK s \in Sizes : walk = [st |-> "idle", page |-> 1, size |-> s,
                                   base |-> {}, got |-> {}, again |-> 0]
    BY DEF Init
  <1>4. /\ walk.st = "idle" /\ walk.page = 1 /\ walk.base = {} /\ walk.got = {} /\ walk.again = 0
    BY <1>3
  <1>5. \A c \in Everyone : req[c] = None /\ ans[c] = None
    BY DEF Init, Nobody
  <1>6. Reads
    BY <1>2, <1>4, <1>5 DEF Reads, PagesComplete, Everyone
  <1>. QED  BY <1>1, <1>6 DEF WebInv

LEMMA NextTyped == ASSUME WebInv, [Next]_vars PROVE TypeOK'
  <1>. USE DEF WebInv
  <1>1. ASSUME NEW c \in Clients, Arrive(c) PROVE TypeOK'
    <2>1. PICK r \in Asks(c) : req' = [req EXCEPT ![c] = r]
      BY <1>1 DEF Arrive
    <2>2. r \in Request
      BY <1>1, <2>1, AskedTyped DEF Arrive
    <2>3. req' \in [Everyone -> {None} \cup Request]
      BY <2>1, <2>2 DEF TypeOK
    <2>4. nReq' \in 0 .. MaxReq
      BY <1>1, WebAssumption DEF Arrive, TypeOK
    <2>. QED  BY <1>1, <2>3, <2>4 DEF Arrive, TypeOK, dbVars, clientVars
  <1>2. CASE ReaderAsks
    <2>1. walk.page \in Nat /\ Uploaded \subseteq Hashes /\ walk \in Walk
      BY PageUploaded DEF TypeOK, Walk
    <2>2. [op |-> "list", arg |-> walk.page, by |-> None, n |-> 0] \in Request
      BY <2>1 DEF Request
    <2>3. req' \in [Everyone -> {None} \cup Request]
      BY <1>2, <2>2 DEF ReaderAsks, TypeOK
    <2>4. walk' \in Walk
      <3>1. [walk EXCEPT !.st = "reading", !.base = Uploaded] \in Walk
        BY <2>1 DEF Walk
      <3>. QED  BY <1>2, <2>1, <3>1 DEF ReaderAsks
    <2>. QED  BY <1>2, <2>3, <2>4 DEF ReaderAsks, TypeOK, dbVars
  <1>3. ASSUME NEW c \in Everyone, Reply(c) PROVE TypeOK'
    <2>1. IsFiniteSet(walk.got)
      BY BehindLess, FS_Subset DEF Reads, TypeOK, Uploaded, Listed
    <2>. QED  BY <1>3, <2>1, ReplyTyped
  <1>4. CASE Signal \/ MainStep
    BY <1>4 DEF Signal, MainStep, Shutdown, ShutdownIdle, ShutdownTimeout, CloseSvc, CloseDb, Exit,
                Ends, Main, TypeOK, dbVars, clientVars, Nobody
  <1>5. CASE Kill
    BY <1>5 DEF Kill, Ends, TypeOK, dbVars, clientVars, Nobody
  <1>6. CASE Restart
    <2>1. starts' \in 1 .. MaxStarts
      BY <1>6, WebAssumption DEF Restart, TypeOK
    <2>. QED  BY <1>6, <2>1 DEF Restart, TypeOK, dbVars, clientVars
  <1>7. CASE UNCHANGED vars
    BY <1>7 DEF vars, dbVars, clientVars, TypeOK
  <1>. QED  BY <1>1, <1>2, <1>3, <1>4, <1>5, <1>6, <1>7, HandlerTyped DEF Next

LEMMA NextReads == ASSUME WebInv, [Next]_vars PROVE Reads'
  <1>. USE DEF WebInv, dbVars, clientVars
  <1>1. ASSUME NEW c \in Clients, Arrive(c) PROVE Reads'
    <2>1. PICK r \in Asks(c) : req' = [req EXCEPT ![c] = r]
      BY <1>1 DEF Arrive
    <2>2. r.op # "list"
      BY <1>1, <2>1, AskedTyped DEF Arrive
    <2>3. req'[Reader] = req[Reader] /\ \A d \in Clients : req'[d] # None => req'[d].op # "list"
      BY <2>1, <2>2, WebAssumption DEF Reads, TypeOK, Everyone
    <2>. QED  BY <1>1, <2>3, ReadsStay DEF Arrive
  <1>2. CASE Signal \/ Shutdown \/ CloseSvc \/ CloseDb \/ Restart \/ UNCHANGED vars
    BY <1>2, ReadsStay DEF Reads, Signal, Shutdown, ShutdownIdle, ShutdownTimeout, CloseSvc, CloseDb,
                           Restart, Main, vars
  <1>3. ASSUME NEW from, Ends(from) PROVE Reads'
    <2>1. \A c \in Everyone : req'[c] = None /\ ans'[c] = None
      BY <1>3 DEF Ends, Nobody
    <2>. QED  BY <1>3, <2>1, ReadsStay DEF Ends, Everyone
  <1>4. CASE Kill \/ Exit
    BY <1>3, <1>4 DEF Kill, Exit
  <1>. QED  BY <1>1, <1>2, <1>4, AsksReads, HandlerReads, ReplyReads DEF Next, MainStep

\* The types and the reader's place hold in every reachable state.
THEOREM PagesInductive == Spec => []WebInv
  <1>1. Init => WebInv
    BY StartReads
  <1>2. WebInv /\ [Next]_vars => WebInv'
    BY NextTyped, NextKeeps, NextReads DEF WebInv
  <1>. QED  BY <1>1, <1>2, PTL DEF Spec

\* Every request, answer, page and table row is of its type in every reachable state.
THEOREM WebTyped == Spec => []TypeOK
  <1>1. WebInv => TypeOK
    BY DEF WebInv
  <1>. QED  BY <1>1, PagesInductive, PTL

\* A reader that pages until a page is empty has seen all that was there when it began,
\* and at most one torrent again for each upload meanwhile, at any page size, whatever
\* the clock says, whatever is lost.
THEOREM PagesAreComplete == Spec => []PagesComplete
  <1>1. WebInv => PagesComplete
    BY DEF WebInv, Reads
  <1>. QED  BY <1>1, PagesInductive, PTL
=============================================================================
