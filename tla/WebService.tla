----------------------------- MODULE WebService -----------------------------
(***************************************************************************)
(* The web server: clients register, log in, upload torrents and ask the   *)
(* tracker or the DHT service, a reader pages through the list, and main   *)
(* shuts the server down.  A handler runs one statement or one gRPC call;  *)
(* a token is checked without the database and outlives the process.       *)
(***************************************************************************)
EXTENDS Integers, FiniteSets, Sequences, OrderBy

CONSTANTS Names,      \* user names, which stand for the users' ids as well
          Hashes,     \* info hashes
          Clients,    \* clients, each with one request at a time
          Reader,     \* the client that pages through the list
          Sizes,      \* the page sizes it may ask for
          MaxSize, DefaultSize,  \* 100 and 20 in the code
          Seconds,    \* what CURRENT_TIMESTAMP may say: the wall clock can be set
          InitTables, \* what the database and the clients may start with
          DbOutcomes, \* whether statements may fail: {TRUE} or {TRUE, FALSE}
          MaxReq,     \* bound: requests but those of the reader
          MaxStarts,  \* bound: starts of the process
          None        \* nothing, nobody

ASSUME WebAssumption == /\ Reader \notin Clients
                        /\ DefaultSize \in 1 .. MaxSize /\ MaxSize \in Nat
                        /\ Sizes \subseteq Int /\ Seconds \subseteq Int
                        /\ DbOutcomes \subseteq BOOLEAN
                        /\ MaxReq \in Nat /\ MaxStarts \in Nat \ {0}
                        /\ \A t \in InitTables :
                              /\ t.torrents \in Seq([hash : Hashes, by : Names, at : Seconds])
                              /\ t.token \in [Clients -> {None} \cup Names]
                              /\ t.users \subseteq Names
                              /\ \A i, j \in DOMAIN t.torrents :  \* info_hash UNIQUE
                                    t.torrents[i].hash = t.torrents[j].hash => i = j

VARIABLES users,     \* the names in table users
          torrents,  \* table torrents in the order of its row ids
          req,       \* the request each client waits for, or None
          ans,       \* its answer, once the handler has one
          token,     \* the user each client's token names, or None
          walk,      \* how far the reader is
          acks,      \* history: the requests answered with 201
          nReq, starts,
          proc,      \* how far main is
          late       \* history: Shutdown gave up waiting

dbVars     == <<users, torrents>>
clientVars == <<token, walk, acks>>
vars == <<dbVars, clientVars, req, ans, nReq, starts, proc, late>>

Everyone == Clients \cup {Reader}
Row      == [hash : Hashes, by : Names, at : Seconds]
Request  == [op : {"register", "login"}, arg : Names, by : {None}, n : 1 .. MaxReq]
            \cup [op : {"upload"}, arg : Hashes, by : Names, n : 1 .. MaxReq]
            \cup [op : {"remote"}, arg : {None}, by : Names, n : 1 .. MaxReq]
            \cup [op : {"list"}, arg : Nat, by : {None}, n : {0}]
Answer   == [ok : BOOLEAN, rows : SUBSET Hashes]
Walk     == [st : {"idle", "reading", "done"}, page : Nat, size : Sizes,
             base : SUBSET Hashes,  \* what was there when it began
             got : SUBSET Hashes,   \* what it has seen
             again : Nat]           \* how many it saw that it had seen before

TypeOK == /\ users \subseteq Names
          /\ torrents \in Seq(Row)
          /\ req \in [Everyone -> {None} \cup Request]
          /\ ans \in [Everyone -> {None} \cup Answer]
          /\ token \in [Clients -> {None} \cup Names]
          /\ walk \in Walk
          /\ acks \subseteq Request
          /\ nReq \in 0 .. MaxReq
          /\ starts \in 1 .. MaxStarts
          /\ proc \in {"serving", "draining", "drained", "svcclosed", "dbclosed", "ended"}
          /\ late \in BOOLEAN

Nobody == [c \in Everyone |-> None]

Init == /\ \E t \in InitTables : users = t.users /\ torrents = t.torrents /\ token = t.token
        /\ req = Nobody /\ ans = Nobody
        /\ \E s \in Sizes : walk = [st |-> "idle", page |-> 1, size |-> s,
                                    base |-> {}, got |-> {}, again |-> 0]
        /\ acks = {}
        /\ nReq = 0 /\ starts = 1
        /\ proc = "serving" /\ late = FALSE

alive  == proc # "ended"
dbOpen == proc \notin {"dbclosed", "ended"}
Uploaded == {torrents[i].hash : i \in DOMAIN torrents}

-----------------------------------------------------------------------------
(* Requests arrive.  Auth turns those without a token away, and a handler  *)
(* those without a field it requires, before anything has happened.        *)

New(ops, args, by) == [op : ops, arg : args, by : {by}, n : {nReq + 1}]
Public    == New({"register", "login"}, Names, None)
Protected(user) == New({"upload"}, Hashes, user) \cup New({"remote"}, {None}, user)

Asks_unprotected(c) == Public \cup Protected(token[c])
Asks(c) == IF token[c] = None THEN Public ELSE Public \cup Protected(token[c])

Arrive(c) == /\ proc = "serving"
             /\ req[c] = None
             /\ nReq < MaxReq
             /\ nReq' = nReq + 1
             /\ \E r \in Asks(c) : req' = [req EXCEPT ![c] = r]
             /\ UNCHANGED <<dbVars, clientVars, ans, starts, proc, late>>

\* The reader starts with page 1, and asks for page after page until one is empty.
ReaderAsks == /\ proc = "serving"
              /\ walk.st # "done"
              /\ req[Reader] = None
              /\ req' = [req EXCEPT ![Reader] =
                           [op |-> "list", arg |-> walk.page, by |-> None, n |-> 0]]
              /\ walk' = IF walk.st = "reading" THEN walk
                         ELSE [walk EXCEPT !.st = "reading", !.base = Uploaded]
              /\ UNCHANGED <<dbVars, token, acks, ans, nReq, starts, proc, late>>

-----------------------------------------------------------------------------
(* Handlers                                                                *)

AnswersWith(c, ok, rows) ==
    /\ ans' = [ans EXCEPT ![c] = [ok |-> ok, rows |-> rows]]
    /\ UNCHANGED <<clientVars, req, nReq, starts, proc, late>>

\* A handler that has not got its answer yet.
Waits(c, op) == alive /\ req[c] # None /\ req[c].op = op /\ ans[c] = None

\* Any statement may fail, and on a closed database each does: register and upload
\* then answer 409, login 401, list 500.
StatementFails(c) == /\ \E op \in {"register", "login", "upload", "list"} : Waits(c, op)
                     /\ FALSE \in DbOutcomes \/ ~ dbOpen
                     /\ AnswersWith(c, FALSE, {})
                     /\ UNCHANGED dbVars

\* Register: INSERT, username UNIQUE.  (An account that exists is found out here.)
Register_upsert(c) == /\ Waits(c, "register") /\ dbOpen
                      /\ users' = users \cup {req[c].arg}
                      /\ AnswersWith(c, TRUE, {})
                      /\ UNCHANGED torrents
Register(c) == /\ Waits(c, "register") /\ dbOpen
               /\ users' = users \cup {req[c].arg}
               /\ AnswersWith(c, req[c].arg \notin users, {})
               /\ UNCHANGED torrents

\* Login: the user is looked up; the password is not looked at yet.
Login(c) == /\ Waits(c, "login") /\ dbOpen
            /\ AnswersWith(c, req[c].arg \in users, {})
            /\ UNCHANGED dbVars

\* UploadTorrent: INSERT, info_hash UNIQUE, uploaded_by REFERENCES users(id)
UploadTorrent(c) ==
    LET r  == req[c]
        ok == r.arg \notin Uploaded /\ r.by \in users
    IN
    /\ Waits(c, "upload") /\ dbOpen
    /\ \E now \in Seconds :
          torrents' = IF ok THEN Append(torrents, [hash |-> r.arg, by |-> r.by, at |-> now])
                      ELSE torrents
    /\ AnswersWith(c, ok, {})
    /\ UNCHANGED users

\* TorrentRepo.List: ORDER BY created_at DESC, of the same second in the order of
\* the rows, LIMIT and OFFSET
Newer(rows) == {p \in (DOMAIN rows) \X (DOMAIN rows) :
                   \/ rows[p[1]].at > rows[p[2]].at
                   \/ rows[p[1]].at = rows[p[2]].at /\ p[1] < p[2]}
List(offset, limit) ==
    LET order == OrderBy(DOMAIN torrents, Newer(torrents))
    IN  {torrents[order[k]].hash : k \in (offset + 1 .. offset + limit) \cap DOMAIN order}

\* WebService.ListTorrents
Page(page) == IF page < 1 THEN 1 ELSE page
Size(size) == IF size <= 0 \/ size > MaxSize THEN DefaultSize ELSE size
Rows_rawOffset(page, size) == List((Page(page) - 1) * size, Size(size))
Rows(page, size) == List((Page(page) - 1) * Size(size), Size(size))

ListTorrents(c) == /\ Waits(c, "list") /\ dbOpen
                   /\ AnswersWith(c, TRUE, Rows(req[c].arg, walk.size))
                   /\ UNCHANGED dbVars

\* TorrentPeers, Stats, KnownHashes: the call is answered, or fails, as it does once
\* svc.Close has closed the connection; or it hangs as long as the other service does.
Remote(c) == /\ Waits(c, "remote")
             /\ \E ok \in BOOLEAN : /\ ok => proc \notin {"svcclosed", "dbclosed"}
                                    /\ AnswersWith(c, ok, {})
             /\ UNCHANGED dbVars

Handler(c) == \/ StatementFails(c)
              \/ Register(c)
              \/ Login(c)
              \/ UploadTorrent(c)
              \/ ListTorrents(c)
              \/ Remote(c)

\* What a client does with an answer: only a login and a page change what it knows.
Read(page) == IF page = {} THEN [walk EXCEPT !.st = "done"]
              ELSE [walk EXCEPT !.page = @ + 1,
                                !.got = @ \cup page,
                                !.again = @ + Cardinality(walk.got \cap page)]
Delivered(c) ==
    LET r == req[c]
        a == ans[c]
    IN
    /\ token' = IF a.ok /\ r.op = "login" THEN [token EXCEPT ![c] = r.arg] ELSE token
    /\ walk'  = IF a.ok /\ r.op = "list" THEN Read(a.rows) ELSE walk
    /\ acks'  = IF a.ok /\ r.op \in {"register", "upload"} THEN acks \cup {r} ELSE acks

\* The answer reaches the client, or the connection is gone.
Reply(c) == /\ alive
            /\ ans[c] # None
            /\ Delivered(c) \/ UNCHANGED clientVars
            /\ req' = [req EXCEPT ![c] = None]
            /\ ans' = [ans EXCEPT ![c] = None]
            /\ UNCHANGED <<dbVars, nReq, starts, proc, late>>

-----------------------------------------------------------------------------
(* main                                                                    *)

Main(from, to) == /\ proc = from
                  /\ proc' = to
                  /\ UNCHANGED <<dbVars, clientVars, req, ans, nReq, starts>>

Idle == req = Nobody

Signal == Main("serving", "draining") /\ UNCHANGED late

\* srv.Shutdown takes no request any more and returns when none is left, or after
\* five seconds.
ShutdownIdle_close == Main("draining", "drained") /\ UNCHANGED late
ShutdownIdle    == Idle /\ Main("draining", "drained") /\ UNCHANGED late
ShutdownTimeout == ~ Idle /\ Main("draining", "drained") /\ late' = TRUE
Shutdown_background == ShutdownIdle
Shutdown == ShutdownIdle \/ ShutdownTimeout

\* The deferred calls
CloseSvc == Main("drained", "svcclosed") /\ UNCHANGED late
CloseDb  == Main("svcclosed", "dbclosed") /\ UNCHANGED late

\* The process ends, and the requests it was serving with it.
Ends(from) == /\ proc = from
              /\ proc' = "ended"
              /\ req' = Nobody /\ ans' = Nobody
              /\ UNCHANGED <<dbVars, clientVars, nReq, starts, late>>
Exit == Ends("dbclosed")
Kill == alive /\ Ends(proc)

Restart == /\ ~ alive
           /\ starts < MaxStarts
           /\ starts' = starts + 1
           /\ proc' = "serving"
           /\ late' = FALSE
           /\ UNCHANGED <<dbVars, clientVars, req, ans, nReq>>

MainStep == Shutdown \/ CloseSvc \/ CloseDb \/ Exit

-----------------------------------------------------------------------------
Next == \/ \E c \in Clients : Arrive(c)
        \/ ReaderAsks
        \/ \E c \in Everyone : Handler(c) \/ Reply(c)
        \/ Signal
        \/ MainStep
        \/ Kill
        \/ Restart

Spec == Init /\ [][Next]_vars

\* main goes on once it has its signal; no handler and no other service has to.
FairSpec == Spec /\ WF_vars(MainStep)

-----------------------------------------------------------------------------
(* Properties                                                              *)

\* A 201 is true for good and given once: the account or the torrent is in the
\* database under the name of the user who asked, however the process ended since,
\* and nobody else was told to have created it.
Acknowledged ==
    /\ \A r \in acks :
          IF r.op = "register" THEN r.arg \in users
          ELSE \E i \in DOMAIN torrents : torrents[i].hash = r.arg /\ torrents[i].by = r.by
    /\ \A r, s \in acks : r.op = s.op /\ r.arg = s.arg => r = s

\* A reader that asks for page after page until one is empty has seen every torrent
\* that was there when it began, and sees at most one of them again for each upload
\* in the meantime, whatever the clock says, whatever fails, restarts included.
PagesComplete ==
    walk.st = "done" =>
        /\ walk.base \subseteq walk.got
        /\ walk.again <= Cardinality(Uploaded \ walk.base)

\* A request that was accepted meets a closed connection or database only when it
\* took longer than the five seconds Shutdown waits.
RequestsDrained == proc \in {"drained", "svcclosed", "dbclosed"} /\ ~ Idle => late

\* Once it has its signal the server stops, also when a call to another service hangs.
StopEnds == proc = "draining" ~> ~ alive
=============================================================================
