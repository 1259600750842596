----------------------------- MODULE Migrations -----------------------------
(***************************************************************************)
(* RunMigrations: at every start of a service, the .sql files it embeds    *)
(* are executed in the order of their names, statement by statement, and   *)
(* each file is recorded in schema_migrations when its last statement is   *)
(* through.  There is no transaction around a file: what a crash or a      *)
(* failed statement leaves behind is there when the service starts again.  *)
(***************************************************************************)
EXTENDS Integers, Sequences, OrderBy

CONSTANTS NFiles,      \* number of .sql files; a file is its place in the order
          Texts,       \* what the files may contain: functions file -> lines
          Tables,      \* tables and indexes that the files create
          DbOutcomes,  \* whether a statement may fail: {TRUE} or {TRUE, FALSE}
          MaxStarts    \* bound: starts of the service

Files == 1 .. NFiles

\* A line of a file: blank or a comment, part of a statement, or its last line
\* (it ends with a semicolon).  The statement creates a table, and does nothing
\* when the table is there if it says IF NOT EXISTS.
Line == [kind : {"skip", "part", "last"}, creates : Tables, ifNotExists : BOOLEAN]

-----------------------------------------------------------------------------
\* splitStatements: the statements of a file, each a sequence of lines.
AddLine(acc, line) ==
    CASE line.kind = "skip" -> acc
      [] line.kind = "part" -> [acc EXCEPT !.cur = Append(@, line)]
      [] line.kind = "last" -> [stmts |-> Append(acc.stmts, Append(acc.cur, line)), cur |-> <<>>]

\* ... after each number of lines
After(lines) ==
    LET acc[n \in 0 .. Len(lines)] == IF n = 0 THEN [stmts |-> <<>>, cur |-> <<>>]
                                               ELSE AddLine(acc[n - 1], lines[n])
    IN  acc

Split_dropTail(lines) == After(lines)[Len(lines)].stmts
Split(lines) ==
    LET r == After(lines)[Len(lines)]
    IN  IF r.cur = <<>> THEN r.stmts ELSE Append(r.stmts, r.cur)

ASSUME MigrationsAssumption ==
    /\ NFiles \in Nat
    /\ TRUE \in DbOutcomes /\ DbOutcomes \subseteq BOOLEAN
    /\ MaxStarts \in Nat
    /\ Texts \subseteq [Files -> Seq(Line)]

-----------------------------------------------------------------------------
VARIABLES text,      \* the embedded files
          tables,    \* the tables of the database
          recorded,  \* schema_migrations
          pc,        \* where RunMigrations is, "up" when the service runs
          file,      \* the file it is at
          next,      \* the statement it executes next
          starts     \* starts so far

vars == <<text, tables, recorded, pc, file, next, starts>>

Stmts(f) == Split(text[f])
\* What a statement does is said on its first line.
Creates(stmt) == stmt[1].creates
IfNotExists(stmt) == stmt[1].ifNotExists

TypeOK == /\ text \in Texts
          /\ tables \subseteq Tables
          /\ recorded \subseteq Files
          /\ pc \in {"down", "check", "exec", "up", "failed"}
          /\ file \in 1 .. NFiles + 1
          /\ next \in Nat \ {0}
          /\ starts \in 0 .. MaxStarts

Init == /\ text \in Texts
        /\ tables = {} /\ recorded = {}
        /\ pc = "down" /\ file = 1 /\ next = 1 /\ starts = 0

\* NewSQLite and the creation of schema_migrations, which is idempotent.
Start == /\ pc \in {"down", "failed"}
         /\ starts < MaxStarts
         /\ starts' = starts + 1
         /\ pc' = "check"
         /\ file' = 1
         /\ UNCHANGED <<text, tables, recorded, next>>

\* All files are through: the service runs.
Finish == /\ pc = "check"
          /\ file = NFiles + 1
          /\ pc' = "up"
          /\ UNCHANGED <<text, tables, recorded, file, next, starts>>

\* The file is recorded: the next one.
Skip_sameFile == /\ pc = "check" /\ file \in recorded
                 /\ UNCHANGED vars
Skip == /\ pc = "check"
        /\ file \in recorded
        /\ file' = file + 1
        /\ UNCHANGED <<text, tables, recorded, pc, next, starts>>

Begin_ignoresRecord == /\ pc = "check"
                       /\ file \in Files
                       /\ pc' = "exec"
                       /\ next' = 1
                       /\ UNCHANGED <<text, tables, recorded, file, starts>>
Begin == /\ pc = "check"
         /\ file \in Files \ recorded
         /\ pc' = "exec"
         /\ next' = 1
         /\ UNCHANGED <<text, tables, recorded, file, starts>>

\* Execute a statement: it fails when it creates a table that is there and does
\* not say IF NOT EXISTS, and RunMigrations gives up.
Exec_goOn ==
    /\ pc = "exec"
    /\ next \in DOMAIN Stmts(file)
    /\ LET stmt == Stmts(file)[next] IN
       IF Creates(stmt) \in tables /\ ~ IfNotExists(stmt)
       THEN pc' = "check" /\ file' = file + 1 /\ UNCHANGED <<tables, next>>
       ELSE tables' = tables \cup {Creates(stmt)} /\ next' = next + 1 /\ UNCHANGED <<pc, file>>
    /\ UNCHANGED <<text, recorded, starts>>
Exec == /\ pc = "exec"
        /\ next \in DOMAIN Stmts(file)
        /\ LET stmt == Stmts(file)[next] IN
           IF Creates(stmt) \in tables /\ ~ IfNotExists(stmt)
           THEN pc' = "failed" /\ UNCHANGED <<tables, next>>
           ELSE /\ tables' = tables \cup {Creates(stmt)}
                /\ next' = next + 1
                /\ UNCHANGED pc
        /\ UNCHANGED <<text, recorded, file, starts>>

\* INSERT INTO schema_migrations, after the last statement.
Record_early == /\ pc = "exec"
                /\ recorded' = recorded \cup {file}
                /\ file' = file + 1
                /\ pc' = "check"
                /\ UNCHANGED <<text, tables, next, starts>>
Record == /\ pc = "exec"
          /\ next \notin DOMAIN Stmts(file)
          /\ recorded' = recorded \cup {file}
          /\ file' = file + 1
          /\ pc' = "check"
          /\ UNCHANGED <<text, tables, next, starts>>

\* Any statement may fail for another reason; the service then exits.
Fail == /\ FALSE \in DbOutcomes
        /\ pc \in {"check", "exec"}
        /\ pc' = "failed"
        /\ UNCHANGED <<text, tables, recorded, file, next, starts>>

\* The process is killed, or stops, between two statements.
Stop == /\ pc \in {"check", "exec", "up"}
        /\ pc' = "down"
        /\ UNCHANGED <<text, tables, recorded, file, next, starts>>

Step == Finish \/ Skip \/ Begin \/ Exec \/ Record
Next == Start \/ Step \/ Fail \/ Stop

Spec == Init /\ [][Next]_vars

\* RunMigrations runs on; nobody has to start the service.
FairSpec == Spec /\ WF_vars(Step)

-----------------------------------------------------------------------------
(* Properties                                                              *)

\* What a file under way has to show for its progress: the files before it are
\* recorded, and what its statements so far create is there.
Progress ==
    /\ pc \in {"check", "exec"} => 1 .. file - 1 \subseteq recorded
    /\ pc = "exec" => /\ file \in Files
                      /\ \A i \in DOMAIN Stmts(file) :
                            i < next => Creates(Stmts(file)[i]) \in tables

\* Everything a recorded file creates is there, however often the service was
\* stopped on the way.
RecordedComplete ==
    \A f \in recorded : \A i \in DOMAIN Stmts(f) : Creates(Stmts(f)[i]) \in tables

\* The files are executed in order: they are recorded without a gap, and a file
\* is worked on only after all the files before it.
Gapless ==
    /\ \A f \in recorded : 1 .. f \subseteq recorded
    /\ pc = "exec" => 1 .. file - 1 \subseteq recorded

\* The service never runs on a database some file has not been applied to.
UpComplete == pc = "up" => recorded = Files

\* No statement of a recorded file is ever executed again.
NeverAgain == pc = "exec" => file \notin recorded

\* The files run in order and each of them once, over any sequence of failed and
\* interrupted starts: nothing of a file is executed before all the files before it
\* are through, and nothing of a file that is through is executed again.
InOrderOnce == Gapless /\ NeverAgain

\* The inductive invariant the proofs rest on.
IInv == /\ TypeOK
        /\ Progress
        /\ RecordedComplete
        /\ Gapless
        /\ UpComplete
        /\ NeverAgain

\* The lines of a file that count, and those of them that end a statement: with a
\* semicolon, or as the last of the file.
Kept(lines) == {n \in DOMAIN lines : lines[n].kind # "skip"}
LastLines(lines) ==
    {e \in Kept(lines) : lines[e].kind = "last" \/ \A k \in Kept(lines) : k <= e}
\* Where the lines are of the statement that ends at line e
Places(lines, e) ==
    {k \in Kept(lines) : k <= e /\ \A d \in LastLines(lines) : d < e => d < k}
\* From the top of the file to its bottom
Down(S) == OrderBy(S, {p \in S \X S : p[1] < p[2]})
LinesAt(lines, S) == [j \in 1 .. Cardinality(S) |-> lines[Down(S)[j]]]

\* splitStatements loses no line of a statement, adds none, and cuts after every
\* line that ends with a semicolon and only there: its statements are, from top to
\* bottom, what is between two such lines.
SplitsWell ==
    \A f \in Files :
        LET ends == LastLines(text[f])
        IN  Stmts(f) = [i \in 1 .. Cardinality(ends) |->
                           LinesAt(text[f], Places(text[f], Down(ends)[i]))]

\* RunMigrations comes to an end.
Ends == pc \in {"check", "exec"} ~> pc \in {"up", "failed", "down"}

\* "Executes all the .sql files in the order of their names" (sqlite.go:37): a
\* start that is not interrupted and whose statements do not fail by themselves
\* gets through, whatever happened to the starts before it.
StartSucceeds == pc # "failed"
=============================================================================
