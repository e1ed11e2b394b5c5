----------------------------- MODULE LedgerFile -----------------------------
(***************************************************************************)
(* The ledger file from its first opening (storage/db.py): processes that  *)
(* connect, migrate and append to it, and the commands that read it        *)
(* meanwhile (flopoffice/__main__.py, verify-ledger and ledger-status).    *)
(*                                                                         *)
(* A connect runs                                                          *)
(*                                                                         *)
(*   create -> begin -> check -> migrate -> commit -> open                 *)
(*                                                                         *)
(* where check goes on to commit at once if the schema is there.  SQLite   *)
(* has one write lock: `lock` of module Ledger while an append holds it,   *)
(* Migrating while apply_migrations does.  A read-only connection takes no *)
(* lock (WAL), migrates nothing, and each of its SELECTs sees what is      *)
(* committed at that moment.                                               *)
(***************************************************************************)
EXTENDS Ledger, FiniteSets

CONSTANT Readers      \* processes that run a reading command

VARIABLES file,       \* the file on disk: does it exist, its tables, its version
          conn,       \* where each writer's connection is
          report      \* the command each reader runs and what it has read

fileVars == <<file, conn, report>>

Tables == {"activities", "nonces", "seen_signatures"}

NoReport == [at |-> "idle", outcome |-> "none", head |-> GENESIS_PREV_HASH, count |-> 0,
             groups |-> [b \in Bodies |-> 0], pending |-> {}]

FileInit == /\ Init
            /\ file = [exists |-> FALSE, tables |-> {}, version |-> 0]
            /\ conn = [p \in Procs |-> "closed"]
            /\ report = [r \in Readers |-> NoReport]

-----------------------------------------------------------------------------
(* connect and apply_migrations *)

Migrating(p) == conn[p] \in {"check", "migrate", "commit"}

WriteLocked == lock # NoProc \/ \E q \in Procs : Migrating(q)

To(p, at) == conn' = [conn EXCEPT ![p] = at]

(* mkdir, sqlite3.connect and the pragmas, of which the switch to WAL can    *)
(* itself find the file locked; either way the file is there now.            *)
Open(p) ==
    /\ conn[p] = "closed"
    /\ file' = [file EXCEPT !.exists = TRUE]
    /\ To(p, "create") \/ UNCHANGED conn
    /\ UNCHANGED <<vars, report>>

(* CREATE TABLE IF NOT EXISTS schema_migrations: a transaction of its own,   *)
(* which writes only if the table is missing.                                *)
CreateBookkeeping(p) ==
    /\ conn[p] = "create"
    /\ "schema_migrations" \in file.tables \/ ~WriteLocked
    /\ file' = [file EXCEPT !.tables = @ \cup {"schema_migrations"}]
    /\ To(p, "begin")
    /\ UNCHANGED <<vars, report>>

(* Mutant: a deferred BEGIN, which takes no lock before the version check. *)
BeginMigrationDeferred(p) ==
    /\ conn[p] = "begin"
    /\ lock = NoProc
    /\ To(p, "check")
    /\ UNCHANGED <<vars, file, report>>

(* BEGIN IMMEDIATE *)
BeginMigration(p) ==
    /\ conn[p] = "begin"
    /\ ~WriteLocked
    /\ To(p, "check")
    /\ UNCHANGED <<vars, file, report>>

(* Mutant: no busy_timeout, the wait goes on. *)
OpenWaits(p) == FALSE /\ UNCHANGED <<vars, fileVars>>

(* busy_timeout ran out on either of the two: connect raises. *)
OpenTimesOut(p) ==
    /\ \/ conn[p] = "create" /\ "schema_migrations" \notin file.tables
       \/ conn[p] = "begin"
    /\ WriteLocked
    /\ To(p, "closed")
    /\ UNCHANGED <<vars, file, report>>

(* SELECT MAX(version) *)
CheckVersion(p) ==
    /\ conn[p] = "check"
    /\ To(p, IF file.version = 0 THEN "migrate" ELSE "commit")
    /\ UNCHANGED <<vars, file, report>>

AlreadyThere == file.tables \cap Tables # {}

(* The statements of version 1, none of which says IF NOT EXISTS: a table    *)
(* that is there raises and rolls back.  Nobody else sees them yet.          *)
Migrate(p) ==
    /\ conn[p] = "migrate"
    /\ To(p, IF AlreadyThere THEN "closed" ELSE "commit")
    /\ UNCHANGED <<vars, file, report>>

(* COMMIT of the tables and of their row in schema_migrations. *)
CommitMigration(p) ==
    /\ conn[p] = "commit"
    /\ file' = [file EXCEPT !.tables = @ \cup Tables, !.version = 1]
    /\ To(p, "open")
    /\ UNCHANGED <<vars, report>>

Connecting(p) == CreateBookkeeping(p) \/ BeginMigration(p) \/ OpenTimesOut(p)
                 \/ CheckVersion(p) \/ Migrate(p) \/ CommitMigration(p)

-----------------------------------------------------------------------------
(* Ledger.append over an open connection *)

(* busy_timeout ran out behind a migration. *)
BusyBehindMigration(p) ==
    /\ pc[p] = "begin"
    /\ \E q \in Procs : Migrating(q)
    /\ End(p)
    /\ UNCHANGED <<rows, lock, nextId>>

Appending(p) ==
    /\ conn[p] = "open"
    /\ \/ \E ref \in {NULL} \cup 1 .. nextId, body \in Bodies :
             AppendCall(p, ref, body)
       \/ (~\E q \in Procs : Migrating(q)) /\ Begin(p)
       \/ BusyTimeout(p) \/ BusyBehindMigration(p)
       \/ ReadHead(p) \/ CheckRef(p) \/ Insert(p) \/ Return(p)
    /\ UNCHANGED fileVars

(* The command is done with its connection. *)
Close(p) ==
    /\ conn[p] = "open" /\ pc[p] = "idle"
    /\ To(p, "closed")
    /\ UNCHANGED <<vars, file, report>>

(* The process dies: SQLite rolls back what it had open. *)
Die(p) ==
    /\ conn[p] # "closed"
    /\ To(p, "closed")
    /\ IF pc[p] = "idle" THEN UNCHANGED vars ELSE Crash(p)
    /\ UNCHANGED <<file, report>>

-----------------------------------------------------------------------------
(* verify-ledger and ledger-status *)

(* path.exists(), before the read-only connect: a missing file is an error,  *)
(* and is not created.                                                       *)
StartReport(r, command) ==
    /\ report[r].at = "idle"
    /\ report' = [report EXCEPT ![r] =
          IF file.exists THEN [NoReport EXCEPT !.at = command]
          ELSE [NoReport EXCEPT !.at = "done", !.outcome = "ledger not found"]]
    /\ UNCHANGED <<vars, file, conn>>

(* One SELECT over activities, or "no such table", which ends the command.   *)
Select(r, at, answer) ==
    /\ report[r].at = at
    /\ report' = [report EXCEPT ![r] =
          IF "activities" \in file.tables THEN answer
          ELSE [@ EXCEPT !.at = "done", !.outcome = "no such table"]]
    /\ UNCHANGED <<vars, file, conn>>

(* verify_chain reads the table in one SELECT. *)
Verify(r) ==
    Select(r, "verify", [report[r] EXCEPT !.at = "done",
                                          !.outcome = verify_chain(rows).status])

(* Mutant: the head is asked for after the count. *)
StatusCountFirst(r) ==
    \/ Select(r, "head", [report[r] EXCEPT !.at = "count", !.count = Len(rows)])
    \/ Select(r, "count", [report[r] EXCEPT !.at = "groups", !.head = HeadOf(rows).prev])

(* Ledger.head and Ledger.count; GENESIS_PREV_HASH stands for the "-" of an   *)
(* empty table.                                                              *)
StatusHead(r) ==
    \/ Select(r, "head", [report[r] EXCEPT !.at = "count", !.head = HeadOf(rows).prev])
    \/ Select(r, "count", [report[r] EXCEPT !.at = "groups", !.count = Len(rows)])

(* How many of the first n rows carry this body. *)
CountOf(body, n) == Cardinality({i \in 1 .. n : rows[i].body = body})

(* SELECT activity_type, COUNT( * ) ... GROUP BY activity_type *)
StatusGroups(r) ==
    Select(r, "groups", [report[r] EXCEPT !.at = "dangling",
           !.groups = [b \in Bodies |-> CountOf(b, Len(rows))]])

Outcomes == {"result", "failed"}

(* Mutant: only a result resolves an intent. *)
dangling_intents_NoFailed ==
    {rows[i].activity_id : i \in {j \in DOMAIN rows :
        /\ rows[j].body = "intent"
        /\ ~\E k \in DOMAIN rows : /\ rows[k].ref_activity_id = rows[j].activity_id
                                   /\ rows[k].body = "result"}}

(* dangling_intents: the body of a row stands for its activity_type here. *)
dangling_intents ==
    {rows[i].activity_id : i \in {j \in DOMAIN rows :
        /\ rows[j].body = "intent"
        /\ ~\E k \in DOMAIN rows : /\ rows[k].ref_activity_id = rows[j].activity_id
                                   /\ rows[k].body \in Outcomes}}

StatusDangling(r) ==
    Select(r, "dangling", [report[r] EXCEPT !.at = "done", !.outcome = "printed",
                                            !.pending = dangling_intents])

(* The command exits. *)
EndReport(r) ==
    /\ report[r].at = "done"
    /\ report' = [report EXCEPT ![r] = NoReport]
    /\ UNCHANGED <<vars, file, conn>>

Reading(r) == \/ \E command \in {"verify", "head"} : StartReport(r, command)
              \/ Verify(r) \/ StatusHead(r) \/ StatusGroups(r)
              \/ StatusDangling(r) \/ EndReport(r)

-----------------------------------------------------------------------------
FileNext == \/ \E p \in Procs : Open(p) \/ Connecting(p) \/ Appending(p)
                                \/ Close(p) \/ Die(p)
            \/ \E r \in Readers : Reading(r)

FileSpec == FileInit /\ [][FileNext]_<<vars, fileVars>>

(* A connect that has begun goes on: the process is scheduled, and           *)
(* busy_timeout bounds its wait for the lock.                                *)
FairFileSpec == /\ FileSpec
                /\ \A p \in Procs : WF_<<vars, fileVars>>(Connecting(p))

-----------------------------------------------------------------------------
(* Properties *)

(* Every variable keeps its type. *)
FileTypeOK ==
    /\ TypeOK
    /\ file \in [exists : BOOLEAN, version : {0, 1},
                 tables : SUBSET (Tables \cup {"schema_migrations"})]
    /\ conn \in [Procs -> {"closed", "create", "begin", "check", "migrate",
                           "commit", "open"}]

(* Whoever is handed a connection finds the whole schema, however many       *)
(* processes opened the new file at once and wherever they died; and the     *)
(* migration never meets a table another process has made.                   *)
SchemaWhole ==
    \A p \in Procs :
        /\ conn[p] = "open" => file.version = 1 /\ Tables \subseteq file.tables
        /\ conn[p] = "migrate" => ~AlreadyThere

(* What ledger-status prints is of four moments, but adds up: the head is    *)
(* one of the records counted, no type has fewer rows than the count held,   *)
(* and a report that printed anything prints everything.                     *)
StatusAddsUp ==
    \A r \in Readers : LET s == report[r] IN
        /\ s.outcome = "no such table" => s.count = 0 /\ s.head = GENESIS_PREV_HASH
        /\ s.outcome = "printed" =>
              /\ \/ s.head = GENESIS_PREV_HASH
                 \/ \E i \in 1 .. s.count : rows[i].entry_hash = s.head
              /\ \A b \in Bodies : s.groups[b] >= CountOf(b, s.count)

(* ledger-status warns of every intent among the records it counted that     *)
(* still has no outcome, and of none that had one when it counted.           *)
WarnsOfCounted ==
    \A r \in Readers : LET s == report[r] IN
        s.outcome = "printed" =>
          \A i \in 1 .. s.count :
            LET outcome(k) == /\ rows[k].ref_activity_id = rows[i].activity_id
                              /\ rows[k].body \in Outcomes
            IN  rows[i].body = "intent" =>
                  /\ (~\E k \in DOMAIN rows : outcome(k)) =>
                        rows[i].activity_id \in s.pending
                  /\ rows[i].activity_id \in s.pending =>
                        ~\E k \in 1 .. s.count : outcome(k)

(* Opening the ledger ends, with a connection or an error: no process waits  *)
(* for the migration of another for ever.                                    *)
OpensEnd == \A p \in Procs :
    conn[p] \in {"create", "begin", "check", "migrate", "commit"}
        ~> conn[p] \in {"open", "closed"}
=============================================================================
