---------------------------- MODULE SqliteMerge ----------------------------
(***************************************************************************)
(* The one-shot merge of the legacy SQLite file into MySQL (plan.ts and    *)
(* index.ts of scripts/mergeSqliteIntoMysql), run once or several times,   *)
(* by one operator or by two at once, while the legacy adapter goes on     *)
(* writing todo_items.                                                     *)
(*                                                                         *)
(* A row is an id, a name and a completed value.  What cannot be stored is *)
(* one model value per reason; the ways the file may write a boolean are   *)
(* kept apart, because planMerge compares rows after normalisation and     *)
(* fingerprints conflicts before it.                                       *)
(*                                                                         *)
(* todo_items is a set of rows: it has no key, but equal rows are never    *)
(* told apart.  The fingerprint is the pair that is hashed.                *)
(***************************************************************************)
EXTENDS Naturals, Sequences, FiniteSets

CONSTANTS
  Ids,         \* ids that fit varchar(36)
  Names,       \* names that fit varchar(255), NULL among them
  Files,       \* contents the SQLite file may have: sequences of raw rows
  Tables,      \* contents todo_items may have before the first run
  Scripts,     \* processes that may run the script
  MaxRuns,     \* bound on the runs started
  MaxWrites    \* bound on the writes of the application

Booleans == {"0", "1", "NULL"}
RawBooleans == Booleans \cup {"false", "true", "other"}
RawRows == [id : Ids \cup {"not an id"},
            name : Names \cup {"too long", "not text"},
            completed : RawBooleans]
TodoRows == [id : Ids, name : Names, completed : Booleans]

ASSUME MergeAssumption ==
  /\ "not an id" \notin Ids
  /\ Names \cap {"too long", "not text"} = {}
  /\ Files \subseteq Seq(RawRows)
  /\ \A T \in Tables : T \subseteq RawRows
  /\ MaxRuns \in Nat
  /\ MaxWrites \in Nat

VARIABLES
  sqlite,      \* rows of the SQLite file, opened read-only
  mysql,       \* committed rows of todo_items
  conflicts,   \* committed rows of todo_items_merge_conflicts
  run,         \* per script: what its process knows
  runs,        \* runs started so far
  committed,   \* history: runs that committed
  touched,     \* history: the application wrote since the last commit
  writes       \* writes of the application so far

tables == <<mysql, conflicts>>
mergeVars == <<sqlite, tables, run, runs, committed, touched, writes>>

-----------------------------------------------------------------------------
(* plan.ts                                                                 *)

normalizeCompleted(value) ==
  CASE value \in {"0", "false"} -> "0"
    [] value \in {"1", "true"} -> "1"
    [] value = "NULL" -> "NULL"
    [] OTHER -> "other"

\* Why a raw row does not normalize, in the order of the tests.
InvalidReason(raw) ==
  CASE raw.id \notin Ids -> "invalid_id"
    [] raw.name = "not text" -> "invalid_name"
    [] raw.name = "too long" -> "name_too_long"
    [] normalizeCompleted(raw.completed) = "other" -> "invalid_completed"
    [] OTHER -> "ok"

Normalizes(raw) == InvalidReason(raw) = "ok"
normalizeRow(raw) == [raw EXCEPT !.completed = normalizeCompleted(@)]
NormalRows(S) == {normalizeRow(raw) : raw \in {r \in S : Normalizes(r)}}

\* Mutant: every reason has a fingerprint of its own.
FamilyPerReason(reason) == reason

\* The two collisions share a fingerprint: which one a row is depends on what
\* an earlier run has inserted.
Family(reason) ==
  IF reason \in {"differs_from_mysql", "duplicate_id_in_sqlite"} THEN "id_collision" ELSE reason

conflictHash(reason, raw) == <<Family(reason), raw>>
Conflict(reason, raw) == [hash |-> conflictHash(reason, raw), reason |-> reason, sqliteRow |-> raw]
Hashes(C) == {c.hash : c \in C}

\* A plan: the rows to insert, the conflicts, the normalized rows seen.
EmptyPlan == [toInsert |-> {}, conflicts |-> {}, seen |-> {}]

addConflict(plan, reason, raw) ==
  IF conflictHash(reason, raw) \in Hashes(plan.conflicts) THEN plan
  ELSE [plan EXCEPT !.conflicts = @ \cup {Conflict(reason, raw)}]

\* Mutant: a row is compared with MySQL only, not with what is to be inserted.
PlanRowAlone(plan, existing, raw) ==
  LET row == normalizeRow(raw)
      present == NormalRows(existing)
  IN IF ~Normalizes(raw) THEN addConflict(plan, InvalidReason(raw), raw)
     ELSE IF row \in plan.seen \/ row \in present THEN plan
     ELSE IF row.id \in {r.id : r \in plan.toInsert} THEN plan
     ELSE IF row.id \notin {r.id : r \in present}
       THEN [plan EXCEPT !.seen = @ \cup {row}, !.toInsert = @ \cup {row}]
     ELSE addConflict([plan EXCEPT !.seen = @ \cup {row}], "differs_from_mysql", raw)

\* One iteration of the loop of planMerge over the rows of the file.
PlanRow(plan, existing, raw) ==
  LET row == normalizeRow(raw)
      next == [plan EXCEPT !.seen = @ \cup {row}]
      present == NormalRows(existing) \cup plan.toInsert
      SameId(S) == \E r \in S : r.id = row.id
  IN IF ~Normalizes(raw) THEN addConflict(plan, InvalidReason(raw), raw)
     ELSE IF row \in plan.seen THEN plan
     ELSE IF row \in present THEN next
     ELSE IF ~SameId(present) THEN [next EXCEPT !.toInsert = @ \cup {row}]
     ELSE IF SameId(plan.toInsert) THEN addConflict(next, "duplicate_id_in_sqlite", raw)
     ELSE addConflict(next, "differs_from_mysql", raw)

\* A raw row that is neither in MySQL nor recorded.
Unaccounted(raw, items, recorded) ==
  /\ ~(Normalizes(raw) /\ normalizeRow(raw) \in NormalRows(items))
  /\ conflictHash(IF Normalizes(raw) THEN "differs_from_mysql" ELSE InvalidReason(raw), raw)
       \notin Hashes(recorded)

FileRows == {sqlite[i] : i \in DOMAIN sqlite}
findUnaccountedRows(items, recorded) == {raw \in FileRows : Unaccounted(raw, items, recorded)}

-----------------------------------------------------------------------------
(* index.ts.  A process runs once per start: a dry run reads and plans, an *)
(* applied run holds the lock on todo_items from its read to its end.      *)

Phases == {"idle", "started", "planning", "writing", "verified"}
Idle == [phase |-> "idle", apply |-> FALSE, fixed |-> FALSE, view |-> {},
         read |-> {}, at |-> 0, plan |-> EmptyPlan]

MergeTypeOK ==
  /\ sqlite \in Seq(RawRows)
  /\ mysql \subseteq RawRows
  /\ \A c \in conflicts \cup UNION {run[s].plan.conflicts : s \in Scripts} :
       c = Conflict(c.reason, c.sqliteRow) /\ c.sqliteRow \in FileRows
  /\ \A s \in Scripts :
       /\ run[s].phase \in Phases /\ run[s].apply \in BOOLEAN
       /\ run[s].fixed \in BOOLEAN /\ run[s].view \subseteq conflicts
       /\ run[s].at \in 0..Len(sqlite)
       /\ run[s].plan.toInsert \subseteq run[s].plan.seen
       /\ run[s].plan.seen \subseteq TodoRows
  /\ runs \in 0..MaxRuns /\ committed \in 0..runs
  /\ touched \in BOOLEAN /\ writes \in 0..MaxWrites

MergeInit ==
  /\ sqlite \in Files
  /\ mysql \in Tables
  /\ conflicts = {}
  /\ run = [s \in Scripts |-> Idle]
  /\ runs = 0
  /\ committed = 0
  /\ touched = FALSE
  /\ writes = 0

Set(s, r) == run' = [run EXCEPT ![s] = r]
Kept == <<sqlite, tables, runs, committed, touched, writes>>

\* Mutant: a plain SELECT holds nothing.
HoldsNoItems(s) == FALSE

\* SELECT ... FOR UPDATE without an index holds every row and every gap.
HoldsItems(s) == run[s].apply /\ run[s].phase \in {"planning", "writing", "verified"}

\* The copy of the file, its rows, the two tables, BEGIN and tableExists.  Whether
\* that query of information_schema fixes the snapshot of the transaction is up
\* to MySQL; a dry run reads no conflicts.
Start(s, apply, fixed) ==
  /\ run[s].phase = "idle"
  /\ runs < MaxRuns
  /\ fixed => apply
  /\ Set(s, [Idle EXCEPT !.phase = "started", !.apply = apply, !.fixed = fixed,
                         !.view = IF fixed THEN conflicts ELSE {}])
  /\ runs' = runs + 1
  /\ UNCHANGED <<sqlite, tables, committed, touched, writes>>

\* readMysqlItems: a dry run reads without a lock, the other waits for it.
ReadMysql(s) ==
  /\ run[s].phase = "started"
  /\ run[s].apply => ~\E o \in Scripts : HoldsItems(o)
  /\ Set(s, [run[s] EXCEPT !.phase = "planning", !.read = mysql])
  /\ UNCHANGED Kept

PlanNext(s) ==
  /\ run[s].phase = "planning"
  /\ run[s].at < Len(sqlite)
  /\ Set(s, [run[s] EXCEPT !.at = @ + 1,
                           !.plan = PlanRow(@, run[s].read, sqlite[run[s].at + 1])])
  /\ UNCHANGED Kept

\* A dry run ends in a rollback; the other sends its INSERTs.
Planned(s) ==
  /\ run[s].phase = "planning"
  /\ run[s].at = Len(sqlite)
  /\ Set(s, IF run[s].apply THEN [run[s] EXCEPT !.phase = "writing"] ELSE Idle)
  /\ UNCHANGED Kept

\* What the transaction sees once its statements have run.  INSERT IGNORE
\* leaves a fingerprint that is already there.
ItemsAfter(s) == mysql \cup run[s].plan.toInsert

\* Mutant: a plain INSERT into a table without the unique fingerprint.
ConflictsAppended(s) == conflicts \cup run[s].plan.conflicts

ConflictsAfter(s) ==
  conflicts \cup {c \in run[s].plan.conflicts : c.hash \notin Hashes(conflicts)}

\* The plain SELECT row_hash: the conflicts of its snapshot and those it has
\* inserted itself, not those whose INSERT was ignored.
RecordedSeen(s) ==
  (IF run[s].fixed THEN run[s].view ELSE conflicts) \cup (ConflictsAfter(s) \ conflicts)

\* todo_items is read again under its lock, the conflicts from the snapshot; a
\* row that is missing throws.
Verify(s) ==
  /\ run[s].phase = "writing"
  /\ findUnaccountedRows(ItemsAfter(s), RecordedSeen(s)) = {}
  /\ Set(s, [run[s] EXCEPT !.phase = "verified"])
  /\ UNCHANGED Kept

Commit(s) ==
  /\ run[s].phase = "verified"
  /\ mysql' = ItemsAfter(s)
  /\ conflicts' = ConflictsAfter(s)
  /\ Set(s, Idle)
  /\ committed' = committed + 1
  /\ touched' = FALSE
  /\ UNCHANGED <<sqlite, runs, writes>>

\* An error, a failed verification or the end of the process: ROLLBACK.
Fail(s) ==
  /\ run[s].phase # "idle"
  /\ Set(s, Idle)
  /\ UNCHANGED Kept

\* Storing, updating or removing an item waits for the lock on todo_items.
AppWrite(items) ==
  /\ writes < MaxWrites
  /\ ~\E s \in Scripts : HoldsItems(s)
  /\ mysql' = items
  /\ touched' = TRUE
  /\ writes' = writes + 1
  /\ UNCHANGED <<sqlite, conflicts, run, runs, committed>>

WithId(id) == {r \in mysql : r.id = id}

storeItem(row) == AppWrite(mysql \cup {row})
removeItem(id) == AppWrite(mysql \ WithId(id))
updateItem(row) ==
  /\ WithId(row.id) # {}
  /\ AppWrite((mysql \ WithId(row.id)) \cup {row})

\* The adapter writes 0 or 1.
StoredRows == {row \in TodoRows : row.completed # "NULL"}

ScriptStep(s) ==
  \/ \E apply, fixed \in BOOLEAN : Start(s, apply, fixed)
  \/ ReadMysql(s) \/ PlanNext(s) \/ Planned(s)
  \/ Verify(s) \/ Commit(s) \/ Fail(s)

AppStep ==
  \/ \E row \in StoredRows : storeItem(row) \/ updateItem(row)
  \/ \E id \in Ids : removeItem(id)

MergeNext == AppStep \/ \E s \in Scripts : ScriptStep(s)
MergeSpec == MergeInit /\ [][MergeNext]_mergeVars

-----------------------------------------------------------------------------
(* Properties                                                              *)

\* No task is in the file in two spellings: two rows that normalize to the
\* same row are written the same way, as the legacy adapter writes them.
Canonical ==
  \A a, b \in {raw \in FileRows : Normalizes(raw)} : normalizeRow(a) = normalizeRow(b) => a = b

\* Once planned, every row of the file is in MySQL, to be inserted or recorded:
\* the claim of plan.ts about planMerge, before any verification.
PlanAccountsForAll ==
  \A s \in Scripts : run[s].phase = "writing" =>
    findUnaccountedRows(ItemsAfter(s), ConflictsAfter(s)) = {}

\* Another run has recorded conflicts since the snapshot of this one was fixed.
Overtaken(s) == run[s].fixed /\ run[s].view # conflicts

\* The verification never rolls back the merge of a file written by the legacy
\* adapter, whatever the application and earlier runs did.  A run that waited for
\* another one to commit may not see what that one recorded, and is excepted.
NoFalseAlarm ==
  Canonical => \A s \in Scripts : run[s].phase = "writing" /\ ~Overtaken(s) =>
                 findUnaccountedRows(ItemsAfter(s), RecordedSeen(s)) = {}

\* A conflict is recorded once, whatever earlier runs and the application have
\* made of the row it collides with.
RecordedOnce == \A c, d \in conflicts : c.sqliteRow = d.sqliteRow => c = d

\* A run that commits leaves no row of the file behind: the application cannot
\* take away what was verified before the commit.
CommitLosesNothing ==
  [][committed' # committed => findUnaccountedRows(mysql, conflicts)' = {}]_mergeVars

\* Running the merge again, with nothing written in between, changes nothing.
RerunChangesNothing ==
  [][(committed' # committed /\ committed > 0 /\ ~touched) => UNCHANGED tables]_mergeVars

=============================================================================
