------------------------- MODULE SqliteMerge_proofs -------------------------
(***************************************************************************)
(* The merge of the SQLite file, for every file, every content of          *)
(* todo_items, any number of scripts, runs and writes.                     *)
(*                                                                         *)
(* The heart is the loop of planMerge: PlanOK relates a plan to the rows   *)
(* of todo_items it was made against and to the rows of the file it has    *)
(* seen, and PlanStep shows that an iteration keeps it.  The rest is the   *)
(* lock: while an applied run holds todo_items, what it read is what is    *)
(* there, and no other run commits.                                        *)
(***************************************************************************)
EXTENDS SqliteMerge, FiniteSetTheorems, TLAPS

Reasons == {"invalid_id", "invalid_name", "name_too_long", "invalid_completed",
            "differs_from_mysql", "duplicate_id_in_sqlite"}
Recorded == {Conflict(reason, raw) : reason \in Reasons, raw \in RawRows}
Plans == [toInsert : SUBSET TodoRows, conflicts : SUBSET Recorded, seen : SUBSET TodoRows]
RunStates == [phase : Phases, apply : BOOLEAN, fixed : BOOLEAN, view : SUBSET Recorded,
              read : SUBSET RawRows, at : Nat, plan : Plans]

\* The fingerprint a row is recorded under: it depends on the row alone.
RowHash(raw) ==
  conflictHash(IF Normalizes(raw) THEN "differs_from_mysql" ELSE InvalidReason(raw), raw)

HashedByRow(C) == \A c \in C : c.hash = RowHash(c.sqliteRow)
OnePerHash(C) == \A c, d \in C : c.hash = d.hash => c = d

HasId(S, id) == \E r \in S : r.id = id

\* Every row of F that normalizes has been seen, every other is recorded.
Visited(plan, F) ==
  \A raw \in F : IF Normalizes(raw) THEN normalizeRow(raw) \in plan.seen
                 ELSE RowHash(raw) \in Hashes(plan.conflicts)

\* A row seen is present, to be inserted, or recorded; its id is taken.
SeenAccounted(plan, R, F) ==
  \A row \in plan.seen :
    /\ \/ row \in NormalRows(R) \cup plan.toInsert
       \/ \E raw \in F : Normalizes(raw) /\ normalizeRow(raw) = row /\ RowHash(raw) \in Hashes(plan.conflicts)
    /\ HasId(NormalRows(R) \cup plan.toInsert, row.id)

\* An insertion takes an id that was free; a conflict is a row not present.
InsertsFreeIds(plan, R) == \A row \in plan.toInsert : ~HasId(NormalRows(R), row.id)
ConflictsFrom(plan, R, F) ==
  \A c \in plan.conflicts :
    /\ c.sqliteRow \in F
    /\ Normalizes(c.sqliteRow) => normalizeRow(c.sqliteRow) \notin NormalRows(R)

PlanOK(plan, R, F) ==
  /\ plan \in Plans
  /\ Visited(plan, F)
  /\ plan.toInsert \subseteq plan.seen
  /\ plan.seen \subseteq NormalRows(F)
  /\ SeenAccounted(plan, R, F)
  /\ InsertsFreeIds(plan, R)
  /\ ConflictsFrom(plan, R, F)
  /\ HashedByRow(plan.conflicts)
  /\ OnePerHash(plan.conflicts)

\* The rows of the file a script has gone through.
Seen(s) == {sqlite[i] : i \in 1..run[s].at}
Active == {s \in Scripts : run[s].phase # "idle"}

RowsTyped ==
  /\ sqlite \in Seq(RawRows)
  /\ mysql \subseteq RawRows
  /\ conflicts \subseteq Recorded
  /\ run \in [Scripts -> RunStates]
  /\ touched \in BOOLEAN

\* A run is counted when it starts, and again when it commits.
RunsCounted ==
  /\ runs \in 0..MaxRuns /\ writes \in 0..MaxWrites /\ committed \in Nat
  /\ IsFiniteSet(Active)
  /\ committed + Cardinality(Active) <= runs

TableRecords ==
  /\ HashedByRow(conflicts)
  /\ OnePerHash(conflicts)
  /\ \A c \in conflicts : c.sqliteRow \in FileRows

\* What each phase knows.
PhaseKnows(s) ==
  /\ run[s].at <= Len(sqlite)
  /\ PlanOK(run[s].plan, run[s].read, Seen(s))
  /\ run[s].phase \in {"idle", "started"} => run[s].plan = EmptyPlan /\ run[s].at = 0
  /\ run[s].phase \in {"writing", "verified"} => run[s].apply /\ run[s].at = Len(sqlite)
  /\ run[s].phase = "verified" => findUnaccountedRows(ItemsAfter(s), ConflictsAfter(s)) = {}

LockHeld ==
  /\ \A s, t \in Scripts : HoldsItems(s) /\ HoldsItems(t) => s = t
  /\ \A s \in Scripts : HoldsItems(s) => run[s].read = mysql

\* Since the last commit, every row of the file is accounted for and every id
\* of the file that could be stored is there.
LastCommitStands ==
  committed > 0 /\ ~touched =>
    /\ findUnaccountedRows(mysql, conflicts) = {}
    /\ \A row \in NormalRows(FileRows) : HasId(NormalRows(mysql), row.id)

\* Conflicts are only added, so a snapshot holds none that is not there.
ViewsPast == \A s \in Scripts : run[s].view \subseteq conflicts

MergeInv ==
  /\ RowsTyped
  /\ RunsCounted
  /\ TableRecords
  /\ \A s \in Scripts : PhaseKnows(s)
  /\ LockHeld
  /\ LastCommitStands

-----------------------------------------------------------------------------
(* Rows and fingerprints.                                                   *)

LEMMA NormalRow ==
  ASSUME NEW raw \in RawRows, Normalizes(raw)
  PROVE  normalizeRow(raw) \in TodoRows
<1>1. raw.id \in Ids /\ raw.name \in Names /\ normalizeCompleted(raw.completed) \in Booleans
  BY DEF Normalizes, InvalidReason, normalizeCompleted, RawRows, RawBooleans, Booleans
<1> DEFINE v == normalizeCompleted(raw.completed)
<1>2. [raw EXCEPT !.completed = v] \in TodoRows
  <2>1. v \in Booleans
    BY <1>1
  <2> HIDE DEF v
  <2> QED BY <1>1, <2>1 DEF TodoRows, RawRows
<1> QED BY <1>2 DEF normalizeRow

LEMMA TodoRowsAreNormal ==
  ASSUME NEW row \in TodoRows
  PROVE  row \in RawRows /\ Normalizes(row) /\ normalizeRow(row) = row
<1>1. row.id \in Ids /\ row.name \in Names /\ row.completed \in Booleans
  BY DEF TodoRows
<1>2. row \in RawRows
  BY DEF TodoRows, RawRows, RawBooleans
<1>3. normalizeCompleted(row.completed) = row.completed /\ row.completed # "other"
  BY <1>1 DEF normalizeCompleted, Booleans
<1>4. Normalizes(row)
  <2>1. row.name \notin {"too long", "not text"}
    BY <1>1, MergeAssumption DEF MergeAssumption
  <2> QED BY <1>1, <1>3, <2>1 DEF Normalizes, InvalidReason
<1>5. normalizeRow(row) = row
  BY <1>3 DEF normalizeRow, TodoRows
<1> QED BY <1>2, <1>4, <1>5

LEMMA NormalRowsType ==
  ASSUME NEW S, S \subseteq RawRows
  PROVE  NormalRows(S) \subseteq TodoRows
  BY NormalRow DEF NormalRows

\* What the two tables hold once the rows to insert are there.
LEMMA NormalRowsUnion ==
  ASSUME NEW S, S \subseteq RawRows, NEW T, T \subseteq TodoRows
  PROVE  NormalRows(S \cup T) = NormalRows(S) \cup T
  BY TodoRowsAreNormal DEF NormalRows

LEMMA RowHashes ==
  ASSUME NEW raw \in RawRows
  PROVE  /\ Normalizes(raw) => /\ conflictHash("differs_from_mysql", raw) = RowHash(raw)
                               /\ conflictHash("duplicate_id_in_sqlite", raw) = RowHash(raw)
         /\ ~Normalizes(raw) => /\ conflictHash(InvalidReason(raw), raw) = RowHash(raw)
                                /\ InvalidReason(raw) \in Reasons
<1>1. ~Normalizes(raw) => InvalidReason(raw) \in Reasons
  BY DEF Normalizes, InvalidReason, Reasons
<1> QED BY <1>1 DEF RowHash, conflictHash, Family

LEMMA ConflictFields ==
  ASSUME NEW reason, NEW raw
  PROVE  /\ Conflict(reason, raw).hash = conflictHash(reason, raw)
         /\ Conflict(reason, raw).sqliteRow = raw
  BY DEF Conflict

-----------------------------------------------------------------------------
(* The loop of planMerge.                                                   *)

\* Recording a row adds its fingerprint and nothing else.
LEMMA AddConflict ==
  ASSUME NEW plan \in Plans, NEW raw \in RawRows, NEW reason \in Reasons,
         HashedByRow(plan.conflicts), OnePerHash(plan.conflicts),
         conflictHash(reason, raw) = RowHash(raw)
  PROVE  /\ addConflict(plan, reason, raw) \in Plans
         /\ addConflict(plan, reason, raw).seen = plan.seen
         /\ addConflict(plan, reason, raw).toInsert = plan.toInsert
         /\ plan.conflicts \subseteq addConflict(plan, reason, raw).conflicts
         /\ \A c \in addConflict(plan, reason, raw).conflicts : c \in plan.conflicts \/ c.sqliteRow = raw
         /\ RowHash(raw) \in Hashes(addConflict(plan, reason, raw).conflicts)
         /\ HashedByRow(addConflict(plan, reason, raw).conflicts)
         /\ OnePerHash(addConflict(plan, reason, raw).conflicts)
<1> DEFINE c0 == Conflict(reason, raw)
<1>1. c0 \in Recorded /\ c0.hash = RowHash(raw) /\ c0.sqliteRow = raw
  <2>1. c0 \in Recorded
    BY DEF Recorded
  <2> QED BY <2>1, ConflictFields
<1> HIDE DEF c0
<1>2. CASE conflictHash(reason, raw) \in Hashes(plan.conflicts)
  BY <1>2 DEF addConflict
<1>3. CASE conflictHash(reason, raw) \notin Hashes(plan.conflicts)
  <2>1. addConflict(plan, reason, raw) = [plan EXCEPT !.conflicts = @ \cup {c0}]
    BY <1>3 DEF addConflict, c0
  <2> DEFINE after == [plan EXCEPT !.conflicts = @ \cup {c0}]
  <2>2. after \in Plans /\ after.seen = plan.seen /\ after.toInsert = plan.toInsert
        /\ after.conflicts = plan.conflicts \cup {c0}
    BY <1>1 DEF Plans
  <2> HIDE DEF after
  <2>3. \A c \in plan.conflicts : c.hash # c0.hash
    BY <1>1, <1>3 DEF Hashes
  <2>4. HashedByRow(after.conflicts) /\ OnePerHash(after.conflicts)
    BY <1>1, <2>2, <2>3 DEF HashedByRow, OnePerHash
  <2>5. RowHash(raw) \in Hashes(after.conflicts)
    BY <1>1, <2>2 DEF Hashes
  <2> QED BY <1>1, <2>1, <2>2, <2>4, <2>5 DEF after
<1> QED BY <1>2, <1>3

LEMMA HashesGrow ==
  ASSUME NEW C, NEW D, C \subseteq D
  PROVE  Hashes(C) \subseteq Hashes(D)
  BY DEF Hashes

LEMMA NothingPlanned ==
  ASSUME NEW R
  PROVE  PlanOK(EmptyPlan, R, {})
  BY DEF PlanOK, EmptyPlan, Plans, Visited, SeenAccounted, InsertsFreeIds, ConflictsFrom, HashedByRow, OnePerHash

\* A row that does not normalize, or that differs from a row with its id, is
\* recorded; what that adds to a plan keeps it right.
LEMMA RecordedRow ==
  ASSUME NEW R, R \subseteq RawRows, NEW F, F \subseteq RawRows, NEW raw \in RawRows,
         NEW plan, PlanOK(plan, R, F), NEW after \in Plans,
         Normalizes(raw) => /\ normalizeRow(raw) \notin NormalRows(R)
                            /\ HasId(NormalRows(R) \cup plan.toInsert, normalizeRow(raw).id),
         after.seen = IF Normalizes(raw) THEN plan.seen \cup {normalizeRow(raw)} ELSE plan.seen,
         after.toInsert = plan.toInsert,
         plan.conflicts \subseteq after.conflicts,
         \A c \in after.conflicts : c \in plan.conflicts \/ c.sqliteRow = raw,
         RowHash(raw) \in Hashes(after.conflicts),
         HashedByRow(after.conflicts), OnePerHash(after.conflicts)
  PROVE  PlanOK(after, R, F \cup {raw})
<1>1. Hashes(plan.conflicts) \subseteq Hashes(after.conflicts)
  BY HashesGrow
<1>2. Visited(after, F \cup {raw})
  BY <1>1 DEF Visited, PlanOK
<1>3. after.toInsert \subseteq after.seen /\ after.seen \subseteq NormalRows(F \cup {raw})
  BY DEF PlanOK, NormalRows
<1>4. SeenAccounted(after, R, F \cup {raw})
  BY <1>1 DEF SeenAccounted, PlanOK
<1>5. InsertsFreeIds(after, R)
  BY DEF InsertsFreeIds, PlanOK
<1>6. ConflictsFrom(after, R, F \cup {raw})
  BY DEF ConflictsFrom, PlanOK
<1> QED BY <1>2, <1>3, <1>4, <1>5, <1>6 DEF PlanOK

\* An iteration of the loop.
LEMMA PlanStep ==
  ASSUME NEW R, R \subseteq RawRows, NEW F, F \subseteq RawRows, NEW raw \in RawRows,
         NEW plan, PlanOK(plan, R, F)
  PROVE  PlanOK(PlanRow(plan, R, raw), R, F \cup {raw})
<1> DEFINE row == normalizeRow(raw)
           next == [plan EXCEPT !.seen = @ \cup {row}]
           present == NormalRows(R) \cup plan.toInsert
<1>0. plan \in Plans /\ HashedByRow(plan.conflicts) /\ OnePerHash(plan.conflicts)
  BY DEF PlanOK
<1>1. CASE ~Normalizes(raw)
  <2>1. PlanRow(plan, R, raw) = addConflict(plan, InvalidReason(raw), raw)
    BY <1>1 DEF PlanRow
  <2>2. InvalidReason(raw) \in Reasons /\ conflictHash(InvalidReason(raw), raw) = RowHash(raw)
    BY <1>1, RowHashes
  <2> DEFINE after == addConflict(plan, InvalidReason(raw), raw)
  <2>3. /\ after \in Plans /\ after.seen = plan.seen /\ after.toInsert = plan.toInsert
        /\ plan.conflicts \subseteq after.conflicts
        /\ \A c \in after.conflicts : c \in plan.conflicts \/ c.sqliteRow = raw
        /\ RowHash(raw) \in Hashes(after.conflicts)
        /\ HashedByRow(after.conflicts) /\ OnePerHash(after.conflicts)
    BY <1>0, <2>2, AddConflict
  <2> HIDE DEF after
  <2>4. PlanOK(after, R, F \cup {raw})
    BY <1>1, <2>3, RecordedRow
  <2> QED BY <2>1, <2>4 DEF after
<1>2. CASE Normalizes(raw) /\ row \in plan.seen
  <2>1. PlanRow(plan, R, raw) = plan
    BY <1>2 DEF PlanRow
  <2>2. Visited(plan, F \cup {raw}) /\ plan.seen \subseteq NormalRows(F \cup {raw})
    BY <1>2 DEF PlanOK, Visited, NormalRows
  <2>3. SeenAccounted(plan, R, F \cup {raw})
    BY DEF PlanOK, SeenAccounted
  <2>4. ConflictsFrom(plan, R, F \cup {raw})
    BY DEF PlanOK, ConflictsFrom
  <2> QED BY <2>1, <2>2, <2>3, <2>4 DEF PlanOK
<1>3. ASSUME Normalizes(raw)
      PROVE  /\ row \in TodoRows
             /\ next \in Plans /\ next.seen = plan.seen \cup {row}
             /\ next.toInsert = plan.toInsert /\ next.conflicts = plan.conflicts
             /\ row \in NormalRows(F \cup {raw})
             /\ NormalRows(F) \subseteq NormalRows(F \cup {raw})
  <2>1. row \in TodoRows
    BY <1>3, NormalRow
  <2> HIDE DEF row
  <2>2. next \in Plans /\ next.seen = plan.seen \cup {row}
        /\ next.toInsert = plan.toInsert /\ next.conflicts = plan.conflicts
    BY <1>0, <2>1 DEF Plans
  <2>3. row \in NormalRows(F \cup {raw}) /\ NormalRows(F) \subseteq NormalRows(F \cup {raw})
    BY <1>3 DEF NormalRows, row
  <2> QED BY <2>1, <2>2, <2>3
<1>4. CASE Normalizes(raw) /\ row \notin plan.seen /\ row \in present
  <2>1. PlanRow(plan, R, raw) = next
    BY <1>4 DEF PlanRow
  <2> HIDE DEF row, next
  <2>2. Visited(next, F \cup {raw})
    BY <1>3, <1>4 DEF PlanOK, Visited, row
  <2>3. SeenAccounted(next, R, F \cup {raw})
    BY <1>3, <1>4 DEF PlanOK, SeenAccounted, HasId
  <2>4. next.toInsert \subseteq next.seen /\ next.seen \subseteq NormalRows(F \cup {raw})
    BY <1>3, <1>4 DEF PlanOK
  <2>5. ConflictsFrom(next, R, F \cup {raw}) /\ InsertsFreeIds(next, R)
    BY <1>3, <1>4 DEF PlanOK, ConflictsFrom, InsertsFreeIds
  <2> QED BY <1>0, <1>3, <1>4, <2>1, <2>2, <2>3, <2>4, <2>5 DEF PlanOK
<1>5. CASE Normalizes(raw) /\ row \notin plan.seen /\ row \notin present /\ ~HasId(present, row.id)
  <2> DEFINE after == [next EXCEPT !.toInsert = @ \cup {row}]
  <2>1. PlanRow(plan, R, raw) = after
    BY <1>5 DEF PlanRow, HasId
  <2> HIDE DEF row, next
  <2>2. after \in Plans /\ after.seen = plan.seen \cup {row}
        /\ after.toInsert = plan.toInsert \cup {row} /\ after.conflicts = plan.conflicts
    BY <1>3, <1>5 DEF Plans
  <2> HIDE DEF after
  <2>3. Visited(after, F \cup {raw})
    BY <1>5, <2>2 DEF PlanOK, Visited, row
  <2>4. SeenAccounted(after, R, F \cup {raw})
    BY <2>2 DEF PlanOK, SeenAccounted, HasId
  <2>5. after.toInsert \subseteq after.seen /\ after.seen \subseteq NormalRows(F \cup {raw})
    BY <1>3, <1>5, <2>2 DEF PlanOK
  <2>6. ConflictsFrom(after, R, F \cup {raw}) /\ InsertsFreeIds(after, R)
    BY <1>5, <2>2 DEF PlanOK, ConflictsFrom, InsertsFreeIds, HasId
  <2> QED BY <1>0, <2>1, <2>2, <2>3, <2>4, <2>5, <2>6 DEF PlanOK
<1>6. CASE Normalizes(raw) /\ row \notin plan.seen /\ row \notin present /\ HasId(present, row.id)
  <2>1. PICK reason \in {"differs_from_mysql", "duplicate_id_in_sqlite"} :
          PlanRow(plan, R, raw) = addConflict(next, reason, raw)
    BY <1>6 DEF PlanRow, HasId
  <2>2. conflictHash(reason, raw) = RowHash(raw) /\ reason \in Reasons
    BY <1>6, RowHashes DEF Reasons
  <2> DEFINE after == addConflict(next, reason, raw)
  <2> HIDE DEF next
  <2>3. /\ after \in Plans /\ after.seen = plan.seen \cup {row} /\ after.toInsert = plan.toInsert
        /\ plan.conflicts \subseteq after.conflicts
        /\ \A c \in after.conflicts : c \in plan.conflicts \/ c.sqliteRow = raw
        /\ RowHash(raw) \in Hashes(after.conflicts)
        /\ HashedByRow(after.conflicts) /\ OnePerHash(after.conflicts)
    <3>1. /\ next \in Plans /\ next.seen = plan.seen \cup {row}
          /\ next.toInsert = plan.toInsert /\ next.conflicts = plan.conflicts
      BY <1>3, <1>6
    <3>2. HashedByRow(next.conflicts) /\ OnePerHash(next.conflicts)
      BY <1>0, <3>1
    <3>3. /\ after \in Plans /\ after.seen = next.seen /\ after.toInsert = next.toInsert
          /\ next.conflicts \subseteq after.conflicts
          /\ \A c \in after.conflicts : c \in next.conflicts \/ c.sqliteRow = raw
          /\ RowHash(raw) \in Hashes(after.conflicts)
          /\ HashedByRow(after.conflicts) /\ OnePerHash(after.conflicts)
      BY <2>2, <3>1, <3>2, AddConflict
    <3> HIDE DEF row, after
    <3> QED BY <3>1, <3>3
  <2> HIDE DEF after
  <2>4. PlanOK(after, R, F \cup {raw})
    BY <1>6, <2>3, RecordedRow
  <2> QED BY <2>1, <2>4 DEF after
<1> QED BY <1>1, <1>2, <1>4, <1>5, <1>6

-----------------------------------------------------------------------------
(* Steps.                                                                   *)

LEMMA EmptyIsPlan == EmptyPlan \in Plans
  BY DEF EmptyPlan, Plans

LEMMA IdleState == Idle \in RunStates
  BY EmptyIsPlan DEF Idle, RunStates, Phases

LEMMA SetRun ==
  ASSUME NEW s \in Scripts, NEW r \in RunStates, run \in [Scripts -> RunStates], Set(s, r)
  PROVE  /\ run' \in [Scripts -> RunStates]
         /\ run'[s] = r
         /\ \A t \in Scripts \ {s} : run'[t] = run[t]
  BY DEF Set

LEMMA Holders ==
  ASSUME MergeInv, NEW s \in Scripts, run[s].phase \in {"writing", "verified"}
  PROVE  HoldsItems(s)
  BY DEF MergeInv, PhaseKnows, HoldsItems

\* A script that does not move knows what it knew, if the tables are as they
\* were or it is not about to commit.
LEMMA PhaseKept ==
  ASSUME NEW t \in Scripts, PhaseKnows(t), run'[t] = run[t], sqlite' = sqlite,
         (mysql' = mysql /\ conflicts' = conflicts) \/ run[t].phase # "verified"
  PROVE  PhaseKnows(t)'
<1>1. Seen(t)' = Seen(t) /\ FileRows' = FileRows
  BY DEF Seen, FileRows
<1>2. CASE run[t].phase # "verified"
  BY <1>1, <1>2 DEF PhaseKnows
<1>3. CASE mysql' = mysql /\ conflicts' = conflicts
  <2>1. ItemsAfter(t)' = ItemsAfter(t) /\ ConflictsAfter(t)' = ConflictsAfter(t)
    BY <1>3 DEF ItemsAfter, ConflictsAfter
  <2>2. findUnaccountedRows(ItemsAfter(t), ConflictsAfter(t))'
          = findUnaccountedRows(ItemsAfter(t), ConflictsAfter(t))
    BY <1>1, <2>1 DEF findUnaccountedRows
  <2> QED BY <1>1, <2>2 DEF PhaseKnows
<1> QED BY <1>2, <1>3

LEMMA RowsSeen ==
  ASSUME sqlite \in Seq(RawRows), NEW s \in Scripts, run \in [Scripts -> RunStates],
         run[s].at <= Len(sqlite)
  PROVE  /\ Seen(s) \subseteq FileRows /\ FileRows \subseteq RawRows
         /\ run[s].at = Len(sqlite) => Seen(s) = FileRows
<1>1. run[s].at \in Nat /\ Len(sqlite) \in Nat
  BY DEF RunStates
<1>2. DOMAIN sqlite = 1..Len(sqlite) /\ \A i \in 1..Len(sqlite) : sqlite[i] \in RawRows
  OBVIOUS
<1>3. \A a, b \in Nat : a <= b => 1..a \subseteq 1..b
  OBVIOUS
<1>4. 1..run[s].at \subseteq 1..Len(sqlite)
  BY <1>1, <1>3
<1> QED BY <1>2, <1>4 DEF Seen, FileRows

\* A step of one script that leaves the tables alone keeps MergeInv, when it
\* keeps what the script knows and takes the lock only from nobody.
LEMMA ScriptMoves ==
  ASSUME MergeInv, NEW s \in Scripts, NEW r \in RunStates, Set(s, r), UNCHANGED Kept,
         run[s].phase # "idle",
         PhaseKnows(s)',
         HoldsItems(s)' => \/ HoldsItems(s) /\ r.read = run[s].read
                           \/ (~\E o \in Scripts : HoldsItems(o)) /\ r.read = mysql
  PROVE  MergeInv'
<1>1. /\ run' \in [Scripts -> RunStates] /\ run'[s] = r
      /\ \A t \in Scripts \ {s} : run'[t] = run[t]
  BY SetRun DEF MergeInv, RowsTyped
<1>2. UNCHANGED <<sqlite, mysql, conflicts, runs, committed, touched, writes>> /\ FileRows' = FileRows
  BY DEF Kept, tables, FileRows
<1>3. RowsTyped'
  BY <1>1, <1>2 DEF MergeInv, RowsTyped
<1>4. RunsCounted'
  <2>1. Active' \subseteq Active
    BY <1>1 DEF Active
  <2>2. IsFiniteSet(Active) /\ IsFiniteSet(Active') /\ Cardinality(Active) \in Nat
        /\ Cardinality(Active') \in Nat /\ Cardinality(Active') <= Cardinality(Active)
    BY <2>1, FS_Subset, FS_CardinalityType DEF MergeInv, RunsCounted
  <2>3. committed \in Nat /\ runs \in Nat /\ committed + Cardinality(Active) <= runs
    BY DEF MergeInv, RunsCounted
  <2>4. \A c, a, b, n \in Nat : c + a <= n /\ b <= a => c + b <= n
    OBVIOUS
  <2>5. committed + Cardinality(Active') <= runs
    BY <2>2, <2>3, <2>4
  <2> QED BY <1>2, <2>2, <2>5 DEF MergeInv, RunsCounted
<1>5. TableRecords'
  BY <1>2 DEF MergeInv, TableRecords
<1>6. \A t \in Scripts : PhaseKnows(t)'
  BY <1>1, <1>2, PhaseKept DEF MergeInv
<1>7. LockHeld'
  <2>1. \A t \in Scripts \ {s} : HoldsItems(t)' = HoldsItems(t)
    BY <1>1 DEF HoldsItems
  <2> QED BY <1>1, <1>2, <2>1 DEF MergeInv, LockHeld
<1>8. LastCommitStands'
  BY <1>2 DEF MergeInv, LastCommitStands, findUnaccountedRows
<1> QED BY <1>3, <1>4, <1>5, <1>6, <1>7, <1>8 DEF MergeInv

LEMMA StartKeeps ==
  ASSUME MergeInv, NEW s \in Scripts, NEW apply \in BOOLEAN, NEW fixed \in BOOLEAN, Start(s, apply, fixed)
  PROVE  MergeInv'
<1> DEFINE view == IF fixed THEN conflicts ELSE {}
           r == [Idle EXCEPT !.phase = "started", !.apply = apply, !.fixed = fixed, !.view = view]
<1>0. r \in RunStates /\ r.phase = "started" /\ r.at = 0 /\ r.plan = EmptyPlan
  <2>1. view \in SUBSET Recorded
    BY DEF MergeInv, RowsTyped
  <2> HIDE DEF view
  <2>2. r \in RunStates /\ r.phase = "started" /\ r.at = Idle.at /\ r.plan = Idle.plan
    BY <2>1, IdleState DEF RunStates, Phases
  <2> QED BY <2>2 DEF Idle
<1>1. Set(s, r)
  BY DEF Start
<1> HIDE DEF r
<1>2. /\ run' \in [Scripts -> RunStates] /\ run'[s] = r
      /\ \A t \in Scripts \ {s} : run'[t] = run[t]
  BY <1>0, <1>1, SetRun DEF MergeInv, RowsTyped
<1>3. UNCHANGED <<sqlite, mysql, conflicts, committed, touched, writes>> /\ FileRows' = FileRows
  BY DEF Start, tables, FileRows
<1>4. RowsTyped' /\ TableRecords' /\ LastCommitStands'
  BY <1>2, <1>3 DEF MergeInv, RowsTyped, TableRecords, LastCommitStands, findUnaccountedRows
<1>5. RunsCounted'
  <2>1. run[s].phase = "idle" /\ runs < MaxRuns /\ runs' = runs + 1
    BY DEF Start
  <2>2. s \notin Active /\ Active' = Active \cup {s}
    BY <1>0, <1>2, <2>1 DEF Active
  <2>3. IsFiniteSet(Active') /\ Cardinality(Active') = Cardinality(Active) + 1
    BY <2>2, FS_AddElement DEF MergeInv, RunsCounted
  <2>4. committed \in Nat /\ runs \in Nat /\ Cardinality(Active) \in Nat
        /\ committed + Cardinality(Active) <= runs /\ MaxRuns \in Nat
    <3>1. MaxRuns \in Nat
      BY MergeAssumption DEF MergeAssumption
    <3>2. Cardinality(Active) \in Nat
      BY FS_CardinalityType DEF MergeInv, RunsCounted
    <3> QED BY <3>1, <3>2 DEF MergeInv, RunsCounted
  <2>5. runs + 1 \in 0..MaxRuns /\ committed + (Cardinality(Active) + 1) <= runs + 1
    BY <2>1, <2>4
  <2> QED BY <1>3, <2>1, <2>3, <2>5 DEF MergeInv, RunsCounted
<1>6. PhaseKnows(s)'
  <2>1. Seen(s)' = {}
    BY <1>0, <1>2 DEF Seen
  <2>2. Len(sqlite) \in Nat
    BY DEF MergeInv, RowsTyped
  <2> QED BY <1>0, <1>2, <1>3, <2>1, <2>2, NothingPlanned DEF PhaseKnows
<1>7. \A t \in Scripts : PhaseKnows(t)'
  BY <1>2, <1>3, <1>6, PhaseKept DEF MergeInv
<1>8. LockHeld'
  <2>1. ~HoldsItems(s)' /\ \A t \in Scripts \ {s} : HoldsItems(t)' = HoldsItems(t)
    BY <1>0, <1>2 DEF HoldsItems
  <2> QED BY <1>2, <1>3, <2>1 DEF MergeInv, LockHeld
<1> QED BY <1>4, <1>5, <1>7, <1>8 DEF MergeInv

LEMMA FailKeeps ==
  ASSUME MergeInv, NEW s \in Scripts, run[s].phase # "idle", Set(s, Idle), UNCHANGED Kept
  PROVE  MergeInv'
<1>1. run'[s] = Idle /\ sqlite' = sqlite
  BY IdleState, SetRun DEF MergeInv, RowsTyped, Kept
<1>2. Seen(s)' = {} /\ Len(sqlite) \in Nat
  BY <1>1 DEF Seen, Idle, MergeInv, RowsTyped
<1>3. PhaseKnows(s)'
  BY <1>1, <1>2, NothingPlanned DEF PhaseKnows, Idle
<1>4. ~HoldsItems(s)'
  BY <1>1 DEF HoldsItems, Idle
<1> QED BY <1>3, <1>4, IdleState, ScriptMoves

LEMMA ReadMysqlKeeps ==
  ASSUME MergeInv, NEW s \in Scripts, ReadMysql(s)
  PROVE  MergeInv'
<1> DEFINE r == [run[s] EXCEPT !.phase = "planning", !.read = mysql]
<1>0. run[s] \in RunStates /\ mysql \in SUBSET RawRows
  BY DEF MergeInv, RowsTyped
<1>1. /\ r \in RunStates /\ r.phase = "planning" /\ r.apply = run[s].apply /\ r.read = mysql
      /\ r.at = run[s].at /\ r.plan = run[s].plan
  BY <1>0 DEF RunStates, Phases
<1>2. Set(s, r) /\ UNCHANGED Kept /\ run[s].phase = "started"
  BY DEF ReadMysql
<1> HIDE DEF r
<1>3. run'[s] = r /\ sqlite' = sqlite
  BY <1>1, <1>2, SetRun DEF MergeInv, RowsTyped, Kept
<1>4. PhaseKnows(s)'
  <2>1. run[s].at = 0 /\ run[s].plan = EmptyPlan /\ Len(sqlite) \in Nat
    BY <1>2 DEF MergeInv, PhaseKnows, RowsTyped
  <2>2. Seen(s)' = {}
    BY <1>1, <1>3, <2>1 DEF Seen
  <2> QED BY <1>1, <1>3, <2>1, <2>2, NothingPlanned DEF PhaseKnows
<1>5. run[s].apply => ~\E o \in Scripts : HoldsItems(o)
  BY DEF ReadMysql
<1>6. HoldsItems(s)' => run[s].apply
  BY <1>1, <1>3 DEF HoldsItems
<1> QED BY <1>1, <1>2, <1>4, <1>5, <1>6, ScriptMoves

LEMMA PlanNextKeeps ==
  ASSUME MergeInv, NEW s \in Scripts, PlanNext(s)
  PROVE  MergeInv'
<1> DEFINE raw == sqlite[run[s].at + 1]
           plan == PlanRow(run[s].plan, run[s].read, raw)
           r == [run[s] EXCEPT !.at = @ + 1, !.plan = plan]
<1>0. /\ run[s] \in RunStates /\ run[s].at \in Nat /\ run[s].read \subseteq RawRows
      /\ sqlite \in Seq(RawRows) /\ Len(sqlite) \in Nat
      /\ run[s].phase = "planning" /\ run[s].at < Len(sqlite)
  BY DEF MergeInv, RowsTyped, RunStates, PlanNext
<1>1. raw \in RawRows /\ Seen(s) \subseteq RawRows
  <2>1. run[s].at + 1 \in 1..Len(sqlite)
    BY <1>0
  <2>2. Seen(s) \subseteq FileRows /\ FileRows \subseteq RawRows
    BY <1>0, RowsSeen DEF MergeInv, RowsTyped
  <2> QED BY <1>0, <2>1, <2>2
<1>2. PlanOK(plan, run[s].read, Seen(s) \cup {raw})
  BY <1>0, <1>1, PlanStep DEF MergeInv, PhaseKnows
<1>3. Set(s, r) /\ UNCHANGED Kept
  BY DEF PlanNext
<1> HIDE DEF plan
<1>4. /\ r \in RunStates /\ r.phase = "planning" /\ r.apply = run[s].apply /\ r.read = run[s].read
      /\ r.at = run[s].at + 1 /\ r.plan = plan
  <2>1. plan \in Plans
    BY <1>2 DEF PlanOK
  <2> DEFINE n == run[s].at + 1
  <2>2. n \in Nat
    BY <1>0
  <2> HIDE DEF n
  <2>3. r = [run[s] EXCEPT !.at = n, !.plan = plan]
    BY DEF n
  <2>4. r \in RunStates /\ r.phase = run[s].phase /\ r.apply = run[s].apply /\ r.read = run[s].read
        /\ r.at = n /\ r.plan = plan
    BY <1>0, <2>1, <2>2, <2>3 DEF RunStates
  <2> QED BY <1>0, <2>4 DEF n
<1> HIDE DEF r
<1>5. run'[s] = r /\ sqlite' = sqlite
  BY <1>3, <1>4, SetRun DEF MergeInv, RowsTyped, Kept
<1>6. Seen(s)' = Seen(s) \cup {raw}
  <2>1. \A a \in Nat : 1..(a + 1) = (1..a) \cup {a + 1}
    OBVIOUS
  <2>2. 1..(run[s].at + 1) = (1..run[s].at) \cup {run[s].at + 1}
    BY <1>0, <2>1
  <2>3. Seen(s)' = {sqlite[i] : i \in 1..(run[s].at + 1)}
    BY <1>4, <1>5 DEF Seen
  <2> QED BY <2>2, <2>3 DEF Seen
<1>7. PhaseKnows(s)'
  <2>1. run[s].at + 1 <= Len(sqlite)
    BY <1>0
  <2> QED BY <1>2, <1>4, <1>5, <1>6, <2>1 DEF PhaseKnows
<1>8. HoldsItems(s)' => HoldsItems(s) /\ r.read = run[s].read
  BY <1>0, <1>4, <1>5 DEF HoldsItems
<1> QED BY <1>0, <1>3, <1>4, <1>7, <1>8, ScriptMoves

\* Planned sends the statements, Verify has read the tables again: the script
\* goes on with what it knows.
LEMMA PhaseMoves ==
  ASSUME MergeInv, NEW s \in Scripts, NEW phase \in {"writing", "verified"},
         Set(s, [run[s] EXCEPT !.phase = phase]), UNCHANGED Kept,
         run[s].apply, run[s].at = Len(sqlite), run[s].phase \in {"planning", "writing"},
         phase = "verified" => findUnaccountedRows(ItemsAfter(s), ConflictsAfter(s)) = {}
  PROVE  MergeInv'
<1> DEFINE r == [run[s] EXCEPT !.phase = phase]
<1>1. run[s] \in RunStates
  BY DEF MergeInv, RowsTyped
<1>2. /\ r \in RunStates /\ r.phase = phase /\ r.apply = run[s].apply /\ r.read = run[s].read
      /\ r.at = run[s].at /\ r.plan = run[s].plan
  BY <1>1 DEF RunStates, Phases
<1>3. Set(s, r)
  OBVIOUS
<1> HIDE DEF r
<1>4. run'[s] = r /\ UNCHANGED <<sqlite, mysql, conflicts>>
  BY <1>2, <1>3, SetRun DEF MergeInv, RowsTyped, Kept, tables
<1>5. PhaseKnows(s)'
  <2>1. Seen(s)' = Seen(s) /\ FileRows' = FileRows
    BY <1>2, <1>4 DEF Seen, FileRows
  <2>2. findUnaccountedRows(ItemsAfter(s), ConflictsAfter(s))'
          = findUnaccountedRows(ItemsAfter(s), ConflictsAfter(s))
    BY <1>2, <1>4, <2>1 DEF findUnaccountedRows, ItemsAfter, ConflictsAfter
  <2>3. PhaseKnows(s)
    BY DEF MergeInv
  <2> QED BY <1>2, <1>4, <2>1, <2>2, <2>3 DEF PhaseKnows
<1>6. HoldsItems(s)
  BY DEF HoldsItems
<1> QED BY <1>2, <1>3, <1>5, <1>6, ScriptMoves

\* The transaction adds its rows and the fingerprints that were not there.
LEMMA TablesAfter ==
  ASSUME MergeInv, NEW s \in Scripts
  PROVE  /\ ItemsAfter(s) \subseteq RawRows
         /\ HoldsItems(s) => NormalRows(ItemsAfter(s)) = NormalRows(run[s].read) \cup run[s].plan.toInsert
         /\ ConflictsAfter(s) \subseteq Recorded
         /\ Hashes(ConflictsAfter(s)) = Hashes(conflicts) \cup Hashes(run[s].plan.conflicts)
         /\ HashedByRow(ConflictsAfter(s)) /\ OnePerHash(ConflictsAfter(s))
         /\ \A c \in ConflictsAfter(s) : c.sqliteRow \in FileRows
<1> DEFINE P == run[s].plan
<1>1. /\ P.toInsert \subseteq TodoRows /\ P.conflicts \subseteq Recorded
      /\ mysql \subseteq RawRows /\ conflicts \subseteq Recorded
  BY DEF MergeInv, RowsTyped, RunStates, Plans
<1>2. TodoRows \subseteq RawRows
  BY TodoRowsAreNormal
<1>3. HashedByRow(P.conflicts) /\ OnePerHash(P.conflicts) /\ \A c \in P.conflicts : c.sqliteRow \in Seen(s)
  BY DEF MergeInv, PhaseKnows, PlanOK, ConflictsFrom
<1>4. Seen(s) \subseteq FileRows
  BY RowsSeen DEF MergeInv, RowsTyped, PhaseKnows
<1>5. HashedByRow(conflicts) /\ OnePerHash(conflicts) /\ \A c \in conflicts : c.sqliteRow \in FileRows
  BY DEF MergeInv, TableRecords
<1>6. HoldsItems(s) => run[s].read = mysql
  BY DEF MergeInv, LockHeld
<1> HIDE DEF P
<1>7. ItemsAfter(s) = mysql \cup P.toInsert
      /\ ConflictsAfter(s) = conflicts \cup {c \in P.conflicts : c.hash \notin Hashes(conflicts)}
  BY DEF ItemsAfter, ConflictsAfter, P
<1>8. NormalRows(ItemsAfter(s)) = NormalRows(mysql) \cup P.toInsert
  BY <1>1, <1>7, NormalRowsUnion
<1>9. Hashes(ConflictsAfter(s)) = Hashes(conflicts) \cup Hashes(P.conflicts)
  BY <1>7 DEF Hashes
<1>10. HashedByRow(ConflictsAfter(s)) /\ \A c \in ConflictsAfter(s) : c.sqliteRow \in FileRows
  BY <1>3, <1>4, <1>5, <1>7 DEF HashedByRow
<1>11. OnePerHash(ConflictsAfter(s))
  BY <1>3, <1>5, <1>7 DEF OnePerHash, Hashes
<1> QED BY <1>1, <1>2, <1>6, <1>7, <1>8, <1>9, <1>10, <1>11 DEF P

LEMMA CommitKeeps ==
  ASSUME MergeInv, NEW s \in Scripts, Commit(s)
  PROVE  MergeInv'
<1>1. /\ run' \in [Scripts -> RunStates] /\ run'[s] = Idle
      /\ \A t \in Scripts \ {s} : run'[t] = run[t]
  BY IdleState, SetRun DEF MergeInv, RowsTyped, Commit
<1>2. /\ mysql' = ItemsAfter(s) /\ conflicts' = ConflictsAfter(s) /\ committed' = committed + 1
      /\ ~touched' /\ touched' \in BOOLEAN /\ UNCHANGED <<sqlite, runs, writes>> /\ FileRows' = FileRows
      /\ run[s].phase = "verified"
  BY DEF Commit, FileRows
<1>3. HoldsItems(s) /\ run[s].read = mysql /\ \A t \in Scripts \ {s} : ~HoldsItems(t)
  BY <1>2, Holders DEF MergeInv, LockHeld
<1>4. RowsTyped' /\ TableRecords'
  BY <1>1, <1>2, TablesAfter DEF MergeInv, RowsTyped, TableRecords
<1>5. RunsCounted'
  <2>1. s \in Active /\ Active' = Active \ {s}
    BY <1>1, <1>2 DEF Active, Idle
  <2>2. IsFiniteSet(Active') /\ Cardinality(Active') = Cardinality(Active) - 1 /\ Cardinality(Active) \in Nat
    BY <2>1, FS_RemoveElement, FS_CardinalityType DEF MergeInv, RunsCounted
  <2>3. committed \in Nat /\ runs \in Nat /\ committed + Cardinality(Active) <= runs
    BY DEF MergeInv, RunsCounted
  <2>4. \A c, a, n \in Nat : c + a <= n => c + 1 + (a - 1) <= n
    OBVIOUS
  <2>5. committed' \in Nat /\ committed' + Cardinality(Active') <= runs
    BY <1>2, <2>2, <2>3, <2>4
  <2> QED BY <1>2, <2>2, <2>5 DEF MergeInv, RunsCounted
<1>6. PhaseKnows(s)'
  <2>1. Seen(s)' = {} /\ Len(sqlite) \in Nat
    BY <1>1 DEF Seen, Idle, MergeInv, RowsTyped
  <2> QED BY <1>1, <1>2, <2>1, NothingPlanned DEF PhaseKnows, Idle
<1>7. \A t \in Scripts : PhaseKnows(t)'
  <2>1. \A t \in Scripts \ {s} : run[t].phase # "verified"
    BY <1>3, Holders
  <2> QED BY <1>1, <1>2, <1>6, <2>1, PhaseKept DEF MergeInv
<1>8. LockHeld'
  <2>1. ~HoldsItems(s)' /\ \A t \in Scripts \ {s} : ~HoldsItems(t)'
    BY <1>1, <1>3 DEF HoldsItems, Idle
  <2> QED BY <2>1 DEF LockHeld
<1>9. LastCommitStands'
  <2>1. findUnaccountedRows(mysql, conflicts)' = {}
    BY <1>2 DEF MergeInv, PhaseKnows, findUnaccountedRows
  <2>2. ASSUME NEW row \in NormalRows(FileRows)
        PROVE  HasId(NormalRows(mysql'), row.id)
    <3>1. Seen(s) = FileRows
      BY <1>2, RowsSeen DEF MergeInv, RowsTyped, PhaseKnows
    <3>2. Visited(run[s].plan, FileRows) /\ SeenAccounted(run[s].plan, run[s].read, FileRows)
      BY <3>1 DEF MergeInv, PhaseKnows, PlanOK
    <3>3. row \in run[s].plan.seen
      BY <3>2 DEF Visited, NormalRows
    <3> QED BY <1>2, <1>3, <3>2, <3>3, TablesAfter DEF SeenAccounted
  <2> QED BY <1>2, <2>1, <2>2 DEF LastCommitStands
<1> QED BY <1>4, <1>5, <1>7, <1>8, <1>9 DEF MergeInv

\* A write of the application waits until no run holds the table.
LEMMA AppWriteKeeps ==
  ASSUME MergeInv, NEW items, items \subseteq RawRows, AppWrite(items)
  PROVE  MergeInv'
<1>1. /\ mysql' = items /\ touched' = TRUE /\ writes' = writes + 1 /\ writes < MaxWrites
      /\ UNCHANGED <<sqlite, conflicts, run, runs, committed>>
      /\ FileRows' = FileRows /\ \A s \in Scripts : ~HoldsItems(s)
  BY DEF AppWrite, FileRows
<1>2. RowsTyped' /\ TableRecords' /\ LastCommitStands'
  BY <1>1 DEF MergeInv, RowsTyped, TableRecords, LastCommitStands
<1>3. RunsCounted'
  <2>1. MaxWrites \in Nat /\ Active' = Active
    BY <1>1, MergeAssumption DEF MergeAssumption, Active
  <2>2. writes' \in 0..MaxWrites
    BY <1>1, <2>1 DEF MergeInv, RunsCounted
  <2> QED BY <1>1, <2>1, <2>2 DEF MergeInv, RunsCounted
<1>4. \A t \in Scripts : PhaseKnows(t)'
  <2>1. \A t \in Scripts : run[t].phase # "verified"
    BY <1>1, Holders
  <2> QED BY <1>1, <2>1, PhaseKept DEF MergeInv
<1>5. LockHeld'
  BY <1>1 DEF LockHeld, HoldsItems
<1> QED BY <1>2, <1>3, <1>4, <1>5 DEF MergeInv

LEMMA MergeInvInit == MergeInit => MergeInv
<1> SUFFICES ASSUME MergeInit PROVE MergeInv
  OBVIOUS
<1>1. /\ sqlite \in Seq(RawRows) /\ mysql \subseteq RawRows /\ conflicts = {}
      /\ run = [s \in Scripts |-> Idle] /\ runs = 0 /\ committed = 0 /\ touched = FALSE /\ writes = 0
  BY MergeAssumption DEF MergeInit, MergeAssumption
<1>2. RowsTyped /\ TableRecords /\ LastCommitStands
  <2>1. run \in [Scripts -> RunStates]
    BY <1>1, IdleState
  <2>2. RowsTyped
    BY <1>1, <2>1 DEF RowsTyped
  <2>3. TableRecords
    BY <1>1 DEF TableRecords, HashedByRow, OnePerHash
  <2>4. LastCommitStands
    BY <1>1 DEF LastCommitStands
  <2> QED BY <2>2, <2>3, <2>4
<1>3. RunsCounted
  <2>1. Active = {} /\ MaxRuns \in Nat /\ MaxWrites \in Nat
    BY <1>1, MergeAssumption DEF Active, Idle, MergeAssumption
  <2> QED BY <1>1, <2>1, FS_EmptySet DEF RunsCounted
<1>4. \A s \in Scripts : PhaseKnows(s)
  <2>1. ASSUME NEW s \in Scripts
        PROVE  Seen(s) = {} /\ run[s] = Idle /\ Len(sqlite) \in Nat
    BY <1>1 DEF Seen, Idle
  <2>2. /\ Idle.phase = "idle" /\ Idle.at = 0 /\ Idle.plan = EmptyPlan
    BY DEF Idle
  <2>3. \A n \in Nat : 0 <= n
    OBVIOUS
  <2>4. ASSUME NEW s \in Scripts
        PROVE  run[s].at <= Len(sqlite) /\ PlanOK(run[s].plan, run[s].read, Seen(s))
    BY <2>1, <2>2, <2>3, NothingPlanned
  <2> QED BY <2>1, <2>2, <2>4 DEF PhaseKnows
<1>5. LockHeld
  BY <1>1 DEF LockHeld, HoldsItems, Idle
<1> QED BY <1>2, <1>3, <1>4, <1>5 DEF MergeInv

LEMMA AppStepKeeps == MergeInv /\ AppStep => MergeInv'
<1>1. StoredRows \subseteq TodoRows /\ TodoRows \subseteq RawRows
  BY TodoRowsAreNormal DEF StoredRows
<1>2. ASSUME MergeInv, AppStep
      PROVE  \E items \in SUBSET RawRows : AppWrite(items)
  <2>1. mysql \subseteq RawRows
    BY <1>2 DEF MergeInv, RowsTyped
  <2> QED BY <1>1, <1>2, <2>1 DEF AppStep, storeItem, updateItem, removeItem
<1> QED BY <1>2, AppWriteKeeps

\* What the snapshot shows is there when the run commits.
LEMMA SeenIsRecorded ==
  ASSUME ViewsPast, NEW s \in Scripts
  PROVE  /\ RecordedSeen(s) \subseteq ConflictsAfter(s)
         /\ ~Overtaken(s) => RecordedSeen(s) = ConflictsAfter(s)
<1>1. conflicts \subseteq ConflictsAfter(s)
  BY DEF ConflictsAfter
<1> QED BY <1>1 DEF ViewsPast, RecordedSeen, Overtaken

\* A stale snapshot only makes the verification stricter.
LEMMA StricterVerification ==
  ASSUME ViewsPast, NEW s \in Scripts,
         findUnaccountedRows(ItemsAfter(s), RecordedSeen(s)) = {}
  PROVE  findUnaccountedRows(ItemsAfter(s), ConflictsAfter(s)) = {}
<1>1. Hashes(RecordedSeen(s)) \subseteq Hashes(ConflictsAfter(s))
  BY SeenIsRecorded, HashesGrow
<1> QED BY <1>1 DEF findUnaccountedRows, Unaccounted

LEMMA ViewsStep ==
  ASSUME RowsTyped, ViewsPast, [MergeNext]_mergeVars
  PROVE  ViewsPast'
<1>1. CASE AppStep \/ UNCHANGED mergeVars
  BY <1>1 DEF AppStep, storeItem, updateItem, removeItem, AppWrite, mergeVars, tables, ViewsPast
<1>2. ASSUME NEW s \in Scripts, ScriptStep(s)
      PROVE  ViewsPast'
  <2>1. conflicts \subseteq conflicts'
    BY <1>2 DEF ScriptStep, Start, ReadMysql, PlanNext, Planned, Verify, Commit, Fail, ConflictsAfter,
       Kept, tables
  <2>2. PICK r : Set(s, r) /\ r.view \subseteq conflicts
    <3>1. Idle \in RunStates /\ Idle.view = {}
      BY IdleState DEF Idle
    <3>2. run[s] \in RunStates /\ run[s].view \subseteq conflicts
      BY DEF RowsTyped, ViewsPast
    <3>3. ASSUME NEW apply \in BOOLEAN, NEW fixed \in BOOLEAN, Start(s, apply, fixed)
          PROVE  \E r : Set(s, r) /\ r.view \subseteq conflicts
      <4> DEFINE v == IF fixed THEN conflicts ELSE {}
                 r == [Idle EXCEPT !.phase = "started", !.apply = apply, !.fixed = fixed, !.view = v]
      <4>1. v \subseteq conflicts
        OBVIOUS
      <4>2. Set(s, r)
        BY <3>3 DEF Start
      <4> HIDE DEF v
      <4>3. r.view = v
        BY <3>1 DEF RunStates
      <4> HIDE DEF r
      <4> QED BY <4>1, <4>2, <4>3
    <3>4. CASE ReadMysql(s)
      <4> DEFINE r == [run[s] EXCEPT !.phase = "planning", !.read = mysql]
      <4>1. Set(s, r) /\ r.view = run[s].view
        BY <3>2, <3>4 DEF ReadMysql, RunStates
      <4> HIDE DEF r
      <4> QED BY <3>2, <4>1
    <3>5. CASE PlanNext(s)
      <4> DEFINE n == run[s].at + 1
                 plan == PlanRow(run[s].plan, run[s].read, sqlite[run[s].at + 1])
                 r == [run[s] EXCEPT !.at = n, !.plan = plan]
      <4>1. Set(s, r)
        BY <3>5 DEF PlanNext
      <4> HIDE DEF n, plan
      <4>2. r.view = run[s].view
        BY <3>2 DEF RunStates
      <4> HIDE DEF r
      <4> QED BY <3>2, <4>1, <4>2
    <3>6. ASSUME NEW phase, Set(s, [run[s] EXCEPT !.phase = phase])
          PROVE  \E r : Set(s, r) /\ r.view \subseteq conflicts
      <4> DEFINE r == [run[s] EXCEPT !.phase = phase]
      <4>1. Set(s, r) /\ r.view = run[s].view
        BY <3>2, <3>6 DEF RunStates
      <4> HIDE DEF r
      <4> QED BY <3>2, <4>1
    <3>7. CASE Planned(s) \/ Verify(s) \/ Commit(s) \/ Fail(s)
      BY <3>1, <3>6, <3>7 DEF Planned, Verify, Commit, Fail
    <3> QED BY <1>2, <3>3, <3>4, <3>5, <3>7 DEF ScriptStep
  <2>3. run'[s] = r /\ \A t \in Scripts \ {s} : run'[t] = run[t]
    BY <2>2 DEF Set, RowsTyped
  <2> QED BY <2>1, <2>2, <2>3 DEF ViewsPast
<1> QED BY <1>1, <1>2 DEF MergeNext

LEMMA ScriptStepKeeps ==
  ASSUME MergeInv, ViewsPast, NEW s \in Scripts, ScriptStep(s)
  PROVE  MergeInv'
<1>1. CASE \E apply, fixed \in BOOLEAN : Start(s, apply, fixed)
  BY <1>1, StartKeeps
<1>2. CASE ReadMysql(s)
  BY <1>2, ReadMysqlKeeps
<1>3. CASE PlanNext(s)
  BY <1>3, PlanNextKeeps
<1>4. CASE Planned(s)
  <2>1. CASE run[s].apply
    BY <1>4, <2>1, PhaseMoves DEF Planned
  <2>2. CASE ~run[s].apply
    BY <1>4, <2>2, FailKeeps DEF Planned
  <2> QED BY <2>1, <2>2
<1>5. CASE Verify(s)
  <2>1. run[s].apply /\ run[s].at = Len(sqlite)
    BY <1>5 DEF Verify, MergeInv, PhaseKnows
  <2>2. findUnaccountedRows(ItemsAfter(s), ConflictsAfter(s)) = {}
    BY <1>5, StricterVerification DEF Verify
  <2> QED BY <1>5, <2>1, <2>2, PhaseMoves DEF Verify
<1>6. CASE Commit(s)
  BY <1>6, CommitKeeps
<1>7. CASE Fail(s)
  BY <1>7, FailKeeps DEF Fail
<1> QED BY <1>1, <1>2, <1>3, <1>4, <1>5, <1>6, <1>7 DEF ScriptStep

LEMMA MergeInvariance == MergeSpec => [](MergeInv /\ ViewsPast)
<1>1. MergeInv /\ ViewsPast /\ [MergeNext]_mergeVars => MergeInv'
  <2> SUFFICES ASSUME MergeInv, ViewsPast, [MergeNext]_mergeVars PROVE MergeInv'
    OBVIOUS
  <2>1. CASE UNCHANGED mergeVars
    BY <2>1 DEF mergeVars, tables, MergeInv, RowsTyped, RunsCounted, TableRecords, PhaseKnows, LockHeld,
       LastCommitStands, HoldsItems, Seen, FileRows, Active, ItemsAfter, ConflictsAfter, findUnaccountedRows
  <2> QED BY <2>1, AppStepKeeps, ScriptStepKeeps DEF MergeNext
<1>2. MergeInv /\ ViewsPast /\ [MergeNext]_mergeVars => ViewsPast'
  BY ViewsStep DEF MergeInv
<1>3. MergeInit => ViewsPast
  BY DEF MergeInit, Idle, ViewsPast
<1> QED BY <1>1, <1>2, <1>3, MergeInvInit, PTL DEF MergeSpec

-----------------------------------------------------------------------------

\* Files, tables and runs keep their types; what is recorded is a row of the
\* file, and no more runs commit than were started.
THEOREM MergeTypes == MergeSpec => []MergeTypeOK
<1>1. MergeInv /\ ViewsPast => MergeTypeOK
  <2> SUFFICES ASSUME MergeInv, ViewsPast PROVE MergeTypeOK
    OBVIOUS
  <2>1. ASSUME NEW s \in Scripts
        PROVE  /\ run[s].phase \in Phases /\ run[s].apply \in BOOLEAN /\ run[s].fixed \in BOOLEAN
               /\ run[s].at \in 0..Len(sqlite)
               /\ run[s].plan.toInsert \subseteq run[s].plan.seen
               /\ run[s].plan.seen \subseteq TodoRows
               /\ run[s].plan.conflicts \subseteq Recorded
               /\ \A c \in run[s].plan.conflicts : c.sqliteRow \in FileRows
    <3>1. run[s] \in RunStates /\ run[s].plan \in Plans /\ run[s].at \in Nat /\ sqlite \in Seq(RawRows)
          /\ run[s].at <= Len(sqlite) /\ run[s].plan.toInsert \subseteq run[s].plan.seen
      BY DEF MergeInv, RowsTyped, RunStates, PhaseKnows, PlanOK
    <3>2. run[s].at \in 0..Len(sqlite)
      BY <3>1
    <3>3. \A c \in run[s].plan.conflicts : c.sqliteRow \in FileRows
      BY <3>1, RowsSeen DEF MergeInv, RowsTyped, PhaseKnows, PlanOK, ConflictsFrom
    <3> QED BY <3>1, <3>2, <3>3 DEF RunStates, Plans
  <2>2. \A c \in Recorded : c = Conflict(c.reason, c.sqliteRow)
    BY DEF Recorded, Conflict
  <2>3. \A c \in conflicts \cup UNION {run[s].plan.conflicts : s \in Scripts} :
          c \in Recorded /\ c.sqliteRow \in FileRows
    BY <2>1 DEF MergeInv, RowsTyped, TableRecords
  <2>4. committed \in 0..runs
    <3>1. Cardinality(Active) \in Nat
      BY FS_CardinalityType DEF MergeInv, RunsCounted
    <3> QED BY <3>1 DEF MergeInv, RunsCounted
  <2> QED BY <2>1, <2>2, <2>3, <2>4 DEF MergeTypeOK, MergeInv, RowsTyped, RunsCounted, ViewsPast
<1> QED BY <1>1, MergeInvariance, PTL

\* A row of the file is recorded once, however often the merge is run: its
\* fingerprint depends on the row alone.
THEOREM RecordsAreUnique == MergeSpec => []RecordedOnce
<1>1. MergeInv => RecordedOnce
  BY DEF MergeInv, TableRecords, HashedByRow, OnePerHash, RecordedOnce
<1> QED BY <1>1, MergeInvariance, PTL

\* The verification passes for every file in which no task has two spellings,
\* unless the snapshot hides what another run recorded meanwhile.
THEOREM VerificationPasses == MergeSpec => []NoFalseAlarm
<1>1. ASSUME MergeInv, Canonical, NEW s \in Scripts, run[s].phase = "writing", NEW raw \in FileRows
      PROVE  ~Unaccounted(raw, ItemsAfter(s), ConflictsAfter(s))
  <2> DEFINE P == run[s].plan
  <2>1. Seen(s) = FileRows /\ raw \in RawRows
    BY <1>1, RowsSeen DEF MergeInv, RowsTyped, PhaseKnows
  <2>2. Visited(P, FileRows) /\ SeenAccounted(P, run[s].read, FileRows)
    BY <1>1, <2>1 DEF MergeInv, PhaseKnows, PlanOK
  <2>3. /\ NormalRows(ItemsAfter(s)) = NormalRows(run[s].read) \cup P.toInsert
        /\ Hashes(P.conflicts) \subseteq Hashes(ConflictsAfter(s))
    BY <1>1, Holders, TablesAfter
  <2>4. CASE ~Normalizes(raw)
    BY <2>2, <2>3, <2>4 DEF Visited, Unaccounted, RowHash
  <2>5. CASE Normalizes(raw)
    <3>1. normalizeRow(raw) \in P.seen
      BY <2>2, <2>5 DEF Visited
    <3>2. \/ normalizeRow(raw) \in NormalRows(run[s].read) \cup P.toInsert
          \/ \E other \in FileRows : /\ Normalizes(other) /\ normalizeRow(other) = normalizeRow(raw)
                                     /\ RowHash(other) \in Hashes(P.conflicts)
      BY <2>2, <3>1 DEF SeenAccounted
    <3>3. \A other \in FileRows : Normalizes(other) /\ normalizeRow(other) = normalizeRow(raw) => other = raw
      BY <1>1, <2>5 DEF Canonical
    <3> QED BY <2>3, <2>5, <3>2, <3>3 DEF Unaccounted, RowHash
  <2> QED BY <2>4, <2>5
<1>2. MergeInv /\ ViewsPast => NoFalseAlarm
  <2> SUFFICES ASSUME MergeInv, ViewsPast, Canonical,
                      NEW s \in Scripts, run[s].phase = "writing", ~Overtaken(s)
               PROVE  findUnaccountedRows(ItemsAfter(s), RecordedSeen(s)) = {}
    BY DEF NoFalseAlarm
  <2>1. RecordedSeen(s) = ConflictsAfter(s)
    BY SeenIsRecorded
  <2>2. findUnaccountedRows(ItemsAfter(s), ConflictsAfter(s)) = {}
    BY <1>1 DEF findUnaccountedRows
  <2> QED BY <2>1, <2>2
<1> QED BY <1>2, MergeInvariance, PTL

\* Only Commit counts a commit.
LEMMA CommitSteps ==
  ASSUME MergeInv, MergeNext, committed' # committed
  PROVE  \E s \in Scripts : Commit(s)
  BY DEF MergeNext, AppStep, AppWrite, storeItem, updateItem, removeItem, ScriptStep, Start, ReadMysql,
     PlanNext, Planned, Verify, Fail, Kept

\* What a run verified is what it commits.
THEOREM CommittedIsComplete == MergeSpec => CommitLosesNothing
<1>1. ASSUME MergeInv, MergeNext, committed' # committed
      PROVE  findUnaccountedRows(mysql, conflicts)' = {}
  <2>1. PICK s \in Scripts : Commit(s)
    BY <1>1, CommitSteps
  <2>2. FileRows' = FileRows /\ mysql' = ItemsAfter(s) /\ conflicts' = ConflictsAfter(s)
    BY <2>1 DEF Commit, FileRows
  <2>3. findUnaccountedRows(ItemsAfter(s), ConflictsAfter(s)) = {}
    BY <1>1, <2>1 DEF Commit, MergeInv, PhaseKnows
  <2> QED BY <2>2, <2>3 DEF findUnaccountedRows
<1>2. MergeInv /\ [MergeNext]_mergeVars
        => [committed' # committed => findUnaccountedRows(mysql, conflicts)' = {}]_mergeVars
  BY <1>1
<1> QED BY <1>2, MergeInvariance, PTL DEF MergeSpec, CommitLosesNothing

\* A run after a committed one, nothing written in between, has nothing to
\* insert, as every id of the file is taken, and nothing new to record.
THEOREM RerunIsIdempotent == MergeSpec => RerunChangesNothing
<1>1. ASSUME MergeInv, MergeNext, committed' # committed, committed > 0, ~touched
      PROVE  UNCHANGED tables
  <2>1. PICK s \in Scripts : Commit(s)
    BY <1>1, CommitSteps
  <2> DEFINE P == run[s].plan
  <2>2. run[s].phase = "verified" /\ mysql' = mysql \cup P.toInsert
        /\ conflicts' = conflicts \cup {c \in P.conflicts : c.hash \notin Hashes(conflicts)}
    BY <2>1 DEF Commit, ItemsAfter, ConflictsAfter
  <2>3. run[s].read = mysql
    BY <1>1, <2>2, Holders DEF MergeInv, LockHeld
  <2>4. Seen(s) = FileRows /\ PlanOK(P, mysql, FileRows)
    BY <1>1, <2>2, <2>3, RowsSeen DEF MergeInv, RowsTyped, PhaseKnows
  <2>5. /\ findUnaccountedRows(mysql, conflicts) = {}
        /\ \A row \in NormalRows(FileRows) : HasId(NormalRows(mysql), row.id)
    BY <1>1 DEF MergeInv, LastCommitStands
  <2>6. P.toInsert = {}
    BY <2>4, <2>5 DEF PlanOK, InsertsFreeIds
  <2>7. ASSUME NEW c \in P.conflicts
        PROVE  c.hash \in Hashes(conflicts)
    <3>1. c.sqliteRow \in FileRows /\ c.hash = RowHash(c.sqliteRow)
          /\ (Normalizes(c.sqliteRow) => normalizeRow(c.sqliteRow) \notin NormalRows(mysql))
      BY <2>4 DEF PlanOK, ConflictsFrom, HashedByRow
    <3>2. ~Unaccounted(c.sqliteRow, mysql, conflicts)
      BY <2>5, <3>1 DEF findUnaccountedRows
    <3> QED BY <3>1, <3>2 DEF Unaccounted, RowHash
  <2> QED BY <2>2, <2>6, <2>7 DEF tables
<1>2. MergeInv /\ [MergeNext]_mergeVars
        => [(committed' # committed /\ committed > 0 /\ ~touched) => UNCHANGED tables]_mergeVars
  BY <1>1
<1> QED BY <1>2, MergeInvariance, PTL DEF MergeSpec, RerunChangesNothing

=============================================================================
