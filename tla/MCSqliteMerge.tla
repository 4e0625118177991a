--------------------------- MODULE MCSqliteMerge ---------------------------
(* Files of up to three rows: one task in several versions and spellings, *)
(* a second task, and rows that MySQL cannot hold.                        *)
EXTENDS SqliteMerge

Raw(i, n, c) == [id |-> i, name |-> n, completed |-> c]

Written == {Raw("i1", "x", "0"), Raw("i1", "y", "1"), Raw("i2", "x", "1")}
Spelled == {Raw("i1", "x", "false"), Raw("i1", "too long", "1")}
FileRow == Written \cup Spelled

MCFiles == UNION {[1..n -> FileRow] : n \in 0..3}
MCTables == {{}, {Raw("i1", "x", "1")}, {Raw("i1", "y", "1"), Raw("i2", "x", "0")}}

=============================================================================
