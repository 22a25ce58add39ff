----------------------------- MODULE SchemaChecks -----------------------------
(***************************************************************************)
(* SchemaValidationAnalyzer._analyze_schema on one SQLite database: the    *)
(* check of its declarations from what the PRAGMAs say, table by table,    *)
(* the count of dangling rows that SQLite makes, and the verdict.          *)
(*                                                                         *)
(* SQLite refuses a table with the same column twice and a foreign key     *)
(* with more columns on one side, so the analyzer's check of the first     *)
(* finds nothing here.  Names are spelled as they are declared; a declared *)
(* type is the family normalize_type_family puts it in.                    *)
(***************************************************************************)
EXTENDS Naturals, Sequences

CONSTANTS
    Tables, Columns,    \* names
    Families,           \* of declared types
    Values,             \* what a cell may hold
    None                \* null: SQL's NULL, a column that is not named

Members(s) == {s[i] : i \in DOMAIN s}

\* FOREIGN KEY (local) REFERENCES parent (columns); without columns each is null.
ForeignKey ==
    [local : Seq(Columns), parent : Tables, columns : Seq(Columns \union {None})]

\* A table: whether its PRAGMAs answer (not those of a virtual table without
\* its module), its columns, PRIMARY KEY and UNIQUE constraints, and its rows.
Table ==
    [readable : BOOLEAN, columns : SUBSET Columns, family : [Columns -> Families \union {None}],
     key : Seq(Columns), unique : SUBSET Seq(Columns), foreign : SUBSET ForeignKey,
     rows : SUBSET [Columns -> Values \union {None}]]

\* What CREATE TABLE accepts.
Declared(table) ==
    /\ ~table.readable => table.columns = {} /\ table.foreign = {} /\ table.rows = {}
    /\ \A k \in {table.key} \union table.unique :
        /\ Members(k) \subseteq table.columns
        /\ \A i, j \in DOMAIN k : k[i] = k[j] => i = j
    /\ \A fk \in table.foreign :
        /\ fk.local # <<>> /\ Len(fk.columns) = Len(fk.local)
        /\ Members(fk.local) \subseteq table.columns
        /\ None \in Members(fk.columns) => Members(fk.columns) = {None}

\* A database; null where there is no such table.
Database == [Tables -> Table \union {None}]
Existing(db) == {t \in Tables : db[t] # None}
Accepted(db) == \A t \in Existing(db) : Declared(db[t])

\* The foreign keys of a database, each with its table.
Foreign(db) == UNION {{t} \X db[t].foreign : t \in Existing(db)}
------------------------------------------------------------------------------
(* SQLite's own view of a foreign key. *)

\* The parent's columns: those named, or else its PRIMARY KEY.
Aimed(db, fk) == IF None \in Members(fk.columns) THEN db[fk.parent].key ELSE fk.columns

\* One of the parent's keys, all of it, in any order: else a "mismatch".
Whole(db, fk) ==
    /\ fk.parent \in Existing(db)
    /\ Len(Aimed(db, fk)) = Len(fk.local)
    /\ \E k \in {db[fk.parent].key} \union db[fk.parent].unique :
        /\ Len(k) = Len(fk.local)
        /\ Members(k) = Members(Aimed(db, fk))

\* A row without NULL in the foreign key that no row of the parent answers.
Dangling(db, fk, row) ==
    /\ \A i \in DOMAIN fk.local : row[fk.local[i]] # None
    /\ fk.parent \in Existing(db) =>
        ~ \E other \in db[fk.parent].rows :
            \A i \in DOMAIN fk.local : row[fk.local[i]] = other[Aimed(db, fk)[i]]

\* PRAGMA foreign_key_check raises at the first mismatch, whatever the others;
\* a parent that does not exist is none.
Checkable(db) == \A f \in Foreign(db) : f[2].parent \in Existing(db) => Whole(db, f[2])

\* count_fk_violations > 0: null, when the PRAGMA raises, counts as none.
Violated(db) ==
    /\ Checkable(db)
    /\ \E f \in Foreign(db) : \E row \in db[f[1]].rows : Dangling(db, f[2], row)
------------------------------------------------------------------------------
(* The analyzer's own checks. *)

\* schema_info: the tables get_table_info describes.
Described(db) == {t \in Existing(db) : db[t].readable}

MissingTable(db, fk) == fk.parent \notin Described(db)
MissingColumn(db, fk) == \E c \in Members(fk.columns) : c \notin db[fk.parent].columns
ArityMismatch(fk) == Len(fk.local) # Len(fk.columns)

\* Mutant: one column of the primary key is enough.
TargetNotKey_Any(db, fk) == \A c \in Members(fk.columns) : c \notin Members(db[fk.parent].key)

\* Columns outside the primary key; get_table_info leaves "unique" at False.
TargetNotKey(db, fk) == \E c \in Members(fk.columns) : c \notin Members(db[fk.parent].key)

Invalid(db, fk) ==
    \/ MissingTable(db, fk)
    \/ MissingColumn(db, fk)
    \/ ArityMismatch(fk)
    \/ TargetNotKey(db, fk)

\* A table without a row, or one that cannot be read.
EmptyTable(db, t) == db[t].rows = {}

\* Of a valid foreign key, a pair of columns with declared types that differ.
TypeMismatch(db, t, fk) ==
    /\ ~Invalid(db, fk)
    /\ \E i \in DOMAIN fk.local :
        LET lfam == db[t].family[fk.local[i]]
            pfam == db[fk.parent].family[fk.columns[i]]
        IN  lfam # None /\ pfam # None /\ lfam # pfam

\* The foreign keys and the warnings behind the verdict.  Only tables that are
\* described have foreign keys, and a database without tables has no finding.
HasErrors(db) == Violated(db) \/ \E f \in Foreign(db) : Invalid(db, f[2])

HasWarnings(db) ==
    \/ \E t \in Existing(db) : EmptyTable(db, t)
    \/ \E f \in Foreign(db) : TypeMismatch(db, f[1], f[2])

Verdict(db) ==
    IF HasErrors(db) THEN "errors" ELSE IF HasWarnings(db) THEN "warns" ELSE "ok"
------------------------------------------------------------------------------
(* What a verdict should say. *)

\* Every reference can be followed: each foreign key has a key of its parent
\* for target, and each row finds its parent.
References(db) == \A f \in Foreign(db) :
    Whole(db, f[2]) /\ \A row \in db[f[1]].rows : ~Dangling(db, f[2], row)

\* A foreign key to some of the columns of a composite primary key, or to one
\* of them twice: the analyzer looks at each column by itself.
PartOfKey(db, fk) ==
    /\ fk.parent \in Existing(db)
    /\ Members(fk.columns) \subseteq Members(db[fk.parent].key)
    /\ ~Whole(db, fk)

\* A foreign key to a UNIQUE constraint, or without columns: the analyzer
\* knows neither.
Unrecognized(db, fk) ==
    Whole(db, fk) /\ (None \in Members(fk.columns) \/ Members(fk.columns) # Members(db[fk.parent].key))
==============================================================================
