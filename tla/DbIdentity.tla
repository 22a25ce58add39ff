------------------------------ MODULE DbIdentity ------------------------------
(***************************************************************************)
(* DbIdentityAssign over DbManager over a file adapter: each process gives *)
(* every item a database id, and makes the database file of a schema when  *)
(* the file does not exist or is empty.  SQLite commits each CREATE TABLE  *)
(* by itself, so the check of the file, the directory and the statements   *)
(* are steps between which another process may run on the same file root   *)
(* and at which the process may be killed.                                 *)
(***************************************************************************)
EXTENDS Naturals, Sequences, FiniteSets

CONSTANTS
    Procs,          \* the processes that share the file root
    Ids,            \* database ids, those of the items and those derived
    Schemas,        \* the schemas items carry
    Items,          \* the items: [id : Ids or None, schema : Schemas or None]
    Tables,         \* what a statement creates
    Bad,            \* a statement that sqlglot parses and SQLite refuses
    Supplied,       \* what a database file that came with the dataset holds
    Script,         \* the statements of each schema
    Unparsable,     \* the schemas sqlglot refuses
    IdOf,           \* good_db_id of a schema's canonical IR, or its bad_db_id
    ServerAdapters,  \* whether a run's adapter may be a ServerDBAdapterBase, whose method takes no db_id
    None,           \* no id, no schema, no item
    MaxItems,       \* bound: items a process takes between two restarts
    MaxRestarts     \* bound: restarts of processes

ASSUME IdentityAssumption ==
    /\ Items \subseteq [id : Ids \union {None}, schema : Schemas \union {None}]
    /\ None \notin Ids \union Schemas \union Items
    /\ None \notin {"ok", "error"}
    /\ Bad \notin Tables \union {Supplied}
    /\ Supplied \notin Tables
    /\ Script \in [Schemas -> Seq(Tables \union {Bad})]
    /\ Unparsable \subseteq Schemas
    /\ IdOf \in [Schemas -> Ids]
    /\ ServerAdapters \subseteq BOOLEAN
    /\ MaxItems \in Nat
    /\ MaxRestarts \in Nat

VARIABLES
    server,     \* the configured adapter is a server adapter; it never changes
    dirs,       \* the ids whose directory exists
    content,    \* what each database file holds; {} is no file or an empty one
    record,     \* DbManager._records of each process: the health, None without one
    pc,         \* what each process does next
    item,       \* the item it is at
    next,       \* the next statement _exec_statements runs
    marked,     \* the last item was marked failed
    raised,     \* identity_from_schema raised
    taken,      \* items taken since the process started
    cut,        \* history: the ids whose creation a kill cut after a statement
    restarts

idVars == <<server, dirs, content, record, pc, item, next, marked, raised,
            taken, cut, restarts>>

\* The id an item ends up with: its own, or the one derived from its schema.
Target(i) == IF i.id # None THEN i.id ELSE IdOf[i.schema]

At(p) == Target(item[p])

\* The statements the process applies, and whether it is applying those of d.
Statements(p) == Script[item[p].schema]
Applying(p, d) == pc[p] = "apply" /\ At(p) = d

------------------------------------------------------------------------------
\* Databases that came with the dataset, under the ids its items name.
Init ==
    /\ server \in ServerAdapters
    /\ dirs \in SUBSET {i.id : i \in {j \in Items : j.id # None}}
    /\ content \in {c \in [Ids -> {{}, {Supplied}}] : \A d \in Ids : c[d] # {} => d \in dirs}
    /\ record = [p \in Procs |-> [d \in Ids |-> None]]
    /\ pc = [p \in Procs |-> "idle"]
    /\ item = [p \in Procs |-> None]
    /\ next = [p \in Procs |-> 1]
    /\ marked = [p \in Procs |-> FALSE]
    /\ raised = [p \in Procs |-> FALSE]
    /\ taken = [p \in Procs |-> 0]
    /\ cut = {}
    /\ restarts = 0

\* DbManager.status: the cached health, or that of a probe.  `SELECT 1` makes
\* an empty file where there is none, so it fails only without a directory.
Health(p, d) ==
    IF record[p][d] # None THEN record[p][d]
    ELSE IF d \in dirs THEN "ok" ELSE "error"

\* normalize_stream takes the next item.
Take(p, i) ==
    /\ pc[p] = "idle"
    /\ taken[p] < MaxItems
    /\ taken' = [taken EXCEPT ![p] = @ + 1]
    /\ item' = [item EXCEPT ![p] = i]
    /\ raised' = [raised EXCEPT ![p] = FALSE]
    /\ UNCHANGED <<dirs, content, next, cut, restarts>>

\* An item whose database is healthy goes on as it is.
TakeHealthy(p, i) ==
    /\ i.id # None
    /\ Health(p, i.id) = "ok"
    /\ Take(p, i)
    /\ record' = [record EXCEPT ![p][i.id] = "ok"]
    /\ marked' = [marked EXCEPT ![p] = FALSE]
    /\ UNCHANGED pc

\* An item with a schema and no healthy database: identity_from_schema.
TakeSchema(p, i) ==
    /\ i.schema # None
    /\ Take(p, i)
    /\ IF i.id = None
       THEN UNCHANGED record
       ELSE Health(p, i.id) = "error" /\ record' = [record EXCEPT ![p][i.id] = "error"]
    /\ pc' = [pc EXCEPT ![p] = "check"]
    /\ marked' = [marked EXCEPT ![p] = FALSE]

\* Neither a healthy database nor a schema to make one from: marked failed.
TakeNothing(p, i) ==
    /\ i.schema = None
    /\ Take(p, i)
    /\ IF i.id = None
       THEN UNCHANGED record
       ELSE Health(p, i.id) = "error" /\ record' = [record EXCEPT ![p][i.id] = "error"]
    /\ marked' = [marked EXCEPT ![p] = TRUE]
    /\ UNCHANGED pc
------------------------------------------------------------------------------
\* DbManager.identity_from_schema returns: the health is cached under the id
\* and DbIdentityAssign goes on to the next item without marking this one.
Return(p, health) ==
    /\ record' = [record EXCEPT ![p][At(p)] = health]
    /\ pc' = [pc EXCEPT ![p] = "idle"]
    /\ next' = [next EXCEPT ![p] = 1]
    /\ UNCHANGED <<item, marked, raised, taken, cut, restarts>>

\* Mutant: the file counts without being looked at, its directory is enough.
Occupied_Exists(d) == d \in dirs

\* Mutant: the statements always run.
Occupied_Never(d) == d # d

\* `p.exists() and p.stat().st_size > 0`.
Occupied(d) == content[d] # {}

\* Mutant: the exception is logged and the item goes on.
CheckServer_Logged(p) ==
    /\ pc[p] = "check"
    /\ server
    /\ raised' = [raised EXCEPT ![p] = TRUE]
    /\ pc' = [pc EXCEPT ![p] = "idle"]
    /\ UNCHANGED <<dirs, content, record, item, next, marked, taken, cut,
                   restarts>>

\* A TypeError is no AdapterError: it reaches DbIdentityAssign, which marks
\* the item failed.
CheckServer(p) ==
    /\ pc[p] = "check"
    /\ server
    /\ raised' = [raised EXCEPT ![p] = TRUE]
    /\ marked' = [marked EXCEPT ![p] = TRUE]
    /\ pc' = [pc EXCEPT ![p] = "idle"]
    /\ UNCHANGED <<dirs, content, record, item, next, taken, cut, restarts>>

Checking(p) == pc[p] = "check" /\ ~server

CheckUnparsable(p) ==
    /\ Checking(p)
    /\ item[p].schema \in Unparsable
    /\ Return(p, "error")
    /\ UNCHANGED <<dirs, content>>

CheckOccupied(p) ==
    /\ Checking(p)
    /\ item[p].schema \notin Unparsable
    /\ Occupied(At(p))
    /\ Return(p, "ok")
    /\ UNCHANGED <<dirs, content>>

\* No file, or an empty one: make the directory and start on the statements.
CheckEmpty(p) ==
    /\ Checking(p)
    /\ item[p].schema \notin Unparsable
    /\ ~Occupied(At(p))
    /\ dirs' = dirs \union {At(p)}
    /\ pc' = [pc EXCEPT ![p] = "apply"]
    /\ UNCHANGED <<content, record, next, item, marked, raised, taken, cut,
                   restarts>>

\* Mutant: CREATE TABLE IF NOT EXISTS.
Refused_IfNotExists(p) == Statements(p)[next[p]] = Bad

\* SQLite refuses the statement: an invalid one, or a table that exists.
Refused(p) == Statements(p)[next[p]] \in content[At(p)] \union {Bad}

Running(p) == pc[p] = "apply" /\ next[p] <= Len(Statements(p))

ApplyStatement(p) ==
    /\ Running(p)
    /\ ~Refused(p)
    /\ content' = [content EXCEPT ![At(p)] = @ \union {Statements(p)[next[p]]}]
    /\ next' = [next EXCEPT ![p] = @ + 1]
    /\ UNCHANGED <<dirs, record, pc, item, marked, raised, taken, cut,
                   restarts>>

\* Mutant: the file is removed when a statement fails.
ApplyRefused_Removes(p) ==
    /\ Running(p)
    /\ Refused(p)
    /\ Return(p, "error")
    /\ content' = [content EXCEPT ![At(p)] = {}]
    /\ UNCHANGED dirs

\* DDLApplyError: recorded, and the tables made so far stay.
ApplyRefused(p) ==
    /\ Running(p)
    /\ Refused(p)
    /\ Return(p, "error")
    /\ UNCHANGED <<dirs, content>>

ApplyDone(p) ==
    /\ pc[p] = "apply"
    /\ next[p] > Len(Statements(p))
    /\ Return(p, "ok")
    /\ UNCHANGED <<dirs, content>>

\* The process ends, killed or not, and another run starts with empty caches.
Restart(p) ==
    /\ restarts < MaxRestarts
    /\ restarts' = restarts + 1
    /\ cut' = IF pc[p] = "apply" /\ next[p] > 1 THEN cut \union {At(p)} ELSE cut
    /\ record' = [record EXCEPT ![p] = [d \in Ids |-> None]]
    /\ pc' = [pc EXCEPT ![p] = "idle"]
    /\ item' = [item EXCEPT ![p] = None]
    /\ marked' = [marked EXCEPT ![p] = FALSE]
    /\ raised' = [raised EXCEPT ![p] = FALSE]
    /\ taken' = [taken EXCEPT ![p] = 0]
    /\ next' = [next EXCEPT ![p] = 1]
    /\ UNCHANGED <<dirs, content>>

ProcStep(p) ==
    \/ \E i \in Items : TakeHealthy(p, i) \/ TakeSchema(p, i) \/ TakeNothing(p, i)
    \/ CheckServer(p) \/ CheckUnparsable(p) \/ CheckOccupied(p) \/ CheckEmpty(p)
    \/ ApplyStatement(p) \/ ApplyRefused(p) \/ ApplyDone(p)
    \/ Restart(p)

Next == (\E p \in Procs : ProcStep(p)) /\ UNCHANGED server

Spec == Init /\ [][Next]_idVars
------------------------------------------------------------------------------
Healths == {"ok", "error"}

\* Every variable keeps to its type (DbManager._records, the files on disk).
TypeOK ==
    /\ dirs \in SUBSET Ids
    /\ content \in [Ids -> SUBSET (Tables \union {Supplied})]
    /\ record \in [Procs -> [Ids -> Healths \union {None}]]
    /\ pc \in [Procs -> {"idle", "check", "apply"}]
    /\ item \in [Procs -> Items \union {None}]
    /\ \A p \in Procs : pc[p] # "idle" => item[p] \in Items /\ item[p].schema # None
    /\ next \in [Procs -> Nat \ {0}]
    /\ \A p \in Procs : IF pc[p] = "apply" THEN next[p] <= Len(Statements(p)) + 1 ELSE next[p] = 1
    /\ marked \in [Procs -> BOOLEAN]
    /\ raised \in [Procs -> BOOLEAN]
    /\ taken \in [Procs -> 0..MaxItems]
    /\ cut \in SUBSET Ids
    /\ restarts \in 0..MaxRestarts

\* The scripts that items would apply to a database.
ScriptsFor(d) ==
    {Script[i.schema] : i \in {j \in Items : j.schema # None /\ Target(j) = d}}

\* A database that every item about it gives the same schema, one that SQLite
\* takes from its first statement to its last: s lists its tables.
Agreed(d, s) ==
    /\ ScriptsFor(d) = {s}
    /\ \A i \in DOMAIN s : s[i] \in Tables
    /\ \A i, j \in DOMAIN s : s[i] = s[j] => i = j

TablesOf(s) == {s[i] : i \in DOMAIN s}
Partial(d, s) == content[d] # {Supplied} /\ content[d] # TablesOf(s)

\* An item leaves DbIdentityAssign unmarked only with an id whose health the
\* manager knows: the analyzers that follow look it up by that id.
UnmarkedHasHealth ==
    \A p \in Procs :
        pc[p] = "idle" /\ item[p] # None /\ ~marked[p] =>
            /\ item[p].id # None \/ item[p].schema # None
            /\ record[p][At(p)] # None

\* Two processes that race to make the same database do not both write it:
\* the loser's first CREATE TABLE is refused (the file is checked long before
\* it is written, and nothing locks it).
OneWriter ==
    \A d \in Ids : (\E s \in ScriptsFor(d) : Agreed(d, s)) =>
        \A p, q \in Procs :
            Applying(p, d) /\ Applying(q, d) /\ next[p] > 1 /\ next[q] > 1 => p = q

\* Whoever wins the race, a database nobody is working on is empty or whole,
\* unless a kill cut its creation.
AtRestWhole ==
    \A d \in Ids \ cut : \A s \in ScriptsFor(d) :
        Agreed(d, s) /\ content[d] # {} /\ ~(\E p \in Procs : Applying(p, d)) => ~Partial(d, s)

\* A derived id is reported healthy only for a database that is whole, except
\* while a process is at work on it or after a kill cut its creation.
OkExplained ==
    \A d \in Ids \ cut : \A s \in ScriptsFor(d) :
        Agreed(d, s) /\ ~(\E i \in Items : i.id = d) /\ ~(\E p \in Procs : Applying(p, d)) =>
            \A p \in Procs : record[p][d] = "ok" => ~Partial(d, s)

\* The inductive invariant behind these, for a database d whose items agree on
\* the script s.  A writer is past its first statement.
Writer(p, d) == Applying(p, d) /\ next[p] > 1

RaceInv(d, s) ==
    /\ \A p, q \in Procs : Writer(p, d) /\ Writer(q, d) => p = q
    /\ \A p \in Procs : Writer(p, d) => content[d] = {s[i] : i \in 1..(next[p] - 1)}
    /\ content[d] = {Supplied} => \A p \in Procs : ~Applying(p, d)
    /\ content[d] # {Supplied} /\ content[d] # {} => s # <<>> /\ s[1] \in content[d]
    /\ content[d] # {} /\ d \notin cut /\ ~(\E p \in Procs : Writer(p, d)) => ~Partial(d, s)

\* A manager says "ok" of a derived id only when it saw or made a file that
\* holds something, and no file is ever emptied again.
OkSeen(d, s) ==
    ~(\E i \in Items : i.id = d) =>
        \A p \in Procs : record[p][d] = "ok" => content[d] # {} \/ s = <<>>

AllOkSeen == \A d \in Ids : \A s \in ScriptsFor(d) : Agreed(d, s) => OkSeen(d, s)

RaceSafe == \A d \in Ids : \A s \in ScriptsFor(d) : Agreed(d, s) => RaceInv(d, s)

\* A database that holds anything and that nobody is making is never taken up
\* again: a partial one is never completed, and a supplied one never written.
SettledIsFrozen ==
    [][\A d \in Ids : content[d] # {} /\ ~(\E p \in Procs : Applying(p, d)) =>
        content'[d] = content[d] /\ ~(\E p \in Procs : Applying(p, d)')]_idVars

\* db/README.md:92 says of identity_from_schema "Idempotent (re-running is
\* safe)": an id that is reported healthy has the tables of its schema.  A
\* failing statement leaves the earlier tables, and the next call returns OK.
OkMeansWhole ==
    \A p \in Procs, d \in Ids : \A s \in ScriptsFor(d) :
        record[p][d] = "ok" /\ ScriptsFor(d) = {s} /\ pc[p] = "idle" => ~Partial(d, s)
===============================================================================
