# A TLA+ model of text2sql-dataset-analyzer

The repository is a streaming analyzer for text-to-SQL datasets. Items are
loaded from a file, run through a chain of normalizers and analyzers (Python
generators, one item in flight at a time) and written to an annotated JSONL
file; every analyzer sends metric events to JSONL files and a DuckDB database,
from which reports are generated. This directory models the parts of it that
decide something, checks them with TLC on small instances and proves the most
important properties with TLAPS for every value of the constants.

All paths are under `src/text2sql_pipeline/` unless they start with `src/`.
`PROJECT.json` maps each definition to the lines it models and lists the runs,
the mutants that show what each property rejects, the hazards and the theorems.

    tlc -workers 2 -config Pipeline_mixed.cfg MCPipeline    # a run
    tlapm PipelineProofs.tla                                # the proofs of a module

## Inventory

| part | state it keeps | operations | hard behaviour | correct when |
|---|---|---|---|---|
| metric sinks (`output/sinks`) | open files, per-table batches, created tables, DuckDB connection | write, flush, close | batches re-inserted after a partial failure, interrupts, loss at close | rows are a gap-free prefix of what was emitted; a closed database is complete |
| run output (`output/manager.py`) | run directory, file paths, sink context | open, close | named to the second, truncation against append on a rerun | a run's files hold that run |
| pipeline (`pipeline/engine.py`, `core`) | generators, counter, progress | pull one item, write it, abort | an exception in one stage unwinds all of them | each written item went through every stage, in order; a failed step gates the later ones |
| normalizers | id counter, alias map | normalize_stream | assigned ids against ids already present | ids are unique, a failed item stays failed |
| database identity (`db`) | records with health, engines, files and server databases | identity_from_schema, status, engine, probes, close_all | statement-by-statement DDL, crash half way, two processes on one root, stale health | a database at rest is empty or whole; an unmarked item has a known health |
| schema validation | analyzed-database cache | analyze, foreign-key checks, count of dangling rows | status cached per database; a PRAGMA that raises counts as no finding; tables that cannot be read | an item's status is its database's; what passed can be followed, what failed cannot |
| query syntax | none | analyze | - | skip cascade |
| antipattern detector (`analyzers/query_antipattern`) | schema metadata cache, per query a union-find of columns and one of sources | load metadata, walk conditions, unite columns, connect sources, conclude | outer joins that pad, NOT over UNKNOWN, composite keys, collations, merged USING columns, joins ON FALSE, LIMIT 1 with ties | what it concludes about a query holds of every row the query returns |
| query execution | a worker thread per query, connection, transaction | execute with timeout, rollback, cap rows, probe a tie | a worker that outlives its timeout, statements that escape rollback | no data change, each item its own answer |
| result canonicalisation (`result_canon.py`) | none (pure) | determinism label, tie probe, fingerprint | ties at a LIMIT cut | a DETERMINISTIC label means one possible result |
| LLM judge | executor, votes, API-key index | query voters, aggregate, rotate keys | completion order of voters, failed voters, key exhaustion | the verdict does not depend on the order of the answers |
| question/SQL consistency (`analyzers/question_sql_consistency`) | none; findings of a rule pass to a later rule | literal, boundary, string-match, aggregation and top-k rules | phrases inside phrases, one predicate for two phrases, negations on either side, a rule that withholds what another said | supported means the query keeps only what the words ask for, contradicted that it returns something else |
| reports, CLI, loaders, registry, configuration | little | generate, run, load | report on a database another handle still owns | - |

How they interact: `run_pipeline` composes the loader, normalizers and
analyzers as nested generators; the writer's `for` loop is the only thing that
moves, so between two stages there is no concurrency, but an exception
anywhere unwinds everything. Analyzers call `DbManager` for a database's health
and engine, and `MetricsSink.write` for every event, before they annotate the
item. `DbIdentityAssign` calls `DbManager`, which calls the adapter. Concurrency
exists in three places: query execution's threads, the judge's pool, and
several processes on one database root.

## Modules

| module | models | proofs |
|---|---|---|
| `MetricLog` | what a metric store promises (abstract) | - |
| `MetricSink` | `CompositeMetricsSink`, `JsonlMetricsSink`, `DuckDBMetricsSink` | `MetricSinkProofs` |
| `DbIdentity` | `DbIdentityAssign`, `DbManager`, the file adapters | `DbIdentityProofs` |
| `SchemaChecks` | what `SchemaValidationAnalyzer` finds in a SQLite database | in `PipelineProofs` |
| `Pipeline` | `run_pipeline`, `IdAssign`, the analyzers' skip rule, the schema cache (uses `SchemaChecks`) | `PipelineProofs` |
| `ResultCanon` | `result_canon.py` and the reference definition of a determined result | - |
| `QueryExecution` | `QueryExecutionAnalyzer` on one SQLite database | `QueryExecutionProofs` |
| `LlmJudge` | `SemanticLLMAnalyzer`, `GeminiProvider`'s key rotation, Claude's fallback | `LlmJudgeProofs` |
| `SqlValues` | what a cell holds, for the three modules that follow | - |
| `Conditions` | what the antipattern detector reads from a condition | `ConditionsProofs` |
| `KeyReasoning` | what it concludes about a SELECT from keys and equalities | in `CartesianProductsProofs` |
| `CartesianProducts` | which SELECTs it reports as a Cartesian product (superposed on `KeyReasoning`) | `CartesianProductsProofs` |
| `ConsistencyTerms` | words, spans, obligations and findings the consistency rules share | in `ConsistencyProofs` |
| `Literals`, `ComparisonBoundaries`, `StringMatch` | the literal, boundary and string-match rules | in `ConsistencyProofs` |
| `SelectShape` | the root SELECT as two rules see it, and the rows an engine returns for it | in `ConsistencyProofs` |
| `Aggregation`, `TopK` | the aggregation and the ordering/top-k rules | in `ConsistencyProofs` |
| `Consistency` | `_detect_consistency`: the rules over one item, in order (composes the five) | `ConsistencyProofs` |

`MC<Module>` gives the constants of the runs; `MCAntipatterns` puts the detector's two
walks, of conditions and of SELECTs, into one run, and `MCSelectItems` and
`MCLiteralItems` hold items of `MCConsistency`. A definition named
`<Definition>_<Fault>` is a plausible bug in that definition, kept beside it:
with it in place of the definition some property fails, which is how each
property was shown to be about the code.

### MetricSink

One action per storage call: `WriteLine` (the JSONL sink, one flushed line),
`WriteBatch` (the DuckDB sink buffers, and begins a flush when the batch is
full), `InsertRow`/`RejectRow` (one autocommitted row, or a violated key),
`FlushDone` (the batch is cleared only now), `StartClose`, `FlushNext`,
`CloseConn`. `FaultLine`, `FaultTable` and `FaultRow` are storage errors, which
`composite.py` swallows; `Interrupt` is a KeyboardInterrupt, which
`except Exception` does not catch and which unwinds to the `finally` of
`metric_sink_context`. A killed process is a behaviour that stops.

*Checked* (`sink_faults`): three tables (two with a primary key, one for an
unknown analyzer without), events with a NULL key column, five events, batches
of two, one fault and one interrupt at any point. A keyed table's rows are a
prefix of what its batch took; the database file is closed only when complete;
the JSONL files are never behind; an event is stored twice without a key only
after a fault or an interrupt; a table whose flush failed after its first row stores nothing more, ever
(`StuckTableStoresNoMore`: the head of the batch is now a duplicate); the
keyed tables implement `MetricLog` (`ImplementsLog`); `close()` ends
(`CloseEnds`). Two batches' worth of events, a third begun, is enough for every
position of a fault in a batch and for a second flush after it.

*Proved*: the types and all of these but `CloseEnds`, for any tables, batch size and
number of faults. The inductive invariant of `PrefixTheorem` is `BatchInv`: a batch is the tail of what
was accepted, the rows of a keyed table end inside that tail, and a flush under
way is either at the batch's first record or just past the table's last row.
The last clause is what makes re-inserting a half-stored batch harmless: the
first record is rejected as a duplicate before a gap can open. `StoredInvariance`
and `CloseInvariance` say that close leaves a table behind only stored
(`ClosedTheorem`), `LinesInv` and `OnceInv` follow one event to its line and to
its rows, and `LogTheorem` maps each step to one of `MetricLog` or a stutter: an
event accepted is logged, a row inserted extends what is stored, `CloseConn` seals.

*Disagreement* (`sink_healthy`): one bad table's exception ends `flush()`, so
close drops the buffered rows of tables behind it; `output/README.md:344` says
they are flushed.

### DbIdentity

Each process takes items (`TakeHealthy`, `TakeSchema`, `TakeNothing`: the
branches of `DbIdentityAssign`), looks at the file (`CheckOccupied`,
`CheckEmpty`, `CheckUnparsable`, `CheckServer`) and applies the schema
statement by statement (`ApplyStatement`, `ApplyRefused`, `ApplyDone`); SQLite
commits each DDL statement by itself. `Restart` ends a process at any point and
starts it with empty caches; the files stay.

*Checked* (`identity_race`): two processes with two items each on one root, up
to two restarts. `RaceItems` gives one derived id a single schema (the race) and
one given id three different ones. `OneWriter`: the second process's first
CREATE TABLE is refused, so only one writes. `AtRestWhole`, `OkExplained`: unless a kill
cut the creation, a database nobody works on is empty or whole.
`SettledIsFrozen`: nothing completes a partial database. Other initial states of
the same run (`ServerAdapters`) put every kind of item before a server adapter,
whose `identity_from_schema` raises. `UnmarkedHasHealth`: an item that is not
marked as failed has an id with a known health.

*Proved*: types and every property of the run, for any
number of processes, schemas and restarts. `RaceInv` is needed because `OneWriter`
alone says nothing of the file: the loser is refused since the writer's
statements so far *are* the file's content, so the first table of the script is in it.
`OkExplained` needs `OkSeen` besides: a manager that recorded ok saw or made a file
that holds something, and no file is emptied again.

*Disagreement*: a schema with a refused statement is recorded ERROR and, the
second time, OK (`identity_idempotent`, `db/README.md:92`).

### Pipeline and SchemaChecks

`Load`, one action per stage of the item (`KeepId`, `CountId`, `HashId`,
`AssignDb`, `Skip`, `Analyze`, `AnalyzeSchema`, `RepeatSchema`), `Write`, `End`;
`LoadRaises`, `HashRaises`, `WriteRaises` and `Interrupt` end the run where it
stands. What an analyzer finds is any status it can give; which one is the
business of the other modules. Only the schema's status is computed, by
`SchemaChecks`, from the contents of the item's database: the declared keys and
foreign keys, unreadable and empty tables, and `PRAGMA foreign_key_check`, which
raises at a foreign key that aims at no whole key and then counts nothing.
`Whole` and `Dangling` are SQLite's own view, written apart from the analyzer's.

*Checked* (`pipeline_mixed`): seven runs of two or three items over two
databases, both id modes, schema validation first and behind another analyzer,
every way an item can end the run. `NothingAfterFailure`: no analyzer looks at
an item after any failed step. `OutputIsPrefix`: the output is the dataset from
its first item, without a gap, and the events at most one item ahead.
`EventsMatchSteps`: steps and events agree one to one, a schema step perhaps
repeating an earlier item's. `OneVerdictPerDb`: one schema verdict per database.
Three items are the fewest in which a database's first item, another database
and a repeat occur in one run. `SchemaStepsRight`, over two items of each of
1176 databases with up to two foreign keys (to a key, part of one, a UNIQUE
column, none named, a missing or unreadable table): after "ok" or "warns" every
foreign key has a whole key for target and every row its parent, unless one aims
at part of a composite key, which the column-by-column check lets pass and which
makes the PRAGMA raise, so that other dangling rows are not counted either;
after "errors" something is broken, unless the target is UNIQUE or unnamed,
which the analyzer does not know; an "ok" has no unreadable table.

*Proved*: all of these, for any jobs and contents. `GatedInv`
(skip rule) and `OrderInv` (lines and loader's count differ by the item under
way) are the properties extended to the item under way. `VerdictInv` relates
steps and events to the cache: every verdict is the one the cache keeps of
its database. It holds for an item's *present* dbId because normalizers, which change
it, come before analyzers (`StageOrder`), so no item has a verdict while its dbId may change.
`MatchInv` (`EventsMatchSteps`): no event of the item under way is of a stage it
has yet to reach, so an analyzer's event is its first there, and whatever the cache holds is backed by
an event of an earlier item. `SchemaTheorem` adds `CacheInv`, that the cache holds what the
contents say, to `VerdictInv`; what remains are two lemmas on one database:
`PassedSchema` (no error and no part-of-key target: so the PRAGMA did not raise,
so its count was a count) and `FailedSchema`.

### QueryExecution and ResultCanon

`TakeUnreachable`, `TakeRefused`, `TakeExecuted` are the checks of
`_execute_query_safe` in their order. The analyzer joins the thread (`Raised`,
`MutationDone`, `QueryDone`, `StartProbe`, `ProbeDone`), or `Timeout`,
`Interrupt`, and `GiveUp` after the second join: the thread is left behind and
goes on beside the next items' (`Connect`, `Refused`, `Execute`, `Finish`, `Fail`).
`Released`, `SelfCommits`: sqlite3 begins a transaction only for a text starting with
INSERT, UPDATE, DELETE or REPLACE, so only those are undone by `trans.rollback()`.
`ResultCanon` translates `result_canon.py`. A row before LIMIT and OFFSET has the rank
that the ORDER BY gives it, the canonical form of its sort key, which is all the
analyzer compares (`canonical_row` folds numbers at 12 digits, normalizes text and
knows no collation), and the values it shows. Rows of one rank come in any order, in
the probe as well, so `Verdicts` has one outcome for each way an engine may put two rows either side of
the cut. An ungrouped aggregate makes one row, though its probe sees the keys of all.
For comparison the module states what an engine could return: `Arrangements`,
`Selections`, and `Determined` on the multisets of values.

*Checked* (`execution_threads`): two items out of eighteen statements under four
policies, over two tables before and after a change of the data. In one table the rows
tie as they look, in the other ranks and canonical forms disagree both ways; two items are
enough for a thread left behind to meet the next item's. `SelectOnlyIsInert`,
`TransactionsLeaveNoTrace`, `OkIsOwnAnswer` (an ok is the item's own answer, in
time), `LabelSound` (DETERMINISTIC: every engine returns the same multiset of values;
SET_AMBIGUOUS: other rows rank equally), and `EveryItemReported`.

`LabelSound` names the labels that the code gets wrong, and holds of all others:

- the data change between the query and its probe (`report.probe = report.read`);
- ties that do not show: rows of one rank with different canonical forms, as under a
  NOCASE collation (`TiesShow`), are called DETERMINISTIC; ranks that fold into one form,
  as floats equal in 12 digits (`TiesTrue`), are called SET_AMBIGUOUS;
- OFFSET's own cut, which no probe looks at (`SkipsCleanly`): also that of `LIMIT 9 OFFSET 1`
  without ORDER BY on fewer rows, which is called DETERMINISTIC;
- a LIMIT that is no integer, or 0, together with an OFFSET: the cut that is probed is
  not the query's (`CutKnown`);
- an ungrouped aggregate: `SELECT MAX(x) ... ORDER BY y LIMIT 1` returns one row, and is
  called SET_AMBIGUOUS when two rows tie on y.

*Proved*: types and the four safety properties, for any statements, contents, canonical
forms, policies and number of items. `LockInv` ties the lock to the one thread inside
a write; `ReadsOnly` says that in select_only mode every thread's statement is a
query; `AnswerInv` ties the answer the analyzer keeps to the thread it came from.
`LabelTheorem` takes `LabelInv` (a label is what `classify_determinism` says of
what the query saw, and of a tie its probe may have seen) and facts about every
arrangement of ranked rows: a cut between different ranks leaves the same rows before
it (`PrefixFixed`, by counting those of lower rank), so what OFFSET and LIMIT leave is
fixed when both cuts are (`WindowFixed`, `WholeDetermined`), and one between equal
ranks can be made in two ways (`TieSeveral`). `TieMeans` relates what the probe compares to the ranks.

*Disagreements*: a mutation behind WITH is committed (`execution_rollback`,
`query_execution/README.md:198`); a probe that times out makes the label
DETERMINISTIC (`execution_unproven`, docstring of `_probe_tie`).

### LlmJudge

`Take`, then per provider `Call` (when the pool has a thread), `Answered`,
`Broken`, `KeyRefused` (the next key, or "exhausted"), `AskManually`; `Collect`
takes results as they complete, or in list order without a pool; `Judge`
aggregates. `Quota` lets keys run out and recover at any time.

*Checked* (`judge_panel`): two items before a pool of two threads and three
providers, three providers asked in turn, and an empty panel; two keys.
`ResultsAreTheVoters`, `StatusIsTheMajoritys`, `ExhaustedMeansNoKey`,
`EveryItemJudged`. A second item is needed because the key index survives the first.

*Disagreement* (`judge_unanimous`): `llm_as_a_judge/README.md:37` and the class
docstring (line 43) say "ok: All voters respond with CORRECT"; `_determine_status` takes
the majority, as its own docstring (line 445) and `StatusIsTheMajoritys` say, and two of three
voters are enough for ok.

*Proved*: everything but the liveness, for any panels, keys and answers.
`Collected` (results are the ended calls, once each) and `Recount` (counting
the sequence of results is counting the providers, whatever the order) give the
majority; `TriedInv` (the keys behind the index, as many as were tried, were
each refused at some time during the call) gives `ExhaustedMeansNoKey`.

### Conditions

The detector never runs a query; from a condition it takes equalities and
NULL-rejected columns "guaranteed" wherever the condition is true. The recursive
walks (`_guaranteed_column_equalities`, `_guaranteed_non_null_columns`,
`_in_is_logically_negated`) have a step for each return of a call: a step adds a
subcondition to `read`, with its truth on one row in SQL's logic of three values
and with what the code reads from it. `EqualColumns`, `Compare`, `Quantified`,
`Tuples`, `NullSafe`, `NullTest`, `Between`, `In` and `Other` are the leaves,
`VisitAnd`, `VisitOr`, `VisitNot`, `VisitParen` the branches. A leaf the detector
cannot evaluate has any truth SQL allows it: unknown when a compared operand is
NULL, except for a quantified comparison and for IN over no rows.

*Checked* (`detector_walks`): two columns, two values and NULL, two leaves and
four subconditions, which is enough for a NOT above an AND or OR of leaves.
The columns are symmetric, and so are the values.
`EqualitiesHold`, `NullsRejected`: what is read holds where the condition is
true. `ParitySound`: a NULL from the subquery of an IN under an even number of
NOTs changes no decision.

*Proved*: all three, for any columns, values and depth. `ReadSound` is needed
because NOT reads from a *false* subcondition: a comparison or BETWEEN rejects
NULLs when it is false too, an IN does not, and under an odd number of NOTs the
subquery's NULL may turn true into unknown and nothing else.

### KeyReasoning

The query runs beside the detector on one database. `JoinNext` joins a source:
its rows with the padding of LEFT, RIGHT and FULL, the equalities
`_equated_columns` reads from it (`todo`) and `_joins_preserve_grain`'s verdict
so far (`grain`). `Filter` is WHERE, `Unite` one union of the union-find, in any
order. A row is a row number per source, 0 where it was padded. A condition with
parts the detector does not read (`opaque`) may let any of the candidates pass, and
so may an equality of columns whose collation or affinity differ: nothing of them
may be relied on. A USING or NATURAL join compares the leftmost source that has the name
(`Leftmost`), behind a RIGHT or FULL join possibly another (`Coalesced`); the detector counts the
catalog's tables only (`Owners`) and reads an equality if there is one. What the detector concludes are operators on the final state:
`MissingGroupBy`, `RedundantDistinct`, `NonNull`.

*Checked* (`detector_walks`, of which `MCKeyReasoning` holds these SELECTs): 32 over four tables (single and composite
keys, NOCASE against BINARY, a derived table), every kind and form of join, aggregates
with and without HAVING, all contents of up to two rows. `EquatedAgree`: a class of columns has one value in
each row. `GroupsAreDetermined`: a GROUP BY that is not reported returns no
arbitrary value. `DistinctRemovesNothing`: a DISTINCT reported as redundant is.
(These three where a USING or NATURAL finds its column in the catalog alone, `MergesKnown`.)
`NonNullSound`: a column taken as never NULL is not, in no row that HAVING lets through. Two rows are enough for a
violation, as each property speaks of at most two rows of a result; a third
source is needed for an equality read before an outer join pads it.

*Proved*: the types and all four, for any catalog, queries, contents and number of sources,
with `KeyInv` as the invariant. `ClassesAgree` and `TodoAgrees`: columns of a
class, and equalities still to be united, agree in every row so far, where a padded
row is NULL on *both* sides. `GrainInv`: while the grain is kept, a row is determined by
its driving row. `PaddingInv`, `JoinRejectsInv`, `WhereInv`: without a join that pads,
nothing is padded, and what a condition rejected when NULL stays so.

*Assumed* of the data (`KeyVerified`): a key the metadata offers has no NULL now
and is unique under its columns' collation, which `_load_schema_metadata` checks
or the engine enforces; and (`WellFormed`) a condition names sources already
joined. References are resolved. Of a HAVING the columns it rejects when NULL are kept; whatever
else it says, fewer rows are returned. A GROUP BY of expressions other than columns is left out.

### CartesianProducts

`_detect_cartesian_product` walks the same joins, so this module adds variables
to `KeyReasoning` and refines its actions: `CountedJoin`, `CountedFilter` and
`CountedUnite` are `JoinNext`, `Filter` and `Unite` with more said. A condition that
`KeyReasoning` leaves opaque is told here: the sources that it names, predicate by predicate
(`words`), and any relation of their rows as what it means (`meaning`). `Count` is
`_analyze_constant_false_joins`, one join at a time; `ProvablyScalar` the proof that
a derived table has one row at most, with `MayReturn` as what such a query may
return; `Links` what one predicate connects. The union-find is stated by the cuts it leaves:
two sources are apart if some set of sources that no edge leaves parts them.

*Checked* (the same run, with some five hundred SELECTs more: three sources with
two joins of every kind ON FALSE or not, derived tables of thirteen shapes
joined from either side, conditions of every form in either ON and in WHERE,
USING behind a product and behind connected sources; contents of up to two
rows). `UncountedAddNothing`: what the rule does not count multiplies no row, and a
relation it calls empty has none, so no product is missed on that account.
`ReportedIsProduct`: a reported SELECT has one in its rows, or had it where a USING
joined. Two rows per source are the fewest that tell a product from a match.

*Proved*: both, for any SELECTs, words, meanings and contents, and that the rule
implements `KeyReasoning` (`RefinesWalk`), whose theorems hold here through it.
`UncountedInv` follows the rows that agree where it counts through the padding of
each kind of join. `MixInv` is the reason a report is right: along a set of
sources that no edge so far leaves, any two rows can be mixed into a third, since each condition
sees sources of one of the two only. `OnceInv` keeps that for the USINGs passed:
no attachment heals a product in its prefix.

*Assumed*: sources have different aliases, columns are qualified, no subquery of an ON
compares two sources of the SELECT around it. `UncountedAddNothing` excludes a FULL
JOIN of a scalar source, which adds a row; `ReportedIsProduct` is about inner joins
whose conditions the rule sees whole (`Legible`). What lies outside is under "Seen
while modelling".

### Consistency

The rules read a question and a query and say whether the one realizes the
other. They never learn what was meant; an item of the model carries it: `wants`,
the spans of the question that ask for something and the set of values they mean in
a column, and `asks`, the aggregates or ranked rows meant. `RunLiteral`, `RunBoundary`,
`RunString`, `RunAggregation`, `RunTopK` are the rules in their order. The one state
they share: `RunAggregation` withholds what concerns a column for which the literal
rule reported a substituted aggregate (`consistency_detector.py:450`).

Each rule is translated as operators on tokens and spans: phrases are found,
the longest wins the words it shares (`LongestCues`), a phrase is bound to the one
predicate with its value near and its role named, and everything uncertain ends in
"unresolved" or "not assessed". A word is a token; word forms are pairs. What the
SQL does is defined beside it and independently of the rule: `MayPass` for a
predicate, `LikeAccepts` for a LIKE, `Returns` for a SELECT with GROUP BY, ORDER BY,
LIMIT and OFFSET, with every way to break a tie.

*Checked* (`consistency_rules`), over families of items that pair every phrase
with every form of predicate that a dataset writes for it, most of them wrong:
`BoundaryVerdictsRight` (a supported boundary: every row the query keeps is one the
words allow, in the column they name; a contradicted one: the query returns other
rows than asked, or the evidence says otherwise than the question),
`StringVerdictsRight` (supported exactly when the LIKE, under its NOTs, selects the
texts asked for), `AggregationVerdictsRight` (supported: on every table each
returned row carries the aggregate of the rows it stands for; contradicted: on some
table it does not), `TopKVerdictsRight` (supported: on every table what is returned
is what some reading asks for; contradicted: no reading fits), `LiteralVerdictsRight`
(a supported literal is meant by some words, a contradicted value by none in its
column; a supported literal is a value that has a source and no more, so of a predicate that leaves
out what it names, `LeavesOut`, being supported says nothing). Tables have up to three rows, enough for a tie at a cut and for a
group of two beside a group of one; texts up to three letters, enough to tell
prefix, suffix, substring and equality apart; numbers lie around each constant.

*Proved*, for any families, questions and queries, first of the order of the rules:
`OriginTheorem` (every finding is one that a rule selected for the item makes of that
item) and `FindingsTheorem` (at the end the findings are exactly those: none is lost, and
what is withheld depends on the item and the selection alone). Its invariant
`MadeSoFar` says it stage by stage; it needs that no rule but the first ever reports a
substituted aggregate (`OnlyLiteralSubstitutes`). From it follows
`SubstitutedTheorem`: no column of a literal reported in the place of an aggregate is
judged again by the aggregation rule. `OneVerdictTheorem`: no predicate is
supported for one of its literals and contradicted for another; the evidence contradicts
single comparisons for equality only, and a conflict claims its predicate.

Then of the verdicts. To bind words to a predicate is guesswork, by nearness and by the
names of columns, and no proof can say that it guesses right. So the theorems take
the guess as their hypothesis and prove what is built on it:

| theorem | hypothesis: the words mean what they are bound to | what it proves |
|---|---|---|
| `StringTheorem` | `TextsMeant`: a cue means the column and text of the LIKE bound to it, and the match its phrase says | `StringVerdictsRight` whole: parsing of the pattern, parity of the NOTs under any AND and OR |
| `SupportedBoundariesTheorem` | `BoundariesMeant`: an uncontested phrase means its operator on the value bound to it, a range its ends, the smaller first | the supported half of `BoundaryVerdictsRight`: whatever else the WHERE says, under any NOT, AND and OR |
| `BoundaryTheorem` | and of a contradicted one, `Sole`: no other predicate and no other phrase is of that column | `BoundaryVerdictsRight` whole: the other operator returns another set of numbers |
| `SupportedAggregatesTheorem` | `AggregatesMeant`: the aggregate is asked of the column named nearest; the finding is `Undisturbed` | the supported half of `AggregationVerdictsRight`: every row returned of every table carries the aggregate |
| `TopKTheorem` | `RequestsMeant`: the request is for the key, direction and number bound, of all rows; `ReadingsMeant`: every reading of a contradicted one ranks what some table tells apart, by the key and in the direction or number that the rule read | `TopKVerdictsRight` whole: on every table, however ties are broken |

(`SupportedTopKTheorem` is the supported half, from `RequestsMeant` alone.)

The contradicted half of top-k claims that *some* table tells the query from what was asked. That table is any whose keys differ and that has more rows or groups than
asked: `Selects` fails on it for the other direction (`FirstUnits` of one order are not
those of the other), another number, and no order at all. That a finite set of rows
has a first and a last is induction on finite sets (`SmallestSet`: of any nonempty family of subsets of a finite set, one member holds
no other), which needs no operator parameter.

That the hypotheses are met is checked: `MCConsistency` assumes (`GuessesAreRight`) each
`...Meant` of every item of every family, and that supported aggregates are
`Undisturbed`, and TLC evaluates it. `Sole` is not met by all of them, and is needed: for "over 5", `age >= 5 AND age <> 5` returns
what was asked and is contradicted all the same. `Undisturbed` excludes what the rule
overlooks and "Seen while modelling" lists: OFFSET, a LIMIT that is not a number above 0,
an aggregate inside an expression or DISTINCT, an ordered extreme of a grouped query. A range that is
worded with its larger end first ("between 7 and 3") is outside `RangesMeant`.

The lemmas go down one path: what a finding of each kind consists of (`BoundaryCases`,
`StringCases`, ...), which operators a supported verdict lets pass, and that what
passes a predicate under its nodes is what the engine lets pass (`MayPass`,
`Passing`, as folds over the nodes). The chains of conditions in the rules are IF
... ELSE IF, in the order of the code.

*Assumed*: questions of one sentence, values of one word, tables without NULL and
not empty, aggregates over the whole table but for filters on another scope's
aggregate. "Seen while modelling" lists what lies outside and is not right.

## Fairness

| run | assumed | why |
|---|---|---|
| sink_faults | WF of the writing thread's next storage call | a synchronous call goes on; events and interrupts are not assumed to come |
| execution_threads | WF of the analyzer only | `join` has a timeout; *nothing* is assumed of a query's thread, which may hang for ever |
| judge_panel | WF of the analyzer and of each provider's request | the analyzer waits for every future without a timeout of its own, so its progress is that of the SDKs: Ollama's request sets a timeout, the other SDKs have defaults |

The other runs check safety only.

## Bounds

`MaxEvents`, `MaxFaults`, `MaxInterrupts` (sink), `MaxItems`, `MaxRestarts`
(identity), `MaxItems` (execution, judge) cap counters in the guards, so the
runs end and `CHECK_DEADLOCK FALSE` is set: a run of the program stops as well.
`Pipeline` needs no bound, its datasets are finite. The proofs do not
depend on any bound's value.

## Only model-checked

Liveness (`CloseEnds`, `EveryItemReported`, `EveryItemJudged`) is beyond the
prover. Every other property that a passing run checks is stated by a theorem, but for
what the theorems of `Consistency` leave to the run:

- that the hypotheses `...Meant` hold;
- `LiteralVerdictsRight`: that words which resemble a value mean it, and that a value
  without such words is not meant, is all there is to it, and a theorem would have to
  assume as much. What can be said of the literal rule for any items is `OneVerdictTheorem`;
- the contradicted half of `AggregationVerdictsRight`: that the query does not return
  the aggregate in some other way depends on the tables;
- the contradicted half of `BoundaryVerdictsRight` where several predicates restrict
  the column (not `Sole`): whether their conjunction happens to be what was asked depends on
  all of them;
- that `ValueOf` is an integer on every table: it is a fold over the rows, and what a
  fold computes is an induction over data. `Ranks` asks it of the one table it needs.

Each hypothesis `...Meant` is checked of the items of `MCConsistency` and of no others.

## Assumptions of the proofs

Each module's named ASSUME: the constants have their types, None is none of
the values it stands beside, (identity) a script consists of tables and the
refused statement, (pipeline) a database is one that CREATE TABLE accepts, and
(execution) a table's rows are given in the order of their ranks. Of
`Consistency`: the texts tell the kinds of match apart and the numbers reach one past
each constant (`TextsAssumption`, `SampleAssumption`; else two operators could return the same
rows), tables are finite and hold numbers (`TablesAssumption`), and items are what the
parser gives (`ItemsAssumption`: known operators, a BETWEEN of two numbers or of none,
finitely many projections, evidence with an operator some phrase stands for). TLC evaluates each on every run of the module.

## Not modelled

- of the antipattern detector, aliases used twice and unqualified columns (its
  two-table heuristics), and the rules that recognise a form of the syntax tree (SELECT *,
  functions on columns, leading wildcards): they conclude nothing that an execution
  could refute;
- of the consistency analyzer: dates and relative times, spelling of the question
  itself, the corpus records and dictionaries (a small vocabulary stands for them)
  and the reading of its context manifest;
- the contents of metric columns, reports, progress display, the command line
  and the evaluation scripts: output without state;
- plugin discovery and `${VAR}` resolution, whose result is `Pipeline`'s `Jobs`;
- connection pools of `DbManager` and server adapters beyond the call that raises;
- two runs that share a DuckDB file or a second of the clock: nothing in a run
  looks at another, so the state space has nothing to add to reading the code;
- the antipattern analyzer's metadata cache: `KeyReasoning` holds for whatever
  catalog it ends up with, an empty one included.

## Seen while modelling, without a run

- `db/manager.py:43` says `identity_from_schema` never raises; it passes two
  arguments and `sa_server_base.py:30` takes one, so with a server adapter the
  call raises a TypeError.
- `normalizers/README.md:406` configures hashed ids before the step that
  assigns the dbId they are made of; the first item raises and ends the run
  (`HashRaises` in `Pipeline`).

- the judge's "INCORRECT or UNANSWERABLE" majorities are not added up: two of three
  voters that disagree on which give "warns". Weights change the score and never
  the status.
- `output/README.md:211-219` looks for items whose query_execution step has the
  status "errors"; that analyzer gives "ok" and "failed" only.
- In mode "all" a DDL statement takes effect and is reported as failed (it has no rows).
- Labels of determinism: the list under QueryExecution.
- A USING behind a derived table: in `FROM (SELECT ... AS x) v JOIN t ON ... JOIN u
  USING (x)` the engine compares `v.x` with `u.x`; the detector does not know the columns
  of `v`, takes `t` for the only owner and equates `t.x` with `u.x` (`MergesKnown`).
- A NOT NULL column is taken as never NULL also where an aggregate returns a row of
  nothing: `SELECT k FROM t HAVING COUNT(*) = 0` (`NonNullSound`), or with an aggregate
  in ORDER BY and no rows.
- `id_assign` counts past ids that items brought along, so two can be equal.

- Cartesian products: a FULL JOIN ... ON FALSE of a scalar source adds a row though the
  comment at `antipattern_detector.py:1110` says such sources "cannot multiply the
  relation"; NATURAL JOIN is reported as a product, as its columns are not looked at; a
  USING whose columns belong to two sources on the left that nothing else ties is
  reported too; so are OR and IN lists with one constant alternative, and
  correlated subqueries in WHERE, though the rows they leave are no product.

Consistency, each outside of what the families of `MCConsistency` contain:

- boundaries: "more than or equal to 5" with `>=` is contradicted ("more than" is
  the phrase found), though the analyzer's `README.md:53` keeps that status for
  "explicitly incompatible values";
- text matches: "all people but those whose name contains al" with LIKE '%al%' is
  supported, though its `README.md:22-25` promises to abstain on negation;
- literals: a predicate with <> or NOT has its literal supported when the question names the
  value, whether it asks for or leaves out what is named, though the comment at
  `consistency_detector.py:161` says that this "licenses nothing"; evidence that sets a value aside from
  more than 40 characters away ("avoid ...") licenses it; evidence "status isn't 'active'" licenses the literal, against the
  docstring of `_evidence_range_is_affirmative`; an aggregate in the evidence
  contradicts a constant the question itself states; a sole quoted value contradicts
  an unrelated string predicate; a "not" more than three words before a flag's word is
  missed; "Which one ..." licenses a literal 1, "five hundred" licenses 5; the license looks
  neither at the column nor at a negation; two near misses of one IN list give two
  contradictions at one place, though the comment at
  `consistency_detector.py:2764` says a predicate is reported once, and one
  contradicted value leaves the list's others unreported;
- aggregates: AVG(DISTINCT x), MAX(x) - MIN(x) and MAX(x) + 1 are supported; an
  aggregate with OFFSET is supported though nothing is returned; MIN by
  ORDER BY ... LIMIT 1 is supported although SQLite sorts NULL first; ORDER BY with
  FETCH FIRST 1 ROW is contradicted for a right maximum; the table of the column is
  not checked; "maximum vote by age" with MAX(age) is supported;
- top-k: age + votes ordered by age is supported for the highest age; an alias that
  shadows a column in ORDER BY is read as the column; plural "which players have the
  highest" with LIMIT 1 is supported; "top 2 players by votes per town" without GROUP BY
  is judged as if "per town" were not there; evidence "highest age refers to
  MAX(age + votes)" is not read;
- dates (not modelled): "in 2010" with BETWEEN 2010 AND 2015 is supported; "after 2010"
  with a date > '2010-01-01' is supported, "since 2010" with year > 2009 contradicted;
  negations and ORs above a date predicate are ignored.

Schema validation: a foreign key to a UNIQUE column is reported as not aimed at a
key, since `sqlite_sa.get_table_info` never sets `unique`, against
`schema_validation/README.md:107`; one to part of a composite key counts as valid;
`REFERENCES parent` without columns is reported as a missing column (`Unrecognized`
and `PartOfKey` name these in `SchemaStepsRight`). Outside the model: names are
compared with their case, which SQLite ignores; a table whose description fails
once but whose rows can be read leaves the status "ok".

## Plan

Done: sinks, identity, pipeline with the schema checks, execution and result
labels, judge, conditions, key reasoning, Cartesian products and the consistency rules,
each with proofs. What could follow:

1. NOT IN through derived tables (`_query_output_nullability` over set operations).
2. The temporal rule of the consistency detector.
3. `DbManager`'s engines and `close_all`; server adapters.

A new run takes the place of one whose question it can answer as well.
