------------------------------ MODULE MCPipeline ------------------------------
(* Pipeline on small instances: the constants of its TLC runs. *)
EXTENDS Pipeline

CONSTANTS x, y,     \* databases
          t, u,     \* question and sql pairs
          P, C,     \* a parent and a child table
          a, b      \* columns

AllDbs == {x, y}
AllTables == {P, C}
AllColumns == {a, b}
AllFamilies == {"INTEGER", "TEXT"}
AllValues == {1, 2}
AllTexts == {t, u}
GivenIds == {<<"n", 2>>}

Plain(id, db, text) ==
    [id |-> id, db |-> db, target |-> db, unusable |-> FALSE, text |-> text, raises |-> "none"]

Of(db) == Plain(None, db, t)
Named == Plain(<<"n", 2>>, x, u)
FromSchema == [Plain(None, None, t) EXCEPT !.target = x]
Unusable == [Plain(None, None, t) EXCEPT !.unusable = TRUE]
NoText == Plain(None, y, None)
Malformed == [Of(x) EXCEPT !.raises = "load"]
Unwritable == [Of(x) EXCEPT !.raises = "write"]

\* The declarations a table starts from.
Plainly(family) ==
    [readable |-> TRUE, columns |-> {a, b}, family |-> [c \in AllColumns |-> family],
     key |-> <<a>>, unique |-> {}, foreign |-> {}, rows |-> {[c \in AllColumns |-> 1]}]

Unreadable ==
    [Plainly(None) EXCEPT !.readable = FALSE, !.columns = {}, !.key = <<>>, !.rows = {}]

\* Foreign keys of one or two columns: to a key or not, in another order, to
\* one column twice, to a table or a column there is none of, to none named.
ForeignKeys ==
    LET To(local, parent, columns) == [local |-> local, parent |-> parent, columns |-> columns]
    IN  {To(<<b>>, P, <<a>>), To(<<b>>, P, <<b>>), To(<<b>>, P, <<None>>),
         To(<<a, b>>, P, <<b, a>>), To(<<a, b>>, P, <<a, a>>), To(<<b>>, C, <<a>>)}

Parents ==
    {Unreadable} \union
    {[Plainly(family) EXCEPT !.key = key, !.unique = unique] :
        family \in {None, "INTEGER"}, key \in {<<>>, <<a>>, <<a, b>>}, unique \in {{}, {<<b>>}}}

Children ==
    {[Plainly("TEXT") EXCEPT !.foreign = foreign, !.rows = rows] :
        foreign \in {{fk} : fk \in ForeignKeys} \union {{fk, To} : fk \in ForeignKeys, To \in ForeignKeys},
        rows \in {{}} \union {{[c \in AllColumns |-> IF c = a THEN 1 ELSE cell]} : cell \in {1, 2, None}}}

\* Databases without a table, without the parent, and with both.
Holding(parent, child) == [name \in AllTables |-> IF name = P THEN parent ELSE child]

Schemas ==
    {Holding(None, None)} \union
    {Holding(parent, child) : parent \in Parents \union {None}, child \in Children}

\* What y and x hold in the runs that are about their items.
Fine == Holding(Plainly("TEXT"), None)
Broken == Holding(None, [Plainly("TEXT") EXCEPT
            !.foreign = {[local |-> <<b>>, parent |-> P, columns |-> <<a>>]}])

Run(dataset, mode, chain) ==
    [dataset |-> dataset, contents |-> [d \in AllDbs |-> IF d = x THEN Broken ELSE Fine],
     normalizers |-> <<"id_assign", "db_identity_assign">>,
     idMode |-> mode, chain |-> chain]

FourAnalyzers == <<"schema_analysis", "query_syntax", "question_sql_consistency", "semantic_llm_judge">>
ThreeAnalyzers == <<"query_execution", "schema_analysis", "query_antipattern">>

\* A database's second item, for every schema.
SchemaJobs ==
    {[Run(<<Of(x), Of(x)>>, "incremental", <<"schema_analysis">>) EXCEPT !.contents[x] = db] :
        db \in Schemas}

\* Ids by counting, with an item the loader, a normalizer or the writer cannot
\* take; and ids by hash, with schema validation behind another analyzer.
MixedJobs ==
    {Run(d, "incremental", FourAnalyzers) :
        d \in {<<Of(x), Of(x), Named>>, <<Unusable, Of(x), Of(y)>>,
               <<FromSchema, Of(y), Unwritable>>, <<Of(y), Malformed, Of(y)>>}}
    \union
    {Run(d, "hash", ThreeAnalyzers) :
        d \in {<<Of(x), Named, Of(x)>>, <<Of(y), NoText>>, <<Of(x), FromSchema>>}}
    \union SchemaJobs
==============================================================================
