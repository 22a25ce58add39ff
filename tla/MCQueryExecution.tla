---------------------------- MODULE MCQueryExecution ----------------------------
(* QueryExecution on small instances: the constants of its TLC runs. *)
EXTENDS QueryExecution, TLC

CONSTANTS plain, odd    \* tables

TwoTables == {plain, odd}
FewCanons == 1..3
TwoPayloads == {"p", "q"}

\* In plain rows tie as they look, once with the same payload.  In odd the first
\* two rank apart and look tied, as floats may; once the data have changed they
\* tie and look apart, as under a collation.
At(rank, canon, payload) == [rank |-> rank, canon |-> canon, payload |-> payload]
Rows ==
    "before" :> (plain :> <<At(1, 1, "p"), At(1, 1, "q"), At(2, 2, "q")>> @@
                 odd :> <<At(1, 1, "p"), At(2, 1, "q"), At(3, 2, "p")>>) @@
    "after" :> (plain :> <<At(1, 1, "p"), At(1, 1, "p"), At(2, 2, "q"), At(2, 2, "p")>> @@
                odd :> <<At(1, 1, "p"), At(1, 2, "q"), At(2, 3, "q")>>)

Plain == [table |-> plain, limit |-> None, readable |-> TRUE, offset |-> 0, ordered |-> TRUE,
          random |-> FALSE, rewritable |-> TRUE, aggregate |-> FALSE]
Select(q) == [kind |-> "select", query |-> q]
Of(kind) == [kind |-> kind, query |-> None]

\* A LIMIT between tied rows, one between others, one that does not bind, none;
\* the ways in which no probe decides; cuts at an OFFSET; an aggregate; and a
\* table whose ties and canonical forms differ.
Selects ==
    {Select(q) : q \in
        {[Plain EXCEPT !.limit = 1], [Plain EXCEPT !.limit = 2], [Plain EXCEPT !.limit = 9], Plain,
         [Plain EXCEPT !.limit = 1, !.ordered = FALSE], [Plain EXCEPT !.limit = 2, !.random = TRUE],
         [Plain EXCEPT !.limit = 2, !.readable = FALSE], [Plain EXCEPT !.limit = 2, !.rewritable = FALSE],
         [Plain EXCEPT !.limit = 1, !.offset = 1],
         [Plain EXCEPT !.limit = 1, !.readable = FALSE, !.offset = 2], [Plain EXCEPT !.limit = 1, !.aggregate = TRUE],
         [Plain EXCEPT !.limit = 1, !.table = odd]}}

Writing == {Of("write"), Of("cte"), Of("other")}
Refusable == {Of("drop"), Of("empty"), Of("garbled")}
AllStatements == Selects \union Writing \union Refusable
Mutations == {Of("write"), Of("cte")}

Configured(mode, safety, cap) == [mode |-> mode, safety |-> safety, cap |-> cap]
AllPolicies ==
    {Configured("all", None, None), Configured("all", 1, 2), Configured("select_only", 1, None),
     Configured("select_only", None, 2)}
Writable == {Configured("all", None, None)}
==================================================================================
