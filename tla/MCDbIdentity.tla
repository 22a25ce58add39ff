---------------------------- MODULE MCDbIdentity ----------------------------
(* DbIdentity on small instances: the constants of its TLC runs. *)
EXTENDS DbIdentity, TLC

CONSTANTS
    p1, p2,             \* processes
    given, derived,     \* the id of an item, the id of the schema good
    partly, garbled,    \* the ids of a schema with a refused statement and of an unparsable one
    good, other, broken, junk,
    a, b, c             \* tables

EitherAdapter == BOOLEAN
FileAdapter == {FALSE}

TwoProcs == {p1, p2}
OneProc == {p1}
AllIds == {given, derived, partly, garbled}
AllSchemas == {good, other, broken, junk}
AllTables == {a, b, c}

Scripts == good :> <<a, b>> @@ other :> <<c>> @@ broken :> <<a, Bad, b>> @@ junk :> <<>>
DerivedIds == good :> derived @@ other :> derived @@ broken :> partly @@ junk :> garbled
JunkOnly == {junk}

Carries(i, s) == [id |-> i, schema |-> s]

\* The dataset of the race: one schema without id, one id with several schemas,
\* an item without a schema and one with nothing.
RaceItems ==
    {Carries(None, good), Carries(given, broken), Carries(given, other), Carries(given, junk),
     Carries(given, None), Carries(None, None)}

BrokenItems == {Carries(None, broken)}
Perms == Permutations(TwoProcs)
==============================================================================
