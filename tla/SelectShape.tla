---------------------------- MODULE SelectShape ----------------------------
(***************************************************************************)
(* The root SELECT of a query as the aggregation and the top-k rules see   *)
(* it (QueryScopeIndex of consistency_detector.py), and the rows an engine *)
(* returns for it.                                                         *)
(*                                                                         *)
(* A column is [name, table]; one with no table is an alias. A term is     *)
(*   fn, columns   an aggregate of columns ("" for none; COUNT of none is  *)
(*                 COUNT( * ))                                             *)
(*   inner         "", or "distinct" or "plus": what the aggregate is of   *)
(*   outer         "", or "divide", "plus" or, of a sum, "per count":      *)
(*                 what is around it                                       *)
(* A select is                                                             *)
(*   projections   [term, alias], none for a UNION                         *)
(*   tables, group names of its tables, its GROUP BY                       *)
(*   order         [term, desc], the primary key first                     *)
(*   limit         [kind, n], a "number", "computed", a "fetch" (FETCH,    *)
(*                 ties, percent) or "none"; offset is a number            *)
(*   ranked, rankPredicate, nestedOrder                                    *)
(*                 a ranking window function, a comparison of a rank       *)
(*                 column, an ORDER BY or LIMIT in another scope           *)
(*   nested        [on, term]: a column compared with a term of another    *)
(*                 scope                                                   *)
(*   reliable      whether its scopes could be told apart                  *)
(***************************************************************************)
EXTENDS ConsistencyTerms

Column(name, table) == [name |-> name, table |-> table]
Term(fn, columns, inner, outer) == [fn |-> fn, columns |-> columns, inner |-> inner, outer |-> outer]
IsColumn(t) == t.fn = "" /\ t.outer = "" /\ Len(t.columns) = 1
ColumnsOf(t) == {t.columns[k] : k \in DOMAIN t.columns}

(* Where a question names a column: its words as they are, or else in      *)
(* another form (_role_spans). Words that say nothing of the role are      *)
(* skipped.                                                                *)
IdentifierTokens(name) ==
  CASE name = "shop_code" -> {"shop", "code"} [] name = "avg_age" -> {"avg", "age"}
    [] name = "max_votes" -> {"max", "votes"} [] name = "is_member" -> {"is", "member"}
    [] name = "member_count" -> {"member", "count"} [] name = "id" -> {} [] OTHER -> {name}
RoleAt(q, name, skipped) ==
  UNION {LET exact == {i \in DOMAIN q : q[i] = w}
         IN  IF exact # {} THEN exact ELSE {i \in DOMAIN q : SameWord(q[i], w)} :
         w \in IdentifierTokens(name) \ skipped}

(* The first and one past the last character of a word.                    *)
StartOf(q, i) == Chars(SubSeq(q, 1, i - 1)) + 1
EndOf(q, i) == StartOf(q, i) + Len(q[i])

---------------------------------------------------------------------------
(* What the engine does, on a table of rows. The rows a result row stands  *)
(* for are a set of positions: one, those of a group, or all.              *)
Aggregates(select) == \E k \in DOMAIN select.projections : select.projections[k].term.fn # ""

(* The value of a term over some rows, in sixths: averages of up to three  *)
(* rows are whole.                                                         *)
OfRow(columns, row) == FoldSeq(LAMBDA c, sum : row[c] + sum, 0, columns)
ValueIn(fn, columns, unit, rows) ==
  LET Row(i) == OfRow(columns, rows[i])
      values == {Row(i) : i \in unit}
      Total == MapThenFoldSet(LAMBDA x, y : x + y, 0, Row, LAMBDA S : CHOOSE i \in S : TRUE, unit)
  IN  IF fn = "COUNT" THEN 6 * Cardinality(unit)
      ELSE IF fn = "SUM" THEN 6 * Total
      ELSE IF fn = "AVG" THEN (6 * Total) \div Cardinality(unit)
      ELSE IF fn = "MIN" THEN 6 * Min(values)
      ELSE IF fn = "MAX" THEN 6 * Max(values)
      ELSE 6 * Row(CHOOSE i \in unit : TRUE)
ValueOf(t, unit, rows) == ValueIn(t.fn, t.columns, unit, rows)

(* The rows that pass the comparisons with other scopes, and what the rows *)
(* of the result stand for: each of them, a group, or all.                 *)
Kept(select, rows) ==
  {i \in DOMAIN rows : \A f \in select.nested : 6 * rows[i][f.on] = ValueOf(f.term, DOMAIN rows, rows)}
Groups(columns, kept, rows) ==
  {{j \in kept : \A k \in DOMAIN columns : rows[j][columns[k]] = rows[i][columns[k]]} : i \in kept}
Units(select, rows) ==
  IF select.group # <<>> THEN Groups(select.group, Kept(select, rows), rows)
  ELSE IF Aggregates(select) THEN {Kept(select, rows)}
  ELSE {{i} : i \in Kept(select, rows)}

(* What a key stands for that is the alias of a projection.                *)
KeyTerm(select, term) ==
  LET named == {k \in DOMAIN select.projections :
                  /\ IsColumn(term) /\ term.columns[1].table = ""
                  /\ select.projections[k].alias = term.columns[1].name}
  IN  IF named = {} THEN term ELSE select.projections[Min(named)].term
Keys(select) == [k \in DOMAIN select.order |->
                   [term |-> KeyTerm(select, select.order[k].term), desc |-> select.order[k].desc]]

(* The first n units by a key (in any order without one), however ties are *)
(* broken.                                                                 *)
FirstUnits(units, order, n, rows) ==
  LET Before(u, v) ==
        /\ order # <<>>
        /\ LET a == ValueOf(order[1].term, u, rows)
               b == ValueOf(order[1].term, v, rows)
           IN  IF order[1].desc THEN a > b ELSE a < b
  IN  {cut \in SUBSET units : /\ Cardinality(cut) = Min({n, Cardinality(units)})
                              /\ \A u \in cut, v \in units \ cut : ~Before(v, u)}

(* The units a select may return; a computed LIMIT may be any.             *)
Returns(select, rows) ==
  LET units == Units(select, rows)
      ends == CASE select.limit.kind = "none" -> {Cardinality(units)}
                [] select.limit.kind = "computed" -> select.offset..Cardinality(units)
                [] OTHER -> {select.offset + select.limit.n}
  IN  UNION {UNION {{cut \ skipped : skipped \in FirstUnits(cut, Keys(select), select.offset, rows)} :
               cut \in FirstUnits(units, Keys(select), n, rows)} : n \in ends}
============================================================================
