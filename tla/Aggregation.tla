---------------------------- MODULE Aggregation ----------------------------
(***************************************************************************)
(* aggregation_alignment (aggregation_alignment.py): a question that asks  *)
(* for an average, a minimum or a maximum, bound by role to one column of  *)
(* the root projections, and whether the query computes that aggregate: in *)
(* the projection, or as the first row of an ordered query.                *)
(***************************************************************************)
EXTENDS SelectShape

AggregationRule == "aggregation"

(* _SCALAR_REQUEST_RE: such a question begins with one of these.           *)
RequestOpeners == {<<"what", v>> : v \in {"is", "was", "are", "were"}}
  \cup {<<v>> : v \in {"find", "calculate", "compute", "give", "show", "return", "provide", "state"}}
ScalarRequests == {o \o me \o the : o \in RequestOpeners, me \in {<<>>, <<"me">>}, the \in {<<>>, <<"the">>}}
KindOf(word) == CASE word \in {"average", "mean", "avg"} -> "AVG"
                  [] word = "minimum" -> "MIN" [] word = "maximum" -> "MAX" [] OTHER -> ""

(* _aggregation_cues: at most one, for a request is found in one way only. *)
AggregationCues(q) ==
  {[at |-> i, kind |-> KindOf(q[i]),
    count |-> Span(i + 1, i + 2) \in Occurrences(q, <<"number", "of">>),
    ratio |-> \E j \in (i + 1)..Len(q) : /\ q[j] \in {"per", "percentage", "ratio", "rate"}
                                        /\ StartOf(q, j) - EndOf(q, i) <= 48] :
     i \in {i \in DOMAIN q : KindOf(q[i]) # "" /\ SubSeq(q, 1, i - 1) \in ScalarRequests}}

RoleSkipped == {"code", "column", "id", "identifier", "key", "num", "the"}

(* _role_distance: in characters after the cue, up to 64; -1 for none.     *)
RoleDistance(q, at, name) ==
  LET distances == {StartOf(q, i) - EndOf(q, at) : i \in {i \in RoleAt(q, name, RoleSkipped) : i > at}}
  IN  Min({d \in distances : d <= 64} \cup {65})
NotFound == 65

EncodesAggregate(name, kind) ==
  LET marks == CASE kind = "AVG" -> {"avg", "average", "mean"}
                 [] kind = "MIN" -> {"lowest", "min", "minimum"}
                 [] kind = "MAX" -> {"highest", "max", "maximum"}
  IN  IdentifierTokens(name) \cap marks # {}

---------------------------------------------------------------------------
(* _root_projection_candidates: every column of the projections, with the  *)
(* aggregate it stands in.                                                 *)
Candidates(select) ==
  UNION {LET t == select.projections[k].term
         IN  {[column |-> c, place |-> k, kind |-> t.fn,
               direct |-> t.fn = "" \/ (Len(t.columns) = 1 /\ t.inner # "plus"),
               computed |-> t.fn # "" /\ (t.outer # "" \/ t.inner = "plus")] : c \in ColumnsOf(t)} :
         k \in DOMAIN select.projections}

(* The columns named nearest after the cue.                                *)
NearestRoles(q, at, candidates) ==
  LET Distance(c) == RoleDistance(q, at, c.column.name)
      near == {c \in candidates : Distance(c) # NotFound}
  IN  {c.column : c \in {c \in near : \A d \in near : Distance(c) <= Distance(d)}}

\* Mutant: an aggregate of another scope counts for nothing.
NestedMatches_Never(q, kind, select) == FALSE

(* _nested_aggregate_matches_question *)
NestedMatches(q, kind, select) ==
  \E f \in select.nested : /\ f.term.fn = kind
                           /\ \E c \in ColumnsOf(f.term) : RoleAt(q, c.name, RoleSkipped) # {}

(* _ordered_scalar_extreme: whether the query returns the first row by the *)
(* column, and from the end asked for. A key that is no column of a table  *)
(* may be the alias of a projection.                                       *)
OrderedExtreme(kind, column, select) ==
  LET key == select.order[1]
      alias == {k \in DOMAIN select.projections :
                  /\ IsColumn(key.term) /\ key.term.columns[1].table = ""
                  /\ select.projections[k].alias = key.term.columns[1].name}
      renamed == IF Cardinality(alias) = 1 THEN {select.projections[k].term : k \in alias} ELSE {}
      behind == {t \in renamed : column \in ColumnsOf(t)}
  IN  IF select.order = <<>> \/ select.limit.kind # "number" \/ select.limit.n # 1 THEN "none"
      ELSE IF \E t \in behind : ~IsColumn(t) THEN "computed"
      ELSE IF column \notin ColumnsOf(key.term) /\ behind = {} THEN "none"
      ELSE IF ~IsColumn(key.term) THEN "computed"
      ELSE IF key.desc <=> kind = "MAX" THEN "matches"
      ELSE "reversed"

(* _evaluate_cue, of the column that is bound.                             *)
AggregationVerdict(q, cue, column, candidates, select) ==
  LET bound == {c \in candidates : c.column = column}
      kinds == {c.kind : c \in bound} \ {""}
      nested == NestedMatches(q, cue.kind, select)
      extreme == IF cue.kind = "AVG" THEN "none" ELSE OrderedExtreme(cue.kind, column, select)
      Says(status, reason, target) ==
        Finding(AggregationRule, status, reason, target, cue.at, {c.place : c \in bound})
      Unassessed(reason) == Says("not_assessed", reason, "sql")
  IN  IF cue.kind = "AVG" /\ \E c \in bound : c.computed THEN Unassessed("computed aggregate")
      ELSE IF \E c \in bound : ~c.direct THEN Unassessed("operand")
      ELSE IF kinds = {} /\ EncodesAggregate(column.name, cue.kind) THEN Unassessed("precomputed")
      ELSE IF kinds = {} /\ \E c \in candidates : c.kind # "" THEN Says("unresolved", "role", "mapping")
      ELSE IF cue.kind \in kinds THEN Says("supported", "aggregate", "mapping")
      ELSE IF cue.kind # "AVG" /\ select.offset > 0 THEN Unassessed("offset")
      ELSE IF extreme = "computed" THEN Unassessed("computed order")
      ELSE IF extreme = "matches" THEN Says("supported", "ordered extreme", "mapping")
      ELSE IF nested THEN Says("unresolved", "scope", "mapping")
      ELSE IF extreme = "reversed" THEN Says("contradicted", "ordered extreme", "mapping")
      ELSE Says("contradicted", "aggregate", "mapping")

(* _evaluate_cue *)
AggregationFinding(q, cue, select, suppressed) ==
  LET candidates == Candidates(select)
      roles == NearestRoles(q, cue.at, candidates)
      precomputed == {c \in candidates : c.kind = "" /\ EncodesAggregate(c.column.name, cue.kind)}
      Far(c) == RoleDistance(q, cue.at, c.name) > 16
      Says(status, reason, target) == {Finding(AggregationRule, status, reason, target, cue.at, {})}
  IN  IF cue.count THEN Says("not_assessed", "count target", "sql")
      ELSE IF cue.ratio THEN Says("not_assessed", "ratio target", "sql")
      ELSE IF ~select.reliable THEN Says("unresolved", "scope", "mapping")
      ELSE IF \E c \in candidates : /\ c.column.name \in suppressed
                                    /\ RoleAt(q, c.column.name, RoleSkipped) # {} THEN {}
      ELSE IF precomputed # {} /\ \A c \in roles : Far(c) THEN Says("not_assessed", "precomputed", "sql")
      ELSE IF Cardinality(roles) # 1 THEN
             Says("unresolved", IF NestedMatches(q, cue.kind, select) THEN "scope" ELSE "role", "mapping")
      ELSE {AggregationVerdict(q, cue, c, candidates, select) : c \in roles}

(* detect_aggregation_alignment *)
AggregationFindings(q, select, suppressed) ==
  UNION {AggregationFinding(q, cue, select, suppressed) : cue \in AggregationCues(q)}
============================================================================
