----------------------------- MODULE MCMetricSink -----------------------------
(* MetricSink on small instances: the constants of its TLC runs. *)
EXTENDS MetricSink

CONSTANTS schema, exec, generic     \* schema_validation, query_execution, an unknown analyzer

AllTables == {schema, exec, generic}
KeyedTables == {schema, exec}
KeyedOnly == {exec}
SchemaOnly == {schema}
ExecGeneric == {exec, generic}
NoTables == {}
==============================================================================
