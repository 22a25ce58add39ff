------------------------------- MODULE MCLlmJudge -------------------------------
(***************************************************************************)
(* LlmJudge with three panels: a pool of two threads for a Gemini model    *)
(* with two keys, a Claude model that may not know adaptive thinking and   *)
(* another model; two Gemini models with the same keys and a model without *)
(* one, asked in turn; and no provider at all.                             *)
(***************************************************************************)
EXTENDS LlmJudge

CONSTANTS k1, k2

ModelOf(keys, adaptive) == [keys |-> keys, adaptive |-> adaptive]
PanelOf(providers, parallel, workers) ==
    [providers |-> providers, parallel_voters |-> parallel, max_workers |-> workers]

MCKeys == {k1, k2}

MCPanels ==
    {PanelOf(<<ModelOf(<<k1, k2>>, FALSE), ModelOf(<<k2>>, TRUE), ModelOf(<<k1>>, FALSE)>>, TRUE, 2),
     PanelOf(<<ModelOf(<<k1, k2>>, FALSE), ModelOf(<<k2, k1>>, FALSE), ModelOf(<<>>, FALSE)>>, FALSE, 2),
     PanelOf(<<>>, TRUE, 2)}

MCAnswers == {"CORRECT", "UNANSWERABLE", "unknown_verdict"}
================================================================================
