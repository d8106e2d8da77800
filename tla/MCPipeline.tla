----------------------------- MODULE MCPipeline -----------------------------
(* Feeds for the model checker. *)
EXTENDS Pipeline

TwoInputs == <<"input", "input">>

CutShort == <<"input", "input", "input", "malformed", "input">>

=============================================================================
