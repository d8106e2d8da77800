------------------------------ MODULE MCGateway ------------------------------
(* Small instances of Gateway. *)
EXTENDS Gateway

\* No damage, or one of the first two records damaged in one of its fields.
MCDamages ==
    {[record |-> 0, field |-> "none"]} \cup
    {[record |-> k, field |-> f] : k \in 1..2, f \in {"length", "longer", "shorter", "body"}}

MCWorkloads == {{"outputs", "resetJournal"}, {"startReplay", "replayStatus"}, {"health"}}
==============================================================================
