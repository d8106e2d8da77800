---------------------------- MODULE MCSettlement ----------------------------
(* Small instances of Settlement. *)
EXTENDS Settlement

\* An authoritative venue that may refuse a batch and one that may answer
\* notFound while a submission is under way, each with a crash and a release,
\* and an authoritative venue with a rebuild of the projection.
MCDeployments ==
    {[traits |-> t, trades |-> 3, crashes |-> 1, releases |-> 1, rebuilds |-> 0] :
        t \in {{"authoritative", "rejects"}, {}}}
    \cup {[traits |-> {"authoritative"}, trades |-> 2, crashes |-> 0, releases |-> 0,
           rebuilds |-> 1]}

\* The rebuild alone, with a trade more.
MCRebuilding ==
    {[traits |-> {"authoritative"}, trades |-> 3, crashes |-> 0, releases |-> 0, rebuilds |-> 1]}
=============================================================================
