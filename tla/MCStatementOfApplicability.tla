---------------------- MODULE MCStatementOfApplicability ----------------------
EXTENDS StatementOfApplicability, TLC

CONSTANTS w1, w2, r1, r2, c1, m1, m2, low, high

\* The two methodologies disagree on the level.
TwoMatrices == m1 :> (<<1, 1>> :> low) @@ m2 :> (<<1, 1>> :> high)

\* Of the second, an asset may give an impact that its scale does not have.
TwoMaps == m1 :> {1} @@ m2 :> {1, 2}

Unevaluated(row) ==
    row = NoRow \/ row = [NewRisk EXCEPT !.status = row.status, !.archived = row.archived]

InFlight(ops) == \A w \in Workers : req[w] # Idle => req[w].op \in ops

\* The statement does not read how risks are evaluated: as soon as there is an
\* assessment, risks are only identified, accepted and archived, and controls
\* matter from then on.
Separate ==
    IF gap = NoItems THEN controls = {}
    ELSE /\ methodology = Default
         /\ \A r \in Risks : Unevaluated(risks[r])
         /\ \A w \in Workers : req[w] # Idle =>
                req[w].op # "methodology" /\ (req[w].op = "risk" => Unevaluated(req[w].row))

\* What is stated of overlapping requests is about levels, and about versions:
\* once two have overlapped, only what bears on these is followed.  A version
\* does not change: no request is followed that begins after it.  The second
\* risk is there for the gate of the plan.
Explored ==
    /\ Separate
    /\ risks[r2] # NoRow =>
           /\ gap = NoItems /\ ~overlapped /\ methodology = Default
           /\ \A r \in Risks : Unevaluated(risks[r])
           /\ \A w \in Workers : Serving(w, {"risk"}) => Unevaluated(req[w].row)
    /\ versions # <<>> => \A w \in Workers : req[w] = Idle
    /\ overlapped =>
        /\ controls = {}
        /\ \A r \in Risks : risks[r] # NoRow =>
               ~risks[r].archived /\ {risks[r].rprob, risks[r].rimpact} = {NoValue}
        /\ IF gap = NoItems THEN plans = <<>> /\ InFlight({"risk", "methodology"})
           ELSE /\ InFlight({"plan", "item", "consolidate", "soa"})
                /\ \E w \in Workers : req[w] = Idle \/ req[w].op # "item"
                /\ \A c \in Controls :
                       /\ gap[c] = [applicable |-> TRUE, justified |-> FALSE]
                       /\ soaItems[c] # NoRow =>
                              soaItems[c].links = {} /\ "risk_treatment" \notin soaItems[c].reasons
                /\ \A w \in Workers : Serving(w, {"item"}) => "risk_treatment" \notin req[w].row.reasons

Threads == Permutations({w1, w2})
=============================================================================
