---------------------------- MODULE MCGapAnalysis ----------------------------
EXTENDS GapAnalysis, TLC

CONSTANTS w1, w2, v1, v2, c1, c2, a1, t1

\* Three texts: one the seeding before the guidance leaves empty, one not.
Guided == {<<"seed_item", "objetivo">>, <<"seed_item", "referencia">>, <<"legend", "definition">>}

\* The second release drops c1 and brings c2, which the organization may have
\* added itself.
TwoReleases == v1 :> {c1} @@ v2 :> {c2}

AsAdopted == {NoRow, [status |-> "not_filled", justified |-> FALSE]}

Untouched ==
    /\ catalog = Nothing /\ assessment = NoRow /\ crashes = 0
    /\ \A w \in Workers : req[w] # Idle => AboutGuidance(w)

\* One of the items is edited.  What is stated of overlapping requests is about
\* assignments: once two have overlapped, edits, crashes and further adoptions
\* are not followed; nor, once a request has died, is what comes after the
\* second baseline.
AnalysisExplored ==
    /\ items[c2] \in AsAdopted
    /\ \A w \in Workers : req[w] # Idle => req[w].ref # c2
    /\ crashes > 0 => Len(baselines) < MaxBaselines
    /\ overlapped =>
        /\ crashes = 0
        /\ items[c1] \in AsAdopted
        /\ \A w \in Workers : req[w] # Idle =>
               assessment = NoRow \/ req[w].op \in {"move", "sign", "approve"}

\* The platform's content is explored on its own, until two requests overlap,
\* and the analysis while it is not loaded: neither reads the other.
Explored ==
    \/ Untouched /\ Serial
    \/ /\ content = [f \in Fields |-> NoRow]
       /\ \A w \in Workers : ~AboutGuidance(w)
       /\ AnalysisExplored
=============================================================================
