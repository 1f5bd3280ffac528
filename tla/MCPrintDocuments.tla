-------------------------- MODULE MCPrintDocuments --------------------------
EXTENDS PrintDocuments, TLC

CONSTANTS w1, w2, c1, c2, t1, k1

Symmetry == Permutations({w1, w2}) \cup Permutations({c1, c2})

NothingPrinted ==
    /\ drawn = 0 /\ ~suspended
    /\ \A w \in Workers : req[w] # Idle => AboutTemplates(w)

OnlyTheSystems ==
    /\ system = 1 /\ ~overlapped /\ templates[t1] = NoRow /\ catalog[k1] = NoRow
    /\ suspended => Len(previews) <= 1

Unread ==
    /\ \A e \in log : e.event \in {"preview_created", "placement_confirmed", "signed"}
    /\ \A w \in Workers : At(w, Readings, "loaded") => \A v \in Workers \ {w} : req[v] = Idle

\* Templates are explored in full until something is printed, documents in
\* full with the system's template (the organization is suspended before the
\* second preview only), and both together while nothing overlaps
\* and at most one document is signed.  One reading is followed to its end,
\* after each of these.
Explored ==
    \/ NothingPrinted
    \/ OnlyTheSystems /\ Unread /\ \A w \in Workers : ~AboutTemplates(w)
    \/ /\ catalog[k1] = NoRow /\ ~overlapped /\ ~suspended /\ Unread
       /\ \E w \in Workers : req[w] = Idle
       /\ Len(previews) <= 1 /\ placements = {} /\ drawn <= 2
    \/ \E w \in Workers : At(w, Readings, "logged") /\ \A v \in Workers \ {w} : req[v] = Idle
=============================================================================
