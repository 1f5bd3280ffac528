---------------------------- MODULE MCRiskCatalog ----------------------------
EXTENDS RiskCatalog, TLC

CONSTANTS w1, w2, i1, i2, g1, ta, tb, n1, low, high, s1, s2, ra, rb

Plain == [type |-> ta, name |-> n1, scope |-> "under_analysis", justified |-> FALSE,
          responsible |-> FALSE, class |-> NoLevel, criticality |-> high,
          manual |-> FALSE, archived |-> FALSE, reason |-> TRUE, duplicate |-> TRUE]

InScope == [Plain EXCEPT !.scope = "in_scope", !.responsible = TRUE, !.class = high]

\* Of each rule one body that meets it and one that does not.
SomeForms == {
    Plain,
    InScope,
    [InScope EXCEPT !.type = tb],
    [InScope EXCEPT !.class = NoLevel],
    [InScope EXCEPT !.type = tb, !.reason = FALSE, !.duplicate = FALSE],
    [Plain EXCEPT !.scope = "out_of_scope", !.justified = TRUE, !.class = low,
                  !.manual = TRUE, !.archived = TRUE]}

TwoSeeds == <<{s1}, {s1, s2}>>

Threads == Permutations({w1, w2}) \cup Permutations({i1, i2})
               \cup Permutations({ra, rb})

NoAssets == \A i \in Items : items[i] = NoRow

NoLinks == drawnLinks = 0

NoCustom(k) ==
    custom[k] = <<>> /\ \A w \in Workers : ServingCatalog(w, "custom") => req[w].kind # k

NoCopies == seeded = {} /\ \A k \in Kinds : Copied(k) = {}

NoCatalog == release = 1 /\ NoCopies /\ \A k \in Kinds : NoCustom(k)

NoneEdited ==
    /\ release = 1 /\ \A k \in Kinds : NoCustom(k)
    /\ \A k \in Kinds : \A c \in Copied(k) : adopted[k][c] = NewRow

\* Items that were created plain and never updated.
PlainItems ==
    \A i \in Items : items[i] # NoRow =>
        items[i] = RowOf(Plain, items[i].code) /\ history[i].created = items[i].criticality
                                              /\ history[i].criticality = NoRow

\* What the request has read is still so.
Fresh(w) ==
    /\ OnItems(w) /\ req[w].op \in {"update", "archive"} => req[w].loaded = items[req[w].item]
    /\ ServingItem(w, "create") /\ req[w].step = "coded" =>
           req[w].row.code = NextCode(req[w].row.type)

\* Register, copies of the seeds and custom items share no row, nor do the
\* custom threats and the custom vulnerabilities, and links read nothing of an
\* item but that it is there: each is explored in full while the others rest.
\* What is stated of overlapping requests on items is about codes and history:
\* once two have overlapped they are followed to their end, and nothing that
\* begins next to a request that is out of date.
Explored ==
    \/ /\ NoAssets /\ \A w \in Workers : ~OnItems(w)
       /\ \/ \A k \in Kinds : NoCustom(k)
          \/ NoCopies /\ \E k \in Kinds : NoCustom(k)
    \/ /\ NoCatalog /\ NoLinks
       /\ \A w \in Workers : req[w] # Idle => OnItems(w)
       /\ itemsOverlapped =>
              \/ \A w \in Workers : req[w] # Idle /\ Fresh(w)
              \/ Cardinality({w \in Workers : req[w] # Idle}) = 1
    \/ /\ NoCatalog
       /\ PlainItems
       /\ \A w \in Workers : req[w] # Idle => ServingItem(w, "unlink")
    \/ /\ NoneEdited /\ NoLinks /\ PlainItems
       /\ \A w \in Workers :
              req[w] # Idle => ServingCatalog(w, "adopt") \/ ServingCatalog(w, "expose")
=============================================================================
