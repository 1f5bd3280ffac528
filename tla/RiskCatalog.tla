----------------------------- MODULE RiskCatalog -----------------------------
(***************************************************************************)
(* The catalogues of threats and of vulnerabilities an organization adopts *)
(* from the platform's seed and completes with items of its own, next to   *)
(* the register of assets, on the same threads.                            *)
(*                                                                         *)
(* The seeds of both come with the deployed release; their tables are      *)
(* filled together by the first adoption of either after a deployment, in  *)
(* its transaction.                                                        *)
(***************************************************************************)
EXTENDS Assets

CONSTANTS
    Seeds,          \* the seed codes of each release, the same for both kinds
    MaxCustom       \* bound of the model: items of the organization's own

Kinds == {"threat", "vulnerability"}

SeedCodes == UNION {Seeds[r] : r \in DOMAIN Seeds}

ASSUME SeedAssumption ==
    /\ Seeds \in Seq(SUBSET SeedCodes) /\ Seeds # <<>>
    /\ \A q, r \in DOMAIN Seeds : q <= r => Seeds[q] \subseteq Seeds[r]
    /\ MaxCustom \in Nat

VARIABLES
    release,        \* the deployed one
    seeded,         \* threat_seed_item and vulnerability_seed_item
    adopted,        \* org_threat, org_vulnerability: copies of the seed
    custom,         \* and the organization's own, as they were committed
    exposed         \* asset_threat_link, asset_vulnerability_link

catalogVars == <<release, seeded, adopted, custom, exposed>>
vars == <<assetVars, catalogVars, req>>

CatalogRows == [edited : BOOLEAN, archived : BOOLEAN]

ASSUME NullAssumption == NoRow \notin CatalogRows \cup ItemRows

NewRow == [edited |-> FALSE, archived |-> FALSE]

CatalogRequests ==
    [op : {"adopt"}, kind : Kinds, load : SUBSET SeedCodes, add : SUBSET SeedCodes]
        \cup [op : {"custom"}, kind : Kinds, number : Nat]
        \cup [op : {"edit", "shelve"}, kind : Kinds, code : SeedCodes]
        \cup [op : {"expose"}, kind : Kinds, code : SeedCodes, item : Items]

\* The type invariant of register and catalogues.
TypeOK ==
    /\ AssetTypeOK
    /\ release \in DOMAIN Seeds
    /\ seeded \in SUBSET SeedCodes
    /\ adopted \in [Kinds -> [SeedCodes -> CatalogRows \cup {NoRow}]]
    /\ custom \in [Kinds -> Seq(Nat \ {0})]
    /\ exposed \in [Kinds -> SUBSET (SeedCodes \X Items)]
    /\ req \in [Workers -> ItemRequests \cup CatalogRequests \cup {Idle}]

Init ==
    /\ AssetInit
    /\ release = 1
    /\ seeded = {}
    /\ adopted = [k \in Kinds |-> [c \in SeedCodes |-> NoRow]]
    /\ custom = [k \in Kinds |-> <<>>]
    /\ exposed = [k \in Kinds |-> {}]
    /\ req = [w \in Workers |-> Idle]

ServingCatalog(w, op) == req[w] # Idle /\ req[w].op = op

BeginOnCatalog(w, r) ==
    /\ req[w] = Idle
    /\ req' = [req EXCEPT ![w] = r]
    /\ UNCHANGED catalogVars

AnswerCatalog(w) == req' = [req EXCEPT ![w] = Idle]

----------------------------------------------------------------------------
(* Adoption.                                                               *)

Copied(k) == {c \in SeedCodes : adopted[k][c] # NoRow}

\* load_seed adds what the tables lack of the release.
Unloaded == Seeds[release] \ seeded

\* Fault: only what this adoption loads is copied.
JustLoaded(k) == Unloaded

\* The adoption adds what the copy lacks of its table.
Lacking(k) == (seeded \cup Unloaded) \ Copied(k)

BeginAdopt(w, k) ==
    BeginOnCatalog(w, [op |-> "adopt", kind |-> k, load |-> Unloaded, add |-> Lacking(k)])

\* Fault: codes another adoption has added are skipped, and overwritten.
NoKeys(k, load, add) == TRUE

\* The unique keys of the seed tables and of the copy admit every row.
UniqueKeys(k, load, add) == load \cap seeded = {} /\ add \cap Copied(k) = {}

\* All the rows, or none and a 409.
CommitAdopt(w) ==
    /\ ServingCatalog(w, "adopt")
    /\ LET r == req[w]
       IN  IF UniqueKeys(r.kind, r.load, r.add)
           THEN /\ seeded' = seeded \cup r.load
                /\ adopted' = [adopted EXCEPT ![r.kind] =
                       [c \in SeedCodes |-> IF c \in r.add THEN NewRow ELSE @[c]]]
           ELSE UNCHANGED <<seeded, adopted>>
    /\ AnswerCatalog(w)
    /\ UNCHANGED <<release, custom, exposed>>

----------------------------------------------------------------------------
(* Items.                                                                  *)

\* Fault: the first number is 0.
CountFromZero(k) == Len(custom[k])

\* _next_custom_code: one more than the custom items there are.
NextCustomCode(k) == Len(custom[k]) + 1

BeginCustom(w, k) ==
    /\ Len(custom[k]) < MaxCustom
    /\ BeginOnCatalog(w, [op |-> "custom", kind |-> k, number |-> NextCustomCode(k)])

\* Fault: codes have no unique key.
NoNumberKey(k, number) == TRUE

\* uq_org_threat_tenant_code, uq_org_vulnerability_tenant_code.
UniqueNumber(k, number) == \A n \in DOMAIN custom[k] : custom[k][n] # number

\* create_threat and create_vulnerability, or a 409.
CommitCustom(w) ==
    /\ ServingCatalog(w, "custom")
    /\ LET k == req[w].kind
           number == req[w].number
       IN  custom' = IF UniqueNumber(k, number) THEN [custom EXCEPT ![k] = Append(@, number)]
                     ELSE custom
    /\ AnswerCatalog(w)
    /\ UNCHANGED <<release, seeded, adopted, exposed>>

\* update_threat; vulnerabilities are not edited.
BeginEdit(w, c) ==
    /\ c \in Copied("threat")
    /\ BeginOnCatalog(w, [op |-> "edit", kind |-> "threat", code |-> c])

\* archive_item, of either kind.
BeginShelve(w, k, c) ==
    /\ c \in Copied(k)
    /\ BeginOnCatalog(w, [op |-> "shelve", kind |-> k, code |-> c])

\* Only the columns that change are written.
CommitItem(w) ==
    /\ ServingCatalog(w, "edit") \/ ServingCatalog(w, "shelve")
    /\ LET r == req[w]
       IN  adopted' = IF r.op = "edit" THEN [adopted EXCEPT ![r.kind][r.code].edited = TRUE]
                      ELSE [adopted EXCEPT ![r.kind][r.code].archived = TRUE]
    /\ AnswerCatalog(w)
    /\ UNCHANGED <<release, seeded, custom, exposed>>

\* link_threat_asset and link_vulnerability_asset, unless the link is there.
BeginExpose(w, k, c, i) ==
    /\ c \in Copied(k) /\ items[i] # NoRow
    /\ <<c, i>> \notin exposed[k]
    /\ BeginOnCatalog(w, [op |-> "expose", kind |-> k, code |-> c, item |-> i])

\* The unique key answers 409 to a link that has been drawn meanwhile.
CommitExpose(w) ==
    /\ ServingCatalog(w, "expose")
    /\ exposed' = [exposed EXCEPT ![req[w].kind] = @ \cup {<<req[w].code, req[w].item>>}]
    /\ AnswerCatalog(w)
    /\ UNCHANGED <<release, seeded, adopted, custom>>

GiveUpOnCatalog(w) ==
    /\ \E op \in {"adopt", "custom", "edit", "shelve", "expose"} : ServingCatalog(w, op)
    /\ AnswerCatalog(w)
    /\ UNCHANGED catalogVars

CatalogStep(w) ==
    \/ \E k \in Kinds : \/ BeginAdopt(w, k) \/ BeginCustom(w, k)
                        \/ \E c \in SeedCodes : \/ BeginShelve(w, k, c)
                                               \/ \E i \in Items : BeginExpose(w, k, c, i)
    \/ \E c \in SeedCodes : BeginEdit(w, c)
    \/ CommitAdopt(w) \/ CommitCustom(w) \/ CommitItem(w) \/ CommitExpose(w) \/ GiveUpOnCatalog(w)

\* A new release: the process restarts and what was in flight is rolled back.
Deploy ==
    /\ release < Len(Seeds)
    /\ release' = release + 1
    /\ req' = [w \in Workers |-> Idle]
    /\ UNCHANGED <<assetVars, seeded, adopted, custom, exposed>>

\* Another organization adopts: the seeds' tables are the platform's.
OtherAdopts ==
    /\ seeded' = seeded \cup Unloaded
    /\ UNCHANGED <<assetVars, release, adopted, custom, exposed, req>>

Next ==
    \/ \E w \in Workers :
           \/ AssetStep(w) /\ UNCHANGED catalogVars
           \/ CatalogStep(w) /\ UNCHANGED assetVars
    \/ Deploy
    \/ OtherAdopts

Spec == Init /\ [][Next]_vars

----------------------------------------------------------------------------
(* Properties: what no interleaving breaks.                                *)

\* The copy of the seed is the whole seed of some release, or empty: however
\* adoptions overlap, fail and follow deployments, none is half done.
CopyIsWhole ==
    \A k \in Kinds : Copied(k) \in {{}} \cup {Seeds[r] : r \in 1 .. release}

\* An adoption is additive: it leaves what the organization edited and
\* archived as it is, and nothing takes an item out of the copy, back from the
\* archive or off the assets it was linked to.
AdoptionPreserves ==
    [][\A k \in Kinds :
           /\ exposed[k] \subseteq exposed'[k]
           /\ \A c \in Copied(k) :
                  /\ adopted'[k][c] # NoRow
                  /\ adopted[k][c].edited => adopted'[k][c].edited
                  /\ adopted[k][c].archived => adopted'[k][c].archived]_vars

\* The organization's own items are numbered 1, 2, 3, ... in the order they
\* are committed: counting them is enough because none is ever deleted.
CustomInOrder == \A k \in Kinds : \A n \in DOMAIN custom[k] : custom[k][n] = n

\* An organization's catalogue: its copy of the seed and its own items.
CatalogIsWhole == CopyIsWhole /\ CustomInOrder

\* The history tells every item and every link as it is.
HistoryTellsAll == HistoryIsCurrent /\ LinksAreTold

\* Codes tell items apart, and every row satisfies the rules that its
\* creation, its updates and its archiving each test on what they loaded.
RegisterIsSound ==
    /\ TypeOK
    /\ CodesAreUnique
    /\ ItemsAreConsistent
    /\ DuplicatesAreExcused

=============================================================================
