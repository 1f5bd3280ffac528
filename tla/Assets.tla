------------------------------- MODULE Assets -------------------------------
(***************************************************************************)
(* The register of assets and processes of one organization: items with an *)
(* internal code, a classification and a situation in the scope, their     *)
(* links to each other and to items of the gap catalog, and their history. *)
(*                                                                         *)
(* A handler loads the rows it works on, checks, and commits once; an      *)
(* UPDATE writes the columns that differ from the loaded ones.  The three  *)
(* columns of the classification (confidentiality, integrity and           *)
(* availability) are one here: their greatest level, or none if one is     *)
(* missing.                                                                *)
(***************************************************************************)
EXTENDS RequestThreads, Integers, Sequences, FiniteSets, FiniteSetsExt

CONSTANTS
    Items,              \* ids of items
    Gaps,               \* items of the gap catalog
    Relations,          \* types of relationship
    Types,              \* types of item
    ItemNames,          \* names of items
    Classes,            \* levels of classification
    Forms,              \* what a request may send of an item
    MaxLinks,           \* bound of the model: links ever drawn
    NoLevel             \* null level

VARIABLES
    items,          \* asset_items
    links,          \* asset_relationships and asset_gap_links, by their unique keys: an id, or 0
    drawnLinks,     \* ids of links drawn so far
    history,        \* asset_item_events: what they, from the creation on, tell of an item
    linksTold,      \* and how many more of its links to a target they add than remove
    itemsOverlapped     \* two requests on the register were in flight at once (history)

assetVars == <<items, links, drawnLinks, history, linksTold, itemsOverlapped>>

----------------------------------------------------------------------------
(* Data.                                                                   *)

Scopes == {"in_scope", "out_of_scope", "under_analysis"}

Levels == Classes \cup {NoLevel}

\* The body of a request.  "duplicate" stands for allow_duplicate with a
\* reason; "criticality" is what is asked for by hand.
Bodies == [type : Types, name : ItemNames, scope : Scopes, justified : BOOLEAN,
           responsible : BOOLEAN, class : Levels, criticality : Levels,
           manual : BOOLEAN, archived : BOOLEAN, reason : BOOLEAN, duplicate : BOOLEAN]

ASSUME AssetAssumption ==
    /\ Forms \subseteq Bodies
    /\ \A b \in Forms : b.duplicate => b.reason
    /\ IsFiniteSet(Relations)
    /\ NoRow \notin Levels
    /\ MaxLinks \in Nat

\* "excused": the request that wrote the row justified a duplicate name.
ItemRows == [type : Types, name : ItemNames, scope : Scopes, justified : BOOLEAN,
             responsible : BOOLEAN, class : Levels, criticality : Levels,
             manual : BOOLEAN, archived : BOOLEAN, excused : BOOLEAN,
             code : Types \X (Nat \ {0})]

\* The event of the creation tells the scope of the item and not the criticality
\* it was "created" with; of the criticality, nothing is told until it changes.
Told == [scope : Scopes, created : Levels, criticality : Levels \cup {NoRow}]

Targets == Items \cup Gaps

\* What the unique key of a link tells apart between an item and a target.
Ties == Relations \cup {"gap"}

LinkKeys == Items \X Targets \X Ties

ItemRequests ==
    [op : {"create"}, step : {"checked", "coded"}, item : Items, row : ItemRows \cup {NoRow}, body : Forms]
        \cup [op : {"update", "archive"}, item : Items, loaded : ItemRows, row : ItemRows]
        \cup [op : {"unlink"}, item : Items, target : Targets, tie : Ties, link : Nat]

AssetTypeOK ==
    /\ items \in [Items -> ItemRows \cup {NoRow}]
    /\ links \in [LinkKeys -> 0 .. drawnLinks]
    /\ drawnLinks \in 0 .. MaxLinks
    /\ history \in [Items -> Told \cup {NoRow}]
    /\ linksTold \in [Items \X Targets -> Int]
    /\ itemsOverlapped \in BOOLEAN

AssetInit ==
    /\ items = [i \in Items |-> NoRow]
    /\ links = [l \in LinkKeys |-> 0]
    /\ drawnLinks = 0
    /\ history = [i \in Items |-> NoRow]
    /\ linksTold = [p \in Items \X Targets |-> 0]
    /\ itemsOverlapped = FALSE

OnItems(v) == req[v] # Idle /\ req[v].op \in {"create", "update", "archive", "unlink"}

ServingItem(w, op) == OnItems(w) /\ req[w].op = op

ItemOverlap(w) ==
    itemsOverlapped' = (itemsOverlapped \/ \E v \in Workers \ {w} : OnItems(v))

BeginOnItems(w, r) ==
    /\ req[w] = Idle
    /\ req' = [req EXCEPT ![w] = r]
    /\ ItemOverlap(w)
    /\ UNCHANGED <<items, links, drawnLinks, history, linksTold>>

FinishOnItems(w) == req' = [req EXCEPT ![w] = Idle] /\ UNCHANGED itemsOverlapped

----------------------------------------------------------------------------
(* Checks.                                                                 *)

\* Fault: a classification is not asked for.
ScopeWithoutClass(b) ==
    /\ b.scope = "in_scope" => b.responsible
    /\ b.scope = "out_of_scope" => b.justified

\* validate_scope.
ValidScope(b) ==
    /\ b.scope = "in_scope" => b.responsible /\ b.class # NoLevel
    /\ b.scope = "out_of_scope" => b.justified

SameName(i, type, name) ==
    {j \in Items \ {i} : items[j] # NoRow /\ items[j].type = type /\ items[j].name = name}

\* Fault: on an update, only a new name is looked for.
CheckIfRenamed(i, b) ==
    SameName(i, b.type, b.name) = {} \/ b.duplicate \/ (items[i] # NoRow /\ items[i].name = b.name)

\* check_duplicate, on create (no row yet) and on update.
CheckDuplicate(i, b) == SameName(i, b.type, b.name) = {} \/ b.duplicate

\* Fault: what was set by hand stays when it is no longer asked for.
CriticalityOfBody(b) == IF b.criticality # NoLevel THEN b.criticality ELSE b.class

\* _resolve_criticality.
Criticality(b) == IF b.manual /\ b.criticality # NoLevel THEN b.criticality ELSE b.class

RowOf(b, code) ==
    [type |-> b.type, name |-> b.name, scope |-> b.scope, justified |-> b.justified,
     responsible |-> b.responsible, class |-> b.class, criticality |-> Criticality(b),
     manual |-> b.manual /\ b.criticality # NoLevel, archived |-> b.archived,
     excused |-> b.duplicate, code |-> code]

----------------------------------------------------------------------------
(* Items.                                                                  *)

BeginCreate(w, i, b) ==
    /\ items[i] = NoRow
    /\ ValidScope(b)
    /\ CheckDuplicate(i, b)
    /\ BeginOnItems(w, [op |-> "create", step |-> "checked", item |-> i, row |-> NoRow, body |-> b])

\* generate_code: one more than the items that have the type now carry,
\* whatever type their codes were given for.
NextCode(type) ==
    <<type, Max({items[i].code[2] : i \in {j \in Items : items[j] # NoRow /\ items[j].type = type}}
                    \cup {0}) + 1>>

GenerateCode(w) ==
    /\ ServingItem(w, "create") /\ req[w].step = "checked"
    /\ req' = [req EXCEPT ![w].step = "coded",
                          ![w].row = RowOf(req[w].body, NextCode(req[w].body.type))]
    /\ UNCHANGED assetVars

\* Fault: codes have no unique key.
NoCodeKey(code) == TRUE

\* uq_asset_items_tenant_code admits the row.
UniqueCode(code) == \A i \in Items : items[i] # NoRow => items[i].code # code

CommitCreate(w) ==
    /\ ServingItem(w, "create") /\ req[w].step = "coded"
    /\ LET i == req[w].item
           row == req[w].row
       IN  IF items[i] = NoRow /\ UniqueCode(row.code)
           THEN /\ items' = [items EXCEPT ![i] = row]
                /\ history' = [history EXCEPT ![i] =
                       [scope |-> row.scope, created |-> row.criticality, criticality |-> NoRow]]
           ELSE UNCHANGED <<items, history>>
    /\ FinishOnItems(w)
    /\ UNCHANGED <<links, drawnLinks, linksTold>>

\* diff_and_log lets the request go on: leaving the scope and changing the
\* criticality take a reason.
Explained(old, row, b) ==
    /\ row.scope = "out_of_scope" /\ old.scope # "out_of_scope" => b.reason
    /\ row.criticality # old.criticality => b.reason

BeginUpdate(w, i, b) ==
    /\ items[i] # NoRow
    /\ ValidScope(b)
    /\ CheckDuplicate(i, b)
    /\ LET row == RowOf(b, items[i].code)
       IN  /\ Explained(items[i], row, b)
           /\ BeginOnItems(w, [op |-> "update", item |-> i, loaded |-> items[i], row |-> row])

\* An UPDATE of the row that was loaded.
Changed(current, loaded, new) ==
    [c \in DOMAIN current |-> IF new[c] = loaded[c] THEN current[c] ELSE new[c]]

\* Fault: what was manual before is not told.
ToldIfComputed(told, loaded, new) ==
    [told EXCEPT
        !.scope = IF new.scope = loaded.scope \/ loaded.manual THEN @ ELSE new.scope,
        !.criticality = IF new.criticality = loaded.criticality \/ loaded.manual THEN @
                        ELSE new.criticality]

\* The events diff_and_log adds.
DiffAndLog(told, loaded, new) ==
    [told EXCEPT
        !.scope = IF new.scope = loaded.scope THEN @ ELSE new.scope,
        !.criticality = IF new.criticality = loaded.criticality THEN @ ELSE new.criticality]

CommitUpdate(w) ==
    /\ ServingItem(w, "update")
    /\ LET r == req[w]
       IN  /\ items' = [items EXCEPT ![r.item] = Changed(@, r.loaded, r.row)]
           /\ history' = [history EXCEPT ![r.item] = DiffAndLog(@, r.loaded, r.row)]
    /\ FinishOnItems(w)
    /\ UNCHANGED <<links, drawnLinks, linksTold>>

BeginArchive(w, i) ==
    /\ items[i] # NoRow
    /\ BeginOnItems(w, [op |-> "archive", item |-> i, loaded |-> items[i],
                        row |-> [items[i] EXCEPT !.archived = TRUE]])

CommitArchive(w) ==
    /\ ServingItem(w, "archive")
    /\ LET r == req[w]
       IN  items' = [items EXCEPT ![r.item] = Changed(@, r.loaded, r.row)]
    /\ FinishOnItems(w)
    /\ UNCHANGED <<links, drawnLinks, history, linksTold>>

----------------------------------------------------------------------------
(* Links.                                                                  *)

\* Two requests that add the same link are served one after the other by its
\* unique key, and the later is answered 409 as if it had read the link.
AddLink(w, i, target, tie) ==
    /\ req[w] = Idle
    /\ items[i] # NoRow
    /\ links[<<i, target, tie>>] = 0
    /\ drawnLinks < MaxLinks
    /\ drawnLinks' = drawnLinks + 1
    /\ links' = [links EXCEPT ![<<i, target, tie>>] = drawnLinks']
    /\ linksTold' = [linksTold EXCEPT ![<<i, target>>] = @ + 1]
    /\ ItemOverlap(w)
    /\ UNCHANGED <<items, history, req>>

AddRelationship(w, i, j, type) == i # j /\ items[j] # NoRow /\ AddLink(w, i, j, type)

AddGapLink(w, i, g) == AddLink(w, i, g, "gap")

BeginUnlink(w, i, target, tie) ==
    /\ links[<<i, target, tie>>] # 0
    /\ BeginOnItems(w, [op |-> "unlink", item |-> i, target |-> target, tie |-> tie,
                        link |-> links[<<i, target, tie>>]])

\* Fault: the removal of a relationship is not told.
UntoldForItems(told, i, target) ==
    IF target \in Items THEN told ELSE [told EXCEPT ![<<i, target>>] = @ - 1]

\* The event names the item at the other end, not the type of the relationship.
ToldRemoved(told, i, target) == [told EXCEPT ![<<i, target>>] = @ - 1]

\* The DELETE names the link by its id; it may be gone, and is told again.
CommitUnlink(w) ==
    /\ ServingItem(w, "unlink")
    /\ LET r == req[w]
           l == <<r.item, r.target, r.tie>>
       IN  /\ links' = IF links[l] = r.link THEN [links EXCEPT ![l] = 0] ELSE links
           /\ linksTold' = ToldRemoved(linksTold, r.item, r.target)
    /\ FinishOnItems(w)
    /\ UNCHANGED <<items, drawnLinks, history>>

RemoveRelationship(w) == CommitUnlink(w) /\ req[w].target \in Items

RemoveGapLink(w) == CommitUnlink(w) /\ req[w].target \in Gaps

\* An error, or the end of the process: the transaction is rolled back.
GiveUpOnItems(w) ==
    /\ OnItems(w)
    /\ FinishOnItems(w)
    /\ UNCHANGED <<items, links, drawnLinks, history, linksTold>>

AssetStep(w) ==
    \/ \E i \in Items :
           \/ \E b \in Forms : BeginCreate(w, i, b) \/ BeginUpdate(w, i, b)
           \/ BeginArchive(w, i)
           \/ \E j \in Items, type \in Relations : AddRelationship(w, i, j, type)
           \/ \E g \in Gaps : AddGapLink(w, i, g)
           \/ \E target \in Targets, tie \in Ties : BeginUnlink(w, i, target, tie)
    \/ GenerateCode(w) \/ CommitCreate(w) \/ CommitUpdate(w) \/ CommitArchive(w)
    \/ RemoveRelationship(w) \/ RemoveGapLink(w) \/ GiveUpOnItems(w)

----------------------------------------------------------------------------
(* Properties.                                                             *)

\* Codes are unique, whatever the races for a number and whatever types items
\* take after their code was given.
CodesAreUnique ==
    \A i, j \in Items : i # j /\ items[i] # NoRow /\ items[j] # NoRow => items[i].code # items[j].code

\* In any interleaving, the history's last word on an item's situation in the
\* scope is what the row says, and so is its last word on the criticality; an
\* item of whose criticality nothing was told still has the one it was created
\* with.  Every UPDATE that writes one of these columns commits the event that
\* tells it.
HistoryIsCurrent ==
    \A i \in Items : items[i] # NoRow =>
        LET told == history[i]
        IN  /\ told.scope = items[i].scope
            /\ items[i].criticality =
                   IF told.criticality = NoRow THEN told.created ELSE told.criticality

\* As long as requests do not overlap, an item in the scope has a responsible
\* and a classification, an item out of it a justification, and a criticality
\* not set by hand is the greatest level of the classification.  Two requests
\* that each write some of these columns may leave any combination.
ItemsAreConsistent ==
    ~itemsOverlapped => \A i \in Items : items[i] # NoRow =>
        LET row == items[i]
        IN  /\ row.scope = "in_scope" => row.responsible /\ row.class # NoLevel
            /\ row.scope = "out_of_scope" => row.justified
            /\ ~row.manual => row.criticality = row.class

\* As long as requests do not overlap, of two items of one type and name one
\* was saved with a justified duplicate (FR-033), even when the types or the
\* names met later.  No unique key says so.
DuplicatesAreExcused ==
    ~itemsOverlapped => \A i, j \in Items :
        i # j /\ items[i] # NoRow /\ items[j] # NoRow /\ items[i].type = items[j].type
              /\ items[i].name = items[j].name
            => items[i].excused \/ items[j].excused

\* The links between an item and a target.
Tied(p) == {tie \in Ties : links[<<p[1], p[2], tie>>] # 0}

\* As long as requests do not overlap, the history tells of as many links from
\* an item to a target as there are: which of several relationships is left it
\* does not tell, because a removal names the target only.  A second removal of
\* a link that is gone tells a removal that did not happen.
LinksAreTold ==
    ~itemsOverlapped => \A p \in Items \X Targets : linksTold[p] = Cardinality(Tied(p))

=============================================================================
