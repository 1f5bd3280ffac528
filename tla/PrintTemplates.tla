--------------------------- MODULE PrintTemplates ---------------------------
(***************************************************************************)
(* The templates one organization may print a type of document with: its   *)
(* own, in versions, the system's, and the catalog of variables a version  *)
(* may use.                                                                *)
(*                                                                         *)
(* A handler loads the rows it works on, and an UPDATE writes the columns  *)
(* that differ from the loaded ones.  A flushed row is invisible to other  *)
(* transactions, but its unique key is theirs to wait for: an INSERT of    *)
(* the same key blocks until the first transaction ends and is answered    *)
(* 409 if that one committed.                                              *)
(***************************************************************************)
EXTENDS Integers, Sequences, FiniteSets, FiniteSetsExt

CONSTANTS
    Workers,            \* request threads
    Names,              \* names of the organization's templates
    Keys,               \* keys of the organization's variables
    MaxVersions,        \* bound of the model: versions of a template
    System,             \* the version of the system's template in the code
    NoRow, Idle         \* no row; no request

ASSUME TemplateAssumption == MaxVersions \in Nat

VARIABLES
    system,         \* how many rows the system's template has
    templates,      \* print_templates and print_template_versions
    catalog,        \* print_template_variables
    overlapped,     \* two requests about templates were in flight at once (history)
    req             \* the request each thread is serving

templateVars == <<system, templates, catalog, overlapped>>

----------------------------------------------------------------------------
(* Data.                                                                   *)

Versions == [number : Nat, uses : SUBSET Keys]

Templates == [status : {"draft", "active"}, current : Nat, versions : Seq(Versions)]

Variables == [active : BOOLEAN, required : BOOLEAN, optional : BOOLEAN]

\* What can be printed with.
Printables == {System} \cup (Names \X Nat)

TemplateRequests ==
    [op : {"seed"}]
        \cup [op : {"template"}, name : Names]
        \cup [op : {"version"}, step : {"loaded", "numbered", "flushed"}, name : Names,
              loaded : Nat, number : Nat, uses : SUBSET Keys]
        \cup [op : {"activate"}, name : Names, loaded : Nat, number : Nat]
        \cup [op : {"variable", "patch"}, key : Keys,
              loaded : Variables \cup {NoRow}, row : Variables]

TemplateTypeOK ==
    /\ system \in Nat
    /\ templates \in [Names -> Templates \cup {NoRow}]
    /\ catalog \in [Keys -> Variables \cup {NoRow}]
    /\ overlapped \in BOOLEAN

TemplateInit ==
    /\ system = 0
    /\ templates = [n \in Names |-> NoRow]
    /\ catalog = [k \in Keys |-> NoRow]
    /\ overlapped = FALSE

Serving(w, op) == req[w] # Idle /\ req[w].op = op

AboutTemplates(v) ==
    req[v] # Idle /\ req[v].op \in {"seed", "template", "version", "activate", "variable", "patch"}

Overlap(w) == overlapped' = (overlapped \/ \E v \in Workers \ {w} : AboutTemplates(v))

BeginOnTemplates(w, r) ==
    /\ req[w] = Idle
    /\ req' = [req EXCEPT ![w] = r]
    /\ Overlap(w)
    /\ UNCHANGED <<system, templates, catalog>>

StepOnTemplates(w, r) ==
    /\ req' = [req EXCEPT ![w] = r]
    /\ UNCHANGED templateVars

Finish(w) == req' = [req EXCEPT ![w] = Idle] /\ UNCHANGED overlapped

\* An error, or the end of the process: the transaction is rolled back.
GiveUp(w) == Finish(w) /\ UNCHANGED <<system, templates, catalog>>

----------------------------------------------------------------------------
(* The system's template.                                                  *)

\* ensure_system_templates finds no row.
Unseeded == system = 0

\* Every handler that asks for templates seeds first, and commits that.
BeginSeed(w) == Unseeded /\ BeginOnTemplates(w, [op |-> "seed"])

\* No unique key stops a second row: its tenant_id is NULL.
CommitSeed(w) ==
    /\ Serving(w, "seed")
    /\ system' = system + 1
    /\ Finish(w)
    /\ UNCHANGED <<templates, catalog>>

----------------------------------------------------------------------------
(* The organization's templates.                                           *)

BeginTemplate(w, n) ==
    /\ ~Unseeded
    /\ templates[n] = NoRow
    /\ BeginOnTemplates(w, [op |-> "template", name |-> n])

\* uq_print_template_tenant_type_name, or a 409.
CommitTemplate(w) ==
    /\ Serving(w, "template")
    /\ LET n == req[w].name
       IN  templates' = IF templates[n] # NoRow THEN templates
                        ELSE [templates EXCEPT ![n] =
                                 [status |-> "draft", current |-> 0, versions |-> <<>>]]
    /\ Finish(w)
    /\ UNCHANGED <<system, catalog>>

\* _validate_catalog_variables lets the version use these.
InCatalog(uses) == \A k \in uses : catalog[k] # NoRow /\ catalog[k].active

BeginVersion(w, n, uses) ==
    /\ templates[n] # NoRow
    /\ Len(templates[n].versions) < MaxVersions
    /\ InCatalog(uses)
    /\ BeginOnTemplates(w, [op |-> "version", step |-> "loaded", name |-> n,
           loaded |-> templates[n].current, number |-> 0, uses |-> uses])

VersionNumbers(n) ==
    IF templates[n] = NoRow THEN {}
    ELSE {templates[n].versions[i].number : i \in DOMAIN templates[n].versions}

\* Fault: the first number is 0.
NextNumberFromZero(n) == Max(VersionNumbers(n) \cup {-1}) + 1

\* _next_version_number, over what is committed.
NextVersionNumber(n) == Max(VersionNumbers(n) \cup {0}) + 1

NumberVersion(w) ==
    /\ Serving(w, "version") /\ req[w].step = "loaded"
    /\ StepOnTemplates(w, [req[w] EXCEPT !.step = "numbered",
                                         !.number = NextVersionNumber(req[w].name)])

\* Another transaction has flushed this key and not ended.
NumberHeld(n, number) ==
    \E v \in Workers : /\ Serving(v, "version") /\ req[v].step = "flushed"
                       /\ req[v].name = n /\ req[v].number = number

\* uq_print_template_version_number.
FlushVersion(w) ==
    /\ Serving(w, "version") /\ req[w].step = "numbered"
    /\ ~NumberHeld(req[w].name, req[w].number)
    /\ IF req[w].number \in VersionNumbers(req[w].name)
       THEN GiveUp(w)
       ELSE StepOnTemplates(w, [req[w] EXCEPT !.step = "flushed"])

\* Fault: the first version waits to be activated.
NotYetCurrent(row, r) == row

\* A template without a current version takes the new one.
FirstIsCurrent(row, r) ==
    IF r.loaded # 0 THEN row
    ELSE [row EXCEPT !.current = r.number, !.status = "active"]

CommitVersion(w) ==
    /\ Serving(w, "version") /\ req[w].step = "flushed"
    /\ LET r == req[w]
           row == templates[r.name]
           added == [row EXCEPT !.versions = Append(@, [number |-> r.number, uses |-> r.uses])]
       IN  templates' = [templates EXCEPT ![r.name] = FirstIsCurrent(added, r)]
    /\ Finish(w)
    /\ UNCHANGED <<system, catalog>>

BeginActivate(w, n, number) ==
    /\ BeginOnTemplates(w, [op |-> "activate", name |-> n,
           loaded |-> templates[n].current, number |-> number])

\* A version that was current when it was loaded writes nothing.
CommitActivate(w) ==
    /\ Serving(w, "activate")
    /\ LET r == req[w]
       IN  templates' = IF r.number = r.loaded THEN templates
                        ELSE [templates EXCEPT ![r.name].current = r.number,
                                               ![r.name].status = "active"]
    /\ Finish(w)
    /\ UNCHANGED <<system, catalog>>

----------------------------------------------------------------------------
(* The catalog of variables.                                               *)

Exclusive(row) == ~(row.required /\ row.optional)

BeginVariable(w, k, row) ==
    /\ catalog[k] = NoRow
    /\ row.active /\ Exclusive(row)
    /\ BeginOnTemplates(w, [op |-> "variable", key |-> k, loaded |-> NoRow, row |-> row])

\* uq_print_template_variable_key, or a 409.
CommitVariable(w) ==
    /\ Serving(w, "variable")
    /\ LET r == req[w]
       IN  catalog' = IF catalog[r.key] # NoRow THEN catalog
                      ELSE [catalog EXCEPT ![r.key] = r.row]
    /\ Finish(w)
    /\ UNCHANGED <<system, templates>>

\* Fault: optional_by_default is checked only if it is sent too.
MayPatchWhatIsSent(old, new) == new.required = old.required \/ new.optional = old.optional \/ Exclusive(new)

\* What update_template_variable compares is the row it will write.  A row
\* that is both, left so by two overlapping requests, may be patched as long
\* as neither flag is sent.
MayPatch(old, new) ==
    \/ Exclusive(new)
    \/ new.required = old.required /\ new.optional = old.optional

LoadVariable(w, k, row) ==
    BeginOnTemplates(w, [op |-> "patch", key |-> k, loaded |-> catalog[k], row |-> row])

BeginPatch(w, k, row) ==
    /\ catalog[k] # NoRow
    /\ row # catalog[k]
    /\ MayPatch(catalog[k], row)
    /\ LoadVariable(w, k, row)

BeginDeactivate(w, k) ==
    /\ catalog[k] # NoRow
    /\ LoadVariable(w, k, [catalog[k] EXCEPT !.active = FALSE])

CommitPatch(w) ==
    /\ Serving(w, "patch")
    /\ LET r == req[w]
       IN  catalog' = [catalog EXCEPT ![r.key] =
               [c \in DOMAIN @ |-> IF r.row[c] = r.loaded[c] THEN @[c] ELSE r.row[c]]]
    /\ Finish(w)
    /\ UNCHANGED <<system, templates>>

TemplateStep(w) ==
    \/ BeginSeed(w) \/ CommitSeed(w)
    \/ \E n \in Names :
           \/ BeginTemplate(w, n)
           \/ \E uses \in SUBSET Keys : BeginVersion(w, n, uses)
           \/ \E number \in VersionNumbers(n) : BeginActivate(w, n, number)
    \/ CommitTemplate(w)
    \/ NumberVersion(w) \/ FlushVersion(w) \/ CommitVersion(w) \/ CommitActivate(w)
    \/ \E k \in Keys, row \in Variables : BeginVariable(w, k, row) \/ BeginPatch(w, k, row)
    \/ \E k \in Keys : BeginDeactivate(w, k)
    \/ CommitVariable(w) \/ CommitPatch(w)

----------------------------------------------------------------------------
(* What is printed with.                                                   *)

ActiveTemplates == {n \in Names : templates[n] # NoRow /\ templates[n].status = "active"}

\* resolve_active_template_version for a request that names no version: one
\* of the organization's active templates (the code takes the one updated
\* last), the system's if it has none.
InForce ==
    IF ActiveTemplates = {} THEN {System}
    ELSE {<<n, templates[n].current>> : n \in ActiveTemplates}

\* Any version may be named.
Printable == InForce \cup {System} \cup UNION {{n} \X VersionNumbers(n) : n \in Names}

----------------------------------------------------------------------------
(* Properties.                                                             *)

\* The versions of a template are numbered 1, 2, 3, ... in the order they are
\* committed, whatever the races for a number.
VersionsInOrder ==
    \A n \in Names : templates[n] # NoRow =>
        \A i \in DOMAIN templates[n].versions : templates[n].versions[i].number = i

\* A template is active, with a current version among its own, as soon as it
\* has a version: resolve_active_template_version always finds the row that
\* current_version_id, which is no foreign key, points to.
ActiveHasVersion ==
    \A n \in Names : templates[n] # NoRow =>
        LET t == templates[n]
        IN  IF t.versions = <<>> THEN t.status = "draft" /\ t.current = 0
            ELSE t.status = "active" /\ t.current \in VersionNumbers(n)

\* As long as requests do not overlap, the system's template has one row and
\* no variable is both required and optional.  Two requests that seed at once
\* leave two rows, which no key forbids; two partial updates that each read
\* the other's flag as not set leave both set.
SerialCatalogIsSound ==
    ~overlapped =>
        /\ system <= 1
        /\ \A k \in Keys : catalog[k] # NoRow => Exclusive(catalog[k])

=============================================================================
