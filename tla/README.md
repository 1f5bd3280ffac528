# White Tree Nexus: TLA+ models, model checking and proofs

White Tree Nexus is a multi-tenant web application with which organizations run
an ISO 27001 information security management system. A FastAPI backend
(`src/wtnapp`) keeps everything in PostgreSQL; an Angular client
(`src/wtnadmin`) calls it. This directory models the backend's core logic in
TLA+, checks the models with TLC and proves the most important facts with
TLAPS.

Paths below are relative to `src/wtnapp` unless they start with `src/`.

## 1. How the program runs

Every module rests on the same five facts about the program.

1. **Handlers overlap.** Endpoints are ordinary functions, which FastAPI runs
   in a thread pool, one database session each (`database/database.py`).
2. **Reads are copies.** A handler SELECTs a row and tests the copy. There is no
   `with_for_update`, no version column and no advisory lock anywhere in the
   services, and the isolation level is PostgreSQL's READ COMMITTED. What was
   tested may be out of date when the handler commits.
3. **Writes are partial.** SQLAlchemy's unit of work UPDATEs only the columns
   whose value differs from the value loaded, by primary key. So a stale write
   overwrites a newer value, except where the handler assigns the value it had
   itself loaded: then the column is not in the UPDATE at all. The operator
   `Column(current, loaded, new)` is this rule.
4. **Only unique keys arbitrate.** An INSERT that repeats a unique key waits for
   the transaction that holds it and is answered 409 if that one commits
   (`main.py:104`). A DELETE or UPDATE of a row that is gone affects nothing (a
   DELETE is a warning, an UPDATE an error).
5. **Side effects are not in the transaction.** E-mails, files and Redis entries
   are written before or after the commit; a crash, or a refusal, can fall in
   between.

Each module therefore splits a handler into a *Begin* step (the SELECTs and the
checks on them) and a *Commit* step (the transaction), with further steps where
the handler talks to something else in the middle. Requests of different
threads interleave at these steps. A request that its checks answer with a 4xx
changes nothing and is not begun. `Crash` ends an uncommitted request at any
point: the process died, or the database refused the transaction.

## 2. Inventory

For each component: its state, its operations, whom it touches, what is hard
about it and what makes it correct. The status column of `PROJECT.json` says
which are modelled.

### Identity and access

**Accounts and sessions** (`routers/auth.py`, `services/token_service.py`,
`services/crypto_service.py`, `helpers/tenant_scope.py`). State: the `users` row
(password hash, failure counter, lock, date of the last password change),
`password_reset_tokens`, issued JWTs, the Redis denylist and the process's
connection latch. Operations: login, forgotten and reset password, logout,
unlock, validation of a token on every request. Hard: an argon2 verification
lies between reading the failure counter and writing it; the lock ends by
itself while the counter stays; token and password dates are compared in whole
seconds; Redis may be down and revocation is fail-open. Correct when wrong
guesses stay rare per lock period (FR-009), a password change ends earlier
sessions (FR-014), reset tokens are single-use (FR-013) and a logout is final,
as far as the life of its Redis key goes (section 7).

**Organizations, invitations, memberships** (`routers/bootstrap.py`,
`organizations.py`, `invitations.py`, `memberships.py`,
`helpers/permissions.py`). State: organizations with a status, memberships with
role and status, invitations with a life of their own. Operations: bootstrap of
the platform's super admin, creation and suspension, invite, accept, revoke,
resend, change of role or status. Every other component enters through
`get_org_context` and `require_permission`. Hard: rules that span rows (the last
administrator; consultants only in two organizations) are tested on one
endpoint and can be broken by another. Correct when FR-001, FR-017/018, FR-020
and FR-022 hold over every order of calls.

### Forms

**Form templates** (`routers/form_templates.py`). Creation and activation of a
template; an assignment copies the fields it needs.

**Form workflow** (`services/form_workflow_service.py`,
`routers/form_assignments.py`, `routers/form_respond.py`). State:
`form_assignments` (status, answers, hash, version pointer) and their
append-only event trail. Operations: create, claim, save, submit, return,
cancel, remind, from two routers: authenticated members, and the holder of an
emailed link who has no account. Hard: the same row is reached from both
routers; a status machine tested on copies; partial saves merged in memory.

**Form signatures and OTP** (`services/signature_service.py`). State: signatures
and immutable versions (append-only by trigger), a signature policy per
organization, at most one OTP row per assignment. Operations: a member's
signature, the OTP's request with its mail, an external signature against the
OTP. Hard: dual signatures, codes that are replaced, expire, run out of guesses
or fail to be mailed. Correct when what is concluded was sealed, what was
sealed is what was signed, and only the designated person signs.

### Documents

**Controlled documents** (`services/controlled_document_service.py`, used by
`routers/context_analysis.py`, `stakeholders.py`, `scope_statement.py`,
`internal_audit.py`, `management_review.py`, gap, SoA and risk plan). State: a
draft status and a version pointer per artifact, append-only numbered versions.
Operations: every edit of the artifact and its rows, submit for review, approve.
Hard: the number is a count, the draft may change while it is reviewed, an
audit report and the minutes have a gate, and the event is logged after the
commit. Correct when what is sealed is what was shown, the gate holds of what is
approved, and pointer, numbers and trail tell one story.

**Print templates** (`services/print_template_service.py`). State: templates,
append-only versions, a catalogue of variables, the system's templates seeded by
the first request that needs them. Hard: numbers are taken from what is
committed, the current version is no foreign key, flags are patched one by one.

**Printable documents** (`services/document_signature_service.py`,
`routers/print_documents.py`, `utils/document_storage.py`). State: previews with
an expiry and the fingerprint of what they show, placements of the seal, signed
documents with a version number, PDF files, an access log. Operations: preview,
confirm a placement, sign, view, download, verify. Hard: files are stored before
rows are committed; artifact and preview may change between check and commit;
numbers are taken from what is committed; a reading is logged before it is sent.
Correct when every row has its file and its event, numbers follow commits, and
the document seals what was previewed.

**Print rendering and snapshots**: pure formatting.

### The management system

**Gap analysis** (`routers/gap_assessment.py`, `gap_assignment.py`,
`gap_catalog.py`, `services/gap_seed_service.py`). State: the organization's
copy of the catalogue, the assessment and its items, baselines, assignments.
Operations: adopt a release of the seed, add an item, edit, submit, approve,
create, claim, submit, cancel and sign an assignment. Hard: signing commits
twice, releases bring and discontinue items in any order.

**Gap guidance** (`services/gap_guidance_service.py`). The platform's own texts,
loaded from the seed, edited by the super admin, with a trail.

**Risk management** (`services/risk_service.py`, `risk_treatment_service.py`,
`risk_methodology_service.py`). State: risks, the methodology, controls, the
treatment plan. Hard: a level depends on two rows that change apart; the plan's
gate is about risks that keep being identified.

**Statement of Applicability** (`services/soa_consolidation_service.py`,
`routers/soa.py`). State: one item per control, versions. Operations:
consolidate, edit, reconcile with gap or risks, submit, approve. Hard:
consolidation is repeated over edited rows; completeness is tested before the
commit; a version is normative if a plan is in force at that moment.

**Assets and scope items** (`services/asset_service.py`). State: items with a
generated code, links, a history. Hard: a code is the highest number of the
type's items plus one, and an item may change type.

**Threat and vulnerability catalogues** (`services/risk_catalog_service.py`).
State: the platform's seed, the organization's copy, its own items. Hard: the
seed is loaded lazily, inside the first adoption after a deployment, and two
adoptions may carry the same rows.

**Nonconformities, internal audit, management review and improvement**
(`services/nonconformity_service.py`, `internal_audit_service.py`,
`management_review_service.py`). State: findings, nonconformities, actions,
verifications, audits with a checklist, minutes. Hard: promotion of a finding
must be idempotent; closing needs an effective verification and no open action;
five tables number their records by a count.

**Evidence repository** (`services/evidence_service.py`, `routers/evidence.py`,
`gap_evidence.py`). State: versions, encrypted files, links. Hard: an upload is a
coroutine that numbers before it awaits; classification is that of the newest
version while a download may hold an older one.

**Context, stakeholders, scope and diagnostic**: the artifacts of the controlled
documents.

### Around them

**Audit log and notifications**: rows in a session of their own, best-effort
mail. **Dashboards, metrics, PDCA board, traceability, exports**: read-only
aggregation. **Application shell**, **web client**, **migrations and scripts**.

## 3. What is modelled, and how it corresponds to the code

| Module | Models | Composed with |
|---|---|---|
| `FormWorkflow` | workflow, signatures and OTP as the server runs them | implements `FormLifecycle`, the abstract promise |
| `RequestThreads` | the threads and what each is serving | extended by `TenantAccess`, `Accounts`, `RiskTreatment` and `Assets` |
| `TenantAccess` | bootstrap, organizations, invitations, memberships | |
| `Accounts` | one account's login, lockout, resets, sessions, Redis | |
| `ControlledDocuments` | five kinds of artifact, their edits, review, approval, versions | |
| `Nonconformities` | findings, promotion, actions, verifications, closing, codes | implements `CodeRegister`, the abstract numbering |
| `Evidence` | one piece of evidence: upload, replacement, links, downloads | |
| `GapGuidance`, `GapAnalysis` | the platform's texts; one organization's assessment, baselines and assignments | the second extends the first: the same threads serve both |
| `RiskTreatment`, `StatementOfApplicability` | risks, methodology, plan; the statement drawn from gap and risks | the second extends the first and reads its rows |
| `PrintTemplates`, `PrintDocuments` | templates and variables; previews, placements, signatures and readings of one artifact | the second extends the first and prints with its templates |
| `Assets`, `RiskCatalog` | the register of items; threat and vulnerability catalogues | the second extends the first and links its items to items of the register |
| `*Proofs` | theorems | section 6 |
| `MC*` | instances for TLC, symmetry and the part of the state space explored | section 4 |

Four conventions are shared.

- `req[w]` is what the thread `w` holds in memory: the rows it loaded, what the
  caller sent, what it has computed. A request that its checks refuse is not
  begun. Fields no guard, snapshot or property reads are left out.
- `overlapped` is history: two requests have been in flight at once. A property
  that starts with `Serial =>`, or with `~overlapped`, is one that the guards
  keep only as long as they have not; section 5 says what overlap does to it.
  One model thereby checks both what holds in every interleaving and what the
  guards alone achieve.
- An operator whose comment starts with "Fault:" stands beside the definition
  it varies. It is a plausible mistake in that piece of code and belongs to no
  behaviour of the specification; a property is violated when its fault takes
  the definition's place. Where a property is a conjunction of named parts most
  parts have a fault of their own.
- Bounds are constants named `Max...`. They guard the actions that start
  something, so that what is under way still finishes.

**FormWorkflow.** `row` is `form_assignments`, `trail` the event table,
`signatures`, `versions` and `otp` the three signature tables. `BeginClaim` to
`CommitRemind` are the seven operations on an assignment, each with the guards of
both routers. `ReadSignatures` and `CommitSign` are `sign_as_member`; the
transaction's first flush writes `signed_at` and so locks the assignment row,
which is why the rest of it is one step. `ReadOtp`, `WriteOtp`, `SendOtp` and
their failures are `request_otp`; `CheckOtp`, `CommitDiscard`, `CommitMiss` and
`CommitExternalSign` are `sign_as_external`. An OTP code is its draw number, so
two codes are never equal by accident; `misses` counts the wrong guesses the
program answered and is history. Answers are functions from some of the fields
to filled or blank. The policy row is the constant `Countersign`: no role has the
permission to change it (section 7).

**FormLifecycle** knows neither requests nor rows: a form is assigned, opened,
filled, submitted, sealed, concluded or cancelled. The refinement maps a row's
status to `stage`, its answers to `content` and its versions to `seal`.

**TenantAccess.** `membership` is keyed as its table is, by organization and
user, so the unique key is the function itself and an accept that would break it
answers 409 (`CommitAccept`). A user is an e-mail. Roles are three: those with
both permissions concerned, with one, and with none. Members with the role
`super_admin`, which an invitation may offer and which has both permissions, and
super admins of the platform who also hold a membership are left out.

**Accounts.** Handlers touch one account, so the module has one. A password is
its generation. Time is a counter in the unit of a token's `iat`; `Tick` may fall
between the steps of a request, which is what the lockout and the comparison
with `password_changed_at` are about. `client` is the pair `_redis_client`,
`_redis_unavailable`. `denied` gives each revoked token the tick its Redis key
ends in (`KeyEnds`: `exp` less the current second, at least one); `KeyExpires`
may fall anywhere in the key's last second, because the logout fell somewhere in
a second of its own. History: `guesses` (when wrong passwords were taken),
`left` (tokens whose logout was answered), `outage`.

**ControlledDocuments.** `kind` is chosen at the start; `doc` is the artifact's
row (draft status, pointer, own columns), `rows` what hangs below it. A request
carries `todo`, the stages its handler still has to pass in the order of the
code: the gate (`PassGate`), `count() + 1` (`CountVersions`), the snapshot
(`TakeSnapshot`), the commit, and the event written afterwards in a session of
its own (`LogApproval`). The kinds differ in that order, which is what
`VersionsPassTheirGate` and `SealsTheArtifact` are about. Partial updates
(`UpdateIssue`, `UpdateStakeholder`) name the fields sent.

**Nonconformities.** `ncs` is the table in commit order, a code its number;
`others` are the codes of the tables that number the same way. `BeginPromote`
reads the finding, `CountRecords` the number, `CommitPromote` writes both rows.
Closing passes two gates read one after the other (`PassVerified`,
`PassActions`) before `CommitTransition`. **CodeRegister** hands out codes one
by one; `CodesInOrder` is the refinement.

**Evidence.** `BeginReplace` numbers before the upload is awaited, `StoreFile`
writes the file, `CommitReplace` the version with the columns of the evidence
that differ from the loaded copy; `RefuseNumber` is the 409. `BeginDownload`
checks the classification of the version it found, `Download` sends it later.
`files` is only a count, for nothing deletes a file.

**GapGuidance.** `content` and `trail` by field; `CommitLoad` is `load_seed`,
which inserts what is missing and fills what is empty, `CommitGuide` the two
updates with their events. **GapAnalysis.** `BeginAdopt` reads what is there,
`CommitAdopt` adds, discontinues and brings back. `Proceed` runs the stages of a
request; signing is `ReadContent`, `EnsureReview` (its own commit) and
`CommitBaseline`. `Snapshot` is what a baseline takes of each item: everything but
the justification of an exclusion. `Crash` may fall between the two commits.

**RiskTreatment.** An evaluation computes levels from the methodology it read
(`Evaluated`), `CommitMethodology` recomputes every risk, `Column` decides what
is written. An impact may be derived from the linked assets by the map of the
methodology in use, whose values nothing holds to the scale (`CiaImpact`,
`Impacts`); off the scale `LevelOf` gives none. The plan's gate (`GatePlan`) and its
body (`ReadPlan`) are two reads; `Covered` is what the body says of a risk, with
whether it had its values then (history).
**StatementOfApplicability.** `BeginConsolidate` reads the assessment and the
items, `ReadFeed` the risks' controls, `CommitConsolidate` inserts and updates;
`BeginReconcile` draws from the assessment, from the risks or from both.
`BeginApprove`, `ReadItems`, `ReadPlanInForce` and `CommitVersion` follow the
order of `approve_soa`.

**PrintTemplates.** `CommitSeed` has no unique key to stop a second row, its
`tenant_id` being NULL. `NumberVersion`, `FlushVersion` and `NumberHeld` are the
INSERT of a version that waits for another transaction's; `FirstIsCurrent` is
the activation of the first one. `MayPatch` is what a partial update compares.
**PrintDocuments.** One artifact whose content changes at any time
(`EditArtifact` stands for the other components' handlers). `NumberPlacement`,
`FlushPlacement` and `Held` are the INSERT of a placement; `NumberDocument`,
`StorePdf` and `CommitSign` are the signature in the order of the code: number,
file, rows. `CommitReading` writes the event, `Send` sends the PDF. A file is its
draw number; `files` says which PDFs are really in the storage.

**Assets.** An item's code is its type at creation and a number; `GenerateCode`
reads the highest number of the items that are of this type *now*. The three
columns of the classification are their greatest level. A link is keyed as its
table is (`LinkKeys`): a relationship by its two items and its type, a gap link by
item and gap. `history` holds what the events tell last of each item: the scope from
the creation on, the criticality from its first change on (`created` is what the
creation's event leaves out). `linksTold` counts, for each item and target, the
additions told less the removals told, because a removal names the target alone. **RiskCatalog.**
`release` is the deployed seed, `seeded` the platform's tables, `adopted` the
organization's copy, `custom` its own items. `BeginAdopt` carries the rows it
will add to both; `OtherAdopts` is another organization's adoption, which fills
the same platform tables.

## 4. What each run checks

All bounds are in the `.cfg` files. Where an `MC` module has a `CONSTRAINT`
(`Explored`), its comment says which part of the state space is left out and why
nothing stated depends on it; typically two groups of rows that share no column
are explored one beside the other at rest instead of in their product.

| Run | Question | Instance | Why this is enough |
|---|---|---|---|
| `FormSerial` | Served one request at a time, does the program implement `FormLifecycle`, keep partial saves (FR-008), submit only complete forms, freeze what is sealed and bound the OTP guesses? | 1 thread, 2 members (1 assigner), 1 external, 2 fields of which 1 mandatory, 2 guesses, 2 saves, 4 trail entries before the last repeats | two fields are needed to lose one, two guesses to tell a limit from a flag; the bounds stop only what can repeat, so every form runs to its end, once returned or with a replaced OTP |
| `FormConcurrent` | What survives two overlapping requests, of members and through the emailed link, under the dual policy? | 2 threads, 2 members, 1 external, 1 guess, 1 save, 2 trail entries | every pair of handlers overlaps at every pair of steps, mail failures and expiry included |
| `FormCountersignStuck` | section 7: does a form its filler signed get concluded? | 1 thread, 2 members | finds a violation |
| `AccessSerial` | Do the guards hold FR-001, FR-018, FR-020 and FR-022 over every order of legal calls? | 1 thread, 2 super-admin candidates, 2 organizations, 2 users, 2 invitations | FR-020 is about two organizations, FR-022 about two administrators of one |
| `AccountSerial` | Are guesses spaced, resets single-use, sessions ended by a password change and by logout, while the clock, Redis and restarts run? | 1 thread, limit 2, lock 2 ticks, 4 ticks, 1 reset, 2 sessions, 4 guesses | the clock passes the end of a lock and of a token; one guess more than two full lock periods allow |
| `ControlledDocuments` | Are versions numbered, gated and sealed as shown, for each kind of artifact? | 2 threads, 5 kinds, 1 row, 2 versions | a version and the next one; overlap is followed for the three kinds with a property about it |
| `Nonconformities` | Are codes handed out in order, findings promoted once, and is nothing closed unverified? | 2 threads, 1 finding, 1 action, 2 records per table, 2 verifications | two promotions race for a finding and for a number; two verifications tell the last from any |
| `Evidence` | Do numbers, pointer, files and clearances stay together when uploads overlap, fail and die? | 2 requests, a viewer, a manager, 1 link target, 2 classes, 4 files | two replacements race for a number with files to spare for two refused ones |
| `GapAnalysis` | Does the catalogue follow the seed, do signature and baseline go together, is a submitted assignment signed in the end, does the trail tell every text? | 2 threads, 2 releases, 1 own item, 1 assignment, 2 baselines, 1 crash, 3 texts | a release drops one item and brings one the organization may have added itself; the crash falls between the two commits |
| `StatementOfApplicability` | Do levels follow the methodology, plans leave out what is only identified, versions hold complete items, and do decisions survive consolidation? | 2 threads, 2 risks, 1 control, 2 methodologies that disagree, one of which maps to an impact off the scale, 1 plan, 1 version | one risk evaluated and one not for the gate; a risk assessed without a level; a control that is treated, untreated and treated again |
| `PrintConcurrent` | What survives two overlapping requests on templates, previews, placements, signatures and readings, with edits, expiry, failures and crashes? | 2 threads, 2 contents, 1 template with 2 versions, 1 variable, 2 previews, 1 confirmed placement, 3 files | two documents race for a number, two placements for a revision, two versions for theirs; two contents make a preview stale |
| `Assets` | Are codes unique, rows consistent, histories true, and adoptions whole and additive? | 2 threads, 2 items, 2 types, 2 classes, 6 bodies of a request, 2 types of relationship, 3 links, 2 releases, 3 own items | an item changes type between two creations; two relationships to one item and the removal of either; a deployment falls between two adoptions |

Four properties per run at most: small facts about one component are named
conjuncts of one property (`FormsAreSound`, `DocumentsAreSound`,
`RegisterIsSound`, ...), with the type invariant among them unless it is proved.

Deadlock is checked in every run but `Evidence`, where everything is finished
once the files are used up.

**Liveness and fairness.** `SubmittedGetsSigned` is checked under `FairSpec`:
weak fairness of `Proceed(w)`, because a thread of the pool runs its handler to
the end, and strong fairness of `BeginSign` for each assignment, because the
person who is asked to sign retries while other requests come between. The
constraint of that run prunes only behaviours after an overlap, about which the
property promises nothing new. `FormCountersignStuck` assumes the same of the
form workflow (`FairSpec` of `FormWorkflow`: weak fairness of `Continues`, strong
fairness of the assigner's `BeginSign`). This is generous to the program, and
the form still never concludes.

## 5. What overlapping requests break

The serial runs, and the properties guarded by `Serial`, show that the guards
are right; these are the ones whose guards do not survive a second request
between the load and the commit, or a delivery of the same request twice.

| Property | What happens |
|---|---|
| `OnlyValidTransitions` (`src/specs/003-workflow-preenchimento/spec.md:200-201`) | a cancel commits between the load and the commit of a claim: `cancelled` goes back to `in_progress` |
| `SealedIsFrozen` (`spec.md:172`) | a save loaded before the submission commits after the signature; row and sealed version differ |
| `CompletedIsCountersigned` (`spec.md:217`) | the filler's signature delivered twice counts as two |
| `SuspensionStopsTheLink` (`spec.md:176`) | needs no overlap: `_resolve` never looks at the organization |
| `SavesKeepOtherFields` | two partial saves, the second written from the answers loaded before the first: a saved field disappears (FR-008) |
| `SubmittedIsComplete` | a save that blanks a mandatory field commits after the submission that had validated it |
| `OtpGuessesBounded` | overlapping wrong guesses read the same counter |
| `KeepsAnAdmin` (`src/specs/001-fundacao-multi-tenant/spec.md:314-315`) | two administrators demote each other at once |
| `OnlyConsultantsRoam` | two invitations accepted at once, or an accept beside a role change |
| `BootstrapsOnce` | two bootstrap requests with different e-mails |
| `AdmittedByPendingInvite` | an accept commits after the revocation was answered |
| `GuessesAreSpaced` | overlapping wrong passwords are counted once |
| `SessionsEndWithPassword` | a login that verified the old password issues its token after the reset |
| `ResetsAreSingleUse` | one token submitted twice at once |
| one document per preview | two signatures pass the check of one preview before either commits, and number themselves one after the other |
| one system template, `Exclusive` variables | two first requests seed at once, and no key forbids the second row; two partial updates each read the other's flag as not set |
| the version in force of a template | overlapping `create_template_version`: both saw no current version, and the second becomes current without being activated |
| `SealsTheArtifact`, `SealsTheAssessment` | an edit commits between the reading of the artifact and that of its rows, or between the reading and the approval |
| `ReportsComplete` | a checklist item is reopened or added after the gate has passed |
| `CurrentIsLatest`, `OneReviewPerVersion`, `BaselinesInOrder`, `SignedOnce` | two approvals of one review count the same versions: two rows of one number (no unique key covers them), or one submission approved twice |
| `PestelIsExternal`, `StrategyDerived` | two partial updates, each completed with the row before the other |
| `PromotedOnce`, `PromotableByType` | two promotions of one finding: two nonconformities, and the finding points to the later one; an edit of the type beside a promotion |
| `ClosesWhenReady` | an action is added, or a verification found ineffective, between the gates and the commit |
| `InactiveIsFrozen` | a replacement or a link that began before the inactivation commits after it |
| `CatalogFollowsSeed` | two releases adopted at once: items of both are active |
| `GuidanceIsTold` | `load_seed` overlaps an edit and overwrites it without an event; two edits both tell the same old text |
| `LevelsFollowMethodology` | an evaluation that read the old methodology commits after the recomputation |
| `PlansAreDecided` | a risk is identified between the gate and the body of the plan |
| `DecisionsSurvive`, `ReconciledWithRisks` | an item edited while it is consolidated or reconciled: columns of both are mixed |
| `ItemsAreConsistent`, `DuplicatesAreExcused`, `LinksAreTold` | two updates each keep their half of a rule; no unique key on type and name; a second removal of a link drawn again is told again |

Each row was confirmed with TLC: with its condition `Serial` removed, or in a run
of two threads, every one of these properties is violated. In the runs they are
stated up to the first overlap.

What survives every interleaving, crash and refusal: `SealedBeforeConcluded`,
`SignaturesAreSealed`, `SignedByTheDesignated`, `TrailTellsStatus`,
`NumberedInOrder`, `SealsThePreview`, `NothingIsLost`, `VersionsInOrder`,
`ActiveHasVersion`, `MinutesComplete`, `LoggedIsCommitted`, `CodesInOrder`,
`RefIsItsOwn`, `ClosedIsVerified`, `VersionsAreFiled`, `CurrentIsNewest`,
`ServedAreCleared`, `SignedHasBaseline`, `AssessedIsRated`, `LevelsAreKept`,
`VersionsAreComplete`, `NormativeIsBacked`, `CodesAreUnique`, `HistoryIsCurrent`,
`CatalogIsWhole` and `AdoptionPreserves`. What they have in common is a unique
key, a gate that reads the very row it seals, or a column whose writer also
writes what depends on it.

## 6. What is proved

The theorems are for every value of the constants: any number of threads,
assignments, people, fields, contents, templates, classes and files. They assume
only what the modules' `ASSUME`s say (managers are members, externals are not,
at least one OTP attempt and one login attempt, bounds are numbers, the "nothing"
values are not rows), which TLC evaluates on every run. One argument recurs, under
the name `Carried` or `InFlight`: no request holds a lock from its first read to its
commit, so each inductive invariant lists what of the things a request has read is
still so.

Two kinds of theorem. Those without a hypothesis hold in every interleaving, or say
themselves, with `~overlapped`, from where on they promise nothing. The modules
without that history variable (`FormWorkflow`, `TenantAccess`, `Accounts`) say it with
the number of threads: a theorem under `ASSUME OneThread` is about requests served
one at a time (`\A v, w \in Workers : v = w`), as many organizations, forms, people,
sessions and guesses as one likes, and it is what the serial runs check on a small
instance. The hypothesis is no weakness of the proof: TLC finds each of these
properties violated with two threads (section 5).

**`FormProofs`** has the abstract lifecycle, the concurrent workflow and the workflow
of one thread, in this order.

- *The lifecycle.* Only complete forms are submitted or sealed and a sealed form
  carries what was signed (`LifecycleInvariant`), and a final form is never touched
  again (`FinalForever`). The invariant is inductive as it stands.
- *Every interleaving.* `WellTyped` is the type invariant. Typing alone is not
  inductive, because a commit writes columns of a row another request might have had
  the time to remove; `RowsStay` adds that a request's row exists from its load on,
  since nothing deletes assignments. Nothing is concluded without a filler's
  signature and a sealed version (`ConcludedFormsAreSealed`), signatures and versions
  correspond (`SignaturesMatchVersions`), only the designated people sign, and
  externals only with a mailed code (`OnlyTheDesignatedSign`), and the trail's last
  move names the status (`TrailIsTrue`). None is inductive: a request that is about
  to commit relies on what it read. `SafetyInv` adds `InFlight(w)`, the facts read
  that nothing takes back: respondent and assigner never change; a filler's
  signature, once seen, stays; a code that matched was mailed, because the code typed
  came from the inbox and no code is 0; and a request that will move the status had
  loaded a different one, so the column really is in its UPDATE. There is one lemma
  per kind of step and one conjunct per form.
- *One thread.* `SerialInv` (`OneThreadInvariant`) adds to `SafetyInv` that what the
  one request has loaded is still there (`SerialRequest`) and what is then true of a
  form's row: complete from submission on, equal to its last version and its hash
  from the signature on, unsigned before, and as many wrong guesses as its code has
  counted (`SerialForm`). From it follow completeness, the freeze and the limit of
  guesses (`SerialFormsAreSound`), that a save changes no field it does not name
  (`SerialSavesMerge`), and the refinement (`SerialFollowsLifecycle`): under the
  mapping *status, answers, set of sealed versions*, every step of the program is one
  of `FormLifecycle` about the same form, or changes nothing it sees. The proof has a
  lemma per commit that names the abstract action it is; all the rest, OTP, trail,
  mail, crashes, is a stutter.

**`AccessProofs`** proves of `TenantAccess` that its tables keep their types in every
interleaving (`WellTyped`) and, for one thread, that whoever belongs to two
organizations is a consultant in both and the platform has one super admin
(`SoundMemberships`), that an organization with an active administrator keeps one
(`AdminRemains`), and that nobody becomes a member but by an invitation pending
until that step (`OnlyTheInvitedEnter`). `SerialRequest` says that the checks the
request has passed, the other administrator and the other memberships it counted
among them, still hold; the users' memberships are finite sets (`SerialRows`), which
is what turns a count of two into a second member. Of `Accounts`,
with clock, Redis and restarts free to run: sessions end with their password,
a logout is final, but in the token's last second, unless Redis failed, a token resets
once (`CurrentAccess`), and guesses stay rare (`SpacedGuesses`). For the last one the
state predicate counts guesses in a window, which is not inductive; `Spaced` says
instead that from the limit on each guess is a lock's length later than every
earlier one, and `GuessesInv` ties the counter and the lock to the guesses.
`SpacedIsBounded` turns it back into the count.

**`GapProofs`** proves of the gap analysis that every signed assignment has left a
baseline and, without overlap, one, numbered in order, the last in force
(`BaselinesTellOneStory`); that the catalogue follows the release adopted through any
sequence of releases (`CatalogAlwaysFollows`); that a baseline holds what its
snapshot takes of the items as it is when it is left, although signing commits several
times in between
(`SealsWhatIsThere`); and that the trail tells every text of the guidance there was
(`TrailTellsGuidance`). `InFlight` says what a request carries
whatever overlaps: of a signature, that its assessment and its assignment exist and
which of its stages are left (`todo`). `Undisturbed` says that without overlap the
catalogue and the guidance loaded, the items read for the baseline and the number
counted for it are those of now. `OwnAreActive`, that no release discontinues what the
organization added itself, is the lemma behind `CatalogFollowsSeed`.

**`EvidenceProofs`** proves that evidence keeps its types (`WellTyped`), that
versions are numbered 1, 2, 3 and each has a file of its own (`FiledInOrder`),
that the evidence points to its newest version and has that version's class
(`NewestIsCurrent`), that nobody but a manager is sent what is classified beyond
internal use (`OnlyCleared`), and that without overlap inactive evidence is
frozen (`InactiveStays`). `Carried` says that the number a replacement took is
that of an existing version or the next one, and that while it is the next one
nothing has classified the evidence anew: this is what makes the omitted columns
of its UPDATE right. `Apart` says that no two requests share a stored file;
`MeetsActive` that serially a request about to change the rows has met active
evidence.

**`RiskProofs`** has the catalogues, the register of assets, and risks with plan and
statement, in this order.

- *The catalogues.* An organization's copy of a catalogue is empty or the whole seed
  of some release, its own items numbered in order (`NothingHalfAdopted`), and no
  step takes an item out of the copy, back from the archive, back to its unedited
  text, or off an asset (`NothingTakenBack`). `Completes` is the strengthening: what
  an adoption in flight computed, put on top of the copy *as it will be then*, makes a
  whole seed, because the items of a row only grow.
- *The register of assets.* Rows keep their types and codes are unique in every
  interleaving and, without overlap, every item obeys the rules of its scope and
  criticality and duplicate names are justified (`SoundRegister`); the last word of an
  item's history on the scope and, once it has changed, on the criticality is what the
  row says and, without overlap, it tells how many links an item has to each target
  (`HistoryTellsEverything`; `TiesAreFinite` lets them be counted). Here `Carried`
  says that a row about to be written obeys the rules of its own scope and that an update keeps the code it
  loaded, which is why codes stay unique in every interleaving; `NumbersHaveGreatest`,
  that any set of items of a type has one with the highest number, makes the next
  code well defined; `Undisturbed` that the row, the link and the absence of a
  duplicate that were read are still so.
- *Risks, plan and statement.* In every interleaving a risk that counts as assessed or
  in treatment has a probability and an impact, a level is only taken by a request that
  itself worked with an impact off the scale (`LevelsAreKept`, from `LevelTaken`), and
  versions of the statement are complete and normative exactly if they name an approved
  plan. The first two are not inductive: an UPDATE mixes the columns of two rows, and
  what holds of the mixture follows only if a level comes with what it is computed from
  (`Levelled`) and if neither the request nor anybody else has blanked a column since it
  was read (`Since`). `Brings` lists what
  a request has read and nothing takes back, the complete items and the plan in force
  of an approval among them; `UpdatedLevel` is the lemma about the mixture. Without
  overlap (`SerialStatement`) what the one request has read is current (`Current`),
  so that every risk has the levels, or none, that the methodology in use gives its
  values (`SoundLevels`), plans cover risks and none that is only identified
  (`SoundApprovals`), consolidating and reconciling take no reason that somebody gave
  (`ReasonsSurvive`), and an item reconciled with the risks names exactly the active
  risks its control treats; when there are none it loses reason and risks together,
  unless the reason had been taken by hand before: then it keeps the risks it named
  (`RisksAreNamed`).

**`PrintProofs`** proves the types of the printable documents (`WellTyped`); that
documents are numbered in the order they commit, the last one current
(`DocumentsInOrder`); that a signed document has the content, the template and a
placement of the preview its signer saw (`SealedAsPreviewed`); that every row has
its PDF and its event, every event its row, and no PDF is sent untold
(`NothingLost`); and that versions of a template are numbered in order, one in
force, and without overlap variables do not contradict each other
(`TemplatesSound`). The argument rests on the unique keys. A request that has
numbered itself carries a number that is a row's or the next one (`Carried`), so
the key lets in only the next; a flushed key is held by one request at a time
(`TakenBy`, `Apart`); and serially what was read is what is there
(`Undisturbed`).

**`NonconformityProofs`** proves that the numbering of records, count plus one
under a unique key, implements `CodeRegister` in every interleaving
(`CodesAsInRegister`, a refinement); that a finding points to an NC opened from
it and, without overlap, has at most that one (`PromotionSound`); that nothing is
closed that was never verified effective (`NoneClosedUnverified`); and that
without overlap an NC closes only when it is ready and then stays closed
(`ClosesOnlyWhenReady`). `Carried` says that a counted code is one given already
or the next, that loaded rows stay, and that an NC past the first stage of its
gate has an effective verification; `Undisturbed` that what a request alone in
the program has read, the result of its gate included, is what is there. Codes
being 1, 2, 3 in order (`Numbered`) is what turns "free and at most the next"
into "the next".

**`ControlledDocumentProofs`** proves of the five kinds of document that types
hold, that no event tells of a version that is not committed and, without overlap,
that the version in force is the latest and each answers a submission of its own
(`SoundDocuments`); that minutes are only ever approved complete and, without
overlap, reports without an open item (`GatesHold`); that derived columns agree
through every sequence of partial updates (`ColumnsFollow`); and that an approval
seals the artifact as it is when the version is committed (`SealedAsShown`).
`Carried` says what no other request takes back: the artifact is there, and what
an approval loaded is complete, whatever the row says by now. `Undisturbed` says
what more is so until a second request overlaps: the columns loaded, the rows
seen, the gate passed and the number counted are those of this moment. `Trailed`
makes the trail inductive: events written plus approvals about to write theirs are
at most the versions, a count over a finite set from which a crash only removes.

Every property that a passing run checks is stated by a theorem, except the liveness
of `SubmittedGetsSigned`. Three things are beyond the prover and stay with TLC:
liveness under fairness and `ENABLED`; induction over data; `RECURSIVE` operators (no
module here has one). For the same reason theorems about sums and counts go through the facts of
`FiniteSetTheorems` on cardinality and never through an induction of their own.

## 7. Divergences between code and documents

Besides `FormCountersignStuck` and the overlaps of section 5, read in the code
and reproduced by the models or visible in their guards:

*Forms and access*

- `claim` un-submits: a member who calls it on a submitted form takes it back to
  `in_progress`, because claim and return share a row of the transition table.
  For the same reason `return_assignment` opens a pending form.
- The policy endpoint asks for `manage_org`, a permission no role has
  (`routers/form_signature_policy.py:19`), so the countersignature policy cannot
  be switched on through the API, as `quickstart.md:31` describes. In the model
  the policy is the constant `Countersign`.
- `apply_diagnostic_intake` (`services/diagnostic_intake.py:22`) is called by
  tests only; `specs/003-workflow-preenchimento/quickstart.md:37` has it run.
- The audit log may report COMPLETED for a form whose transaction is refused
  afterwards (`services/signature_service.py:130`, before the commit).
- A disabled member can be invited again and can never accept
  (`routers/invitations.py:75` looks at active memberships, `:44` at all).
- The end of a lock keeps the failure counter: after it, one wrong password
  locks again. `GuessesAreSpaced` is stated accordingly.
- `_redis_unavailable` latches for the life of the process: after one failed
  connection logouts revoke nothing. `LogoutIsFinal` assumes no outage.
- The denylist's key lives for `exp` less the whole seconds of now
  (`routers/auth.py:172-173`, `services/token_service.py:90`), and a token is
  accepted until the end of the second `exp`: in that last second a token that was
  logged out may be accepted again. `LogoutIsFinal` leaves that second out.
- An invitation may offer any role, `super_admin` included
  (`schemas/invitation_schema.py:14`, `:55` for a change of role).

*Printing*

- The template half of the staleness check is dead: versions are immutable, so
  the version a preview recorded never differs from itself
  (`services/document_signature_service.py:377`, against
  `specs/009-signable-print-documents/spec.md:15` and `:93-94`). A preview made
  before another version came into force is signed with the old one.
- `get_signed_document` does not ask whether the organization is available
  (FR-026 of the same specification).
- A reading of a classified document that is denied is audited twice.
- The rows of system templates have no tenant, and the unique key ignores rows
  with NULL: two first requests at once leave two.

*Context, audits, nonconformities*

- A partial `PATCH` of an issue completes the payload with the row's origin and
  framework, and not with its nature, which is validated as `contextual`
  (`routers/context_analysis.py:57-70`, `:131-141`): an internal strength can
  be made a PESTEL issue, and an external SWOT threat cannot be edited unless
  its nature is sent again. Only the origin is guarded, hence `PestelIsExternal`.
- `promote_finding` says "Idempotente"; two promotions at once open two
  nonconformities (`PromotedOnce`).

*Gap analysis*

- `gap_seed_service.py` says that it never overwrites edits; `load_seed`
  overlapping an edit does, and tells no event. It also refills, without an
  event, a guidance its editor had emptied.
- An empty justification is accepted for a not applicable item when the old row
  had one (`routers/gap_assessment.py:100`, against
  `specs/004-gap-analysis/data-model.md:92`, `:99-100`).
- Discontinued items are still counted by the gap dashboard.
- A baseline does not take the justification of an exclusion with it
  (`routers/gap_assessment.py:189-199`, against the item that
  `specs/004-gap-analysis/data-model.md:138-142` shows). `SealsTheAssessment` is
  about what the snapshot takes.

*Risks and applicability*

- A control without responsible or deadline that was added before the treatment
  was set to mitigate passes (FR-044, `services/risk_treatment_service.py:84-90`).
- `set_treatment` leaves an accepted risk `accepted`.
- `accept_risk` works from any status (`services/risk_treatment_service.py:122-134`),
  and the plan's gate only refuses what is `identified` (`:221-233`): a risk that was
  never evaluated and has no owner, once accepted, is in an approved plan, against
  `specs/012-risk-management/spec.md:401-403` (FR-027). Hence `PlansAreDecided` speaks
  of the status and asks for values only of what is assessed or in treatment.
- The impacts of `cia_impact_map` are not held to the scale
  (`schemas/risk_schema.py:37`, `services/risk_methodology_service.py:68-91`). A
  derived impact off it is written, gives no level, and the risk is assessed all the
  same (`services/risk_service.py:139-140`, `:165-167`): a methodology put later may
  then take the level of a risk. `LevelsAreKept` says that nothing else does.
- Taking the reason `risk_treatment` from an item by hand leaves its `risk_links`
  (`routers/soa.py:208-258`). Once no risk treats the control any more
  `compute_risk_divergence` sees no divergence (`:227-248` of
  `services/soa_consolidation_service.py`, against its case (c)), and reconciling
  removes nothing, against the removal of orphaned risks of FR-009
  (`specs/013-soa-normativa-risco/spec.md:318-321`).
- Consolidation sets `applicable` of an item that a person had excluded, once a risk
  treats its control (`services/soa_consolidation_service.py:168-175`), while
  `DecisionsSurvive` is about the reasons.
- A change of methodology recomputes levels, and not `impact_derived`.
- Reconciling with "all" sources, the gap source and the risk source both write
  `applicable`; the later one wins.

*Assets*

- Once the item with the highest number of a type changes its type,
  `create_asset` computes that number again, which its code still uses: every
  later creation of that type answers 409 (`services/asset_service.py:73`, FR-003).
- `PUT /assets` sets `record_status` to archived or active with no reason and no
  event (FR-023, FR-024).
- Duplicate names are checked, and no key enforces it (FR-033).
- The second removal of a link that was drawn again meanwhile is told again.
- The event of a removal names the other item and not the type of the relationship
  (`routers/assets.py:442-445`), which is part of its key: of several relationships
  between two items the history does not tell which is left.
- The event of a creation does not tell the criticality (`routers/assets.py:264-267`).

## 8. Not modelled, and why

- **Form templates**: CRUD of definitions without a concurrent protocol; the
  workflow starts from a published one.
- **Rendering**: snapshots, HTML, PDF and hashes appear as contents that are equal
  or not. Formatting has no state.
- **The audit log**: no code reads it back. Where a document promises an event,
  the event is in the model (`NothingIsLost`, `LoggedIsCommitted`,
  `GuidanceIsTold`, `LinksAreTold`).
- **Dashboards, metrics, traceability, exports**: read only.
- **PDCA** and the descriptive fields of programmes, audits, reviews, improvements
  and nonconformities (`update_nc` and its like): independent columns, the last
  writer of each wins.
- **The web client**: the API repeats its rules. **Shell, migrations, scripts, rate
  limits**: start-up and deployment, or a bound on how often, on no property here.
- **Mail** is modelled where the protocol depends on it, the OTP.

A component that is `partly` modelled in `PROJECT.json` says in its note which
operations are left out.

## 9. Plan

1. A change of the signature policy while a form is in flight: `Countersign` as a
   variable of `FormWorkflow`, once the endpoint can be reached.
2. Form templates: publication against assignments made from a draft.
3. `update_catalog_item` with texts in `RiskCatalog`; custom controls in
   `StatementOfApplicability`.
