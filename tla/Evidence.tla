------------------------------ MODULE Evidence ------------------------------
(***************************************************************************)
(* One piece of evidence of the repository: its append-only versions, the  *)
(* encrypted files they name, its links to other artifacts and the         *)
(* downloads, through the repository (/evidence) or through the Gap item   *)
(* it is linked to (/gap/assessment/items/.../evidences).                  *)
(*                                                                         *)
(* Uploading and replacing are coroutines: they read what they need, await *)
(* the file, store it, and commit at the end.  The other handlers run on   *)
(* threads beside them.  An UPDATE writes the columns that differ from the *)
(* loaded ones.                                                            *)
(***************************************************************************)
EXTENDS Integers, Sequences, FiniteSets, SequencesExt

CONSTANTS
    Workers,        \* requests in flight
    Viewers,        \* users with view_evidence, or view_gap, only
    Managers,       \* users with manage_evidence and manage_gap
    Targets,        \* rows of the artifacts evidence is linked to
    Classes,        \* values used of Classification
    MaxFiles,       \* bound of the model: files stored
    NoRow, Idle     \* no row; no request

VARIABLES
    evidence,       \* the evidence row
    versions,       \* its evidence_version rows, in commit order
    links,          \* its evidence_link rows
    files,          \* how many files are in the storage: ids 1, 2, ...
    served,         \* who was ever sent which version (history)
    overlapped,     \* two requests have been in flight at once (history)
    req             \* the request each worker is serving

rows == <<evidence, versions, links>>
vars == <<rows, files, served, overlapped, req>>

----------------------------------------------------------------------------
(* Data.                                                                   *)

ASSUME UsersAssumption == Viewers \cap Managers = {}

Users == Viewers \cup Managers

EvidenceRows == [status : {"active", "inactive"}, classification : Classes, current : Nat]

VersionRows == [number : Nat, classification : Classes, file : Nat]

LinkStates == {"active", "unlinked", NoRow}     \* NoRow: never linked

Requests ==
    [op : {"upload", "replace", "link", "unlink", "download"},
     loaded : EvidenceRows \cup {NoRow}, class : Classes \cup {NoRow},
     target : Targets \cup {NoRow}, link : LinkStates, user : Users \cup {NoRow},
     number : Nat, file : Nat]

ASSUME NullAssumption == NoRow \notin EvidenceRows \cup Classes /\ Idle \notin Requests

\* The type invariant; the pointer to the current version is a version's.
TypeOK ==
    /\ evidence \in EvidenceRows \cup {NoRow}
    /\ evidence # NoRow => evidence.current \in DOMAIN versions
    /\ versions \in Seq(VersionRows)
    /\ links \in [Targets -> LinkStates]
    /\ files \in Nat
    /\ served \subseteq Users \X Nat
    /\ overlapped \in BOOLEAN
    /\ req \in [Workers -> Requests \cup {Idle}]

Init ==
    /\ evidence = NoRow
    /\ versions = <<>>
    /\ links = [t \in Targets |-> NoRow]
    /\ files = 0
    /\ served = {}
    /\ overlapped = FALSE
    /\ req = [w \in Workers |-> Idle]

Overlap(w) ==
    overlapped' = (overlapped \/ \E v \in Workers \ {w} : req[v] # Idle)

Serving(w, op) == req[w] # Idle /\ req[w].op = op

Request(op) ==
    [op |-> op, loaded |-> evidence, class |-> NoRow, target |-> NoRow, link |-> NoRow,
     user |-> NoRow, number |-> 0, file |-> 0]

Begin(w, r) ==
    /\ req[w] = Idle
    /\ req' = [req EXCEPT ![w] = r]
    /\ Overlap(w)
    /\ UNCHANGED <<rows, files, served>>

Finish(w) == req' = [req EXCEPT ![w] = Idle] /\ Overlap(w)

\* An error response, or the death of the process: nothing is committed, but
\* a file that was stored stays.
Fail(w) ==
    /\ req[w] # Idle
    /\ req' = [req EXCEPT ![w] = Idle]
    /\ UNCHANGED <<rows, files, served, overlapped>>

Column(current, loaded, new) == IF new = loaded THEN current ELSE new

Active == evidence # NoRow /\ evidence.status = "active"

----------------------------------------------------------------------------
(* Uploading and replacing.                                                *)

BeginUpload(w, class, t) ==
    /\ evidence = NoRow
    /\ \A v \in Workers : ~Serving(v, "upload")
    /\ Begin(w, [Request("upload") EXCEPT !.class = class, !.target = t, !.number = 1])

\* next_version_number: max + 1; the versions are numbered in commit order.
NextNumber == Last(versions).number + 1

\* The row is loaded and the number taken in one go: no await lies between.
BeginReplace(w, class) ==
    /\ Active
    /\ Begin(w, [Request("replace") EXCEPT !.class = class, !.number = NextNumber])

\* Fault: the version names the file of the version before it.
LatestFile == IF versions = <<>> THEN 1 ELSE Last(versions).file

\* Storage keys are made of fresh ids.
FreshFile == files + 1

\* store_upload_file: the file is in place before the rows that name it.
StoreFile(w) ==
    /\ Serving(w, "upload") \/ Serving(w, "replace")
    /\ req[w].file = 0
    /\ files < MaxFiles
    /\ files' = files + 1
    /\ req' = [req EXCEPT ![w].file = FreshFile]
    /\ Overlap(w)
    /\ UNCHANGED <<rows, served>>

\* Fault: only the evidence is classified.
Unclassified(r) == [number |-> r.number, classification |-> NoRow, file |-> r.file]

Version(r) == [number |-> r.number, classification |-> r.class, file |-> r.file]

CommitUpload(w) ==
    /\ Serving(w, "upload")
    /\ req[w].file # 0
    /\ LET r == req[w]
       IN  /\ evidence' = [status |-> "active", classification |-> r.class, current |-> 1]
           /\ versions' = <<Version(r)>>
           /\ links' = [links EXCEPT ![r.target] = "active"]
    /\ Finish(w)
    /\ UNCHANGED <<files, served>>

\* Fault: the unique key is forgotten.
Unconstrained(number) == TRUE

\* The unique key on (tenant_id, evidence_id, version_number).
FreeNumber(number) == \A i \in DOMAIN versions : versions[i].number # number

\* Fault: only the file is replaced.
FileOnly(r, n) == [evidence EXCEPT !.current = n]

Replaced(r, n) ==
    [evidence EXCEPT !.current = n,
                     !.classification = Column(@, r.loaded.classification, r.class)]

CommitReplace(w) ==
    /\ Serving(w, "replace")
    /\ req[w].file # 0
    /\ FreeNumber(req[w].number)
    /\ versions' = Append(versions, Version(req[w]))
    /\ evidence' = Replaced(req[w], Len(versions) + 1)
    /\ Finish(w)
    /\ UNCHANGED <<links, files, served>>

\* The unique key refuses the number (409).
RefuseNumber(w) ==
    /\ Serving(w, "replace")
    /\ req[w].file # 0
    /\ ~FreeNumber(req[w].number)
    /\ Fail(w)

Inactivate(w) ==
    /\ req[w] = Idle
    /\ Active
    /\ evidence' = [evidence EXCEPT !.status = "inactive"]
    /\ Overlap(w)
    /\ UNCHANGED <<versions, links, files, served, req>>

----------------------------------------------------------------------------
(* Links.                                                                  *)

\* Fault: the evidence is looked up whatever its status.
Known == evidence # NoRow

\* get_evidence without include_inactive.
Found == Active

BeginLink(w, t) ==
    /\ Found
    /\ links[t] # "active"
    /\ Begin(w, [Request("link") EXCEPT !.target = t, !.link = links[t]])

\* A link that was seen is activated; one that was not is inserted, if the
\* unique key on the target lets it.
CommitLink(w) ==
    /\ Serving(w, "link")
    /\ LET r == req[w]
       IN  /\ r.link = NoRow => links[r.target] = NoRow
           /\ links' = [links EXCEPT ![r.target] = "active"]
    /\ Finish(w)
    /\ UNCHANGED <<evidence, versions, files, served>>

BeginUnlink(w, t) ==
    /\ Found
    /\ links[t] = "active"
    /\ Begin(w, [Request("unlink") EXCEPT !.target = t, !.link = links[t]])

CommitUnlink(w) ==
    /\ Serving(w, "unlink")
    /\ links' = [links EXCEPT ![req[w].target] = "unlinked"]
    /\ Finish(w)
    /\ UNCHANGED <<evidence, versions, files, served>>

----------------------------------------------------------------------------
(* Downloads.                                                              *)

Open == {"publico", "uso_interno"}

\* Fault: what the first version was classified as decides.
ClearedForFirst(u, e) == versions[1].classification \in Open \/ u \in Managers

\* can_download: by the classification of the evidence.
CanDownload(u, e) == e.classification \in Open \/ u \in Managers

\* The row is read, and with it the version it points to.
BeginDownload(w, u) ==
    /\ Found
    /\ CanDownload(u, evidence)
    /\ Begin(w, [Request("download") EXCEPT !.user = u])

\* read_bytes: the file of the version that was current when it was loaded.
Download(w) ==
    /\ Serving(w, "download")
    /\ versions[req[w].loaded.current].file \in 1 .. files
    /\ served' = served \cup {<<req[w].user, req[w].loaded.current>>}
    /\ Finish(w)
    /\ UNCHANGED <<rows, files>>

Next ==
    \E w \in Workers :
        \/ \E class \in Classes :
               \/ \E t \in Targets : BeginUpload(w, class, t)
               \/ BeginReplace(w, class)
        \/ StoreFile(w) \/ CommitUpload(w) \/ CommitReplace(w) \/ RefuseNumber(w)
        \/ Inactivate(w)
        \/ \E t \in Targets : BeginLink(w, t) \/ BeginUnlink(w, t)
        \/ CommitLink(w) \/ CommitUnlink(w)
        \/ \E u \in Users : BeginDownload(w, u)
        \/ Download(w) \/ Fail(w)

Spec == Init /\ [][Next]_vars

----------------------------------------------------------------------------
(* Properties.  Serial: as long as no two requests have been in flight     *)
(* together; two overlapping ones may break the property (README).         *)

Serial == ~overlapped

\* However replacements overlap, fail or die, versions are numbered 1, 2, ...
\* without gap or repetition, although each number is taken before an upload.
VersionsInOrder == \A i \in DOMAIN versions : versions[i].number = i

\* However requests overlap, the evidence points to its newest version and is
\* classified as that version is, although an UPDATE leaves out columns that
\* did not change in the copy it was made from.
CurrentIsNewest ==
    evidence # NoRow =>
        /\ evidence.current = Len(versions)
        /\ evidence.classification = Last(versions).classification

\* Whatever overlaps, fails or dies, every version has a stored file of its own.
VersionsHaveTheirFile ==
    \A i \in DOMAIN versions :
        /\ versions[i].file \in 1 .. files
        /\ \A j \in DOMAIN versions : versions[j].file = versions[i].file => j = i

\* Whatever is replaced meanwhile, nobody but a manager is ever sent a version
\* that was classified beyond internal use.
ServedAreCleared ==
    \A s \in served :
        versions[s[2]].classification \in {"publico", "uso_interno"} \/ s[1] \in Managers

\* Serially inactive evidence is frozen: no version, no link, no way back.
InactiveIsFrozen ==
    [][evidence # NoRow /\ ~overlapped' =>
          (evidence.status = "inactive" => UNCHANGED rows)]_vars

\* Numbers, rows and files of the versions correspond in every interleaving.
VersionsAreFiled == VersionsInOrder /\ VersionsHaveTheirFile

=============================================================================
