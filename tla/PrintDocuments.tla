--------------------------- MODULE PrintDocuments ---------------------------
(***************************************************************************)
(* Previews and electronic signatures of the printable documents of one    *)
(* artifact (the SoA, the gap report, ...) of one organization, printed    *)
(* with the templates of PrintTemplates, whose requests the same threads   *)
(* serve.                                                                  *)
(*                                                                         *)
(* A handler checks the preview it loaded against the live artifact, flushes *)
(* the placement of the seal, numbers the document, renders and stores the *)
(* PDF, and commits every row at the end.  A flushed row is invisible to   *)
(* other transactions, but its unique key is theirs to wait for: an INSERT *)
(* of the same key blocks until the first transaction ends and is answered *)
(* 409 if that one committed.                                              *)
(***************************************************************************)
EXTENDS PrintTemplates

CONSTANTS
    Contents,                   \* what the artifact may say; its fingerprint
    MaxPreviews, MaxPlacements, MaxFiles        \* bounds of the model

ASSUME PrintAssumption == {MaxPreviews, MaxPlacements, MaxFiles} \subseteq Nat

VARIABLES
    artifact,       \* the live artifact
    suspended,      \* organizations.status
    previews,       \* document_previews
    placements,     \* document_signature_placements
    signed,         \* signed_documents with snapshot, signature and seal
    drawn,          \* file ids (uuids) drawn so far; an id is its number
    files,          \* the document storage: ids whose PDF is there
    log,            \* document_access_events
    sent            \* ids whose PDF was sent to somebody (history)

rows == <<previews, placements, signed>>
access == <<log, sent>>
storage == <<drawn, files, access>>
vars == <<artifact, suspended, rows, storage, templateVars, req>>

----------------------------------------------------------------------------
(* Data.                                                                   *)

Ids == Nat \ {0}

Previews == [content : Contents, template : Printables, file : Ids, expired : BOOLEAN,
             status : {"active", "expired", "stale", "signed"}]

Placements == [preview : Ids, revision : Ids]

Signed == [preview : Ids, content : Contents, template : Printables,
           seal : Placements, version : Ids, file : Ids]

NoSeal == [preview |-> 0, revision |-> 0]

Readings == {"view", "download", "verify"}

Steps == {"loaded", "placing", "placed", "numbered", "stored", "logged"}

Requests == [op : {"preview", "mark", "confirm", "sign"} \cup Readings, step : Steps,
             preview : Nat, content : Contents, template : Printables,
             seal : Placements \cup {NoSeal},
             new : BOOLEAN, version : Nat, file : Nat]

\* An event is about the PDF of a preview or a document, or about a seal.
EventTypes == {"preview_created", "preview_viewed", "placement_confirmed", "signed",
               "signed_downloaded", "verified", "access_denied"}

Events == [event : EventTypes, file : Nat, seal : Placements \cup {NoSeal}, valid : BOOLEAN]

ASSUME IdleAssumption ==
    /\ Idle \notin Requests \cup TemplateRequests
    /\ NoRow \notin Templates \cup Variables

\* The type invariant: previews, placements and documents keep the types of
\* their tables; revisions and versions start at 1.
TypeOK ==
    /\ artifact \in Contents
    /\ suspended \in BOOLEAN
    /\ previews \in Seq(Previews)
    /\ placements \in SUBSET Placements
    /\ signed \in Seq(Signed)
    /\ drawn \in Nat
    /\ files \in SUBSET Ids
    /\ log \in SUBSET Events
    /\ sent \in SUBSET Ids
    /\ req \in [Workers -> Requests \cup TemplateRequests \cup {Idle}]
    /\ TemplateTypeOK

Init ==
    /\ artifact \in Contents
    /\ suspended = FALSE
    /\ previews = <<>>
    /\ placements = {}
    /\ signed = <<>>
    /\ drawn = 0
    /\ files = {}
    /\ log = {}
    /\ sent = {}
    /\ req = [w \in Workers |-> Idle]
    /\ TemplateInit

\* log_event, committed with what it tells.
Logged(event, file, seal) ==
    log \cup {[event |-> event, file |-> file, seal |-> seal, valid |-> TRUE]}

\* get_org_context and, for super admins too, _ensure_org_available.
Load(w, op, p, content, template) ==
    /\ req[w] = Idle
    /\ ~suspended
    /\ req' = [req EXCEPT ![w] =
                  [op |-> op, step |-> "loaded", preview |-> p, content |-> content,
                   template |-> template, seal |-> NoSeal, new |-> FALSE, version |-> 0, file |-> 0]]
    /\ UNCHANGED <<artifact, suspended, rows, storage, templateVars>>

At(w, ops, step) == req[w] # Idle /\ req[w].op \in ops /\ req[w].step = step

Answer(w) == req' = [req EXCEPT ![w] = Idle]

\* A step of the handler that writes nothing yet.
Advance(w, r) ==
    /\ req' = [req EXCEPT ![w] = r]
    /\ UNCHANGED <<artifact, suspended, rows, storage, templateVars>>

\* The handler answers an error and its transaction is rolled back.
Fail(w) == Answer(w) /\ UNCHANGED <<artifact, suspended, rows, storage, templateVars>>

----------------------------------------------------------------------------
(* Previews.                                                               *)

BeginPreview(w, template) ==
    /\ Len(previews) < MaxPreviews
    /\ ~Unseeded
    /\ Load(w, "preview", 0, artifact, template)

\* Fault: a PDF that could not be written is not noticed.
StoredOrLost(id) == {files, files \cup {id}}

\* What the storage may hold once store_pdf has returned.
Stored(id) == {files \cup {id}}

\* render_pdf and store_pdf.  The file is there before the transaction
\* commits, and whether or not it does.
StorePdf(w) ==
    /\ At(w, {"preview"}, "loaded") \/ At(w, {"sign"}, "numbered")
    /\ drawn < MaxFiles
    /\ drawn' = drawn + 1
    /\ files' \in Stored(drawn')
    /\ req' = [req EXCEPT ![w].step = "stored", ![w].file = drawn']
    /\ UNCHANGED <<artifact, suspended, rows, access, templateVars>>

\* 503 from the renderer (or its timeout) or from the storage.
StorePdfFails(w) ==
    /\ At(w, {"preview"}, "loaded") \/ At(w, {"sign"}, "numbered")
    /\ Fail(w)

CommitPreview(w) ==
    /\ At(w, {"preview"}, "stored")
    /\ previews' = Append(previews,
           [content |-> req[w].content, template |-> req[w].template, file |-> req[w].file,
            expired |-> FALSE, status |-> "active"])
    /\ log' = Logged("preview_created", req[w].file, NoSeal)
    /\ Answer(w)
    /\ UNCHANGED <<artifact, suspended, placements, signed, drawn, files, sent, templateVars>>

Active(p) == previews[p].status = "active"

\* Fault: the live artifact is not rebuilt before signing.
CurrentUntilExpiry(p) == Active(p) /\ ~previews[p].expired

\* _validate_preview_current lets the request go on.
Current(p) ==
    Active(p) /\ ~previews[p].expired /\ previews[p].content = artifact

\* _validate_preview_current finds the preview expired or out of date and
\* writes that over whatever its status has become.
BeginMark(w, p) ==
    /\ Active(p)
    /\ ~Current(p)
    /\ Load(w, "mark", p, previews[p].content, previews[p].template)

CommitMark(w, status) ==
    /\ At(w, {"mark"}, "loaded")
    /\ LET p == req[w].preview
       IN  /\ status = IF previews[p].expired THEN "expired" ELSE "stale"
           /\ previews' = [previews EXCEPT ![p].status = status]
    /\ Answer(w)
    /\ UNCHANGED <<artifact, suspended, placements, signed, storage, templateVars>>

----------------------------------------------------------------------------
(* The seal.                                                               *)

Revisions(p) == {s \in placements : s.preview = p}

\* _next_placement_revision, over what is committed.
NextRevision(p) == Max({s.revision : s \in Revisions(p)} \cup {0}) + 1

BeginConfirm(w, p) ==
    /\ Current(p)
    /\ Cardinality(placements) < MaxPlacements
    /\ Load(w, "confirm", p, previews[p].content, previews[p].template)

BeginSign(w, p) ==
    /\ Current(p)
    /\ Load(w, "sign", p, previews[p].content, previews[p].template)

\* A new placement: confirmed by the user, or the default one of a signature
\* that names none.
NumberPlacement(w) ==
    /\ At(w, {"confirm", "sign"}, "loaded")
    /\ Cardinality(placements) < MaxPlacements
    /\ Advance(w, [req[w] EXCEPT !.step = "placing", !.new = TRUE,
           !.seal = [preview |-> req[w].preview,
                     revision |-> NextRevision(req[w].preview)]])

\* Fault: any confirmed placement will do.
AnyPlacement(p) == placements

\* The placements a signature of this preview may name.
Confirmed(p) == Revisions(p)

NamePlacement(w, seal) ==
    /\ At(w, {"sign"}, "loaded")
    /\ seal \in Confirmed(req[w].preview)
    /\ Advance(w, [req[w] EXCEPT !.step = "placed", !.seal = seal])

\* Another transaction has flushed this key and not ended.
Held(seal) ==
    \E v \in Workers : /\ req[v] # Idle /\ ~AboutTemplates(v)
                       /\ req[v].new /\ req[v].step # "placing"
                       /\ req[v].seal = seal

\* The flush, once nobody else holds the key: 409 if it has been committed.
FlushPlacement(w) ==
    /\ At(w, {"confirm", "sign"}, "placing")
    /\ ~Held(req[w].seal)
    /\ IF req[w].seal \in placements
       THEN Fail(w)
       ELSE Advance(w, [req[w] EXCEPT !.step = "placed"])

CommitConfirm(w) ==
    /\ At(w, {"confirm"}, "placed")
    /\ placements' = placements \cup {req[w].seal}
    /\ log' = Logged("placement_confirmed", 0, req[w].seal)
    /\ Answer(w)
    /\ UNCHANGED <<artifact, suspended, previews, signed, drawn, files, sent, templateVars>>

----------------------------------------------------------------------------
(* The signature.                                                          *)

\* Fault: the first number is 0.
NextVersionFromZero == Max({signed[d].version : d \in DOMAIN signed} \cup {-1}) + 1

\* _next_signed_version over what is committed.
NextVersion == Max({signed[d].version : d \in DOMAIN signed} \cup {0}) + 1

NumberDocument(w) ==
    /\ At(w, {"sign"}, "placed")
    /\ Advance(w, [req[w] EXCEPT !.step = "numbered", !.version = NextVersion])

\* Fault: the version number has no unique key.
NoVersionKey(version) == TRUE

\* uq_signed_document_version_number and _identifier admit the row.
UniqueVersion(version) == \A d \in DOMAIN signed : signed[d].version # version

\* Fault: the preview stays active.
LeaveActive(p) == previews

\* The preview is spent.
MarkSigned(p) == [previews EXCEPT ![p].status = "signed"]

\* Document, snapshot, signature, seal, preview and event, or a 409.
CommitSign(w) ==
    /\ At(w, {"sign"}, "stored")
    /\ LET r == req[w]
       IN  IF UniqueVersion(r.version)
           THEN /\ signed' = Append(signed,
                       [preview |-> r.preview, content |-> r.content,
                        template |-> r.template, seal |-> r.seal, version |-> r.version, file |-> r.file])
                /\ placements' = placements \cup {r.seal}
                /\ previews' = MarkSigned(r.preview)
                /\ log' = Logged("placement_confirmed", 0, r.seal) \cup Logged("signed", r.file, NoSeal)
           ELSE UNCHANGED <<rows, log>>
    /\ Answer(w)
    /\ UNCHANGED <<artifact, suspended, drawn, files, sent, templateVars>>

----------------------------------------------------------------------------
(* Reading.                                                                *)

BeginReading(w, op, file) ==
    /\ req[w] = Idle
    /\ req' = [req EXCEPT ![w] =
                  [op |-> op, step |-> "loaded", preview |-> 0, content |-> artifact,
                   template |-> System, seal |-> NoSeal, new |-> FALSE, version |-> 0, file |-> file]]
    /\ UNCHANGED <<artifact, suspended, rows, storage, templateVars>>

\* download_preview_pdf; to be viewed inline a preview must be current too.
ViewPreview(w, p) == ~suspended /\ BeginReading(w, "view", previews[p].file)

\* download_signed_pdf and verify_signed_document.
ReadSigned(w, d, op) == op # "view" /\ BeginReading(w, op, signed[d].file)

\* require_classification_read refuses, which is an event too.
CommitDenied(w) ==
    /\ At(w, Readings, "loaded")
    /\ log' = Logged("access_denied", req[w].file, NoSeal)
    /\ Answer(w)
    /\ UNCHANGED <<artifact, suspended, rows, drawn, files, sent, templateVars>>

\* Fault: the session is closed without a commit.
NotRecorded(r) == log

\* The event of a reading; a verification tells what it found.
Recorded(r) ==
    CASE r.op = "view" -> Logged("preview_viewed", r.file, NoSeal)
      [] r.op = "download" -> Logged("signed_downloaded", r.file, NoSeal)
      [] OTHER -> log \cup {[event |-> "verified", file |-> r.file, seal |-> NoSeal,
                              valid |-> r.file \in files]}

\* The PDF is read, and the event committed before it is sent.  Only a
\* verification goes on without the PDF.
CommitReading(w) ==
    /\ At(w, Readings, "loaded")
    /\ req[w].op # "verify" => req[w].file \in files
    /\ log' = Recorded(req[w])
    /\ req' = [req EXCEPT ![w].step = "logged"]
    /\ UNCHANGED <<artifact, suspended, rows, drawn, files, sent, templateVars>>

Send(w) ==
    /\ At(w, Readings, "logged")
    /\ sent' = IF req[w].op = "verify" THEN sent ELSE sent \cup {req[w].file}
    /\ Answer(w)
    /\ UNCHANGED <<artifact, suspended, rows, drawn, files, log, templateVars>>

\* is_obsolete.
Obsolete(d) == \E e \in DOMAIN signed : signed[e].version > signed[d].version

----------------------------------------------------------------------------
(* The environment.                                                        *)

\* The handlers of the artifact's own component.
EditArtifact(content) ==
    /\ artifact' = content
    /\ UNCHANGED <<suspended, rows, storage, templateVars, req>>

PreviewExpires(p) ==
    /\ Active(p)
    /\ previews' = [previews EXCEPT ![p].expired = TRUE]
    /\ UNCHANGED <<artifact, suspended, placements, signed, storage, templateVars, req>>

SetOrganizationStatus ==
    /\ suspended' = ~suspended
    /\ UNCHANGED <<artifact, rows, storage, templateVars, req>>

Crash(w) == req[w] # Idle /\ Fail(w)

Next ==
    \/ \E w \in Workers :
           \/ \E template \in Printable : BeginPreview(w, template)
           \/ StorePdf(w) \/ StorePdfFails(w) \/ CommitPreview(w)
           \/ NumberPlacement(w) \/ FlushPlacement(w) \/ CommitConfirm(w)
           \/ NumberDocument(w) \/ CommitSign(w) \/ Crash(w)
           \/ \E p \in DOMAIN previews :
                  BeginMark(w, p) \/ BeginConfirm(w, p) \/ BeginSign(w, p)
           \/ \E status \in {"expired", "stale"} : CommitMark(w, status)
           \/ \E seal \in placements : NamePlacement(w, seal)
           \/ \E p \in DOMAIN previews : ViewPreview(w, p)
           \/ \E d \in DOMAIN signed, op \in Readings : ReadSigned(w, d, op)
           \/ CommitDenied(w) \/ CommitReading(w) \/ Send(w)
    \/ (\E w \in Workers : TemplateStep(w)) /\ UNCHANGED <<artifact, suspended, rows, storage>>
    \/ \E content \in Contents : EditArtifact(content)
    \/ \E p \in DOMAIN previews : PreviewExpires(p)
    \/ SetOrganizationStatus

Spec == Init /\ [][Next]_vars

----------------------------------------------------------------------------
(* Properties: what no interleaving and no crash breaks.                   *)

\* Documents of an artifact are numbered 1, 2, 3, ... in the order they are
\* committed, whatever the races for a number, and all but the last committed
\* are shown as obsolete.
NumberedInOrder ==
    \A d \in DOMAIN signed :
        /\ signed[d].version = d
        /\ Obsolete(d) <=> d # Len(signed)

\* A committed row never points at a PDF that is not in the storage: a
\* failure or a crash leaves at worst a file without a row.
RowsHaveTheirFile ==
    /\ \A p \in DOMAIN previews : previews[p].file \in files
    /\ \A d \in DOMAIN signed : signed[d].file \in files

\* What was sealed is what the signer previewed, where the signer placed it:
\* document, snapshot and seal belong to one preview, its content and its
\* version of the template; and that preview is spent: no later request can
\* begin to sign it again.
SealsThePreview ==
    \A d \in DOMAIN signed :
        LET p == signed[d].preview
        IN  /\ p \in DOMAIN previews
            /\ signed[d].content = previews[p].content
            /\ signed[d].template = previews[p].template
            /\ signed[d].seal.preview = p
            /\ signed[d].seal \in placements
            /\ ~Active(p)

\* The access log tells what there is and what happened, whatever fails or
\* dies at any step: every preview, placement and document has its event and
\* every such event its row, nothing was sent that the log does not tell, and
\* no verification has found a document altered.
LogTellsAll ==
    LET Told(events) == {e \in log : e.event \in events}
        Files(events) == {e.file : e \in Told(events)}
    IN  /\ Files({"preview_created"}) = {previews[p].file : p \in DOMAIN previews}
        /\ Files({"signed"}) = {signed[d].file : d \in DOMAIN signed}
        /\ {e.seal : e \in Told({"placement_confirmed"})} = placements
        /\ sent \subseteq Files({"preview_viewed", "signed_downloaded"})
        /\ \A e \in log : e.valid

\* Rows, storage and log agree through every interleaving, failure and crash:
\* a failure leaves at worst a file without a row.
NothingIsLost == RowsHaveTheirFile /\ LogTellsAll

\* The templates one may print with: versions in order and one in force in
\* every interleaving, one system template and no contradictory variable as
\* long as no two requests overlap.
TemplatesAreSound == VersionsInOrder /\ ActiveHasVersion /\ SerialCatalogIsSound

=============================================================================
