----------------------------- MODULE GapGuidance -----------------------------
(***************************************************************************)
(* The platform's own content of the gap analysis: the guidance of a seed  *)
(* item and an entry of the legend, shared by every organization.  Loading *)
(* the seed inserts what the tables lack and fills what is empty; the      *)
(* super admin edits the texts, and every edit is told in a trail nobody   *)
(* can change.  nota, which may also be absent, is left out.               *)
(*                                                                         *)
(* The same threads serve the requests of GapAnalysis.                     *)
(***************************************************************************)
EXTENDS Integers, Sequences, FiniteSets, SequencesExt

CONSTANTS
    Workers,        \* request threads
    Fields,         \* the fields followed, of each target
    Texts,          \* what the super admin writes
    MaxTold,        \* bound of the model: edits of one field
    SeedText, Empty,            \* the seed's text; no text
    NoRow, Idle     \* no row, field not sent; no request

VARIABLES
    content,        \* gap_seed_item and gap_legend_entry, by field
    trail,          \* gap_guidance_event, by field, in commit order
    overlapped,     \* two requests have been in flight at once (history)
    req             \* the request each thread is serving

guidanceVars == <<content, trail>>

----------------------------------------------------------------------------
(* Data.                                                                   *)

ItemFields == {"referencia", "objetivo", "como_avaliar", "evidencias_esperadas"}

LegendFields == {"label", "definition"}

ASSUME GuidanceAssumption ==
    /\ Fields \subseteq ({"seed_item"} \X ItemFields) \cup ({"legend"} \X LegendFields)
    /\ MaxTold \in Nat

Targets == {f[1] : f \in Fields}

FieldsOf(target) == {f \in Fields : f[1] = target}

Values == Texts \cup {SeedText, Empty}

ASSUME NoTextAssumption == NoRow \notin Values

Contents == [Fields -> Values \cup {NoRow}]

Edits == [old : Values, new : Values]

GuidanceRequests ==
    [op : {"guide", "load"}, target : Targets \cup {NoRow}, loaded : Contents, new : Contents]

GuidanceTypeOK ==
    /\ content \in Contents
    /\ trail \in [Fields -> Seq(Edits)]

\* The gap tables were seeded before there was any guidance, or are empty.
GuidanceInit ==
    /\ \/ content = [f \in Fields |-> NoRow]
       \/ content = [f \in Fields |->
                        CASE f[1] = "legend" -> NoRow
                          [] f[2] = "objetivo" -> SeedText
                          [] OTHER -> Empty]
    /\ trail = [f \in Fields |-> <<>>]

Overlap(w) ==
    overlapped' = (overlapped \/ \E v \in Workers \ {w} : req[v] # Idle)

AboutGuidance(w) == req[w] # Idle /\ req[w].op \in {"guide", "load"}

\* What an UPDATE leaves in a column.
Column(current, loaded, new) == IF new = loaded THEN current ELSE new

BeginOnContent(w, r) ==
    /\ req[w] = Idle
    /\ req' = [req EXCEPT ![w] = r]
    /\ Overlap(w)
    /\ UNCHANGED guidanceVars

AnswerGuidance(w) == req' = [req EXCEPT ![w] = Idle] /\ Overlap(w)

----------------------------------------------------------------------------
(* Loading the seed.                                                       *)

\* Fault: the seed's text replaces whatever is there.
Refilled(f, old) == SeedText

\* A field as the seed leaves it: items are filled where they are empty,
\* entries of the legend only inserted.
Filled(f, old) ==
    IF old = NoRow \/ (old = Empty /\ f[1] = "seed_item") THEN SeedText ELSE old

BeginLoad(w) ==
    BeginOnContent(w, [op |-> "load", target |-> NoRow, loaded |-> content,
                       new |-> [f \in Fields |-> Filled(f, content[f])]])

\* The unique keys of both tables refuse rows another load has inserted.
CommitLoad(w) ==
    /\ AboutGuidance(w) /\ req[w].op = "load"
    /\ LET r == req[w]
           Inserted == {f \in Fields : r.loaded[f] = NoRow}
       IN  content' = IF \E f \in Inserted : content[f] # NoRow THEN content
                      ELSE [f \in Fields |-> Column(content[f], r.loaded[f], r.new[f])]
    /\ AnswerGuidance(w)
    /\ UNCHANGED trail

----------------------------------------------------------------------------
(* Editing.                                                                *)

\* A field that is not sent (NoRow) stays; an empty text empties it.
Patched(target, patch) ==
    [f \in Fields |-> IF f \in FieldsOf(target) /\ patch[f] # NoRow THEN patch[f] ELSE content[f]]

BeginGuide(w, target, patch) ==
    /\ \A f \in FieldsOf(target) : content[f] # NoRow /\ Len(trail[f]) < MaxTold
    /\ BeginOnContent(w, [op |-> "guide", target |-> target, loaded |-> content,
                          new |-> Patched(target, patch)])

UpdateItemGuidance(w, patch) == "seed_item" \in Targets /\ BeginGuide(w, "seed_item", patch)

UpdateLegend(w, patch) == "legend" \in Targets /\ BeginGuide(w, "legend", patch)

\* Fault: a text that is emptied is taken for one that was not sent.
ToldIfFilled(r) == {f \in Fields : r.new[f] \notin {r.loaded[f], Empty}}

\* The fields whose change is told.
Told(r) == {f \in Fields : r.new[f] # r.loaded[f]}

CommitGuide(w) ==
    /\ AboutGuidance(w) /\ req[w].op = "guide"
    /\ LET r == req[w]
       IN  /\ content' = [f \in Fields |-> Column(content[f], r.loaded[f], r.new[f])]
           /\ trail' = [f \in Fields |->
                  IF f \in Told(r)
                  THEN Append(trail[f], [old |-> r.loaded[f], new |-> r.new[f]]) ELSE trail[f]]
    /\ AnswerGuidance(w)

BeginGuidance(w) ==
    \/ BeginLoad(w)
    \/ \E patch \in [Fields -> Texts \cup {Empty, NoRow}] :
           UpdateItemGuidance(w, patch) \/ UpdateLegend(w, patch)

CommitGuidance(w) == CommitLoad(w) \/ CommitGuide(w)

----------------------------------------------------------------------------
(* Properties.  Serial: as long as no two requests have been in flight     *)
(* together; two overlapping ones may break the property (README).         *)

Serial == ~overlapped

\* Serially the trail tells every text there was: each edit starts from what
\* the last one left, up to the text of today, except that a load fills what
\* an edit has emptied without a word.
GuidanceIsTold ==
    LET Follows(f, told, found) ==
            found = told \/ (told = Empty /\ found = SeedText /\ f[1] = "seed_item")
    IN  Serial => \A f \in Fields : trail[f] # <<>> =>
            /\ Follows(f, Last(trail[f]).new, content[f])
            /\ \A e \in 2 .. Len(trail[f]) : Follows(f, trail[f][e - 1].new, trail[f][e].old)

=============================================================================
