--------------------------- MODULE EvidenceProofs ---------------------------
(***************************************************************************)
(* What holds of a piece of evidence for every set of workers, users and   *)
(* links, however uploads, replacements and downloads overlap and fail.    *)
(*                                                                         *)
(* No request holds a lock from its first read to its commit.  Carried     *)
(* says what of the things it read is still so: the number a replacement   *)
(* took is that of a version or the next one, and while it is the next one *)
(* nothing has classified the evidence anew; a stored file belongs to no   *)
(* version and to no other request; a version once read stays as it is.    *)
(***************************************************************************)
EXTENDS Evidence, TLAPS

Carried(r) ==
    /\ r.op = "upload" => /\ evidence = NoRow
                          /\ r.class \in Classes /\ r.number = 1
    /\ r.op = "replace" =>
           /\ evidence # NoRow /\ r.loaded \in EvidenceRows
           /\ r.class \in Classes /\ r.number \in 1 .. Len(versions) + 1
           /\ r.number = Len(versions) + 1 =>
                  r.loaded.classification = evidence.classification
    /\ r.op = "download" =>
           /\ r.loaded \in EvidenceRows /\ r.user \in Users
           /\ r.loaded.current \in DOMAIN versions
           /\ versions[r.loaded.current].classification \in Open \/ r.user \in Managers
    /\ r.file # 0 => /\ r.file \in 1 .. files
                     /\ \A i \in DOMAIN versions : versions[i].file # r.file

\* Requests share no stored file, and one upload creates the evidence.
Apart(r, q) ==
    /\ r.file = q.file => r.file = 0
    /\ ~(r.op = "upload" /\ q.op = "upload")

Cleared ==
    \A s \in served :
        /\ s[2] \in DOMAIN versions
        /\ versions[s[2]].classification \in Open \/ s[1] \in Managers

\* Serially, what is about to change the rows has met active evidence.
MeetsActive ==
    ~overlapped =>
        \A w \in Workers : req[w] # Idle /\ req[w].op \in {"replace", "link", "unlink"} => Active

Rows ==
    /\ evidence = NoRow => versions = <<>>
    /\ VersionsInOrder
    /\ CurrentIsNewest
    /\ VersionsHaveTheirFile
    /\ Cleared

InFlight ==
    /\ \A w \in Workers : req[w] # Idle => Carried(req[w])
    /\ \A v, w \in Workers :
           v # w /\ req[v] # Idle /\ req[w] # Idle => Apart(req[v], req[w])

\* The inductive invariant.
IInv == TypeOK /\ Rows /\ InFlight /\ MeetsActive

\* The invariant holds at first.
LEMMA InitInv == Init => IInv
<1> SUFFICES ASSUME Init PROVE IInv
    OBVIOUS
<1>1. TypeOK
  <2>1. links \in [Targets -> LinkStates] /\ req \in [Workers -> Requests \cup {Idle}]
      BY DEF Init, LinkStates
  <2>2. versions \in Seq(VersionRows) /\ served \subseteq Users \X Nat
      BY DEF Init
  <2>3. QED
      BY <2>1, <2>2 DEF Init, TypeOK
<1>2. Rows
    BY DEF Init, Rows, VersionsInOrder, CurrentIsNewest, VersionsHaveTheirFile, Cleared
<1>3. InFlight /\ MeetsActive
    BY DEF Init, InFlight, MeetsActive
<1>4. QED
    BY <1>1, <1>2, <1>3 DEF IInv

----------------------------------------------------------------------------
(* Steps that only touch what is in flight.                                *)

\* A request that begins with what it has just read.
LEMMA BeginStep ==
    ASSUME IInv, NEW w \in Workers, NEW r \in Requests, Begin(w, r),
           r.file = 0, Carried(r),
           r.op = "upload" => \A v \in Workers : ~Serving(v, "upload"),
           r.op \in {"replace", "link", "unlink"} => Active
    PROVE  IInv'
<1>1. UNCHANGED <<rows, files, served>> /\ req' = [req EXCEPT ![w] = r] /\ req[w] = Idle
    BY DEF Begin
<1>2. UNCHANGED <<evidence, versions, links, files, served>>
    BY <1>1 DEF rows
<1>3. overlapped' \in BOOLEAN /\ (~overlapped' => ~overlapped)
    BY DEF Begin, Overlap, IInv, TypeOK
<1>4. TypeOK'
    BY <1>1, <1>2, <1>3 DEF IInv, TypeOK
<1>5. Rows'
    BY <1>2 DEF IInv, Rows, VersionsInOrder, CurrentIsNewest, VersionsHaveTheirFile, Cleared
<1>6. InFlight'
  <2>1. \A v \in Workers : req'[v] # Idle => Carried(req'[v])
      BY <1>1 DEF IInv, TypeOK, InFlight
  <2>2. ASSUME NEW v \in Workers, NEW u \in Workers, v # u, req'[v] # Idle, req'[u] # Idle
        PROVE  Apart(req'[v], req'[u])
      BY <2>2, <1>1 DEF IInv, TypeOK, InFlight, Apart, Serving
  <2>3. QED
      BY <2>1, <2>2, <1>2 DEF InFlight, Carried, Apart
<1>7. MeetsActive'
    BY <1>1, <1>2, <1>3 DEF IInv, TypeOK, MeetsActive, Active
<1>8. QED
    BY <1>4, <1>5, <1>6, <1>7 DEF IInv

\* A request that ends without touching evidence, versions or files.
LEMMA EndStep ==
    ASSUME IInv, NEW w \in Workers, req' = [req EXCEPT ![w] = Idle],
           UNCHANGED <<evidence, versions, files>>, links' \in [Targets -> LinkStates],
           served' \subseteq Users \X Nat, Cleared',
           overlapped' \in BOOLEAN, ~overlapped' => ~overlapped
    PROVE  IInv'
<1>1. UNCHANGED <<evidence, versions, files>>
    OBVIOUS
<1>2. TypeOK'
    BY <1>1 DEF IInv, TypeOK
<1>3. Rows'
    BY <1>1 DEF IInv, Rows, VersionsInOrder, CurrentIsNewest, VersionsHaveTheirFile
<1>4. InFlight'
  <2>1. \A v \in Workers : req'[v] # Idle => Carried(req'[v])
      BY DEF IInv, TypeOK, InFlight
  <2>2. ASSUME NEW v \in Workers, NEW u \in Workers, v # u, req'[v] # Idle, req'[u] # Idle
        PROVE  Apart(req'[v], req'[u])
      BY <2>2 DEF IInv, TypeOK, InFlight
  <2>3. QED
      BY <2>1, <2>2, <1>1 DEF InFlight, Carried, Apart
<1>5. MeetsActive'
    BY <1>1 DEF IInv, TypeOK, MeetsActive, Active
<1>6. QED
    BY <1>2, <1>3, <1>4, <1>5 DEF IInv

\* Requests are of their type, whichever field is filled in.
LEMMA RequestFields ==
    ASSUME evidence \in EvidenceRows \cup {NoRow},
           NEW op \in {"upload", "replace", "link", "unlink", "download"}
    PROVE  /\ Request(op) \in Requests
           /\ Request(op).op = op /\ Request(op).file = 0 /\ Request(op).loaded = evidence
BY DEF Request, Requests, LinkStates

\* What begins has read what it carries.
LEMMA BeginSteps ==
    ASSUME IInv, NEW w \in Workers,
           \/ \E class \in Classes : \/ \E t \in Targets : BeginUpload(w, class, t)
                                     \/ BeginReplace(w, class)
           \/ \E t \in Targets : BeginLink(w, t) \/ BeginUnlink(w, t)
           \/ \E u \in Users : BeginDownload(w, u)
    PROVE  IInv'
<1>1. evidence \in EvidenceRows \cup {NoRow}
    BY DEF IInv, TypeOK
<1>2. ASSUME NEW class \in Classes, NEW t \in Targets, BeginUpload(w, class, t)
      PROVE  IInv'
  <2> DEFINE q == Request("upload")
             r == [q EXCEPT !.class = class, !.target = t, !.number = 1]
  <2>1. q \in Requests /\ q.file = 0 /\ q.op = "upload"
      BY <1>1, RequestFields
  <2>2. Begin(w, r) /\ evidence = NoRow /\ \A v \in Workers : ~Serving(v, "upload")
      BY <1>2 DEF BeginUpload
  <2> HIDE DEF q
  <2>3. r \in Requests /\ r.file = 0 /\ r.op = "upload" /\ r.class = class /\ r.number = 1
      BY <2>1 DEF Requests
  <2> HIDE DEF r
  <2>4. Carried(r)
      BY <2>2, <2>3 DEF Carried
  <2>5. QED
      BY <2>2, <2>3, <2>4, BeginStep
<1>3. ASSUME NEW class \in Classes, BeginReplace(w, class)
      PROVE  IInv'
  <2> DEFINE q == Request("replace")
             r == [q EXCEPT !.class = class, !.number = NextNumber]
  <2>1. q \in Requests /\ q.file = 0 /\ q.op = "replace" /\ q.loaded = evidence
      BY <1>1, RequestFields
  <2>2. /\ Begin(w, r) /\ Active
        /\ evidence \in EvidenceRows /\ evidence # NoRow
      BY <1>1, <1>3 DEF BeginReplace, Active
  <2>3. NextNumber = Len(versions) + 1 /\ NextNumber \in Nat /\ Len(versions) \in Nat
    <3>1. versions \in Seq(VersionRows) /\ evidence.current \in DOMAIN versions
        BY <2>2 DEF IInv, TypeOK
    <3>2. Len(versions) \in DOMAIN versions
        BY <3>1
    <3>3. QED
        BY <3>1, <3>2 DEF IInv, Rows, VersionsInOrder, NextNumber, Last
  <2> HIDE DEF q
  <2>4. /\ r \in Requests /\ r.file = 0 /\ r.op = "replace" /\ r.class = class
        /\ r.loaded = evidence /\ r.number = NextNumber
      BY <2>1, <2>3 DEF Requests
  <2> HIDE DEF r
  <2>5. Carried(r)
      BY <2>2, <2>3, <2>4 DEF Carried
  <2>6. QED
      BY <2>2, <2>4, <2>5, BeginStep
<1>4. ASSUME NEW t \in Targets, BeginLink(w, t) \/ BeginUnlink(w, t)
      PROVE  IInv'
  <2>1. PICK op \in {"link", "unlink"} :
            Begin(w, [Request(op) EXCEPT !.target = t, !.link = links[t]])
      BY <1>4 DEF BeginLink, BeginUnlink
  <2> DEFINE q == Request(op)
             r == [q EXCEPT !.target = t, !.link = links[t]]
  <2>2. q \in Requests /\ q.file = 0 /\ q.op = op
      BY <1>1, RequestFields
  <2>3. Begin(w, r) /\ Active
      BY <1>4, <2>1 DEF BeginLink, BeginUnlink, Found
  <2>4. links[t] \in LinkStates
      BY DEF IInv, TypeOK
  <2> HIDE DEF q
  <2>5. r \in Requests /\ r.file = 0 /\ r.op = op
      BY <2>2, <2>4 DEF Requests
  <2> HIDE DEF r
  <2>6. Carried(r)
      BY <2>5 DEF Carried
  <2>7. QED
      BY <2>3, <2>5, <2>6, BeginStep
<1>5. ASSUME NEW u \in Users, BeginDownload(w, u)
      PROVE  IInv'
  <2> DEFINE q == Request("download")
             r == [q EXCEPT !.user = u]
  <2>1. q \in Requests /\ q.file = 0 /\ q.op = "download" /\ q.loaded = evidence
      BY <1>1, RequestFields
  <2>2. /\ Begin(w, r) /\ CanDownload(u, evidence)
        /\ evidence \in EvidenceRows /\ evidence # NoRow
      BY <1>1, <1>5 DEF BeginDownload, Found, Active
  <2> HIDE DEF q
  <2>3. /\ r \in Requests /\ r.file = 0 /\ r.op = "download" /\ r.user = u
        /\ r.loaded = evidence
      BY <2>1 DEF Requests
  <2> HIDE DEF r
  <2>4. /\ evidence.current \in DOMAIN versions
        /\ evidence.classification = versions[evidence.current].classification
      BY <2>2 DEF IInv, TypeOK, Rows, CurrentIsNewest, Last
  <2>5. Carried(r)
      BY <2>2, <2>3, <2>4 DEF Carried, CanDownload
  <2>6. QED
      BY <2>2, <2>3, <2>5, BeginStep
<1>6. QED
    BY <1>2, <1>3, <1>4, <1>5

----------------------------------------------------------------------------
(* The steps that store and commit.                                        *)

\* StoreFile preserves the invariant.
LEMMA StoreStep == ASSUME IInv, NEW w \in Workers, StoreFile(w) PROVE IInv'
<1> DEFINE r == req[w]
<1>1. /\ r \in Requests /\ r # Idle /\ r.file = 0 /\ r.op \in {"upload", "replace"}
      /\ files \in Nat /\ files' = files + 1
      /\ UNCHANGED <<evidence, versions, links, served>>
    BY DEF StoreFile, Serving, IInv, TypeOK, rows
<1>2. PICK q : q = [r EXCEPT !.file = FreshFile]
    OBVIOUS
<1>3. /\ req' = [req EXCEPT ![w] = q]
      /\ q \in Requests /\ q # Idle /\ q.file = files + 1 /\ q.op = r.op
      /\ q.class = r.class /\ q.number = r.number /\ q.loaded = r.loaded
      /\ q.user = r.user
    BY <1>1, <1>2, NullAssumption DEF StoreFile, FreshFile, Requests
<1>4. overlapped' \in BOOLEAN /\ (~overlapped' => ~overlapped)
    BY DEF StoreFile, Overlap, IInv, TypeOK
<1>5. TypeOK'
    BY <1>1, <1>3, <1>4 DEF IInv, TypeOK
<1>6. Rows'
    BY <1>1 DEF IInv, Rows, VersionsInOrder, CurrentIsNewest, VersionsHaveTheirFile, Cleared
<1>7. InFlight'
  <2>1. \A i \in DOMAIN versions : versions[i].file \in 1 .. files
      BY DEF IInv, Rows, VersionsHaveTheirFile
  <2>2. Carried(q)'
    <3>1. Carried(r)
        BY <1>1 DEF IInv, InFlight
    <3>2. \A i \in DOMAIN versions : versions[i].file # q.file
        BY <1>1, <1>3, <2>1
    <3>3. QED
        BY <1>1, <1>3, <3>1, <3>2 DEF Carried
  <2>3. ASSUME NEW v \in Workers, NEW p, p = req'[v], p # Idle, v # w
        PROVE  Carried(p)' /\ (p.file \in 1 .. files \/ p.file = 0)
    <3>1. Carried(p) /\ p \in Requests
        BY <2>3, <1>3 DEF IInv, TypeOK, InFlight
    <3>2. p.file \in 1 .. files \/ p.file = 0
        BY <3>1 DEF Carried
    <3>3. p.file # 0 => p.file \in 1 .. files'
        BY <3>2, <1>1
    <3>4. QED
        BY <3>1, <3>2, <3>3, <1>1 DEF Carried
  <2>4. \A v \in Workers : req'[v] = IF v = w THEN q ELSE req[v]
      BY <1>3 DEF IInv, TypeOK
  <2>5. \A v \in Workers : v # w /\ req'[v] # Idle => Apart(req'[v], q) /\ Apart(q, req'[v])
    <3>1. \A v \in Workers : v # w /\ req[v] # Idle => Apart(req[v], r) /\ Apart(r, req[v])
        BY <1>1 DEF IInv, InFlight
    <3>2. \A v \in Workers : v # w /\ req'[v] # Idle => req'[v].file # q.file
        BY <2>3, <1>1, <1>3
    <3>3. QED
        BY <3>1, <3>2, <2>4, <1>3 DEF Apart
  <2>6. ASSUME NEW v \in Workers, NEW u \in Workers, v # u, req'[v] # Idle, req'[u] # Idle
        PROVE  Apart(req'[v], req'[u])
      BY <2>4, <2>5, <2>6 DEF IInv, InFlight
  <2>7. \A v \in Workers : \A p : p = req'[v] /\ p # Idle => Carried(p)'
      BY <2>2, <2>3, <2>4
  <2>8. QED
      BY <2>6, <2>7 DEF InFlight, Carried, Apart
<1>8. MeetsActive'
    BY <1>1, <1>3, <1>4 DEF IInv, TypeOK, MeetsActive, Active
<1>9. QED
    BY <1>5, <1>6, <1>7, <1>8 DEF IInv

\* Each other end of a request preserves the invariant.
LEMMA EndSteps ==
    ASSUME IInv, NEW w \in Workers,
           CommitLink(w) \/ CommitUnlink(w) \/ Download(w) \/ RefuseNumber(w) \/ Fail(w)
    PROVE  IInv'
<1> USE DEF Finish, Overlap, rows
<1>0. /\ overlapped \in BOOLEAN /\ links \in [Targets -> LinkStates]
      /\ served \subseteq Users \X Nat /\ Cleared
    BY DEF IInv, TypeOK, Rows
<1>1. CASE CommitLink(w) \/ CommitUnlink(w)
  <2>1. links' \in [Targets -> LinkStates]
      BY <1>0, <1>1 DEF CommitLink, CommitUnlink, LinkStates
  <2>2. Cleared'
      BY <1>0, <1>1 DEF CommitLink, CommitUnlink, Cleared
  <2>3. QED
      BY <1>0, <1>1, <2>1, <2>2, EndStep DEF CommitLink, CommitUnlink
<1>2. CASE Download(w)
  <2> DEFINE r == req[w]
  <2>1. Carried(r) /\ r.op = "download" /\ UNCHANGED <<evidence, versions, links, files>>
      BY <1>2 DEF Download, Serving, IInv, InFlight
  <2>2. served' = served \cup {<<r.user, r.loaded.current>>}
      BY <1>2 DEF Download
  <2>3. r.user \in Users /\ r.loaded.current \in Nat
      BY <2>1 DEF Carried, EvidenceRows
  <2>4. served' \subseteq Users \X Nat
      BY <1>0, <2>2, <2>3
  <2>5. Cleared'
      BY <1>0, <2>1, <2>2 DEF Carried, Cleared
  <2>6. QED
      BY <1>0, <1>2, <2>1, <2>4, <2>5, EndStep DEF Download
<1>3. CASE RefuseNumber(w) \/ Fail(w)
  <2>1. Fail(w)
      BY <1>3 DEF RefuseNumber
  <2>2. Cleared'
      BY <1>0, <2>1 DEF Fail, Cleared
  <2>3. QED
      BY <1>0, <2>1, <2>2, EndStep DEF Fail
<1>4. QED
    BY <1>1, <1>2, <1>3

\* Inactivate preserves the invariant.
LEMMA InactivateStep == ASSUME IInv, NEW w \in Workers, Inactivate(w) PROVE IInv'
<1>1. /\ evidence \in EvidenceRows /\ evidence # NoRow
      /\ UNCHANGED <<versions, links, files, served, req>>
    BY DEF Inactivate, Active, IInv, TypeOK
<1>2. /\ evidence' \in EvidenceRows /\ evidence' # NoRow
      /\ evidence'.current = evidence.current
      /\ evidence'.classification = evidence.classification
    BY <1>1, NullAssumption DEF Inactivate, EvidenceRows
<1>3. TypeOK'
    BY <1>1, <1>2 DEF IInv, TypeOK, Inactivate, Overlap
<1>4. Rows'
    BY <1>1, <1>2 DEF IInv, Rows, VersionsInOrder, CurrentIsNewest, VersionsHaveTheirFile, Cleared
<1>5. InFlight'
    BY <1>1, <1>2 DEF IInv, InFlight, Carried, Apart
<1>6. MeetsActive'
    BY <1>1 DEF MeetsActive, Inactivate, Overlap, IInv, TypeOK
<1>7. QED
    BY <1>3, <1>4, <1>5, <1>6 DEF IInv

\* The upload that creates the evidence was alone, and nothing else in flight
\* has met a row.
LEMMA UploadStep == ASSUME IInv, NEW w \in Workers, CommitUpload(w) PROVE IInv'
<1> DEFINE r == req[w]
<1>1. /\ r \in Requests /\ r # Idle /\ r.op = "upload" /\ Carried(r) /\ r.file # 0
      /\ evidence = NoRow /\ versions = <<>> /\ r.class \in Classes /\ r.number = 1
      /\ r.file \in 1 .. files
    BY DEF CommitUpload, Serving, IInv, TypeOK, Rows, InFlight, Carried
<1>2. /\ evidence' = [status |-> "active", classification |-> r.class, current |-> 1]
      /\ versions' = <<Version(r)>>
      /\ links' = [links EXCEPT ![r.target] = "active"]
      /\ req' = [req EXCEPT ![w] = Idle] /\ UNCHANGED <<files, served>>
      /\ overlapped' \in BOOLEAN
    BY DEF CommitUpload, Finish, Overlap, IInv, TypeOK
<1>3. /\ Version(r) \in VersionRows
      /\ Version(r).number = 1 /\ Version(r).classification = r.class /\ Version(r).file = r.file
    BY <1>1 DEF Version, VersionRows, Requests
<1>4. evidence' \in EvidenceRows /\ evidence' # NoRow
    BY <1>1, <1>2, NullAssumption DEF EvidenceRows
<1>5. versions' \in Seq(VersionRows) /\ Len(versions') = 1 /\ versions'[1] = Version(r)
    BY <1>2, <1>3
<1>6. TypeOK'
  <2>1. links' \in [Targets -> LinkStates]
      BY <1>2 DEF IInv, TypeOK, LinkStates
  <2>2. evidence'.current \in DOMAIN versions'
      BY <1>2, <1>5
  <2>3. QED
      BY <1>2, <1>4, <1>5, <2>1, <2>2 DEF IInv, TypeOK
<1>7. Rows'
  <2>1. served = {}
      BY <1>1 DEF IInv, Rows, Cleared
  <2>2. DOMAIN versions' = {1}
      BY <1>5
  <2>3. VersionsInOrder' /\ VersionsHaveTheirFile'
      BY <1>1, <1>2, <1>3, <1>5, <2>2 DEF VersionsInOrder, VersionsHaveTheirFile
  <2>4. CurrentIsNewest'
      BY <1>2, <1>3, <1>5 DEF CurrentIsNewest, Last
  <2>5. QED
      BY <1>2, <1>4, <2>1, <2>3, <2>4 DEF Rows, Cleared
<1>8. InFlight'
  <2>1. \A v \in Workers : req'[v] = IF v = w THEN Idle ELSE req[v]
      BY <1>2 DEF IInv, TypeOK
  <2>2. ASSUME NEW v \in Workers, NEW p, p = req'[v], p # Idle
        PROVE  Carried(p)'
    <3>1. v # w /\ p = req[v] /\ Carried(p) /\ Apart(p, r)
        BY <1>1, <2>1, <2>2 DEF IInv, InFlight
    <3>2. p.op \notin {"upload", "replace", "download"}
        BY <1>1, <3>1 DEF Carried, Apart
    <3>3. p.file # 0 => p.file \in 1 .. files /\ p.file # r.file
        BY <3>1 DEF Carried, Apart
    <3>4. QED
        BY <1>2, <1>3, <1>5, <3>2, <3>3 DEF Carried
  <2>3. QED
      BY <2>1, <2>2 DEF IInv, InFlight, Carried, Apart
<1>9. MeetsActive'
    BY <1>2, <1>4 DEF MeetsActive, Active
<1>10. QED
    BY <1>6, <1>7, <1>8, <1>9 DEF IInv

\* A free number is the next one, so no other replacement has committed since
\* the row was loaded, and the UPDATE leaves the classification of the version.
LEMMA ReplaceStep == ASSUME IInv, NEW w \in Workers, CommitReplace(w) PROVE IInv'
<1> DEFINE r == req[w]
           n == Len(versions) + 1
<1>1. /\ r \in Requests /\ r # Idle /\ r.op = "replace" /\ Carried(r)
      /\ r.file # 0 /\ FreeNumber(r.number)
      /\ evidence \in EvidenceRows /\ evidence # NoRow /\ r.class \in Classes
      /\ versions \in Seq(VersionRows) /\ files \in Nat
    BY DEF CommitReplace, Serving, IInv, TypeOK, InFlight, Carried
<1>2. /\ versions' = Append(versions, Version(r)) /\ evidence' = Replaced(r, n)
      /\ req' = [req EXCEPT ![w] = Idle] /\ UNCHANGED <<links, files, served>>
      /\ overlapped' \in BOOLEAN /\ (~overlapped' => ~overlapped)
    BY DEF CommitReplace, Finish, Overlap, IInv, TypeOK
<1>3. r.number = n /\ n \in Nat
  <2>1. r.number \in 1 .. n /\ n \in Nat
      BY <1>1 DEF Carried
  <2>2. r.number \notin 1 .. Len(versions)
      BY <1>1 DEF FreeNumber, IInv, Rows, VersionsInOrder
  <2>3. QED
      BY <2>1, <2>2, <1>1
<1>4. r.loaded.classification = evidence.classification
    BY <1>1, <1>3 DEF Carried
<1>5. /\ evidence' \in EvidenceRows /\ evidence' # NoRow
      /\ evidence'.status = evidence.status /\ evidence'.current = n
      /\ evidence'.classification = r.class
    BY <1>1, <1>2, <1>3, <1>4, NullAssumption DEF Replaced, Column, EvidenceRows
<1>6. /\ Version(r) \in VersionRows
      /\ Version(r).number = n /\ Version(r).classification = r.class /\ Version(r).file = r.file
    BY <1>1, <1>3 DEF Version, VersionRows, Requests
<1>7. /\ versions' \in Seq(VersionRows) /\ Len(versions') = n
      /\ \A i \in 1 .. Len(versions) : versions'[i] = versions[i]
      /\ versions'[n] = Version(r)
      /\ DOMAIN versions' = 1 .. n /\ DOMAIN versions = 1 .. Len(versions)
    BY <1>1, <1>2, <1>6
<1>8. \A i \in 1 .. n : i = n \/ i \in 1 .. Len(versions)
    BY <1>3
<1>9. TypeOK'
  <2>1. evidence'.current \in DOMAIN versions'
      BY <1>3, <1>5, <1>7
  <2>2. QED
      BY <1>2, <1>5, <1>7, <2>1 DEF IInv, TypeOK
<1>10. Rows'
  <2>1. VersionsInOrder'
      BY <1>6, <1>7, <1>8 DEF IInv, Rows, VersionsInOrder
  <2>2. CurrentIsNewest'
      BY <1>5, <1>6, <1>7 DEF CurrentIsNewest, Last
  <2>3. VersionsHaveTheirFile'
    <3>1. r.file \in 1 .. files /\ \A i \in DOMAIN versions : versions[i].file # r.file
        BY <1>1 DEF Carried
    <3>2. QED
        BY <1>2, <1>6, <1>7, <1>8, <3>1 DEF IInv, Rows, VersionsHaveTheirFile
  <2>4. Cleared'
    <3>1. \A s \in served : s[2] \in 1 .. Len(versions)
        BY <1>7 DEF IInv, Rows, Cleared
    <3>2. \A s \in served : s[2] \in DOMAIN versions'
        BY <1>3, <1>7, <3>1
    <3>3. QED
        BY <1>2, <1>7, <3>1, <3>2 DEF IInv, Rows, Cleared
  <2>5. QED
      BY <1>5, <2>1, <2>2, <2>3, <2>4 DEF Rows
<1>11. InFlight'
  <2>1. \A v \in Workers : req'[v] = IF v = w THEN Idle ELSE req[v]
      BY <1>2 DEF IInv, TypeOK
  <2>2. ASSUME NEW v \in Workers, NEW p, p = req'[v], p # Idle
        PROVE  Carried(p)'
    <3>1. v # w /\ p = req[v] /\ p \in Requests /\ Carried(p) /\ Apart(p, r)
        BY <1>1, <2>1, <2>2 DEF IInv, TypeOK, InFlight
    <3>2. p.op # "upload"
        BY <1>1, <3>1 DEF Carried
    <3>3. p.op = "replace" =>
              p.number \in 1 .. Len(versions') + 1 /\ p.number # Len(versions') + 1
        BY <1>3, <1>7, <3>1 DEF Carried
    <3>4. p.op = "download" =>
              /\ p.loaded.current \in DOMAIN versions'
              /\ versions'[p.loaded.current] = versions[p.loaded.current]
        BY <1>3, <1>7, <3>1 DEF Carried
    <3>5. p.file # 0 =>
              p.file \in 1 .. files /\ \A i \in DOMAIN versions' : versions'[i].file # p.file
      <4>1. p.file # 0 => p.file # r.file
          BY <3>1 DEF Apart
      <4>2. QED
          BY <1>6, <1>7, <1>8, <3>1, <4>1 DEF Carried
    <3>6. QED
        BY <1>2, <1>5, <3>1, <3>2, <3>3, <3>4, <3>5 DEF Carried
  <2>3. QED
      BY <2>1, <2>2 DEF IInv, InFlight, Carried, Apart
<1>12. MeetsActive'
    BY <1>1, <1>2, <1>5 DEF IInv, TypeOK, MeetsActive, Active
<1>13. QED
    BY <1>9, <1>10, <1>11, <1>12 DEF IInv

----------------------------------------------------------------------------

\* Every step preserves the invariant.
LEMMA NextInv == IInv /\ [Next]_vars => IInv'
<1> SUFFICES ASSUME IInv, [Next]_vars PROVE IInv'
    OBVIOUS
<1>1. CASE UNCHANGED vars
    BY <1>1 DEF vars, rows, IInv, TypeOK, Rows, InFlight, MeetsActive, VersionsInOrder,
       CurrentIsNewest, VersionsHaveTheirFile, Cleared, Carried, Apart, Active
<1>2. ASSUME NEW w \in Workers,
             StoreFile(w) \/ CommitUpload(w) \/ CommitReplace(w) \/ Inactivate(w)
      PROVE  IInv'
    BY <1>2, StoreStep, UploadStep, ReplaceStep, InactivateStep
<1>3. QED
    BY <1>1, <1>2, BeginSteps, EndSteps DEF Next

\* The invariant holds always.
LEMMA Invariant == Spec => []IInv
BY InitInv, NextInv, PTL DEF Spec

\* The rows and requests of the repository keep their types, and the evidence
\* points to one of its versions.
THEOREM WellTyped == Spec => []TypeOK
BY Invariant, PTL DEF IInv

\* Versions are numbered 1, 2, ... however replacements overlap, although each
\* takes its number before it waits for the upload; none is without a stored
\* file, and none shares one.
THEOREM FiledInOrder == Spec => []VersionsAreFiled
BY Invariant, PTL DEF IInv, Rows, VersionsAreFiled

\* The evidence points to its newest version and is classified as it is.
THEOREM NewestIsCurrent == Spec => []CurrentIsNewest
BY Invariant, PTL DEF IInv, Rows

\* Nobody but a manager is sent what was classified beyond internal use.
THEOREM OnlyCleared == Spec => []ServedAreCleared
<1>1. IInv => ServedAreCleared
    BY DEF IInv, Rows, Cleared, ServedAreCleared, Open
<1>2. QED
    BY <1>1, Invariant, PTL

\* As long as no two requests overlap, inactive evidence stays as it is.
THEOREM InactiveStays == Spec => InactiveIsFrozen
<1>1. IInv /\ [Next]_vars =>
          (evidence # NoRow /\ ~overlapped' => (evidence.status = "inactive" => UNCHANGED rows))
  <2> SUFFICES ASSUME IInv, [Next]_vars, evidence # NoRow, ~overlapped',
                      evidence.status = "inactive"
               PROVE  UNCHANGED rows
      OBVIOUS
  <2>1. ~Active /\ (UNCHANGED overlapped => ~overlapped)
      BY DEF Active
  <2>2. ASSUME NEW w \in Workers, CommitReplace(w) \/ CommitLink(w) \/ CommitUnlink(w)
        PROVE  FALSE
    <3>1. ~overlapped
        BY <2>2 DEF CommitReplace, CommitLink, CommitUnlink, Finish, Overlap, IInv, TypeOK
    <3>2. req[w] # Idle /\ req[w].op \in {"replace", "link", "unlink"}
        BY <2>2 DEF CommitReplace, CommitLink, CommitUnlink, Serving
    <3>3. QED
        BY <2>1, <3>1, <3>2 DEF IInv, MeetsActive
  <2>3. ASSUME NEW w \in Workers, CommitUpload(w)
        PROVE  FALSE
      BY <2>3 DEF CommitUpload, Serving, IInv, InFlight, Carried
  <2>4. ASSUME NEW w \in Workers, Inactivate(w)
        PROVE  FALSE
      BY <2>1, <2>4 DEF Inactivate
  <2>5. QED
      BY <2>2, <2>3, <2>4 DEF Next, vars, BeginUpload, BeginReplace, BeginLink, BeginUnlink,
         BeginDownload, Begin, StoreFile, RefuseNumber, Fail, Download, rows
<1>2. QED
    BY <1>1, Invariant, PTL DEF Spec, InactiveIsFrozen

=============================================================================
