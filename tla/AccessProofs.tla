---------------------------- MODULE AccessProofs ----------------------------
(***************************************************************************)
(* Proofs about who may enter (TenantAccess) and about one account's       *)
(* logins, resets and sessions (Accounts).  The types of the tenant's      *)
(* tables hold in every interleaving; the rules that a second request      *)
(* between load and commit can break are proved for any number of          *)
(* organizations, users, invitations, sessions and guesses served by one   *)
(* thread, which is what the AccessSerial and AccountSerial runs check.    *)
(***************************************************************************)
EXTENDS TenantAccess, Accounts, FiniteSetTheorems, TLAPS

----------------------------------------------------------------------------
(* Small sets.                                                             *)

\* A finite set with more than one element has one besides any given.
LEMMA AnotherElement ==
  ASSUME NEW S, IsFiniteSet(S), Cardinality(S) > 1, NEW x
  PROVE  \E y \in S : y # x
<1> SUFFICES ASSUME \A y \in S : y = x PROVE FALSE
  OBVIOUS
<1>1. S \subseteq {x}
  OBVIOUS
<1>2. IsFiniteSet({x}) /\ Cardinality({x}) = 1
  BY FS_Singleton
<1>3. Cardinality(S) <= Cardinality({x})
  BY <1>1, <1>2, FS_Subset
<1>4. Cardinality(S) \in Nat
  BY FS_CardinalityType
<1> QED
  BY <1>2, <1>3, <1>4

\* A finite set with at most one element has no two.
LEMMA NoTwoElements ==
  ASSUME NEW S, IsFiniteSet(S), Cardinality(S) <= 1, NEW x \in S, NEW y \in S
  PROVE  x = y
<1>1. IsFiniteSet(S \ {x})
  BY FS_RemoveElement
<1>2. Cardinality(S \ {x}) = Cardinality(S) - 1
  BY FS_RemoveElement
<1>3. Cardinality(S) \in Nat /\ Cardinality(S \ {x}) \in Nat
  BY <1>1, FS_CardinalityType
<1>4. Cardinality(S \ {x}) = 0
  BY <1>2, <1>3
<1>5. S \ {x} = {}
  BY <1>1, <1>4, FS_EmptySet
<1> QED
  BY <1>5

\* Replacing an element of a list leaves a list.
LEMMA Rewritten ==
  ASSUME NEW s \in Seq(Invites), NEW i \in DOMAIN s, NEW e \in Invites
  PROVE  LET t == [s EXCEPT ![i] = e]
         IN  /\ t \in Seq(Invites) /\ DOMAIN t = DOMAIN s /\ t[i] = e
             /\ \A j \in DOMAIN s \ {i} : t[j] = s[j]
  OBVIOUS

\* Appending an element leaves the ones before it.
LEMMA Appended ==
  ASSUME NEW s \in Seq(Invites), NEW e \in Invites
  PROVE  LET t == Append(s, e)
         IN  /\ t \in Seq(Invites) /\ DOMAIN s \subseteq DOMAIN t
             /\ \A j \in DOMAIN s : t[j] = s[j]
  OBVIOUS

----------------------------------------------------------------------------
(* Types, in every interleaving.                                           *)

\* What a request in flight refers to exists: rows are never deleted.
GoodRequest(r) ==
    /\ r.op \in {"accept", "lapse", "revoke", "resend"} => r.id \in DOMAIN invites
    /\ r.op = "role" => r.new \in Roles
    /\ r.op = "status" => r.new \in MemberStatuses
    /\ r.op \in {"role", "status"} => Has(<<r.org, r.email>>)

TypeInv ==
    /\ TypeOK
    /\ \A w \in Workers : req[w] # Idle => GoodRequest(req[w])

\* The fields of a request, by its operation.
LEMMA RequestFields ==
  ASSUME NEW r \in Requests
  PROVE  /\ r.op \in {"bootstrap", "invite", "accept", "lapse", "revoke", "resend",
                      "role", "status"}
         /\ r.op = "bootstrap" => r.email \in Roots
         /\ r.op = "invite" => r.org \in Orgs /\ r.email \in Users /\ r.role \in Roles
         /\ r.op \in {"role", "status"} =>
               r.org \in Orgs /\ r.email \in Users /\ r.seen \in Memberships
<1>1. CASE r \in [op : {"bootstrap"}, email : Roots]
  BY <1>1
<1>2. CASE r \in [op : {"invite"}, org : Orgs, email : Users, role : Roles]
  BY <1>2
<1>3. CASE r \in [op : {"accept"}, id : Nat \ {0}, known : BOOLEAN]
  BY <1>3
<1>4. CASE r \in [op : {"lapse", "revoke", "resend"}, id : Nat \ {0}]
  BY <1>4
<1>5. CASE r \in [op : {"role", "status"}, org : Orgs, email : Users,
                  seen : Memberships, new : Roles \cup MemberStatuses]
  BY <1>5
<1> QED
  BY <1>1, <1>2, <1>3, <1>4, <1>5 DEF Requests

\* A request that begins leaves the tables and is in flight.
LEMMA LoadTyped ==
  ASSUME TypeInv, NEW w \in Workers, NEW q \in Requests, GoodRequest(q), Load(w, q)
  PROVE  TypeInv'
<1>1. req' = [req EXCEPT ![w] = q] /\ UNCHANGED <<supers, accounts, org, membership, invites>>
  BY DEF Load
<1>2. req' \in [Workers -> Requests \cup {Idle}]
  BY <1>1 DEF TypeInv, TypeOK
<1>3. \A v \in Workers : req'[v] = q \/ req'[v] = req[v]
  BY <1>1 DEF TypeInv, TypeOK
<1> QED
  BY <1>1, <1>2, <1>3 DEF TypeInv, TypeOK, GoodRequest, Has

\* A step that answers a request, or serves none, and keeps rows.
LEMMA AnswerTyped ==
  ASSUME TypeInv, \/ \E w \in Workers : Answer(w)
                  \/ req' = req,
         supers' \subseteq Roots, accounts' \subseteq Users,
         org' \in [Orgs -> {"absent", "active", "suspended"}],
         membership' \in [Orgs \X Users -> Memberships \cup {NoRow}],
         invites' \in Seq(Invites), DOMAIN invites \subseteq DOMAIN invites',
         \A m \in Orgs \X Users : Has(m) => Has(m)'
  PROVE  TypeInv'
<1>1. req' \in [Workers -> Requests \cup {Idle}]
  BY DEF TypeInv, TypeOK, Answer
<1>2. ASSUME NEW v \in Workers, req'[v] # Idle
      PROVE  GoodRequest(req[v])' /\ req'[v] = req[v]
  <2>1. req'[v] = req[v]
    BY <1>2 DEF TypeInv, TypeOK, Answer
  <2>2. PICK r \in Requests : r = req[v] /\ GoodRequest(r)
    BY <1>2, <2>1 DEF TypeInv, TypeOK
  <2>3. r.op \in {"role", "status"} => <<r.org, r.email>> \in Orgs \X Users
    BY <2>2, RequestFields
  <2>4. r.op \in {"role", "status"} => Has(<<r.org, r.email>>)'
    BY <2>2, <2>3 DEF GoodRequest
  <2> QED
    BY <2>1, <2>2, <2>4 DEF GoodRequest
<1> QED
  BY <1>1, <1>2 DEF TypeInv, TypeOK, GoodRequest

----------------------------------------------------------------------------
(* What each commit does to the tables.                                    *)

\* A committed acceptance admits the addressee of its invitation, or nothing.
LEMMA AcceptIs ==
  ASSUME TypeInv, NEW w \in Workers, NEW r, r = req[w], CommitAccept(w)
  PROVE  /\ r # Idle /\ r.op = "accept" /\ r.id \in DOMAIN invites
         /\ invites[r.id] \in Invites
         /\ <<invites[r.id].org, invites[r.id].email>> \in Orgs \X Users
         /\ Answer(w) /\ UNCHANGED <<supers, org>>
         /\ \/ UNCHANGED <<accounts, membership, invites>>
            \/ LET m == <<invites[r.id].org, invites[r.id].email>>
               IN  /\ ~Has(m) /\ (r.known \/ m[2] \notin accounts)
                   /\ accounts' = accounts \cup {m[2]}
                   /\ membership'[m] = [role |-> invites[r.id].role, status |-> "active"]
                   /\ membership'[m] \in Memberships
                   /\ \A n \in Orgs \X Users : n # m => membership'[n] = membership[n]
                   /\ membership' \in [Orgs \X Users -> Memberships \cup {NoRow}]
                   /\ invites' \in Seq(Invites) /\ DOMAIN invites' = DOMAIN invites
                   /\ invites'[r.id].status = "accepted"
<1>1. r # Idle /\ r.op = "accept" /\ GoodRequest(r)
  BY DEF CommitAccept, Serving, TypeInv
<1>2. PICK i \in DOMAIN invites : i = r.id
  BY <1>1 DEF GoodRequest
<1>3. invites \in Seq(Invites) /\ invites[i] \in Invites
  BY DEF TypeInv, TypeOK
<1>4. PICK m \in Orgs \X Users : m = <<invites[i].org, invites[i].email>>
  BY <1>3 DEF Invites
<1>5. PICK e : e = [invites[i] EXCEPT !.status = "accepted"]
  OBVIOUS
<1>6. e \in Invites /\ e.status = "accepted"
  BY <1>3, <1>5 DEF Invites
<1>7. PICK x : x = [role |-> invites[i].role, status |-> "active"]
  OBVIOUS
<1>8. x \in Memberships
  BY <1>3, <1>7 DEF Invites, Memberships, MemberStatuses
<1>9. CASE Has(m) \/ (~r.known /\ m[2] \in accounts)
  <2>1. UNCHANGED <<accounts, membership, invites>>
    BY <1>2, <1>4, <1>9 DEF CommitAccept
  <2> QED
    BY <1>1, <1>2, <1>3, <1>4, <2>1 DEF CommitAccept
<1>10. CASE ~(Has(m) \/ (~r.known /\ m[2] \in accounts))
  <2>1. /\ accounts' = accounts \cup {m[2]}
        /\ membership' = [membership EXCEPT ![m] = x]
        /\ invites' = [invites EXCEPT ![i] = e]
    BY <1>2, <1>4, <1>5, <1>7, <1>10 DEF CommitAccept, Admitted
  <2>2. /\ invites' \in Seq(Invites) /\ DOMAIN invites' = DOMAIN invites
        /\ invites'[i].status = "accepted"
    BY <1>3, <1>6, <2>1, Rewritten
  <2>3. /\ membership'[m] = x
        /\ \A n \in Orgs \X Users : n # m => membership'[n] = membership[n]
        /\ membership' \in [Orgs \X Users -> Memberships \cup {NoRow}]
    BY <1>8, <2>1 DEF TypeInv, TypeOK
  <2> QED
    BY <1>1, <1>2, <1>3, <1>4, <1>7, <1>8, <1>10, <2>1, <2>2, <2>3 DEF CommitAccept
<1> QED
  BY <1>9, <1>10

\* A lapse, a revocation or a resend rewrites its invitation.
LEMMA InviteUpdateIs ==
  ASSUME TypeInv, NEW w \in Workers, CommitInviteUpdate(w)
  PROVE  /\ Answer(w) /\ UNCHANGED <<supers, accounts, org, membership>>
         /\ invites' \in Seq(Invites) /\ DOMAIN invites' = DOMAIN invites
<1>1. PICK r : r = req[w] /\ r # Idle /\ r.op \in {"lapse", "revoke", "resend"} /\ GoodRequest(r)
  BY DEF CommitInviteUpdate, Serving, TypeInv
<1>2. PICK i \in DOMAIN invites : i = r.id
  BY <1>1 DEF GoodRequest
<1>3. invites \in Seq(Invites) /\ invites[i] \in Invites
  BY DEF TypeInv, TypeOK
<1>4. PICK status, expired :
         /\ status = (CASE r.op = "lapse" -> "expired" [] r.op = "revoke" -> "revoked"
                        [] r.op = "resend" -> invites[i].status)
         /\ expired = IF r.op = "resend" THEN FALSE ELSE invites[i].expired
  OBVIOUS
<1>5. status \in {"pending", "accepted", "expired", "revoked"}
  BY <1>1, <1>3, <1>4 DEF Invites
<1>6. expired \in BOOLEAN
  BY <1>3, <1>4 DEF Invites
<1>7. PICK e : e = [invites[i] EXCEPT !.status = status, !.expired = expired]
  OBVIOUS
<1>8. e \in Invites
  BY <1>3, <1>5, <1>6, <1>7 DEF Invites
<1>9. invites' = [invites EXCEPT ![i] = e]
  BY <1>1, <1>2, <1>3, <1>4, <1>7 DEF CommitInviteUpdate
<1> QED
  <2>1. invites' \in Seq(Invites) /\ DOMAIN invites' = DOMAIN invites
    BY <1>3, <1>8, <1>9, Rewritten
  <2>2. Answer(w) /\ UNCHANGED <<supers, accounts, org, membership>>
    BY DEF CommitInviteUpdate
  <2> QED
    BY <2>1, <2>2

\* A change of role or status writes that column of its member, or nothing.
LEMMA MembershipIs ==
  ASSUME TypeInv, NEW w \in Workers, NEW r, r = req[w], CommitMembership(w)
  PROVE  /\ r # Idle /\ r.op \in {"role", "status"}
         /\ <<r.org, r.email>> \in Orgs \X Users /\ Has(<<r.org, r.email>>)
         /\ Answer(w) /\ UNCHANGED <<supers, accounts, org, invites>>
         /\ LET m == <<r.org, r.email>>
            IN  /\ membership'[m] \in Memberships
                /\ membership'[m].role =
                      IF r.op = "role" THEN Column(membership[m].role, r.seen.role, r.new)
                                       ELSE membership[m].role
                /\ membership'[m].status =
                      IF r.op = "status" THEN Column(membership[m].status, r.seen.status, r.new)
                                         ELSE membership[m].status
                /\ \A n \in Orgs \X Users : n # m => membership'[n] = membership[n]
                /\ membership' \in [Orgs \X Users -> Memberships \cup {NoRow}]
<1>1. r # Idle /\ r.op \in {"role", "status"} /\ GoodRequest(r) /\ r \in Requests
  BY DEF CommitMembership, Serving, TypeInv, TypeOK
<1>2. PICK m \in Orgs \X Users : m = <<r.org, r.email>>
  BY <1>1, RequestFields
<1>3. Has(m) /\ membership[m] \in Memberships
  BY <1>1, <1>2 DEF GoodRequest, Has, TypeInv, TypeOK
<1>4. PICK role, status :
         /\ role = IF r.op = "role" THEN Column(membership[m].role, r.seen.role, r.new)
                                    ELSE membership[m].role
         /\ status = IF r.op = "status" THEN Column(membership[m].status, r.seen.status, r.new)
                                        ELSE membership[m].status
  OBVIOUS
<1>5. role \in Roles /\ status \in MemberStatuses
  BY <1>1, <1>3, <1>4 DEF Memberships, GoodRequest, Column
<1>6. PICK e : e = [membership[m] EXCEPT !.role = role, !.status = status]
  OBVIOUS
<1>7. e \in Memberships /\ e.role = role /\ e.status = status
  BY <1>3, <1>5, <1>6 DEF Memberships
<1>8. membership' = [membership EXCEPT ![m] = e]
  BY <1>1, <1>2, <1>3, <1>4, <1>6 DEF CommitMembership
<1>9. /\ membership'[m] = e
      /\ \A n \in Orgs \X Users : n # m => membership'[n] = membership[n]
      /\ membership' \in [Orgs \X Users -> Memberships \cup {NoRow}]
  BY <1>7, <1>8 DEF TypeInv, TypeOK
<1> QED
  BY <1>1, <1>2, <1>3, <1>4, <1>7, <1>9 DEF CommitMembership

\* A committed invitation is appended, unless one is pending already.
LEMMA InviteIs ==
  ASSUME TypeInv, NEW w \in Workers, CommitInvite(w)
  PROVE  /\ Answer(w) /\ UNCHANGED <<supers, accounts, org, membership>>
         /\ invites' \in Seq(Invites) /\ DOMAIN invites \subseteq DOMAIN invites'
         /\ \A j \in DOMAIN invites : invites'[j] = invites[j]
<1>1. PICK r \in Requests : r = req[w] /\ r.op = "invite"
  BY DEF CommitInvite, Serving, TypeInv, TypeOK
<1>2. PICK e : e = [org |-> r.org, email |-> r.email, role |-> r.role, expired |-> FALSE,
                    status |-> "pending"]
  OBVIOUS
<1>3. e \in Invites
  BY <1>1, <1>2, RequestFields DEF Invites
<1>4. invites' = Append(invites, e) \/ invites' = invites
  BY <1>1, <1>2 DEF CommitInvite
<1>5. invites \in Seq(Invites)
  BY DEF TypeInv, TypeOK
<1> QED
  BY <1>3, <1>4, <1>5, Appended DEF CommitInvite

\* The clock marks an invitation as past its expiry and changes nothing else.
LEMMA ExpiryIs ==
  ASSUME TypeInv, NEW i \in DOMAIN invites, InviteExpires(i)
  PROVE  /\ UNCHANGED <<supers, accounts, org, membership, req>>
         /\ invites' \in Seq(Invites) /\ DOMAIN invites' = DOMAIN invites
         /\ \A j \in DOMAIN invites :
               /\ invites'[j].org = invites[j].org /\ invites'[j].email = invites[j].email
               /\ invites'[j].role = invites[j].role /\ invites'[j].status = invites[j].status
<1>1. invites \in Seq(Invites) /\ invites[i] \in Invites
  BY DEF TypeInv, TypeOK
<1>2. PICK e : e = [invites[i] EXCEPT !.expired = TRUE]
  OBVIOUS
<1>3. /\ e \in Invites /\ e.org = invites[i].org /\ e.email = invites[i].email
      /\ e.role = invites[i].role /\ e.status = invites[i].status
  BY <1>1, <1>2 DEF Invites
<1>4. invites' = [invites EXCEPT ![i] = e]
  BY <1>2 DEF InviteExpires
<1>5. /\ invites' \in Seq(Invites) /\ DOMAIN invites' = DOMAIN invites /\ invites'[i] = e
      /\ \A j \in DOMAIN invites \ {i} : invites'[j] = invites[j]
  BY <1>1, <1>3, <1>4, Rewritten
<1> QED
  BY <1>3, <1>5 DEF InviteExpires

----------------------------------------------------------------------------
(* The requests that begin.                                                *)

\* A step that begins a request, and what its checks have found.
Begun(w, q) ==
    /\ Load(w, q) /\ q \in Requests /\ GoodRequest(q)
    /\ q.op = "bootstrap" => supers = {}
    /\ q.op = "accept" =>
          /\ Pending(q.id) /\ (q.known <=> invites[q.id].email \in accounts)
          /\ q.known => CheckFR020(invites[q.id].email, invites[q.id].role)
    /\ q.op \in {"role", "status"} => q.seen = membership[<<q.org, q.email>>]
    /\ q.op = "role" =>
          /\ (q.email \in ActiveAdmins(q.org) /\ q.new # "org_admin") => SpareAdmin(q.org)
          /\ q.new # "consultant" => Cardinality(Of(q.email)) <= 1
    /\ q.op = "status" /\ q.email \in ActiveAdmins(q.org) /\ q.new = "disabled" =>
          SpareAdmin(q.org)

Begins(w) ==
    \/ \E email \in Roots : BeginBootstrap(w, email)
    \/ \E who \in People, o \in Orgs, u \in Users, role \in Roles :
          BeginInvite(w, who, o, u, role)
    \/ \E i \in DOMAIN invites :
          \/ BeginAccept(w, i) \/ BeginLapse(w, i)
          \/ \E who \in People : BeginRevoke(w, who, i) \/ BeginResend(w, who, i)
    \/ \E who \in People, o \in Orgs, u \in Users :
          \/ \E new \in Roles : BeginRoleChange(w, who, o, u, new)
          \/ \E new \in MemberStatuses : BeginStatusChange(w, who, o, u, new)

Commits(w) ==
    \/ CommitBootstrap(w) \/ CommitInvite(w) \/ CommitAccept(w)
    \/ CommitInviteUpdate(w) \/ CommitMembership(w)

\* Whatever begins has passed its checks.
LEMMA BegunIs ==
  ASSUME TypeInv, NEW w \in Workers, Begins(w)
  PROVE  \E q : Begun(w, q)
<1>1. ASSUME NEW email \in Roots, BeginBootstrap(w, email)
      PROVE  \E q : Begun(w, q)
  <2>1. PICK q : q = [op |-> "bootstrap", email |-> email]
    OBVIOUS
  <2>2. q \in Requests /\ q.op = "bootstrap" /\ GoodRequest(q)
    BY <2>1 DEF Requests, GoodRequest
  <2> QED
    BY <1>1, <2>1, <2>2 DEF Begun, BeginBootstrap, NotBootstrapped
<1>2. ASSUME NEW o \in Orgs, NEW u \in Users, NEW role \in Roles, NEW who,
             BeginInvite(w, who, o, u, role)
      PROVE  \E q : Begun(w, q)
  <2>1. PICK q : q = [op |-> "invite", org |-> o, email |-> u, role |-> role]
    OBVIOUS
  <2>2. q \in Requests /\ q.op = "invite" /\ GoodRequest(q)
    BY <2>1 DEF Requests, GoodRequest
  <2> QED
    BY <1>2, <2>1, <2>2 DEF Begun, BeginInvite
<1>3. ASSUME NEW i \in DOMAIN invites, BeginAccept(w, i)
      PROVE  \E q : Begun(w, q)
  <2>0. PICK known \in BOOLEAN :
           /\ known <=> invites[i].email \in accounts
           /\ known => CheckFR020(invites[i].email, invites[i].role)
           /\ Pending(i) /\ Load(w, [op |-> "accept", id |-> i, known |-> known])
    <3> DEFINE K == invites[i].email \in accounts
               Q == [op |-> "accept", id |-> i, known |-> K]
    <3>1. Pending(i) /\ Load(w, Q) /\ (K => CheckFR020(invites[i].email, invites[i].role))
      BY <1>3, Zenon DEF BeginAccept, Redeemable
    <3>2. K \in BOOLEAN
      OBVIOUS
    <3> WITNESS K \in BOOLEAN
    <3> QED
      BY <3>1
  <2>1. PICK q : q = [op |-> "accept", id |-> i, known |-> known] /\ Load(w, q)
    BY <2>0
  <2>2. i \in Nat \ {0}
    BY DEF TypeInv, TypeOK
  <2>3. q \in Requests
    BY <2>1, <2>2 DEF Requests
  <2>4. q.op = "accept" /\ q.id = i /\ q.known = known
    BY <2>1
  <2>5. GoodRequest(q)
    BY <2>4 DEF GoodRequest
  <2> QED
    BY <2>0, <2>1, <2>3, <2>4, <2>5 DEF Begun
<1>4. ASSUME NEW i \in DOMAIN invites, NEW who,
             BeginLapse(w, i) \/ BeginRevoke(w, who, i) \/ BeginResend(w, who, i)
      PROVE  \E q : Begun(w, q)
  <2>0. PICK op \in {"lapse", "revoke", "resend"} : Load(w, [op |-> op, id |-> i])
    BY <1>4 DEF BeginLapse, BeginRevoke, BeginResend
  <2>1. PICK q : q = [op |-> op, id |-> i] /\ Load(w, q)
    BY <2>0
  <2>2. i \in Nat \ {0}
    BY DEF TypeInv, TypeOK
  <2>3. q \in Requests
    BY <2>1, <2>2 DEF Requests
  <2>4. q.op \in {"lapse", "revoke", "resend"} /\ q.id = i
    BY <2>1
  <2>5. GoodRequest(q)
    BY <2>4 DEF GoodRequest
  <2> QED
    BY <2>1, <2>3, <2>4, <2>5 DEF Begun
<1>5. ASSUME NEW o \in Orgs, NEW u \in Users, NEW who, NEW new,
             \/ new \in Roles /\ BeginRoleChange(w, who, o, u, new)
             \/ new \in MemberStatuses /\ BeginStatusChange(w, who, o, u, new)
      PROVE  \E q : Begun(w, q)
  <2>0. PICK op \in {"role", "status"} :
           /\ Load(w, [op |-> op, org |-> o, email |-> u, seen |-> membership[<<o, u>>],
                       new |-> new])
           /\ Has(<<o, u>>)
           /\ op = "role" =>
                 /\ new \in Roles
                 /\ (u \in ActiveAdmins(o) /\ new # "org_admin") => SpareAdmin(o)
                 /\ new # "consultant" => Cardinality(Of(u)) <= 1
           /\ op = "status" =>
                 /\ new \in MemberStatuses
                 /\ (u \in ActiveAdmins(o) /\ new = "disabled") => SpareAdmin(o)
    <3>1. CASE new \in Roles /\ BeginRoleChange(w, who, o, u, new)
      BY <3>1 DEF BeginRoleChange
    <3>2. CASE new \in MemberStatuses /\ BeginStatusChange(w, who, o, u, new)
      BY <3>2 DEF BeginStatusChange
    <3> QED
      BY <1>5, <3>1, <3>2
  <2>1. PICK q :
           /\ q = [op |-> op, org |-> o, email |-> u, seen |-> membership[<<o, u>>], new |-> new]
           /\ Load(w, q)
    BY <2>0
  <2>2. membership[<<o, u>>] \in Memberships
    BY <2>0 DEF TypeInv, TypeOK, Has
  <2>3. new \in Roles \cup MemberStatuses
    BY <2>0
  <2>4. q \in Requests
    BY <2>1, <2>2, <2>3 DEF Requests
  <2>5. q.op = op /\ q.org = o /\ q.email = u /\ q.seen = membership[<<o, u>>] /\ q.new = new
    BY <2>1
  <2>6. GoodRequest(q)
    BY <2>0, <2>5 DEF GoodRequest
  <2> QED
    BY <2>0, <2>1, <2>4, <2>5, <2>6 DEF Begun
<1> QED
  BY <1>1, <1>2, <1>3, <1>4, <1>5 DEF Begins, People

\* Every step begins a request, commits one, or is the environment's.
LEMMA NextIs ==
  ASSUME Next
  PROVE  \/ \E w \in Workers : Begins(w) \/ Commits(w)
         \/ Environment
  BY DEF Next, Platform, Invitation, Membership, Begins, Commits

\* A commit keeps the types and every membership.
LEMMA CommitTyped ==
  ASSUME TypeInv, NEW w \in Workers, Commits(w)
  PROVE  TypeInv' /\ Answer(w) /\ \A m \in Orgs \X Users : Has(m) => Has(m)'
<1>1. CASE CommitBootstrap(w)
  <2>1. PICK r \in Requests : r = req[w] /\ r.op = "bootstrap"
    BY <1>1 DEF CommitBootstrap, Serving, TypeInv, TypeOK
  <2>2. supers' \subseteq Roots
    BY <1>1, <2>1, RequestFields DEF CommitBootstrap, TypeInv, TypeOK
  <2>3. Answer(w) /\ UNCHANGED <<accounts, org, membership, invites>>
    BY <1>1 DEF CommitBootstrap
  <2>4. \A m \in Orgs \X Users : Has(m) => Has(m)'
    BY <2>3 DEF Has
  <2> QED
    BY <2>2, <2>3, <2>4, AnswerTyped DEF TypeInv, TypeOK
<1>2. CASE CommitInvite(w) \/ CommitInviteUpdate(w)
  <2>1. /\ Answer(w) /\ UNCHANGED <<supers, accounts, org, membership>>
        /\ invites' \in Seq(Invites) /\ DOMAIN invites \subseteq DOMAIN invites'
    BY <1>2, InviteIs, InviteUpdateIs
  <2>2. \A m \in Orgs \X Users : Has(m) => Has(m)'
    BY <2>1 DEF Has
  <2> QED
    BY <2>1, <2>2, AnswerTyped DEF TypeInv, TypeOK
<1>3. CASE CommitAccept(w)
  <2>1. PICK r : r = req[w]
    OBVIOUS
  <2>2. Answer(w) /\ UNCHANGED <<supers, org>>
    BY <1>3, <2>1, AcceptIs
  <2>3. CASE UNCHANGED <<accounts, membership, invites>>
    <3>1. \A m \in Orgs \X Users : Has(m) => Has(m)'
      BY <2>3 DEF Has
    <3> QED
      BY <2>2, <2>3, <3>1, AnswerTyped DEF TypeInv, TypeOK
  <2>4. CASE ~UNCHANGED <<accounts, membership, invites>>
    <3>1. PICK m \in Orgs \X Users :
             /\ ~Has(m) /\ accounts' = accounts \cup {m[2]}
             /\ \A n \in Orgs \X Users : n # m => membership'[n] = membership[n]
             /\ membership' \in [Orgs \X Users -> Memberships \cup {NoRow}]
             /\ invites' \in Seq(Invites) /\ DOMAIN invites' = DOMAIN invites
      BY <1>3, <2>1, <2>4, AcceptIs
    <3>2. \A n \in Orgs \X Users : Has(n) => Has(n)'
      BY <3>1 DEF Has
    <3>3. accounts' \subseteq Users
      BY <3>1 DEF TypeInv, TypeOK
    <3> QED
      BY <2>2, <3>1, <3>2, <3>3, AnswerTyped DEF TypeInv, TypeOK
  <2> QED
    BY <2>3, <2>4
<1>4. CASE CommitMembership(w)
  <2>1. PICK r : r = req[w]
    OBVIOUS
  <2>2. PICK m \in Orgs \X Users :
           /\ Answer(w) /\ UNCHANGED <<supers, accounts, org, invites>>
           /\ membership'[m] \in Memberships
           /\ \A n \in Orgs \X Users : n # m => membership'[n] = membership[n]
           /\ membership' \in [Orgs \X Users -> Memberships \cup {NoRow}]
    BY <1>4, <2>1, MembershipIs
  <2>3. \A n \in Orgs \X Users : Has(n) => Has(n)'
    BY <2>2, NothingAssumption DEF Has
  <2> QED
    BY <2>2, <2>3, AnswerTyped DEF TypeInv, TypeOK
<1> QED
  BY <1>1, <1>2, <1>3, <1>4 DEF Commits

\* The environment keeps the types and every membership.
LEMMA EnvironmentTyped ==
  ASSUME TypeInv, Environment
  PROVE  /\ TypeInv' /\ UNCHANGED <<supers, accounts, membership>>
         /\ DOMAIN invites' = DOMAIN invites
         /\ \A j \in DOMAIN invites :
               /\ invites'[j].org = invites[j].org /\ invites'[j].email = invites[j].email
               /\ invites'[j].role = invites[j].role /\ invites'[j].status = invites[j].status
         /\ req' = req \/ \E w \in Workers : Answer(w)
<1>1. CASE \E i \in DOMAIN invites : InviteExpires(i)
  <2>1. PICK i \in DOMAIN invites : InviteExpires(i)
    BY <1>1
  <2>2. /\ UNCHANGED <<supers, accounts, org, membership, req>>
        /\ invites' \in Seq(Invites) /\ DOMAIN invites' = DOMAIN invites
        /\ \A j \in DOMAIN invites :
              /\ invites'[j].org = invites[j].org /\ invites'[j].email = invites[j].email
              /\ invites'[j].role = invites[j].role /\ invites'[j].status = invites[j].status
    BY <2>1, ExpiryIs
  <2>3. \A m \in Orgs \X Users : Has(m) => Has(m)'
    BY <2>2 DEF Has
  <2>4. TypeInv'
    BY <2>2, <2>3, AnswerTyped DEF TypeInv, TypeOK
  <2> QED
    BY <2>2, <2>4
<1>2. CASE ~\E i \in DOMAIN invites : InviteExpires(i)
  <2>1. /\ UNCHANGED <<supers, accounts, membership, invites>>
        /\ req' = req \/ \E w \in Workers : Answer(w)
        /\ org' \in [Orgs -> {"absent", "active", "suspended"}]
    BY <1>2
    DEF Environment, CreateOrganization, SetOrganizationStatus, Crash, TypeInv, TypeOK
  <2>2. \A m \in Orgs \X Users : Has(m) => Has(m)'
    BY <2>1 DEF Has
  <2>3. TypeInv'
    BY <2>1, <2>2, AnswerTyped DEF TypeInv, TypeOK
  <2> QED
    BY <2>1, <2>3
<1> QED
  BY <1>1, <1>2

\* The invariant holds at first.
LEMMA TypedAtFirst == Init => TypeInv
  BY DEF Init, TypeInv, TypeOK

\* Every step preserves it.
LEMMA TypesKept == TypeInv /\ [Next]_vars => TypeInv'
<1> SUFFICES ASSUME TypeInv, [Next]_vars PROVE TypeInv'
  OBVIOUS
<1>1. CASE UNCHANGED vars
  <2>1. \A m \in Orgs \X Users : Has(m) => Has(m)'
    BY <1>1 DEF vars, Has
  <2> QED
    BY <1>1, <2>1, AnswerTyped DEF vars, TypeInv, TypeOK
<1>2. CASE Next
  <2>1. ASSUME NEW w \in Workers, Begins(w) PROVE TypeInv'
    BY <2>1, BegunIs, LoadTyped DEF Begun
  <2> QED
    BY <1>2, <2>1, NextIs, CommitTyped, EnvironmentTyped
<1> QED
  BY <1>1, <1>2

(* Rows, invitations and requests keep their types in every interleaving.  *)
THEOREM WellTyped == Spec => []TypeOK
<1>1. TypeInv => TypeOK
  BY DEF TypeInv
<1> QED
  BY TypedAtFirst, TypesKept, <1>1, PTL DEF Spec

----------------------------------------------------------------------------
(* One thread: what holds when requests do not overlap.                    *)

OneThread == \A v, w \in Workers : v = w

\* Memberships as the rules want them; Roaming is FR-020 without counting.
Roaming(u) ==
    \A m, n \in Of(u) : m # n => membership[m].role = "consultant"

SerialRows ==
    /\ supers = {} \/ \E x \in Roots : supers = {x}
    /\ IsFiniteSet(accounts)
    /\ IsFiniteSet({m \in Orgs \X Users : Has(m)})
    /\ \A m \in Orgs \X Users : Has(m) => m[2] \in accounts
    /\ \A u \in Users : Roaming(u)

\* What the request in flight has found is still so.
SerialRequest(r) ==
    /\ r.op = "bootstrap" => supers = {}
    /\ r.op = "accept" =>
          /\ Pending(r.id) /\ (r.known <=> invites[r.id].email \in accounts)
          /\ r.known => CheckFR020(invites[r.id].email, invites[r.id].role)
    /\ r.op \in {"role", "status"} => r.seen = membership[<<r.org, r.email>>]
    /\ r.op = "role" =>
          /\ (r.email \in ActiveAdmins(r.org) /\ r.new # "org_admin") => SpareAdmin(r.org)
          /\ r.new # "consultant" => Cardinality(Of(r.email)) <= 1
    /\ r.op = "status" /\ r.email \in ActiveAdmins(r.org) /\ r.new = "disabled" =>
          SpareAdmin(r.org)

SerialInv ==
    /\ TypeInv
    /\ SerialRows
    /\ \A w \in Workers : req[w] # Idle => SerialRequest(req[w])

\* An answered request leaves none under way.
LEMMA AnsweredAlone ==
  ASSUME OneThread, SerialInv, TypeInv', NEW w \in Workers, Answer(w), SerialRows'
  PROVE  SerialInv'
<1>1. \A v \in Workers : req'[v] = Idle
  BY DEF OneThread, SerialInv, TypeInv, TypeOK, Answer
<1> QED
  BY <1>1 DEF SerialInv

\* The memberships of a user are finitely many.
LEMMA OfIsFinite ==
  ASSUME SerialRows, NEW u
  PROVE  IsFiniteSet(Of(u))
<1>1. Of(u) \in SUBSET {m \in Orgs \X Users : Has(m)}
  BY DEF Of
<1> QED
  BY <1>1, FS_Subset DEF SerialRows

\* So are the administrators of an organization.
LEMMA AdminsAreFinite ==
  ASSUME SerialRows, NEW o \in Orgs
  PROVE  IsFiniteSet(ActiveAdmins(o))
<1>1. ActiveAdmins(o) \in SUBSET accounts
  BY DEF ActiveAdmins, ActiveMember, SerialRows
<1> QED
  BY <1>1, FS_Subset DEF SerialRows

\* Memberships that stay leave the rules they obey.
LEMMA SameRows ==
  ASSUME SerialRows, UNCHANGED <<supers, accounts, membership>>
  PROVE  SerialRows'
  BY DEF SerialRows, Roaming, Of, Has

\* An accepted invitation, one at a time: the addressee is new here, and a
\* consultant if at home elsewhere.
LEMMA AcceptRows ==
  ASSUME SerialInv, NEW w \in Workers, CommitAccept(w)
  PROVE  SerialRows'
<1>1. PICK r : r = req[w]
  OBVIOUS
<1>2. r # Idle /\ r.op = "accept" /\ r.id \in DOMAIN invites /\ invites[r.id] \in Invites
  BY <1>1, AcceptIs DEF SerialInv
<1>3. SerialRequest(r)
  BY <1>1, <1>2 DEF SerialInv
<1>4. CASE UNCHANGED <<accounts, membership, invites>>
  <2>1. UNCHANGED supers
    BY <1>1, AcceptIs DEF SerialInv
  <2> QED
    BY <1>4, <2>1, SameRows DEF SerialInv
<1>5. CASE ~UNCHANGED <<accounts, membership, invites>>
  <2>1. PICK o \in Orgs : o = invites[r.id].org
    BY <1>2 DEF Invites
  <2>2. PICK u \in Users : u = invites[r.id].email
    BY <1>2 DEF Invites
  <2>3. PICK role : role = invites[r.id].role
    OBVIOUS
  <2>4. PICK m \in Orgs \X Users : m = <<o, u>>
    OBVIOUS
  <2>5. /\ ~Has(m) /\ (r.known \/ u \notin accounts) /\ supers' = supers
        /\ accounts' = accounts \cup {u}
        /\ membership'[m] = [role |-> role, status |-> "active"]
        /\ membership'[m] \in Memberships
        /\ \A n \in Orgs \X Users : n # m => membership'[n] = membership[n]
    <3>1. m = <<invites[r.id].org, invites[r.id].email>> /\ m[2] = u
      BY <2>1, <2>2, <2>4
    <3>2. /\ ~Has(m) /\ (r.known \/ m[2] \notin accounts) /\ supers' = supers
          /\ accounts' = accounts \cup {m[2]}
          /\ membership'[m] = [role |-> invites[r.id].role, status |-> "active"]
          /\ membership'[m] \in Memberships
          /\ \A n \in Orgs \X Users : n # m => membership'[n] = membership[n]
      BY <1>1, <1>5, <3>1, AcceptIs DEF SerialInv
    <3> QED
      BY <2>3, <3>1, <3>2
  <2>6. Has(m)' /\ membership'[m].role = role
    BY <2>5, NothingAssumption DEF Has
  <2>7. \A n \in Orgs \X Users : n # m => (Has(n)' <=> Has(n))
    BY <2>5 DEF Has
  <2>8. CheckFR020(u, role)
    <3>1. CASE r.known
      BY <1>2, <1>3, <2>2, <2>3, <3>1 DEF SerialRequest
    <3>2. CASE ~r.known
      <4>1. u \notin accounts
        BY <2>5, <3>2
      <4>2. Of(u) = {}
        BY <4>1 DEF Of, SerialInv, SerialRows
      <4> QED
        BY <4>2 DEF CheckFR020
    <3> QED
      BY <3>1, <3>2
  <2>9. Of(u)' = Of(u) \cup {m}
    BY <2>1, <2>4, <2>6, <2>7 DEF Of
  <2>10. \A v \in Users : v # u => Of(v)' = Of(v) /\ m \notin Of(v)
    BY <2>1, <2>4, <2>7 DEF Of
  <2>11. ASSUME NEW v \in Users
        PROVE  Roaming(v)'
    <3>1. Roaming(v)
      BY DEF SerialInv, SerialRows
    <3>2. CASE v # u
      <4>1. \A n \in Of(v) : membership'[n] = membership[n]
        BY <2>5, <2>10, <3>2 DEF Of
      <4> QED
        BY <2>10, <3>1, <3>2, <4>1 DEF Roaming
    <3>3. CASE v = u
      <4>1. \A n \in Of(u) : n # m /\ membership'[n] = membership[n]
        BY <2>5 DEF Of
      <4>2. Of(u) # {} => role = "consultant" /\ \A n \in Of(u) : membership[n].role = "consultant"
        BY <2>8 DEF CheckFR020
      <4> QED
        BY <2>6, <2>9, <3>3, <4>1, <4>2 DEF Roaming
    <3> QED
      BY <3>2, <3>3
  <2>12. IsFiniteSet({n \in Orgs \X Users : Has(n)})'
    <3>1. {n \in Orgs \X Users : Has(n)}' = {n \in Orgs \X Users : Has(n)} \cup {m}
      BY <2>6, <2>7
    <3>2. IsFiniteSet({n \in Orgs \X Users : Has(n)} \cup {m})
      BY FS_AddElement DEF SerialInv, SerialRows
    <3> QED
      BY <3>1, <3>2
  <2>13. IsFiniteSet(accounts')
    BY <2>5, FS_AddElement DEF SerialInv, SerialRows
  <2>14. \A n \in Orgs \X Users : Has(n)' => n[2] \in accounts'
    BY <2>1, <2>4, <2>5, <2>7 DEF SerialInv, SerialRows
  <2> QED
    BY <2>5, <2>11, <2>12, <2>13, <2>14 DEF SerialInv, SerialRows
<1> QED
  BY <1>4, <1>5

\* A change of role or status, one at a time, writes what it was asked to.
LEMMA MembershipWrites ==
  ASSUME SerialInv, NEW w \in Workers, CommitMembership(w)
  PROVE  \E r \in Requests, m \in Orgs \X Users :
            /\ SerialRequest(r) /\ GoodRequest(r) /\ r.op \in {"role", "status"}
            /\ m = <<r.org, r.email>> /\ r.org \in Orgs /\ r.email \in Users
            /\ Has(m) /\ Has(m)' /\ UNCHANGED <<supers, accounts>>
            /\ membership'[m].role = IF r.op = "role" THEN r.new ELSE membership[m].role
            /\ membership'[m].status = IF r.op = "status" THEN r.new ELSE membership[m].status
            /\ \A n \in Orgs \X Users : n # m => membership'[n] = membership[n]
<1>1. PICK r : r = req[w]
  OBVIOUS
<1>2. r # Idle /\ r.op \in {"role", "status"} /\ <<r.org, r.email>> \in Orgs \X Users
  BY <1>1, MembershipIs DEF SerialInv
<1>3. r \in Requests /\ SerialRequest(r) /\ GoodRequest(r)
  BY <1>1, <1>2 DEF SerialInv, TypeInv, TypeOK
<1>4. PICK m \in Orgs \X Users : m = <<r.org, r.email>>
  BY <1>2
<1>5. /\ Has(m) /\ UNCHANGED <<supers, accounts>>
      /\ membership'[m] \in Memberships
      /\ membership'[m].role = IF r.op = "role" THEN Column(membership[m].role, r.seen.role, r.new)
                                                ELSE membership[m].role
      /\ membership'[m].status =
            IF r.op = "status" THEN Column(membership[m].status, r.seen.status, r.new)
                               ELSE membership[m].status
      /\ \A n \in Orgs \X Users : n # m => membership'[n] = membership[n]
  BY <1>1, <1>4, MembershipIs DEF SerialInv
<1>6. r.seen = membership[m]
  BY <1>2, <1>3, <1>4 DEF SerialRequest
<1>7. Has(m)'
  BY <1>5, NothingAssumption DEF Has
<1>8. r.org \in Orgs /\ r.email \in Users
  BY <1>2, <1>3, RequestFields
<1> QED
  BY <1>2, <1>3, <1>4, <1>5, <1>6, <1>7, <1>8 DEF Column

\* No change of role or status makes a roaming member anything but a consultant.
LEMMA MembershipRows ==
  ASSUME SerialInv, NEW w \in Workers, CommitMembership(w)
  PROVE  SerialRows'
<1>1. PICK r \in Requests, m \in Orgs \X Users :
         /\ SerialRequest(r) /\ r.op \in {"role", "status"}
         /\ m = <<r.org, r.email>> /\ r.org \in Orgs /\ r.email \in Users
         /\ Has(m) /\ Has(m)' /\ UNCHANGED <<supers, accounts>>
         /\ membership'[m].role = IF r.op = "role" THEN r.new ELSE membership[m].role
         /\ \A n \in Orgs \X Users : n # m => membership'[n] = membership[n]
  BY MembershipWrites
<1>2. \A n \in Orgs \X Users : Has(n)' <=> Has(n)
  BY <1>1 DEF Has
<1>3. \A u \in Users : Of(u)' = Of(u)
  BY <1>2 DEF Of
<1>4. ASSUME NEW u \in Users
      PROVE  Roaming(u)'
  <2>1. Roaming(u)
    BY DEF SerialInv, SerialRows
  <2>2. ASSUME NEW n \in Of(u), NEW k \in Of(u), n # k
        PROVE  membership'[n].role = "consultant"
    <3>1. membership[n].role = "consultant"
      BY <2>1, <2>2 DEF Roaming
    <3>2. CASE n # m
      BY <1>1, <3>1, <3>2 DEF Of
    <3>3. CASE n = m
      <4>1. u = r.email
        BY <1>1, <3>3 DEF Of
      <4>2. r.op = "role" => r.new = "consultant"
        <5>1. ASSUME Cardinality(Of(r.email)) <= 1
              PROVE  FALSE
          BY <2>2, <4>1, <5>1, OfIsFinite, NoTwoElements DEF SerialInv
        <5> QED
          BY <1>1, <5>1 DEF SerialRequest
      <4> QED
        BY <1>1, <3>1, <3>3, <4>2
    <3> QED
      BY <3>2, <3>3
  <2> QED
    BY <1>3, <2>2 DEF Roaming
<1>5. {n \in Orgs \X Users : Has(n)}' = {n \in Orgs \X Users : Has(n)}
  BY <1>2
<1> QED
  BY <1>1, <1>2, <1>4, <1>5 DEF SerialInv, SerialRows

\* Every commit of one thread preserves the invariant.
LEMMA SerialCommits ==
  ASSUME OneThread, SerialInv, NEW w \in Workers, Commits(w)
  PROVE  SerialInv'
<1>1. TypeInv' /\ Answer(w)
  BY CommitTyped DEF SerialInv
<1>2. CASE CommitBootstrap(w)
  <2>1. PICK r \in Requests : r = req[w] /\ r.op = "bootstrap" /\ SerialRequest(r)
    BY <1>2 DEF CommitBootstrap, Serving, SerialInv, TypeInv, TypeOK
  <2>2. supers' = {r.email} /\ r.email \in Roots
    BY <1>2, <2>1, RequestFields DEF CommitBootstrap, SerialRequest
  <2>3. UNCHANGED <<accounts, membership>>
    BY <1>2 DEF CommitBootstrap
  <2>4. SerialRows'
    BY <2>2, <2>3 DEF SerialInv, SerialRows, Roaming, Of, Has
  <2> QED
    BY <1>1, <2>4, AnsweredAlone
<1>3. CASE CommitInvite(w) \/ CommitInviteUpdate(w)
  BY <1>1, <1>3, InviteIs, InviteUpdateIs, SameRows, AnsweredAlone DEF SerialInv
<1>4. CASE CommitAccept(w)
  BY <1>1, <1>4, AcceptRows, AnsweredAlone
<1>5. CASE CommitMembership(w)
  BY <1>1, <1>5, MembershipRows, AnsweredAlone
<1> QED
  BY <1>2, <1>3, <1>4, <1>5 DEF Commits

\* Beginning a request and the environment's steps preserve the invariant.
LEMMA SerialOthers ==
  ASSUME OneThread, SerialInv, (\E w \in Workers : Begins(w)) \/ Environment \/ UNCHANGED vars
  PROVE  SerialInv'
<1>1. CASE \E w \in Workers : Begins(w)
  <2>0. PICK w \in Workers : \E q : Begun(w, q)
    BY <1>1, BegunIs DEF SerialInv
  <2>1. PICK q : Begun(w, q)
    BY <2>0
  <2>2. TypeInv'
    BY <2>1, LoadTyped DEF Begun, SerialInv
  <2>3. req' = [req EXCEPT ![w] = q] /\ UNCHANGED <<supers, accounts, org, membership, invites>>
    BY <2>1 DEF Begun, Load
  <2>4. \A v \in Workers : req'[v] = q
    BY <2>3 DEF OneThread, SerialInv, TypeInv, TypeOK
  <2>5. SerialRequest(q)
    BY <2>1 DEF Begun, SerialRequest
  <2>6. SerialRequest(q)'
    BY <2>3, <2>5 DEF SerialRequest, Pending, CheckFR020, Of, Has, ActiveAdmins, ActiveMember,
                      SpareAdmin
  <2>7. SerialRows'
    BY <2>3, SameRows DEF SerialInv
  <2> QED
    BY <2>2, <2>4, <2>6, <2>7 DEF SerialInv
<1>2. CASE Environment \/ UNCHANGED vars
  <2>1. /\ TypeInv' /\ UNCHANGED <<supers, accounts, membership>>
        /\ DOMAIN invites' = DOMAIN invites
        /\ \A j \in DOMAIN invites :
              /\ invites'[j].org = invites[j].org /\ invites'[j].email = invites[j].email
              /\ invites'[j].role = invites[j].role /\ invites'[j].status = invites[j].status
        /\ req' = req \/ \E w \in Workers : Answer(w)
    <3>1. CASE UNCHANGED vars
      BY <3>1, TypesKept DEF vars, SerialInv
    <3> QED
      BY <1>2, <3>1, EnvironmentTyped DEF SerialInv
  <2>2. SerialRows'
    BY <2>1, SameRows DEF SerialInv
  <2>3. CASE \E w \in Workers : Answer(w)
    BY <2>1, <2>2, <2>3, AnsweredAlone
  <2>4. CASE req' = req
    <3>1. ASSUME NEW w \in Workers, req[w] # Idle
          PROVE  SerialRequest(req[w])'
      <4>1. PICK r : r = req[w] /\ SerialRequest(r) /\ GoodRequest(r)
        BY <3>1 DEF SerialInv, TypeInv
      <4>2. SerialRequest(r)'
        BY <2>1, <4>1 DEF SerialRequest, GoodRequest, Pending, CheckFR020, Of, Has,
                          ActiveAdmins, ActiveMember, SpareAdmin
      <4> QED
        BY <2>4, <4>1, <4>2 DEF SerialRequest
    <3> QED
      BY <2>1, <2>2, <2>4, <3>1 DEF SerialInv
  <2> QED
    BY <2>1, <2>3, <2>4
<1> QED
  BY <1>1, <1>2

\* The invariant holds at first.
LEMMA SerialAtFirst == Init => SerialInv
<1> SUFFICES ASSUME Init PROVE SerialInv
  OBVIOUS
<1>1. \A m \in Orgs \X Users : ~Has(m)
  BY DEF Init, Has
<1>2. {m \in Orgs \X Users : Has(m)} = {} /\ accounts = {}
  BY <1>1 DEF Init
<1>3. IsFiniteSet(accounts) /\ IsFiniteSet({m \in Orgs \X Users : Has(m)})
  BY <1>2, FS_EmptySet
<1>4. \A u \in Users : Roaming(u)
  BY <1>1 DEF Roaming, Of
<1> QED
  BY <1>1, <1>3, <1>4, TypedAtFirst DEF Init, SerialInv, SerialRows

\* Every step of one thread preserves it.
LEMMA SerialKept == OneThread /\ SerialInv /\ [Next]_vars => SerialInv'
  BY NextIs, SerialCommits, SerialOthers

(* Served one request at a time, whoever belongs to two organizations is a *)
(* consultant in both and the platform has one super admin.                *)
THEOREM SoundMemberships == ASSUME OneThread PROVE Spec => []MembershipsAreSound
<1>1. SerialInv => MembershipsAreSound
  <2> SUFFICES ASSUME SerialInv PROVE MembershipsAreSound
    OBVIOUS
  <2>1. TypeOK
    BY DEF SerialInv, TypeInv
  <2>2. ASSUME NEW u \in Users, Cardinality(Of(u)) > 1, NEW m \in Of(u)
        PROVE  membership[m].role = "consultant"
    <3>1. PICK n \in Of(u) : n # m
      BY <2>2, OfIsFinite, AnotherElement DEF SerialInv
    <3> QED
      BY <2>2, <3>1 DEF SerialInv, SerialRows, Roaming
  <2>3. Cardinality(supers) <= 1
    <3>1. CASE supers = {}
      <4>1. Cardinality(supers) = 0
        BY <3>1, FS_EmptySet
      <4> QED
        BY <4>1
    <3>2. CASE \E x \in Roots : supers = {x}
      <4>1. Cardinality(supers) = 1
        BY <3>2, FS_Singleton
      <4> QED
        BY <4>1
    <3> QED
      BY <3>1, <3>2 DEF SerialInv, SerialRows
  <2> QED
    BY <2>1, <2>2, <2>3 DEF MembershipsAreSound, OnlyConsultantsRoam, BootstrapsOnce
<1> QED
  BY SerialAtFirst, SerialKept, <1>1, PTL DEF Spec

(* Served one request at a time, an organization that has an active        *)
(* administrator keeps one through every change of role or status.         *)
THEOREM AdminRemains == ASSUME OneThread PROVE Spec => KeepsAnAdmin
<1>1. SerialInv /\ [Next]_vars =>
         [\A o \in Orgs : ActiveAdmins(o) # {} => ActiveAdmins(o)' # {}]_vars
  <2> SUFFICES ASSUME SerialInv, Next, NEW o \in Orgs, NEW u \in ActiveAdmins(o)
               PROVE  ActiveAdmins(o)' # {}
    OBVIOUS
  <2>1. \A v \in Users : /\ <<o, v>> \in Orgs \X Users
                         /\ membership'[<<o, v>>] = membership[<<o, v>>] =>
                               (v \in ActiveAdmins(o)' <=> v \in ActiveAdmins(o))
    BY DEF ActiveAdmins, ActiveMember, Has
  <2>2. u \in Users /\ Has(<<o, u>>)
    BY DEF ActiveAdmins, ActiveMember
  <2>3. CASE membership'[<<o, u>>] = membership[<<o, u>>]
    BY <2>1, <2>2, <2>3
  <2>4. CASE membership'[<<o, u>>] # membership[<<o, u>>]
    <3>1. PICK w \in Workers : CommitMembership(w) \/ CommitAccept(w)
      <4>1. ASSUME NEW w \in Workers, Begins(w) PROVE FALSE
        BY <2>4, <4>1, BegunIs DEF SerialInv, Begun, Load
      <4>2. ~Environment
        BY <2>4, EnvironmentTyped DEF SerialInv
      <4>3. PICK w \in Workers : Commits(w)
        BY <4>1, <4>2, NextIs
      <4> QED
        BY <2>4, <4>3 DEF Commits, CommitBootstrap, CommitInvite, CommitInviteUpdate
    <3>2. ~CommitAccept(w)
      <4> SUFFICES ASSUME CommitAccept(w) PROVE FALSE
        OBVIOUS
      <4>1. PICK r : r = req[w]
        OBVIOUS
      <4>2. PICK m \in Orgs \X Users :
               ~Has(m) /\ \A n \in Orgs \X Users : n # m => membership'[n] = membership[n]
        BY <2>1, <2>2, <2>4, <4>1, AcceptIs DEF SerialInv
      <4> QED
        BY <2>1, <2>2, <2>4, <4>2
    <3>3. PICK r \in Requests, m \in Orgs \X Users :
             /\ SerialRequest(r) /\ GoodRequest(r) /\ r.op \in {"role", "status"}
             /\ m = <<r.org, r.email>> /\ r.org \in Orgs /\ r.email \in Users /\ Has(m)'
             /\ membership'[m].role = IF r.op = "role" THEN r.new ELSE membership[m].role
             /\ membership'[m].status = IF r.op = "status" THEN r.new ELSE membership[m].status
             /\ \A n \in Orgs \X Users : n # m => membership'[n] = membership[n]
      BY <3>1, <3>2, MembershipWrites
    <3>4. m = <<o, u>> /\ r.org = o /\ r.email = u
      BY <2>1, <2>2, <2>4, <3>3
    <3>5. CASE SpareAdmin(o)
      <4>1. PICK v \in ActiveAdmins(o) : v # u
        BY <3>5, AdminsAreFinite, AnotherElement DEF SpareAdmin, SerialInv
      <4>2. v \in Users /\ <<o, v>> # m
        BY <3>4, <4>1 DEF ActiveAdmins
      <4> QED
        BY <2>1, <3>3, <4>1, <4>2
    <3>6. CASE ~SpareAdmin(o)
      <4>1. r.op = "role" => r.new = "org_admin"
        BY <3>3, <3>4, <3>6 DEF SerialRequest
      <4>2. r.op = "status" => r.new = "active"
        BY <3>3, <3>4, <3>6 DEF SerialRequest, GoodRequest, MemberStatuses
      <4>3. membership[m].role = "org_admin" /\ membership[m].status = "active"
        BY <3>4 DEF ActiveAdmins, ActiveMember
      <4>4. membership'[m].role = "org_admin" /\ membership'[m].status = "active"
        BY <3>3, <4>1, <4>2, <4>3
      <4>5. u \in ActiveAdmins(o)'
        BY <2>2, <3>3, <3>4, <4>4 DEF ActiveAdmins, ActiveMember
      <4> QED
        BY <4>5
    <3> QED
      BY <3>5, <3>6
  <2> QED
    BY <2>3, <2>4
<1> QED
  BY SerialAtFirst, SerialKept, <1>1, PTL DEF Spec, KeepsAnAdmin

(* Served one request at a time, nobody becomes a member but by an         *)
(* invitation that is pending until the step that admits its addressee.    *)
THEOREM OnlyTheInvitedEnter == ASSUME OneThread PROVE Spec => AdmittedByPendingInvite
<1>1. SerialInv /\ [Next]_vars =>
         [\A m \in Orgs \X Users : ~Has(m) /\ Has(m)' =>
             \E i \in DOMAIN invites :
                 /\ Pending(i)
                 /\ invites'[i].status = "accepted"
                 /\ <<invites[i].org, invites[i].email>> = m]_vars
  <2> SUFFICES ASSUME SerialInv, Next, NEW m \in Orgs \X Users, ~Has(m), Has(m)'
               PROVE  \E i \in DOMAIN invites :
                         /\ Pending(i)
                         /\ invites'[i].status = "accepted"
                         /\ <<invites[i].org, invites[i].email>> = m
    OBVIOUS
  <2>1. PICK w \in Workers : CommitAccept(w)
    <3>1. ASSUME NEW w \in Workers, Begins(w) PROVE FALSE
      BY <3>1, BegunIs DEF SerialInv, Begun, Load, Has
    <3>2. ~Environment
      BY EnvironmentTyped DEF SerialInv, Has
    <3>3. PICK w \in Workers : Commits(w)
      BY <3>1, <3>2, NextIs
    <3>4. ~CommitMembership(w)
      <4> SUFFICES ASSUME CommitMembership(w) PROVE FALSE
        OBVIOUS
      <4>1. PICK n \in Orgs \X Users :
               Has(n) /\ \A k \in Orgs \X Users : k # n => membership'[k] = membership[k]
        BY MembershipWrites
      <4> QED
        BY <4>1 DEF Has
    <3> QED
      BY <3>3, <3>4 DEF Commits, CommitBootstrap, CommitInvite, CommitInviteUpdate, Has
  <2>2. PICK r : r = req[w]
    OBVIOUS
  <2>3. r # Idle /\ r.op = "accept" /\ r.id \in DOMAIN invites
    BY <2>1, <2>2, AcceptIs DEF SerialInv
  <2>4. Pending(r.id)
    BY <2>2, <2>3 DEF SerialInv, SerialRequest
  <2>5. membership' # membership
    BY DEF Has
  <2>6. PICK n \in Orgs \X Users :
           /\ n = <<invites[r.id].org, invites[r.id].email>>
           /\ invites'[r.id].status = "accepted"
           /\ \A k \in Orgs \X Users : k # n => membership'[k] = membership[k]
    <3>1. PICK n \in Orgs \X Users : n = <<invites[r.id].org, invites[r.id].email>>
      BY <2>1, <2>2, AcceptIs DEF SerialInv
    <3>2. invites'[r.id].status = "accepted"
      BY <2>1, <2>2, <2>5, AcceptIs DEF SerialInv
    <3>3. \A k \in Orgs \X Users : k # n => membership'[k] = membership[k]
      BY <2>1, <2>2, <2>5, <3>1, AcceptIs DEF SerialInv
    <3> QED
      BY <3>1, <3>2, <3>3
  <2>7. m = n
    BY <2>6 DEF Has
  <2> QED
    BY <2>3, <2>4, <2>6, <2>7
<1> QED
  BY SerialAtFirst, SerialKept, <1>1, PTL DEF Spec, AdmittedByPendingInvite

----------------------------------------------------------------------------
(* One account.                                                            *)

----------------------------------------------------------------------------
(* Wrong guesses.                                                          *)

\* Guesses in the order of their times, LockTime apart beyond the limit.
Spaced(g) ==
    /\ \A i, j \in DOMAIN g : i < j => g[i] <= g[j]
    /\ \A i, j \in DOMAIN g : i < j /\ j > MaxAttempts => g[i] + LockTime <= g[j]

\* One more guess, late enough, keeps them so.
LEMMA SpacedGrows ==
  ASSUME NEW g \in Seq(Nat), NEW at \in Nat, Spaced(g),
         \A i \in DOMAIN g : g[i] <= at,
         Len(g) >= MaxAttempts => \A i \in DOMAIN g : g[i] + LockTime <= at
  PROVE  LET h == Append(g, at)
         IN  /\ h \in Seq(Nat) /\ Len(h) = Len(g) + 1 /\ Spaced(h)
             /\ \A i \in DOMAIN h : h[i] <= at
<1>1. PICK h : h = Append(g, at)
  OBVIOUS
<1>2. PICK n \in Nat : n = Len(g)
  OBVIOUS
<1>3. /\ h \in Seq(Nat) /\ Len(h) = n + 1 /\ h[n + 1] = at /\ DOMAIN h = 1..(n + 1)
      /\ DOMAIN g = 1..n /\ \A i \in 1..n : h[i] = g[i] /\ g[i] \in Nat
  BY <1>1, <1>2
<1>4. LockTime \in Nat /\ MaxAttempts \in Nat
  BY AccountAssumption
<1>5. ASSUME NEW i \in 1..(n + 1), NEW j \in 1..(n + 1), i < j
      PROVE  h[i] <= h[j] /\ (j > MaxAttempts => h[i] + LockTime <= h[j])
  <2>1. i \in 1..n
    BY <1>5
  <2>2. CASE j \in 1..n
    BY <1>3, <1>5, <2>1, <2>2 DEF Spaced
  <2>3. CASE j = n + 1
    BY <1>2, <1>3, <1>4, <2>1, <2>3
  <2> QED
    BY <2>2, <2>3
<1>6. Spaced(h)
  BY <1>3, <1>5 DEF Spaced
<1>7. \A i \in DOMAIN h : h[i] <= at
  BY <1>3
<1> QED
  BY <1>1, <1>2, <1>3, <1>6, <1>7

\* No span of LockTime holds more than MaxAttempts of such guesses.
LEMMA SpacedIsBounded ==
  ASSUME NEW g \in Seq(Nat), Spaced(g), NEW i \in DOMAIN g
  PROVE  Cardinality({j \in DOMAIN g : g[j] \in g[i]..(g[i] + LockTime - 1)}) <= MaxAttempts
<1>1. PICK S : S = {j \in DOMAIN g : g[j] \in g[i]..(g[i] + LockTime - 1)}
  OBVIOUS
<1>2. /\ LockTime \in Nat /\ MaxAttempts \in Nat /\ MaxAttempts >= 1
      /\ DOMAIN g \subseteq Nat \ {0} /\ \A j \in DOMAIN g : g[j] \in Nat
  BY AccountAssumption
<1>3. \A j \in S : j \in DOMAIN g /\ g[i] <= g[j] /\ g[j] < g[i] + LockTime
  BY <1>1, <1>2
<1>4. CASE \E j \in S : j > MaxAttempts
  <2>1. PICK j \in S : j > MaxAttempts
    BY <1>4
  <2>2. ASSUME NEW k \in S PROVE k = j
    <3>1. CASE k < j
      <4>1. g[k] + LockTime <= g[j]
        BY <1>3, <2>1, <2>2, <3>1 DEF Spaced
      <4> QED
        BY <1>2, <1>3, <2>1, <2>2, <4>1
    <3>2. CASE j < k
      <4>1. g[j] + LockTime <= g[k]
        BY <1>2, <1>3, <2>1, <2>2, <3>2 DEF Spaced
      <4> QED
        BY <1>2, <1>3, <2>1, <2>2, <4>1
    <3> QED
      BY <1>2, <1>3, <2>1, <2>2, <3>1, <3>2
  <2>3. S = {j}
    BY <2>1, <2>2
  <2>4. Cardinality(S) = 1
    BY <2>3, FS_Singleton
  <2> QED
    BY <1>1, <1>2, <2>4
<1>5. CASE ~\E j \in S : j > MaxAttempts
  <2>1. S \subseteq 1..MaxAttempts
    BY <1>2, <1>3, <1>5
  <2>2. IsFiniteSet(1..MaxAttempts) /\ Cardinality(1..MaxAttempts) = MaxAttempts
    <3>1. /\ 1 \in Int /\ MaxAttempts \in Int
          /\ ~(1 > MaxAttempts) /\ MaxAttempts - 1 + 1 = MaxAttempts
      BY <1>2
    <3>2. /\ IsFiniteSet(1..MaxAttempts)
          /\ Cardinality(1..MaxAttempts) = IF 1 > MaxAttempts THEN 0 ELSE MaxAttempts - 1 + 1
      BY <3>1, FS_Interval
    <3> QED
      BY <3>1, <3>2
  <2>3. Cardinality(S) <= Cardinality(1..MaxAttempts)
    BY <2>1, <2>2, FS_Subset
  <2> QED
    BY <1>1, <2>2, <2>3
<1> QED
  BY <1>4, <1>5

----------------------------------------------------------------------------
(* The inductive invariant of one thread.                                  *)

\* A session not of the present password is no newer than its change.
SessionsInv ==
    \A t \in DOMAIN sessions :
        /\ sessions[t].iat <= now
        /\ \/ sessions[t].password = account.password
           \/ sessions[t].iat <= account.changedAt

\* Until Redis fails, what was logged out is on the denylist until the token's
\* last second, and can be read.
RevocationInv ==
    ~outage =>
        /\ redisUp /\ client # "off"
        /\ \A t \in left : now < sessions[t].exp =>
               t \in DOMAIN denied /\ denied[t] >= sessions[t].exp

\* The counter counts, and the lock stands from the last guess it counted.
GuessesInv ==
    /\ Spaced(guesses) /\ account.misses = Len(guesses)
    /\ \A i \in DOMAIN guesses : guesses[i] <= now
    /\ Len(guesses) >= MaxAttempts =>
          \A i \in DOMAIN guesses : guesses[i] + LockTime <= account.lockedUntil

\* What the request in flight has loaded is still so, and nothing the account
\* has seen is later than its beginning.
RequestInv(r) ==
    /\ r.seen = account /\ r.at <= now
    /\ \A t \in DOMAIN sessions : sessions[t].iat <= r.at
    /\ \A i \in DOMAIN guesses : guesses[i] <= r.at
    /\ r.op = "miss" => account.lockedUntil <= r.at
    /\ r.op = "reset" => r.id \in DOMAIN resets /\ ~resets[r.id].used

AccountInv ==
    /\ AccountTypeOK
    /\ SessionsInv /\ RevocationInv /\ ResetsAreSingleUse /\ GuessesInv
    /\ \A w \in Workers : req[w] # Idle => RequestInv(req[w])

\* A step that answers the request of the one thread.
LEMMA AnsweredOnly ==
  ASSUME OneThread, AccountInv, NEW w \in Workers, Answer(w),
         UNCHANGED <<now, usable, denied, redisUp, client, left, outage>>,
         account' \in Rows, resets' \in Seq(Resets), guesses' \in Seq(Nat),
         sessions' \in Seq(Sessions), DOMAIN sessions \subseteq DOMAIN sessions',
         \A t \in DOMAIN sessions : sessions'[t] = sessions[t],
         SessionsInv', ResetsAreSingleUse', GuessesInv'
  PROVE  AccountInv'
<1>1. \A v \in Workers : req'[v] = Idle
  BY DEF OneThread, AccountInv, AccountTypeOK, Answer
<1>2. req' \in [Workers -> AccountRequests \cup {Idle}]
  BY DEF AccountInv, AccountTypeOK, Answer
<1>3. AccountTypeOK' /\ RevocationInv'
  BY <1>2 DEF AccountInv, AccountTypeOK, RevocationInv
<1> QED
  BY <1>1, <1>3 DEF AccountInv

\* A session has its times.
LEMMA SessionIs ==
  ASSUME AccountTypeOK, NEW t \in DOMAIN sessions
  PROVE  sessions[t].iat \in Nat /\ sessions[t].exp \in Nat
<1>1. PICK s \in Seq(Sessions) : s = sessions
  BY DEF AccountTypeOK
<1>2. s[t] \in Sessions
  BY <1>1
<1> QED
  BY <1>1, <1>2 DEF Sessions

\* The request one thread serves.
LEMMA ServedIs ==
  ASSUME AccountInv, NEW w \in Workers, NEW r, r = req[w], r # Idle
  PROVE  /\ r \in AccountRequests /\ RequestInv(r) /\ r.seen = account
         /\ r.at \in Nat /\ now \in Nat
         /\ account \in Rows /\ account.password \in Nat /\ account.changedAt \in Nat
         /\ account.misses \in Nat /\ account.lockedUntil \in Nat
<1>1. r \in AccountRequests /\ RequestInv(r) /\ account \in Rows /\ now \in 0..MaxNow
  BY DEF AccountInv, AccountTypeOK
<1>2. now \in Nat
  BY <1>1, AccountAssumption
<1>3. r.at \in Nat
  BY <1>1 DEF AccountRequests
<1> QED
  BY <1>1, <1>2, <1>3 DEF RequestInv, Rows

\* A row read and written by one thread comes out cleared.
LEMMA ClearedIs ==
  ASSUME NEW x \in Rows
  PROVE  Cleared(x, x) = [x EXCEPT !.misses = 0, !.lockedUntil = NotLocked]
  BY DEF Cleared, Column

\* Without guesses there is nothing to count.
LEMMA NoGuesses ==
  ASSUME guesses' = <<>>, account'.misses = 0
  PROVE  GuessesInv'
<1>1. DOMAIN guesses' = {} /\ Len(guesses') = 0
  BY SMT
<1>2. 0 < MaxAttempts
  BY AccountAssumption
<1> QED
  BY <1>1, <1>2, AccountAssumption DEF GuessesInv, Spaced

\* A wrong password is one more guess, no earlier than the lock allows.
LEMMA MissKept ==
  ASSUME OneThread, AccountInv, NEW w \in Workers, CommitMiss(w)
  PROVE  AccountInv'
<1>1. PICK r : r = req[w] /\ r # Idle /\ r.op = "miss"
  BY DEF CommitMiss, Serving
<1>2. PICK at \in Nat, n \in Nat : at = r.at /\ n = account.misses
  BY <1>1, ServedIs
<1>3. r.seen = account /\ account \in Rows /\ RequestInv(r) /\ account.lockedUntil \in Nat
  BY <1>1, ServedIs
<1>4. LockTime \in Nat /\ MaxAttempts \in Nat
  BY AccountAssumption
<1>5. PICK lock \in Nat :
         /\ lock = IF n + 1 >= MaxAttempts THEN at + LockTime ELSE account.lockedUntil
         /\ account' = [account EXCEPT !.misses = n + 1, !.lockedUntil = lock]
  <2>1. PICK lock : lock = IF n + 1 >= MaxAttempts THEN at + LockTime ELSE account.lockedUntil
    OBVIOUS
  <2>2. lock \in Nat
    BY <1>3, <1>4, <2>1
  <2>3. account' = [account EXCEPT !.misses = n + 1, !.lockedUntil = lock]
    BY <1>1, <1>2, <1>3, <2>1 DEF CommitMiss, Reached
  <2> QED
    BY <2>1, <2>2, <2>3
<1>6. /\ account' \in Rows /\ account'.misses = n + 1 /\ account'.lockedUntil = lock
      /\ account'.password = account.password /\ account'.changedAt = account.changedAt
  <2>1. n + 1 \in Nat
    OBVIOUS
  <2> QED
    BY <1>3, <1>5, <2>1 DEF Rows
<1>7. PICK g \in Seq(Nat) : g = guesses
  BY DEF AccountInv, AccountTypeOK
<1>8. /\ Spaced(g) /\ n = Len(g) /\ \A i \in DOMAIN g : g[i] <= at
      /\ Len(g) >= MaxAttempts => \A i \in DOMAIN g : g[i] + LockTime <= account.lockedUntil
      /\ account.lockedUntil <= at /\ at <= now
  BY <1>1, <1>2, <1>3, <1>7 DEF AccountInv, GuessesInv, RequestInv
<1>9. Len(g) >= MaxAttempts => \A i \in DOMAIN g : g[i] + LockTime <= at
  BY <1>3, <1>4, <1>7, <1>8
<1>10. PICK h : h = Append(g, at)
  OBVIOUS
<1>11. /\ h \in Seq(Nat) /\ Len(h) = n + 1 /\ Spaced(h)
       /\ \A i \in DOMAIN h : h[i] <= at
  BY <1>8, <1>9, <1>10, SpacedGrows
<1>12. guesses' = h
  BY <1>1, <1>2, <1>7, <1>10 DEF CommitMiss
<1>13. UNCHANGED <<now, usable, resets, sessions, denied, redisUp, client, left, outage>>
         /\ Answer(w)
  BY DEF CommitMiss, revocation
<1>14. GuessesInv'
  <2>1. now \in Nat
    BY <1>1, ServedIs
  <2>2. \A i \in DOMAIN h : h[i] <= now
    BY <1>8, <1>11, <2>1
  <2>3. Len(h) >= MaxAttempts => \A i \in DOMAIN h : h[i] + LockTime <= lock
    BY <1>4, <1>5, <1>11
  <2> QED
    BY <1>6, <1>11, <1>12, <1>13, <2>2, <2>3 DEF GuessesInv
<1>15. SessionsInv' /\ ResetsAreSingleUse'
  BY <1>6, <1>13 DEF AccountInv, SessionsInv, ResetsAreSingleUse
<1> QED
  BY <1>6, <1>11, <1>12, <1>13, <1>14, <1>15, AnsweredOnly DEF AccountInv, AccountTypeOK

\* A login that succeeds, or an unlock, clears the counter.
LEMMA ClearKept ==
  ASSUME OneThread, AccountInv, NEW w \in Workers, CommitLogin(w) \/ CommitUnlock(w)
  PROVE  AccountInv'
<1>1. PICK r : r = req[w] /\ r # Idle
  BY DEF CommitLogin, CommitUnlock, Serving
<1>2. r.seen = account /\ account \in Rows /\ RequestInv(r) /\ now \in Nat
  BY <1>1, ServedIs
<1>3. UNCHANGED <<now, usable, resets, denied, redisUp, client, left, outage>> /\ Answer(w)
  BY DEF CommitLogin, CommitUnlock, revocation
<1>4. CASE UNCHANGED <<account, sessions, guesses>>
  BY <1>3, <1>4, AnsweredOnly
  DEF AccountInv, AccountTypeOK, SessionsInv, ResetsAreSingleUse, GuessesInv
<1>5. CASE ~UNCHANGED <<account, sessions, guesses>>
  <2>1. account' = [account EXCEPT !.misses = 0, !.lockedUntil = NotLocked] /\ guesses' = <<>>
    BY <1>1, <1>2, <1>5, ClearedIs DEF CommitLogin, CommitUnlock
  <2>2. /\ account' \in Rows /\ account'.misses = 0
        /\ account'.password = account.password /\ account'.changedAt = account.changedAt
    <3>1. 0 \in Nat /\ NotLocked \in Nat
      BY DEF NotLocked
    <3> QED
      BY <1>2, <2>1, <3>1 DEF Rows
  <2>3. guesses' \in Seq(Nat)
    BY <2>1
  <2>4. GuessesInv'
    BY <2>1, <2>2, NoGuesses
  <2>5. /\ sessions' \in Seq(Sessions) /\ DOMAIN sessions \subseteq DOMAIN sessions'
        /\ \A t \in DOMAIN sessions : sessions'[t] = sessions[t]
        /\ SessionsInv'
    <3>1. CASE sessions' = sessions
      BY <1>3, <2>2, <3>1 DEF AccountInv, AccountTypeOK, SessionsInv
    <3>2. CASE sessions' # sessions
      <4>1. PICK s : /\ s = [iat |-> now, exp |-> now + TokenTime, password |-> account.password]
                     /\ sessions' = Append(sessions, s)
        BY <1>1, <1>2, <3>2 DEF CommitLogin, CommitUnlock
      <4>2. now + TokenTime \in Nat /\ account.password \in Nat
        BY <1>2, AccountAssumption DEF Rows
      <4>3. s \in Sessions /\ s.iat = now /\ s.password = account.password
        BY <1>2, <4>1, <4>2 DEF Sessions
      <4>4. PICK old \in Seq(Sessions) : old = sessions
        BY DEF AccountInv, AccountTypeOK
      <4>5. /\ sessions' \in Seq(Sessions) /\ DOMAIN sessions' = DOMAIN old \cup {Len(old) + 1}
            /\ \A t \in DOMAIN old : sessions'[t] = old[t]
            /\ sessions'[Len(old) + 1] = s
        BY <4>1, <4>3, <4>4
      <4>6. SessionsInv'
        BY <1>2, <1>3, <2>2, <4>3, <4>4, <4>5 DEF AccountInv, SessionsInv
      <4> QED
        BY <4>4, <4>5, <4>6
    <3> QED
      BY <3>1, <3>2
  <2>6. ResetsAreSingleUse'
    BY <1>3, <2>2 DEF AccountInv, ResetsAreSingleUse
  <2> QED
    BY <1>3, <2>2, <2>3, <2>4, <2>5, <2>6, AnsweredOnly DEF AccountInv, AccountTypeOK
<1> QED
  BY <1>4, <1>5

\* A reset consumes its token and ends what the former password opened.
LEMMA ResetKept ==
  ASSUME OneThread, AccountInv, NEW w \in Workers, CommitReset(w)
  PROVE  AccountInv'
<1>1. PICK r : r = req[w] /\ r # Idle /\ r.op = "reset"
  BY DEF CommitReset, Serving
<1>2. r.seen = account /\ account \in Rows /\ RequestInv(r) /\ now \in Nat
  BY <1>1, ServedIs
<1>3. PICK at \in Nat, p \in Nat : at = r.at /\ p = account.password
  BY <1>1, ServedIs
<1>4. PICK i \in DOMAIN resets : i = r.id /\ ~resets[i].used
  BY <1>1, <1>2 DEF RequestInv
<1>5. PICK x : x = [account EXCEPT !.misses = 0, !.lockedUntil = NotLocked]
  OBVIOUS
<1>6. x \in Rows /\ x.misses = 0 /\ x.password = p
  <2>1. 0 \in Nat /\ NotLocked \in Nat
    BY DEF NotLocked
  <2> QED
    BY <1>2, <1>3, <1>5, <2>1 DEF Rows
<1>7. account' = [x EXCEPT !.password = p + 1, !.changedAt = at]
  BY <1>1, <1>2, <1>3, <1>5, <1>6, ClearedIs DEF CommitReset, ResetRow
<1>8. /\ account' \in Rows /\ account'.misses = 0
      /\ account'.password = p + 1 /\ account'.changedAt = at
  <2>1. p + 1 \in Nat
    OBVIOUS
  <2> QED
    BY <1>6, <1>7, <2>1 DEF Rows
<1>9. guesses' = <<>> /\ guesses' \in Seq(Nat)
  <2>1. guesses' = <<>>
    BY DEF CommitReset
  <2> QED
    BY <2>1
<1>10. UNCHANGED <<now, usable, sessions, denied, redisUp, client, left, outage>> /\ Answer(w)
  BY DEF CommitReset, revocation
<1>11. PICK old \in Seq(Resets) : old = resets /\ old[i] \in Resets
  BY DEF AccountInv, AccountTypeOK
<1>12. PICK e : e = [old[i] EXCEPT !.used = TRUE]
  OBVIOUS
<1>13. e \in Resets /\ e.used = TRUE
  BY <1>11, <1>12 DEF Resets
<1>14. resets' = [old EXCEPT ![i] = e]
  BY <1>1, <1>4, <1>11, <1>12 DEF CommitReset
<1>15. /\ resets' \in Seq(Resets) /\ DOMAIN resets' = DOMAIN old /\ resets'[i] = e
       /\ \A j \in DOMAIN old \ {i} : resets'[j] = old[j]
  BY <1>4, <1>11, <1>13, <1>14
<1>16. ResetsAreSingleUse'
  <2>1. PICK U : U = {j \in DOMAIN old : old[j].used}
    OBVIOUS
  <2>2. p = Cardinality(U)
    BY <1>3, <1>11, <2>1 DEF AccountInv, ResetsAreSingleUse
  <2>3. {j \in DOMAIN resets' : resets'[j].used} = U \cup {i} /\ i \notin U
    BY <1>4, <1>11, <1>13, <1>15, <2>1
  <2>4. IsFiniteSet(U)
    <3>1. IsFiniteSet(DOMAIN old)
      <4>1. DOMAIN old = 1..Len(old) /\ Len(old) \in Nat
        OBVIOUS
      <4> QED
        BY <4>1, FS_Interval
    <3> QED
      BY <2>1, <3>1, FS_Subset
  <2>5. Cardinality(U \cup {i}) = Cardinality(U) + 1
    BY <2>3, <2>4, FS_AddElement
  <2> QED
    BY <1>8, <2>2, <2>3, <2>5 DEF ResetsAreSingleUse
<1>17. SessionsInv'
  <2>1. \A t \in DOMAIN sessions : sessions[t].iat <= at /\ sessions[t].iat <= now
    BY <1>2, <1>3 DEF RequestInv, AccountInv, SessionsInv
  <2> QED
    BY <1>8, <1>10, <2>1 DEF SessionsInv
<1>18. GuessesInv'
  BY <1>8, <1>9, NoGuesses
<1> QED
  BY <1>8, <1>9, <1>10, <1>15, <1>16, <1>17, <1>18, AnsweredOnly DEF AccountInv, AccountTypeOK

\* A request that begins has loaded the row as it is.
LEMMA LoadKept ==
  ASSUME OneThread, AccountInv, NEW w \in Workers,
         NEW op \in {"login", "miss", "reset", "unlock"}, NEW id \in Nat, LoadAccount(w, op, id),
         op = "miss" => ~Locked,
         op = "reset" => id \in DOMAIN resets /\ ~resets[id].used
  PROVE  AccountInv'
<1>1. PICK q : q = [op |-> op, seen |-> account, at |-> now, id |-> id]
  OBVIOUS
<1>2. /\ req' = [req EXCEPT ![w] = q]
      /\ UNCHANGED <<now, account, usable, resets, sessions, guesses, denied, redisUp, client,
                     left, outage>>
  BY <1>1 DEF LoadAccount, revocation
<1>3. now \in Nat /\ account \in Rows /\ account.lockedUntil \in Nat
  BY AccountAssumption DEF AccountInv, AccountTypeOK, Rows
<1>4. q \in AccountRequests
  BY <1>1, <1>3 DEF AccountRequests
<1>5. q.op = op /\ q.seen = account /\ q.at = now /\ q.id = id
  BY <1>1
<1>6. op = "miss" => account.lockedUntil <= now
  BY <1>3 DEF Locked
<1>7. RequestInv(q)
  BY <1>3, <1>5, <1>6 DEF RequestInv, AccountInv, SessionsInv, GuessesInv
<1>8. AccountTypeOK'
  BY <1>2, <1>4 DEF AccountInv, AccountTypeOK
<1>9. \A v \in Workers : req'[v] = q
  BY <1>2 DEF OneThread, AccountInv, AccountTypeOK
<1>10. RequestInv(q)'
  BY <1>2, <1>7 DEF RequestInv
<1>11. SessionsInv' /\ RevocationInv' /\ ResetsAreSingleUse' /\ GuessesInv'
  BY <1>2 DEF AccountInv, SessionsInv, RevocationInv, ResetsAreSingleUse, GuessesInv
<1> QED
  BY <1>8, <1>9, <1>10, <1>11 DEF AccountInv

\* A forgotten password adds a token nobody has used.
LEMMA ForgotKept ==
  ASSUME AccountInv, ForgotPassword
  PROVE  AccountInv'
<1>1. PICK e : e = [expires |-> now + ResetTime, used |-> FALSE] /\ resets' = Append(resets, e)
  BY DEF ForgotPassword
<1>2. now + ResetTime \in Nat
  BY AccountAssumption DEF AccountInv, AccountTypeOK
<1>3. e \in Resets /\ e.used = FALSE
  BY <1>1, <1>2 DEF Resets
<1>4. PICK old \in Seq(Resets) : old = resets
  BY DEF AccountInv, AccountTypeOK
<1>5. /\ resets' \in Seq(Resets) /\ DOMAIN resets' = DOMAIN old \cup {Len(old) + 1}
      /\ \A j \in DOMAIN old : resets'[j] = old[j]
      /\ resets'[Len(old) + 1] = e
  BY <1>1, <1>3, <1>4
<1>6. UNCHANGED <<now, account, usable, sessions, denied, redisUp, client, left, outage,
                 req, guesses>>
  BY DEF ForgotPassword, revocation
<1>7. {j \in DOMAIN resets' : resets'[j].used} = {j \in DOMAIN old : old[j].used}
  BY <1>3, <1>5
<1>8. ResetsAreSingleUse'
  BY <1>4, <1>6, <1>7 DEF AccountInv, ResetsAreSingleUse
<1>9. AccountTypeOK'
  BY <1>5, <1>6 DEF AccountInv, AccountTypeOK
<1>10. SessionsInv' /\ RevocationInv' /\ GuessesInv'
  BY <1>6 DEF AccountInv, SessionsInv, RevocationInv, GuessesInv
<1>11. ASSUME NEW v \in Workers, req'[v] # Idle
       PROVE  RequestInv(req[v])'
  BY <1>4, <1>5, <1>6, <1>11 DEF AccountInv, RequestInv
<1> QED
  BY <1>8, <1>9, <1>10, <1>11 DEF AccountInv

\* Sessions, the clock, Redis and restarts.
LEMMA WorldKept ==
  ASSUME AccountInv,
         \/ \E t \in DOMAIN sessions : UseSession(t) \/ Logout(t)
         \/ Tick \/ ChangeMemberships \/ RedisFails \/ RedisRecovers \/ KeyExpires
         \/ Restart \/ UNCHANGED accountVars
  PROVE  AccountInv'
<1>1. UNCHANGED <<account, resets, sessions, guesses>>
  BY DEF UseSession, Logout, Tick, ChangeMemberships, RedisFails, RedisRecovers,
         KeyExpires, Restart, accountVars, revocation
<1>2. now \in Nat /\ now' \in 0..MaxNow /\ now <= now'
  <2>1. now \in 0..MaxNow /\ MaxNow \in Nat
    BY AccountAssumption DEF AccountInv, AccountTypeOK
  <2>2. now' = now \/ (now < MaxNow /\ now' = now + 1)
    BY DEF UseSession, Logout, Tick, ChangeMemberships, RedisFails, RedisRecovers,
           KeyExpires, Restart, accountVars, revocation
  <2> QED
    BY <2>1, <2>2
<1>3. req' = req \/ req' = [w \in Workers |-> Idle]
  BY DEF UseSession, Logout, Tick, ChangeMemberships, RedisFails, RedisRecovers,
         KeyExpires, Restart, accountVars, revocation
<1>4. usable' \in BOOLEAN
  BY DEF UseSession, Logout, Tick, ChangeMemberships, RedisFails, RedisRecovers,
         KeyExpires, Restart, accountVars, revocation, AccountInv, AccountTypeOK
<1>5. Connected \in {"none", "ready", "off"} /\ (~outage => Connected = "ready" /\ Reachable)
  BY DEF AccountInv, AccountTypeOK, RevocationInv, Connected, Reachable
<1>6. /\ left' \subseteq DOMAIN sessions /\ client' \in {"none", "ready", "off"}
      /\ DOMAIN denied' \subseteq DOMAIN sessions
      /\ \A t \in DOMAIN denied' : denied'[t] \in Nat
  <2>1. left' \subseteq DOMAIN sessions /\ client' \in {"none", "ready", "off"}
    BY <1>5 DEF UseSession, Logout, Tick, ChangeMemberships, RedisFails, RedisRecovers,
                KeyExpires, Restart, accountVars, revocation, AccountInv, AccountTypeOK
  <2>2. CASE \E t \in DOMAIN sessions : Logout(t) /\ denied' # denied
    <3>1. PICK t \in DOMAIN sessions : denied' = WithKey(t)
      BY <2>2 DEF Logout, Deny
    <3>2. KeyEnds(t) \in Nat
      BY <1>2, SessionIs DEF KeyEnds, AccountInv
    <3> QED
      BY <2>1, <3>1, <3>2 DEF WithKey, AccountInv, AccountTypeOK
  <2>3. CASE KeyExpires
    BY <2>1, <2>3 DEF KeyExpires, AccountInv, AccountTypeOK
  <2>4. CASE denied' = denied
    BY <2>1, <2>4 DEF AccountInv, AccountTypeOK
  <2> QED
    BY <2>2, <2>3, <2>4 DEF UseSession, Tick, ChangeMemberships, RedisFails, RedisRecovers,
                            Restart, accountVars, revocation
<1>7. redisUp' \in BOOLEAN /\ outage' \in BOOLEAN
  BY DEF UseSession, Logout, Tick, ChangeMemberships, RedisFails, RedisRecovers,
         KeyExpires, Restart, accountVars, revocation, AccountInv, AccountTypeOK
<1>8. RevocationInv'
  <2> SUFFICES ASSUME ~outage' PROVE RevocationInv'
    BY DEF RevocationInv
  <2>1. ~outage /\ redisUp' /\ client' # "off"
    BY <1>5 DEF UseSession, Logout, Tick, ChangeMemberships, RedisFails, RedisRecovers,
                KeyExpires, Restart, accountVars, revocation, AccountInv, RevocationInv
  <2> SUFFICES ASSUME NEW t \in left', now' < sessions[t].exp
               PROVE  t \in DOMAIN denied' /\ denied'[t] >= sessions[t].exp
    BY <1>1, <2>1 DEF RevocationInv
  <2>2. t \in DOMAIN sessions /\ sessions[t].exp \in Nat
    BY <1>6, SessionIs DEF AccountInv
  <2>3. now < sessions[t].exp
    BY <1>2, <2>2
  <2>4. t \in left => t \in DOMAIN denied /\ denied[t] >= sessions[t].exp
    BY <2>1, <2>3 DEF AccountInv, RevocationInv
  <2>5. CASE \E k \in DOMAIN sessions : Logout(k)
    <3>1. PICK k \in DOMAIN sessions : denied' = WithKey(k) /\ left' = left \cup {k}
      BY <1>5, <2>1, <2>5 DEF Logout, Deny
    <3>2. t = k => KeyEnds(k) >= sessions[t].exp
      BY <2>2, <2>3 DEF KeyEnds
    <3> QED
      BY <2>4, <3>1, <3>2 DEF WithKey
  <2>6. CASE KeyExpires
    <3>1. PICK k \in DOMAIN denied :
             denied[k] <= now /\ denied' = [j \in DOMAIN denied \ {k} |-> denied[j]]
      BY <2>6 DEF KeyExpires
    <3>2. t \in DOMAIN denied /\ denied[t] >= sessions[t].exp
      BY <2>4, <2>6 DEF KeyExpires
    <3>3. denied[t] \in Nat
      BY <3>2 DEF AccountInv, AccountTypeOK
    <3>4. t # k
      BY <1>2, <2>2, <2>3, <3>1, <3>2, <3>3
    <3> QED
      BY <3>1, <3>2, <3>4
  <2>7. CASE UNCHANGED <<denied, left>>
    BY <2>4, <2>7
  <2> QED
    BY <2>5, <2>6, <2>7 DEF UseSession, Tick, ChangeMemberships, RedisFails, RedisRecovers,
                            Restart, accountVars, revocation
<1>9. req' \in [Workers -> AccountRequests \cup {Idle}]
  BY <1>3 DEF AccountInv, AccountTypeOK
<1>10. AccountTypeOK'
  BY <1>1, <1>2, <1>4, <1>6, <1>7, <1>9 DEF AccountInv, AccountTypeOK
<1>11. /\ \A t \in DOMAIN sessions : sessions[t].iat \in Nat
       /\ \A i \in DOMAIN guesses : guesses[i] \in Nat
  BY SessionIs DEF AccountInv, AccountTypeOK
<1>12. SessionsInv' /\ ResetsAreSingleUse' /\ GuessesInv'
  <2>1. \A t \in DOMAIN sessions : sessions[t].iat <= now'
    BY <1>2, <1>11 DEF AccountInv, SessionsInv
  <2>2. \A i \in DOMAIN guesses : guesses[i] <= now'
    BY <1>2, <1>11 DEF AccountInv, GuessesInv
  <2> QED
    BY <1>1, <2>1, <2>2 DEF AccountInv, SessionsInv, ResetsAreSingleUse, GuessesInv
<1>13. ASSUME NEW v \in Workers, req'[v] # Idle
       PROVE  RequestInv(req[v])' /\ req'[v] = req[v]
  <2>1. req' = req
    BY <1>3, <1>13
  <2>2. PICK r : r = req[v] /\ RequestInv(r) /\ r.at \in Nat
    BY <1>13, <2>1, ServedIs DEF AccountInv
  <2>3. r.at <= now'
    BY <1>2, <2>2 DEF RequestInv
  <2>4. RequestInv(r)'
    BY <1>1, <2>2, <2>3 DEF RequestInv
  <2> QED
    BY <2>1, <2>2, <2>4 DEF RequestInv
<1> QED
  BY <1>8, <1>10, <1>12, <1>13 DEF AccountInv

\* The invariant holds at first.
LEMMA AccountAtFirst == AccountInit => AccountInv
<1> SUFFICES ASSUME AccountInit PROVE AccountInv
  OBVIOUS
<1>1. account \in Rows /\ account.misses = 0 /\ account.password = 0
  BY DEF AccountInit, Rows, NotLocked
<1>2. DOMAIN sessions = {} /\ DOMAIN resets = {} /\ DOMAIN guesses = {} /\ Len(guesses) = 0
  BY DEF AccountInit
<1>3. {i \in DOMAIN resets : resets[i].used} = {}
  BY <1>2
<1>4. ResetsAreSingleUse
  BY <1>1, <1>3, FS_EmptySet DEF ResetsAreSingleUse
<1>5. GuessesInv
  <2>1. ~(0 >= MaxAttempts)
    BY AccountAssumption
  <2> QED
    BY <1>1, <1>2, <2>1 DEF GuessesInv, Spaced
<1>6. 0 \in 0..MaxNow
  BY AccountAssumption
<1>7. AccountTypeOK
  <2>1. <<>> \in Seq(Resets) /\ <<>> \in Seq(Sessions) /\ <<>> \in Seq(Nat)
    OBVIOUS
  <2>2. req \in [Workers -> AccountRequests \cup {Idle}]
    BY DEF AccountInit
  <2>3. /\ resets \in Seq(Resets) /\ sessions \in Seq(Sessions) /\ guesses \in Seq(Nat)
        /\ DOMAIN denied = {} /\ left = {} /\ now = 0 /\ client = "none"
        /\ usable = TRUE /\ redisUp = TRUE /\ outage = FALSE
    BY <2>1 DEF AccountInit
  <2> QED
    BY <1>1, <1>6, <2>2, <2>3 DEF AccountTypeOK
<1> QED
  BY <1>2, <1>4, <1>5, <1>7 DEF AccountInit, AccountInv, SessionsInv, RevocationInv

\* Every step of one thread preserves it.
LEMMA AccountKept == OneThread /\ AccountInv /\ [AccountNext]_accountVars => AccountInv'
<1> SUFFICES ASSUME OneThread, AccountInv, [AccountNext]_accountVars PROVE AccountInv'
  OBVIOUS
<1>1. ASSUME NEW w \in Workers, CommitMiss(w) \/ CommitLogin(w) \/ CommitUnlock(w) \/ CommitReset(w)
      PROVE  AccountInv'
  BY <1>1, MissKept, ClearKept, ResetKept
<1>2. ASSUME NEW w \in Workers,
             \/ BeginLogin(w) \/ BeginMiss(w) \/ BeginUnlock(w)
             \/ \E i \in DOMAIN resets : BeginReset(w, i)
      PROVE  AccountInv'
  <2>1. PICK op \in {"login", "miss", "reset", "unlock"}, id \in Nat :
           /\ LoadAccount(w, op, id) /\ (op = "miss" => ~Locked)
           /\ op = "reset" => id \in DOMAIN resets /\ ~resets[id].used
    <3>1. DOMAIN resets \subseteq Nat
      BY DEF AccountInv, AccountTypeOK
    <3> QED
      BY <1>2, <3>1 DEF BeginLogin, BeginMiss, BeginUnlock, BeginReset, UsableReset
  <2> QED
    BY <2>1, LoadKept
<1> QED
  BY <1>1, <1>2, ForgotKept, WorldKept DEF AccountNext

(* Served one request at a time, with clock, Redis and restarts running:   *)
(* no session outlives its password by more than the second of the change, *)
(* none its logout but in its last second, unless Redis has failed, and no *)
(* token resets twice.                                                     *)
THEOREM CurrentAccess == ASSUME OneThread PROVE AccountSpec => []AccessIsCurrent
<1>1. AccountInv => AccessIsCurrent
  <2> SUFFICES ASSUME AccountInv PROVE AccessIsCurrent
    OBVIOUS
  <2>1. SessionsEndWithPassword
    <3> SUFFICES ASSUME NEW t \in DOMAIN sessions, Fresh(t)
                 PROVE  \/ sessions[t].password = account.password
                        \/ sessions[t].iat = account.changedAt
      BY DEF SessionsEndWithPassword, Valid
    <3>1. sessions[t].iat \in Nat /\ account.changedAt \in Nat
      BY SessionIs DEF AccountInv, AccountTypeOK, Rows
    <3>2. sessions[t].iat >= account.changedAt
      BY DEF Fresh
    <3> QED
      BY <3>1, <3>2 DEF AccountInv, SessionsInv
  <2>2. LogoutIsFinal
    <3> SUFFICES ASSUME ~outage, NEW t \in left, Valid(t)
                 PROVE  now = sessions[t].exp
      BY DEF LogoutIsFinal
    <3>1. now \in Nat /\ sessions[t].exp \in Nat /\ now <= sessions[t].exp
      BY AccountAssumption, SessionIs DEF AccountInv, AccountTypeOK, Valid
    <3>2. ~(t \in DOMAIN denied /\ now <= denied[t])
      BY DEF AccountInv, RevocationInv, Valid, Revoked, Reachable, Connected, AccountTypeOK
    <3>3. t \in DOMAIN denied => denied[t] \in Nat
      BY DEF AccountInv, AccountTypeOK
    <3>4. now < sessions[t].exp => t \in DOMAIN denied /\ denied[t] >= sessions[t].exp
      BY DEF AccountInv, RevocationInv
    <3> QED
      BY <3>1, <3>2, <3>3, <3>4
  <2> QED
    BY <2>1, <2>2 DEF AccountInv, AccessIsCurrent
<1> QED
  BY AccountAtFirst, AccountKept, <1>1, PTL DEF AccountSpec

(* Served one request at a time, no span of the lock's length takes more   *)
(* than the limit of wrong passwords until the counter is cleared.         *)
THEOREM SpacedGuesses == ASSUME OneThread PROVE AccountSpec => []GuessesAreSpaced
<1>1. AccountInv => GuessesAreSpaced
  BY SpacedIsBounded DEF AccountInv, AccountTypeOK, GuessesInv, GuessesAreSpaced
<1> QED
  BY AccountAtFirst, AccountKept, <1>1, PTL DEF AccountSpec
=============================================================================
