---------------------------- MODULE TenantAccess ----------------------------
(***************************************************************************)
(* Who may enter an organization: bootstrap of the platform, organizations *)
(* and their suspension, invitations and memberships.                      *)
(*                                                                         *)
(* As in FormWorkflow, a handler runs its checks on what it SELECTs (its   *)
(* Begin step) and writes later (its Commit step), without a lock.  What   *)
(* the database itself guarantees are the unique keys: users.email,        *)
(* (tenant_id, user_id) of memberships and one pending invitation per      *)
(* (tenant_id, email); an INSERT that breaks one is answered 409.          *)
(***************************************************************************)
EXTENDS RequestThreads, Integers, Sequences, FiniteSets

CONSTANTS
    Roots,          \* e-mails that may be given to the bootstrap endpoint
    Orgs,           \* organization ids
    Users,          \* e-mails of everyone else; an e-mail is the identity
    MaxInvites      \* bound of the model: rows after which no invitation starts

ASSUME AccessAssumption == Roots \cap Users = {} /\ MaxInvites \in Nat

VARIABLES
    supers,         \* users with is_platform_super_admin
    accounts,       \* the rows of users, for the rest
    org,            \* organizations.status, "absent" before the INSERT
    membership,     \* memberships, by their unique key
    invites         \* invitations, oldest first

vars == <<supers, accounts, org, membership, invites, req>>

----------------------------------------------------------------------------
(* Data.                                                                   *)

\* Of the other six roles of settings.Role five have neither permission below, as
\* "client" has none.  The sixth, super_admin, has both, and nothing keeps an
\* invitation from offering it; such members are left out.
Roles == {"org_admin", "consultant", "client"}

Inviters == {"org_admin", "consultant"}     \* invite_users
Managers == {"org_admin"}                   \* manage_memberships

MemberStatuses == {"active", "disabled"}

Memberships == [role : Roles, status : MemberStatuses]

Invites == [org : Orgs, email : Users, role : Roles, expired : BOOLEAN,
            status : {"pending", "accepted", "expired", "revoked"}]

Requests ==
    [op : {"bootstrap"}, email : Roots]
      \cup [op : {"invite"}, org : Orgs, email : Users, role : Roles]
      \cup [op : {"accept"}, id : Nat \ {0}, known : BOOLEAN]
      \cup [op : {"lapse", "revoke", "resend"}, id : Nat \ {0}]
      \cup [op : {"role", "status"}, org : Orgs, email : Users,
            seen : Memberships, new : Roles \cup MemberStatuses]

ASSUME NothingAssumption == NoRow \notin Memberships /\ Idle \notin Requests

\* The type invariant: a membership never takes a status or role outside the
\* enums, whatever an accepted invitation or a change request carried.
TypeOK ==
    /\ supers \subseteq Roots
    /\ accounts \subseteq Users
    /\ org \in [Orgs -> {"absent", "active", "suspended"}]
    /\ membership \in [Orgs \X Users -> Memberships \cup {NoRow}]
    /\ invites \in Seq(Invites)
    /\ req \in [Workers -> Requests \cup {Idle}]

Init ==
    /\ supers = {}
    /\ accounts = {}
    /\ org = [o \in Orgs |-> "absent"]
    /\ membership = [m \in Orgs \X Users |-> NoRow]
    /\ invites = <<>>
    /\ req = [w \in Workers |-> Idle]

Has(m) == membership[m] # NoRow

\* The memberships of one user, in any organization and of either status.
Of(u) == {m \in Orgs \X Users : m[2] = u /\ Has(m)}

ActiveMember(o, u) == Has(<<o, u>>) /\ membership[<<o, u>>].status = "active"

ActiveAdmins(o) ==
    {u \in Users : ActiveMember(o, u) /\ membership[<<o, u>>].role = "org_admin"}

\* get_org_context and require_permission: a super admin enters any
\* organization, a member with the right role only an active one.
Permitted(who, o, roles) ==
    \/ who \in supers /\ org[o] # "absent"
    \/ /\ who \in Users
       /\ ActiveMember(o, who)
       /\ org[o] = "active"
       /\ membership[<<o, who>>].role \in roles

----------------------------------------------------------------------------
(* Requests.  One that its checks refuse (4xx) is not begun.               *)

Load(w, request) ==
    /\ req[w] = Idle
    /\ req' = [req EXCEPT ![w] = request]
    /\ UNCHANGED <<supers, accounts, org, membership, invites>>

\* Fault: nothing is tested before the INSERT.
NotAskedYet == TRUE

NotBootstrapped == supers = {}

BeginBootstrap(w, email) ==
    NotBootstrapped /\ Load(w, [op |-> "bootstrap", email |-> email])

CommitBootstrap(w) ==
    /\ Serving(w, {"bootstrap"})
    /\ supers' = supers \cup {req[w].email}
    /\ Answer(w)
    /\ UNCHANGED <<accounts, org, membership, invites>>

CreateOrganization(who, o) ==
    /\ who \in supers
    /\ org[o] = "absent"
    /\ org' = [org EXCEPT ![o] = "active"]
    /\ UNCHANGED <<supers, accounts, membership, invites, req>>

SetOrganizationStatus(who, o, new) ==
    /\ who \in supers
    /\ org[o] # "absent"
    /\ org' = [org EXCEPT ![o] = new]
    /\ UNCHANGED <<supers, accounts, membership, invites, req>>

----------------------------------------------------------------------------
(* Invitations.                                                            *)

Pending(i) == invites[i].status = "pending"

PendingFor(o, u) ==
    {i \in DOMAIN invites :
        Pending(i) /\ invites[i].org = o /\ invites[i].email = u}

\* A disabled member may be invited again.
BeginInvite(w, who, o, u, role) ==
    /\ Permitted(who, o, Inviters)
    /\ ~ActiveMember(o, u)
    /\ PendingFor(o, u) = {}
    /\ Len(invites) < MaxInvites
    /\ Load(w, [op |-> "invite", org |-> o, email |-> u, role |-> role])

\* The partial unique index uq_pending_invite admits the row.
UniquePending(o, u) == PendingFor(o, u) = {}

CommitInvite(w) ==
    /\ Serving(w, {"invite"})
    /\ invites' =
         IF UniquePending(req[w].org, req[w].email)
         THEN Append(invites, [org |-> req[w].org, email |-> req[w].email,
                               role |-> req[w].role, expired |-> FALSE,
                               status |-> "pending"])
         ELSE invites
    /\ Answer(w)
    /\ UNCHANGED <<supers, accounts, org, membership>>

\* Fault: only the new role is looked at.
CheckNewRole(u, role) == Of(u) = {} \/ role = "consultant"

\* _check_fr020: a second membership only from consultant to consultant.
CheckFR020(u, role) ==
    Of(u) # {} =>
        /\ role = "consultant"
        /\ \A m \in Of(u) : membership[m].role = "consultant"

\* Fault: anything not yet accepted can still be accepted.
RedeemableIfUnused(i) == invites[i].status # "accepted"

Redeemable(i) == Pending(i)

\* The token finds its invitation, whatever the organization's status.  The
\* token a resend has replaced finds none, so it is not a request here.
BeginAccept(w, i) ==
    LET u     == invites[i].email
        known == u \in accounts
    IN  /\ Redeemable(i)
        /\ ~invites[i].expired
        /\ known => CheckFR020(u, invites[i].role)
        /\ Load(w, [op |-> "accept", id |-> i, known |-> known])

\* Fault: the membership takes the invitation's status.
AdmittedPending(i) == [role |-> invites[i].role, status |-> invites[i].status]

Admitted(i) == [role |-> invites[i].role, status |-> "active"]

\* The user (when the handler had found none), the membership and the
\* invitation's status in one transaction, or a 409 from a unique key.
CommitAccept(w) ==
    /\ Serving(w, {"accept"})
    /\ LET i == req[w].id
           m == <<invites[i].org, invites[i].email>>
           conflict == Has(m) \/ (~req[w].known /\ m[2] \in accounts)
       IN  IF conflict
           THEN UNCHANGED <<accounts, membership, invites>>
           ELSE /\ accounts' = accounts \cup {m[2]}
                /\ membership' = [membership EXCEPT ![m] = Admitted(i)]
                /\ invites' = [invites EXCEPT ![i].status = "accepted"]
    /\ Answer(w)
    /\ UNCHANGED <<supers, org>>

\* An accept that finds the invitation past its expiry marks it.
BeginLapse(w, i) ==
    /\ Redeemable(i)
    /\ invites[i].expired
    /\ Load(w, [op |-> "lapse", id |-> i])

BeginRevoke(w, who, i) ==
    /\ Permitted(who, invites[i].org, Inviters)
    /\ Pending(i)
    /\ Load(w, [op |-> "revoke", id |-> i])

BeginResend(w, who, i) ==
    /\ Permitted(who, invites[i].org, Inviters)
    /\ Pending(i)
    /\ Load(w, [op |-> "resend", id |-> i])

\* lapse and revoke write the status, resend a new token and expiry; each
\* writes over whatever has been committed since it was loaded.
CommitInviteUpdate(w) ==
    /\ Serving(w, {"lapse", "revoke", "resend"})
    /\ invites' = [invites EXCEPT
           ![req[w].id].status = CASE req[w].op = "lapse"  -> "expired"
                                   [] req[w].op = "revoke" -> "revoked"
                                   [] req[w].op = "resend" -> @,
           ![req[w].id].expired = IF req[w].op = "resend" THEN FALSE ELSE @]
    /\ Answer(w)
    /\ UNCHANGED <<supers, accounts, org, membership>>

----------------------------------------------------------------------------
(* Memberships.                                                            *)

\* Fault: the count includes the member about to go.
SpareAdminOffByOne(o) == Cardinality(ActiveAdmins(o)) > 0

\* _active_admin_count leaves someone besides the member about to go.
SpareAdmin(o) == Cardinality(ActiveAdmins(o)) > 1

BeginRoleChange(w, who, o, u, new) ==
    /\ Permitted(who, o, Managers)
    /\ Has(<<o, u>>)
    /\ (u \in ActiveAdmins(o) /\ new # "org_admin") => SpareAdmin(o)
    /\ new # "consultant" => Cardinality(Of(u)) <= 1
    /\ Load(w, [op |-> "role", org |-> o, email |-> u,
                seen |-> membership[<<o, u>>], new |-> new])

BeginStatusChange(w, who, o, u, new) ==
    /\ Permitted(who, o, Managers)
    /\ Has(<<o, u>>)
    /\ (u \in ActiveAdmins(o) /\ new = "disabled") => SpareAdmin(o)
    /\ Load(w, [op |-> "status", org |-> o, email |-> u,
                seen |-> membership[<<o, u>>], new |-> new])

CommitMembership(w) ==
    /\ Serving(w, {"role", "status"})
    /\ LET r == req[w]
           m == <<r.org, r.email>>
       IN  membership' = [membership EXCEPT
              ![m].role   = IF r.op = "role" THEN Column(@, r.seen.role, r.new) ELSE @,
              ![m].status = IF r.op = "status" THEN Column(@, r.seen.status, r.new) ELSE @]
    /\ Answer(w)
    /\ UNCHANGED <<supers, accounts, org, invites>>

----------------------------------------------------------------------------
(* The environment.                                                        *)

InviteExpires(i) ==
    /\ Pending(i)
    /\ invites' = [invites EXCEPT ![i].expired = TRUE]
    /\ UNCHANGED <<supers, accounts, org, membership, req>>

Crash(w) ==
    /\ req[w] # Idle
    /\ Answer(w)
    /\ UNCHANGED <<supers, accounts, org, membership, invites>>

----------------------------------------------------------------------------

People == Roots \cup Users

Platform(w) ==
    \/ \E email \in Roots : BeginBootstrap(w, email)
    \/ CommitBootstrap(w)

Invitation(w) ==
    \/ \E who \in People, o \in Orgs, u \in Users, role \in Roles :
           BeginInvite(w, who, o, u, role)
    \/ CommitInvite(w)
    \/ \E i \in DOMAIN invites :
           \/ BeginAccept(w, i)
           \/ BeginLapse(w, i)
           \/ \E who \in People : BeginRevoke(w, who, i) \/ BeginResend(w, who, i)
    \/ CommitAccept(w)
    \/ CommitInviteUpdate(w)

Membership(w) ==
    \/ \E who \in People, o \in Orgs, u \in Users :
           \/ \E new \in Roles : BeginRoleChange(w, who, o, u, new)
           \/ \E new \in MemberStatuses : BeginStatusChange(w, who, o, u, new)
    \/ CommitMembership(w)

Environment ==
    \/ \E who \in Roots, o \in Orgs :
           \/ CreateOrganization(who, o)
           \/ \E new \in {"active", "suspended"} : SetOrganizationStatus(who, o, new)
    \/ \E i \in DOMAIN invites : InviteExpires(i)
    \/ \E w \in Workers : Crash(w)

Next ==
    \/ \E w \in Workers : Platform(w) \/ Invitation(w) \/ Membership(w)
    \/ Environment

Spec == Init /\ [][Next]_vars

----------------------------------------------------------------------------
(* Properties.                                                             *)

\* FR-022: an organization that has an active administrator keeps one; the
\* count in change_role and change_membership_status is what protects it.
KeepsAnAdmin ==
    [][\A o \in Orgs : ActiveAdmins(o) # {} => ActiveAdmins(o)' # {}]_vars

\* FR-020: whoever belongs to two organizations is a consultant in both,
\* through every order of invitations, role changes and reactivations.
OnlyConsultantsRoam ==
    \A u \in Users : Cardinality(Of(u)) > 1 =>
        \A m \in Of(u) : membership[m].role = "consultant"

\* FR-017 and FR-018: nobody becomes a member except by an invitation that
\* is pending until the very step that admits its addressee; one that was
\* revoked, used or marked expired admits nobody.
AdmittedByPendingInvite ==
    [][\A m \in Orgs \X Users : ~Has(m) /\ Has(m)' =>
          \E i \in DOMAIN invites :
              /\ Pending(i)
              /\ invites'[i].status = "accepted"
              /\ <<invites[i].org, invites[i].email>> = m]_vars

\* FR-001: the bootstrap endpoint makes one super admin and no second.
BootstrapsOnce == Cardinality(supers) <= 1

\* What every order of legal calls leaves true, one request at a time: the
\* rules that span rows, each tested by several endpoints on rows of its own.
MembershipsAreSound ==
    /\ TypeOK
    /\ OnlyConsultantsRoam
    /\ BootstrapsOnce

=============================================================================
