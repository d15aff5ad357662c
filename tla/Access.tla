------------------------------- MODULE Access ------------------------------
(***************************************************************************)
(* Who may do what in which organisation: organizations/service.py and     *)
(* repository.py, rbac/service.py and repository.py, and the parts of      *)
(* auth/service.py that create memberships and write permissions into      *)
(* access tokens.                                                          *)
(*                                                                         *)
(* The database is one record, replaced when a request commits.  A request *)
(* that changes somebody's permissions bumps that user's token epoch in    *)
(* Redis before it commits; the bump and the commit are separate steps,    *)
(* anything else may come between them, and the commit may fail after the  *)
(* bump.  Minting a token takes two steps as well: the rights are read     *)
(* from the database, then the epoch from Redis.  An edit of a role's      *)
(* permissions overlaps one other writing request, so that its list of     *)
(* holders may be stale; two requests of any other kind do not overlap     *)
(* here, nor do two edits of permissions, nor two mints of one user.       *)
(*                                                                         *)
(* A role is named by its organisation and slug, an invitation's token by  *)
(* its row, a user by e-mail address.  An epoch only grows while a token   *)
(* lives (module Auth), so a bump is modelled by forgetting the user's     *)
(* tokens: none of them is ever accepted again.                            *)
(*                                                                         *)
(* An operator named Mut_... is a plausible mistake in the operator after  *)
(* it; nothing here uses it.                                               *)
(***************************************************************************)
EXTENDS Routes

CONSTANTS
    Users,
    Names,              \* what organisations are called
    CustomSlugs,        \* what roles are called
    CustomGrants,       \* the permission lists administrators choose from
    ChosenSlugs,        \* the roles they assign and edit
    MaxOrgs, MaxInvitations, MaxRequests

VARIABLES
    db,                 \* the committed rows
    staged,             \* {} or {what a request is about to commit}
    regrant,            \* {} or {the edit of a role about to be committed}
    session,            \* the organisation each user's session is in, 0: none
    signedIn,           \* the users with a session
    minting,            \* the tokens whose rights are read, their epoch not
    tokens,             \* the access tokens still accepted
    served              \* requests of signed-in users that wrote

vars == <<db, staged, regrant, session, signedIn, minting, tokens, served>>

ASSUME AccessAssumption ==
    /\ CustomGrants \subseteq SUBSET Grant
    /\ CustomSlugs \cap DOMAIN SYSTEM_ROLE_PERMISSIONS = {}
    /\ {MaxOrgs, MaxInvitations, MaxRequests} \subseteq Nat

----------------------------------------------------------------------------
(* Rows.                                                                   *)

Organization(slug) == [slug |-> slug, deleted |-> FALSE]
Role(grants, system, default) ==
    [grants |-> grants, system |-> system, default |-> default]
OrganizationMember(role, owner) == [role |-> role, owner |-> owner, active |-> TRUE]
Invitation(o, u, role) == [org |-> o, email |-> u, role |-> role, status |-> "pending"]

Orgs == DOMAIN db.orgs
RolesOf(o) == {r \in DOMAIN db.roles : r[1] = o}
MembersOf(o) == {m \in DOMAIN db.members : m[1] = o}
is_member(o, u) == <<o, u>> \in DOMAIN db.members
is_full_access(r) == <<"*", "*">> \in db.roles[r].grants

Plus(f, x, v) == [y \in DOMAIN f \cup {x} |-> IF y = x THEN v ELSE f[y]]
Minus(f, x) == [y \in DOMAIN f \ {x} |-> f[y]]

\* The partial unique indexes of organization_member, role and invitation.
UniqueRows(d) ==
    /\ \A m, n \in DOMAIN d.members :
            m[1] = n[1] /\ d.members[m].owner /\ d.members[n].owner => m = n
    /\ \A r, s \in DOMAIN d.roles :
            r[1] = s[1] /\ d.roles[r].default /\ d.roles[s].default => r = s
    /\ \A i, j \in DOMAIN d.invitations :
            LET a == d.invitations[i]
                b == d.invitations[j]
            IN  a.status = "pending" /\ b.status = "pending"
                /\ a.org = b.org /\ a.email = b.email => i = j

----------------------------------------------------------------------------
(* Permissions and tokens.                                                 *)

get(o) == o \in Orgs /\ ~db.orgs[o].deleted

Mut_AnyRole(o, r) == r \in DOMAIN db.roles
get_scoped(o, r) == r \in RolesOf(o)

get_default(o) == {r \in RolesOf(o) : db.roles[r].default}

active_memberships(u) ==
    {m \in DOMAIN db.members : m[2] = u /\ db.members[m].active /\ get(m[1])}

_permissions_for(u, o) ==
    IF is_member(o, u) /\ db.members[<<o, u>>].active
    THEN expand_grants(db.roles[db.members[<<o, u>>].role].grants)
    ELSE {}

\* The last organisation if still usable, else the oldest membership (any).
_resolve_active_organization(u) ==
    LET usable == {m[1] : m \in active_memberships(u)}
    IN  IF db.last[u] \in usable THEN {db.last[u]}
        ELSE IF usable = {} THEN {0} ELSE usable

\* A request has bumped the epoch of u and not committed, or is editing a role
\* of o.
UnderWay(u, o) ==
    (\E c \in staged : u \in c.users) \/ (\E g \in regrant : g.role[1] = o)

\* racing: such a request was under way while the token was minted.
_issue_access_token(u, o) ==
    /\ \A m \in minting : m.user # u
    /\ minting' = minting \cup {[user |-> u, org |-> o, perms |-> _permissions_for(u, o),
                                racing |-> UnderWay(u, o)]}

\* With the epoch of this moment, which every request accepts until it is bumped.
create_access_token ==
    \E m \in minting :
        /\ tokens' = tokens \cup {m}
        /\ minting' = minting \ {m}
        /\ UNCHANGED <<db, staged, regrant, session, signedIn, served>>

Allowed(u, o, route) ==
    \E t \in tokens : t.user = u /\ t.org = o /\ require_permission(t.perms, route)
HasToken(u, o) == \E t \in tokens : t.user = u /\ t.org = o

----------------------------------------------------------------------------
(* Writing.                                                                *)

Serving == served < MaxRequests /\ served' = served + 1
Idle == staged = {} /\ Serving
Chosen == {r \in DOMAIN db.roles : r[2] \in ChosenSlugs}

Save(d) ==
    /\ UniqueRows(d)
    /\ db' = d
    /\ UNCHANGED <<staged, regrant, session, signedIn, minting, tokens>>

\* A token minted across a bump carries the new epoch and the old rights.
Bump(users) ==
    /\ tokens' = {t \in tokens : t.user \notin users}
    /\ minting' = {[m EXCEPT !.racing = @ \/ m.user \in users] : m \in minting}

Mut_NoBump(d, users) == Save(d)
SaveAndBump(d, users) ==
    /\ UniqueRows(d)
    /\ staged' = {[db |-> d, users |-> users]}
    /\ Bump(users)
    /\ UNCHANGED <<db, regrant, session, signedIn>>

Commit ==
    \E c \in staged :
        /\ db' = c.db
        /\ staged' = {}
        /\ UNCHANGED <<regrant, session, signedIn, minting, tokens, served>>
Rollback ==
    /\ staged # {}
    /\ staged' = {}
    /\ UNCHANGED <<db, regrant, session, signedIn, minting, tokens, served>>

----------------------------------------------------------------------------
(* Signing in; refreshing; switching.                                      *)

\* _establish_session, once Auth has accepted the user.
_establish_session(u) ==
    /\ u \in db.users
    /\ \E o \in _resolve_active_organization(u) :
        /\ session' = [session EXCEPT ![u] = o]
        /\ signedIn' = signedIn \cup {u}
        /\ _issue_access_token(u, o)
    /\ UNCHANGED <<db, staged, regrant, tokens, served>>

refresh(u) ==
    /\ u \in signedIn
    /\ _issue_access_token(u, session[u])
    /\ UNCHANGED <<db, staged, regrant, session, signedIn, tokens, served>>

switch_organization(u, o) ==
    /\ u \in signedIn /\ Idle
    /\ is_member(o, u) /\ db.members[<<o, u>>].active
    /\ session' = [session EXCEPT ![u] = o]
    /\ db' = [db EXCEPT !.last[u] = o]
    /\ _issue_access_token(u, o)
    /\ UNCHANGED <<staged, regrant, signedIn, tokens>>

----------------------------------------------------------------------------
(* Organisations.                                                          *)

\* Deleted organisations keep their slug.
slug_taken(slug) == \E o \in Orgs : db.orgs[o].slug = slug
generate_unique_slug(name) ==
    LET free == {n \in 1 .. MaxOrgs + 1 : ~slug_taken(<<name, n>>)}
    IN  <<name, CHOOSE n \in free : \A k \in free : n <= k>>

seed_system_roles(o) ==
    [r \in {o} \X DOMAIN SYSTEM_ROLE_PERMISSIONS |->
        Role(SYSTEM_ROLE_PERMISSIONS[r[2]], TRUE, r[2] = "viewer")]

\* OrganizationService.create and AuthService._provision_organization.
_provision_organization(d, name, u) ==
    LET o == Len(d.orgs) + 1
        seeded == seed_system_roles(o)
    IN  [d EXCEPT !.orgs = Append(@, Organization(generate_unique_slug(name))),
                  !.roles = [r \in DOMAIN @ \cup DOMAIN seeded |->
                                IF r \in DOMAIN seeded THEN seeded[r] ELSE @[r]],
                  !.members = Plus(@, <<o, u>>, OrganizationMember(<<o, "owner">>, TRUE)),
                  !.last[u] = o]

create(u, name) ==
    /\ Idle /\ u \in signedIn
    /\ Len(db.orgs) < MaxOrgs
    /\ Save(_provision_organization(db, name, u))

delete(u, o) ==
    /\ Idle
    /\ Allowed(u, o, OrganizationRoutes.delete_current_organization)
    /\ get(o)
    /\ is_member(o, u) /\ db.members[<<o, u>>].owner
    /\ Save([db EXCEPT !.orgs[o].deleted = TRUE])

----------------------------------------------------------------------------
(* Members.  u acts on the membership of v in u's organisation o.          *)

_get_member_scoped(o, v) == is_member(o, v)

\* The owner's role, standing and row are out of everybody's reach.
Mut_Reachable(o, v) == TRUE
NotOwner(o, v) == ~db.members[<<o, v>>].owner

update_member(u, o, v, r) ==
    /\ Idle
    /\ Allowed(u, o, MemberRoutes.update_member)
    /\ _get_member_scoped(o, v) /\ NotOwner(o, v)
    /\ db.members[<<o, v>>].role # r
    /\ get_scoped(o, r)
    /\ SaveAndBump([db EXCEPT !.members[<<o, v>>].role = r], {v})

suspend_member(u, o, v) ==
    /\ Idle
    /\ Allowed(u, o, MemberRoutes.suspend_member)
    /\ _get_member_scoped(o, v) /\ NotOwner(o, v) /\ u # v
    /\ SaveAndBump([db EXCEPT !.members[<<o, v>>].active = FALSE], {v})

reactivate_member(u, o, v) ==
    /\ Idle
    /\ Allowed(u, o, MemberRoutes.reactivate_member)
    /\ _get_member_scoped(o, v)
    /\ SaveAndBump([db EXCEPT !.members[<<o, v>>].active = TRUE], {v})

remove_member(u, o, v) ==
    /\ Idle
    /\ Allowed(u, o, MemberRoutes.remove_member)
    /\ _get_member_scoped(o, v) /\ NotOwner(o, v) /\ u # v
    /\ SaveAndBump([db EXCEPT !.members = Minus(@, <<o, v>>)], {v})

leave(u, o) ==
    /\ Idle
    /\ HasToken(u, o)
    /\ is_member(o, u) /\ NotOwner(o, u)
    /\ SaveAndBump([db EXCEPT !.members = Minus(@, <<o, u>>),
                              !.last[u] = IF @ = o THEN 0 ELSE @], {u})

----------------------------------------------------------------------------
(* Invitations.                                                            *)

get_pending(o, v) ==
    {i \in DOMAIN db.invitations :
        db.invitations[i].org = o /\ db.invitations[i].email = v
        /\ db.invitations[i].status = "pending"}

\* r is the chosen role, or the default when the request names none.
invite(u, o, v) ==
    /\ Idle
    /\ Allowed(u, o, InvitationRoutes.create_invitation)
    /\ get(o) /\ Len(db.invitations) < MaxInvitations
    /\ ~(v \in db.users /\ is_member(o, v))
    /\ get_pending(o, v) = {}
    /\ \E r \in Chosen \cup get_default(o) :
        /\ get_scoped(o, r)
        /\ Save([db EXCEPT !.invitations = Append(@, Invitation(o, v, r))])

\* list_invitations, when some of the organisation's invitations have lapsed.
expire_stale(u, o) ==
    /\ Idle
    /\ Allowed(u, o, InvitationRoutes.list_invitations)
    /\ \E i \in DOMAIN db.invitations :
        /\ db.invitations[i].org = o /\ db.invitations[i].status = "pending"
        /\ Save([db EXCEPT !.invitations[i].status = "expired"])

revoke_invitation(u, o, i) ==
    /\ Idle
    /\ Allowed(u, o, InvitationRoutes.revoke_invitation)
    /\ db.invitations[i].org = o /\ db.invitations[i].status = "pending"
    /\ Save([db EXCEPT !.invitations[i].status = "revoked"])

resend_invitation(u, o, i) ==
    /\ Idle
    /\ Allowed(u, o, InvitationRoutes.resend_invitation)
    /\ db.invitations[i].org = o
    /\ db.invitations[i].status \in {"pending", "expired"}
    /\ get(o) /\ get_scoped(o, db.invitations[i].role)
    /\ Save([db EXCEPT !.invitations[i].status = "pending"])

is_redeemable(i) == db.invitations[i].status = "pending"

_redeem_invitation(d, i, u) == [d EXCEPT !.invitations[i].status = "accepted",
    !.members = Plus(@, <<d.invitations[i].org, u>>,
                     OrganizationMember(d.invitations[i].role, FALSE)),
    !.last[u] = d.invitations[i].org]

accept_invitation(u, i) ==
    /\ Idle /\ u \in signedIn
    /\ is_redeemable(i) /\ db.invitations[i].email = u
    /\ IF is_member(db.invitations[i].org, u)
       THEN Save([db EXCEPT !.invitations[i].status = "accepted"])
       ELSE SaveAndBump(_redeem_invitation(db, i, u), {u})

\* register, alone, with an organisation's name, or with an invitation.
register(u) ==
    /\ staged = {} /\ u \notin db.users
    /\ UNCHANGED served
    /\ LET joined == [db EXCEPT !.users = @ \cup {u}]
       IN  \/ Save(joined)
           \/ /\ Len(db.orgs) < MaxOrgs
              /\ \E name \in Names : Save(_provision_organization(joined, name, u))
           \/ \E i \in DOMAIN db.invitations :
                /\ is_redeemable(i) /\ db.invitations[i].email = u
                /\ Save(_redeem_invitation(joined, i, u))

----------------------------------------------------------------------------
(* Roles.                                                                  *)

create_role(u, o, slug, grants) ==
    /\ Idle
    /\ Allowed(u, o, RoleRoutes.create_role)
    /\ <<o, slug>> \notin DOMAIN db.roles
    /\ Save([db EXCEPT !.roles = Plus(@, <<o, slug>>, Role(grants, FALSE, FALSE))])

Holders(o, r) == {m[2] : m \in {x \in MembersOf(o) : db.members[x].role = r}}

\* An edit of a role's permissions holds its row until it commits.
Unlocked(roles) == \A g \in regrant : g.role \notin roles

update_role(u, o, r) ==
    /\ Allowed(u, o, RoleRoutes.update_role)
    /\ get_scoped(o, r)
    /\ \/ /\ Serving /\ regrant = {}
          /\ ~is_full_access(r)
          /\ \E grants \in CustomGrants : regrant' = {[role |-> r, grants |-> grants]}
          /\ Bump(Holders(o, r))
          /\ UNCHANGED <<db, staged, session, signedIn>>
       \/ /\ Idle /\ Unlocked(get_default(o) \cup {r})
          /\ Save([db EXCEPT !.roles = [x \in DOMAIN @ |->
                IF x[1] = o THEN [@[x] EXCEPT !.default = (x = r)] ELSE @[x]]])
       \/ /\ Idle /\ Unlocked({r})
          /\ Save([db EXCEPT !.roles[r].default = FALSE])

\* The commit of such an edit, beside the rows that another request has staged.
Regranted(d, g) == [d EXCEPT !.roles[g.role].grants = g.grants]
CommitRegrant ==
    \E g \in regrant :
        /\ db' = Regranted(db, g)
        /\ staged' = {[c EXCEPT !.db = Regranted(@, g)] : c \in staged}
        /\ regrant' = {}
        /\ UNCHANGED <<session, signedIn, minting, tokens, served>>
RollbackRegrant ==
    /\ regrant # {}
    /\ regrant' = {}
    /\ UNCHANGED <<db, staged, session, signedIn, minting, tokens, served>>

count_with_role(r) == {m \in DOMAIN db.members : db.members[m].role = r}

\* The foreign keys of members and invitations are RESTRICT.
Unreferenced(r) == \A i \in DOMAIN db.invitations : db.invitations[i].role # r

delete_role(u, o, r) ==
    /\ Idle
    /\ Allowed(u, o, RoleRoutes.delete_role)
    /\ get_scoped(o, r) /\ Unlocked({r})
    /\ ~db.roles[r].system
    /\ count_with_role(r) = {}
    /\ Unreferenced(r)
    /\ Save([db EXCEPT !.roles = Minus(@, r)])

----------------------------------------------------------------------------

Nothing == [users |-> {}, orgs |-> <<>>, roles |-> <<>>, members |-> <<>>,
            invitations |-> <<>>, last |-> [u \in Users |-> 0]]

Init ==
    /\ db = Nothing
    /\ staged = {}
    /\ regrant = {}
    /\ session = [u \in Users |-> 0]
    /\ signedIn = {}
    /\ minting = {}
    /\ tokens = {}
    /\ served = 0

Next ==
    \/ Commit \/ Rollback \/ CommitRegrant \/ RollbackRegrant
    \/ create_access_token
    \/ \E u \in Users : \/ register(u) \/ _establish_session(u) \/ refresh(u)
                        \/ \E name \in Names : create(u, name)
                        \/ \E i \in DOMAIN db.invitations : accept_invitation(u, i)
    \/ \E u \in Users, o \in Orgs :
        \/ switch_organization(u, o) \/ delete(u, o) \/ leave(u, o)
        \/ expire_stale(u, o)
        \/ \E v \in Users :
            \/ suspend_member(u, o, v) \/ reactivate_member(u, o, v)
            \/ remove_member(u, o, v) \/ invite(u, o, v)
            \/ \E r \in Chosen : update_member(u, o, v, r)
        \/ \E i \in DOMAIN db.invitations :
            revoke_invitation(u, o, i) \/ resend_invitation(u, o, i)
        \/ \E slug \in CustomSlugs, grants \in CustomGrants : create_role(u, o, slug, grants)
        \/ \E r \in Chosen : update_role(u, o, r) \/ delete_role(u, o, r)

Spec == Init /\ [][Next]_vars

----------------------------------------------------------------------------
(* Properties.                                                             *)

(***************************************************************************)
(* "every org needs a guaranteed administrator, or it can be locked out    *)
(* permanently" (organizations/models.py): whatever administrators do to   *)
(* members, roles and invitations, every organisation keeps one owner, who *)
(* is active and whose role still grants every permission.                 *)
(***************************************************************************)
OwnerKeepsControl ==
    \A o \in Orgs : \E u \in Users :
        /\ is_member(o, u)
        /\ db.members[<<o, u>>].owner
        /\ \A v \in Users : is_member(o, v) /\ db.members[<<o, v>>].owner => v = u
        /\ _permissions_for(u, o) = Permission

(***************************************************************************)
(* A token that is still accepted grants no more than its user holds in    *)
(* its organisation at this moment, unless a change to that user, or an    *)
(* edit of one of the organisation's roles, was under way while the token  *)
(* was minted.  Suspending, removing, leaving, changing a member's role    *)
(* and editing a role that others are being given at the same time: who    *)
(* held a token before loses it before the change commits.                 *)
(***************************************************************************)
StaleGrantsRefused ==
    \A t \in tokens : ~t.racing => t.perms \subseteq _permissions_for(t.user, t.org)

(***************************************************************************)
(* Roles never cross organisations and never disappear under those who     *)
(* hold them: a member's role and the role an invitation offers exist in   *)
(* the same organisation.                                                  *)
(***************************************************************************)
RolesStayHome ==
    /\ \A m \in DOMAIN db.members : db.members[m].role \in RolesOf(m[1])
    /\ \A i \in DOMAIN db.invitations :
            db.invitations[i].role \in RolesOf(db.invitations[i].org)

(***************************************************************************)
(* A caller whose token holds nothing but read permissions makes no change *)
(* in an organisation, whichever roles were combined or edited to arrive   *)
(* there.  Of the routes that ask for a permission, those that such a      *)
(* token passes write at most the upkeep that reading brings with it: the  *)
(* label of a lapsed invitation, what the organisation lacks of the        *)
(* standard books, the row of its sealing settings.                        *)
(***************************************************************************)
ReadersOnlyTend ==
    \A t \in tokens :
        (\A p \in t.perms : p[2] = "read")
            => \A r \in GuardedRoutes :
                   require_permission(t.perms, r) => r.writes \subseteq Upkeep
=============================================================================
