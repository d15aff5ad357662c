---------------------------- MODULE AccessProofs ---------------------------
(***************************************************************************)
(* Proofs about module Access, for any users, organisations and custom     *)
(* roles: that every organisation keeps its owner in control, that roles   *)
(* do not cross organisations, that a token outlives none of the grants it *)
(* carries unless a change was under way when it was minted, and that the  *)
(* routes open to readers write upkeep at most.                            *)
(***************************************************************************)
EXTENDS Access, Onboarding, SequenceTheorems, TLAPS

----------------------------------------------------------------------------
(* The inductive invariant.                                                *)

Slugs == CustomSlugs \cup DOMAIN SYSTEM_ROLE_PERMISSIONS
RoleRow == [grants : SUBSET Grant, system : BOOLEAN, default : BOOLEAN]
MemberRow == [role : Nat \X Slugs, owner : BOOLEAN, active : BOOLEAN]
InvitationRow == [org : Nat, email : Users, role : Nat \X Slugs,
                  status : {"pending", "accepted", "expired", "revoked"}]

IsSeq(s) == Len(s) \in Nat /\ DOMAIN s = 1 .. Len(s) /\ s = [i \in DOMAIN s |-> s[i]]

Shape(d) ==
    /\ d = [users |-> d.users, orgs |-> d.orgs, roles |-> d.roles,
            members |-> d.members, invitations |-> d.invitations, last |-> d.last]
    /\ d.users \subseteq Users
    /\ IsSeq(d.orgs)
    /\ d.roles \in [DOMAIN d.roles -> RoleRow]
    /\ DOMAIN d.roles \subseteq (DOMAIN d.orgs) \X Slugs
    /\ d.members \in [DOMAIN d.members -> MemberRow]
    /\ DOMAIN d.members \subseteq (DOMAIN d.orgs) \X d.users
    /\ d.invitations \in Seq(InvitationRow)

\* RolesStayHome, of a database.
RoleAtHome(d, r, o) == o \in DOMAIN d.orgs /\ r \in DOMAIN d.roles /\ r[1] = o
MembersHome(d) == \A m \in DOMAIN d.members : RoleAtHome(d, d.members[m].role, m[1])
InvitationsHome(d) ==
    \A i \in DOMAIN d.invitations :
        RoleAtHome(d, d.invitations[i].role, d.invitations[i].org)

\* The owner is active and has the seeded role, which nobody can edit or delete.
Owns(d, o, u) ==
    /\ <<o, u>> \in DOMAIN d.members
    /\ d.members[<<o, u>>].owner
    /\ d.members[<<o, u>>].active
    /\ d.members[<<o, u>>].role = <<o, "owner">>
OwnerRole(d, o) ==
    /\ <<o, "owner">> \in DOMAIN d.roles
    /\ d.roles[<<o, "owner">>].system
    /\ <<"*", "*">> \in d.roles[<<o, "owner">>].grants
Owned(d) == \A o \in DOMAIN d.orgs : OwnerRole(d, o) /\ \E u \in d.users : Owns(d, o, u)

Sound(d) == Shape(d) /\ MembersHome(d) /\ InvitationsHome(d) /\ Owned(d) /\ UniqueRows(d)

\* _permissions_for, in database d.
PermsIn(d, u, o) ==
    IF <<o, u>> \in DOMAIN d.members /\ d.members[<<o, u>>].active
    THEN expand_grants(d.roles[d.members[<<o, u>>].role].grants)
    ELSE {}

\* The same, once the edit g of a role is committed.
PermsAfter(d, g, u, o) ==
    IF <<o, u>> \in DOMAIN d.members /\ d.members[<<o, u>>].active
    THEN expand_grants(IF d.members[<<o, u>>].role = g.role THEN g.grants
                       ELSE d.roles[d.members[<<o, u>>].role].grants)
    ELSE {}

\* What a request has staged differs from the rows in memberships of the users
\* whose epoch it has bumped.
StagedOK(c) ==
    /\ c = [db |-> c.db, users |-> c.users]
    /\ Sound(c.db) /\ c.db.users = db.users /\ c.db.roles = db.roles
    /\ \A m \in DOMAIN db.members : m[2] \notin c.users =>
            m \in DOMAIN c.db.members /\ c.db.members[m] = db.members[m]

RegrantOK(d, g) ==
    /\ g.role \in DOMAIN d.roles
    /\ <<"*", "*">> \notin d.roles[g.role].grants
    /\ g.grants \subseteq Grant

IsToken(t) ==
    /\ t = [user |-> t.user, org |-> t.org, perms |-> t.perms, racing |-> t.racing]
    /\ t.racing \in BOOLEAN

\* The token is no wider than the rows, nor than they become by the role edit
\* under way, and no request has bumped its user's epoch and not committed.
Fresh(t) ==
    /\ t.perms \subseteq PermsIn(db, t.user, t.org)
    /\ \A c \in staged : t.user \notin c.users
    /\ \A g \in regrant : t.perms \subseteq PermsAfter(db, g, t.user, t.org)
TokensFresh == \A t \in tokens \cup minting : ~t.racing => Fresh(t)

IInv ==
    /\ Sound(db)
    /\ \A c \in staged : StagedOK(c)
    /\ \A g \in regrant : RegrantOK(db, g)
    /\ signedIn \subseteq db.users
    /\ \A m \in minting : IsToken(m)
    /\ TokensFresh

----------------------------------------------------------------------------
(* What a change of one table leaves of the invariant.                     *)

\* A change of memberships that leaves the owners' rows alone.
LEMMA SoundMembers ==
  ASSUME NEW d, NEW e, Sound(d), UniqueRows(e),
         e = [users |-> d.users, orgs |-> d.orgs, roles |-> d.roles,
              members |-> e.members, invitations |-> d.invitations, last |-> e.last],
         e.members \in [DOMAIN e.members -> MemberRow],
         DOMAIN e.members \subseteq (DOMAIN d.orgs) \X d.users,
         MembersHome(e),
         \A m \in DOMAIN d.members : d.members[m].owner =>
            m \in DOMAIN e.members /\ e.members[m].owner
            /\ (d.members[m].active => e.members[m].active)
            /\ e.members[m].role = d.members[m].role
  PROVE  Sound(e)
<1>1. /\ e.users = d.users /\ e.orgs = d.orgs /\ e.roles = d.roles
      /\ e.invitations = d.invitations
  OBVIOUS
<1>2. Shape(e)
  <2>. QED  BY <1>1 DEF Sound, Shape
<1>3. InvitationsHome(e)
  BY <1>1 DEF Sound, InvitationsHome, RoleAtHome
<1>4. Owned(e)
  <2> SUFFICES ASSUME NEW o \in DOMAIN e.orgs
               PROVE  OwnerRole(e, o) /\ \E u \in e.users : Owns(e, o, u)
    BY DEF Owned
  <2>1. OwnerRole(d, o) /\ \E u \in d.users : Owns(d, o, u)
    BY <1>1 DEF Sound, Owned
  <2>2. PICK u \in d.users : Owns(d, o, u)
    BY <2>1
  <2>3. Owns(e, o, u)
    BY <2>2 DEF Owns
  <2>. QED  BY <1>1, <2>1, <2>3 DEF OwnerRole
<1>. QED  BY <1>2, <1>3, <1>4 DEF Sound

\* A change of roles that leaves the system roles' grants and every role that
\* is held or offered.
LEMMA SoundRoles ==
  ASSUME NEW d, NEW e, Sound(d), UniqueRows(e),
         e = [users |-> d.users, orgs |-> d.orgs, roles |-> e.roles,
              members |-> d.members, invitations |-> d.invitations, last |-> d.last],
         e.roles \in [DOMAIN e.roles -> RoleRow],
         DOMAIN e.roles \subseteq (DOMAIN d.orgs) \X Slugs,
         \A m \in DOMAIN d.members : d.members[m].role \in DOMAIN e.roles,
         \A i \in DOMAIN d.invitations : d.invitations[i].role \in DOMAIN e.roles,
         \A o \in DOMAIN d.orgs : OwnerRole(d, o) => OwnerRole(e, o)
  PROVE  Sound(e)
<1>1. /\ e.users = d.users /\ e.orgs = d.orgs /\ e.members = d.members
      /\ e.invitations = d.invitations /\ e.last = d.last
  OBVIOUS
<1>2. Shape(e)
  BY <1>1 DEF Sound, Shape
<1>3. MembersHome(e) /\ InvitationsHome(e)
  BY <1>1 DEF Sound, MembersHome, InvitationsHome, RoleAtHome
<1>4. Owned(e)
  BY <1>1 DEF Sound, Owned, Owns
<1>. QED  BY <1>2, <1>3, <1>4 DEF Sound

\* A change of invitations and of the organisations' own rows.
LEMMA SoundInvitations ==
  ASSUME NEW d, NEW e, Sound(d), UniqueRows(e),
         e = [users |-> e.users, orgs |-> e.orgs, roles |-> d.roles,
              members |-> d.members, invitations |-> e.invitations, last |-> e.last],
         d.users \subseteq e.users, e.users \subseteq Users,
         IsSeq(e.orgs), DOMAIN e.orgs = DOMAIN d.orgs,
         e.invitations \in Seq(InvitationRow),
         \A i \in DOMAIN e.invitations :
            RoleAtHome(d, e.invitations[i].role, e.invitations[i].org)
  PROVE  Sound(e)
<1>1. e.members = d.members /\ e.roles = d.roles
  OBVIOUS
<1>2. Shape(e)
  <2>1. DOMAIN e.members \subseteq (DOMAIN e.orgs) \X e.users
    BY <1>1 DEF Sound, Shape
  <2>. QED  BY <1>1, <2>1 DEF Sound, Shape
<1>3. MembersHome(e) /\ InvitationsHome(e)
  BY <1>1 DEF Sound, MembersHome, InvitationsHome, RoleAtHome
<1>4. Owned(e)
  BY <1>1 DEF Sound, Owned, Owns, OwnerRole
<1>. QED  BY <1>2, <1>3, <1>4 DEF Sound
----------------------------------------------------------------------------
(* The ways a request ends.                                                *)

\* e keeps d's memberships and the grants of the roles R.
Retains(d, e, R) ==
    /\ \A m \in DOMAIN d.members : m \in DOMAIN e.members /\ e.members[m] = d.members[m]
    /\ \A r \in R : r \in DOMAIN e.roles /\ e.roles[r].grants = d.roles[r].grants
Needed == {db.members[m].role : m \in DOMAIN db.members} \cup {g.role : g \in regrant}

\* Those roles exist.
LEMMA NeededRoles == ASSUME IInv PROVE Needed \subseteq DOMAIN db.roles
  BY DEF IInv, Needed, RegrantOK, Sound, MembersHome, RoleAtHome

\* A request that commits at once, and leaves memberships and the roles held.
LEMMA SaveInv ==
  ASSUME IInv, staged = {}, NEW e, Save(e), Sound(e), db.users \subseteq e.users,
         Retains(db, e, Needed)
  PROVE  IInv'
<1>1. db' = e /\ staged' = {} /\ UNCHANGED <<regrant, signedIn, minting, tokens>>
  BY DEF Save
<1>2. ASSUME NEW u, NEW o
      PROVE  /\ PermsIn(db, u, o) \subseteq PermsIn(e, u, o)
             /\ \A g \in regrant : PermsAfter(db, g, u, o) \subseteq PermsAfter(e, g, u, o)
  <2>1. CASE <<o, u>> \notin DOMAIN db.members
    BY <2>1 DEF PermsIn, PermsAfter
  <2>2. CASE <<o, u>> \in DOMAIN db.members
    <3>1. /\ db.members[<<o, u>>].role \in Needed
          /\ <<o, u>> \in DOMAIN e.members
          /\ e.members[<<o, u>>] = db.members[<<o, u>>]
      BY <2>2 DEF Needed, Retains
    <3>2. e.roles[db.members[<<o, u>>].role].grants
          = db.roles[db.members[<<o, u>>].role].grants
      BY <3>1 DEF Retains
    <3>. QED  BY <2>2, <3>1, <3>2 DEF PermsIn, PermsAfter
  <2>. QED  BY <2>1, <2>2
<1>3. TokensFresh'
  <2> SUFFICES ASSUME NEW t \in tokens \cup minting, ~t.racing PROVE Fresh(t)'
    BY <1>1 DEF TokensFresh
  <2>1. Fresh(t)
    BY DEF IInv, TokensFresh
  <2>. QED  BY <1>1, <1>2, <2>1 DEF Fresh
<1>4. ASSUME NEW g \in regrant PROVE RegrantOK(e, g)
  <2>1. RegrantOK(db, g) /\ g.role \in Needed
    BY <1>4 DEF IInv, Needed
  <2>. QED  BY <2>1 DEF RegrantOK, Retains
<1>. QED  BY <1>1, <1>3, <1>4 DEF IInv

\* What is left after a bump is left of users it does not name.
LEMMA Bumped ==
  ASSUME IInv, NEW users, Bump(users)
  PROVE  /\ \A m \in minting' : IsToken(m)
         /\ \A t \in (tokens \cup minting)' : ~t.racing =>
                /\ t.user \notin users
                /\ \E s \in tokens \cup minting :
                    /\ ~s.racing
                    /\ s.user = t.user /\ s.org = t.org /\ s.perms = t.perms
<1>1. /\ tokens' = {t \in tokens : t.user \notin users}
      /\ minting' = {[m EXCEPT !.racing = @ \/ m.user \in users] : m \in minting}
  BY DEF Bump
<1>2. ASSUME NEW n \in minting'
      PROVE  /\ IsToken(n)
             /\ \E m \in minting :
                    /\ n.user = m.user /\ n.org = m.org /\ n.perms = m.perms
                    /\ n.racing = (m.racing \/ m.user \in users)
  <2>1. PICK m \in minting : n = [m EXCEPT !.racing = @ \/ m.user \in users]
    BY <1>1, <1>2
  <2>2. IsToken(m)
    BY DEF IInv
  <2>3. /\ n.user = m.user /\ n.org = m.org /\ n.perms = m.perms
        /\ n.racing = (m.racing \/ m.user \in users)
        /\ n = [user |-> n.user, org |-> n.org, perms |-> n.perms, racing |-> n.racing]
    BY <2>1, <2>2 DEF IsToken
  <2>4. n.racing \in BOOLEAN
    BY <2>2, <2>3 DEF IsToken
  <2>. QED  BY <2>3, <2>4 DEF IsToken
<1>3. ASSUME NEW t \in (tokens \cup minting)', ~t.racing
      PROVE  /\ t.user \notin users
             /\ \E s \in tokens \cup minting :
                    /\ ~s.racing
                    /\ s.user = t.user /\ s.org = t.org /\ s.perms = t.perms
  <2>1. CASE t \in tokens'
    BY <1>1, <1>3, <2>1
  <2>2. CASE t \in minting'
    <3>1. PICK m \in minting :
                    /\ t.user = m.user /\ t.org = m.org /\ t.perms = m.perms
                    /\ t.racing = (m.racing \/ m.user \in users)
      BY <1>2, <2>2
    <3>. QED  BY <1>3, <3>1
  <2>. QED  BY <2>1, <2>2
<1>. QED  BY <1>2, <1>3

\* A request that bumps the epoch of every user whose membership it changes.
LEMMA SaveAndBumpInv ==
  ASSUME IInv, staged = {}, NEW e, NEW users, SaveAndBump(e, users), Sound(e),
         e.users = db.users, e.roles = db.roles,
         \A m \in DOMAIN db.members : m[2] \notin users =>
            m \in DOMAIN e.members /\ e.members[m] = db.members[m]
  PROVE  IInv'
<1>1. /\ staged' = {[db |-> e, users |-> users]} /\ Bump(users)
      /\ UNCHANGED <<db, regrant, signedIn>>
  BY DEF SaveAndBump
<1>2. TokensFresh'
  <2> SUFFICES ASSUME NEW t \in (tokens \cup minting)', ~t.racing PROVE Fresh(t)'
    BY DEF TokensFresh
  <2>1. t.user \notin users
    BY <1>1, Bumped
  <2>2. PICK s \in tokens \cup minting :
            ~s.racing /\ s.user = t.user /\ s.org = t.org /\ s.perms = t.perms
    BY <1>1, Bumped
  <2>3. Fresh(s)
    BY <2>2 DEF IInv, TokensFresh
  <2>. QED  BY <1>1, <2>1, <2>2, <2>3 DEF Fresh
<1>3. ASSUME NEW c \in staged' PROVE StagedOK(c)'
  <2>1. c = [db |-> e, users |-> users] /\ c.db = e /\ c.users = users
    BY <1>1, <1>3
  <2>. QED  BY <1>1, <2>1 DEF StagedOK
<1>4. \A m \in minting' : IsToken(m)
  BY <1>1, Bumped
<1>. QED  BY <1>1, <1>2, <1>3, <1>4 DEF IInv

\* The commit and its failure.
LEMMA CommitInv == IInv /\ (Commit \/ Rollback) => IInv'
<1> SUFFICES ASSUME IInv, Commit \/ Rollback PROVE IInv'
  OBVIOUS
<1>0. staged' = {} /\ UNCHANGED <<regrant, signedIn, minting, tokens>>
  BY DEF Commit, Rollback
<1>1. CASE db' = db
  BY <1>0, <1>1 DEF IInv, TokensFresh, Fresh
<1>2. CASE db' # db
  <2>1. PICK c \in staged : db' = c.db
    BY <1>2 DEF Commit, Rollback
  <2>2. StagedOK(c)
    BY DEF IInv
  <2>3. ASSUME NEW t \in tokens \cup minting, ~t.racing PROVE Fresh(t)'
    <3>1. Fresh(t) /\ t.user \notin c.users
      BY <2>3 DEF IInv, TokensFresh, Fresh
    <3> DEFINE x == <<t.org, t.user>>
    <3>2. CASE x \notin DOMAIN db.members
      <4>1. t.perms = {}
        BY <3>1, <3>2 DEF Fresh, PermsIn
      <4>. QED  BY <1>0, <4>1 DEF Fresh
    <3>3. CASE x \in DOMAIN db.members
      <4>1. /\ x \in DOMAIN c.db.members /\ c.db.members[x] = db.members[x]
            /\ c.db.roles = db.roles
        BY <2>2, <3>1, <3>3 DEF StagedOK
      <4>. QED  BY <1>0, <2>1, <3>1, <3>3, <4>1 DEF Fresh, PermsIn, PermsAfter
    <3>. QED  BY <3>2, <3>3
  <2>4. \A g \in regrant : RegrantOK(c.db, g)
    BY <2>2 DEF IInv, StagedOK, RegrantOK
  <2>. QED  BY <1>0, <2>1, <2>2, <2>3, <2>4 DEF IInv, TokensFresh, StagedOK
<1>. QED  BY <1>1, <1>2

\* The rights are read: the token is as wide as the rows, and as they become
\* unless a role of its organisation is being edited.
LEMMA Minted ==
  ASSUME IInv, NEW u, NEW o, _issue_access_token(u, o),
         Sound(db'), db'.users = db.users, db'.members = db.members,
         db'.roles = db.roles, db' = db \/ staged = {},
         UNCHANGED <<staged, regrant, tokens>>, signedIn' \subseteq signedIn \cup db.users
  PROVE  IInv'
<1> DEFINE new == [user |-> u, org |-> o, perms |-> _permissions_for(u, o),
                   racing |-> UnderWay(u, o)]
<1>1. minting' = minting \cup {new}
  BY DEF _issue_access_token
<1>2. new.perms = PermsIn(db, u, o) /\ new.user = u /\ new.org = o
      /\ new.racing = UnderWay(u, o)
  BY DEF _permissions_for, is_member, PermsIn
<1>3. IsToken(new)
  <2>1. UnderWay(u, o) \in BOOLEAN
    BY DEF UnderWay
  <2>. QED  BY <2>1 DEF IsToken
<1> HIDE DEF new
<1>4. \A t : Fresh(t) => Fresh(t)'
  BY DEF Fresh, PermsIn, PermsAfter
<1>5. ~new.racing => Fresh(new)
  <2> SUFFICES ASSUME ~UnderWay(u, o) PROVE Fresh(new)
    BY <1>2
  <2>1. \A c \in staged : u \notin c.users
    BY DEF UnderWay
  <2>2. ASSUME NEW g \in regrant PROVE PermsAfter(db, g, u, o) = PermsIn(db, u, o)
    <3>1. g.role[1] # o
      BY <2>2 DEF UnderWay
    <3>2. <<o, u>> \in DOMAIN db.members => db.members[<<o, u>>].role[1] = o
      BY DEF IInv, Sound, MembersHome, RoleAtHome
    <3>. QED  BY <3>1, <3>2 DEF PermsAfter, PermsIn
  <2>. QED  BY <1>2, <2>1, <2>2 DEF Fresh
<1>6. TokensFresh'
  <2> SUFFICES ASSUME NEW t \in (tokens \cup minting)', ~t.racing PROVE Fresh(t)'
    BY DEF TokensFresh
  <2>1. Fresh(t)
    BY <1>1, <1>5 DEF IInv, TokensFresh
  <2>. QED  BY <1>4, <2>1
<1>7. ASSUME NEW c \in staged' PROVE StagedOK(c)'
  <2>1. StagedOK(c) /\ db' = db
    BY <1>7 DEF IInv
  <2>. QED  BY <2>1 DEF StagedOK
<1>8. \A g \in regrant' : RegrantOK(db', g)
  BY DEF IInv, RegrantOK
<1>9. \A m \in minting' : IsToken(m)
  BY <1>1, <1>3 DEF IInv
<1>. QED  BY <1>6, <1>7, <1>8, <1>9 DEF IInv

\* The epoch is read.
LEMMA CreateTokenInv == ASSUME IInv, create_access_token PROVE IInv'
<1>1. /\ (tokens \cup minting)' \subseteq tokens \cup minting /\ minting' \subseteq minting
      /\ UNCHANGED <<db, staged, regrant, signedIn>>
  BY DEF create_access_token
<1>2. TokensFresh'
  BY <1>1 DEF IInv, TokensFresh, Fresh
<1>. QED  BY <1>1, <1>2 DEF IInv, StagedOK

\* Signing in and refreshing.
LEMMA SignInInv ==
  ASSUME IInv, NEW u \in Users, _establish_session(u) \/ refresh(u)
  PROVE  IInv'
<1>1. PICK o : _issue_access_token(u, o) /\ UNCHANGED <<db, staged, regrant, tokens>>
      /\ signedIn' \subseteq signedIn \cup db.users
  BY DEF _establish_session, refresh
<1>2. Sound(db)
  BY DEF IInv
<1>. QED  BY <1>1, <1>2, Minted

\* Switching organisations writes no row that permissions depend on.
LEMMA SwitchInv ==
  ASSUME IInv, NEW u \in Users, NEW o, switch_organization(u, o)
  PROVE  IInv'
<1>1. /\ staged = {} /\ staged' = {} /\ UNCHANGED <<regrant, signedIn, tokens>>
      /\ db' = [db EXCEPT !.last[u] = o] /\ _issue_access_token(u, o)
  BY DEF switch_organization, Idle
<1>2. /\ Sound(db)
      /\ db = [users |-> db.users, orgs |-> db.orgs, roles |-> db.roles,
               members |-> db.members, invitations |-> db.invitations, last |-> db.last]
  BY DEF IInv, Sound, Shape
<1>3. db' = [users |-> db.users, orgs |-> db.orgs, roles |-> db.roles,
             members |-> db.members, invitations |-> db.invitations,
             last |-> [db.last EXCEPT ![u] = o]]
  BY <1>1, <1>2
<1>4. Sound(db')
  <2> DEFINE e == db'
  <2>1. /\ e.users = db.users /\ e.orgs = db.orgs /\ e.roles = db.roles
        /\ e.members = db.members /\ e.invitations = db.invitations
        /\ e = [users |-> e.users, orgs |-> e.orgs, roles |-> db.roles,
                members |-> db.members, invitations |-> e.invitations, last |-> e.last]
    BY <1>3
  <2> HIDE DEF e
  <2>2. UniqueRows(e)
    BY <1>2, <2>1 DEF Sound, UniqueRows
  <2>3. Sound(e)
    BY <1>2, <2>1, <2>2, SoundInvitations DEF Sound, Shape, InvitationsHome
  <2>. QED  BY <2>3 DEF e
<1>5. db'.users = db.users /\ db'.members = db.members /\ db'.roles = db.roles
  BY <1>3
<1>. QED  BY <1>1, <1>4, <1>5, Minted
----------------------------------------------------------------------------
(* Members.                                                                *)

\* The database with other memberships, and another last organisation.
WithMembers(M, l) ==
    [users |-> db.users, orgs |-> db.orgs, roles |-> db.roles,
     members |-> M, invitations |-> db.invitations, last |-> l]

\* The member rows M differ from the committed ones in one row at most, that of v
\* in o, which has a role of o's and, if v owns o, its role, and active.
AltersMember(M, o, v) ==
  /\ M \in [DOMAIN M -> MemberRow]
  /\ \/ DOMAIN M = DOMAIN db.members
     \/ DOMAIN M = DOMAIN db.members \ {<<o, v>>} /\ NotOwner(o, v)
  /\ \A m \in DOMAIN M : m # <<o, v>> => M[m] = db.members[m]
  /\ <<o, v>> \in DOMAIN M =>
        /\ M[<<o, v>>].role \in RolesOf(o)
        /\ db.members[<<o, v>>].owner =>
            /\ M[<<o, v>>].owner
            /\ M[<<o, v>>].active
            /\ M[<<o, v>>].role = db.members[<<o, v>>].role

\* A change of v's row in organisation o, which v does not own: v's tokens are
\* refused from now on and nobody else's permissions change.
LEMMA MemberChange ==
  ASSUME IInv, staged = {}, NEW o, NEW v, NEW M, NEW l, AltersMember(M, o, v),
         SaveAndBump(WithMembers(M, l), {v})
  PROVE  IInv'
<1> USE DEF AltersMember
<1> DEFINE e == WithMembers(M, l)
<1>1. Sound(db) /\ UniqueRows(e) /\ Shape(db)
  BY DEF IInv, SaveAndBump, Sound
<1>2. /\ e.users = db.users /\ e.roles = db.roles /\ e.orgs = db.orgs /\ e.members = M
      /\ e = [users |-> db.users, orgs |-> db.orgs, roles |-> db.roles,
              members |-> e.members, invitations |-> db.invitations, last |-> e.last]
  BY DEF WithMembers
<1> HIDE DEF e
<1>3. MembersHome(e)
  <2> SUFFICES ASSUME NEW m \in DOMAIN e.members
               PROVE  RoleAtHome(e, e.members[m].role, m[1])
    BY DEF MembersHome
  <2>1. RoleAtHome(db, db.members[m].role, m[1])
    BY <1>1, <1>2 DEF Sound, MembersHome
  <2>2. CASE m = <<o, v>>
    BY <1>2, <2>1, <2>2 DEF RoleAtHome, RolesOf
  <2>3. CASE m # <<o, v>>
    BY <1>2, <2>1, <2>3 DEF RoleAtHome
  <2>. QED  BY <2>2, <2>3
<1>4. Sound(e)
  <2>1. DOMAIN e.members \subseteq (DOMAIN db.orgs) \X db.users
    BY <1>1, <1>2 DEF Shape
  <2>2. \A m \in DOMAIN db.members : db.members[m].owner =>
            m \in DOMAIN e.members /\ e.members[m].owner
            /\ (db.members[m].active => e.members[m].active)
            /\ e.members[m].role = db.members[m].role
    BY <1>2 DEF NotOwner
  <2>. QED  BY <1>1, <1>2, <1>3, <2>1, <2>2, SoundMembers
<1>5. \A m \in DOMAIN db.members : m[2] \notin {v} =>
            m \in DOMAIN e.members /\ e.members[m] = db.members[m]
  BY <1>2
<1>6. SaveAndBump(e, {v})
  BY DEF e
<1>. QED  BY <1>2, <1>4, <1>5, <1>6, SaveAndBumpInv

\* Changing a member's role, suspending and reactivating, removing and leaving.
LEMMA MemberInv ==
  ASSUME IInv, NEW u \in Users, NEW o \in Orgs, NEW v \in Users,
         \/ \E r \in Chosen : update_member(u, o, v, r)
         \/ suspend_member(u, o, v) \/ reactivate_member(u, o, v)
         \/ remove_member(u, o, v)
         \/ leave(u, o)
  PROVE  IInv'
<1>1. Sound(db) /\ Shape(db) /\ MembersHome(db)
  BY DEF IInv, Sound
<1>2. db = [users |-> db.users, orgs |-> db.orgs, roles |-> db.roles,
            members |-> db.members, invitations |-> db.invitations, last |-> db.last]
  BY <1>1 DEF Shape
<1>3. db.members \in [DOMAIN db.members -> MemberRow]
  BY <1>1 DEF Shape
<1> DEFINE x == <<o, v>>
<1>4. ASSUME NEW r \in Chosen, update_member(u, o, v, r) PROVE IInv'
  <2>0. PICK M, l : /\ M = [db.members EXCEPT ![x] = [@ EXCEPT !.role = r]]
                    /\ l = db.last
    OBVIOUS
  <2>1. /\ staged = {} /\ x \in DOMAIN db.members /\ ~db.members[x].owner
        /\ r \in RolesOf(o)
        /\ SaveAndBump([db EXCEPT !.members[x].role = r], {v})
    BY <1>4 DEF update_member, Idle, _get_member_scoped, is_member, NotOwner, get_scoped
  <2>2. SaveAndBump(WithMembers(M, l), {v})
    BY <1>2, <2>0, <2>1 DEF WithMembers
  <2>3. r \in Nat \X Slugs
    BY <1>1, <2>1 DEF Shape, RolesOf, IsSeq
  <2>4. M \in [DOMAIN db.members -> MemberRow] /\ M[x].role = r
        /\ \A m \in DOMAIN M : m # x => M[m] = db.members[m]
    BY <1>3, <2>0, <2>1, <2>3 DEF MemberRow
  <2>5. AltersMember(M, o, v)
    BY <2>1, <2>4 DEF AltersMember
  <2>. QED  BY <2>1, <2>2, <2>5, MemberChange
<1>5. ASSUME NEW b \in BOOLEAN, staged = {}, x \in DOMAIN db.members,
             db.members[x].owner => b,
             SaveAndBump([db EXCEPT !.members[x].active = b], {v})
      PROVE  IInv'
  <2>0. PICK M, l : /\ M = [db.members EXCEPT ![x] = [@ EXCEPT !.active = b]]
                    /\ l = db.last
    OBVIOUS
  <2>1. SaveAndBump(WithMembers(M, l), {v})
    BY <1>2, <1>5, <2>0 DEF WithMembers
  <2>2. M \in [DOMAIN db.members -> MemberRow]
        /\ \A m \in DOMAIN M : m # x => M[m] = db.members[m]
    BY <1>3, <1>5, <2>0 DEF MemberRow
  <2>3. /\ M[x].role = db.members[x].role /\ M[x].active = b
        /\ M[x].owner = db.members[x].owner
    BY <1>3, <1>5, <2>0 DEF MemberRow
  <2>4. M[x].role \in RolesOf(o)
    BY <1>1, <1>5, <2>3 DEF MembersHome, RoleAtHome, RolesOf
  <2>5. AltersMember(M, o, v)
    BY <1>5, <2>2, <2>3, <2>4 DEF AltersMember
  <2>. QED  BY <1>5, <2>1, <2>5, MemberChange
<1>6. CASE suspend_member(u, o, v) \/ reactivate_member(u, o, v)
  BY <1>5, <1>6
  DEF suspend_member, reactivate_member, Idle, _get_member_scoped, is_member, NotOwner
<1>7. ASSUME NEW w \in Users, NEW l, staged = {}, <<o, w>> \in DOMAIN db.members,
             NotOwner(o, w),
             SaveAndBump(WithMembers(Minus(db.members, <<o, w>>), l), {w})
      PROVE  IInv'
  <2>0. PICK M : M = Minus(db.members, <<o, w>>)
    OBVIOUS
  <2>1. /\ DOMAIN M = DOMAIN db.members \ {<<o, w>>}
        /\ \A m \in DOMAIN M : M[m] = db.members[m]
        /\ M \in [DOMAIN M -> MemberRow]
    BY <1>3, <2>0 DEF Minus
  <2>2. AltersMember(M, o, w)
    BY <1>7, <2>1 DEF AltersMember
  <2>. QED  BY <1>7, <2>0, <2>2, MemberChange
<1>8. CASE remove_member(u, o, v)
  <2>1. /\ staged = {} /\ x \in DOMAIN db.members /\ NotOwner(o, v)
        /\ SaveAndBump([db EXCEPT !.members = Minus(@, x)], {v})
    BY <1>8 DEF remove_member, Idle, _get_member_scoped, is_member
  <2>2. [db EXCEPT !.members = Minus(@, x)] = WithMembers(Minus(db.members, x), db.last)
    BY <1>2 DEF WithMembers
  <2>. QED  BY <1>7, <2>1, <2>2
<1>9. CASE leave(u, o)
  <2> DEFINE l == [db.last EXCEPT ![u] = IF @ = o THEN 0 ELSE @]
             e == [db EXCEPT !.members = Minus(@, <<o, u>>),
                             !.last[u] = IF @ = o THEN 0 ELSE @]
  <2>1. /\ staged = {} /\ <<o, u>> \in DOMAIN db.members /\ NotOwner(o, u)
        /\ SaveAndBump(e, {u})
    BY <1>9 DEF leave, Idle, is_member
  <2>2. e = WithMembers(Minus(db.members, <<o, u>>), l)
    <3>1. e = [db EXCEPT !.members = Minus(@, <<o, u>>), !.last = l]
      BY <1>2
    <3> HIDE DEF e, l
    <3>. QED  BY <1>2, <3>1 DEF WithMembers
  <2>. QED  BY <1>7, <2>1, <2>2
<1>. QED  BY <1>4, <1>6, <1>8, <1>9
----------------------------------------------------------------------------
(* Organisations' own rows, and invitations.                               *)

\* A change of neither roles nor memberships.
LEMMA RowsChange ==
  ASSUME IInv, staged = {}, NEW us, NEW os, NEW I,
         db.users \subseteq us, us \subseteq Users,
         IsSeq(os), DOMAIN os = DOMAIN db.orgs,
         I \in Seq(InvitationRow),
         \A i \in DOMAIN I : RoleAtHome(db, I[i].role, I[i].org),
         Save([users |-> us, orgs |-> os, roles |-> db.roles, members |-> db.members,
               invitations |-> I, last |-> db.last])
  PROVE  IInv'
<1> DEFINE e == [users |-> us, orgs |-> os, roles |-> db.roles, members |-> db.members,
                 invitations |-> I, last |-> db.last]
<1>1. /\ e.users = us /\ e.orgs = os /\ e.roles = db.roles /\ e.members = db.members
      /\ e.invitations = I /\ e.last = db.last
      /\ e = [users |-> e.users, orgs |-> e.orgs, roles |-> db.roles,
              members |-> db.members, invitations |-> e.invitations, last |-> e.last]
  OBVIOUS
<1> HIDE DEF e
<1>2. Save(e) /\ UniqueRows(e)
  BY DEF e, Save
<1>3. Sound(e)
  BY <1>1, <1>2, SoundInvitations DEF IInv
<1>4. Retains(db, e, Needed)
  BY <1>1, NeededRoles DEF Retains
<1>. QED  BY <1>1, <1>2, <1>3, <1>4, SaveInv

\* An invitation's status changes.
LEMMA StatusChange ==
  ASSUME IInv, staged = {}, NEW i \in DOMAIN db.invitations,
         NEW s \in {"pending", "accepted", "expired", "revoked"},
         Save([db EXCEPT !.invitations[i].status = s])
  PROVE  IInv'
<1>1. Sound(db) /\ Shape(db) /\ InvitationsHome(db)
  BY DEF IInv, Sound
<1>r. db = [users |-> db.users, orgs |-> db.orgs, roles |-> db.roles,
            members |-> db.members, invitations |-> db.invitations, last |-> db.last]
  BY <1>1 DEF Shape
<1>2. db.invitations \in Seq(InvitationRow) /\ db.users \subseteq Users /\ IsSeq(db.orgs)
  BY <1>1 DEF Shape
<1> DEFINE I == [db.invitations EXCEPT ![i].status = s]
<1>3. [db EXCEPT !.invitations[i].status = s]
      = [users |-> db.users, orgs |-> db.orgs, roles |-> db.roles,
         members |-> db.members, invitations |-> I, last |-> db.last]
  BY <1>r
<1>4. I \in Seq(InvitationRow) /\ DOMAIN I = DOMAIN db.invitations
  <2>1. db.invitations[i] \in InvitationRow
    BY <1>2
  <2>2. [db.invitations[i] EXCEPT !.status = s] \in InvitationRow
    BY <2>1 DEF InvitationRow
  <2>. QED  BY <1>2, <2>2, ExceptSeq
<1>5. \A j \in DOMAIN I : I[j].role = db.invitations[j].role
                          /\ I[j].org = db.invitations[j].org
  BY <1>2 DEF InvitationRow
<1> HIDE DEF I
<1>6. \A j \in DOMAIN I : RoleAtHome(db, I[j].role, I[j].org)
  BY <1>1, <1>4, <1>5 DEF InvitationsHome
<1>. QED  BY <1>2, <1>3, <1>4, <1>6, RowsChange

\* Inviting, and the ways an invitation lapses, is revoked and is sent again.
LEMMA InvitationInv ==
  ASSUME IInv, NEW u \in Users, NEW o \in Orgs,
         \/ \E v \in Users : invite(u, o, v)
         \/ expire_stale(u, o)
         \/ \E i \in DOMAIN db.invitations :
                revoke_invitation(u, o, i) \/ resend_invitation(u, o, i)
  PROVE  IInv'
<1>1. Sound(db) /\ Shape(db) /\ InvitationsHome(db)
  BY DEF IInv, Sound
<1>r. db = [users |-> db.users, orgs |-> db.orgs, roles |-> db.roles,
            members |-> db.members, invitations |-> db.invitations, last |-> db.last]
  BY <1>1 DEF Shape
<1>2. db.invitations \in Seq(InvitationRow) /\ db.users \subseteq Users /\ IsSeq(db.orgs)
  BY <1>1 DEF Shape
<1>3. ASSUME NEW v \in Users, invite(u, o, v) PROVE IInv'
  <2>1. PICK r : /\ r \in RolesOf(o)
                 /\ Save([db EXCEPT !.invitations = Append(@, Invitation(o, v, r))])
    BY <1>3 DEF invite, get_scoped
  <2>2. staged = {}
    BY <1>3 DEF invite, Idle
  <2> DEFINE n == Invitation(o, v, r)
             I == Append(db.invitations, n)
  <2>3. RoleAtHome(db, r, o) /\ r \in Nat \X Slugs /\ o \in Nat
    BY <1>1, <2>1 DEF Shape, IsSeq, RolesOf, RoleAtHome, Orgs
  <2>4. n \in InvitationRow /\ n.role = r /\ n.org = o
    BY <2>3 DEF Invitation, InvitationRow
  <2>5. Save([users |-> db.users, orgs |-> db.orgs, roles |-> db.roles,
              members |-> db.members, invitations |-> I, last |-> db.last])
    BY <1>r, <2>1
  <2> HIDE DEF n
  <2>6. I \in Seq(InvitationRow)
        /\ \A i \in DOMAIN I : \/ I[i] = n
                               \/ /\ i \in DOMAIN db.invitations
                                  /\ I[i] = db.invitations[i]
    <3>1. /\ I \in Seq(InvitationRow) /\ Len(I) = Len(db.invitations) + 1
          /\ \A i \in 1 .. Len(db.invitations) : I[i] = db.invitations[i]
          /\ I[Len(db.invitations) + 1] = n
      BY <1>2, <2>4, AppendProperties
    <3> HIDE DEF I
    <3>2. /\ Len(db.invitations) \in Nat
          /\ DOMAIN db.invitations = 1 .. Len(db.invitations)
          /\ DOMAIN I = 1 .. Len(I)
      BY <1>2, <3>1, LenProperties
    <3>3. \A i \in DOMAIN I :
            i = Len(db.invitations) + 1 \/ i \in 1 .. Len(db.invitations)
      BY <3>1, <3>2
    <3>. QED  BY <3>1, <3>2, <3>3
  <2> HIDE DEF I
  <2>7. \A i \in DOMAIN I : RoleAtHome(db, I[i].role, I[i].org)
    BY <1>1, <2>3, <2>4, <2>6 DEF InvitationsHome
  <2>. QED  BY <1>2, <2>2, <2>5, <2>6, <2>7, RowsChange
<1>4. ASSUME \/ expire_stale(u, o)
             \/ \E i \in DOMAIN db.invitations :
                    revoke_invitation(u, o, i) \/ resend_invitation(u, o, i)
      PROVE  IInv'
  BY <1>4, StatusChange DEF expire_stale, revoke_invitation, resend_invitation, Idle
<1>. QED  BY <1>3, <1>4

\* Deleting an organisation marks its row.
LEMMA DeleteInv ==
  ASSUME IInv, NEW u \in Users, NEW o \in Orgs, delete(u, o)
  PROVE  IInv'
<1>1. Sound(db) /\ Shape(db) /\ InvitationsHome(db)
  BY DEF IInv, Sound
<1>r. db = [users |-> db.users, orgs |-> db.orgs, roles |-> db.roles,
            members |-> db.members, invitations |-> db.invitations, last |-> db.last]
  BY <1>1 DEF Shape
<1>2. db.invitations \in Seq(InvitationRow) /\ db.users \subseteq Users /\ IsSeq(db.orgs)
  BY <1>1 DEF Shape
<1> DEFINE os == [db.orgs EXCEPT ![o].deleted = TRUE]
<1>3. staged = {} /\ Save([db EXCEPT !.orgs[o].deleted = TRUE])
  BY DEF delete, Idle
<1>4. Save([users |-> db.users, orgs |-> os, roles |-> db.roles,
            members |-> db.members, invitations |-> db.invitations, last |-> db.last])
  <2>1. [db EXCEPT !.orgs[o].deleted = TRUE] = [db EXCEPT !.orgs = os]
    OBVIOUS
  <2> HIDE DEF os
  <2>2. [db EXCEPT !.orgs = os]
        = [users |-> db.users, orgs |-> os, roles |-> db.roles,
           members |-> db.members, invitations |-> db.invitations, last |-> db.last]
    BY <1>r
  <2>. QED  BY <1>3, <2>1, <2>2
<1>5. IsSeq(os) /\ DOMAIN os = DOMAIN db.orgs
  <2>1. DOMAIN os = 1 .. Len(db.orgs) /\ Len(db.orgs) \in Nat
    BY <1>2 DEF IsSeq
  <2>2. os = [i \in 1 .. Len(db.orgs) |-> os[i]]
    BY <2>1
  <2> HIDE DEF os
  <2>3. os \in Seq({os[i] : i \in 1 .. Len(db.orgs)})
    BY <2>1, <2>2, IsASeq
  <2>. QED  BY <1>2, <2>1, <2>2, <2>3, LenProperties DEF IsSeq
<1> HIDE DEF os
<1>6. \A i \in DOMAIN db.invitations :
        RoleAtHome(db, db.invitations[i].role, db.invitations[i].org)
  BY <1>1 DEF InvitationsHome
<1>. QED  BY <1>2, <1>3, <1>4, <1>5, <1>6, RowsChange
----------------------------------------------------------------------------
(* Roles.                                                                  *)

\* The database with other roles.
WithRoles(R) ==
    [users |-> db.users, orgs |-> db.orgs, roles |-> R,
     members |-> db.members, invitations |-> db.invitations, last |-> db.last]

\* A change of roles that keeps every full system role full, and every role that
\* somebody holds or is offered.
RolesKept(R) ==
    /\ R \in [DOMAIN R -> RoleRow]
    /\ DOMAIN R \subseteq (DOMAIN db.orgs) \X Slugs
    /\ \A m \in DOMAIN db.members : db.members[m].role \in DOMAIN R
    /\ \A i \in DOMAIN db.invitations : db.invitations[i].role \in DOMAIN R
    /\ \A r \in DOMAIN db.roles : db.roles[r].system /\ is_full_access(r) =>
            r \in DOMAIN R /\ R[r].system /\ <<"*", "*">> \in R[r].grants

\* Such a change keeps the database sound.
LEMMA RolesSound ==
  ASSUME IInv, NEW R, RolesKept(R), UniqueRows(WithRoles(R))
  PROVE  Sound(WithRoles(R))
<1> DEFINE e == WithRoles(R)
<1>1. /\ e.roles = R
      /\ e = [users |-> db.users, orgs |-> db.orgs, roles |-> e.roles,
              members |-> db.members, invitations |-> db.invitations, last |-> db.last]
  BY DEF WithRoles
<1>2. Sound(db) /\ UniqueRows(e)
  BY DEF IInv
<1> HIDE DEF e
<1>3. \A o \in DOMAIN db.orgs : OwnerRole(db, o) => OwnerRole(e, o)
  BY <1>1 DEF OwnerRole, RolesKept, is_full_access
<1>4. Sound(e)
  BY <1>1, <1>2, <1>3, SoundRoles DEF RolesKept
<1>. QED  BY <1>4 DEF e

\* A change of roles that leaves the permissions of those who hold them.
LEMMA RolesSaved ==
  ASSUME IInv, staged = {}, NEW R, RolesKept(R), Save(WithRoles(R)),
         \A r \in Needed : r \in DOMAIN R /\ R[r].grants = db.roles[r].grants
  PROVE  IInv'
<1> DEFINE e == WithRoles(R)
<1>1. e.roles = R /\ e.members = db.members /\ e.users = db.users
  BY DEF WithRoles
<1>2. Save(e) /\ Sound(e)
  BY RolesSound DEF Save
<1> HIDE DEF e
<1>3. Retains(db, e, Needed)
  BY <1>1 DEF Retains
<1>. QED  BY <1>1, <1>2, <1>3, SaveInv

\* A new role that nobody holds yet.
LEMMA CreateRoleInv ==
  ASSUME IInv, NEW u \in Users, NEW o \in Orgs, NEW slug \in CustomSlugs,
         NEW grants \in CustomGrants, create_role(u, o, slug, grants)
  PROVE  IInv'
<1>1. Sound(db) /\ Shape(db) /\ MembersHome(db) /\ InvitationsHome(db)
  BY DEF IInv, Sound
<1>r. db = [users |-> db.users, orgs |-> db.orgs, roles |-> db.roles,
            members |-> db.members, invitations |-> db.invitations, last |-> db.last]
  BY <1>1 DEF Shape
<1> DEFINE x == <<o, slug>>
           n == Role(grants, FALSE, FALSE)
           R == Plus(db.roles, x, n)
<1>2. staged = {} /\ x \notin DOMAIN db.roles /\ Save([db EXCEPT !.roles = R])
  BY DEF create_role, Idle
<1>3. n \in RoleRow
  BY AccessAssumption DEF Role, RoleRow
<1> HIDE DEF n
<1>4. /\ DOMAIN R = DOMAIN db.roles \cup {x} /\ R[x] = n
      /\ \A r \in DOMAIN db.roles : R[r] = db.roles[r]
  BY <1>2 DEF Plus
<1>5. R \in [DOMAIN R -> RoleRow]
  BY <1>1, <1>3, <1>4 DEF Plus, Shape
<1> HIDE DEF R
<1>6. DOMAIN R \subseteq (DOMAIN db.orgs) \X Slugs
  BY <1>1, <1>4 DEF Shape, Slugs, Orgs
<1>7. RolesKept(R)
  BY <1>1, <1>4, <1>5, <1>6
  DEF RolesKept, MembersHome, InvitationsHome, RoleAtHome, is_full_access
<1>8. Save(WithRoles(R))
  BY <1>r, <1>2 DEF WithRoles
<1>. QED  BY <1>2, <1>4, <1>7, <1>8, NeededRoles, RolesSaved

\* A custom role goes when nobody holds it and no invitation offers it.
LEMMA DeleteRoleInv ==
  ASSUME IInv, NEW u \in Users, NEW o \in Orgs, NEW r \in Chosen, delete_role(u, o, r)
  PROVE  IInv'
<1>1. Sound(db) /\ Shape(db) /\ MembersHome(db) /\ InvitationsHome(db)
  BY DEF IInv, Sound
<1>r. db = [users |-> db.users, orgs |-> db.orgs, roles |-> db.roles,
            members |-> db.members, invitations |-> db.invitations, last |-> db.last]
  BY <1>1 DEF Shape
<1> DEFINE R == Minus(db.roles, r)
<1>2. /\ staged = {} /\ ~db.roles[r].system /\ Save([db EXCEPT !.roles = R])
      /\ \A m \in DOMAIN db.members : db.members[m].role # r
      /\ \A i \in DOMAIN db.invitations : db.invitations[i].role # r
      /\ \A g \in regrant : g.role # r
  BY DEF delete_role, Idle, count_with_role, Unreferenced, Unlocked
<1>3. /\ DOMAIN R = DOMAIN db.roles \ {r}
      /\ \A x \in DOMAIN R : R[x] = db.roles[x]
      /\ R \in [DOMAIN R -> RoleRow]
  BY <1>1 DEF Minus, Shape
<1> HIDE DEF R
<1>4. RolesKept(R)
  BY <1>1, <1>2, <1>3
  DEF RolesKept, Shape, MembersHome, InvitationsHome, RoleAtHome, is_full_access
<1>5. Save(WithRoles(R))
  BY <1>r, <1>2 DEF WithRoles
<1>6. r \notin Needed
  BY <1>2 DEF Needed
<1>. QED  BY <1>2, <1>3, <1>4, <1>5, <1>6, NeededRoles, RolesSaved

\* An edit of a role's permissions, beside what another request has staged:
\* nobody but a holder of the role is affected by it.
LEMMA RegrantInv ==
  ASSUME IInv, regrant = {}, NEW o, NEW r \in RolesOf(o), ~is_full_access(r),
         NEW grants \in CustomGrants, regrant' = {[role |-> r, grants |-> grants]},
         Bump(Holders(o, r)), UNCHANGED <<db, staged, signedIn>>
  PROVE  IInv'
<1> DEFINE g == [role |-> r, grants |-> grants]
<1>1. regrant' = {g} /\ g.role = r /\ g.grants = grants
  OBVIOUS
<1> HIDE DEF g
<1>2. RegrantOK(db, g)
  BY <1>1, AccessAssumption DEF RegrantOK, RolesOf, is_full_access
<1>3. ASSUME NEW v, NEW p, v \notin Holders(o, r)
      PROVE  PermsAfter(db, g, v, p) = PermsIn(db, v, p)
  <2>1. CASE <<p, v>> \notin DOMAIN db.members
    BY <2>1 DEF PermsIn, PermsAfter
  <2>2. CASE <<p, v>> \in DOMAIN db.members
    <3> DEFINE m == <<p, v>>
    <3>1. db.members[m].role[1] = m[1]
      BY <2>2 DEF IInv, Sound, MembersHome, RoleAtHome
    <3>2. db.members[m].role # r
      BY <1>3, <2>2, <3>1 DEF Holders, MembersOf, RolesOf
    <3>. QED  BY <1>1, <3>2 DEF PermsIn, PermsAfter
  <2>. QED  BY <2>1, <2>2
<1>4. TokensFresh'
  <2> SUFFICES ASSUME NEW t \in (tokens \cup minting)', ~t.racing PROVE Fresh(t)'
    BY DEF TokensFresh
  <2>1. t.user \notin Holders(o, r)
    BY Bumped
  <2>2. PICK s \in tokens \cup minting :
            ~s.racing /\ s.user = t.user /\ s.org = t.org /\ s.perms = t.perms
    BY Bumped
  <2>3. Fresh(s)
    BY <2>2 DEF IInv, TokensFresh
  <2>. QED  BY <1>1, <1>3, <2>1, <2>2, <2>3 DEF Fresh
<1>5. \A m \in minting' : IsToken(m)
  BY Bumped
<1>. QED  BY <1>1, <1>2, <1>4, <1>5 DEF IInv, StagedOK

\* What the commit of such an edit makes of a sound database.
LEMMA RegrantSound ==
  ASSUME NEW d, Sound(d), NEW g, RegrantOK(d, g)
  PROVE  /\ Sound(Regranted(d, g))
         /\ Regranted(d, g).users = d.users /\ Regranted(d, g).members = d.members
         /\ Regranted(d, g).roles = [d.roles EXCEPT ![g.role].grants = g.grants]
         /\ \A u, o : PermsIn(Regranted(d, g), u, o) = PermsAfter(d, g, u, o)
<1> DEFINE e == Regranted(d, g)
           R == [d.roles EXCEPT ![g.role].grants = g.grants]
<1>1. Shape(d) /\ MembersHome(d) /\ InvitationsHome(d) /\ Owned(d) /\ UniqueRows(d)
  BY DEF Sound
<1>2. /\ d = [users |-> d.users, orgs |-> d.orgs, roles |-> d.roles,
              members |-> d.members, invitations |-> d.invitations, last |-> d.last]
      /\ d.roles \in [DOMAIN d.roles -> RoleRow]
  BY <1>1 DEF Shape
<1>3. e = [users |-> d.users, orgs |-> d.orgs, roles |-> R,
           members |-> d.members, invitations |-> d.invitations, last |-> d.last]
  <2>1. e = [d EXCEPT !.roles = R]
    BY DEF Regranted
  <2> HIDE DEF e, R
  <2>. QED  BY <1>2, <2>1
<1>4. /\ R \in [DOMAIN d.roles -> RoleRow]
      /\ R[g.role].grants = g.grants /\ R[g.role].system = d.roles[g.role].system
      /\ R[g.role].default = d.roles[g.role].default
      /\ \A x \in DOMAIN d.roles : x # g.role => R[x] = d.roles[x]
  BY <1>2 DEF RegrantOK, RoleRow
<1> HIDE DEF R, e
<1>5. /\ e.users = d.users /\ e.orgs = d.orgs /\ e.roles = R
      /\ e.members = d.members /\ e.invitations = d.invitations /\ e.last = d.last
  BY <1>3
<1>6. UniqueRows(e)
  <2>1. \A x \in DOMAIN d.roles : R[x].default = d.roles[x].default
    BY <1>4
  <2>2. DOMAIN R = DOMAIN d.roles
    BY <1>4
  <2>. QED  BY <1>1, <1>5, <2>1, <2>2 DEF UniqueRows
<1>7. \A o \in DOMAIN d.orgs : OwnerRole(d, o) => OwnerRole(e, o)
  BY <1>4, <1>5 DEF OwnerRole, RegrantOK
<1>8. Sound(e)
  <2>1. /\ \A m \in DOMAIN d.members : d.members[m].role \in DOMAIN R
        /\ \A i \in DOMAIN d.invitations : d.invitations[i].role \in DOMAIN R
        /\ DOMAIN R \subseteq (DOMAIN d.orgs) \X Slugs
        /\ R \in [DOMAIN R -> RoleRow]
    BY <1>1, <1>4 DEF MembersHome, InvitationsHome, RoleAtHome, Shape
  <2>. QED  BY <1>3, <1>5, <1>6, <1>7, <2>1, SoundRoles
<1>9. ASSUME NEW u, NEW o PROVE PermsIn(e, u, o) = PermsAfter(d, g, u, o)
  <2>1. CASE <<o, u>> \notin DOMAIN d.members
    BY <1>5, <2>1 DEF PermsIn, PermsAfter
  <2>2. CASE <<o, u>> \in DOMAIN d.members
    <3>1. d.members[<<o, u>>].role \in DOMAIN d.roles
      BY <1>1, <2>2 DEF MembersHome, RoleAtHome
    <3>. QED  BY <1>4, <1>5, <2>2, <3>1 DEF PermsIn, PermsAfter
  <2>. QED  BY <2>1, <2>2
<1>. QED  BY <1>5, <1>8, <1>9 DEF e, R

\* The commit of a role edit, and its failure.
LEMMA CommitRegrantInv == ASSUME IInv, CommitRegrant \/ RollbackRegrant PROVE IInv'
<1>0. regrant' = {} /\ UNCHANGED <<signedIn, minting, tokens>>
  BY DEF CommitRegrant, RollbackRegrant
<1>1. CASE RollbackRegrant
  <2>1. UNCHANGED <<db, staged>>
    BY <1>1 DEF RollbackRegrant
  <2>. QED  BY <1>0, <2>1 DEF IInv, TokensFresh, Fresh, StagedOK
<1>2. CASE CommitRegrant
  <2>1. PICK g \in regrant :
            /\ db' = Regranted(db, g)
            /\ staged' = {[c EXCEPT !.db = Regranted(@, g)] : c \in staged}
    BY <1>2 DEF CommitRegrant
  <2>2. Sound(db) /\ RegrantOK(db, g)
    BY DEF IInv
  <2>3. /\ Sound(db') /\ db'.users = db.users /\ db'.members = db.members
        /\ db'.roles = [db.roles EXCEPT ![g.role].grants = g.grants]
        /\ \A u, o : PermsIn(db', u, o) = PermsAfter(db, g, u, o)
    BY <2>1, <2>2, RegrantSound
  <2>4. ASSUME NEW b \in staged'
        PROVE  StagedOK(b)' /\ \E c \in staged : b.users = c.users
    <3>1. PICK c \in staged : b = [c EXCEPT !.db = Regranted(@, g)]
      BY <2>1, <2>4
    <3>2. StagedOK(c)
      BY DEF IInv
    <3>3. c = [db |-> c.db, users |-> c.users] /\ Sound(c.db) /\ RegrantOK(c.db, g)
      BY <2>2, <3>2 DEF StagedOK, RegrantOK
    <3>4. b = [db |-> Regranted(c.db, g), users |-> c.users]
      BY <3>1, <3>3
    <3>5. b = [db |-> b.db, users |-> b.users] /\ b.users = c.users
          /\ b.db = Regranted(c.db, g)
      BY <3>4
    <3>6. /\ Sound(b.db) /\ b.db.users = c.db.users /\ b.db.members = c.db.members
          /\ b.db.roles = [c.db.roles EXCEPT ![g.role].grants = g.grants]
      BY <3>3, <3>5, RegrantSound
    <3>. QED  BY <2>3, <3>2, <3>5, <3>6 DEF StagedOK
  <2>5. TokensFresh'
    <3> SUFFICES ASSUME NEW t \in tokens \cup minting, ~t.racing PROVE Fresh(t)'
      BY <1>0 DEF TokensFresh
    <3>1. Fresh(t)
      BY DEF IInv, TokensFresh
    <3>2. t.perms \subseteq PermsIn(db', t.user, t.org)
      BY <2>3, <3>1 DEF Fresh
    <3>3. \A b \in staged' : t.user \notin b.users
      BY <2>4, <3>1 DEF Fresh
    <3>. QED  BY <1>0, <3>2, <3>3 DEF Fresh
  <2>. QED  BY <1>0, <2>3, <2>4, <2>5 DEF IInv
<1>. QED  BY <1>1, <1>2

\* Editing a role's permissions refuses the tokens of all who hold it; choosing
\* the default role changes nobody's permissions.
LEMMA UpdateRoleInv ==
  ASSUME IInv, NEW u \in Users, NEW o \in Orgs, NEW r \in Chosen, update_role(u, o, r)
  PROVE  IInv'
<1>1. Sound(db) /\ Shape(db) /\ MembersHome(db) /\ InvitationsHome(db)
  BY DEF IInv, Sound
<1>r. db = [users |-> db.users, orgs |-> db.orgs, roles |-> db.roles,
            members |-> db.members, invitations |-> db.invitations, last |-> db.last]
  BY <1>1 DEF Shape
<1>2. /\ db.roles \in [DOMAIN db.roles -> RoleRow]
      /\ DOMAIN db.roles \subseteq (DOMAIN db.orgs) \X Slugs
  BY <1>1 DEF Shape
<1>3. r \in RolesOf(o) /\ r \in DOMAIN db.roles
  BY DEF update_role, get_scoped, RolesOf
<1>4. ASSUME NEW R, R \in [DOMAIN db.roles -> RoleRow],
             \A x \in DOMAIN db.roles : R[x].system = db.roles[x].system
                                        /\ R[x].grants = db.roles[x].grants
      PROVE  RolesKept(R)
  BY <1>1, <1>2, <1>4
  DEF RolesKept, MembersHome, InvitationsHome, RoleAtHome, is_full_access
<1>5. ASSUME NEW grants \in CustomGrants, ~is_full_access(r), regrant = {},
             regrant' = {[role |-> r, grants |-> grants]},
             Bump(Holders(o, r)), UNCHANGED <<db, staged, signedIn>>
      PROVE  IInv'
  BY <1>3, <1>5, RegrantInv
<1>6. ASSUME NEW R, R \in [DOMAIN db.roles -> RoleRow], Save(WithRoles(R)), staged = {},
             \A x \in DOMAIN db.roles : R[x].system = db.roles[x].system
                                        /\ R[x].grants = db.roles[x].grants
      PROVE  IInv'
  <2>1. RolesKept(R)
    BY <1>4, <1>6
  <2>. QED  BY <1>6, <2>1, NeededRoles, RolesSaved
<1>7. CASE staged = {} /\ Save([db EXCEPT !.roles = [x \in DOMAIN @ |->
                    IF x[1] = o THEN [@[x] EXCEPT !.default = (x = r)] ELSE @[x]]])
  <2> DEFINE R == [x \in DOMAIN db.roles |->
                     IF x[1] = o THEN [db.roles[x] EXCEPT !.default = (x = r)]
                                 ELSE db.roles[x]]
  <2>1. Save([db EXCEPT !.roles = R])
    BY <1>7
  <2>2. R \in [DOMAIN db.roles -> RoleRow]
    BY <1>2 DEF RoleRow
  <2>3. \A x \in DOMAIN db.roles : R[x].system = db.roles[x].system
                                   /\ R[x].grants = db.roles[x].grants
    BY <1>2 DEF RoleRow
  <2> HIDE DEF R
  <2>4. Save(WithRoles(R))
    BY <1>r, <2>1 DEF WithRoles
  <2>. QED  BY <1>6, <1>7, <2>2, <2>3, <2>4
<1>8. CASE staged = {} /\ Save([db EXCEPT !.roles[r].default = FALSE])
  <2> DEFINE R == [db.roles EXCEPT ![r].default = FALSE]
  <2>1. Save(WithRoles(R))
    <3>1. [db EXCEPT !.roles[r].default = FALSE] = [db EXCEPT !.roles = R]
      OBVIOUS
    <3> HIDE DEF R
    <3>. QED  BY <1>r, <1>8, <3>1 DEF WithRoles
  <2>2. R \in [DOMAIN db.roles -> RoleRow]
    BY <1>2 DEF RoleRow
  <2>3. \A x \in DOMAIN db.roles : R[x].system = db.roles[x].system
                                   /\ R[x].grants = db.roles[x].grants
    BY <1>2 DEF RoleRow
  <2> HIDE DEF R
  <2>. QED  BY <1>6, <1>8, <2>1, <2>2, <2>3
<1>. QED  BY <1>5, <1>7, <1>8 DEF update_role, Idle
----------------------------------------------------------------------------
(* New organisations and new members.                                      *)

\* The seeded roles grant what is_valid_grant() accepts.
LEMMA SystemGrants ==
  \A s \in DOMAIN SYSTEM_ROLE_PERMISSIONS : SYSTEM_ROLE_PERMISSIONS[s] \subseteq Grant
<1> DEFINE Read == {"organization", "member", "account", "journal", "period", "report",
                    "customer", "invoice", "payment", "supplier", "purchase",
                    "inventory", "document", "seal", "audit", "role", "settings"}
<1>1. \A x \in Read : <<x, "read">> \in Permission
  BY DEF Permission
<1>2. /\ <<"organization", "update">> \in Permission
      /\ <<"audit", "export">> \in Permission /\ <<"proof", "export">> \in Permission
      /\ <<"seal", "write">> \in Permission /\ <<"invoice", "write">> \in Permission
  BY DEF Permission
<1>3. Permission \subseteq Grant /\ <<"*", "*">> \in Grant
  BY DEF Grant
<1>4. \A x \in Read : <<x, "*">> \in Grant
  <2> SUFFICES ASSUME NEW x \in Read PROVE <<x, "*">> \in Grant
    OBVIOUS
  <2>1. <<x, "read">> \in Permission /\ <<x, "read">>[1] = x
    BY <1>1
  <2>. QED  BY <2>1 DEF Grant
<1>5. ASSUME NEW A, A \subseteq Read
      PROVE  A \X {"read"} \subseteq Grant /\ A \X {"*"} \subseteq Grant
  <2> HIDE DEF Read
  <2>1. ASSUME NEW g \in A \X {"read"} PROVE g \in Grant
    <3>1. g[1] \in Read /\ g = <<g[1], "read">>
      BY <1>5, <2>1
    <3>. QED  BY <1>1, <1>3, <3>1
  <2>2. ASSUME NEW g \in A \X {"*"} PROVE g \in Grant
    <3>1. g[1] \in Read /\ g = <<g[1], "*">>
      BY <1>5, <2>2
    <3>. QED  BY <1>4, <3>1
  <2>. QED  BY <2>1, <2>2
<1>6. AdminGrants \subseteq Grant
  <2>1. {<<"organization", "read">>, <<"organization", "update">>, <<"audit", "read">>,
         <<"audit", "export">>, <<"report", "read">>, <<"proof", "export">>}
        \subseteq Grant
    BY <1>1, <1>2, <1>3
  <2>2. {"member", "role", "settings", "account", "journal", "period", "customer",
         "invoice", "payment", "supplier", "purchase", "inventory", "document",
         "seal"} \X {"*"} \subseteq Grant
    BY <1>5
  <2>. QED  BY <2>1, <2>2, Zenon DEF AdminGrants
<1>7. AccountantGrants \subseteq Grant
  <2>1. {"organization", "member", "report", "customer", "supplier", "purchase",
         "inventory", "audit", "seal"} \X {"read"} \subseteq Grant
    BY <1>5
  <2>2. {"account", "journal", "period", "invoice", "payment", "document"} \X {"*"}
        \subseteq Grant
    BY <1>5
  <2>3. {<<"seal", "write">>, <<"proof", "export">>} \subseteq Grant
    BY <1>2, <1>3
  <2>. QED  BY <2>1, <2>2, <2>3, Zenon DEF AccountantGrants
<1>8. SalesGrants \subseteq Grant
  <2>1. {"organization", "member", "invoice", "payment", "inventory", "period",
         "report", "seal"} \X {"read"} \subseteq Grant
    BY <1>5
  <2>2. {<<"customer", "*">>, <<"invoice", "write">>} \subseteq Grant
    BY <1>2, <1>3, <1>4
  <2>. QED  BY <2>1, <2>2, Zenon DEF SalesGrants
<1>9. ViewerGrants \subseteq Grant
  BY <1>1, <1>3 DEF ViewerGrants
<1>. QED
  BY <1>3, <1>6, <1>7, <1>8, <1>9 DEF SYSTEM_ROLE_PERMISSIONS, OwnerGrants
\* A new organisation starts with the seeded roles and its founder as owner; the
\* rows of the others stay.
LEMMA ProvisionSound ==
  ASSUME NEW d, NEW name, NEW u \in d.users, Sound(d),
         UniqueRows(_provision_organization(d, name, u))
  PROVE  LET e == _provision_organization(d, name, u)
         IN  /\ Sound(e) /\ e.users = d.users
             /\ Retains(d, e, DOMAIN d.roles)
<1> DEFINE e == _provision_organization(d, name, u)
           o == Len(d.orgs) + 1
           X == Organization(generate_unique_slug(name))
           S == seed_system_roles(o)
           os == Append(d.orgs, X)
           R == [r \in DOMAIN d.roles \cup DOMAIN S |->
                    IF r \in DOMAIN S THEN S[r] ELSE d.roles[r]]
           n == OrganizationMember(<<o, "owner">>, TRUE)
           M == Plus(d.members, <<o, u>>, n)
           l == [d.last EXCEPT ![u] = o]
<1>1. Shape(d) /\ MembersHome(d) /\ InvitationsHome(d) /\ Owned(d)
  BY DEF Sound
<1>2. d = [users |-> d.users, orgs |-> d.orgs, roles |-> d.roles,
           members |-> d.members, invitations |-> d.invitations, last |-> d.last]
  BY <1>1 DEF Shape
<1>3. e = [users |-> d.users, orgs |-> os, roles |-> R,
           members |-> M, invitations |-> d.invitations, last |-> l]
  <2>1. e = [d EXCEPT !.orgs = os, !.roles = R, !.members = M, !.last = l]
    BY DEF _provision_organization
  <2> HIDE DEF e, os, R, M, l
  <2>. QED  BY <1>2, <2>1
<1>4. /\ e.users = d.users /\ e.orgs = os /\ e.roles = R /\ e.members = M
      /\ e.invitations = d.invitations /\ e.last = l
  <2> HIDE DEF os, R, M, l, e
  <2>. QED  BY <1>3
<1>5. o \in Nat /\ DOMAIN d.orgs = 1 .. (o - 1) /\ o \notin DOMAIN d.orgs
  BY <1>1 DEF Shape, IsSeq
<1>6. IsSeq(os) /\ DOMAIN os = DOMAIN d.orgs \cup {o}
  <2> DEFINE T == {d.orgs[i] : i \in DOMAIN d.orgs} \cup {X}
  <2> HIDE DEF X
  <2>1. d.orgs \in Seq(T)
    BY <1>1, IsASeq DEF Shape, IsSeq
  <2>2. os \in Seq(T) /\ Len(os) = o
    BY <2>1, AppendProperties
  <2> HIDE DEF os, T
  <2>3. os \in [1 .. o -> T] /\ DOMAIN os = 1 .. o
    BY <2>2, LenProperties
  <2>. QED  BY <1>5, <2>2, <2>3 DEF IsSeq
<1>7. /\ DOMAIN S = {o} \X DOMAIN SYSTEM_ROLE_PERMISSIONS
      /\ S \in [DOMAIN S -> RoleRow]
      /\ <<o, "owner">> \in DOMAIN S
      /\ S[<<o, "owner">>].system /\ <<"*", "*">> \in S[<<o, "owner">>].grants
  <2>1. \A r \in {o} \X DOMAIN SYSTEM_ROLE_PERMISSIONS :
            Role(SYSTEM_ROLE_PERMISSIONS[r[2]], TRUE, r[2] = "viewer") \in RoleRow
    BY SystemGrants DEF Role, RoleRow
  <2>2. "owner" \in DOMAIN SYSTEM_ROLE_PERMISSIONS
        /\ SYSTEM_ROLE_PERMISSIONS["owner"] = OwnerGrants
    BY DEF SYSTEM_ROLE_PERMISSIONS
  <2> HIDE DEF o
  <2>. QED  BY <2>1, <2>2 DEF seed_system_roles, Role, OwnerGrants
<1> HIDE DEF S, os, X, o, l
<1>8. \A r \in DOMAIN d.roles : r \notin DOMAIN S
  BY <1>1, <1>5, <1>7 DEF Shape
<1>9. /\ DOMAIN R = DOMAIN d.roles \cup DOMAIN S
      /\ \A r \in DOMAIN S : R[r] = S[r]
      /\ \A r \in DOMAIN d.roles : R[r] = d.roles[r]
      /\ R \in [DOMAIN R -> RoleRow]
  BY <1>1, <1>7, <1>8 DEF Shape
<1>10. <<o, u>> \notin DOMAIN d.members
  BY <1>1, <1>5 DEF Shape
<1>11. /\ n \in MemberRow /\ n.role = <<o, "owner">> /\ n.owner /\ n.active
  BY <1>5 DEF OrganizationMember, MemberRow, Slugs, SYSTEM_ROLE_PERMISSIONS
<1> HIDE DEF n, R
<1>12. /\ DOMAIN M = DOMAIN d.members \cup {<<o, u>>} /\ M[<<o, u>>] = n
       /\ \A m \in DOMAIN d.members : M[m] = d.members[m]
       /\ M \in [DOMAIN M -> MemberRow]
  BY <1>1, <1>10, <1>11 DEF Plus, Shape
<1> HIDE DEF M, e
<1>13. Shape(e)
  <2>1. DOMAIN e.roles \subseteq (DOMAIN e.orgs) \X Slugs
    BY <1>1, <1>4, <1>6, <1>7, <1>9 DEF Shape, Slugs
  <2>2. DOMAIN e.members \subseteq (DOMAIN e.orgs) \X e.users
    BY <1>1, <1>4, <1>6, <1>12 DEF Shape
  <2>. QED  BY <1>1, <1>3, <1>4, <1>6, <1>9, <1>12, <2>1, <2>2 DEF Shape
<1>14. MembersHome(e)
  BY <1>1, <1>4, <1>6, <1>7, <1>9, <1>11, <1>12 DEF MembersHome, RoleAtHome
<1>15. InvitationsHome(e)
  BY <1>1, <1>4, <1>6, <1>9 DEF InvitationsHome, RoleAtHome
<1>16. Owned(e)
  <2> SUFFICES ASSUME NEW p \in DOMAIN e.orgs
               PROVE  OwnerRole(e, p) /\ \E v \in e.users : Owns(e, p, v)
    BY DEF Owned
  <2>1. CASE p = o
    <3>1. OwnerRole(e, p)
      BY <1>4, <1>7, <1>9, <2>1 DEF OwnerRole
    <3>2. Owns(e, p, u)
      BY <1>4, <1>11, <1>12, <2>1 DEF Owns
    <3>. QED  BY <1>4, <3>1, <3>2
  <2>2. CASE p \in DOMAIN d.orgs
    <3>1. OwnerRole(d, p) /\ \E v \in d.users : Owns(d, p, v)
      BY <1>1, <2>2 DEF Owned
    <3>2. OwnerRole(e, p)
      BY <1>4, <1>9, <3>1 DEF OwnerRole
    <3>. QED  BY <1>4, <1>12, <3>1, <3>2 DEF Owns
  <2>. QED  BY <1>4, <1>6, <2>1, <2>2
<1>17. UniqueRows(e)
  BY DEF e
<1>18. Sound(e)
  BY <1>13, <1>14, <1>15, <1>16, <1>17 DEF Sound
<1>19. Retains(d, e, DOMAIN d.roles)
  BY <1>4, <1>9, <1>12 DEF Retains
<1>. QED  BY <1>4, <1>18, <1>19 DEF e
\* A redeemed invitation makes a member who was none.
LEMMA RedeemSound ==
  ASSUME NEW d, NEW i \in DOMAIN d.invitations, NEW u \in d.users, Sound(d),
         <<d.invitations[i].org, u>> \notin DOMAIN d.members,
         UniqueRows(_redeem_invitation(d, i, u))
  PROVE  LET e == _redeem_invitation(d, i, u)
         IN  /\ Sound(e) /\ e.users = d.users /\ e.roles = d.roles
             /\ Retains(d, e, DOMAIN d.roles)
<1> DEFINE e == _redeem_invitation(d, i, u)
           o == d.invitations[i].org
           n == OrganizationMember(d.invitations[i].role, FALSE)
           M == Plus(d.members, <<o, u>>, n)
           I == [d.invitations EXCEPT ![i] = [@ EXCEPT !.status = "accepted"]]
           l == [d.last EXCEPT ![u] = o]
<1>1. Shape(d) /\ MembersHome(d) /\ InvitationsHome(d) /\ Owned(d)
  BY DEF Sound
<1>2. d = [users |-> d.users, orgs |-> d.orgs, roles |-> d.roles,
           members |-> d.members, invitations |-> d.invitations, last |-> d.last]
  BY <1>1 DEF Shape
<1>3. e = [users |-> d.users, orgs |-> d.orgs, roles |-> d.roles,
           members |-> M, invitations |-> I, last |-> l]
  <2>1. e = [d EXCEPT !.invitations = I, !.members = M, !.last = l]
    BY DEF _redeem_invitation
  <2> HIDE DEF e, I, M, l
  <2>. QED  BY <1>2, <2>1
<1>4. /\ e.users = d.users /\ e.orgs = d.orgs /\ e.roles = d.roles /\ e.members = M
      /\ e.invitations = I /\ e.last = l
  <2> HIDE DEF I, M, l, e
  <2>. QED  BY <1>3
<1>5. d.invitations \in Seq(InvitationRow) /\ d.invitations[i] \in InvitationRow
  BY <1>1, ElementOfSeq, LenProperties DEF Shape
<1>6. I \in Seq(InvitationRow) /\ DOMAIN I = DOMAIN d.invitations
  <2>1. [d.invitations[i] EXCEPT !.status = "accepted"] \in InvitationRow
    BY <1>5 DEF InvitationRow
  <2>. QED  BY <1>5, <2>1, ExceptSeq, LenProperties
<1>7. \A j \in DOMAIN I : I[j].role = d.invitations[j].role
                          /\ I[j].org = d.invitations[j].org
  BY <1>5, <1>6 DEF InvitationRow
<1>8. RoleAtHome(d, d.invitations[i].role, o)
  BY <1>1 DEF InvitationsHome
<1>9. n \in MemberRow /\ n.role = d.invitations[i].role
  BY <1>5 DEF OrganizationMember, MemberRow, InvitationRow
<1> HIDE DEF n, I, l
<1>10. /\ DOMAIN M = DOMAIN d.members \cup {<<o, u>>} /\ M[<<o, u>>] = n
       /\ \A m \in DOMAIN d.members : M[m] = d.members[m]
       /\ M \in [DOMAIN M -> MemberRow]
  BY <1>1, <1>9 DEF Plus, Shape
<1> HIDE DEF M, e
<1>11. Shape(e)
  <2>1. DOMAIN e.members \subseteq (DOMAIN e.orgs) \X e.users
    BY <1>1, <1>4, <1>8, <1>10 DEF Shape, RoleAtHome
  <2>. QED  BY <1>1, <1>3, <1>4, <1>6, <1>10, <2>1 DEF Shape
<1>12. MembersHome(e)
  BY <1>1, <1>4, <1>8, <1>9, <1>10 DEF MembersHome, RoleAtHome
<1>13. InvitationsHome(e)
  BY <1>1, <1>4, <1>6, <1>7 DEF InvitationsHome, RoleAtHome
<1>14. Owned(e)
  <2> SUFFICES ASSUME NEW p \in DOMAIN e.orgs
               PROVE  OwnerRole(e, p) /\ \E v \in e.users : Owns(e, p, v)
    BY DEF Owned
  <2>1. OwnerRole(d, p) /\ \E v \in d.users : Owns(d, p, v)
    BY <1>1, <1>4 DEF Owned
  <2>2. OwnerRole(e, p)
    BY <1>4, <2>1 DEF OwnerRole
  <2>. QED  BY <1>4, <1>10, <2>1, <2>2 DEF Owns
<1>15. UniqueRows(e)
  BY DEF e
<1>16. Sound(e)
  BY <1>11, <1>12, <1>13, <1>14, <1>15 DEF Sound
<1>17. Retains(d, e, DOMAIN d.roles) /\ e.roles = d.roles
  BY <1>4, <1>10 DEF Retains
<1>. QED  BY <1>4, <1>16, <1>17 DEF e

\* Founding another organisation, and accepting an invitation.
LEMMA JoinInv ==
  ASSUME IInv, NEW u \in Users,
         \/ \E name \in Names : create(u, name)
         \/ \E i \in DOMAIN db.invitations : accept_invitation(u, i)
  PROVE  IInv'
<1>1. Sound(db) /\ signedIn \subseteq db.users
  BY DEF IInv
<1>2. ASSUME NEW name \in Names, create(u, name) PROVE IInv'
  <2> DEFINE e == _provision_organization(db, name, u)
  <2>1. staged = {} /\ u \in db.users /\ Save(e) /\ UniqueRows(e)
    BY <1>1, <1>2 DEF create, Idle, Save
  <2>2. /\ Sound(e) /\ e.users = db.users
        /\ Retains(db, e, DOMAIN db.roles)
    BY <1>1, <2>1, ProvisionSound
  <2> HIDE DEF e
  <2>3. Retains(db, e, Needed)
    BY <2>2, NeededRoles DEF Retains
  <2>. QED  BY <2>1, <2>2, <2>3, SaveInv
<1>3. ASSUME NEW i \in DOMAIN db.invitations, accept_invitation(u, i) PROVE IInv'
  <2>1. staged = {} /\ u \in db.users
    BY <1>1, <1>3 DEF accept_invitation, Idle
  <2>2. CASE is_member(db.invitations[i].org, u)
    BY <1>3, <2>1, <2>2, StatusChange DEF accept_invitation
  <2>3. CASE ~is_member(db.invitations[i].org, u)
    <3> DEFINE e == _redeem_invitation(db, i, u)
    <3>1. SaveAndBump(e, {u}) /\ UniqueRows(e)
      BY <1>3, <2>3 DEF accept_invitation, SaveAndBump
    <3>2. /\ Sound(e) /\ e.users = db.users /\ e.roles = db.roles
          /\ Retains(db, e, DOMAIN db.roles)
      BY <1>1, <2>1, <2>3, <3>1, RedeemSound DEF is_member
    <3> HIDE DEF e
    <3>. QED  BY <2>1, <3>1, <3>2, SaveAndBumpInv DEF Retains
  <2>. QED  BY <2>2, <2>3
<1>. QED  BY <1>2, <1>3

\* Registering, with and without an organisation.
LEMMA RegisterInv ==
  ASSUME IInv, NEW u \in Users, register(u)
  PROVE  IInv'
<1> DEFINE us == db.users \cup {u}
           j == [db EXCEPT !.users = @ \cup {u}]
<1>1. Sound(db) /\ Shape(db) /\ InvitationsHome(db) /\ UniqueRows(db)
  BY DEF IInv, Sound
<1>r. db = [users |-> db.users, orgs |-> db.orgs, roles |-> db.roles,
            members |-> db.members, invitations |-> db.invitations, last |-> db.last]
  BY <1>1 DEF Shape
<1>2. db.invitations \in Seq(InvitationRow) /\ us \subseteq Users /\ IsSeq(db.orgs)
  BY <1>1 DEF Shape
<1>3. staged = {} /\ u \notin db.users
  BY DEF register
<1>4. j = [users |-> us, orgs |-> db.orgs, roles |-> db.roles,
           members |-> db.members, invitations |-> db.invitations, last |-> db.last]
  BY <1>r
<1>5. /\ j.users = us /\ j.orgs = db.orgs /\ j.roles = db.roles
      /\ j.members = db.members /\ j.invitations = db.invitations /\ j.last = db.last
  BY <1>4
<1>6. \/ Save(j)
      \/ \E name \in Names : Save(_provision_organization(j, name, u))
      \/ \E i \in DOMAIN db.invitations : Save(_redeem_invitation(j, i, u))
  BY DEF register
<1> HIDE DEF j
<1>7. Sound(j)
  <2>1. UniqueRows(j)
    BY <1>1, <1>5 DEF UniqueRows
  <2>2. j = [users |-> j.users, orgs |-> j.orgs, roles |-> db.roles,
             members |-> db.members, invitations |-> j.invitations, last |-> j.last]
    BY <1>4, <1>5
  <2> HIDE DEF us
  <2>3. db.users \subseteq us
    BY DEF us
  <2>. QED  BY <1>1, <1>2, <1>5, <2>1, <2>2, <2>3, SoundInvitations DEF InvitationsHome
<1>8. ASSUME NEW e, Retains(j, e, DOMAIN j.roles) PROVE Retains(db, e, Needed)
  BY <1>5, <1>8, NeededRoles DEF Retains
<1>9. u \in j.users /\ db.users \subseteq j.users
  BY <1>5
<1>10. CASE Save(j)
  <2>1. Retains(db, j, Needed)
    BY <1>8 DEF Retains
  <2>. QED  BY <1>3, <1>7, <1>9, <1>10, <2>1, SaveInv
<1>11. ASSUME NEW name \in Names, Save(_provision_organization(j, name, u)) PROVE IInv'
  <2> DEFINE e == _provision_organization(j, name, u)
  <2>1. Save(e) /\ UniqueRows(e)
    BY <1>11 DEF Save
  <2>2. /\ Sound(e) /\ e.users = j.users
        /\ Retains(j, e, DOMAIN j.roles)
    BY <1>7, <1>9, <2>1, ProvisionSound
  <2> HIDE DEF e
  <2>. QED  BY <1>3, <1>8, <1>9, <2>1, <2>2, SaveInv
<1>12. ASSUME NEW i \in DOMAIN db.invitations, Save(_redeem_invitation(j, i, u))
       PROVE  IInv'
  <2> DEFINE e == _redeem_invitation(j, i, u)
  <2>1. Save(e) /\ UniqueRows(e)
    BY <1>12 DEF Save
  <2>2. <<j.invitations[i].org, u>> \notin DOMAIN j.members
    BY <1>1, <1>3, <1>5 DEF Shape
  <2>3. /\ Sound(e) /\ e.users = j.users
        /\ Retains(j, e, DOMAIN j.roles)
    BY <1>5, <1>7, <1>9, <2>1, <2>2, RedeemSound
  <2> HIDE DEF e
  <2>. QED  BY <1>3, <1>8, <1>9, <2>1, <2>3, SaveInv
<1>. QED  BY <1>6, <1>10, <1>11, <1>12
----------------------------------------------------------------------------
(* Theorems.                                                               *)

\* The empty database satisfies the invariant.
LEMMA InitInv == Init => IInv
<1> SUFFICES ASSUME Init PROVE IInv
  OBVIOUS
<1>1. /\ db.users = {} /\ db.orgs = <<>> /\ db.roles = <<>> /\ db.members = <<>>
      /\ db.invitations = <<>> /\ staged = {} /\ regrant = {} /\ minting = {}
      /\ tokens = {} /\ signedIn = {}
      /\ db = [users |-> db.users, orgs |-> db.orgs, roles |-> db.roles,
               members |-> db.members, invitations |-> db.invitations, last |-> db.last]
  BY DEF Init, Nothing
<1>2. DOMAIN <<>> = {} /\ Len(<<>>) = 0
  OBVIOUS
<1>3. Shape(db)
  <2>1. IsSeq(db.orgs)
    BY <1>1, <1>2 DEF IsSeq
  <2>2. \A S : <<>> \in [DOMAIN <<>> -> S]
    BY <1>2
  <2>. QED  BY <1>1, <1>2, <2>1, <2>2, EmptySeq DEF Shape
<1>4. Sound(db)
  BY <1>1, <1>2, <1>3 DEF Sound, MembersHome, InvitationsHome, Owned, UniqueRows
<1>. QED  BY <1>1, <1>4 DEF IInv, TokensFresh

\* Every request keeps the invariant.
LEMMA NextInv == IInv /\ [Next]_vars => IInv'
<1> SUFFICES ASSUME IInv, [Next]_vars PROVE IInv'
  OBVIOUS
<1>1. CASE UNCHANGED vars
  BY <1>1 DEF vars, IInv, TokensFresh, Fresh, StagedOK
<1>2. CASE Commit \/ Rollback \/ CommitRegrant \/ RollbackRegrant \/ create_access_token
  BY <1>2, CommitInv, CommitRegrantInv, CreateTokenInv
<1>3. ASSUME NEW u \in Users,
             \/ register(u) \/ _establish_session(u) \/ refresh(u)
             \/ \E name \in Names : create(u, name)
             \/ \E i \in DOMAIN db.invitations : accept_invitation(u, i)
      PROVE  IInv'
  BY <1>3, RegisterInv, SignInInv, JoinInv
<1>4. ASSUME NEW u \in Users, NEW o \in Orgs,
             \/ switch_organization(u, o) \/ delete(u, o) \/ leave(u, o)
             \/ expire_stale(u, o)
             \/ \E v \in Users :
                 \/ suspend_member(u, o, v) \/ reactivate_member(u, o, v)
                 \/ remove_member(u, o, v) \/ invite(u, o, v)
                 \/ \E r \in Chosen : update_member(u, o, v, r)
             \/ \E i \in DOMAIN db.invitations :
                 revoke_invitation(u, o, i) \/ resend_invitation(u, o, i)
             \/ \E slug \in CustomSlugs, grants \in CustomGrants :
                 create_role(u, o, slug, grants)
             \/ \E r \in Chosen : update_role(u, o, r) \/ delete_role(u, o, r)
      PROVE  IInv'
  BY <1>4, SwitchInv, DeleteInv, MemberInv, InvitationInv, CreateRoleInv, UpdateRoleInv,
     DeleteRoleInv
<1>. QED  BY <1>1, <1>2, <1>3, <1>4 DEF Next

\* The inductive invariant holds in every reachable state.
THEOREM Invariance == Spec => []IInv
  BY InitInv, NextInv, PTL DEF Spec

\* Whatever administrators do, every organisation keeps one owner, active and
\* with every permission: update_role() refuses full-access roles, delete_role()
\* system roles, and the member operations the owner's row.
THEOREM OwnersKeepControl == Spec => []OwnerKeepsControl
<1>1. IInv => OwnerKeepsControl
  <2> SUFFICES ASSUME IInv, NEW o \in Orgs
               PROVE  \E u \in Users :
                        /\ is_member(o, u)
                        /\ db.members[<<o, u>>].owner
                        /\ \A v \in Users :
                             is_member(o, v) /\ db.members[<<o, v>>].owner => v = u
                        /\ _permissions_for(u, o) = Permission
    BY DEF OwnerKeepsControl
  <2>1. Sound(db) /\ UniqueRows(db)
    BY DEF IInv, Sound
  <2>2. PICK u \in db.users : Owns(db, o, u)
    BY <2>1 DEF Sound, Owned, Orgs
  <2>3. OwnerRole(db, o) /\ u \in Users
    BY <2>1 DEF Sound, Owned, Orgs, Shape
  <2>4. ASSUME NEW v \in Users, is_member(o, v), db.members[<<o, v>>].owner
        PROVE  v = u
    <3>1. <<o, v>> = <<o, u>>
      BY <2>1, <2>2, <2>4 DEF UniqueRows, Owns, is_member
    <3>. QED  BY <3>1
  <2>5. _permissions_for(u, o) = Permission
    BY <2>2, <2>3 DEF _permissions_for, expand_grants, Owns, OwnerRole, is_member
  <2>. QED  BY <2>2, <2>3, <2>4, <2>5 DEF Owns, is_member
<1>. QED  BY <1>1, Invariance, PTL

\* A token minted while neither a change to its user nor an edit of a role of its
\* organisation was under way grants no more than its user now holds, whatever
\* requests overlapped since: the bumps before the commit are enough for it.
THEOREM GrantsDoNotOutlive == Spec => []StaleGrantsRefused
<1>1. IInv => StaleGrantsRefused
  BY DEF IInv, TokensFresh, Fresh, StaleGrantsRefused, PermsIn, _permissions_for, is_member
<1>. QED  BY <1>1, Invariance, PTL

\* Roles never cross organisations nor disappear under those who hold them or
\* are offered them.
THEOREM RolesAtHome == Spec => []RolesStayHome
<1>1. IInv => RolesStayHome
  BY DEF IInv, Sound, MembersHome, InvitationsHome, RoleAtHome, RolesStayHome, RolesOf
<1>. QED  BY <1>1, Invariance, PTL
----------------------------------------------------------------------------
(* What the routes ask.                                                    *)

\* A route that writes more than upkeep asks for more than reading.
AsksMore(r) == r.writes \subseteq Upkeep \/ \E n \in r.needs : n[2] # "read"

\* The routers' tables, one by one.
LEMMA WritersAskMore == \A r \in Routes : AsksMore(r)
<1>1. \A needs : AsksMore(Get(needs))
  BY DEF AsksMore, Get
<1>2. \A x : AsksMore(Reads(x))
  BY <1>1 DEF Reads
<1>3. \A x, a : a # "read" => AsksMore(Does(x, a))
  BY DEF AsksMore, Does, Change
<1>4. AsksMore(Change(Anyone)) /\ AsksMore(Change(SignedIn)) /\ AsksMore(Change(Staff))
  BY DEF AsksMore, Change, Anyone, SignedIn, Staff
<1>5. AsksMore(Change({<<"document", "confirm">>, <<"purchase", "write">>}))
  BY DEF AsksMore, Change
<1>t. /\ AsksMore(Tends("member", "read", "lapsed_invitations"))
      /\ AsksMore(Tends("journal", "read", "standard_books"))
      /\ AsksMore(Tends("account", "read", "standard_books"))
      /\ AsksMore(Tends("seal", "read", "sealing_settings"))
      /\ AsksMore(Tends("proof", "export", "audit_trail"))
  BY DEF AsksMore, Tends, Upkeep
<1> USE <1>1, <1>2, <1>3, <1>4, <1>5 DEF Range
<1>6. \A r \in UNION {Range(OrganizationRoutes), Range(MemberRoutes),
          Range(InvitationRoutes), Range(AcceptRoutes)} :
        AsksMore(r)
  BY <1>t DEF OrganizationRoutes, MemberRoutes, InvitationRoutes, AcceptRoutes
<1>7. \A r \in UNION {Range(RoleRoutes), Range(SignInRoutes),
          Range(PasswordlessRoutes), Range(PasswordRoutes)} :
        AsksMore(r)
  BY DEF RoleRoutes, SignInRoutes, PasswordlessRoutes, PasswordRoutes
<1>8. \A r \in UNION {Range(SessionRoutes), Range(UserRoutes),
          Range(AccountRoutes), Range(CalendarRoutes)} :
        AsksMore(r)
  BY DEF SessionRoutes, UserRoutes, AccountRoutes, CalendarRoutes
<1>9. \A r \in UNION {Range(EntryRoutes), Range(StatementRoutes),
          Range(ExportRoutes), Range(MoneyAccountRoutes)} :
        AsksMore(r)
  BY <1>t DEF EntryRoutes, StatementRoutes, ExportRoutes, MoneyAccountRoutes
<1>10. \A r \in UNION {Range(BankDetailRoutes), Range(CardRoutes),
          Range(RecordRoutes), Range(DayBookRoutes)} :
        AsksMore(r)
  BY DEF BankDetailRoutes, CardRoutes, RecordRoutes, DayBookRoutes
<1>11. \A r \in UNION {Range(CustomerRoutes), Range(LeadRoutes),
          Range(QuotationRoutes), Range(OrderRoutes)} :
        AsksMore(r)
  BY DEF CustomerRoutes, LeadRoutes, QuotationRoutes, OrderRoutes
<1>12. \A r \in UNION {Range(InvoiceRoutes), Range(InvoicePostingRoutes),
          Range(PaymentRoutes), Range(SupplierRoutes)} :
        AsksMore(r)
  BY DEF InvoiceRoutes, InvoicePostingRoutes, PaymentRoutes, SupplierRoutes
<1>13. \A r \in UNION {Range(ProductRoutes), Range(StockReadRoutes),
          Range(StockRoutes), Range(PurchaseOrderRoutes)} :
        AsksMore(r)
  BY DEF ProductRoutes, StockReadRoutes, StockRoutes, PurchaseOrderRoutes
<1>14. \A r \in UNION {Range(ReceiptRoutes), Range(BillRoutes),
          Range(SupplierPaymentRoutes), Range(DocumentReadRoutes)} :
        AsksMore(r)
  BY DEF ReceiptRoutes, BillRoutes, SupplierPaymentRoutes, DocumentReadRoutes
<1>15. \A r \in UNION {Range(DocumentReviewRoutes), Range(DocumentConfirmRoutes),
          Range(SealingRoutes), Range(SealRoutes)} :
        AsksMore(r)
  BY <1>t DEF DocumentReviewRoutes, DocumentConfirmRoutes, SealingRoutes, SealRoutes
<1>16. \A r \in UNION {Range(PublicRoutes), Range(ChainRoutes),
          Range(AnalyticsRoutes), Range(RankingRoutes)} :
        AsksMore(r)
  BY DEF PublicRoutes, ChainRoutes, AnalyticsRoutes, RankingRoutes
<1>17. \A r \in UNION {Range(AuditRoutes), Range(FeedbackRoutes),
          Range(HealthRoutes)} :
        AsksMore(r)
  BY DEF AuditRoutes, FeedbackRoutes, HealthRoutes
<1>. QED
  BY <1>6, <1>7, <1>8, <1>9, <1>10, <1>11, <1>12, <1>13, <1>14, <1>15, <1>16, <1>17
  DEF Routes

\* A caller who holds read permissions only passes no route that writes more than
\* upkeep: what require_permission() asks there is more, in every router.
THEOREM ReadingIsUpkeep == Spec => []ReadersOnlyTend
<1>1. ReadersOnlyTend
  BY WritersAskMore
  DEF ReadersOnlyTend, GuardedRoutes, require_permission, AsksMore
<1>. QED  BY <1>1, PTL

----------------------------------------------------------------------------
(***************************************************************************)
(* Opening and handing over a book, for any number of         *)
(* overlapping requests, any keys and accounts, and any faults.            *)
(*                                                                         *)
(* A commit writes only the columns a request changed, over whatever other *)
(* requests committed since it read the row.  The induction says why no    *)
(* mixture of two requests' columns is ready without a key: a request that *)
(* changed the signer has chosen a key, a secret once stored is never      *)
(* removed, and a book once open stays open, so "registered" may be        *)
(* written late.                                                           *)
(***************************************************************************)

Tx == [pc: {"idle", "insert", "signer", "book", "send", "poll", "commit",
            "rotate", "rotating"},
       loaded: Setting, row: Setting, key: Keys \cup {NoKey},
       inserted: BOOLEAN, to: Accounts \cup {NoKey}]

Sent == [op: {"register", "rotate"}, by: Requests, admin: Accounts,
         auth: SUBSET Accounts]

\* A row with a signer has a secret, and one marked registered has a book.
RowOK(s) == /\ s.signer # NoKey => s.secret # NoKey
            /\ s.registered => Opened

\* What a request holds, by how far it has come.
HeldOK(t) ==
    /\ RowOK(t.row)
    /\ t.row.signer # t.loaded.signer => t.key # NoKey
    /\ t.pc \in {"book", "send", "poll", "commit"} => t.row.secret # NoKey
    /\ t.pc = "commit" => Opened
    /\ t.pc \in {"rotate", "rotating"} => /\ t.to # NoKey
                                          /\ setting.secret # NoKey

\* The inductive invariant.
SetupInv == /\ TypeOK
        /\ RowOK(setting)
        /\ \A p \in Requests : HeldOK(tx[p])

----------------------------------------------------------------------------
(* Types.                                                                  *)

\* A key is an account and not NoKey.
LEMMA KeysAreAccounts ==
    /\ NoKey \notin Keys /\ NoKey \notin Accounts
    /\ Keys \subseteq Accounts
    /\ \A k \in Keys \cup {NoKey} : Signs(k) \in SUBSET Accounts
  BY KeysAssumption DEF Keys, Accounts, Signs

\* A request that has not begun.
LEMMA IdleType == NoSetting \in Setting /\ NoRequest \in Tx /\ RowOK(NoSetting)
<1>1. NoSetting \in Setting
  BY DEF NoSetting, Setting
<1>2. RowOK(NoSetting)
  BY DEF RowOK, NoSetting
<1>. QED  BY <1>1, <1>2 DEF NoRequest, Tx

\* It holds nothing that could be wrong.
LEMMA IdleHeld == HeldOK(NoRequest)
  BY IdleType DEF HeldOK, NoRequest, NoSetting

\* The state's types, with their names.
LEMMA Types ==
    ASSUME SetupInv
    PROVE  /\ tx \in [Requests -> Tx]
           /\ net \subseteq Sent
           /\ setting \in Setting /\ drawn \subseteq Generated
           /\ faults \in 0 .. MaxFaults
           /\ books \in [{Org} -> PL!Book \cup {NoBook}]
  BY DEF SetupInv, TypeOK, Tx, Sent, PL!TypeOK

\* The initial state satisfies the invariant.
LEMMA SetupInitInv == SetupInit => SetupInv
<1> SUFFICES ASSUME SetupInit PROVE SetupInv
  OBVIOUS
<1>1. TypeOK
  <2>1. PL!TypeOK
    BY DEF SetupInit, PL!TypeOK
  <2>2. 0 \in 0 .. MaxFaults
    BY BoundsAssumption
  <2>. QED  BY <2>1, <2>2, IdleType DEF SetupInit, TypeOK, Tx
<1>. QED  BY <1>1, IdleType, IdleHeld DEF SetupInit, SetupInv

\* A step of request p on what it holds, with the network and the generator.
LEMMA OwnStep ==
    ASSUME SetupInv, NEW p \in Requests, NEW t \in Tx, HeldOK(t),
           tx' = [tx EXCEPT ![p] = t], UNCHANGED <<ledger, setting>>,
           net' \subseteq Sent, drawn' \subseteq Generated,
           faults' \in 0 .. MaxFaults
    PROVE  SetupInv'
<1>1. books' = books /\ seals' = seals /\ setting' = setting
  BY DEF ledger
<1>2. tx \in [Requests -> Tx] /\ tx' \in [Requests -> Tx]
  BY Types
<1>3. TypeOK'
  BY <1>1, <1>2 DEF SetupInv, TypeOK, Tx, Sent, PL!TypeOK
<1>4. Opened' <=> Opened
  BY <1>1 DEF Opened, PL!is_registered
<1>5. RowOK(setting)'
  BY <1>1, <1>4 DEF SetupInv, RowOK
<1>6. ASSUME NEW q \in Requests PROVE HeldOK(tx[q])'
  <2>1. PICK s : s = tx'[q]
    OBVIOUS
  <2>2. HeldOK(s)
    BY <1>2, <2>1 DEF SetupInv
  <2>3. HeldOK(s)'
    BY <1>1, <1>4, <2>2 DEF HeldOK, RowOK
  <2>. QED  BY <2>1, <2>3 DEF HeldOK, RowOK
<1>. QED  BY <1>3, <1>5, <1>6 DEF SetupInv

\* A request that ends without writing.
LEMMA EndStep ==
    ASSUME SetupInv, NEW p \in Requests, Ends(p),
           UNCHANGED <<ledger, setting, net, drawn>>, faults' \in 0 .. MaxFaults
    PROVE  SetupInv'
<1>1. tx' = [tx EXCEPT ![p] = NoRequest]
  BY DEF Ends
<1>. QED  BY <1>1, Types, IdleType, IdleHeld, OwnStep

\* A step on the settings row: a secret is not removed, and the requests hold
\* what they held or have ended.
LEMMA SettingStep ==
    ASSUME SetupInv, NEW s \in Setting, RowOK(s), setting' = s,
           setting.secret # NoKey => s.secret # NoKey,
           tx' \in [Requests -> Tx],
           \A q \in Requests : tx'[q] = tx[q] \/ tx'[q] = NoRequest,
           UNCHANGED <<ledger, net, drawn, faults>>
    PROVE  SetupInv'
<1>1. books' = books /\ seals' = seals
  BY DEF ledger
<1>2. TypeOK'
  BY <1>1 DEF SetupInv, TypeOK, Tx, Sent, PL!TypeOK
<1>3. Opened' <=> Opened
  BY <1>1 DEF Opened, PL!is_registered
<1>4. RowOK(setting)'
  BY <1>3 DEF RowOK
<1>5. ASSUME NEW q \in Requests PROVE HeldOK(tx[q])'
  <2>1. PICK t : t = tx'[q]
    OBVIOUS
  <2>2. HeldOK(t)
    BY <2>1, IdleHeld DEF SetupInv
  <2>3. HeldOK(t)'
    BY <1>3, <2>2 DEF HeldOK, RowOK
  <2>. QED  BY <2>1, <2>3 DEF HeldOK, RowOK
<1>. QED  BY <1>2, <1>4, <1>5 DEF SetupInv

----------------------------------------------------------------------------
(* enable().                                                               *)

\* What the invariant says of one request.
LEMMA RequestFacts ==
    ASSUME SetupInv, NEW p \in Requests
    PROVE  /\ tx[p] \in Tx /\ tx[p].row \in Setting
           /\ HeldOK(tx[p]) /\ RowOK(tx[p].row)
<1>1. tx[p] \in Tx
  BY Types
<1>. QED  BY <1>1 DEF SetupInv, Tx, HeldOK

\* enable() and rotate_signer() load the row.
LEMMA BeginInv ==
    ASSUME SetupInv, NEW p \in Requests, enable(p) \/ rotate_signer(p)
    PROVE  SetupInv'
<1>0. /\ setting \in Setting /\ RowOK(setting)
      /\ UNCHANGED <<ledger, net, setting, drawn, faults>>
  BY Types DEF SetupInv, enable, rotate_signer
<1>1. CASE enable(p)
  <2>1. PICK k \in Supplied, pc \in {"signer", "insert"} :
            tx' = [tx EXCEPT ![p] =
                [NoRequest EXCEPT !.pc = pc, !.loaded = setting, !.row = setting,
                             !.key = k]]
    BY <1>1 DEF enable
  <2>2. PICK t : t = [NoRequest EXCEPT !.pc = pc, !.loaded = setting,
                                  !.row = setting, !.key = k]
    OBVIOUS
  <2>3. k \in Keys \cup {NoKey}
    BY DEF Keys
  <2>4. /\ t \in Tx /\ t.pc = pc /\ t.loaded = setting /\ t.row = setting
    BY <1>0, <2>2, <2>3, IdleType DEF Tx
  <2>5. HeldOK(t)
    BY <1>0, <2>4 DEF HeldOK
  <2>6. tx' = [tx EXCEPT ![p] = t]
    BY <2>1, <2>2
  <2>. QED  BY <1>0, <2>4, <2>5, <2>6, Types, OwnStep
<1>2. CASE rotate_signer(p)
  <2>1. PICK a \in Accounts :
            tx' = [tx EXCEPT ![p] = [NoRequest EXCEPT !.pc = "rotate",
                       !.row = setting, !.loaded = setting, !.to = a]]
    BY <1>2 DEF rotate_signer
  <2>2. PICK t : t = [NoRequest EXCEPT !.pc = "rotate", !.row = setting,
                                  !.loaded = setting, !.to = a]
    OBVIOUS
  <2>3. /\ t \in Tx /\ t.pc = "rotate" /\ t.loaded = setting
        /\ t.row = setting /\ t.to = a
    BY <1>0, <2>2, IdleType DEF Tx
  <2>4. HeldOK(t)
    BY <1>0, <1>2, <2>3, KeysAreAccounts DEF HeldOK, rotate_signer
  <2>5. tx' = [tx EXCEPT ![p] = t]
    BY <2>1, <2>2
  <2>. QED  BY <1>0, <2>3, <2>4, <2>5, Types, OwnStep
<1>. QED  BY <1>1, <1>2

\* ensure_setting()'s insert.
LEMMA InsertInv ==
    ASSUME SetupInv, NEW p \in Requests, insert_setting(p)
    PROVE  SetupInv'
<1>0. UNCHANGED <<ledger, net, setting, drawn, faults>> /\ tx[p].pc = "insert"
  BY DEF insert_setting
<1>1. CASE Ends(p)
  BY <1>0, <1>1, Types, EndStep
<1>2. CASE tx' = [tx EXCEPT ![p].pc = "signer", ![p].inserted = TRUE,
                            ![p].row.present = TRUE]
  <2>1. PICK o : o = tx[p]
    OBVIOUS
  <2>2. o \in Tx /\ o.row \in Setting /\ HeldOK(o)
    BY <2>1, RequestFacts
  <2>3. PICK r : r = [o.row EXCEPT !.present = TRUE]
    OBVIOUS
  <2>4. /\ r \in Setting /\ r.signer = o.row.signer /\ r.secret = o.row.secret
        /\ r.registered = o.row.registered
    BY <2>2, <2>3 DEF Setting
  <2>5. PICK t : t = [o EXCEPT !.pc = "signer", !.inserted = TRUE, !.row = r]
    OBVIOUS
  <2>6. /\ t \in Tx /\ t.pc = "signer" /\ t.row = r /\ t.loaded = o.loaded
        /\ t.key = o.key
    BY <2>2, <2>4, <2>5 DEF Tx
  <2>7. HeldOK(t)
    BY <2>2, <2>4, <2>6 DEF HeldOK, RowOK
  <2>8. tx' = [tx EXCEPT ![p] = t]
    BY <1>2, <2>1, <2>2, <2>3, <2>5 DEF Tx
  <2>. QED  BY <1>0, <2>6, <2>7, <2>8, Types, OwnStep
<1>. QED  BY <1>1, <1>2 DEF insert_setting

\* Choosing the signer: a key that was passed in or drawn is held.
LEMMA SignerInv ==
    ASSUME SetupInv, NEW p \in Requests, choose_signer(p)
    PROVE  SetupInv'
<1>0. UNCHANGED <<ledger, net, setting, faults>> /\ tx[p].pc = "signer"
  BY DEF choose_signer
<1>1. PICK o : o = tx[p]
  OBVIOUS
<1>2. o \in Tx /\ o.row \in Setting /\ HeldOK(o) /\ o.key \in Keys \cup {NoKey}
  <2>1. o \in Tx /\ o.row \in Setting /\ HeldOK(o)
    BY <1>1, RequestFacts
  <2>. QED  BY <2>1 DEF Tx
<1>3. ASSUME NEW k \in Keys, drawn' \subseteq Generated,
             tx' = [tx EXCEPT ![p].pc = "book", ![p].key = k,
                              ![p].row.signer = k, ![p].row.secret = k]
      PROVE  SetupInv'
  <2>1. PICK r : r = [o.row EXCEPT !.signer = k, !.secret = k]
    OBVIOUS
  <2>2. k \in Accounts /\ k # NoKey
    BY KeysAreAccounts
  <2>3. /\ r \in Setting /\ r.signer = k /\ r.secret = k
        /\ r.registered = o.row.registered
    BY <1>2, <2>1, <2>2 DEF Setting
  <2>4. PICK t : t = [o EXCEPT !.pc = "book", !.key = k, !.row = r]
    OBVIOUS
  <2>5. /\ t \in Tx /\ t.pc = "book" /\ t.row = r /\ t.loaded = o.loaded
        /\ t.key = k
    BY <1>2, <2>3, <2>4 DEF Tx
  <2>6. HeldOK(t)
    BY <1>2, <2>2, <2>3, <2>5 DEF HeldOK, RowOK
  <2>7. tx' = [tx EXCEPT ![p] = t]
    BY <1>1, <1>2, <1>3, <2>1, <2>4 DEF Tx
  <2>. QED  BY <1>0, <1>3, <2>5, <2>6, <2>7, Types, OwnStep
<1>4. ASSUME o.row.secret # NoKey, drawn' = drawn,
             tx' = [tx EXCEPT ![p].pc = "book"]
      PROVE  SetupInv'
  <2>1. PICK t : t = [o EXCEPT !.pc = "book"]
    OBVIOUS
  <2>2. /\ t \in Tx /\ t.pc = "book" /\ t.row = o.row /\ t.loaded = o.loaded
        /\ t.key = o.key
    BY <1>2, <2>1 DEF Tx
  <2>3. HeldOK(t)
    BY <1>2, <1>4, <2>2 DEF HeldOK, RowOK
  <2>4. tx' = [tx EXCEPT ![p] = t]
    BY <1>1, <1>4, <2>1
  <2>. QED  BY <1>0, <1>4, <2>2, <2>3, <2>4, Types, OwnStep
<1>5. CASE o.key # NoKey
  <2>1. o.key \in Keys /\ drawn \subseteq Generated
    BY <1>2, <1>5, Types
  <2>2. /\ drawn' = drawn
        /\ tx' = [tx EXCEPT ![p].pc = "book", ![p].key = o.key,
                            ![p].row.signer = o.key, ![p].row.secret = o.key]
    BY <1>1, <1>5 DEF choose_signer
  <2>. QED  BY <2>1, <2>2, <1>3
<1>6. CASE o.key = NoKey /\ o.row.secret # NoKey
  <2>1. tx' = [tx EXCEPT ![p].pc = "book"] /\ drawn' = drawn
    BY <1>1, <1>6 DEF choose_signer
  <2>. QED  BY <2>1, <1>4, <1>6
<1>7. CASE o.key = NoKey /\ o.row.secret = NoKey
  <2>1. PICK k \in Generated :
            /\ drawn' = drawn \cup {k}
            /\ tx' = [tx EXCEPT ![p].pc = "book", ![p].key = k,
                                ![p].row.signer = k, ![p].row.secret = k]
    BY <1>1, <1>7 DEF choose_signer
  <2>2. k \in Keys /\ drawn' \subseteq Generated
    BY <2>1, Types DEF Keys
  <2>. QED  BY <2>1, <2>2, <1>3
<1>. QED  BY <1>5, <1>6, <1>7

\* The request takes the book to be open, and it is.
LEMMA TakeInv ==
    ASSUME SetupInv, NEW p \in Requests, TakeAsOpen(p), Opened,
           tx[p].row.secret # NoKey,
           UNCHANGED <<ledger, net, setting, drawn, faults>>
    PROVE  SetupInv'
<1>1. PICK o : o = tx[p]
  OBVIOUS
<1>2. o \in Tx /\ o.row \in Setting /\ HeldOK(o)
  BY <1>1, RequestFacts
<1>3. PICK r : r = Configured(o.row)
  OBVIOUS
<1>4. /\ r \in Setting /\ r.signer = o.row.signer /\ r.secret = o.row.secret
  BY <1>2, <1>3 DEF Setting, Configured
<1>5. PICK t : t = [o EXCEPT !.pc = "commit", !.row = r]
  OBVIOUS
<1>6. /\ t \in Tx /\ t.pc = "commit" /\ t.row = r /\ t.loaded = o.loaded
      /\ t.key = o.key
  BY <1>2, <1>4, <1>5 DEF Tx
<1>7. HeldOK(t)
  BY <1>1, <1>2, <1>4, <1>6 DEF HeldOK, RowOK
<1>8. tx' = [tx EXCEPT ![p] = t]
  BY <1>1, <1>2, <1>3, <1>5 DEF TakeAsOpen, Tx
<1>. QED  BY <1>6, <1>7, <1>8, Types, OwnStep

\* Moving on from "book" to "send", to "poll", and from "rotate" to "rotating":
\* only the program counter and the network change.
LEMMA AdvanceInv ==
    ASSUME SetupInv, NEW p \in Requests, NEW pc,
           \/ pc \in {"send", "poll"} /\ tx[p].pc \in {"book", "send"}
           \/ pc = "rotating" /\ tx[p].pc = "rotate",
           tx' = [tx EXCEPT ![p].pc = pc],
           UNCHANGED <<ledger, setting, drawn, faults>>, net' \subseteq Sent
    PROVE  SetupInv'
<1>1. PICK o : o = tx[p]
  OBVIOUS
<1>2. o \in Tx /\ HeldOK(o)
  BY <1>1, RequestFacts
<1>3. PICK t : t = [o EXCEPT !.pc = pc]
  OBVIOUS
<1>4. /\ t \in Tx /\ t.pc = pc /\ t.row = o.row /\ t.loaded = o.loaded
      /\ t.key = o.key /\ t.to = o.to
  BY <1>2, <1>3 DEF Tx
<1>5. HeldOK(t)
  BY <1>1, <1>2, <1>4 DEF HeldOK
<1>6. tx' = [tx EXCEPT ![p] = t]
  BY <1>1, <1>3
<1>. QED  BY <1>4, <1>5, <1>6, Types, OwnStep

\* A fault is counted.
LEMMA FaultCounted == ASSUME SetupInv, Fault PROVE faults' \in 0 .. MaxFaults
<1>1. faults \in 0 .. MaxFaults
  BY Types
<1>. QED  BY <1>1, BoundsAssumption DEF Fault

\* The book, the registration and its answer.
LEMMA BookInv ==
    ASSUME SetupInv, NEW p \in Requests,
           \/ check_book(p) \/ send_register(p) \/ poll_answered(p)
           \/ poll_unknown(p)
    PROVE  SetupInv'
<1>1. /\ tx[p].pc \in {"book", "send", "poll"} /\ tx[p].row.secret # NoKey
      /\ tx[p].row.registered => Opened
      /\ tx[p].row.secret \in Keys
  <2>1. tx[p].pc \in {"book", "send", "poll"}
    BY DEF check_book, send_register, poll_answered, poll_unknown, Unanswered
  <2>2. tx[p].row \in Setting /\ HeldOK(tx[p]) /\ RowOK(tx[p].row)
    BY RequestFacts
  <2>3. tx[p].row.secret # NoKey /\ (tx[p].row.registered => Opened)
    BY <2>1, <2>2 DEF HeldOK, RowOK
  <2>. QED  BY <2>1, <2>2, <2>3 DEF Setting
<1>2. CASE check_book(p)
  <2>1. CASE tx[p].row.registered \/ Opened
    BY <1>1, <1>2, <2>1, TakeInv DEF check_book
  <2>2. CASE ~ (tx[p].row.registered \/ Opened)
    <3>1. tx' = [tx EXCEPT ![p].pc = "send"]
      BY <1>2, <2>2 DEF check_book
    <3>. QED  BY <1>2, <3>1, Types, AdvanceInv DEF check_book
  <2>. QED  BY <2>1, <2>2
<1>3. CASE send_register(p)
  <2>1. CASE Opened
    BY <1>1, <1>3, <2>1, TakeInv DEF send_register
  <2>2. CASE ~Opened
    <3>1. RegisterCall(p) \in Sent
      <4>1. PICK k \in Keys : k = tx[p].row.secret
        BY <1>1
      <4>2. k \in Accounts /\ Signs(k) \in SUBSET Accounts
        BY KeysAreAccounts
      <4>. QED  BY <4>1, <4>2 DEF RegisterCall, RegisterWith, Sent
    <3>2. /\ tx' = [tx EXCEPT ![p].pc = "poll"]
          /\ net' \subseteq Sent
      BY <1>3, <2>2, <3>1, Types DEF send_register
    <3>. QED  BY <1>3, <3>2, AdvanceInv DEF send_register
  <2>. QED  BY <2>1, <2>2
<1>4. CASE poll_answered(p)
  BY <1>1, <1>4, TakeInv DEF poll_answered
<1>5. CASE poll_unknown(p)
  <2>1. faults' \in 0 .. MaxFaults
    BY <1>5, Types, FaultCounted DEF poll_unknown, Unanswered
  <2>. QED  BY <1>5, <2>1, EndStep DEF poll_unknown, Unanswered
<1>. QED  BY <1>2, <1>3, <1>4, <1>5

\* A request that ends by writing the settings row.
LEMMA Committed ==
    ASSUME SetupInv, NEW p \in Requests, Ends(p), NEW s \in Setting, RowOK(s),
           setting.secret # NoKey => s.secret # NoKey, setting' = s,
           UNCHANGED <<ledger, net, drawn, faults>>
    PROVE  SetupInv'
<1>1. /\ tx' \in [Requests -> Tx]
      /\ \A q \in Requests : tx'[q] = tx[q] \/ tx'[q] = NoRequest
  BY Types, IdleType DEF Ends
<1>. QED  BY <1>1, SettingStep

\* The commit: whatever other requests wrote meanwhile, the merged row has a
\* secret if it has a signer, and a book if it says so.
LEMMA SetupCommitInv ==
    ASSUME SetupInv, NEW p \in Requests, commit_enable(p)
    PROVE  SetupInv'
<1>1. PICK t : t = tx[p]
  OBVIOUS
<1>2. t \in Tx /\ t.row \in Setting /\ HeldOK(t) /\ t.pc = "commit"
  BY <1>1, RequestFacts DEF commit_enable
<1>3. /\ t.row.secret # NoKey /\ Opened
      /\ t.row.signer # t.loaded.signer => t.key # NoKey
      /\ t.loaded \in Setting /\ t.key \in Keys \cup {NoKey}
  BY <1>2 DEF HeldOK, Tx
<1>4. setting \in Setting /\ RowOK(setting)
  BY Types DEF SetupInv
<1>5. PICK s : s = Written(p)
  OBVIOUS
<1>6. CASE t.inserted
  <2>1. s = t.row
    BY <1>1, <1>5, <1>6 DEF Written
  <2>. QED  BY <1>2, <1>3, <1>5, <2>1, Committed DEF HeldOK, commit_enable
<1>7. CASE ~t.inserted
  <2>1. s = [present    |-> TRUE,
             enabled    |-> IF t.row.enabled = t.loaded.enabled
                            THEN setting.enabled ELSE t.row.enabled,
             registered |-> IF t.row.registered = t.loaded.registered
                            THEN setting.registered ELSE t.row.registered,
             signer     |-> IF t.row.signer = t.loaded.signer
                            THEN setting.signer ELSE t.row.signer,
             secret     |-> IF t.key # NoKey THEN t.key ELSE setting.secret]
    BY <1>1, <1>5, <1>7 DEF Written
  <2>2. s \in Setting
    BY <1>2, <1>3, <1>4, <2>1 DEF Setting
  <2>3. /\ s.signer # NoKey => s.secret # NoKey
        /\ setting.secret # NoKey => s.secret # NoKey
    BY <1>3, <1>4, <2>1 DEF RowOK
  <2>4. RowOK(s)
    BY <1>3, <2>3 DEF RowOK
  <2>. QED  BY <1>5, <2>2, <2>3, <2>4, Committed DEF commit_enable
<1>. QED  BY <1>6, <1>7

----------------------------------------------------------------------------
(* The other operations, and the network.                                  *)

\* set_cadence() and disable() touch neither keys nor registration.
LEMMA SetupSwitchInv == ASSUME SetupInv, set_cadence \/ disable PROVE SetupInv'
<1>1. setting \in Setting /\ RowOK(setting) /\ tx \in [Requests -> Tx]
  BY Types DEF SetupInv
<1>2. PICK s : s = setting'
  OBVIOUS
<1>3. \/ s = [setting EXCEPT !.present = TRUE]
      \/ s = [setting EXCEPT !.present = TRUE, !.enabled = FALSE]
  BY <1>2 DEF set_cadence, disable
<1>4. /\ s \in Setting /\ s.signer = setting.signer
      /\ s.secret = setting.secret /\ s.registered = setting.registered
  BY <1>1, <1>3 DEF Setting
<1>5. RowOK(s)
  BY <1>1, <1>4 DEF RowOK
<1>6. tx' = tx /\ UNCHANGED <<ledger, net, drawn, faults>>
  BY DEF set_cadence, disable
<1>. QED  BY <1>1, <1>2, <1>4, <1>5, <1>6, SettingStep

\* rotate_signer() sends, and records what was confirmed; the secret is still
\* there, though other requests ran since it was read.
LEMMA RotateInv == ASSUME SetupInv, NEW p \in Requests, Rotate(p) PROVE SetupInv'
<1>1. CASE send_rotate(p)
  <2>1. CASE Ends(p) /\ UNCHANGED net
    BY <1>1, <2>1, Types, EndStep DEF send_rotate
  <2>2. CASE /\ net' = net \cup {RotateCall(p)}
             /\ tx' = [tx EXCEPT ![p].pc = "rotating"]
    <3>1. RotateCall(p) \in Sent
      <4>1. /\ tx[p] \in Tx /\ tx[p].to # NoKey /\ tx[p].row \in Setting
        BY <1>1, RequestFacts DEF send_rotate, HeldOK
      <4>2. tx[p].to \in Accounts /\ tx[p].row.secret \in Keys \cup {NoKey}
        BY <4>1 DEF Tx, Setting
      <4>3. Signs(tx[p].row.secret) \in SUBSET Accounts
        BY <4>2, KeysAreAccounts
      <4>. QED  BY <4>2, <4>3 DEF RotateCall, Sent
    <3>2. net' \subseteq Sent
      BY <2>2, <3>1, Types
    <3>. QED  BY <1>1, <2>2, <3>2, AdvanceInv DEF send_rotate
  <2>. QED  BY <1>1, <2>1, <2>2 DEF send_rotate
<1>2. CASE rotate_confirmed(p)
  <2>1. PICK a : a = tx[p].to
    OBVIOUS
  <2>2. a \in Accounts /\ setting.secret # NoKey
    <3>1. tx[p] \in Tx /\ a # NoKey /\ setting.secret # NoKey
      BY <1>2, <2>1, RequestFacts DEF rotate_confirmed, HeldOK
    <3>. QED  BY <2>1, <3>1 DEF Tx
  <2>3. setting \in Setting /\ RowOK(setting)
    BY Types DEF SetupInv
  <2>4. PICK s : s = setting'
    OBVIOUS
  <2>5. s = setting \/ s = [setting EXCEPT !.signer = a]
    BY <1>2, <2>1, <2>4 DEF rotate_confirmed, Rotated
  <2>6. /\ s \in Setting /\ s.secret = setting.secret
        /\ s.registered = setting.registered
    BY <2>2, <2>3, <2>5 DEF Setting
  <2>7. RowOK(s)
    BY <2>2, <2>3, <2>6 DEF RowOK
  <2>. QED  BY <1>2, <2>2, <2>4, <2>6, <2>7, Committed DEF rotate_confirmed
<1>3. CASE rotate_unknown(p)
  <2>1. faults' \in 0 .. MaxFaults
    BY <1>3, Types, FaultCounted DEF rotate_unknown
  <2>. QED  BY <1>3, <2>1, EndStep DEF rotate_unknown
<1>. QED  BY <1>1, <1>2, <1>3 DEF Rotate

\* A step of the network: a book once open stays open.
LEMMA NetworkStep ==
    ASSUME SetupInv, books' \in [{Org} -> PL!Book \cup {NoBook}], Opened => Opened',
           seals' = seals, net' \subseteq Sent,
           UNCHANGED <<setting, drawn, tx>>, faults' \in 0 .. MaxFaults
    PROVE  SetupInv'
<1>1. TypeOK'
  BY DEF SetupInv, TypeOK, Sent, PL!TypeOK
<1>2. RowOK(setting)'
  BY DEF SetupInv, RowOK
<1>3. ASSUME NEW q \in Requests PROVE HeldOK(tx[q])'
  <2>1. HeldOK(tx[q])
    BY DEF SetupInv
  <2>. QED  BY <2>1 DEF HeldOK, RowOK
<1>. QED  BY <1>1, <1>2, <1>3 DEF SetupInv

\* register() and rotate() leave an open book.
LEMMA LandInv == ASSUME SetupInv, Land PROVE SetupInv'
<1>1. PICK m \in net :
          /\ IF m.op = "register" THEN PL!register(Org, m.admin)
             ELSE PL!rotate(Org, m.admin, m.auth)
          /\ net' = net \ {m}
  BY DEF Land
<1>2. m \in Sent /\ m.admin \in Accounts /\ net' \subseteq Sent
  BY <1>1, Types DEF Sent
<1>3. books \in [{Org} -> PL!Book \cup {NoBook}]
  BY Types
<1>4. PICK b \in PL!Book : books' = [books EXCEPT ![Org] = b]
  <2>1. CASE m.op = "register"
    <3> DEFINE b == [admin |-> m.admin, head |-> 0, root |-> 0,
                     sealed_at |-> 0, covered_to |-> 0, entries |-> 0]
    <3>1. b \in PL!Book
      BY <1>2 DEF PL!Book
    <3>2. books' = [books EXCEPT ![Org] = b]
      BY <1>1, <2>1 DEF PL!register
    <3>. QED  BY <3>1, <3>2
  <2>2. CASE m.op # "register"
    <3>1. PICK b : b = [books[Org] EXCEPT !.admin = m.admin]
      OBVIOUS
    <3>2. books[Org] \in PL!Book
      BY <1>1, <1>3, <2>2 DEF PL!rotate, PL!is_registered
    <3>3. b \in PL!Book
      BY <1>2, <3>1, <3>2 DEF PL!Book
    <3>4. books' = [books EXCEPT ![Org] = b]
      BY <1>1, <2>2, <3>1 DEF PL!rotate
    <3>. QED  BY <3>3, <3>4
  <2>. QED  BY <2>1, <2>2
<1>5. books' \in [{Org} -> PL!Book \cup {NoBook}] /\ books'[Org] = b
  BY <1>3, <1>4
<1>6. Opened'
  BY <1>5, NoBookAssumption DEF Opened, PL!is_registered
<1>7. /\ seals' = seals /\ UNCHANGED <<setting, drawn, tx>>
      /\ faults' \in 0 .. MaxFaults
  BY <1>1, Types DEF Land, PL!register, PL!rotate
<1>. QED  BY <1>2, <1>5, <1>6, <1>7, NetworkStep

\* Every step keeps the invariant.
LEMMA SetupNextInv == SetupInv /\ [SetupNext]_SetupVars => SetupInv'
<1> SUFFICES ASSUME SetupInv, [SetupNext]_SetupVars PROVE SetupInv'
  OBVIOUS
<1>0. /\ books \in [{Org} -> PL!Book \cup {NoBook}] /\ net \subseteq Sent
      /\ faults \in 0 .. MaxFaults
  BY Types
<1>1. CASE UNCHANGED SetupVars
  <2>1. Opened => Opened'
    BY <1>1 DEF SetupVars, Opened, PL!is_registered
  <2>. QED  BY <1>0, <1>1, <2>1, NetworkStep DEF SetupVars
<1>2. ASSUME NEW p \in Requests,
             enable(p) \/ Enable(p) \/ rotate_signer(p) \/ Rotate(p) \/ raises(p)
      PROVE  SetupInv'
  <2>1. CASE enable(p) \/ rotate_signer(p)
    BY <2>1, BeginInv
  <2>2. CASE Enable(p)
    BY <2>2, InsertInv, SignerInv, BookInv, SetupCommitInv DEF Enable
  <2>3. CASE Rotate(p)
    BY <2>3, RotateInv
  <2>4. CASE raises(p)
    BY <2>4, FaultCounted, EndStep DEF raises
  <2>. QED  BY <1>2, <2>1, <2>2, <2>3, <2>4
<1>3. CASE set_cadence \/ disable
  BY <1>3, SetupSwitchInv
<1>4. CASE Land
  BY <1>4, LandInv
<1>5. CASE LandRefused \/ Expire
  <2>1. books' = books /\ seals' = seals /\ UNCHANGED <<setting, drawn, tx>>
    BY <1>5 DEF LandRefused, Expire, ledger
  <2>2. net' \subseteq Sent /\ faults' \in 0 .. MaxFaults
    BY <1>0, <1>5, FaultCounted DEF LandRefused, Expire
  <2>3. Opened => Opened'
    BY <2>1 DEF Opened, PL!is_registered
  <2>. QED  BY <1>0, <2>1, <2>2, <2>3, NetworkStep
<1>. QED  BY <1>1, <1>2, <1>3, <1>4, <1>5 DEF SetupNext

\* The invariant holds throughout.
THEOREM SetupInvariance == SetupSpec => []SetupInv
  BY SetupInitInv, SetupNextInv, PTL DEF SetupSpec

\* enable() and rotate_signer(), overlapping in any number and through unknown
\* outcomes: a row marked registered has a book, a row that is ready has a key,
\* and where there is one key to have, that key may seal the book.
THEOREM ReadyMeansAble == SetupSpec => []ReadyCanSeal
<1>1. SetupInv => ReadyCanSeal
  <2> SUFFICES ASSUME SetupInv PROVE ReadyCanSeal
    OBVIOUS
  <2>1. /\ setting.registered => Opened
        /\ is_ready(setting) => setting.secret # NoKey
    BY DEF SetupInv, RowOK, is_ready
  <2>2. ASSUME OneKey, is_ready(setting)
        PROVE  ~PL!Unauthorised(Org, Signs(setting.secret))
    <3>1. setting.secret # NoKey /\ books[Org] # NoBook
      BY <2>1, <2>2 DEF is_ready, Opened, PL!is_registered
    <3>2. setting.secret \in Keys
      BY <3>1, Types DEF Setting
    <3>3. books[Org].admin \in Accounts
      BY <3>1, Types DEF PL!Book
    <3>4. books[Org].admin \in Signs(setting.secret)
      BY <2>2, <3>1, <3>2, <3>3 DEF OneKey, Accounts, Signs
    <3>. QED  BY <3>4 DEF PL!Unauthorised
  <2>. QED  BY <2>1, <2>2 DEF SetupInv, ReadyCanSeal
<1>. QED  BY SetupInvariance, <1>1, PTL
=============================================================================
