----------------------------- MODULE Membership -----------------------------
(***************************************************************************)
(* Who belongs to which organisation, in what role:                        *)
(* app/api/team, app/api/invitations and the signup of                     *)
(* lib/platform/provision.ts.  A change of membership reads the members    *)
(* under a lock on the rows of the organisations it touches and writes     *)
(* before it lets go; it is two steps here, so that the lock is what keeps *)
(* two of them apart.  Tokens, e-mails and expiry times are left out.      *)
(***************************************************************************)
EXTENDS Naturals, FiniteSets

CONSTANTS
  People,         \* signed-up users; an organisation goes by its founder
  Nowhere,        \* no organisation, no user
  MaxInvitations  \* bound: invitations open at a time

ASSUME NowhereAssumption == Nowhere \notin People

VARIABLES
  members,      \* the users rows: organisation, administrator or not, active
  invitations,  \* invitations neither accepted nor cancelled
  changing      \* per user, the decided change whose locks the user's request holds

membershipVars == <<members, invitations, changing>>

MemberRows == [org: People \cup {Nowhere}, admin: BOOLEAN, active: BOOLEAN]
Stranger == [org |-> Nowhere, admin |-> FALSE, active |-> FALSE]

\* to: who is invited.  org, admin: where, and with what role.  by: the issuer.
InvitationRows == [to: People, org: People, admin: BOOLEAN, by: People]

\* The row a request writes when it commits, and the organisations it has locked.
Changes == [who: People \cup {Nowhere}, row: MemberRows, locks: SUBSET People,
            used: SUBSET InvitationRows]
NoChange == [who |-> Nowhere, row |-> Stranger, locks |-> {}, used |-> {}]

\* Everything is what it should be.
MembershipTypeOK ==
  /\ members \in [People -> MemberRows]
  /\ invitations \subseteq InvitationRows
  /\ changing \in [People -> Changes]

MembershipInit ==
  /\ members = [p \in People |-> Stranger]
  /\ invitations = {}
  /\ changing = [p \in People |-> NoChange]

MembersOf(org) == {p \in People: members[p].org = org}
ActiveAdmin(p, org) == members[p].org = org /\ members[p].admin /\ members[p].active
Admins(org) == {p \in People: ActiveAdmin(p, org)}

\* provisionOrganisation: everybody who signs up founds an organisation.
Signup ==
  /\ \E p \in People:
       /\ members[p] = Stranger
       /\ members' = [members EXCEPT ![p] = [org |-> p, admin |-> TRUE, active |-> TRUE]]
  /\ UNCHANGED <<invitations, changing>>

-----------------------------------------------------------------------------
(* Invitations                                                              *)

\* POST looks for a member and for an open invitation first, in reads of its
\* own: requests that overlap can leave one person several invitations.
Invite ==
  /\ Cardinality(invitations) < MaxInvitations
  /\ \E by \in People, to \in People, admin \in BOOLEAN:
       /\ ActiveAdmin(by, members[by].org)
       /\ members[to].org # members[by].org
       /\ invitations' = invitations \cup
            {[to |-> to, org |-> members[by].org, admin |-> admin, by |-> by]}
  /\ UNCHANGED <<members, changing>>

\* Cancelled (PATCH), expired, or not sent at all.
DropInvitation ==
  /\ \E i \in invitations:
       /\ \A p \in People: i \notin changing[p].used
       /\ invitations' = invitations \ {i}
  /\ UNCHANGED <<members, changing>>

-----------------------------------------------------------------------------
(* Changes under the organisation lock                                      *)

\* Mutant: the organisation's row is not locked.
Unlocked(orgs) == TRUE

\* SELECT id FROM organisations ... FOR UPDATE, in sorted order.
Lockable(orgs) == \A p \in People: changing[p].locks \cap orgs = {}

\* Somebody else administers the organisation.
KeepsAdmin(p, org) == Admins(org) \ {p} # {}

Decide(p, change) ==
  /\ changing[p] = NoChange
  /\ Lockable(change.locks)
  /\ changing' = [changing EXCEPT ![p] = change]
  /\ UNCHANGED <<members, invitations>>

\* PATCH team: an administrator sets another role or access for a member, unless
\* that takes the organisation its last active administrator. A form that shows
\* another row than the one found is refused and changes nothing.
BeginUpdate(p) ==
  \E q \in People, admin \in BOOLEAN, active \in BOOLEAN:
    LET org == members[p].org
        row == [org |-> org, admin |-> admin, active |-> active]
    IN  /\ ActiveAdmin(p, org)
        /\ members[q].org = org
        /\ ActiveAdmin(q, org) /\ ~(admin /\ active) => KeepsAdmin(q, org)
        /\ Decide(p, [NoChange EXCEPT !.who = q, !.row = row, !.locks = {org}])

\* PUT invitations: the invited user leaves one organisation for another, whose
\* issuing administrator is still one, and leaves no members without an
\* administrator behind.
BeginAccept(p) ==
  \E i \in invitations:
    LET org == members[p].org IN
    /\ i.to = p
    /\ \A q \in People: i \notin changing[q].used
    /\ members[p].active
    /\ ActiveAdmin(i.by, i.org)
    /\ i.org # org
    /\ members[p].admin => MembersOf(org) = {p} \/ KeepsAdmin(p, org)
    /\ Decide(p, [who |-> p, row |-> [org |-> i.org, admin |-> i.admin, active |-> TRUE],
                  locks |-> {org, i.org}, used |-> {i}])

CommitChange(p) ==
  /\ changing[p] # NoChange
  /\ members' = [members EXCEPT ![changing[p].who] = changing[p].row]
  /\ invitations' = invitations \ changing[p].used
  /\ changing' = [changing EXCEPT ![p] = NoChange]

AbandonChange(p) ==
  /\ changing[p] # NoChange
  /\ changing' = [changing EXCEPT ![p] = NoChange]
  /\ UNCHANGED <<members, invitations>>

MembershipNext ==
  \/ Signup \/ Invite \/ DropInvitation
  \/ \E p \in People: BeginUpdate(p) \/ BeginAccept(p) \/ CommitChange(p) \/ AbandonChange(p)

MembershipSpec == MembershipInit /\ [][MembershipNext]_membershipVars

-----------------------------------------------------------------------------
(* Properties                                                               *)

\* No organisation with people in it is left without an active administrator:
\* not by two administrators who demote each other at the same time, and not by
\* one who accepts an invitation elsewhere while another is being deactivated.
AlwaysAnAdmin ==
  \A org \in People: MembersOf(org) # {} => Admins(org) # {}
=============================================================================
