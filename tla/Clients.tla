------------------------------- MODULE Clients -------------------------------
(***************************************************************************)
(* The client master of one organisation, its contacts and the records     *)
(* (opportunities, tenders, projects) that name them:                      *)
(* lib/platform/clients.ts and the register's deletion of a client.  Two   *)
(* clients may be merged while records and contacts are being edited.  A   *)
(* record's editor looks client and contact up without a lock.  Sites are  *)
(* handled as contacts are, but have no primary, and are left out.         *)
(***************************************************************************)
EXTENDS Naturals, FiniteSets

CONSTANTS
  Clients,      \* clients rows
  Contacts,     \* client_contacts rows
  Files,        \* opportunities, tenders and jobs
  Nobody        \* no client or contact chosen

ASSUME NobodyAssumption == Nobody \notin Clients \cup Contacts
ASSUME ContactsAssumption == IsFiniteSet(Contacts)

VARIABLES
  clients,    \* per client, its status
  contacts,   \* per contact, its client, whether it is active and primary
  naming,      \* per record, the client and the contact it names
  picks,      \* per record, an edit under way: what it has looked up, whether it
              \* holds the record's lock, and whether a merge or a deletion has
              \* taken what it looked up since
  merge,      \* the merge under way and the primaries it has read
  stray,      \* records whose last edit was overtaken so
  muddled     \* clients with more than one primary contact that no rule prevents

clientVars == <<clients, contacts, naming, picks, merge, stray, muddled>>

ContactRows == [client: Clients \cup {Nobody}, active: BOOLEAN, primary: BOOLEAN]
NewContact == [client |-> Nobody, active |-> TRUE, primary |-> FALSE]
FileRows == [client: Clients \cup {Nobody}, contact: Contacts \cup {Nobody}]
NewFile == [client |-> Nobody, contact |-> Nobody]
Picks == [row: FileRows, locked: BOOLEAN, stage: {"none", "looked", "overtaken"}]
NoPick == [row |-> NewFile, locked |-> FALSE, stage |-> "none"]
NoMerge == [keep |-> Nobody, drop |-> Nobody, primaries |-> {}]

\* Every variable keeps its type.
ClientTypeOK ==
  /\ clients \in [Clients -> {"none", "live", "merged", "gone"}]
  /\ contacts \in [Contacts -> ContactRows]
  /\ naming \in [Files -> FileRows]
  /\ picks \in [Files -> Picks]
  /\ merge \in [keep: Clients \cup {Nobody}, drop: Clients \cup {Nobody}, primaries: SUBSET Contacts]
  /\ stray \subseteq Files
  /\ muddled \subseteq Clients

ClientInit ==
  /\ clients = [c \in Clients |-> "none"]
  /\ contacts = [k \in Contacts |-> NewContact]
  /\ naming = [r \in Files |-> NewFile]
  /\ picks = [r \in Files |-> NoPick]
  /\ merge = NoMerge
  /\ stray = {} /\ muddled = {}

\* mergeClients holds the rows of both clients.
Locked(c) == c \in {merge.keep, merge.drop}
ContactsOf(c) == {k \in Contacts: contacts[k].client = c}
Primaries(c) == {k \in ContactsOf(c): contacts[k].active /\ contacts[k].primary}
NamedBy(c) == {r \in Files: naming[r].client = c}

-----------------------------------------------------------------------------
(* Clients and contacts                                                     *)

\* createClient, when nothing matches; it locks every client first.
CreateClient(c) ==
  /\ merge = NoMerge
  /\ clients[c] = "none"
  /\ clients' = [clients EXCEPT ![c] = "live"]
  /\ UNCHANGED <<contacts, naming, picks, merge, stray, muddled>>

\* The contacts of c, with k as its one primary if it is to be primary.
Promoted(c, k, row) == [other \in Contacts |->
  IF other = k THEN row
  ELSE IF row.primary /\ contacts[other].client = c THEN [contacts[other] EXCEPT !.primary = FALSE]
  ELSE contacts[other]]

\* addContact, and createClient when a client matches: the client is locked.
AddContact(c, k) ==
  /\ clients[c] = "live" /\ ~Locked(c)
  /\ contacts[k].client = Nobody
  /\ \E primary \in BOOLEAN:
       /\ contacts' = Promoted(c, k, [client |-> c, active |-> TRUE, primary |-> primary])
       /\ muddled' = IF primary THEN muddled \ {c} ELSE muddled
  /\ UNCHANGED <<clients, naming, picks, merge, stray>>

\* Mutant: making a contact primary leaves the one before as it is.
UpdateContactOnly(k) ==
  /\ contacts[k].client # Nobody
  /\ \E active, primary \in BOOLEAN:
       contacts' = [contacts EXCEPT ![k] = [@ EXCEPT !.active = active, !.primary = primary]]
  /\ UNCHANGED <<clients, naming, picks, merge, stray, muddled>>

\* updateContact locks the contact and, to make it primary, the others; never
\* the client. Archiving a contact leaves it primary.
UpdateContact(k) ==
  /\ contacts[k].client # Nobody
  /\ \E active, primary \in BOOLEAN, chosen \in BOOLEAN:
       LET row == [contacts[k] EXCEPT !.active = active, !.primary = primary]
           c == contacts[k].client
       IN /\ ~chosen => primary = contacts[k].primary
          /\ contacts' = IF chosen THEN Promoted(c, k, row) ELSE [contacts EXCEPT ![k] = row]
          /\ muddled' = IF chosen /\ primary THEN muddled \ {c} ELSE muddled
  /\ UNCHANGED <<clients, naming, picks, merge, stray>>

\* deleteRecord of a client no record names, merged ones included: its contacts
\* stay. The references are read in a snapshot, unlocked: a record saved between
\* that and the delete is one of those the delete overtakes.
DeleteClient(c) ==
  /\ clients[c] \in {"live", "merged"} /\ ~Locked(c)
  /\ NamedBy(c) = {}
  /\ clients' = [clients EXCEPT ![c] = "gone"]
  /\ picks' = [r \in Files |-> IF picks[r].stage = "looked" /\ picks[r].row.client = c
                               THEN [picks[r] EXCEPT !.stage = "overtaken"] ELSE picks[r]]
  /\ UNCHANGED <<contacts, naming, merge, stray, muddled>>

-----------------------------------------------------------------------------
(* Merging                                                                  *)

\* mergeClients: both clients are locked and the active contacts read, once.
BeginMerge ==
  /\ merge = NoMerge
  /\ \E keep, drop \in Clients:
       /\ keep # drop
       /\ clients[keep] = "live" /\ clients[drop] = "live"
       /\ merge' = [keep |-> keep, drop |-> drop, primaries |-> Primaries(keep) \cup Primaries(drop)]
  /\ UNCHANGED <<clients, contacts, naming, picks, stray, muddled>>

\* "The kept client's primary wins; otherwise a single primary moves across", by
\* what was read.
PrimariesMove ==
  /\ merge.primaries \cap ContactsOf(merge.keep) = {}
  /\ Cardinality(merge.primaries \cap ContactsOf(merge.drop)) <= 1

Moved(k) == IF contacts[k].client = merge.drop
            THEN [contacts[k] EXCEPT !.client = merge.keep, !.primary = @ /\ PrimariesMove]
            ELSE contacts[k]

\* What the rule cannot see: primaries changed since, or an archived contact that
\* is still primary.
Unruly ==
  \/ merge.primaries # Primaries(merge.keep) \cup Primaries(merge.drop)
  \/ \E k \in ContactsOf(merge.keep) \cup ContactsOf(merge.drop):
       contacts[k].primary /\ ~contacts[k].active
  \/ merge.keep \in muddled

\* Its writes: everything that names the merged client names the kept one. They
\* wait for the records that an edit holds.
EndMerge ==
  /\ merge # NoMerge
  /\ \A r \in NamedBy(merge.drop): ~picks[r].locked
  /\ contacts' = [k \in Contacts |-> Moved(k)]
  /\ naming' = [r \in Files |-> IF naming[r].client = merge.drop
                               THEN [naming[r] EXCEPT !.client = merge.keep] ELSE naming[r]]
  /\ clients' = [clients EXCEPT ![merge.drop] = "merged"]
  /\ picks' = [r \in Files |-> IF picks[r].stage = "looked" /\ picks[r].row.client = merge.drop
                               THEN [picks[r] EXCEPT !.stage = "overtaken"] ELSE picks[r]]
  /\ muddled' = IF Unruly THEN muddled \cup {merge.keep} ELSE muddled
  /\ merge' = NoMerge
  /\ UNCHANGED stray

AbandonMerge ==
  /\ merge # NoMerge
  /\ merge' = NoMerge
  /\ UNCHANGED <<clients, contacts, naming, picks, stray, muddled>>

-----------------------------------------------------------------------------
(* Records                                                                  *)

\* Mutant: any contact of the organisation goes.
ResolvesAny(row) ==
  /\ row.client # Nobody => clients[row.client] = "live"
  /\ row.contact # Nobody => row.client # Nobody /\ contacts[row.contact].client # Nobody

\* resolveClientContext. The pages offer a contact only once a client is chosen.
Resolves(row) ==
  /\ row.client # Nobody => clients[row.client] = "live"
  /\ row.contact # Nobody => row.client # Nobody /\ contacts[row.contact].client = row.client

\* An edit that names a client. The register, updateTender and updateProject have
\* the record locked, unless it is new; the delivery route and the award have not.
BeginPick(r) ==
  /\ picks[r] = NoPick
  /\ \E row \in FileRows, locked \in BOOLEAN:
       /\ Resolves(row)
       /\ picks' = [picks EXCEPT ![r] = [row |-> row, locked |-> locked, stage |-> "looked"]]
  /\ UNCHANGED <<clients, contacts, naming, merge, stray, muddled>>

CommitPick(r) ==
  /\ picks[r].stage # "none"
  /\ naming' = [naming EXCEPT ![r] = picks[r].row]
  /\ stray' = IF picks[r].stage = "overtaken" THEN stray \cup {r} ELSE stray \ {r}
  /\ picks' = [picks EXCEPT ![r] = NoPick]
  /\ UNCHANGED <<clients, contacts, merge, muddled>>

AbandonPick(r) ==
  /\ picks[r].stage # "none"
  /\ picks' = [picks EXCEPT ![r] = NoPick]
  /\ UNCHANGED <<clients, contacts, naming, merge, stray, muddled>>

ClientNext ==
  \/ BeginMerge \/ EndMerge \/ AbandonMerge
  \/ \E c \in Clients: CreateClient(c) \/ DeleteClient(c) \/ \E k \in Contacts: AddContact(c, k)
  \/ \E k \in Contacts: UpdateContact(k)
  \/ \E r \in Files: BeginPick(r) \/ CommitPick(r) \/ AbandonPick(r)

ClientSpec == ClientInit /\ [][ClientNext]_clientVars

-----------------------------------------------------------------------------
(* Properties                                                               *)

\* Every record names a client that is there and has not been merged away, and a
\* contact of that client, whatever is merged and deleted around it; but for an
\* edit that had looked its client up before the merge or the deletion.
RecordsNameLiveClients ==
  \A r \in Files \ stray: naming[r].client # Nobody =>
    /\ clients[naming[r].client] = "live"
    /\ naming[r].contact # Nobody => contacts[naming[r].contact].client = naming[r].client

\* "One primary contact per client", through additions, edits and merges; but
\* where contacts were edited while a merge was deciding, and where a merge
\* brought together a primary contact and an archived one that is still marked so.
OnePrimaryContact ==
  \A c \in Clients \ muddled: Cardinality(Primaries(c)) <= 1
=============================================================================
