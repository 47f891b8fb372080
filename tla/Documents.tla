----------------------------- MODULE Documents -----------------------------
(***************************************************************************)
(* Revisions of one managed document (lib/platform/managed-documents.ts)   *)
(* and of one plain file (storeDocument of lib/platform/documents.ts).     *)
(* The object is stored first, outside the transaction that makes it a     *)
(* revision; the managed service takes it away again when the transaction  *)
(* reports an error.  A transaction may report one although the database   *)
(* committed it (lib/platform/sql.ts), and a process may die in between.   *)
(***************************************************************************)
EXTENDS Naturals, Sequences

CONSTANTS Uploads  \* uploads: each has an object and a documents row of its own

VARIABLES
  revisions,  \* per record, its revisions in order; the last one is current
  archived,   \* the managed document is archived
  files,      \* documents rows: per upload, its status
  objects,    \* the uploads whose object is in storage
  uploading,  \* per upload, how far its request is
  unsure      \* history: uploads whose commit succeeded and was reported as failed

documentVars == <<revisions, archived, files, objects, uploading, unsure>>

Records == {"managed", "plain"}

\* to: the record it creates or revises.  base: the revision the caller saw, 0
\* for a creation.  named: the request says which that was (expectedVersion).
UploadRows ==
  [stage: {"new", "stored", "failed", "over"}, to: Records, base: Nat, named: BOOLEAN]
NewUpload == [stage |-> "new", to |-> "managed", base |-> 0, named |-> FALSE]

\* Everything is what it should be.
DocumentTypeOK ==
  /\ revisions \in [Records -> Seq(Uploads)]
  /\ archived \in BOOLEAN
  /\ files \in [Uploads -> {"none", "current", "superseded"}]
  /\ objects \subseteq Uploads
  /\ uploading \in [Uploads -> UploadRows]
  /\ unsure \subseteq Uploads

DocumentInit ==
  /\ revisions = [r \in Records |-> << >>]
  /\ archived = FALSE
  /\ files = [u \in Uploads |-> "none"]
  /\ objects = {}
  /\ uploading = [u \in Uploads |-> NewUpload]
  /\ unsure = {}

Current(r) == Len(revisions[r])
Stage(u, stage) == uploading' = [uploading EXCEPT ![u] = [@ EXCEPT !.stage = stage]]

\* A plain file always replaces the very one the caller chose.
PutObject(u) ==
  /\ uploading[u].stage = "new"
  /\ \E r \in Records, named \in BOOLEAN:
       /\ r = "managed" => ~archived
       /\ r = "plain" => named
       /\ uploading' = [uploading EXCEPT ![u] =
            [stage |-> "stored", to |-> r, base |-> Current(r), named |-> named]]
  /\ objects' = objects \cup {u}
  /\ UNCHANGED <<revisions, archived, files, unsure>>

\* Under the lock on the record's row (managed) or on the replaced file's row. (A
\* second creation makes another record and is none of this one's.)
Accepts(u) ==
  LET r == uploading[u].to IN
  /\ r = "managed" => ~archived
  /\ \/ uploading[u].base = Current(r)
     \/ ~uploading[u].named /\ uploading[u].base > 0

\* Mutant: the file revised is left as it is when the caller named no revision.
SupersedeNamed(u) ==
  LET r == uploading[u].to IN
  [f \in Uploads |->
     IF f = u THEN "current"
     ELSE IF Current(r) > 0 /\ uploading[u].named /\ f = revisions[r][Current(r)]
          THEN "superseded" ELSE files[f]]

\* The files as the transaction leaves them.
Supersede(u) ==
  LET r == uploading[u].to IN
  [f \in Uploads |->
     IF f = u THEN "current"
     ELSE IF Current(r) > 0 /\ f = revisions[r][Current(r)] THEN "superseded" ELSE files[f]]

Commit(u) ==
  /\ uploading[u].stage = "stored"
  /\ Accepts(u)
  /\ files' = Supersede(u)
  /\ revisions' = [revisions EXCEPT ![uploading[u].to] = Append(@, u)]
  /\ UNCHANGED <<archived, objects>>

CommitRevision(u) ==
  /\ Commit(u)
  /\ Stage(u, "over")
  /\ UNCHANGED unsure

\* The database commits and the connection is lost before it says so.
CommitUnanswered(u) ==
  /\ Commit(u)
  /\ Stage(u, "failed")
  /\ unsure' = unsure \cup {u}

\* Refused or rolled back.
FailRevision(u) ==
  /\ uploading[u].stage = "stored"
  /\ Stage(u, "failed")
  /\ UNCHANGED <<revisions, archived, files, objects, unsure>>

\* withUploadCleanup: best effort. storeDocument leaves its object behind.
Discard(u) ==
  /\ uploading[u].stage = "failed"
  /\ Stage(u, "over")
  /\ objects' \in {objects} \cup {objects \ {v}: v \in {u} \cap {w \in Uploads: uploading[w].to = "managed"}}
  /\ UNCHANGED <<revisions, archived, files, unsure>>

\* The process dies: nothing cleans up.
Die(u) ==
  /\ uploading[u].stage \in {"stored", "failed"}
  /\ Stage(u, "over")
  /\ UNCHANGED <<revisions, archived, files, objects, unsure>>

\* setManagedArchived.
SetArchived ==
  /\ Current("managed") > 0
  /\ archived' = ~archived
  /\ UNCHANGED <<revisions, files, objects, uploading, unsure>>

DocumentNext ==
  \/ SetArchived
  \/ \E u \in Uploads:
       \/ PutObject(u) \/ CommitRevision(u) \/ CommitUnanswered(u)
       \/ FailRevision(u) \/ Discard(u) \/ Die(u)

DocumentSpec == DocumentInit /\ [][DocumentNext]_documentVars

-----------------------------------------------------------------------------
(* Properties                                                               *)

\* Whatever overlaps, fails or dies: the newest revision of a record is its one
\* current file and the earlier ones are superseded, and every revision can be
\* opened. The exception is one whose commit was reported as failed: its object
\* may have been taken away.
RevisionsReadable ==
  \A r \in Records: \A i \in DOMAIN revisions[r]:
    LET u == revisions[r][i] IN
    /\ files[u] = IF i = Len(revisions[r]) THEN "current" ELSE "superseded"
    /\ u \in objects \cup unsure
=============================================================================
