----------------------------- MODULE Migration -----------------------------
(***************************************************************************)
(* scripts/migrate.mjs, run by every deployment and every start            *)
(* (migrate-on-build.mjs, start.mjs) before requests are served.           *)
(* Statements that change the schema commit by themselves, so the journal  *)
(* is written before and after each one, and a process may die between     *)
(* any two statements; its session, and with it the lock, ends then.       *)
(* Checksums do not change here.                                           *)
(***************************************************************************)
EXTENDS Naturals, Sequences

CONSTANTS
  Scripts,    \* the migration files in order, each the sequence of its kinds of step
  Processes,  \* deployments and servers that may start at a time
  NoProcess   \* nobody has the lock

\* created: objectExists finds what it made (a table, an index, a column).
\* repeatable: harmless to run again.  opaque: neither can be told.
Kinds == {"created", "repeatable", "opaque"}

ASSUME ScriptsAssumption ==
  /\ Scripts \in Seq(Seq(Kinds))
  /\ NoProcess \notin Processes

VARIABLES
  journal,  \* app_migration_steps: per step
  done,     \* app_migrations: the files applied
  runs,     \* the database: how often a step's statement has run, up to 2
  foreign,  \* created steps whose object was there before any migration
  holder,   \* who has GET_LOCK
  cursor    \* per process: off, or at a step, before its intent or with it journalled

migrationVars == <<journal, done, runs, foreign, holder, cursor>>

\* A step is a file and a position in it.
Steps == UNION {{f} \X DOMAIN Scripts[f]: f \in DOMAIN Scripts}
Kind(s) == Scripts[s[1]][s[2]]
Before(s, t) == s[1] < t[1] \/ (s[1] = t[1] /\ s[2] < t[2])

\* what: off; look (about to look a step or the end of its file up); execute and
\* complete (about to do that).
Off == [what |-> "off", at |-> <<1, 1>>]
Cursors == [what: {"off", "look", "execute", "complete"}, at: Nat \X Nat]

\* Everything is what it should be.
MigrationTypeOK ==
  /\ journal \in [Steps -> {"none", "pending", "complete"}]
  /\ done \subseteq DOMAIN Scripts
  /\ runs \in [Steps -> 0..2]
  /\ foreign \subseteq {s \in Steps: Kind(s) = "created"}
  /\ holder \in Processes \cup {NoProcess}
  /\ cursor \in [Processes -> Cursors]

\* An empty database, or one that already has an object of the same name.
MigrationInit ==
  /\ journal = [s \in Steps |-> "none"]
  /\ done = {}
  /\ runs = [s \in Steps |-> 0]
  /\ foreign \in {{}} \cup {{s}: s \in {t \in Steps: Kind(t) = "created"}}
  /\ holder = NoProcess
  /\ cursor = [p \in Processes |-> Off]

Go(p, what, at) == cursor' = [cursor EXCEPT ![p] = [what |-> what, at |-> at]]

\* GET_LOCK succeeds, or the process gives up.
Acquire(p) ==
  /\ cursor[p].what = "off" /\ holder = NoProcess
  /\ holder' = p
  /\ Go(p, "look", <<1, 1>>)
  /\ UNCHANGED <<journal, done, runs, foreign>>

\* Ready, stopped by an error, or killed: the session ends and with it the lock.
Stop(p) ==
  /\ cursor' = [cursor EXCEPT ![p] = Off]
  /\ holder' = IF holder = p THEN NoProcess ELSE holder

Crash(p) ==
  /\ cursor[p].what # "off"
  /\ Stop(p)
  /\ UNCHANGED <<journal, done, runs, foreign>>

-----------------------------------------------------------------------------

\* objectExists, of a step that can be told.
Exists(s) == Kind(s) = "created" /\ (runs[s] > 0 \/ s \in foreign)

Looking(p) == cursor[p].what = "look"
AtStep(p) == Looking(p) /\ cursor[p].at \in Steps
NextStep(s) == <<s[1], s[2] + 1>>

\* A file already applied.
SkipFile(p) ==
  LET f == cursor[p].at[1] IN
  /\ Looking(p) /\ f \in done
  /\ Go(p, "look", <<f + 1, 1>>)
  /\ UNCHANGED <<journal, done, runs, foreign, holder>>

\* A step already complete.
SkipStep(p) ==
  LET s == cursor[p].at IN
  /\ AtStep(p) /\ s[1] \notin done
  /\ journal[s] = "complete"
  /\ Go(p, "look", NextStep(s))
  /\ UNCHANGED <<journal, done, runs, foreign, holder>>

\* A step never begun: its intent is journalled, unless its object is there.
Intend(p) ==
  LET s == cursor[p].at IN
  /\ AtStep(p) /\ s[1] \notin done
  /\ journal[s] = "none"
  /\ ~Exists(s)
  /\ journal' = [journal EXCEPT ![s] = "pending"]
  /\ Go(p, "execute", s)
  /\ UNCHANGED <<done, runs, foreign, holder>>

\* Mutant: a step whose outcome cannot be told is simply run again.
RecoverableAnyway(s) == TRUE

Recoverable(s) == Kind(s) # "opaque"

\* A step somebody began: what it made, if anything, is ours.
Recover(p) ==
  LET s == cursor[p].at IN
  /\ AtStep(p) /\ s[1] \notin done
  /\ journal[s] = "pending"
  /\ Recoverable(s)
  /\ Go(p, IF Exists(s) THEN "complete" ELSE "execute", s)
  /\ UNCHANGED <<journal, done, runs, foreign, holder>>

\* "Untracked database object" and "manual database recovery required".
Refuse(p) ==
  LET s == cursor[p].at IN
  /\ AtStep(p) /\ s[1] \notin done
  /\ \/ journal[s] = "none" /\ Exists(s)
     \/ journal[s] = "pending" /\ ~Recoverable(s)
  /\ Stop(p)
  /\ UNCHANGED <<journal, done, runs, foreign>>

Execute(p) ==
  LET s == cursor[p].at IN
  /\ cursor[p].what = "execute"
  /\ runs' = [runs EXCEPT ![s] = IF @ < 2 THEN @ + 1 ELSE @]
  /\ Go(p, "complete", s)
  /\ UNCHANGED <<journal, done, foreign, holder>>

Complete(p) ==
  LET s == cursor[p].at IN
  /\ cursor[p].what = "complete"
  /\ journal' = [journal EXCEPT ![s] = "complete"]
  /\ Go(p, "look", NextStep(s))
  /\ UNCHANGED <<done, runs, foreign, holder>>

\* All steps of the file are complete.
FinishFile(p) ==
  LET f == cursor[p].at[1] IN
  /\ Looking(p) /\ f \in DOMAIN Scripts \ done
  /\ cursor[p].at[2] > Len(Scripts[f])
  /\ done' = done \cup {f}
  /\ Go(p, "look", <<f + 1, 1>>)
  /\ UNCHANGED <<journal, runs, foreign, holder>>

\* "Database migrations ready": the server starts.
Ready(p) ==
  /\ Looking(p) /\ cursor[p].at[1] > Len(Scripts)
  /\ Stop(p)
  /\ UNCHANGED <<journal, done, runs, foreign>>

Migrate(p) ==
  \/ SkipFile(p) \/ SkipStep(p) \/ Intend(p) \/ Recover(p) \/ Refuse(p)
  \/ Execute(p) \/ Complete(p) \/ FinishFile(p) \/ Ready(p)

MigrationNext == \E p \in Processes: Acquire(p) \/ Crash(p) \/ Migrate(p)

MigrationSpec == MigrationInit /\ [][MigrationNext]_migrationVars

-----------------------------------------------------------------------------
(* Properties                                                               *)

\* Whoever starts, dies and starts again, however often and at the same time: a
\* step that may not be repeated runs once at most, never before the steps ahead
\* of it, never over an object that was there before, and a file counts as
\* applied when all of it has run.
AppliedOnceInOrder ==
  /\ \A s \in Steps: Kind(s) # "repeatable" => runs[s] <= 1
  /\ \A s, t \in Steps: Before(s, t) /\ runs[t] > 0 => runs[s] > 0
  /\ \A s \in foreign: runs[s] = 0
  /\ \A s \in Steps: s[1] \in done => runs[s] > 0
=============================================================================
