------------------------------ MODULE Migrator ------------------------------
(***************************************************************************)
(* cmd/migrate/main.go: programs that take the schema up or down, several  *)
(* of them at a time. Nothing keeps them apart but schema_migrations: its  *)
(* primary key, and a transaction that changes the schema and the table    *)
(* together.                                                               *)
(*                                                                         *)
(* A migration is its version and how its SQL stands to the others': the   *)
(* tables it refers to, whether it can run twice, and whether it makes     *)
(* objects of its own or changes a table of an earlier one. Two            *)
(* transactions that touch the same object wait for each other, so that a  *)
(* transaction is one step, with its outcome.                              *)
(***************************************************************************)
EXTENDS Integers

CONSTANTS
  Runner,    \* runs of the program at a time
  Version,   \* the versions of the embedded files
  Needs,     \* [Version -> SUBSET Version] whose objects a migration's SQL needs
  Again,     \* those whose .up.sql may run although it has run before
  Change,    \* those that alter a table instead of making one
  None,
  Faults

ASSUME MigratorAssumption ==
  /\ Version \subseteq Nat /\ None \notin Version
  /\ Needs \in [Version -> SUBSET Version]
  /\ \A v \in Version : \A w \in Needs[v] : w < v
  /\ Again \subseteq Version /\ Change \subseteq Version
  /\ Faults \subseteq {"sql_error", "died", "commit_unknown"}

VARIABLES
  table,     \* whether schema_migrations exists
  recorded,  \* the versions in it
  built,     \* the versions whose SQL is in effect
  command,   \* [Runner -> ...] its argument
  pc,        \* [Runner -> ...] where it is
  seen,      \* [Runner -> SUBSET Version] the versions it does not apply
  latest,    \* [Runner -> ...] the version it is to revert
  trouble,   \* history: downs, downs that came late, faults
  undone     \* history: [Runner -> BOOLEAN] whether anything was reverted
             \* since it read the table

run  == <<command, pc, seen, latest>>
vars == <<table, recorded, built, run, trouble, undone>>

----------------------------------------------------------------------------
Ended == {"idle", "ok", "failed"}

TypeOK ==
  /\ table    \in BOOLEAN
  /\ recorded \subseteq Version /\ built \subseteq Version
  /\ command  \in [Runner -> {"up", "down"}]
  /\ pc       \in [Runner -> Ended \cup {"ensure", "create", "read", "apply",
                                         "revert"}]
  /\ seen     \in [Runner -> SUBSET Version]
  /\ latest   \in [Runner -> Version \cup {None}]
  /\ trouble  \subseteq {"down", "late", "fault"}
  /\ undone   \in [Runner -> BOOLEAN]
  /\ \A r \in Runner :
       pc[r] = "revert" => command[r] = "down" /\ latest[r] # None
  /\ \A r \in Runner : pc[r] \in {"read", "apply", "revert"} => table

Init ==
  /\ table    = FALSE
  /\ recorded = {} /\ built = {}
  /\ command  = [r \in Runner |-> "up"]
  /\ pc       = [r \in Runner |-> "idle"]
  /\ seen     = [r \in Runner |-> {}]
  /\ latest   = [r \in Runner |-> None]
  /\ trouble  = {}
  /\ undone   = [r \in Runner |-> FALSE]

----------------------------------------------------------------------------
(* Postgres (external): when a migration's SQL succeeds, and what it does. *)

(* CREATE TABLE fails if the table is there, REFERENCES and ALTER TABLE if *)
(* theirs is not.                                                          *)
UpSucceeds(v) == Needs[v] \subseteq built /\ (v \in built => v \in Again)

(* DROP TABLE IF EXISTS fails if another table refers to it.               *)
DownSucceeds(v) ==
  IF v \in Change THEN Needs[v] \subseteq built
  ELSE \A w \in built \ Change : v \notin Needs[w]

(* A dropped table takes along what later migrations changed in it.        *)
Dropped(v) == {v} \cup { w \in Change : v \in Needs[w] }

----------------------------------------------------------------------------
Goes(r, where) == pc' = [pc EXCEPT ![r] = where]

Start(r, cmd) ==
  /\ pc[r] \in Ended
  /\ command' = [command EXCEPT ![r] = cmd]
  /\ Goes(r, "ensure")
  /\ seen'   = [seen EXCEPT ![r] = {}]
  /\ latest' = [latest EXCEPT ![r] = None]
  /\ undone' = [undone EXCEPT ![r] = FALSE]
  /\ trouble' = IF cmd = "down" THEN trouble \cup {cmd} ELSE trouble
  /\ UNCHANGED <<table, recorded, built>>

(* CREATE TABLE IF NOT EXISTS looks for the table ...                      *)
FindTable(r) ==
  /\ pc[r] = "ensure"
  /\ Goes(r, IF table THEN "read" ELSE "create")
  /\ UNCHANGED <<table, recorded, built, command, seen, latest, trouble,
                 undone>>

(* ... and makes it, or finds that someone else just has, an error.        *)
CreateTable(r) ==
  /\ pc[r] = "create"
  /\ table' = TRUE
  /\ Goes(r, IF table THEN "failed" ELSE "read")
  /\ UNCHANGED <<recorded, built, command, seen, latest, trouble, undone>>

Applied_UpToLatest ==
  { v \in Version : \E w \in recorded : v <= w }

(* The versions in the table, all of which an up leaves out.               *)
Applied == recorded

ReadApplied(r) ==
  /\ pc[r] = "read" /\ command[r] = "up"
  /\ seen'   = [seen EXCEPT ![r] = Applied]
  /\ undone' = [undone EXCEPT ![r] = FALSE]
  /\ Goes(r, IF Applied = Version THEN "ok" ELSE "apply")
  /\ UNCHANGED <<table, recorded, built, command, latest, trouble>>

ReadLatest(r) ==
  /\ pc[r] = "read" /\ command[r] = "down"
  /\ \/ recorded = {} /\ Goes(r, "ok") /\ UNCHANGED latest
     \/ \E v \in recorded :
          /\ \A w \in recorded : w <= v
          /\ latest' = [latest EXCEPT ![r] = v]
          /\ Goes(r, "revert")
  /\ UNCHANGED <<table, recorded, built, command, seen, trouble, undone>>

Next1st_Unsorted(r, v) == v \in Version \ seen[r]

(* What a runner does next: the versions go in ascending order.            *)
Next1st(r, v) == /\ v \in Version \ seen[r]
                 /\ \A w \in Version \ seen[r] : v <= w

Record_OnConflictNothing(v) == recorded' = recorded \cup {v}

(* INSERT INTO schema_migrations, of which version is the primary key.     *)
Record(v) == v \notin recorded /\ recorded' = recorded \cup {v}

(* One migration in its transaction, and on to the next.                   *)
Apply(r, v) ==
  /\ pc[r] = "apply" /\ Next1st(r, v)
  /\ UpSucceeds(v) /\ Record(v)
  /\ built' = built \cup {v}
  /\ seen'  = [seen EXCEPT ![r] = @ \cup {v}]
  /\ Goes(r, IF seen[r] \cup {v} = Version THEN "ok" ELSE "apply")
  /\ UNCHANGED <<table, command, latest, trouble, undone>>

(* The SQL fails on what is there or missing, or the INSERT on the key:    *)
(* rolled back, and the end of the run.                                    *)
Conflict(r, v) ==
  /\ pc[r] = "apply" /\ Next1st(r, v)
  /\ ~UpSucceeds(v) \/ v \in recorded
  /\ Goes(r, "failed")
  /\ UNCHANGED <<table, recorded, built, command, seen, latest, trouble,
                 undone>>

Removed_Unrecorded(v) == recorded

(* DELETE FROM schema_migrations, of no row perhaps.                       *)
Removed(v) == recorded \ {v}

Late(v) == IF \E w \in recorded : v < w THEN {"late"} ELSE {}

Reverts(r) ==
  LET v == latest[r] IN
  /\ DownSucceeds(v)
  /\ recorded' = Removed(v)
  /\ built'    = built \ Dropped(v)
  /\ trouble'  = trouble \cup Late(v)
  /\ undone'   = [q \in Runner |-> undone[q] \/ v \in recorded]

(* The transaction of down, long after the version was the latest perhaps. *)
Revert(r) ==
  /\ pc[r] = "revert"
  /\ Reverts(r) /\ Goes(r, "ok")
  /\ UNCHANGED <<table, command, seen, latest>>

RevertFails(r) ==
  /\ pc[r] = "revert" /\ ~DownSucceeds(latest[r])
  /\ Goes(r, "failed")
  /\ UNCHANGED <<table, recorded, built, command, seen, latest, trouble,
                 undone>>

----------------------------------------------------------------------------
(* Failures.                                                               *)

(* A statement fails for a reason of its own, or the process dies: what    *)
(* was not committed is rolled back.                                       *)
Fail(r) ==
  /\ {"sql_error", "died"} \cap Faults # {}
  /\ pc[r] \notin Ended
  /\ Goes(r, "failed")
  /\ trouble' = trouble \cup {"fault"}
  /\ UNCHANGED <<table, recorded, built, command, seen, latest, undone>>

(* The commit succeeds and its answer is lost.                             *)
CommitUnknown(r) ==
  /\ "commit_unknown" \in Faults
  /\ \/ /\ pc[r] = "apply"
        /\ \E v \in Version : /\ Next1st(r, v) /\ UpSucceeds(v) /\ Record(v)
                              /\ built' = built \cup {v}
        /\ trouble' = trouble \cup {"fault"}
        /\ UNCHANGED undone
     \/ pc[r] = "revert" /\ Reverts(r)
  /\ Goes(r, "failed")
  /\ UNCHANGED <<table, command, seen, latest>>

----------------------------------------------------------------------------
Next ==
  \E r \in Runner :
    \/ \E cmd \in {"up", "down"} : Start(r, cmd)
    \/ FindTable(r) \/ CreateTable(r) \/ ReadApplied(r) \/ ReadLatest(r)
    \/ \E v \in Version : Apply(r, v) \/ Conflict(r, v)
    \/ Revert(r) \/ RevertFails(r) \/ Fail(r) \/ CommitUnknown(r)

Spec == Init /\ [][Next]_vars

----------------------------------------------------------------------------
(* Properties.                                                             *)

(* The table tells the truth, whoever races, fails or dies: a table exists *)
(* exactly if its migration is recorded. A change of a table is in effect  *)
(* only if it is recorded, and is lost only to a down that came late, with *)
(* later versions applied since it read which one was the latest.          *)
RecordedIsBuilt ==
  /\ built \subseteq recorded
  /\ recorded \ Change \subseteq built
  /\ "late" \notin trouble => recorded = built

(* An up that ends well has brought the schema up, gaps that racing downs  *)
(* had left included, unless something was reverted after it had read it.  *)
UpMeansUp ==
  \A r \in Runner :
    pc[r] = "ok" /\ command[r] = "up" /\ ~undone[r] => recorded = Version

(* However many ups race, every one but one may fail, and yet the schema   *)
(* is complete when the last has ended; no version is applied before an    *)
(* earlier one.                                                            *)
RaceIsWon ==
  trouble = {} =>
    /\ \A v \in recorded, w \in Version : w < v => w \in recorded
    /\ (\A r \in Runner : pc[r] \in Ended) /\ table
         => recorded = Version
============================================================================
