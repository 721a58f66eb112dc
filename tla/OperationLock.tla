---------------------------- MODULE OperationLock ----------------------------
(***************************************************************************)
(* The commands an operator or launchd runs on the Mac, and the two        *)
(* exclusive directory locks they take: deploy and rollback take the one   *)
(* of the releases, backup and restore the one of the database. A lock is  *)
(* a directory that names its owner in a file written after the directory  *)
(* was made; a command that dies leaves it behind, for the operator to     *)
(* move out of the way with recover-lock.                                  *)
(*                                                                         *)
(* A command is a process: the lock's test of host, boot, pid and start    *)
(* time is the test whether that process still runs. The fifteen minutes   *)
(* an unnamed lock must age are taken to be longer than a live command     *)
(* needs between making the directory and naming itself in it. One         *)
(* operator recovers a lock at a time, having made sure (the runbook says) *)
(* that nothing runs under it.                                             *)
(***************************************************************************)
EXTENDS Naturals, FiniteSets

CONSTANTS
  MaxCommands,    \* bound: commands run
  MaxReleases,    \* bound: application releases, numbered as their ids sort
  Records         \* consultations the portal accepts

ASSUME CommandsAssumption == MaxCommands \in Nat /\ MaxReleases \in Nat \ {0}

\* A database: the schema its migration history has reached, 0 in a new one,
\* and the consultations it holds.
Content == [schema : Nat, rows : SUBSET Records]
Empty == [schema |-> 0, rows |-> {}]

VARIABLES
  command,  \* what each command does, and where it is
  lock,     \* the two lock directories
  moving    \* the locks a recovery found stale and is about to move away

None == 0
Commands == 1..MaxCommands
Releases == 1..MaxReleases
Locks == {"release", "database"}
Kinds == {"deploy", "rollback", "backup", "restore"}
LockOf(kind) == IF kind \in {"deploy", "rollback"} THEN "release" ELSE "database"

ReleaseSteps == {"copy", "verify", "build", "migrate", "seal", "canary", "switch", "restart", "health",
                 "prune", "revert", "recover", "clean"}
DatabaseSteps == {"snapshot", "hourly", "hourlyStatus", "daily", "dailyStatus", "retain",
                  "assert", "stop", "load", "quarantine", "replace", "start",
                  "undo", "putBack", "startBack"}
WorkSteps == ReleaseSteps \cup DatabaseSteps \cup {"unlock"}

\* What a command works on (a release or a backup), the release that was
\* current before, and the database content it holds in its work directory.
\* Whether it has switched or replaced anything yet is told by its step.
Command == [kind : Kinds \cup {"none"},
            step : {"new", "naming", "ended"} \cup WorkSteps,
            arg : Nat, previous : Releases \cup {None}, copy : Content]

New == [kind |-> "none", step |-> "new", arg |-> None, previous |-> None, copy |-> Empty]
Ended == [New EXCEPT !.step = "ended"]

Free == [by |-> None, named |-> FALSE]
Lock == {Free} \cup [by : Commands, named : BOOLEAN]

Alive(c) == command[c].step \notin {"new", "ended"}
At(c, step) == command[c].step = step
Go(c, step) == command' = [command EXCEPT ![c].step = step]
Finish(c) == command' = [command EXCEPT ![c] =
               [New EXCEPT !.kind = command[c].kind, !.step = "unlock"]]

InitLock ==
  /\ command = [c \in Commands |-> New]
  /\ lock = [l \in Locks |-> Free]
  /\ moving = {}

\* A command starts and makes the lock's directory, or finds one there and
\* gives up: a lock that is held and one that is stale both refuse it.
Begin(c, kind, arg) ==
  /\ command[c] = New /\ \A d \in 1..(c - 1) : command[d] # New
  /\ IF lock[LockOf(kind)] = Free
     THEN /\ lock' = [lock EXCEPT ![LockOf(kind)] = [by |-> c, named |-> FALSE]]
          /\ command' = [command EXCEPT ![c] =
               [New EXCEPT !.kind = kind, !.step = "naming", !.arg = arg]]
     ELSE command' = [command EXCEPT ![c] = Ended] /\ UNCHANGED lock
  /\ UNCHANGED moving

First(kind) == CASE kind = "deploy"   -> "copy"
                 [] kind = "rollback" -> "verify"
                 [] kind = "backup"   -> "snapshot"
                 [] kind = "restore"  -> "assert"

\* The owner file is written; when it cannot be, the directory goes again.
NameOwner(c) ==
  /\ At(c, "naming")
  /\ LET l == LockOf(command[c].kind) IN
     \/ /\ lock' = [lock EXCEPT ![l].named = TRUE]
        /\ Go(c, First(command[c].kind))
     \/ /\ lock' = [lock EXCEPT ![l] = Free]
        /\ command' = [command EXCEPT ![c] = Ended]
  /\ UNCHANGED moving

\* However the operation went, the lock is given back, when it is still the
\* command's own.
Unlock(c) ==
  /\ At(c, "unlock")
  /\ LET l == LockOf(command[c].kind) IN
     lock' = IF lock[l] = [by |-> c, named |-> TRUE] THEN [lock EXCEPT ![l] = Free] ELSE lock
  /\ command' = [command EXCEPT ![c] = Ended]
  /\ UNCHANGED moving

\* A command is killed wherever it is.
Kill(c) ==
  /\ Alive(c)
  /\ command' = [command EXCEPT ![c] = Ended]
  /\ UNCHANGED <<lock, moving>>

\* Mutant: a lock that does not name its owner is stale.
StaleUnnamed(l) == lock[l] # Free /\ (~lock[l].named \/ ~Alive(lock[l].by))

\* The owner of the lock runs no more.
Stale(l) == lock[l] # Free /\ ~Alive(lock[l].by)

\* recover-lock inspects the lock twice and then moves away what is there.
Inspect(l) ==
  /\ l \notin moving /\ Stale(l)
  /\ moving' = moving \cup {l}
  /\ UNCHANGED <<command, lock>>

Quarantine(l) ==
  /\ l \in moving
  /\ lock' = [lock EXCEPT ![l] = Free]
  /\ moving' = moving \ {l}
  /\ UNCHANGED command

\* Every operation at work holds the lock of its kind, named as its own: no
\* two commands work on the releases, or on the database, at the same time.
HoldsItsLock(c) ==
  /\ At(c, "naming") => lock[LockOf(command[c].kind)] = [by |-> c, named |-> FALSE]
  /\ command[c].step \in WorkSteps
       => lock[LockOf(command[c].kind)] = [by |-> c, named |-> TRUE]

=============================================================================
