-------------------------- MODULE OperationsProofs --------------------------
(***************************************************************************)
(* Theorems about the operations of the Mac, for any number of commands,   *)
(* releases, consultations and kills, and any schemas: every operation at  *)
(* work holds its lock, the link names a verified release, what there is   *)
(* to return to fits the database, and no accepted consultation is lost.   *)
(***************************************************************************)
EXTENDS Operations, TLAPS

USE CommandsAssumption, SchemaAssumption, KeepRetiredAssumption, KeepHourlyAssumption

-----------------------------------------------------------------------------
(* How a command moves.                                                    *)

BackupSteps == {"snapshot", "hourly", "hourlyStatus", "daily", "dailyStatus", "retain"}
RestoreSteps == {"assert", "stop", "load", "quarantine", "replace", "start", "undo", "putBack", "startBack"}
Steps == {"new", "naming", "ended"} \cup WorkSteps

Typed == command \in [Commands -> Command] /\ lock \in [Locks -> Lock] /\ moving \subseteq Locks

\* Only c moves, to that step, as the kind of operation it was.
Moves(c, step) ==
  /\ command' \in [Commands -> Command]
  /\ \A d \in Commands \ {c} : command'[d] = command[d]
  /\ command'[c].kind = command[c].kind /\ command'[c].step = step

Steady(c) == /\ command'[c].arg = command[c].arg /\ command'[c].previous = command[c].previous
             /\ command'[c].copy = command[c].copy

LEMMA EmptyType == Empty \in Content /\ New \in Command /\ Ended \in Command /\ New.copy = Empty
  BY DEF Empty, Content, New, Ended, Command, None

LEMMA GoMoves ==
  ASSUME NEW c \in Commands, NEW step \in Steps, command \in [Commands -> Command], Go(c, step)
  PROVE  Moves(c, step) /\ Steady(c)
<1> DEFINE d == [command[c] EXCEPT !.step = step]
<1>1. d \in Command /\ d.kind = command[c].kind /\ d.step = step /\ d.arg = command[c].arg
      /\ d.previous = command[c].previous /\ d.copy = command[c].copy
  BY DEF Command, Steps
<1>2. command' = [command EXCEPT ![c] = d]
  BY DEF Go
<1> QED
  BY <1>1, <1>2 DEF Moves, Steady

LEMMA FinishMoves ==
  ASSUME NEW c \in Commands, command \in [Commands -> Command], Finish(c)
  PROVE  Moves(c, "unlock") /\ command'[c].copy = Empty
<1> DEFINE d == [New EXCEPT !.kind = command[c].kind, !.step = "unlock"]
<1>1. d \in Command /\ d.kind = command[c].kind /\ d.step = "unlock" /\ d.copy = Empty
  BY EmptyType DEF Command, New, WorkSteps
<1>2. command' = [command EXCEPT ![c] = d]
  BY DEF Finish
<1> QED
  BY <1>1, <1>2 DEF Moves

\* A step that also takes a copy, or remembers the release that was current.
LEMMA CopyMoves ==
  ASSUME NEW c \in Commands, NEW step \in Steps, NEW held \in Content, command \in [Commands -> Command],
         command' = [command EXCEPT ![c].step = step, ![c].copy = held]
  PROVE  /\ Moves(c, step) /\ command'[c].copy = held
         /\ command'[c].arg = command[c].arg /\ command'[c].previous = command[c].previous
<1> DEFINE d == [command[c] EXCEPT !.step = step, !.copy = held]
<1>1. d \in Command /\ d.kind = command[c].kind /\ d.step = step /\ d.arg = command[c].arg
      /\ d.previous = command[c].previous /\ d.copy = held
  BY DEF Command, Steps
<1>2. command' = [command EXCEPT ![c] = d]
  <2>1. [command[c] EXCEPT !.step = step] \in Command
    BY DEF Command, Steps
  <2> QED
    BY <2>1
<1> QED
  BY <1>1, <1>2 DEF Moves

LEMMA RememberMoves ==
  ASSUME NEW c \in Commands, NEW step \in Steps, NEW r \in Releases \cup {None},
         command \in [Commands -> Command],
         command' = [command EXCEPT ![c].step = step, ![c].previous = r]
  PROVE  /\ Moves(c, step) /\ command'[c].copy = command[c].copy
         /\ command'[c].arg = command[c].arg
<1> DEFINE d == [command[c] EXCEPT !.step = step, !.previous = r]
<1>1. d \in Command /\ d.kind = command[c].kind /\ d.step = step /\ d.arg = command[c].arg
      /\ d.previous = r /\ d.copy = command[c].copy
  BY DEF Command, Steps
<1>2. command' = [command EXCEPT ![c] = d]
  <2>1. [command[c] EXCEPT !.step = step] \in Command
    BY DEF Command, Steps
  <2> QED
    BY <2>1
<1> QED
  BY <1>1, <1>2 DEF Moves

\* A release operation goes on as it is, or is about to give its lock back.
LEMMA ReleaseMoves ==
  ASSUME NEW c \in Commands, Typed, current \in Releases \cup {None}, ReleaseStep(c)
  PROVE  /\ command[c].step \in ReleaseSteps
         /\ \/ /\ \E step \in ReleaseSteps : Moves(c, step)
               /\ command'[c].arg = command[c].arg /\ command'[c].copy = command[c].copy
            \/ Moves(c, "unlock") /\ command'[c].copy = Empty
<1> DEFINE From == command[c].step \in ReleaseSteps
           On(step) == Moves(c, step) /\ Steady(c)
           Off == Moves(c, "unlock") /\ command'[c].copy = Empty
           Goal == From /\ ((\E step \in ReleaseSteps : On(step)) \/ Off)
<1>1. command \in [Commands -> Command] /\ ReleaseSteps \subseteq Steps
  BY DEF Typed, Steps, WorkSteps
<1>2. \A step \in ReleaseSteps : Go(c, step) => On(step)
  BY <1>1, GoMoves
<1>3. Finish(c) => Off
  BY <1>1, FinishMoves
<1> HIDE DEF On, Off
<1>4. ASSUME Copy(c) \/ Build(c) \/ Migrate(c) \/ Seal(c) \/ Verify(c) PROVE Goal
  BY <1>2, <1>3, <1>4 DEF Copy, Build, Migrate, Seal, Verify, At, ReleaseSteps
<1>5. CASE Canary(c)
  <2>1. CASE command' = [command EXCEPT ![c].step = "switch", ![c].previous = current]
    <3>1. Moves(c, "switch") /\ command'[c].copy = command[c].copy /\ command'[c].arg = command[c].arg
      BY <1>1, <2>1, RememberMoves DEF ReleaseSteps
    <3> QED
      BY <1>5, <3>1 DEF Canary, At, ReleaseSteps
  <2>2. CASE Go(c, "clean")
    BY <1>2, <1>5, <2>2 DEF Canary, At, ReleaseSteps, On, Steady
  <2> QED
    BY <1>5, <2>1, <2>2 DEF Canary
<1>6. ASSUME Switch(c) \/ Restart(c) \/ Health(c) \/ Prune(c) PROVE Goal
  BY <1>2, <1>3, <1>6 DEF Switch, Restart, Health, Prune, At, ReleaseSteps
<1>7. ASSUME Revert(c) \/ Recover(c) \/ Clean(c) PROVE Goal
  BY <1>2, <1>3, <1>7 DEF Revert, Recover, Clean, At, ReleaseSteps
<1>8. Goal => /\ From
              /\ \/ /\ \E step \in ReleaseSteps : Moves(c, step)
                    /\ command'[c].arg = command[c].arg /\ command'[c].copy = command[c].copy
                 \/ Moves(c, "unlock") /\ command'[c].copy = Empty
  BY DEF On, Off, Steady
<1> QED
  BY <1>4, <1>5, <1>6, <1>7, <1>8 DEF ReleaseStep

\* So does a backup, and a restore.
LEMMA DatabaseMoves ==
  ASSUME NEW c \in Commands, Typed, file \in Content, backup \in [Backups -> Backup],
         command[c].step \in RestoreSteps => command[c].arg \in Backups, DatabaseStep(c)
  PROVE  \/ /\ command[c].step \in BackupSteps
            /\ \E step \in BackupSteps \cup {"unlock"} : Moves(c, step)
         \/ /\ command[c].step \in RestoreSteps
            /\ \/ /\ \E step \in RestoreSteps : Moves(c, step)
                  /\ command'[c].arg = command[c].arg
               \/ Moves(c, "unlock")
<1> DEFINE Backing == /\ command[c].step \in BackupSteps
                      /\ \E step \in BackupSteps \cup {"unlock"} : Moves(c, step)
           On(step) == Moves(c, step) /\ Steady(c)
           Off == Moves(c, "unlock") /\ command'[c].copy = Empty
           Restoring == /\ command[c].step \in RestoreSteps
                        /\ (\E step \in RestoreSteps : On(step)) \/ Off
           Further == /\ command[c].step \in RestoreSteps
                      /\ \/ /\ \E step \in RestoreSteps : Moves(c, step)
                            /\ command'[c].arg = command[c].arg
                         \/ Moves(c, "unlock")
<1>1. command \in [Commands -> Command] /\ BackupSteps \cup RestoreSteps \subseteq Steps
  BY DEF Typed, Steps, WorkSteps, DatabaseSteps, BackupSteps, RestoreSteps
<1>2. \A step \in BackupSteps \cup RestoreSteps : Go(c, step) => On(step)
  BY <1>1, GoMoves
<1>3. Finish(c) => Off
  BY <1>1, FinishMoves
<1>4. command' = [command EXCEPT ![c] = command[c]] => command' = command
  BY <1>1
<1>5. command' = command => Moves(c, command[c].step)
  BY <1>1 DEF Moves
<1>6. (\A step : On(step) => Moves(c, step)) /\ (Off => Moves(c, "unlock")) /\ (Restoring => Further)
  BY DEF Steady
<1> HIDE DEF On, Off
<1>7. CASE Snapshot(c)
  <2>1. CASE command' = [command EXCEPT ![c].step = "hourly", ![c].copy = file]
    <3>1. Moves(c, "hourly")
      BY <1>1, <2>1, CopyMoves DEF BackupSteps
    <3> QED
      BY <1>7, <3>1 DEF Snapshot, At, BackupSteps
  <2>2. CASE Finish(c)
    BY <1>3, <1>6, <1>7, <2>2 DEF Snapshot, At, BackupSteps
  <2> QED
    BY <1>7, <2>1, <2>2 DEF Snapshot
<1>8. ASSUME Hourly(c) \/ HourlyStatus(c) \/ Daily(c) \/ DailyStatus(c) PROVE Backing
  BY <1>2, <1>3, <1>6, <1>8 DEF Hourly, HourlyStatus, Daily, DailyStatus, PublishArtifact, PublishStatus, At, BackupSteps
<1>9. ASSUME Retain(c) PROVE Backing
  BY <1>3, <1>5, <1>6, <1>9 DEF Retain, At, BackupSteps
<1>10. ASSUME AssertStopped(c) \/ Stop(c) PROVE Restoring
  BY <1>2, <1>3, <1>10 DEF AssertStopped, Stop, At, RestoreSteps
<1>11. CASE Load(c)
  <2> DEFINE held == backup[command[c].arg].holds
  <2>1. command[c].arg \in Backups
    BY <1>11 DEF Load, At, RestoreSteps
  <2>2. held \in Content
    BY <2>1 DEF Backup
  <2> HIDE DEF held
  <2>3. CASE command' = [command EXCEPT ![c].step = "quarantine", ![c].copy = held]
    <3>1. Moves(c, "quarantine") /\ command'[c].arg = command[c].arg
      BY <1>1, <2>2, <2>3, CopyMoves DEF RestoreSteps
    <3> QED
      BY <1>11, <3>1 DEF Load, At, RestoreSteps
  <2>4. CASE Go(c, "startBack")
    BY <1>2, <1>6, <1>11, <2>4 DEF Load, At, RestoreSteps
  <2> QED
    BY <1>11, <2>3, <2>4 DEF Load, held
<1>12. ASSUME QuarantineFile(c) \/ Replace(c) \/ Start(c) PROVE Restoring
  BY <1>2, <1>3, <1>12 DEF QuarantineFile, Replace, Start, At, RestoreSteps
<1>13. ASSUME Undo(c) \/ PutBack(c) \/ StartBack(c) PROVE Restoring
  BY <1>2, <1>3, <1>13 DEF Undo, PutBack, StartBack, At, RestoreSteps
<1> QED
  BY <1>6, <1>7, <1>8, <1>9, <1>10, <1>11, <1>12, <1>13 DEF DatabaseStep

-----------------------------------------------------------------------------
(* Locks.                                                                  *)

Data ==
  /\ services \in Services
  /\ current \in Releases \cup {None}
  /\ release \in [Releases -> {"absent", "partial", "sealed"}]
  /\ file \in Content
  /\ backup \in [Backups -> Backup]
  /\ aside \in [Commands -> Aside]
  /\ kills \in Nat

\* A command is at a step of its kind, and works on what there can be.
KindFits(c) ==
  /\ command[c].step \in ReleaseSteps => command[c].kind \in {"deploy", "rollback"}
  /\ command[c].step \in BackupSteps => command[c].kind = "backup"
  /\ command[c].step \in RestoreSteps => command[c].kind = "restore"
  /\ Alive(c) => command[c].kind \in Kinds
  /\ command[c].kind \in {"deploy", "rollback"} /\ command[c].step \in ReleaseSteps \cup {"naming"}
       => command[c].arg \in Releases
  /\ command[c].kind = "restore" /\ command[c].step \in RestoreSteps \cup {"naming"}
       => command[c].arg \in Backups

KindsFit == \A c \in Commands : KindFits(c)

\* A lock is held by a command that started; one that a recovery moves away
\* is the lock of a command that ended.
LocksHeld ==
  /\ \A c \in Commands : HoldsItsLock(c)
  /\ \A l \in Locks : lock[l] # Free => command[lock[l].by].step # "new"
  /\ \A l \in moving : Stale(l)

LockInv == Typed /\ KindsFit /\ LocksHeld

LEMMA LockFacts == /\ \A kind : LockOf(kind) \in Locks
                   /\ Free \in Lock
                   /\ \A c \in Commands, named \in BOOLEAN :
                        LET held == [by |-> c, named |-> named]
                        IN  held \in Lock /\ held # Free /\ held.by = c
                   /\ \A held \in Lock : held # Free => held.by \in Commands
  BY DEF LockOf, Locks, Lock, Free, Commands, None

\* While c works under its lock, it keeps it.
LEMMA WorkKeepsLocks ==
  ASSUME LockInv, NEW c \in Commands, NEW step \in WorkSteps, Moves(c, step),
         command[c].step \in WorkSteps, UNCHANGED <<lock, moving>>
  PROVE  LocksHeld'
<1>1. command \in [Commands -> Command] /\ lock \in [Locks -> Lock] /\ moving \subseteq Locks
  BY DEF LockInv, Typed
<1>2. \A d \in Commands \ {c} : command'[d] = command[d]
  BY DEF Moves
<1>3. command'[c].kind = command[c].kind /\ command'[c].step = step
  BY DEF Moves
<1>4. step \notin {"new", "naming", "ended"}
  BY DEF WorkSteps, ReleaseSteps, DatabaseSteps
<1>5. command[c].step \notin {"new", "naming", "ended"}
  BY DEF WorkSteps, ReleaseSteps, DatabaseSteps
<1>6. ASSUME NEW d \in Commands PROVE HoldsItsLock(d)'
  <2>1. HoldsItsLock(d)
    BY DEF LockInv, LocksHeld
  <2> QED
    BY <1>2, <1>3, <1>4, <2>1 DEF HoldsItsLock, At
<1>7. \A l \in Locks : lock[l] # Free => lock[l].by \in Commands
  BY <1>1, LockFacts
<1>8. ASSUME NEW l \in Locks, lock'[l] # Free PROVE command'[lock'[l].by].step # "new"
  BY <1>2, <1>3, <1>4, <1>7, <1>8 DEF LockInv, LocksHeld
<1>9. ASSUME NEW l \in moving' PROVE Stale(l)'
  <2>1. Stale(l) /\ l \in Locks
    BY <1>1, <1>9 DEF LockInv, LocksHeld
  <2> QED
    BY <1>2, <1>5, <1>7, <2>1 DEF Stale, Alive
<1> QED
  BY <1>6, <1>8, <1>9 DEF LocksHeld

LEMMA ReleaseKeepsLocks ==
  ASSUME LockInv, Data, NEW c \in Commands, ReleaseStep(c), UNCHANGED <<lock, moving>>
  PROVE  LockInv'
<1>1. /\ command[c].step \in ReleaseSteps
      /\ \/ /\ \E step \in ReleaseSteps : Moves(c, step)
            /\ command'[c].arg = command[c].arg
         \/ Moves(c, "unlock")
  BY ReleaseMoves DEF LockInv, Data
<1>2. PICK step \in ReleaseSteps \cup {"unlock"} :
         Moves(c, step) /\ (step \in ReleaseSteps => command'[c].arg = command[c].arg)
  BY <1>1 DEF ReleaseSteps
<1>3. step \in WorkSteps /\ command[c].step \in WorkSteps
  BY <1>1 DEF WorkSteps
<1>4. LocksHeld'
  BY <1>2, <1>3, WorkKeepsLocks
<1>5. Typed'
  BY <1>2 DEF LockInv, Typed, Moves
<1>6. KindsFit'
  <2> SUFFICES ASSUME NEW d \in Commands PROVE KindFits(d)'
    BY DEF KindsFit
  <2>1. CASE d # c
    BY <1>2, <2>1 DEF Moves, LockInv, KindsFit, KindFits, Alive
  <2>2. CASE d = c
    <3>1. command[c].kind \in {"deploy", "rollback"} /\ command[c].arg \in Releases
      BY <1>1 DEF LockInv, KindsFit, KindFits
    <3> QED
      BY <1>2, <2>2, <3>1 DEF Moves, ReleaseSteps, BackupSteps, RestoreSteps, Kinds, KindFits, Alive
  <2> QED
    BY <2>1, <2>2
<1> QED
  BY <1>4, <1>5, <1>6 DEF LockInv

LEMMA DatabaseKeepsLocks ==
  ASSUME LockInv, Data, NEW c \in Commands, DatabaseStep(c), UNCHANGED <<lock, moving>>
  PROVE  LockInv'
<1>1. \/ /\ command[c].step \in BackupSteps
         /\ \E step \in BackupSteps \cup {"unlock"} : Moves(c, step)
      \/ /\ command[c].step \in RestoreSteps
         /\ \/ /\ \E step \in RestoreSteps : Moves(c, step)
               /\ command'[c].arg = command[c].arg
            \/ Moves(c, "unlock")
  <2>1. command[c].step \in RestoreSteps => command[c].arg \in Backups
    BY DEF LockInv, KindsFit, KindFits
  <2> QED
    BY <2>1, DatabaseMoves DEF LockInv, Data
<1>2. PICK step \in BackupSteps \cup RestoreSteps \cup {"unlock"} :
         /\ Moves(c, step)
         /\ step \in BackupSteps => command[c].step \in BackupSteps
         /\ step \in RestoreSteps => command[c].step \in RestoreSteps /\ command'[c].arg = command[c].arg
  BY <1>1 DEF BackupSteps, RestoreSteps
<1>3. step \in WorkSteps /\ command[c].step \in WorkSteps
  BY <1>1 DEF WorkSteps, DatabaseSteps, BackupSteps, RestoreSteps
<1>4. LocksHeld'
  BY <1>2, <1>3, WorkKeepsLocks
<1>5. Typed'
  BY <1>2 DEF LockInv, Typed, Moves
<1>6. KindsFit'
  <2> SUFFICES ASSUME NEW d \in Commands PROVE KindFits(d)'
    BY DEF KindsFit
  <2>1. CASE d # c
    BY <1>2, <2>1 DEF Moves, LockInv, KindsFit, KindFits, Alive
  <2>2. CASE d = c
    <3>1. /\ step \in BackupSteps => command[c].kind = "backup"
          /\ step \in RestoreSteps => command[c].kind = "restore" /\ command'[c].arg \in Backups
          /\ command[c].kind \in {"backup", "restore"}
      BY <1>1, <1>2 DEF LockInv, KindsFit, KindFits
    <3> QED
      BY <1>2, <2>2, <3>1 DEF Moves, ReleaseSteps, BackupSteps, RestoreSteps, Kinds, KindFits, Alive
  <2> QED
    BY <2>1, <2>2
<1> QED
  BY <1>4, <1>5, <1>6 DEF LockInv

\* A command that ends leaves every lock as it is held, its own as a stale one.
LEMMA EndKeepsLocks ==
  ASSUME LockInv, NEW c \in Commands, command' = [command EXCEPT ![c] = Ended],
         \/ UNCHANGED lock
         \/ \E l \in Locks : /\ lock' = [lock EXCEPT ![l] = Free] /\ lock[l].by = c /\ lock[l] # Free
                             /\ Alive(c),
         UNCHANGED moving
  PROVE  LockInv'
<1>1. command \in [Commands -> Command] /\ lock \in [Locks -> Lock] /\ moving \subseteq Locks
  BY DEF LockInv, Typed
<1>2. (\A d \in Commands \ {c} : command'[d] = command[d]) /\ command'[c] = Ended
  BY <1>1
<1>3. Ended.step = "ended"
  BY DEF Ended, New
<1>4. "ended" \notin ReleaseSteps \cup BackupSteps \cup RestoreSteps \cup WorkSteps \cup {"naming", "new"}
  BY DEF ReleaseSteps, BackupSteps, RestoreSteps, WorkSteps, DatabaseSteps
<1>5. Typed'
  BY <1>1, LockFacts, EmptyType DEF Typed
<1>6. KindsFit'
  <2> SUFFICES ASSUME NEW d \in Commands PROVE KindFits(d)'
    BY DEF KindsFit
  <2>1. CASE d # c
    BY <1>2, <2>1 DEF LockInv, KindsFit, KindFits, Alive
  <2>2. CASE d = c
    BY <1>2, <1>3, <1>4, <2>2 DEF KindFits, Alive
  <2> QED
    BY <2>1, <2>2
<1>7. LocksHeld'
  <2>1. \A l \in Locks : lock[l] # Free => lock[l].by \in Commands
    BY <1>1, LockFacts
  <2>2. \A l \in Locks : lock'[l] = lock[l] \/ (lock'[l] = Free /\ lock[l].by = c /\ lock[l] # Free /\ Alive(c))
    BY <1>1
  <2>3. \A d \in Commands : LockOf(command[d].kind) \in Locks
    BY LockFacts
  <2>4. ASSUME NEW d \in Commands PROVE HoldsItsLock(d)'
    <3>1. CASE d = c
      BY <1>2, <1>3, <1>4, <3>1 DEF HoldsItsLock, At
    <3>2. CASE d # c
      <4>1. HoldsItsLock(d) /\ command'[d] = command[d]
        BY <1>2, <3>2 DEF LockInv, LocksHeld
      <4>2. \A named \in BOOLEAN : [by |-> d, named |-> named].by = d
        OBVIOUS
      <4> QED
        BY <2>2, <2>3, <3>2, <4>1, <4>2 DEF HoldsItsLock, At
    <3> QED
      BY <3>1, <3>2
  <2>5. ASSUME NEW l \in Locks, lock'[l] # Free PROVE command'[lock'[l].by].step # "new"
    BY <1>2, <1>3, <2>1, <2>2, <2>5 DEF LockInv, LocksHeld
  <2>6. ASSUME NEW l \in moving' PROVE Stale(l)'
    <3>1. Stale(l) /\ l \in Locks
      BY <1>1, <2>6 DEF LockInv, LocksHeld
    <3>2. lock'[l] = lock[l]
      BY <2>2, <3>1 DEF Stale
    <3> QED
      BY <1>2, <1>3, <2>1, <3>1, <3>2 DEF Stale, Alive
  <2> QED
    BY <2>4, <2>5, <2>6 DEF LocksHeld
<1> QED
  BY <1>5, <1>6, <1>7 DEF LockInv

LEMMA BeginKeepsLocks ==
  ASSUME LockInv, NEW c \in Commands, NEW kind \in Kinds, NEW arg \in Nat, Begin(c, kind, arg),
         kind \in {"deploy", "rollback"} => arg \in Releases,
         kind = "restore" => arg \in Backups
  PROVE  LockInv'
<1>1. command \in [Commands -> Command] /\ lock \in [Locks -> Lock] /\ moving \subseteq Locks
  BY DEF LockInv, Typed
<1>2. CASE lock[LockOf(kind)] # Free
  BY <1>2, EndKeepsLocks DEF Begin
<1>3. CASE lock[LockOf(kind)] = Free
  <2> DEFINE d == [New EXCEPT !.kind = kind, !.step = "naming", !.arg = arg]
             held == [by |-> c, named |-> FALSE]
             mine == LockOf(kind)
  <2>1. d \in Command /\ d.kind = kind /\ d.step = "naming" /\ d.arg = arg
    BY EmptyType DEF Command, New
  <2>2. held \in Lock /\ held # Free /\ held.by = c /\ mine \in Locks
    BY LockFacts
  <2>3. /\ command' = [command EXCEPT ![c] = d] /\ lock' = [lock EXCEPT ![mine] = held]
        /\ command[c] = New /\ moving' = moving
    BY <1>3 DEF Begin
  <2>4. "naming" \notin ReleaseSteps \cup BackupSteps \cup RestoreSteps \cup WorkSteps
    BY DEF ReleaseSteps, BackupSteps, RestoreSteps, WorkSteps, DatabaseSteps
  <2>5. lock[mine] = Free /\ New.step = "new"
    BY <1>3 DEF New
  <2>6. held = [by |-> c, named |-> FALSE] /\ mine = LockOf(kind)
    OBVIOUS
  <2> HIDE DEF d, held, mine
  <2>7. (\A e \in Commands \ {c} : command'[e] = command[e]) /\ command'[c] = d
    BY <1>1, <2>3
  <2>8. (\A l \in Locks \ {mine} : lock'[l] = lock[l]) /\ lock'[mine] = held
    BY <1>1, <2>2, <2>3
  <2>9. Typed'
    BY <1>1, <2>1, <2>2, <2>3 DEF Typed
  <2>10. KindsFit'
    <3> SUFFICES ASSUME NEW e \in Commands PROVE KindFits(e)'
      BY DEF KindsFit
    <3>1. CASE e # c
      BY <2>7, <3>1 DEF LockInv, KindsFit, KindFits, Alive
    <3>2. CASE e = c
      BY <2>1, <2>4, <2>7, <3>2 DEF KindFits, Alive
    <3> QED
      BY <3>1, <3>2
  <2>11. \A l \in Locks : lock[l] # Free => lock[l].by \in Commands /\ lock[l].by # c
    BY <1>1, <2>3, <2>5, LockFacts DEF LockInv, LocksHeld
  <2>12. ASSUME NEW e \in Commands PROVE HoldsItsLock(e)'
    <3>1. CASE e = c
      BY <2>1, <2>4, <2>6, <2>7, <2>8, <3>1 DEF HoldsItsLock, At
    <3>2. CASE e # c
      <4>1. HoldsItsLock(e) /\ command'[e] = command[e] /\ LockOf(command[e].kind) \in Locks
        BY <2>7, <3>2, LockFacts DEF LockInv, LocksHeld
      <4>2. \A named \in BOOLEAN : [by |-> e, named |-> named] # Free
        BY DEF Free, Commands, None
      <4> QED
        BY <2>5, <2>8, <4>1, <4>2 DEF HoldsItsLock, At
    <3> QED
      BY <3>1, <3>2
  <2>13. ASSUME NEW l \in Locks, lock'[l] # Free PROVE command'[lock'[l].by].step # "new"
    BY <2>1, <2>2, <2>7, <2>8, <2>11, <2>13 DEF LockInv, LocksHeld
  <2>14. ASSUME NEW l \in moving' PROVE Stale(l)'
    <3>1. Stale(l) /\ l \in Locks /\ l # mine
      BY <1>1, <2>3, <2>5, <2>14 DEF LockInv, LocksHeld, Stale
    <3> QED
      BY <2>7, <2>8, <2>11, <3>1 DEF Stale, Alive
  <2> QED
    BY <2>9, <2>10, <2>12, <2>13, <2>14 DEF LockInv, LocksHeld
<1> QED
  BY <1>2, <1>3

LEMMA NamedLock ==
  ASSUME NEW mine \in [by : Commands, named : BOOLEAN]
  PROVE  [mine EXCEPT !.named = TRUE] = [by |-> mine.by, named |-> TRUE]
<1> DEFINE named == [mine EXCEPT !.named = TRUE]
<1>1. named \in [by : Commands, named : BOOLEAN]
  OBVIOUS
<1>2. named.by = mine.by /\ named.named
  OBVIOUS
<1> HIDE DEF named
<1>3. named = [by |-> mine.by, named |-> TRUE]
  BY <1>1, <1>2
<1> QED
  BY <1>3 DEF named

LEMMA NamingKeepsLocks ==
  ASSUME LockInv, NEW c \in Commands, NameOwner(c) \/ Unlock(c)
  PROVE  LockInv'
<1> DEFINE l == LockOf(command[c].kind)
<1>1. command \in [Commands -> Command] /\ lock \in [Locks -> Lock] /\ moving \subseteq Locks
  BY DEF LockInv, Typed
<1>2. l \in Locks /\ HoldsItsLock(c)
  BY LockFacts DEF LockInv, LocksHeld
<1>3. command[c].step \in {"naming", "unlock"} => Alive(c) /\ command[c].kind \in Kinds
  BY DEF Alive, LockInv, KindsFit, KindFits
<1>4. CASE At(c, "naming") /\ lock' = [lock EXCEPT ![l].named = TRUE]
            /\ Go(c, First(command[c].kind)) /\ UNCHANGED moving
  <2> DEFINE held == [by |-> c, named |-> TRUE]
             kind == command[c].kind
             step == First(kind)
  <2>1. lock[l] = [by |-> c, named |-> FALSE]
    BY <1>2, <1>4 DEF HoldsItsLock
  <2>2. held \in Lock /\ held # Free /\ held.by = c
    BY LockFacts
  <2>3. lock' = [lock EXCEPT ![l] = held]
    <3>1. [lock[l] EXCEPT !.named = TRUE] = held
      <4>1. lock[l] \in [by : Commands, named : BOOLEAN] /\ lock[l].by = c
        BY <2>1
      <4> QED
        BY <4>1, NamedLock
    <3>2. lock' = [lock EXCEPT ![l] = [lock[l] EXCEPT !.named = TRUE]]
      BY <1>4
    <3> QED
      BY <3>1, <3>2
  <2>4. kind \in Kinds /\ step \in {"copy", "verify", "snapshot", "assert"}
        /\ (step \in {"copy", "verify"} => kind \in {"deploy", "rollback"})
        /\ (step = "snapshot" => kind = "backup") /\ (step = "assert" => kind = "restore")
    BY <1>3, <1>4 DEF First, Kinds, At
  <2>5. Moves(c, step) /\ Steady(c)
    BY <1>1, <1>4, <2>4, GoMoves DEF Steps, WorkSteps, ReleaseSteps, DatabaseSteps
  <2>6. lock'[l] = held /\ \A k \in Locks \ {l} : lock'[k] = lock[k]
    BY <1>1, <1>2, <2>3
  <2>7. held = [by |-> c, named |-> TRUE] /\ l = LockOf(kind) /\ kind = command[c].kind
    OBVIOUS
  <2>8. command[c].step = "naming"
    BY <1>4 DEF At
  <2> HIDE DEF held, step, kind, l
  <2>9. Typed'
    BY <1>1, <1>4, <2>2, <2>3, <2>5 DEF Typed, Moves
  <2>10. KindsFit'
    <3> SUFFICES ASSUME NEW e \in Commands PROVE KindFits(e)'
      BY DEF KindsFit
    <3>1. CASE e # c
      BY <2>5, <3>1 DEF Moves, LockInv, KindsFit, KindFits, Alive
    <3>2. CASE e = c
      <4>1. command'[c].kind = kind /\ command'[c].step = step /\ command'[c].arg = command[c].arg
        BY <2>5, <2>7 DEF Moves, Steady
      <4>2. /\ kind \in {"deploy", "rollback"} => command[c].arg \in Releases
            /\ kind = "restore" => command[c].arg \in Backups
        BY <2>7, <2>8 DEF LockInv, KindsFit, KindFits
      <4> QED
        BY <2>4, <3>2, <4>1, <4>2 DEF ReleaseSteps, BackupSteps, RestoreSteps, KindFits, Alive
    <3> QED
      BY <3>1, <3>2
  <2>11. LocksHeld'
    <3>1. ASSUME NEW e \in Commands PROVE HoldsItsLock(e)'
      <4>1. CASE e = c
        BY <2>4, <2>5, <2>6, <2>7, <4>1 DEF HoldsItsLock, At, Moves
      <4>2. CASE e # c
        <5>1. HoldsItsLock(e) /\ command'[e] = command[e] /\ LockOf(command[e].kind) \in Locks
          BY <2>5, <4>2, LockFacts DEF LockInv, LocksHeld, Moves
        <5>2. \A named \in BOOLEAN : [by |-> e, named |-> named] # lock[l]
          BY <2>1, <4>2
        <5> QED
          BY <2>6, <5>1, <5>2 DEF HoldsItsLock, At
      <4> QED
        BY <4>1, <4>2
    <3>2. \A k \in Locks : lock'[k].by = lock[k].by /\ (lock'[k] # Free => lock[k] # Free)
      <4>1. lock[l].by = c /\ lock[l] # Free
        BY <2>1, LockFacts
      <4> QED
        BY <2>2, <2>6, <4>1
    <3>3. step # "new" /\ \A k \in Locks : lock[k] # Free => lock[k].by \in Commands
      BY <1>1, <2>4, LockFacts
    <3>4. ASSUME NEW k \in Locks, lock'[k] # Free PROVE command'[lock'[k].by].step # "new"
      BY <2>5, <3>2, <3>3, <3>4 DEF LockInv, LocksHeld, Moves
    <3>5. ASSUME NEW k \in moving' PROVE Stale(k)'
      <4>1. k \in Locks /\ Stale(k)
        BY <1>1, <1>4, <3>5 DEF LockInv, LocksHeld
      <4>2. k # l
        BY <2>1, <2>8, <4>1, LockFacts DEF Stale, Alive
      <4>3. lock[k].by # c
        BY <2>8, <4>1 DEF Stale, Alive
      <4> QED
        BY <2>5, <2>6, <3>3, <4>1, <4>2, <4>3 DEF Stale, Alive, Moves
    <3> QED
      BY <3>1, <3>4, <3>5 DEF LocksHeld
  <2> QED
    BY <2>9, <2>10, <2>11 DEF LockInv
<1>5. CASE At(c, "naming") /\ lock' = [lock EXCEPT ![l] = Free]
            /\ command' = [command EXCEPT ![c] = Ended] /\ UNCHANGED moving
  <2>1. lock[l].by = c /\ lock[l] # Free /\ Alive(c)
    BY <1>2, <1>3, <1>5, LockFacts DEF HoldsItsLock, At
  <2> QED
    BY <1>2, <1>5, <2>1, EndKeepsLocks
<1>6. CASE Unlock(c)
  <2>1. lock[l] = [by |-> c, named |-> TRUE] /\ Alive(c)
    BY <1>2, <1>3, <1>6 DEF HoldsItsLock, Unlock, At, WorkSteps
  <2>2. lock[l].by = c /\ lock[l] # Free
    BY <2>1, LockFacts
  <2>3. lock' = [lock EXCEPT ![l] = Free] /\ command' = [command EXCEPT ![c] = Ended] /\ UNCHANGED moving
    BY <1>6, <2>1 DEF Unlock
  <2> QED
    BY <1>2, <2>1, <2>2, <2>3, EndKeepsLocks
<1> QED
  BY <1>4, <1>5, <1>6 DEF NameOwner

\* What a recovery moves away nobody who runs holds.
LEMMA RecoveryKeepsLocks ==
  ASSUME LockInv, NEW l \in Locks, Inspect(l) \/ Quarantine(l)
  PROVE  LockInv'
<1>1. command' = command /\ lock \in [Locks -> Lock] /\ moving \subseteq Locks
  BY DEF LockInv, Typed, Inspect, Quarantine
<1>2. CASE Inspect(l)
  <2>1. lock' = lock /\ moving' = moving \cup {l} /\ Stale(l)
    BY <1>2 DEF Inspect
  <2>2. LocksHeld'
    BY <1>1, <2>1 DEF LockInv, LocksHeld, HoldsItsLock, Stale, Alive, At
  <2> QED
    BY <1>1, <2>1, <2>2 DEF LockInv, Typed, KindsFit, KindFits, Alive
<1>3. CASE Quarantine(l)
  <2>1. lock' = [lock EXCEPT ![l] = Free] /\ moving' = moving \ {l} /\ l \in moving
    BY <1>3 DEF Quarantine
  <2>2. lock'[l] = Free /\ \A k \in Locks \ {l} : lock'[k] = lock[k]
    BY <1>1, <2>1
  <2>3. Stale(l)
    BY <2>1 DEF LockInv, LocksHeld
  <2>4. ASSUME NEW c \in Commands PROVE HoldsItsLock(c)'
    <3>1. HoldsItsLock(c) /\ LockOf(command[c].kind) \in Locks
      BY LockFacts DEF LockInv, LocksHeld
    <3>2. CASE LockOf(command[c].kind) = l
      <4>1. \A named \in BOOLEAN : lock[l] = [by |-> c, named |-> named] => ~Alive(c)
        BY <2>3 DEF Stale
      <4>2. command[c].step \in WorkSteps \cup {"naming"} => Alive(c)
        BY DEF Alive, WorkSteps, ReleaseSteps, DatabaseSteps
      <4> QED
        BY <1>1, <3>1, <3>2, <4>1, <4>2 DEF HoldsItsLock, At
    <3>3. CASE LockOf(command[c].kind) # l
      BY <1>1, <2>2, <3>1, <3>3 DEF HoldsItsLock, At
    <3> QED
      BY <3>2, <3>3
  <2>5. LocksHeld'
    BY <1>1, <2>1, <2>2, <2>4 DEF LockInv, LocksHeld, Stale, Alive
  <2>6. Typed'
    BY <1>1, <2>1, LockFacts DEF LockInv, Typed
  <2> QED
    BY <1>1, <2>5, <2>6 DEF LockInv, KindsFit, KindFits, Alive
<1> QED
  BY <1>2, <1>3

-----------------------------------------------------------------------------
(* What is there.                                                          *)

\* A database content that holds nothing but accepted consultations.
Known == {held \in Content : held.rows \subseteq accepted}

Contents ==
  /\ accepted \subseteq Records /\ exposed \subseteq accepted
  /\ file \in Known
  /\ \A c \in Commands : command[c].copy \in Known
  /\ \A b \in Backups : backup[b].holds \in Known
  /\ \A c \in Commands : aside[c].quarantine.holds \in Known /\ aside[c].failed.holds \in Known

LEMMA EmptyKnown == Empty \in Known
  BY EmptyType DEF Known, Empty

LEMMA MigrationFacts ==
  ASSUME file \in Content, NEW r \in Releases, RunMigrations(r)
  PROVE  file' \in Content /\ file'.rows = file.rows /\ file'.schema = SchemaOf[r] /\ SchemaOf[r] # 0
<1>1. SchemaOf[r] \in Nat \ {0}
  OBVIOUS
<1> DEFINE brought == [file EXCEPT !.schema = SchemaOf[r]]
<1>2. brought \in Content /\ brought.rows = file.rows /\ brought.schema = SchemaOf[r]
  BY <1>1 DEF Content
<1>3. file' = brought
  BY DEF RunMigrations
<1> QED
  BY <1>1, <1>2, <1>3

\* What starting the services, whether that works, does to them.
LEMMA StartFacts ==
  ASSUME Data, NEW b \in BOOLEAN, StartFails(b) \/ StartWorks(b)
  PROVE  /\ services' \in Services /\ file' \in Content /\ file'.rows = file.rows
         /\ \/ services' = services /\ file' = file
            \/ /\ current \in Releases /\ services' = Started(b) /\ file'.schema = SchemaOf[current]
               /\ RunMigrations(current) /\ services'.byRelease = b /\ ~services'.orphaned
<1>1. CASE StartWorks(b)
  <2>1. current \in Releases /\ RunMigrations(current) /\ services' = Started(b) /\ file \in Content
    BY <1>1 DEF StartWorks, Data
  <2>2. file' \in Content /\ file'.rows = file.rows /\ file'.schema = SchemaOf[current]
    BY <2>1, MigrationFacts
  <2> DEFINE s == Started(b)
  <2>3. s \in Services /\ s.byRelease = b /\ ~s.orphaned
    BY <2>1 DEF Started, Services
  <2> QED
    BY <2>1, <2>2, <2>3
<1>2. CASE UNCHANGED <<services, file>>
  BY <1>2 DEF Data
<1> QED
  BY <1>1, <1>2 DEF StartFails

LEMMA DownType == Down \in Services /\ ~Down.up /\ ~Down.byRelease /\ ~Down.orphaned
  BY DEF Down, Services

\* A release operation: what it may do to the services, the database and the rest.
LEMMA ReleaseEffects ==
  ASSUME LockInv, Data, NEW c \in Commands, ReleaseStep(c)
  PROVE  /\ services' \in Services /\ current' \in Releases \cup {None} /\ file' \in Content
         /\ release' \in [Releases -> {"absent", "partial", "sealed"}]
         /\ file'.rows = file.rows
         /\ services' = services \/ (services'.byRelease /\ ~services'.orphaned)
<1> DEFINE Goal ==
         /\ services' \in Services /\ current' \in Releases \cup {None} /\ file' \in Content
         /\ release' \in [Releases -> {"absent", "partial", "sealed"}]
         /\ file'.rows = file.rows
         /\ services' = services \/ (services'.byRelease /\ ~services'.orphaned)
           What == {"absent", "partial", "sealed"}
<1>1. /\ services \in Services /\ current \in Releases \cup {None} /\ file \in Content
      /\ release \in [Releases -> What] /\ command \in [Commands -> Command]
      /\ command[c].previous \in Releases \cup {None}
  BY DEF Data, LockInv, Typed, Command
<1>2. command[c].step \in ReleaseSteps => Dest(c) \in Releases
  BY DEF LockInv, KindsFit, KindFits, Dest
<1>3. \A r \in Releases, what \in What : Set(r, what) => release' \in [Releases -> What]
  BY <1>1 DEF Set
<1>4. \A r \in Releases : RunMigrations(r) => file' \in Content /\ file'.rows = file.rows
  BY <1>1, MigrationFacts
<1>5. StartWorks(TRUE) \/ StartFails(TRUE) =>
        /\ services' \in Services /\ file' \in Content /\ file'.rows = file.rows
        /\ services' = services \/ (services'.byRelease /\ ~services'.orphaned)
  BY StartFacts
<1>6. ASSUME Copy(c) \/ Seal(c) \/ Clean(c) PROVE Goal
  BY <1>1, <1>2, <1>3, <1>6 DEF Copy, Seal, Clean, At, ReleaseSteps
<1>7. ASSUME Build(c) \/ Verify(c) \/ Health(c) PROVE Goal
  BY <1>1, <1>7 DEF Build, Verify, Health
<1>8. ASSUME Migrate(c) \/ Canary(c) PROVE Goal
  BY <1>1, <1>2, <1>4, <1>8 DEF Migrate, Canary, At, ReleaseSteps
<1>9. ASSUME Switch(c) \/ Revert(c) PROVE Goal
  BY <1>1, <1>2, <1>9 DEF Switch, Revert, At, ReleaseSteps
<1>10. ASSUME Restart(c) \/ Recover(c) PROVE Goal
  BY <1>1, <1>5, <1>10 DEF Restart, Recover
<1>11. CASE Prune(c)
  BY <1>1, <1>11 DEF Prune
<1> QED
  BY <1>6, <1>7, <1>8, <1>9, <1>10, <1>11 DEF ReleaseStep

LEMMA ReleaseKeepsContents ==
  ASSUME LockInv, Data, Contents, NEW c \in Commands, ReleaseStep(c), UNCHANGED dbVars, kills' = kills
  PROVE  Data' /\ Contents'
<1>1. /\ services' \in Services /\ current' \in Releases \cup {None} /\ file' \in Content
      /\ release' \in [Releases -> {"absent", "partial", "sealed"}] /\ file'.rows = file.rows
  BY ReleaseEffects
<1>2. /\ UNCHANGED <<accepted, exposed, backup, aside>> /\ Known' = Known
  BY DEF dbVars, Known
<1>3. command'[c].copy \in {command[c].copy, Empty} /\ \A d \in Commands \ {c} : command'[d] = command[d]
  BY ReleaseMoves DEF LockInv, Data, Moves
<1>4. file' \in Known
  BY <1>1 DEF Contents, Known
<1>5. \A d \in Commands : command'[d].copy \in Known
  BY <1>3, EmptyKnown DEF Contents
<1> QED
  BY <1>1, <1>2, <1>4, <1>5 DEF Data, Contents

\* A backup or a restore moves contents about; it makes none up.
LEMMA DatabaseKeepsContents ==
  ASSUME LockInv, Data, Contents, NEW c \in Commands, DatabaseStep(c), UNCHANGED <<release, kills>>
  PROVE  Data' /\ Contents'
<1> DEFINE Copies == \A d \in Commands : command'[d].copy \in Known
           Files == services' \in Services /\ file' \in Known
           Stored == backup' \in [Backups -> Backup] /\ \A b \in Backups : backup'[b].holds \in Known
           Asides == /\ aside' \in [Commands -> Aside]
                     /\ \A d \in Commands : /\ aside'[d].quarantine.holds \in Known
                                            /\ aside'[d].failed.holds \in Known
           Rest == UNCHANGED <<current, accepted, exposed>>
           Goal == Copies /\ Files /\ Stored /\ Asides /\ Rest
<1>1. /\ command \in [Commands -> Command] /\ services \in Services /\ file \in Content /\ file \in Known
      /\ \A d \in Commands : command[d].copy \in Known
  BY DEF LockInv, Typed, Data, Contents
<1>2. backup \in [Backups -> Backup] /\ \A b \in Backups : backup[b].holds \in Known
  BY DEF Data, Contents
<1>3. /\ aside \in [Commands -> Aside]
      /\ \A d \in Commands : aside[d].quarantine.holds \in Known /\ aside[d].failed.holds \in Known
  BY DEF Data, Contents
<1>4. command' = command => Copies
  BY <1>1
<1>5. \A step \in Steps : Go(c, step) => Copies
  BY <1>1, GoMoves DEF Moves, Steady
<1>6. Finish(c) => Copies
  BY <1>1, FinishMoves, EmptyKnown DEF Moves
<1>7. \A step \in Steps, held \in Known :
        command' = [command EXCEPT ![c].step = step, ![c].copy = held] => Copies
  <2> SUFFICES ASSUME NEW step \in Steps, NEW held \in Known,
                      command' = [command EXCEPT ![c].step = step, ![c].copy = held]
               PROVE  Copies
    OBVIOUS
  <2>1. held \in Content
    BY DEF Known
  <2>2. Moves(c, step) /\ command'[c].copy = held
    BY <1>1, <2>1, CopyMoves
  <2> QED
    BY <1>1, <2>2 DEF Moves
<1>8. UNCHANGED <<services, file>> => Files
  BY <1>1
<1>9. UNCHANGED backup => Stored
  BY <1>2
<1>10. UNCHANGED aside => Asides
  BY <1>3
<1>11. \A b \in Backups, artifact \in BOOLEAN, status \in BOOLEAN, held \in Known :
         Publish(b, [artifact |-> artifact, status |-> status, holds |-> held]) => Stored
  <2> SUFFICES ASSUME NEW b \in Backups, NEW artifact \in BOOLEAN, NEW status \in BOOLEAN, NEW held \in Known,
                      Publish(b, [artifact |-> artifact, status |-> status, holds |-> held])
               PROVE  Stored
    OBVIOUS
  <2> DEFINE part == [artifact |-> artifact, status |-> status, holds |-> held]
  <2>1. part \in Backup /\ part.holds \in Known
    BY DEF Backup, Known
  <2> HIDE DEF part
  <2>2. backup' = [backup EXCEPT ![b] = part]
    BY DEF Publish, part
  <2> QED
    BY <1>2, <2>1, <2>2
<1>12. \A b \in Backups : Publish(b, Nothing) \/ Publish(b, [Nothing EXCEPT !.status = TRUE]) => Stored
  <2> DEFINE half == [Nothing EXCEPT !.status = TRUE]
  <2>1. Nothing \in Backup /\ Nothing.holds \in Known
    BY EmptyType, EmptyKnown DEF Nothing, Backup
  <2>2. half \in Backup /\ half.holds \in Known
    BY <2>1 DEF Backup
  <2>3. \A b \in Backups : Publish(b, half) => backup' = [backup EXCEPT ![b] = half]
    BY DEF Publish
  <2>4. \A b \in Backups : Publish(b, Nothing) => backup' = [backup EXCEPT ![b] = Nothing]
    BY DEF Publish
  <2> HIDE DEF half
  <2>5. \A b \in Backups : Publish(b, Nothing) \/ Publish(b, half) => Stored
    BY <1>2, <2>1, <2>2, <2>3, <2>4
  <2> QED
    BY <2>5 DEF half
<1>13. \A b \in Backups : Publish(b, [backup[b] EXCEPT !.status = TRUE]) => Stored
  <2> SUFFICES ASSUME NEW b \in Backups, Publish(b, [backup[b] EXCEPT !.status = TRUE]) PROVE Stored
    OBVIOUS
  <2> DEFINE part == [backup[b] EXCEPT !.status = TRUE]
  <2>1. part \in Backup /\ part.holds \in Known
    BY <1>2 DEF Backup
  <2>2. backup' = [backup EXCEPT ![b] = part]
    BY DEF Publish
  <2> HIDE DEF part
  <2> QED
    BY <1>2, <2>1, <2>2
<1>14. StartWorks(FALSE) \/ StartFails(FALSE) => Files
  BY <1>1, StartFacts DEF Known
<1>15. ASSUME NEW what \in Aside, what.quarantine.holds \in Known, what.failed.holds \in Known, PutAside(c, what)
       PROVE  Asides
  BY <1>3, <1>15 DEF PutAside
<1>16. /\ Steps = {"new", "naming", "ended", "unlock"} \cup ReleaseSteps \cup DatabaseSteps
       /\ \A d \in Commands : command[d].copy \in Known
       /\ c \in Backups /\ Day \in Backups
  BY <1>1 DEF Steps, WorkSteps, Backups
<1> HIDE DEF Copies, Files, Stored, Asides
<1>17. ASSUME Snapshot(c) PROVE Goal
  BY <1>1, <1>6, <1>7, <1>8, <1>9, <1>10, <1>16, <1>17 DEF Snapshot, DatabaseSteps, dbVars
<1>18. \A step, next \in DatabaseSteps, b \in Backups : PublishArtifact(c, step, b, next) => Goal
  <2> SUFFICES ASSUME NEW step \in DatabaseSteps, NEW next \in DatabaseSteps, NEW b \in Backups,
                      PublishArtifact(c, step, b, next)
               PROVE  Goal
    OBVIOUS
  <2>1. Copies
    BY <1>5, <1>6, <1>16 DEF PublishArtifact
  <2>2. Stored
    BY <1>9, <1>11, <1>16 DEF PublishArtifact
  <2> QED
    BY <1>8, <1>10, <2>1, <2>2 DEF PublishArtifact
<1>19. \A step, next \in DatabaseSteps, b \in Backups : PublishStatus(c, step, b, next) => Goal
  <2> SUFFICES ASSUME NEW step \in DatabaseSteps, NEW next \in DatabaseSteps, NEW b \in Backups,
                      PublishStatus(c, step, b, next)
               PROVE  Goal
    OBVIOUS
  <2>1. Copies
    BY <1>5, <1>6, <1>16 DEF PublishStatus
  <2>2. Stored
    BY <1>12, <1>13, <1>16 DEF PublishStatus
  <2> QED
    BY <1>8, <1>10, <2>1, <2>2 DEF PublishStatus
<1>20. ASSUME Hourly(c) \/ HourlyStatus(c) \/ DailyStatus(c) PROVE Goal
  BY <1>16, <1>18, <1>19, <1>20 DEF Hourly, HourlyStatus, DailyStatus, DatabaseSteps
<1>21. ASSUME Daily(c) PROVE Goal
  <2>1. CASE PublishArtifact(c, "daily", Day, "dailyStatus")
    BY <1>16, <1>18, <2>1 DEF DatabaseSteps
  <2>2. CASE /\ IF Pair(Day) THEN Go(c, "retain") ELSE Finish(c)
             /\ UNCHANGED <<services, current, file>> /\ UNCHANGED dbVars
    BY <1>5, <1>6, <1>8, <1>9, <1>10, <1>16, <2>2 DEF DatabaseSteps, dbVars
  <2> QED
    BY <1>21, <2>1, <2>2 DEF Daily
<1>22. ASSUME Retain(c) PROVE Goal
  <2>1. Copies
    BY <1>4, <1>6, <1>22 DEF Retain
  <2>2. Stored
    BY <1>9, <1>12, <1>22 DEF Retain, Surplus, Backups
  <2> QED
    BY <1>8, <1>10, <1>22, <2>1, <2>2 DEF Retain
<1>23. ASSUME AssertStopped(c) PROVE Goal
  BY <1>5, <1>6, <1>8, <1>9, <1>10, <1>16, <1>23 DEF AssertStopped, DatabaseSteps, dbVars
<1>24. ASSUME Stop(c) PROVE Goal
  <2>1. Files
    BY <1>1, <1>24, DownType DEF Stop, Files
  <2> QED
    BY <1>5, <1>9, <1>10, <1>16, <1>24, <2>1 DEF Stop, DatabaseSteps, dbVars
<1>25. ASSUME Load(c) PROVE Goal
  <2>1. command[c].arg \in Backups
    BY <1>25 DEF Load, At, RestoreSteps, LockInv, KindsFit, KindFits
  <2>2. Copies
    BY <1>2, <1>5, <1>7, <1>16, <1>25, <2>1 DEF Load, DatabaseSteps
  <2> QED
    BY <1>8, <1>9, <1>10, <1>25, <2>2 DEF Load, dbVars
<1>26. ASSUME QuarantineFile(c) PROVE Goal
  <2> DEFINE what == [aside[c] EXCEPT !.quarantine = CopyOf(file)]
  <2>1. what \in Aside /\ what.quarantine.holds \in Known /\ what.failed.holds \in Known
    BY <1>1, <1>3 DEF Aside, CopyOf
  <2> HIDE DEF what
  <2>2. PutAside(c, what) => Asides
    BY <1>15, <2>1
  <2>3. Asides
    BY <1>10, <1>26, <2>2 DEF QuarantineFile, what
  <2> QED
    BY <1>5, <1>8, <1>9, <1>16, <1>26, <2>3 DEF QuarantineFile, DatabaseSteps
<1>27. \A held \in Known : Renamed(held) => Files
  BY <1>1 DEF Renamed, Services, Files
<1>28. ASSUME Replace(c) PROVE Goal
  <2>1. Files
    BY <1>1, <1>8, <1>27, <1>28 DEF Replace
  <2> QED
    BY <1>5, <1>9, <1>10, <1>16, <1>28, <2>1 DEF Replace, DatabaseSteps
<1>29. ASSUME Start(c) PROVE Goal
  BY <1>5, <1>6, <1>9, <1>10, <1>14, <1>16, <1>29 DEF Start, DatabaseSteps, dbVars
<1>30. ASSUME Undo(c) PROVE Goal
  <2> DEFINE what == [aside[c] EXCEPT !.failed = CopyOf(file)]
  <2>1. what \in Aside /\ what.quarantine.holds \in Known /\ what.failed.holds \in Known
    BY <1>1, <1>3 DEF Aside, CopyOf
  <2> HIDE DEF what
  <2>2. PutAside(c, what) => Asides
    BY <1>15, <2>1
  <2>3. Asides
    BY <1>10, <1>30, <2>2 DEF Undo, what
  <2>4. Files
    BY <1>1, <1>30, DownType DEF Undo, Files
  <2> QED
    BY <1>5, <1>6, <1>9, <1>16, <1>30, <2>3, <2>4 DEF Undo, DatabaseSteps
<1>31. ASSUME PutBack(c) PROVE Goal
  <2> DEFINE what == [aside[c] EXCEPT !.quarantine = NoCopy]
  <2>1. what \in Aside /\ what.quarantine.holds \in Known /\ what.failed.holds \in Known
    BY <1>3, EmptyType, EmptyKnown DEF Aside, NoCopy
  <2> HIDE DEF what
  <2>2. PutAside(c, what) => Asides
    BY <1>15, <2>1
  <2>3. Asides
    BY <1>10, <1>31, <2>2 DEF PutBack, what
  <2>4. Files
    BY <1>3, <1>8, <1>27, <1>31 DEF PutBack
  <2> QED
    BY <1>5, <1>6, <1>9, <1>16, <1>31, <2>3, <2>4 DEF PutBack, DatabaseSteps
<1>32. ASSUME StartBack(c) PROVE Goal
  BY <1>6, <1>9, <1>10, <1>14, <1>32 DEF StartBack, dbVars
<1>33. Goal
  BY <1>17, <1>20, <1>21, <1>22, <1>23, <1>24, <1>25, <1>26, <1>28, <1>29, <1>30, <1>31, <1>32 DEF DatabaseStep
<1>34. Known' = Known
  BY <1>33 DEF Known
<1> QED
  BY <1>33, <1>34 DEF Data, Contents, Copies, Files, Stored, Asides, Known

Base == LockInv /\ Data /\ Contents

LEMMA BaseInit == Init => Base
<1> SUFFICES ASSUME Init PROVE Base
  OBVIOUS
<1>1. /\ command = [c \in Commands |-> New] /\ lock = [l \in Locks |-> Free] /\ moving = {}
      /\ accepted = {} /\ exposed = {} /\ backup = [b \in Backups |-> Nothing]
      /\ aside = [c \in Commands |-> [quarantine |-> NoCopy, failed |-> NoCopy]] /\ kills = 0
  BY DEF Init, InitLock, InitDatabase
<1>2. Typed
  BY <1>1, EmptyType, LockFacts DEF Typed
<1>3. New.step = "new"
  BY DEF New
<1>4. "new" \notin ReleaseSteps \cup BackupSteps \cup RestoreSteps \cup WorkSteps \cup {"naming"}
  BY DEF ReleaseSteps, BackupSteps, RestoreSteps, WorkSteps, DatabaseSteps
<1>5. KindsFit
  BY <1>1, <1>3, <1>4 DEF KindsFit, KindFits, Alive
<1>6. LocksHeld
  BY <1>1, <1>3, <1>4 DEF LocksHeld, HoldsItsLock, At
<1>7. NoCopy \in [here : BOOLEAN, holds : Content] /\ NoCopy.holds = Empty /\ Nothing \in Backup
      /\ Nothing.holds = Empty /\ [quarantine |-> NoCopy, failed |-> NoCopy] \in Aside
  BY EmptyType DEF NoCopy, Nothing, Backup, Aside
<1>8. services \in Services /\ current \in Releases \cup {None} /\ file \in Content
      /\ release \in [Releases -> {"absent", "partial", "sealed"}] /\ file.rows = {}
  <2>1. CASE /\ release = [r \in Releases |-> "absent"]
             /\ current = None /\ services = Down /\ file = Empty
    BY <2>1, DownType, EmptyType DEF Empty
  <2>2. CASE /\ release = [r \in Releases |-> IF r = 1 THEN "sealed" ELSE "absent"]
             /\ current = 1 /\ file = [Empty EXCEPT !.schema = SchemaOf[1]]
             /\ services = [up |-> TRUE, running |-> 1, byRelease |-> FALSE, orphaned |-> FALSE]
    <3>1. 1 \in Releases
      BY DEF Releases
    <3> QED
      BY <2>2, <3>1, EmptyType DEF Services, Content, Empty
  <2> QED
    BY <2>1, <2>2 DEF Init
<1>9. Data
  BY <1>1, <1>7, <1>8 DEF Data
<1>10. Contents
  BY <1>1, <1>7, <1>8, EmptyKnown, EmptyType DEF Contents, Known
<1> QED
  BY <1>2, <1>5, <1>6, <1>9, <1>10 DEF Base, LockInv

LEMMA OthersKeepBase ==
  ASSUME Base, UNCHANGED <<command, lock, moving, release, current>>, kills' \in Nat,
         services' \in Services, file' \in Content, accepted \subseteq accepted',
         accepted' \subseteq Records, exposed' \subseteq accepted', file'.rows \subseteq accepted',
         backup' \in [Backups -> Backup], \A b \in Backups : backup'[b].holds \in {backup[b].holds, Empty},
         aside' = aside
  PROVE  Base'
<1>1. LockInv'
  BY DEF Base, LockInv, Typed, KindsFit, KindFits, LocksHeld, HoldsItsLock, Stale, Alive, At
<1>2. Data'
  BY DEF Base, Data
<1>3. Known \subseteq Known'
  BY DEF Known
<1>4. \A b \in Backups : backup[b].holds \in Known /\ Empty \in Known
  BY EmptyKnown DEF Base, Contents
<1>5. \A b \in Backups : backup'[b].holds \in Known'
  BY <1>3, <1>4
<1>6. file' \in Known'
  BY DEF Known
<1>7. Contents'
  BY <1>3, <1>5, <1>6 DEF Base, Contents
<1> QED
  BY <1>1, <1>2, <1>7 DEF Base

LEMMA BaseStep == Base /\ [Next]_vars => Base'
<1> SUFFICES ASSUME Base, [Next]_vars PROVE Base'
  OBVIOUS
<1>1. LockInv /\ Data /\ Contents /\ command \in [Commands -> Command]
  BY DEF Base, LockInv, Typed
<1>2. ASSUME LockInv', UNCHANGED <<services, current, release, file, accepted, exposed, backup, aside>>,
             kills' \in Nat, \A c \in Commands : command'[c].copy \in {command[c].copy, Empty}
      PROVE  Base'
  <2>1. Data'
    BY <1>1, <1>2 DEF Data
  <2>2. Known' = Known
    BY <1>2 DEF Known
  <2>3. Contents'
    BY <1>1, <1>2, <2>2, EmptyKnown DEF Contents
  <2> QED
    BY <1>2, <2>1, <2>3 DEF Base
<1>3. ASSUME NEW c \in Commands, LockStep(c) PROVE Base'
  <2>1. LockInv'
    BY <1>1, <1>3, NamingKeepsLocks DEF LockStep
  <2>2. \A d \in Commands : command'[d].copy \in {command[d].copy, Empty}
    <3>1. CASE command' = [command EXCEPT ![c] = Ended]
      BY <1>1, <3>1, EmptyType DEF Ended
    <3>2. CASE At(c, "naming") /\ Go(c, First(command[c].kind))
      <4> DEFINE step == First(command[c].kind)
      <4>1. Alive(c)
        BY <3>2 DEF At, Alive
      <4>2. step \in Steps
        BY <1>1, <4>1 DEF LockInv, KindsFit, KindFits, First, Kinds, Steps, WorkSteps, ReleaseSteps, DatabaseSteps
      <4>3. Moves(c, step) /\ Steady(c)
        BY <1>1, <3>2, <4>2, GoMoves
      <4> QED
        BY <4>3 DEF Moves, Steady
    <3> QED
      BY <1>3, <3>1, <3>2 DEF LockStep, NameOwner, Unlock
  <2> QED
    BY <1>1, <1>2, <1>3, <2>1, <2>2 DEF LockStep, dbVars, Data
<1>4. ASSUME NEW c \in Commands, Killed(c) PROVE Base'
  <2>1. LockInv'
    <3>1. command' = [command EXCEPT ![c] = Ended] /\ lock' = lock /\ moving' = moving
      BY <1>4 DEF Killed, Kill
    <3> QED
      BY <1>1, <3>1, EndKeepsLocks
  <2>2. \A d \in Commands : command'[d].copy \in {command[d].copy, Empty}
    BY <1>1, <1>4, EmptyType DEF Killed, Kill, Ended
  <2> QED
    BY <1>1, <1>2, <1>4, <2>1, <2>2 DEF Killed, dbVars, Data
<1>5. \A c \in Commands, kind \in Kinds, arg \in Nat :
        Begin(c, kind, arg) => \A d \in Commands : command'[d].copy \in {command[d].copy, Empty}
  <2> SUFFICES ASSUME NEW c \in Commands, NEW kind \in Kinds, NEW arg \in Nat, Begin(c, kind, arg)
               PROVE  \A d \in Commands : command'[d].copy \in {command[d].copy, Empty}
    OBVIOUS
  <2> DEFINE begun == [New EXCEPT !.kind = kind, !.step = "naming", !.arg = arg]
  <2>1. begun.copy = Empty /\ Ended.copy = Empty
    BY DEF New, Ended
  <2>2. command' = [command EXCEPT ![c] = begun] \/ command' = [command EXCEPT ![c] = Ended]
    BY DEF Begin
  <2> HIDE DEF begun
  <2> QED
    BY <1>1, <2>1, <2>2
<1>6. ASSUME NEW c \in Commands, Release(c) PROVE Base'
  <2>1. CASE BeginRelease(c)
    <3>1. PICK kind \in {"deploy", "rollback"}, r \in Releases :
             Begin(c, kind, r) /\ UNCHANGED <<release, current, services, file>>
      BY <2>1 DEF BeginRelease
    <3>2. kind \in Kinds /\ r \in Nat
      BY DEF Kinds, Releases
    <3>3. LockInv'
      BY <1>1, <3>1, <3>2, BeginKeepsLocks
    <3> QED
      BY <1>1, <1>2, <1>5, <1>6, <3>1, <3>2, <3>3 DEF Release, dbVars, Data
  <2>2. CASE ReleaseStep(c) /\ UNCHANGED <<lock, moving>>
    BY <1>1, <1>6, <2>2, ReleaseKeepsLocks, ReleaseKeepsContents DEF Release, Base
  <2> QED
    BY <1>6, <2>1, <2>2 DEF Release
<1>7. ASSUME NEW c \in Commands, Database(c) PROVE Base'
  <2>1. CASE BeginDatabase(c)
    <3>1. PICK kind \in {"backup", "restore"}, b \in Backups : Begin(c, kind, b)
      BY <2>1 DEF BeginDatabase
    <3>2. kind \in Kinds /\ b \in Nat
      BY DEF Kinds, Backups, Commands, Day
    <3>3. LockInv'
      BY <1>1, <3>1, <3>2, BeginKeepsLocks
    <3> QED
      BY <1>1, <1>2, <1>5, <1>7, <2>1, <3>1, <3>2, <3>3 DEF BeginDatabase, Database, dbVars, Data
  <2>2. CASE DatabaseStep(c) /\ UNCHANGED <<lock, moving>>
    BY <1>1, <1>7, <2>2, DatabaseKeepsLocks, DatabaseKeepsContents DEF Database, Base
  <2> QED
    BY <1>7, <2>1, <2>2 DEF Database
<1>8. ASSUME NEW l \in Locks, RecoverLock(l) PROVE Base'
  <2>1. LockInv' /\ command' = command
    BY <1>1, <1>8, RecoveryKeepsLocks DEF RecoverLock, Inspect, Quarantine
  <2> QED
    BY <1>1, <1>2, <1>8, <2>1 DEF RecoverLock, dbVars, Data
<1>9. CASE Operator
  <2>1. services' \in Services /\ file' \in Content /\ file'.rows = file.rows
    BY <1>1, <1>9, StartFacts, DownType DEF Operator, OperatorStops, OperatorStarts, Data
  <2> QED
    BY <1>1, <1>9, <2>1, OthersKeepBase DEF Operator, lockVars, dbVars, Data, Contents, Known
<1>10. CASE Portal
  <2>1. PICK r \in Records : Accept(r) /\ UNCHANGED <<release, kills>>
    BY <1>10 DEF Portal
  <2> DEFINE filled == [file EXCEPT !.rows = file.rows \cup {r}]
  <2>2. file \in Content /\ file.rows \subseteq accepted /\ accepted \subseteq Records
    BY <1>1 DEF Data, Contents, Known
  <2>3. filled \in Content /\ filled.rows = file.rows \cup {r}
    BY <2>2 DEF Content
  <2>4. file' = file \/ file' = filled
    BY <2>1 DEF Accept
  <2>5. file' \in Content /\ file'.rows \subseteq file.rows \cup {r}
    BY <2>2, <2>3, <2>4
  <2> QED
    BY <1>1, <2>1, <2>2, <2>5, OthersKeepBase DEF Accept, Data, Contents
<1>11. CASE Calendar
  <2>1. Nothing \in Backup /\ Nothing.holds = Empty
    BY EmptyType DEF Nothing, Backup
  <2>2. backup' \in [Backups -> Backup] /\ \A b \in Backups : backup'[b].holds \in {backup[b].holds, Empty}
    BY <1>1, <1>11, <2>1 DEF Calendar, NextDay, Data
  <2> QED
    BY <1>1, <1>11, <2>2, OthersKeepBase DEF Calendar, NextDay, Data, Contents, Known
<1>12. CASE UNCHANGED vars
  BY <1>1, <1>12, OthersKeepBase DEF vars, Data, Contents, Known
<1> QED
  BY <1>3, <1>4, <1>6, <1>7, <1>8, <1>9, <1>10, <1>11, <1>12 DEF Next

\* The state has its type; and however commands run, die and have their locks
\* recovered, one at work holds the lock of its kind.
THEOREM TypeCorrect == Spec => []TypeOK
<1>1. Base => TypeOK
  BY DEF Base, LockInv, Typed, LocksHeld, Data, Contents, Known, TypeOK
<1> QED
  BY <1>1, BaseInit, BaseStep, PTL DEF Spec

-----------------------------------------------------------------------------
(* Whose step it is.                                                       *)

\* The steps a command does not begin at.
Inner == (ReleaseSteps \cup DatabaseSteps) \ {"copy", "verify", "snapshot", "assert"}

\* A command that is at one of these steps was there before, with all it has.
Quiet(S) == \A d \in Commands : command'[d].step \in S => command'[d] = command[d]

LEMMA StepSets == /\ ReleaseSteps \cap DatabaseSteps = {} /\ "unlock" \notin ReleaseSteps \cup DatabaseSteps
                  /\ DatabaseSteps = BackupSteps \cup RestoreSteps /\ BackupSteps \cap RestoreSteps = {}
                  /\ ReleaseSteps \subseteq WorkSteps /\ DatabaseSteps \subseteq WorkSteps
                  /\ {"new", "naming", "ended"} \cap WorkSteps = {}
  BY DEF ReleaseSteps, DatabaseSteps, BackupSteps, RestoreSteps, WorkSteps

\* No two commands work on the releases, or on the database, at the same time.
LEMMA Alone ==
  ASSUME LockInv, NEW c \in Commands, NEW d \in Commands,
         \/ command[c].step \in ReleaseSteps /\ command[d].step \in ReleaseSteps
         \/ command[c].step \in RestoreSteps /\ command[d].step \in RestoreSteps
  PROVE  c = d
<1>1. LockOf(command[c].kind) = LockOf(command[d].kind)
  BY DEF LockInv, KindsFit, KindFits, LockOf
<1>2. lock[LockOf(command[c].kind)] = [by |-> c, named |-> TRUE]
      /\ lock[LockOf(command[d].kind)] = [by |-> d, named |-> TRUE]
  BY StepSets DEF LockInv, LocksHeld, HoldsItsLock
<1> QED
  BY <1>1, <1>2

\* A step of a release operation, a step of a backup or a restore, the
\* operator, the portal, or one that leaves commands at work as they are.
Beginnings == {"new", "naming", "assert"}
Calm == Quiet(Inner) /\ \A d \in Commands : command'[d].step \in Beginnings => command[d].step \in Beginnings
Elsewhere == /\ Calm
             /\ UNCHANGED <<current, release, services, file, accepted, exposed, aside>>

LEMMA StepCases ==
  ASSUME Base, [Next]_vars
  PROVE  \/ \E c \in Commands : /\ ReleaseStep(c) /\ UNCHANGED <<lock, moving>> /\ UNCHANGED dbVars
                                /\ Quiet(DatabaseSteps)
         \/ \E c \in Commands : /\ DatabaseStep(c) /\ UNCHANGED <<lock, moving>> /\ UNCHANGED release
                                /\ Quiet(ReleaseSteps)
         \/ (Operator \/ Portal) /\ UNCHANGED <<command, release, current>>
         \/ Elsewhere
<1>1. LockInv /\ Data /\ command \in [Commands -> Command] /\ Typed
  BY DEF Base, LockInv, Typed
<1>2. ASSUME NEW c \in Commands, command' = [command EXCEPT ![c] = Ended] PROVE Calm
  BY <1>1, <1>2 DEF Calm, Beginnings, Quiet, Inner, Ended, New, ReleaseSteps, DatabaseSteps
<1>3. command' = command => Calm
  BY DEF Calm, Quiet
<1>4. ASSUME NEW c \in Commands, LockStep(c) PROVE Elsewhere
  <2>1. CASE command' = [command EXCEPT ![c] = Ended]
    BY <1>2, <1>4, <2>1 DEF LockStep, Elsewhere, dbVars
  <2>2. CASE At(c, "naming") /\ Go(c, First(command[c].kind))
    <3> DEFINE step == First(command[c].kind)
    <3>1. Alive(c)
      BY <2>2 DEF At, Alive
    <3>2. step \in {"copy", "verify", "snapshot", "assert"}
      BY <1>1, <3>1 DEF LockInv, KindsFit, KindFits, First, Kinds
    <3>3. step \in Steps
      BY <3>2 DEF Steps, WorkSteps, ReleaseSteps, DatabaseSteps
    <3>4. Moves(c, step)
      BY <1>1, <2>2, <3>3, GoMoves
    <3>5. Calm
      BY <2>2, <3>2, <3>4 DEF Calm, Beginnings, Quiet, Moves, Inner, At
    <3> QED
      BY <1>4, <3>5 DEF LockStep, Elsewhere, dbVars
  <2> QED
    BY <1>4, <2>1, <2>2 DEF LockStep, NameOwner, Unlock
<1>5. ASSUME NEW c \in Commands, Killed(c) PROVE Elsewhere
  BY <1>2, <1>5 DEF Killed, Kill, Elsewhere, dbVars
<1>6. ASSUME NEW c \in Commands, NEW kind, NEW arg, Begin(c, kind, arg) PROVE Calm
  <2> DEFINE begun == [New EXCEPT !.kind = kind, !.step = "naming", !.arg = arg]
  <2>1. begun.step = "naming" /\ "naming" \notin Inner
    BY DEF New, Inner, ReleaseSteps, DatabaseSteps
  <2>2. command' = [command EXCEPT ![c] = begun] \/ command' = [command EXCEPT ![c] = Ended]
    BY <1>6 DEF Begin
  <2> HIDE DEF begun
  <2>3. CASE command' = [command EXCEPT ![c] = begun]
    BY <1>1, <1>6, <2>1, <2>3 DEF Calm, Beginnings, Quiet, Begin, New
  <2> QED
    BY <1>2, <2>2, <2>3
<1>7. ASSUME NEW c \in Commands, Release(c)
      PROVE  Elsewhere \/ (ReleaseStep(c) /\ UNCHANGED <<lock, moving>> /\ UNCHANGED dbVars /\ Quiet(DatabaseSteps))
  <2>1. CASE BeginRelease(c)
    BY <1>6, <1>7, <2>1 DEF BeginRelease, Release, dbVars, Elsewhere
  <2>2. CASE ReleaseStep(c) /\ UNCHANGED <<lock, moving>>
    <3>1. \E step \in ReleaseSteps \cup {"unlock"} : Moves(c, step)
      BY <1>1, <2>2, ReleaseMoves DEF Data
    <3>2. Quiet(DatabaseSteps)
      BY <3>1, StepSets DEF Quiet, Moves
    <3> QED
      BY <1>7, <2>2, <3>2 DEF Release
  <2> QED
    BY <1>7, <2>1, <2>2 DEF Release
<1>8. ASSUME NEW c \in Commands, Database(c)
      PROVE  Elsewhere \/ (DatabaseStep(c) /\ UNCHANGED <<lock, moving>> /\ UNCHANGED release /\ Quiet(ReleaseSteps))
  <2>1. CASE BeginDatabase(c)
    BY <1>6, <1>8, <2>1 DEF BeginDatabase, Database, dbVars, Elsewhere
  <2>2. CASE DatabaseStep(c) /\ UNCHANGED <<lock, moving>>
    <3>1. command[c].step \in RestoreSteps => command[c].arg \in Backups
      BY <1>1 DEF LockInv, KindsFit, KindFits
    <3>2. \E step \in BackupSteps \cup RestoreSteps \cup {"unlock"} : Moves(c, step)
      BY <1>1, <2>2, <3>1, DatabaseMoves DEF Data
    <3>3. Quiet(ReleaseSteps)
      BY <3>2, StepSets DEF Quiet, Moves
    <3> QED
      BY <1>8, <2>2, <3>3 DEF Database
  <2> QED
    BY <1>8, <2>1, <2>2 DEF Database
<1>9. ASSUME NEW l \in Locks, RecoverLock(l) PROVE Elsewhere
  BY <1>3, <1>9 DEF RecoverLock, Inspect, Quarantine, Elsewhere, dbVars
<1>10. ASSUME Operator \/ Portal PROVE UNCHANGED <<command, release, current>>
  BY <1>10 DEF Operator, Portal, Accept, lockVars
<1>11. ASSUME Calendar \/ UNCHANGED vars PROVE Elsewhere
  BY <1>3, <1>11 DEF Calendar, NextDay, vars, Elsewhere
<1> QED
  BY <1>4, <1>5, <1>7, <1>8, <1>9, <1>10, <1>11 DEF Next

-----------------------------------------------------------------------------
(* The pointer.                                                            *)

\* From its canary on a release is verified; from the rename on, it is current.
Pointing ==
  /\ Usable(current)
  /\ \A c \in Commands :
       /\ command[c].step \in {"canary", "switch"} => Verified(Dest(c))
       /\ command[c].step \in {"restart", "health", "prune"} => current = Dest(c) /\ Verified(Dest(c))

\* Only the one release operation at work seals, removes or switches.
LEMMA PointingStep == Base /\ Pointing /\ [Next]_vars => Pointing'
<1> SUFFICES ASSUME Base, Pointing, [Next]_vars PROVE Pointing'
  OBVIOUS
<1> DEFINE Critical == {"canary", "switch", "restart", "health", "prune"}
<1>1. LockInv /\ Data /\ Typed /\ command \in [Commands -> Command]
      /\ release \in [Releases -> {"absent", "partial", "sealed"}] /\ current \in Releases \cup {None}
      /\ None \notin Releases
  BY DEF Base, LockInv, Typed, Data, None, Releases
<1>2. Critical \subseteq ReleaseSteps /\ Critical \subseteq Inner
  BY DEF ReleaseSteps, Inner
<1>3. ASSUME UNCHANGED <<release, current>>, Quiet(Critical) PROVE Pointing'
  BY <1>3 DEF Pointing, Quiet, Usable, Verified, Dest
<1>4. ASSUME NEW c \in Commands, ReleaseStep(c), Usable(current)',
             /\ command'[c].step \in {"canary", "switch"} => Verified(Dest(c))'
             /\ command'[c].step \in {"restart", "health", "prune"} => (current = Dest(c) /\ Verified(Dest(c)))'
      PROVE  Pointing'
  <2>1. command[c].step \in ReleaseSteps /\ \A d \in Commands \ {c} : command'[d] = command[d]
    BY <1>1, <1>4, ReleaseMoves DEF Moves
  <2>2. \A d \in Commands \ {c} : command'[d].step \notin Critical
    BY <1>1, <1>2, <2>1, Alone
  <2> QED
    BY <1>4, <2>2 DEF Pointing
<1>5. ASSUME NEW c \in Commands, ReleaseStep(c) PROVE Pointing'
  <2>1. \A step \in ReleaseSteps : Go(c, step) => command'[c].step = step /\ Dest(c)' = Dest(c)
    BY <1>1, GoMoves DEF Moves, Steady, Dest, Steps, WorkSteps
  <2>2. Finish(c) => command'[c].step = "unlock"
    BY <1>1, FinishMoves DEF Moves
  <2>3. Dest(c) \in Releases /\ command[c].step \in ReleaseSteps
    BY <1>1, <1>5, ReleaseMoves DEF LockInv, KindsFit, KindFits, Dest
  <2>4. \A what : Set(Dest(c), what) =>
          release'[Dest(c)] = what /\ \A r \in Releases \ {Dest(c)} : release'[r] = release[r]
    BY <1>1, <2>3 DEF Set
  <2>5. Usable(current)
    BY DEF Pointing
  <2>6. ASSUME Copy(c) \/ Build(c) \/ Migrate(c) PROVE Pointing'
    <3>1. command'[c].step \in {"build", "unlock", "migrate", "clean", "seal"}
      BY <2>1, <2>2, <2>6 DEF Copy, Build, Migrate, ReleaseSteps
    <3>2. Usable(current)'
      <4>1. CASE release[Dest(c)] = "absent" /\ Set(Dest(c), "partial") /\ current' = current
        <5>1. current # Dest(c)
          BY <1>1, <2>3, <2>5, <4>1 DEF Usable, Verified
        <5> QED
          BY <1>1, <2>4, <2>5, <4>1, <5>1 DEF Usable, Verified
      <4>2. CASE UNCHANGED <<release, current>>
        BY <2>5, <4>2 DEF Usable, Verified
      <4> QED
        BY <2>6, <4>1, <4>2 DEF Copy, Build, Migrate
    <3> QED
      BY <1>4, <1>5, <3>1, <3>2
  <2>7. CASE Seal(c)
    <3>1. Usable(current)'
      BY <1>1, <2>3, <2>4, <2>5, <2>7 DEF Seal, Usable, Verified
    <3>2. \/ command'[c].step = "canary" /\ Verified(Dest(c))'
          \/ command'[c].step = "clean"
      BY <2>1, <2>3, <2>4, <2>7 DEF Seal, ReleaseSteps, Verified
    <3> QED
      BY <1>4, <1>5, <3>1, <3>2
  <2>8. CASE Verify(c)
    <3>1. Usable(current)'
      BY <2>5, <2>8 DEF Verify, Usable, Verified
    <3>2. \/ command'[c].step = "canary" /\ Verified(Dest(c))'
          \/ command'[c].step = "unlock"
      BY <2>1, <2>2, <2>8 DEF Verify, ReleaseSteps, Verified
    <3> QED
      BY <1>4, <1>5, <3>1, <3>2
  <2>9. CASE Canary(c)
    <3>1. Usable(current)'
      BY <2>5, <2>9 DEF Canary, Usable, Verified
    <3>2. Verified(Dest(c))
      BY <2>9 DEF Canary, At, Pointing
    <3>3. \/ command'[c].step = "switch" /\ Dest(c)' = Dest(c)
          \/ command'[c].step = "clean"
      <4>1. CASE command' = [command EXCEPT ![c].step = "switch", ![c].previous = current]
        <5>1. Moves(c, "switch") /\ command'[c].arg = command[c].arg
          BY <1>1, <4>1, RememberMoves DEF Steps, WorkSteps, ReleaseSteps
        <5> QED
          BY <5>1 DEF Moves, Dest
      <4>2. CASE Go(c, "clean")
        BY <2>1, <4>2 DEF ReleaseSteps
      <4> QED
        BY <2>9, <4>1, <4>2 DEF Canary
    <3> QED
      BY <1>4, <1>5, <2>9, <3>1, <3>2, <3>3 DEF Canary, Verified
  <2>10. CASE Switch(c)
    <3>1. Usable(current)'
      BY <2>3, <2>5, <2>10 DEF Switch, Usable, Verified
    <3>2. \/ /\ command'[c].step = "restart" /\ Dest(c)' = Dest(c) /\ current' = Dest(c)
             /\ Verified(Dest(c))
          \/ command'[c].step \in {"revert", "clean"}
      BY <2>1, <2>10 DEF Switch, ReleaseSteps
    <3> QED
      BY <1>4, <1>5, <2>10, <3>1, <3>2 DEF Switch, Verified
  <2>11. ASSUME Restart(c) \/ Health(c) PROVE Pointing'
    <3>1. Usable(current)'
      BY <2>5, <2>11 DEF Restart, Health, Usable, Verified
    <3>2. current = Dest(c) /\ Verified(Dest(c)) /\ UNCHANGED <<release, current>>
      BY <2>11 DEF Restart, Health, At, Pointing
    <3>3. \/ command'[c].step \in {"health", "prune"} /\ Dest(c)' = Dest(c)
          \/ command'[c].step \in {"revert", "unlock"}
      BY <2>1, <2>2, <2>11 DEF Restart, Health, ReleaseSteps
    <3> QED
      BY <1>4, <1>5, <3>1, <3>2, <3>3 DEF Verified
  <2>12. CASE Prune(c)
    <3>1. current = Dest(c) /\ Verified(Dest(c)) /\ current' = current
      BY <2>12 DEF Prune, At, Pointing
    <3>2. release'[Dest(c)] = release[Dest(c)]
      BY <2>3, <2>12 DEF Prune, Excess
    <3>3. command'[c].step = "unlock"
      BY <2>2, <2>12 DEF Prune
    <3> QED
      BY <1>4, <1>5, <3>1, <3>2, <3>3 DEF Usable, Verified
  <2>13. ASSUME Revert(c) \/ Recover(c) \/ Clean(c) PROVE Pointing'
    <3>1. Usable(current)'
      <4>1. CASE Removable(c) /\ current' = current
                 /\ \E left \in {"absent", "partial"} : Set(Dest(c), left)
        BY <1>1, <2>3, <2>4, <2>5, <4>1 DEF Removable, Usable, Verified
      <4>2. CASE release' = release /\ (current' = current \/ Usable(current'))
        BY <2>5, <4>2 DEF Usable, Verified
      <4>3. CASE Clean(c)
        BY <4>1, <4>2, <4>3 DEF Clean
      <4>4. CASE Revert(c)
        BY <4>2, <4>4 DEF Revert
      <4>5. CASE Recover(c)
        BY <4>2, <4>5 DEF Recover
      <4> QED
        BY <2>13, <4>3, <4>4, <4>5
    <3>2. command'[c].step \in {"recover", "clean", "unlock"}
      BY <2>1, <2>2, <2>13 DEF Revert, Recover, Clean, ReleaseSteps
    <3> QED
      BY <1>4, <1>5, <3>1, <3>2
  <2> QED
    BY <1>5, <2>6, <2>7, <2>8, <2>9, <2>10, <2>11, <2>12, <2>13 DEF ReleaseStep
<1>6. ASSUME NEW c \in Commands, DatabaseStep(c) PROVE current' = current
  BY <1>6 DEF DatabaseStep, Snapshot, Hourly, HourlyStatus, Daily, DailyStatus, PublishArtifact, PublishStatus,
     Retain, AssertStopped, Stop, Load, QuarantineFile, Replace, Start, Undo, PutBack, StartBack
<1>7. /\ Quiet(ReleaseSteps) \/ Quiet(Inner) => Quiet(Critical)
      /\ command' = command => Quiet(Critical)
  BY <1>2 DEF Quiet
<1> HIDE DEF Critical
<1> QED
  BY <1>3, <1>5, <1>6, <1>7, StepCases DEF Elsewhere, Calm

-----------------------------------------------------------------------------
(* Schemas.                                                                *)

\* The release about to be sealed fits the database too, and so do the copies
\* of a restore that may be renamed over it.
Fitting ==
  /\ SchemaFits
  /\ \A c \in Commands :
       /\ command[c].step = "seal" => SchemaOf[Dest(c)] = file.schema
       /\ command[c].step \in {"quarantine", "replace"} =>
            command[c].copy.schema = file.schema /\ file.schema # 0
       /\ command[c].step \in {"replace", "start", "undo", "putBack"} =>
            aside[c].quarantine.holds.schema = file.schema /\ file.schema # 0

\* Services that start from a verified release find its schema.
LEMMA StartKeepsSchema ==
  ASSUME Data, Pointing, SchemaFits, NEW b \in BOOLEAN, StartWorks(b) \/ StartFails(b)
  PROVE  file'.schema = file.schema
<1>1. CASE file' = file
  BY <1>1
<1>2. CASE current \in Releases /\ file'.schema = SchemaOf[current]
  <2>1. Verified(current)
    BY <1>2 DEF Pointing, Usable, None, Releases
  <2> QED
    BY <1>2, <2>1 DEF SchemaFits
<1> QED
  BY <1>1, <1>2, StartFacts

\* A release operation brings only a database nothing fits to a schema, and
\* only seals a release of the schema there is.
LEMMA ReleaseKeepsSchema ==
  ASSUME Base, Pointing, Fitting, NEW c \in Commands, ReleaseStep(c)
  PROVE  /\ \/ file'.schema = file.schema
            \/ file.schema = 0 /\ file'.schema = SchemaOf[Dest(c)] /\ release' = release
         /\ \A r \in Releases : Verified(r)' => Verified(r) \/ (r = Dest(c) /\ command[c].step = "seal")
         /\ command'[c].step = "seal" => SchemaOf[Dest(c)] = file'.schema /\ Dest(c)' = Dest(c)
<1> DEFINE Goal ==
         /\ \/ file'.schema = file.schema
            \/ file.schema = 0 /\ file'.schema = SchemaOf[Dest(c)] /\ release' = release
         /\ \A r \in Releases : Verified(r)' => Verified(r) \/ (r = Dest(c) /\ command[c].step = "seal")
         /\ command'[c].step = "seal" => SchemaOf[Dest(c)] = file'.schema /\ Dest(c)' = Dest(c)
<1>1. LockInv /\ Data /\ Typed /\ command \in [Commands -> Command]
      /\ release \in [Releases -> {"absent", "partial", "sealed"}] /\ file \in Content
      /\ current \in Releases \cup {None}
  BY DEF Base, LockInv, Typed, Data
<1>2. \A step \in ReleaseSteps : Go(c, step) => command'[c].step = step /\ Dest(c)' = Dest(c)
  BY <1>1, GoMoves DEF Moves, Steady, Dest, Steps, WorkSteps
<1>3. Finish(c) => command'[c].step = "unlock"
  BY <1>1, FinishMoves DEF Moves
<1>4. Dest(c) \in Releases /\ command[c].step \in ReleaseSteps
  BY <1>1, ReleaseMoves DEF LockInv, KindsFit, KindFits, Dest
<1>5. \A what : Set(Dest(c), what) => \A r \in Releases \ {Dest(c)} : release'[r] = release[r]
  BY <1>1, <1>4 DEF Set
<1>6. \A what \in {"absent", "partial"} : Set(Dest(c), what) => release'[Dest(c)] # "sealed"
  BY <1>1, <1>4 DEF Set
<1>7. RunMigrations(Dest(c)) => file'.schema = SchemaOf[Dest(c)]
  BY <1>1, <1>4, MigrationFacts
<1>8. StartWorks(TRUE) \/ StartFails(TRUE) => file'.schema = file.schema
  BY <1>1, StartKeepsSchema DEF Fitting
<1>9. CASE Copy(c)
  <2>1. command'[c].step \in {"build", "unlock"} /\ file' = file
    BY <1>2, <1>3, <1>9 DEF Copy, ReleaseSteps
  <2>2. \A r \in Releases : Verified(r)' => Verified(r)
    BY <1>5, <1>6, <1>9 DEF Copy, Verified
  <2> QED
    BY <2>1, <2>2
<1>10. ASSUME Build(c) \/ Verify(c) \/ Health(c) PROVE Goal
  <2>1. command'[c].step \in {"migrate", "clean", "canary", "unlock", "prune", "revert"}
    BY <1>2, <1>3, <1>10 DEF Build, Verify, Health, ReleaseSteps
  <2> QED
    BY <1>10, <2>1 DEF Build, Verify, Health, Verified
<1>11. CASE Migrate(c)
  <2>1. release' = release
    BY <1>11 DEF Migrate
  <2>2. CASE UNCHANGED file /\ Go(c, "clean")
    BY <1>2, <2>1, <2>2 DEF Verified, ReleaseSteps
  <2>3. CASE RollbackCompatible(Dest(c)) /\ RunMigrations(Dest(c)) /\ (Go(c, "seal") \/ Go(c, "clean"))
    <3>1. file'.schema = SchemaOf[Dest(c)] /\ file.schema \in {0, SchemaOf[Dest(c)]}
      BY <1>7, <2>3 DEF RollbackCompatible
    <3>2. command'[c].step = "seal" => Dest(c)' = Dest(c)
      BY <1>2, <2>3 DEF ReleaseSteps
    <3> QED
      BY <2>1, <3>1, <3>2 DEF Verified
  <2> QED
    BY <1>11, <2>2, <2>3 DEF Migrate
<1>12. CASE Seal(c)
  <2>1. command'[c].step \in {"canary", "clean"} /\ file' = file /\ command[c].step = "seal"
    BY <1>2, <1>12 DEF Seal, At, ReleaseSteps
  <2>2. \A r \in Releases : Verified(r)' => Verified(r) \/ r = Dest(c)
    BY <1>5, <1>12 DEF Seal, Verified
  <2> QED
    BY <2>1, <2>2
<1>13. CASE Canary(c)
  <2>1. Verified(Dest(c))
    BY <1>13 DEF Canary, At, Pointing
  <2>2. SchemaOf[Dest(c)] = file.schema
    BY <1>4, <2>1 DEF Fitting, SchemaFits
  <2>3. file'.schema = file.schema /\ release' = release
    BY <1>7, <1>13, <2>2 DEF Canary
  <2>4. command'[c].step \in {"switch", "clean"}
    <3>1. CASE command' = [command EXCEPT ![c].step = "switch", ![c].previous = current]
      <4>1. Moves(c, "switch")
        BY <1>1, <3>1, RememberMoves DEF Data, Steps, WorkSteps, ReleaseSteps
      <4> QED
        BY <4>1 DEF Moves
    <3>2. CASE Go(c, "clean")
      BY <1>2, <3>2 DEF ReleaseSteps
    <3> QED
      BY <1>13, <3>1, <3>2 DEF Canary
  <2> QED
    BY <2>3, <2>4 DEF Verified
<1>14. ASSUME Switch(c) \/ Revert(c) PROVE Goal
  <2>1. command'[c].step \in {"restart", "revert", "clean", "recover", "unlock"}
    BY <1>2, <1>3, <1>14 DEF Switch, Revert, ReleaseSteps
  <2> QED
    BY <1>14, <2>1 DEF Switch, Revert, Verified
<1>15. ASSUME Restart(c) \/ Recover(c) PROVE Goal
  <2>1. command'[c].step \in {"health", "revert", "clean"}
    BY <1>2, <1>15 DEF Restart, Recover, ReleaseSteps
  <2> QED
    BY <1>8, <1>15, <2>1 DEF Restart, Recover, Verified
<1>16. CASE Prune(c)
  <2>1. command'[c].step = "unlock" /\ file' = file
    BY <1>3, <1>16 DEF Prune
  <2>2. \A r \in Releases : Verified(r)' => Verified(r)
    BY <1>16 DEF Prune, Excess, Verified
  <2> QED
    BY <2>1, <2>2
<1>17. CASE Clean(c)
  <2>1. command'[c].step = "unlock" /\ file' = file
    BY <1>3, <1>17 DEF Clean
  <2>2. \A r \in Releases : Verified(r)' => Verified(r)
    BY <1>5, <1>6, <1>17 DEF Clean, Verified
  <2> QED
    BY <2>1, <2>2
<1> QED
  BY <1>9, <1>10, <1>11, <1>12, <1>13, <1>14, <1>15, <1>16, <1>17 DEF ReleaseStep

\* A backup leaves the database as it is, and a restore its schema; what a
\* restore is to rename over the database has that schema.
LEMMA DatabaseKeepsSchema ==
  ASSUME Base, Pointing, Fitting, NEW c \in Commands, DatabaseStep(c), release' = release
  PROVE  /\ file'.schema = file.schema
         /\ command'[c].step \in {"quarantine", "replace"} =>
              command'[c].copy.schema = file.schema /\ file.schema # 0
         /\ command'[c].step \in {"replace", "start", "undo", "putBack"} =>
              aside'[c].quarantine.holds.schema = file.schema /\ file.schema # 0
         /\ \A d \in Commands \ {c} : aside'[d] = aside[d]
<1> DEFINE Goal ==
         /\ file'.schema = file.schema
         /\ command'[c].step \in {"quarantine", "replace"} =>
              command'[c].copy.schema = file.schema /\ file.schema # 0
         /\ command'[c].step \in {"replace", "start", "undo", "putBack"} =>
              aside'[c].quarantine.holds.schema = file.schema /\ file.schema # 0
         /\ \A d \in Commands \ {c} : aside'[d] = aside[d]
<1>1. LockInv /\ Data /\ Typed /\ command \in [Commands -> Command] /\ aside \in [Commands -> Aside]
      /\ file \in Content /\ backup \in [Backups -> Backup]
      /\ services \in Services /\ current \in Releases \cup {None}
  BY DEF Base, LockInv, Typed, Data
<1>2. \A step \in DatabaseSteps : Go(c, step) =>
        command'[c].step = step /\ command'[c].copy = command[c].copy
  BY <1>1, GoMoves DEF Moves, Steady, Steps, WorkSteps
<1>3. Finish(c) => command'[c].step = "unlock"
  BY <1>1, FinishMoves DEF Moves
<1>4. StartWorks(FALSE) \/ StartFails(FALSE) => file'.schema = file.schema
  BY <1>1, StartKeepsSchema DEF Fitting
<1>5. \A what \in Aside : PutAside(c, what) =>
        aside'[c] = what /\ \A d \in Commands \ {c} : aside'[d] = aside[d]
  BY <1>1 DEF PutAside
<1>6. ASSUME command[c].step \in BackupSteps PROVE Goal
  <2>1. \E step \in BackupSteps \cup {"unlock"} : Moves(c, step)
    BY <1>1, <1>6, DatabaseMoves, StepSets DEF LockInv, KindsFit, KindFits
  <2>2. command'[c].step \notin {"quarantine", "replace", "start", "undo", "putBack"}
    BY <2>1 DEF Moves, BackupSteps
  <2>3. UNCHANGED <<file, aside>>
    BY <1>6 DEF DatabaseStep, Snapshot, Hourly, HourlyStatus, Daily, DailyStatus, PublishArtifact, PublishStatus,
       Retain, AssertStopped, Stop, Load, QuarantineFile, Replace, Start, Undo, PutBack, StartBack, At,
       BackupSteps, dbVars
  <2> QED
    BY <2>2, <2>3
<1>7. ASSUME AssertStopped(c) \/ Stop(c) PROVE Goal
  <2>1. command'[c].step \in {"stop", "load", "startBack", "unlock"}
    BY <1>2, <1>3, <1>7 DEF AssertStopped, Stop, DatabaseSteps
  <2> QED
    BY <1>7, <2>1 DEF AssertStopped, Stop, dbVars
<1>8. ASSUME Load(c) PROVE Goal
  <2> DEFINE held == backup[command[c].arg].holds
  <2>1. command[c].arg \in Backups
    BY <1>8 DEF Load, At, RestoreSteps, Base, LockInv, KindsFit, KindFits
  <2>2. held \in Content
    BY <1>1, <2>1 DEF Backup
  <2> HIDE DEF held
  <2>3. CASE SchemaCompatible(held) /\ command' = [command EXCEPT ![c].step = "quarantine", ![c].copy = held]
    <3>1. Moves(c, "quarantine") /\ command'[c].copy = held
      BY <1>1, <2>2, <2>3, CopyMoves DEF Steps, WorkSteps, DatabaseSteps
    <3>2. current \in Releases /\ Verified(current) /\ held.schema = SchemaOf[current]
      BY <1>1, <2>3 DEF SchemaCompatible, Pointing, Usable
    <3>3. held.schema = file.schema /\ file.schema # 0
      BY <3>2 DEF Fitting, SchemaFits
    <3> QED
      BY <1>8, <3>1, <3>3 DEF Load, Moves, dbVars
  <2>4. CASE Go(c, "startBack")
    BY <1>2, <1>8, <2>4 DEF Load, DatabaseSteps, dbVars
  <2> QED
    BY <1>8, <2>3, <2>4 DEF Load, held
<1>9. ASSUME QuarantineFile(c) PROVE Goal
  <2>1. CASE PutAside(c, [aside[c] EXCEPT !.quarantine = CopyOf(file)]) /\ Go(c, "replace")
    <3> DEFINE what == [aside[c] EXCEPT !.quarantine = CopyOf(file)]
    <3>1. what \in Aside /\ what.quarantine.holds = file
      BY <1>1 DEF Aside, CopyOf
    <3>2. aside'[c] = what /\ \A d \in Commands \ {c} : aside'[d] = aside[d]
      BY <1>5, <2>1, <3>1
    <3> HIDE DEF what
    <3>3. command'[c].step = "replace" /\ command'[c].copy = command[c].copy
      BY <1>2, <2>1 DEF DatabaseSteps
    <3>4. command[c].copy.schema = file.schema /\ file.schema # 0
      BY <1>9 DEF QuarantineFile, At, Fitting
    <3> QED
      BY <1>9, <3>1, <3>2, <3>3, <3>4 DEF QuarantineFile
  <2>2. CASE Go(c, "startBack") /\ UNCHANGED aside
    BY <1>2, <1>9, <2>2 DEF QuarantineFile, DatabaseSteps
  <2> QED
    BY <1>9, <2>1, <2>2 DEF QuarantineFile
<1>10. ASSUME Replace(c) PROVE Goal
  <2>1. /\ command[c].copy.schema = file.schema /\ file.schema # 0
        /\ aside[c].quarantine.holds.schema = file.schema
    BY <1>10 DEF Replace, At, Fitting
  <2>2. command'[c].step \in {"start", "startBack"}
    BY <1>2, <1>10 DEF Replace, DatabaseSteps
  <2> QED
    BY <1>10, <2>1, <2>2 DEF Replace, Renamed
<1>11. ASSUME Start(c) PROVE Goal
  <2>1. file.schema # 0 /\ aside[c].quarantine.holds.schema = file.schema
    BY <1>11 DEF Start, At, Fitting
  <2>2. command'[c].step \in {"undo", "unlock"}
    BY <1>2, <1>3, <1>11 DEF Start, DatabaseSteps
  <2> QED
    BY <1>4, <1>11, <2>1, <2>2 DEF Start, dbVars
<1>12. ASSUME Undo(c) PROVE Goal
  <2>1. file.schema # 0 /\ aside[c].quarantine.holds.schema = file.schema /\ file' = file
    BY <1>12 DEF Undo, At, Fitting
  <2>2. CASE PutAside(c, [aside[c] EXCEPT !.failed = CopyOf(file)]) /\ Go(c, "putBack")
    <3> DEFINE what == [aside[c] EXCEPT !.failed = CopyOf(file)]
    <3>1. what \in Aside /\ what.quarantine = aside[c].quarantine
      BY <1>1 DEF Aside, CopyOf
    <3>2. aside'[c] = what /\ \A d \in Commands \ {c} : aside'[d] = aside[d]
      BY <1>5, <2>2, <3>1
    <3> HIDE DEF what
    <3>3. command'[c].step = "putBack"
      BY <1>2, <2>2 DEF DatabaseSteps
    <3> QED
      BY <2>1, <3>1, <3>2, <3>3
  <2>3. CASE Finish(c) /\ UNCHANGED aside
    BY <1>3, <2>1, <2>3
  <2> QED
    BY <1>12, <2>2, <2>3 DEF Undo
<1>13. ASSUME PutBack(c) PROVE Goal
  <2>1. aside[c].quarantine.holds.schema = file.schema
    BY <1>13 DEF PutBack, At, Fitting
  <2>2. command'[c].step \in {"startBack", "unlock"}
    BY <1>2, <1>3, <1>13 DEF PutBack, DatabaseSteps
  <2>3. file'.schema = file.schema
    BY <1>13, <2>1 DEF PutBack, Renamed
  <2>4. \A d \in Commands \ {c} : aside'[d] = aside[d]
    BY <1>1, <1>13 DEF PutBack, PutAside
  <2> QED
    BY <2>2, <2>3, <2>4
<1>14. ASSUME StartBack(c) PROVE Goal
  BY <1>3, <1>4, <1>14 DEF StartBack, dbVars
<1>15. Snapshot(c) \/ Hourly(c) \/ HourlyStatus(c) \/ Daily(c) \/ DailyStatus(c) \/ Retain(c)
         => command[c].step \in BackupSteps
  BY DEF Snapshot, Hourly, HourlyStatus, Daily, DailyStatus, PublishArtifact, PublishStatus, Retain, At, BackupSteps
<1> HIDE DEF Goal
<1>16. Goal
  BY <1>6, <1>7, <1>8, <1>9, <1>10, <1>11, <1>12, <1>13, <1>14, <1>15 DEF DatabaseStep
<1> QED
  BY <1>16 DEF Goal

LEMMA FittingStep == Base /\ Pointing /\ Fitting /\ [Next]_vars => Fitting'
<1> SUFFICES ASSUME Base, Pointing, Fitting, [Next]_vars PROVE Fitting'
  OBVIOUS
<1> DEFINE Copying == {"quarantine", "replace"}
           Aiming == {"replace", "start", "undo", "putBack"}
<1>1. LockInv /\ Data /\ Typed /\ current \in Releases \cup {None} /\ file \in Content
      /\ \A r \in Releases : SchemaOf[r] # 0
  BY DEF Base, LockInv, Data
<1>2. Copying \cup Aiming \subseteq RestoreSteps /\ RestoreSteps \subseteq DatabaseSteps
      /\ "seal" \in ReleaseSteps /\ "seal" \in Inner /\ Copying \cup Aiming \subseteq Inner
  BY StepSets DEF RestoreSteps, ReleaseSteps, DatabaseSteps, Inner
<1>3. ASSUME NEW c \in Commands, ReleaseStep(c), UNCHANGED dbVars, Quiet(DatabaseSteps) PROVE Fitting'
  <2>1. /\ \/ file'.schema = file.schema
           \/ file.schema = 0 /\ file'.schema = SchemaOf[Dest(c)] /\ release' = release
        /\ \A r \in Releases : Verified(r)' => Verified(r) \/ (r = Dest(c) /\ command[c].step = "seal")
        /\ command'[c].step = "seal" => SchemaOf[Dest(c)] = file'.schema /\ Dest(c)' = Dest(c)
    BY <1>3, ReleaseKeepsSchema
  <2>2. SchemaFits'
    BY <1>1, <2>1 DEF Fitting, SchemaFits, Verified
  <2>3. command[c].step \in ReleaseSteps /\ \A d \in Commands \ {c} : command'[d] = command[d]
    BY <1>1, <1>3, ReleaseMoves DEF Moves
  <2>4. ASSUME NEW d \in Commands, command'[d].step = "seal" PROVE (SchemaOf[Dest(d)] = file.schema)'
    <3>1. d = c
      BY <1>1, <1>2, <2>3, <2>4, Alone
    <3> QED
      BY <2>1, <2>4, <3>1
  <2>5. ASSUME NEW d \in Commands, command'[d].step \in Copying \cup Aiming
        PROVE  command'[d] = command[d] /\ aside' = aside /\ (file.schema # 0 => file'.schema = file.schema)
    BY <1>2, <1>3, <2>1, <2>5 DEF Quiet, dbVars
  <2> QED
    BY <2>2, <2>4, <2>5 DEF Fitting
<1>4. ASSUME NEW c \in Commands, DatabaseStep(c), release' = release, Quiet(ReleaseSteps) PROVE Fitting'
  <2>1. /\ file'.schema = file.schema
        /\ command'[c].step \in Copying =>
              command'[c].copy.schema = file.schema /\ file.schema # 0
        /\ command'[c].step \in Aiming =>
              aside'[c].quarantine.holds.schema = file.schema /\ file.schema # 0
        /\ \A d \in Commands \ {c} : aside'[d] = aside[d]
    BY <1>4, DatabaseKeepsSchema
  <2>2. SchemaFits'
    BY <1>4, <2>1 DEF Fitting, SchemaFits, Verified
  <2>3. \A d \in Commands : command'[d].step = "seal" => command'[d] = command[d]
    BY <1>2, <1>4 DEF Quiet
  <2>4. \A d \in Commands \ {c} : command'[d] = command[d]
    <3>1. command[c].step \in RestoreSteps => command[c].arg \in Backups
      BY <1>1 DEF LockInv, KindsFit, KindFits
    <3> QED
      BY <1>1, <1>4, <3>1, DatabaseMoves DEF Moves, Data
  <2> QED
    BY <2>1, <2>2, <2>3, <2>4 DEF Fitting, Dest
<1>5. ASSUME file'.schema = file.schema, release' = release, aside' = aside,
             \/ Quiet(Inner)
             \/ command' = command
      PROVE  Fitting'
  <2>1. \A d \in Commands : command'[d].step \in {"seal"} \cup Copying \cup Aiming => command'[d] = command[d]
    BY <1>2, <1>5 DEF Quiet
  <2> QED
    BY <1>5, <2>1 DEF Fitting, SchemaFits, Verified, Dest
<1>6. ASSUME Operator \/ Portal, UNCHANGED <<command, release, current>> PROVE Fitting'
  <2>1. file'.schema = file.schema /\ aside' = aside
    <3>1. CASE Operator
      BY <1>1, <3>1, StartKeepsSchema DEF Operator, OperatorStops, OperatorStarts, Fitting, dbVars
    <3>2. CASE Portal
      BY <1>1, <3>2 DEF Portal, Accept, Content
    <3> QED
      BY <1>6, <3>1, <3>2
  <2> QED
    BY <1>5, <1>6, <2>1
<1> QED
  BY <1>3, <1>4, <1>5, <1>6, StepCases DEF Elsewhere, Calm

-----------------------------------------------------------------------------
(* Consultations.                                                          *)

Fresh == {"new", "naming", "assert", "stop", "load", "quarantine"}

\* What a restore is about to rename a file over is in a copy put aside, save
\* what a release operation exposed; and nothing it puts aside is overwritten.
Safe(c) ==
  /\ command[c].step \in {"replace", "putBack"} /\ services.up => services.byRelease
  /\ command[c].step = "replace" => file.rows \subseteq aside[c].quarantine.holds.rows \cup exposed
  /\ command[c].step = "putBack" => file.rows \subseteq aside[c].failed.holds.rows \cup exposed
  /\ command[c].step \in Fresh => aside[c].quarantine.holds.rows = {}
  /\ command[c].step \in Fresh \cup {"replace", "start", "undo"} => aside[c].failed.holds.rows = {}

Keeping ==
  /\ NothingLost
  /\ services.orphaned => services.byRelease
  /\ \A c \in Commands : Safe(c)

LEMMA KeptIs ==
  \A x : x \in Kept <=> \/ x \in file.rows
                        \/ \E c \in Commands : \/ x \in aside[c].quarantine.holds.rows
                                               \/ x \in aside[c].failed.holds.rows
  BY DEF Kept

LEMMA KeptIsNext ==
  \A x : x \in Kept' <=> \/ x \in file'.rows
                         \/ \E c \in Commands : \/ x \in aside'[c].quarantine.holds.rows
                                                \/ x \in aside'[c].failed.holds.rows
  BY DEF Kept

\* What a restore does to the databases, wherever it is, keeps every row.
LEMMA DatabaseKeepsRows ==
  ASSUME Base, Keeping, NEW c \in Commands, DatabaseStep(c)
  PROVE  /\ Safe(c)' /\ (services'.orphaned => services'.byRelease)
         /\ \A d \in Commands \ {c} : aside'[d] = aside[d]
         /\ Kept \subseteq Kept' \cup exposed
         /\ accepted' = accepted /\ exposed' = exposed
<1> DEFINE Goal ==
         /\ Safe(c)' /\ (services'.orphaned => services'.byRelease)
         /\ \A d \in Commands \ {c} : aside'[d] = aside[d]
         /\ Kept \subseteq Kept' \cup exposed
         /\ accepted' = accepted /\ exposed' = exposed
<1>1. LockInv /\ Data /\ Typed /\ command \in [Commands -> Command] /\ aside \in [Commands -> Aside]
      /\ services \in Services /\ file \in Content /\ backup \in [Backups -> Backup]
  BY DEF Base, LockInv, Typed, Data
<1>2. \A step \in DatabaseSteps : Go(c, step) => command'[c].step = step
  BY <1>1, GoMoves DEF Moves, Steps, WorkSteps
<1>3. Finish(c) => command'[c].step = "unlock"
  BY <1>1, FinishMoves DEF Moves
<1>4. StartWorks(FALSE) \/ StartFails(FALSE) =>
        file'.rows = file.rows /\ (services' = services \/ ~services'.orphaned)
  BY <1>1, StartFacts
<1>5. \A what \in Aside : PutAside(c, what) =>
        aside'[c] = what /\ \A d \in Commands \ {c} : aside'[d] = aside[d]
  BY <1>1 DEF PutAside
<1>6. Safe(c) /\ (services.orphaned => services.byRelease)
  BY DEF Keeping
<1>7. file'.rows = file.rows /\ aside' = aside => Kept' = Kept
  BY KeptIs, KeptIsNext
<1>8. \A step : command'[c].step = step /\ step \notin Fresh \cup {"replace", "start", "undo", "putBack"}
        => Safe(c)'
  BY DEF Safe
<1>9. ASSUME command[c].step \in BackupSteps PROVE Goal
  <2>1. \E step \in BackupSteps \cup {"unlock"} : Moves(c, step)
    BY <1>1, <1>9, DatabaseMoves, StepSets DEF LockInv, KindsFit, KindFits
  <2>2. command'[c].step \notin Fresh \cup {"replace", "start", "undo", "putBack"}
    BY <2>1 DEF Moves, BackupSteps, Fresh
  <2>3. UNCHANGED <<file, aside, services, accepted, exposed>>
    BY <1>9 DEF DatabaseStep, Snapshot, Hourly, HourlyStatus, Daily, DailyStatus, PublishArtifact, PublishStatus,
       Retain, AssertStopped, Stop, Load, QuarantineFile, Replace, Start, Undo, PutBack, StartBack, At,
       BackupSteps, dbVars
  <2> QED
    BY <1>6, <1>7, <1>8, <2>2, <2>3
<1>10. ASSUME command[c].step \in {"assert", "stop", "load"},
              command'[c].step \in {"stop", "load", "quarantine", "startBack", "unlock"},
              file' = file, services' \in {services, Down}, UNCHANGED dbVars
       PROVE  Goal
  <2>1. Safe(c)'
    BY <1>6, <1>10 DEF Safe, Fresh, dbVars
  <2> QED
    BY <1>6, <1>7, <1>10, <2>1, DownType DEF dbVars
<1>11. ASSUME AssertStopped(c) \/ Stop(c) PROVE Goal
  <2>1. command'[c].step \in {"stop", "load", "startBack", "unlock"}
    BY <1>2, <1>3, <1>11 DEF AssertStopped, Stop, DatabaseSteps
  <2> QED
    BY <1>10, <1>11, <2>1 DEF AssertStopped, Stop, At
<1>12. ASSUME Load(c) PROVE Goal
  <2> DEFINE held == backup[command[c].arg].holds
  <2>1. command[c].arg \in Backups
    BY <1>12 DEF Load, At, RestoreSteps, Base, LockInv, KindsFit, KindFits
  <2>2. held \in Content
    BY <1>1, <2>1 DEF Backup
  <2> HIDE DEF held
  <2>3. CASE command' = [command EXCEPT ![c].step = "quarantine", ![c].copy = held]
    <3>1. Moves(c, "quarantine")
      BY <1>1, <2>2, <2>3, CopyMoves DEF Steps, WorkSteps, DatabaseSteps
    <3> QED
      BY <1>10, <1>12, <3>1 DEF Load, At, Moves
  <2>4. CASE Go(c, "startBack")
    BY <1>2, <1>10, <1>12, <2>4 DEF Load, At, DatabaseSteps
  <2> QED
    BY <1>12, <2>3, <2>4 DEF Load, held
<1>13. ASSUME QuarantineFile(c) PROVE Goal
  <2>1. CASE ~services.up /\ PutAside(c, [aside[c] EXCEPT !.quarantine = CopyOf(file)]) /\ Go(c, "replace")
    <3> DEFINE what == [aside[c] EXCEPT !.quarantine = CopyOf(file)]
    <3>1. what \in Aside /\ what.quarantine.holds = file /\ what.failed = aside[c].failed
      BY <1>1 DEF Aside, CopyOf
    <3>2. aside'[c] = what /\ \A d \in Commands \ {c} : aside'[d] = aside[d]
      BY <1>5, <2>1, <3>1
    <3> HIDE DEF what
    <3>3. command'[c].step = "replace" /\ UNCHANGED <<services, file, accepted, exposed>>
      BY <1>2, <1>13, <2>1 DEF QuarantineFile, DatabaseSteps
    <3>4. aside[c].quarantine.holds.rows = {} /\ aside[c].failed.holds.rows = {}
      BY <1>6, <1>13 DEF QuarantineFile, At, Safe, Fresh
    <3>5. Safe(c)'
      BY <2>1, <3>1, <3>2, <3>3, <3>4 DEF Safe, Fresh
    <3>6. Kept \subseteq Kept'
      BY <3>1, <3>2, <3>3, <3>4, KeptIs, KeptIsNext
    <3> QED
      BY <1>6, <3>2, <3>3, <3>5, <3>6
  <2>2. CASE Go(c, "startBack") /\ UNCHANGED aside
    <3>1. command'[c].step = "startBack" /\ "startBack" \notin Fresh \cup {"replace", "start", "undo", "putBack"}
      BY <1>2, <2>2 DEF DatabaseSteps, Fresh
    <3> QED
      BY <1>6, <1>7, <1>8, <1>13, <2>2, <3>1 DEF QuarantineFile
  <2> QED
    BY <1>13, <2>1, <2>2 DEF QuarantineFile
<1>14. \A held : Renamed(held) =>
         /\ file' = held /\ services'.orphaned = services.up
         /\ services'.byRelease = services.byRelease /\ services'.up = services.up
  BY <1>1 DEF Renamed, Services
<1>15. ASSUME Replace(c) PROVE Goal
  <2>1. /\ services.up => services.byRelease
        /\ file.rows \subseteq aside[c].quarantine.holds.rows \cup exposed
        /\ aside[c].failed.holds.rows = {}
    BY <1>6, <1>15 DEF Replace, At, Safe
  <2>2. command'[c].step \in {"start", "startBack"} /\ UNCHANGED <<aside, accepted, exposed>>
    BY <1>2, <1>15 DEF Replace, DatabaseSteps
  <2>3. Safe(c)'
    BY <2>1, <2>2 DEF Safe, Fresh
  <2>4. Kept \subseteq Kept' \cup exposed
    <3>1. CASE file' = file
      BY <1>7, <2>2, <3>1
    <3>2. CASE Renamed(command[c].copy)
      BY <2>1, <2>2, KeptIs, KeptIsNext
    <3> QED
      BY <1>15, <3>1, <3>2 DEF Replace
  <2>5. services'.orphaned => services'.byRelease
    BY <1>6, <1>14, <1>15, <2>1 DEF Replace
  <2> QED
    BY <2>2, <2>3, <2>4, <2>5
<1>16. ASSUME Start(c) PROVE Goal
  <2>1. command'[c].step \in {"undo", "unlock"} /\ aside[c].failed.holds.rows = {}
    BY <1>2, <1>3, <1>6, <1>16 DEF Start, At, Safe, DatabaseSteps
  <2>2. file'.rows = file.rows /\ (services' = services \/ ~services'.orphaned)
        /\ UNCHANGED <<aside, accepted, exposed>>
    BY <1>4, <1>16 DEF Start, dbVars
  <2>3. Safe(c)'
    BY <2>1, <2>2 DEF Safe, Fresh
  <2> QED
    BY <1>6, <1>7, <2>2, <2>3
<1>17. ASSUME Undo(c) PROVE Goal
  <2>1. CASE /\ services' = Down /\ PutAside(c, [aside[c] EXCEPT !.failed = CopyOf(file)])
             /\ Go(c, "putBack")
    <3> DEFINE what == [aside[c] EXCEPT !.failed = CopyOf(file)]
    <3>1. what \in Aside /\ what.failed.holds = file /\ what.quarantine = aside[c].quarantine
      BY <1>1 DEF Aside, CopyOf
    <3>2. aside'[c] = what /\ \A d \in Commands \ {c} : aside'[d] = aside[d]
      BY <1>5, <2>1, <3>1
    <3> HIDE DEF what
    <3>3. command'[c].step = "putBack" /\ UNCHANGED <<file, accepted, exposed>>
      BY <1>2, <1>17, <2>1 DEF Undo, DatabaseSteps
    <3>4. aside[c].failed.holds.rows = {}
      BY <1>6, <1>17 DEF Undo, At, Safe
    <3>5. Safe(c)'
      BY <2>1, <3>1, <3>2, <3>3, DownType DEF Safe, Fresh
    <3>6. Kept \subseteq Kept'
      BY <3>1, <3>2, <3>3, <3>4, KeptIs, KeptIsNext
    <3> QED
      BY <2>1, <3>2, <3>3, <3>5, <3>6, DownType
  <2>2. CASE services' \in {services, Down} /\ Finish(c) /\ UNCHANGED aside
    <3>1. command'[c].step = "unlock" /\ "unlock" \notin Fresh \cup {"replace", "start", "undo", "putBack"}
      BY <1>3, <2>2 DEF Fresh
    <3> QED
      BY <1>6, <1>7, <1>8, <1>17, <2>2, <3>1, DownType DEF Undo
  <2> QED
    BY <1>17, <2>1, <2>2 DEF Undo
<1>18. ASSUME PutBack(c) PROVE Goal
  <2>1. /\ services.up => services.byRelease
        /\ file.rows \subseteq aside[c].failed.holds.rows \cup exposed
    BY <1>6, <1>18 DEF PutBack, At, Safe
  <2>2. command'[c].step \in {"startBack", "unlock"} /\ UNCHANGED <<accepted, exposed>>
        /\ "startBack" \notin Fresh \cup {"replace", "start", "undo", "putBack"}
        /\ "unlock" \notin Fresh \cup {"replace", "start", "undo", "putBack"}
    BY <1>2, <1>3, <1>18 DEF PutBack, DatabaseSteps, Fresh
  <2>3. CASE Renamed(aside[c].quarantine.holds) /\ PutAside(c, [aside[c] EXCEPT !.quarantine = NoCopy])
    <3> DEFINE what == [aside[c] EXCEPT !.quarantine = NoCopy]
    <3>1. what \in Aside /\ what.failed = aside[c].failed
      BY <1>1, EmptyType DEF Aside, NoCopy
    <3>2. aside'[c] = what /\ \A d \in Commands \ {c} : aside'[d] = aside[d]
      BY <1>5, <2>3, <3>1
    <3> HIDE DEF what
    <3>3. file' = aside[c].quarantine.holds /\ (services'.orphaned => services'.byRelease)
      BY <1>14, <2>1, <2>3
    <3>4. Kept \subseteq Kept' \cup exposed
      BY <2>1, <3>1, <3>2, <3>3, KeptIs, KeptIsNext
    <3> QED
      BY <1>8, <2>2, <3>2, <3>3, <3>4
  <2>4. CASE UNCHANGED <<services, file, aside>>
    BY <1>6, <1>7, <1>8, <2>2, <2>4
  <2> QED
    BY <1>18, <2>3, <2>4 DEF PutBack
<1>19. ASSUME StartBack(c) PROVE Goal
  <2>1. command'[c].step = "unlock" /\ "unlock" \notin Fresh \cup {"replace", "start", "undo", "putBack"}
    BY <1>3, <1>19 DEF StartBack, Fresh
  <2> QED
    BY <1>4, <1>6, <1>7, <1>8, <1>19, <2>1 DEF StartBack, dbVars
<1>20. Snapshot(c) \/ Hourly(c) \/ HourlyStatus(c) \/ Daily(c) \/ DailyStatus(c) \/ Retain(c)
         => command[c].step \in BackupSteps
  BY DEF Snapshot, Hourly, HourlyStatus, Daily, DailyStatus, PublishArtifact, PublishStatus, Retain, At, BackupSteps
<1> HIDE DEF Goal
<1>21. Goal
  BY <1>9, <1>11, <1>12, <1>13, <1>15, <1>16, <1>17, <1>18, <1>19, <1>20 DEF DatabaseStep
<1> QED
  BY <1>21 DEF Goal

LEMMA KeepingStep == Base /\ Keeping /\ [Next]_vars => Keeping'
<1> SUFFICES ASSUME Base, Keeping, [Next]_vars PROVE Keeping'
  OBVIOUS
<1> DEFINE All == Fresh \cup {"replace", "start", "undo", "putBack"}
<1>1. LockInv /\ Data /\ Typed /\ services \in Services /\ file \in Content
  BY DEF Base, LockInv, Data
<1>2. /\ NothingLost /\ (services.orphaned => services.byRelease) /\ \A c \in Commands : Safe(c)
  BY DEF Keeping
<1>3. /\ {"stop", "load", "quarantine", "replace", "start", "undo", "putBack"} \subseteq Inner \cap RestoreSteps
      /\ RestoreSteps \subseteq DatabaseSteps
      /\ Beginnings \subseteq Fresh
      /\ All = Beginnings \cup {"stop", "load", "quarantine", "replace", "start", "undo", "putBack"}
  BY StepSets DEF Inner, DatabaseSteps, RestoreSteps, ReleaseSteps, Beginnings, Fresh
<1>4. file'.rows = file.rows /\ aside' = aside => Kept' = Kept
  BY KeptIs, KeptIsNext
<1>5. ASSUME file'.rows = file.rows, UNCHANGED <<accepted, exposed, aside>>,
             \/ services' = services
             \/ services'.byRelease /\ ~services'.orphaned
             \/ ~services'.orphaned /\ \A c \in Commands : command'[c].step \in {"replace", "putBack"} => ~services'.up,
             \A c \in Commands : \/ command'[c].step = command[c].step
                                 \/ command'[c].step \in Beginnings /\ command[c].step \in Beginnings
                                 \/ command'[c].step \notin All
      PROVE  Keeping'
  <2>1. NothingLost'
    BY <1>2, <1>4, <1>5 DEF NothingLost
  <2>2. ASSUME NEW c \in Commands PROVE Safe(c)'
    <3>1. Safe(c)
      BY <1>2
    <3>2. CASE command'[c].step = command[c].step
      BY <1>5, <3>1, <3>2 DEF Safe
    <3>3. CASE command'[c].step \in Beginnings /\ command[c].step \in Beginnings
      BY <1>3, <1>5, <3>1, <3>3 DEF Safe, Fresh, Beginnings
    <3>4. CASE command'[c].step \notin All
      BY <3>4 DEF Safe
    <3> QED
      BY <1>5, <3>2, <3>3, <3>4
  <2> QED
    BY <1>2, <1>5, <2>1, <2>2 DEF Keeping
<1>6. ASSUME NEW c \in Commands, ReleaseStep(c), UNCHANGED dbVars PROVE Keeping'
  <2>1. file'.rows = file.rows /\ (services' = services \/ (services'.byRelease /\ ~services'.orphaned))
    BY <1>1, <1>6, ReleaseEffects
  <2>2. command'[c].step \in ReleaseSteps \cup {"unlock"} /\ \A d \in Commands \ {c} : command'[d] = command[d]
    BY <1>1, <1>6, ReleaseMoves DEF Data, Moves
  <2>3. All \cap (ReleaseSteps \cup {"unlock"}) = {}
    BY DEF Fresh, ReleaseSteps
  <2> HIDE DEF All
  <2> QED
    BY <1>5, <1>6, <2>1, <2>2, <2>3 DEF dbVars
<1>7. ASSUME NEW c \in Commands, DatabaseStep(c) PROVE Keeping'
  <2>1. /\ Safe(c)' /\ (services'.orphaned => services'.byRelease)
        /\ \A d \in Commands \ {c} : aside'[d] = aside[d]
        /\ Kept \subseteq Kept' \cup exposed
        /\ accepted' = accepted /\ exposed' = exposed
    BY <1>7, DatabaseKeepsRows
  <2>2. NothingLost'
    BY <1>2, <2>1 DEF NothingLost
  <2>3. /\ \A d \in Commands \ {c} : command'[d] = command[d]
        /\ command[c].step \in BackupSteps \/ command[c].step \in RestoreSteps
    <3>1. command[c].step \in RestoreSteps => command[c].arg \in Backups
      BY <1>1 DEF LockInv, KindsFit, KindFits
    <3> QED
      BY <1>1, <1>7, <3>1, DatabaseMoves DEF Moves, Data
  <2>4. ASSUME NEW d \in Commands, d # c PROVE Safe(d)'
    <3>1. Safe(d) /\ command'[d] = command[d] /\ aside'[d] = aside[d]
      BY <1>2, <2>1, <2>3, <2>4
    <3>2. CASE command[d].step \in {"replace", "putBack"}
      <4>1. command[c].step \in BackupSteps
        BY <1>1, <1>3, <2>3, <2>4, <3>2, Alone
      <4>2. UNCHANGED <<file, services>>
        BY <1>7, <4>1 DEF DatabaseStep, Snapshot, Hourly, HourlyStatus, Daily, DailyStatus, PublishArtifact,
           PublishStatus, Retain, AssertStopped, Stop, Load, QuarantineFile, Replace, Start, Undo, PutBack,
           StartBack, At, BackupSteps, dbVars
      <4> QED
        BY <2>1, <3>1, <4>2 DEF Safe
    <3>3. CASE command[d].step \notin {"replace", "putBack"}
      BY <3>1, <3>3 DEF Safe
    <3> QED
      BY <3>2, <3>3
  <2> QED
    BY <2>1, <2>2, <2>4 DEF Keeping
<1>8. ASSUME Elsewhere PROVE Keeping'
  <2>1. \A c \in Commands : \/ command'[c].step = command[c].step
                            \/ command'[c].step \in Beginnings /\ command[c].step \in Beginnings
                            \/ command'[c].step \notin All
    BY <1>3, <1>8 DEF Elsewhere, Calm, Quiet
  <2> HIDE DEF All
  <2> QED
    BY <1>5, <1>8, <2>1 DEF Elsewhere
<1>9. ASSUME Operator, command' = command PROVE Keeping'
  <2>1. UNCHANGED <<accepted, exposed, aside>>
    BY <1>9 DEF Operator, dbVars
  <2>2. CASE OperatorStops
    BY <1>5, <1>9, <2>1, <2>2, DownType DEF OperatorStops
  <2>3. CASE OperatorStarts
    <3>1. file'.rows = file.rows /\ (services' = services \/ ~services'.orphaned)
      BY <1>1, <2>3, StartFacts DEF OperatorStarts
    <3>2. \A c \in Commands : command'[c].step \notin {"replace", "putBack"}
      BY <1>1, <1>3, <1>9, <2>3 DEF OperatorStarts, LockInv, KindsFit, KindFits
    <3> QED
      BY <1>5, <1>9, <2>1, <3>1, <3>2
  <2> QED
    BY <1>9, <2>2, <2>3 DEF Operator
<1>10. CASE Portal
  <2>1. PICK r \in Records : Accept(r)
    BY <1>10 DEF Portal
  <2> DEFINE filled == [file EXCEPT !.rows = file.rows \cup {r}]
  <2>2. filled.rows = file.rows \cup {r}
    BY <1>1 DEF Content
  <2>3. file' = IF services.orphaned THEN file ELSE filled
    BY <2>1 DEF Accept
  <2>4. /\ accepted' = accepted \cup {r} /\ UNCHANGED <<command, aside, services>> /\ services.up
        /\ exposed' = IF services.byRelease /\ (services.orphaned \/ BetweenCopyAndRename)
                      THEN exposed \cup {r} ELSE exposed
    BY <2>1 DEF Accept
  <2> HIDE DEF filled
  <2>5. NothingLost'
    <3>1. CASE services.orphaned
      <4>1. exposed' = exposed \cup {r} /\ Kept' = Kept
        BY <1>2, <1>4, <2>3, <2>4, <3>1
      <4> QED
        BY <1>2, <2>4, <4>1 DEF NothingLost
    <3>2. CASE ~services.orphaned
      <4>1. Kept \cup {r} \subseteq Kept'
        BY <2>2, <2>3, <2>4, <3>2, KeptIs, KeptIsNext
      <4> QED
        BY <1>2, <2>4, <4>1 DEF NothingLost
    <3> QED
      BY <3>1, <3>2
  <2>6. ASSUME NEW c \in Commands PROVE Safe(c)'
    <3>1. Safe(c)
      BY <1>2
    <3>2. CASE command[c].step \in {"replace", "putBack"}
      <4>1. exposed' = exposed \cup {r}
        BY <2>4, <3>1, <3>2 DEF Safe, BetweenCopyAndRename
      <4>2. file'.rows \subseteq file.rows \cup {r}
        BY <2>2, <2>3
      <4> QED
        BY <2>4, <3>1, <4>1, <4>2 DEF Safe
    <3>3. CASE command[c].step \notin {"replace", "putBack"}
      BY <2>4, <3>1, <3>3 DEF Safe
    <3> QED
      BY <3>2, <3>3
  <2> QED
    BY <1>2, <2>4, <2>5, <2>6 DEF Keeping
<1> QED
  BY <1>6, <1>7, <1>8, <1>9, <1>10, StepCases

-----------------------------------------------------------------------------
(* Theorems.                                                               *)

IInv == Base /\ Pointing /\ Fitting /\ Keeping

LEMMA InvariantHolds == Spec => []IInv
<1>1. Init => IInv
  <2> SUFFICES ASSUME Init PROVE IInv
    OBVIOUS
  <2>1. Base
    BY BaseInit
  <2>2. /\ command = [c \in Commands |-> New] /\ accepted = {}
        /\ aside = [c \in Commands |-> [quarantine |-> NoCopy, failed |-> NoCopy]]
    BY DEF Init, InitLock, InitDatabase
  <2>3. /\ \A c \in Commands : command[c].step = "new"
        /\ NoCopy.holds.rows = {} /\ 1 \in Releases /\ None \notin Releases
    BY <2>2 DEF New, NoCopy, Empty, Releases, None
  <2>4. \/ /\ release = [r \in Releases |-> "absent"] /\ current = None /\ services = Down
        \/ /\ release = [r \in Releases |-> IF r = 1 THEN "sealed" ELSE "absent"]
           /\ current = 1 /\ file = [Empty EXCEPT !.schema = SchemaOf[1]]
           /\ services = [up |-> TRUE, running |-> 1, byRelease |-> FALSE, orphaned |-> FALSE]
    BY DEF Init
  <2>5. [Empty EXCEPT !.schema = SchemaOf[1]].schema = SchemaOf[1]
    BY DEF Empty
  <2>6. Pointing
    BY <2>3, <2>4 DEF Pointing, Usable, Verified, None
  <2>7. SchemaFits
    <3>1. CASE release = [r \in Releases |-> "absent"]
      BY <3>1 DEF SchemaFits, Verified
    <3>2. CASE /\ release = [r \in Releases |-> IF r = 1 THEN "sealed" ELSE "absent"]
               /\ file = [Empty EXCEPT !.schema = SchemaOf[1]]
      <4>1. file.schema = SchemaOf[1]
        BY <2>5, <3>2
      <4>2. \A r \in Releases : Verified(r) => r = 1
        BY <3>2 DEF Verified
      <4> QED
        BY <4>1, <4>2 DEF SchemaFits
    <3> QED
      BY <2>4, <3>1, <3>2
  <2>8. Fitting
    BY <2>3, <2>7 DEF Fitting
  <2>9. ~services.orphaned
    BY <2>4, DownType
  <2>10. \A c \in Commands : aside[c].quarantine.holds.rows = {} /\ aside[c].failed.holds.rows = {}
    BY <2>2, <2>3
  <2>11. Keeping
    BY <2>2, <2>3, <2>9, <2>10 DEF Keeping, Safe, NothingLost
  <2> QED
    BY <2>1, <2>6, <2>8, <2>11 DEF IInv
<1>2. IInv /\ [Next]_vars => IInv'
  BY BaseStep, PointingStep, FittingStep, KeepingStep DEF IInv
<1> QED
  BY <1>1, <1>2, PTL DEF Spec

\* Whatever step of a deployment or rollback failed or was cut short, the link
\* names a whole, verified release or nothing.
THEOREM PointerCorrect == Spec => []PointerStands
<1>1. IInv => PointerStands
  BY DEF IInv, Pointing, PointerStands
<1> QED
  BY <1>1, InvariantHolds, PTL

\* Every release there is to run or to return to runs on the database as it
\* is, whatever was deployed, rolled back or restored meanwhile.
THEOREM SchemaCorrect == Spec => []SchemaFits
<1>1. IInv => SchemaFits
  BY DEF IInv, Fitting
<1> QED
  BY <1>1, InvariantHolds, PTL

\* No accepted consultation disappears from the database and every copy put
\* aside, save in the window two locks leave open.
THEOREM RestoreCorrect == Spec => []NothingLost
<1>1. IInv => NothingLost
  BY DEF IInv, Keeping
<1> QED
  BY <1>1, InvariantHolds, PTL

=============================================================================
