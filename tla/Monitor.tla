------------------------------ MODULE Monitor ------------------------------
(***************************************************************************)
(* The local monitor of the Mac: launchd runs it every five minutes, and   *)
(* an operator may run it beside. A run reads every source at its own      *)
(* moment and hands an unhealthy result to Hermes, which tells the owner.  *)
(* So as not to repeat itself it remembers the last incident it handed     *)
(* over in a protected file, and keeps silent about the same one for a     *)
(* cooldown; a healthy run forgets the incident.                           *)
(*                                                                         *)
(* An incident is the set of failing checks with their codes: the counts   *)
(* and ages a report also carries do not make it another one. Time is kept *)
(* as ages; the clock of the Mac is not set back.                          *)
(***************************************************************************)
EXTENDS Integers

CONSTANTS
  Checks,           \* backup, disk, services, readiness, queues, retention
  Monitors,         \* runs that may overlap
  MaximumAttempts,  \* hand-over attempts of a run
  Cooldown,         \* ticks of silence about an incident handed over
  MaxRunTime,       \* ticks a run may last: its checks and attempts have timeouts
  MaxKills          \* bound: runs killed

ASSUME MonitorAssumption ==
  /\ MaximumAttempts \in Nat \ {0}
  /\ Cooldown \in Nat \ {0}
  /\ MaxRunTime \in Nat
  /\ MaxKills \in Nat

VARIABLES
  healthy,   \* the sources that are healthy
  incident,  \* the incident state file
  monitor,   \* the runs
  kills,     \* runs killed so far
  watched,   \* an incident, any one, that the properties watch
  silence    \* ticks since Hermes accepted a report of the watched incident

vars == <<healthy, incident, monitor, kills, watched, silence>>

\* What a check found: healthy, its source's own failure, or that it could
\* not tell, because it timed out, threw, or read a file that was replaced.
Found == {"healthy", "unhealthy", "failed"}
Incidents == {f \in [Checks -> Found] : \E c \in Checks : f[c] # "healthy"}
NoIncident == [c \in Checks |-> "healthy"]

Horizon == Cooldown + MaxRunTime
Aged(n) == IF n < Horizon THEN n + 1 ELSE n

NoState == [of |-> NoIncident, age |-> Horizon]
Idle == [stage |-> "idle", found |-> [c \in Checks |-> "unread"], attempts |-> 0, age |-> 0]

TypeOK ==
  /\ healthy \subseteq Checks
  /\ incident \in [of : Incidents \cup {NoIncident}, age : 0..Horizon]
  /\ monitor \in [Monitors ->
       [stage : {"idle", "checking", "delivering", "recording"},
        found : [Checks -> Found \cup {"unread", "open", "replaced"}],
        attempts : 0..MaximumAttempts, age : 0..MaxRunTime]]
  /\ kills \in 0..MaxKills
  /\ watched \in Incidents
  /\ silence \in 0..Horizon

Init ==
  /\ healthy = Checks
  /\ incident = NoState
  /\ monitor = [m \in Monitors |-> Idle]
  /\ kills = 0
  /\ watched \in Incidents
  /\ silence = Horizon

At(m, stage) == monitor[m].stage = stage
Becomes(m, run) == monitor' = [monitor EXCEPT ![m] = run]

-----------------------------------------------------------------------------
(* The Mac and the time.                                                   *)

Source(c) ==
  /\ healthy' = IF c \in healthy THEN healthy \ {c} ELSE healthy \cup {c}
  /\ UNCHANGED <<incident, monitor, kills, watched, silence>>

\* A restore, a backup or a deployment renames another file into the place
\* of a source; a run that has the old one open still reads that.
Replace(c) ==
  /\ \E m \in Monitors : monitor[m].found[c] = "open"
  /\ monitor' = [m \in Monitors |->
       IF monitor[m].found[c] = "open" THEN [monitor[m] EXCEPT !.found[c] = "replaced"]
       ELSE monitor[m]]
  /\ UNCHANGED <<healthy, incident, kills, watched, silence>>

Tick ==
  /\ \A m \in Monitors : At(m, "idle") \/ monitor[m].age < MaxRunTime
  /\ silence' = Aged(silence)
  /\ incident' = [incident EXCEPT !.age = Aged(@)]
  /\ monitor' = [m \in Monitors |->
       IF At(m, "idle") THEN monitor[m] ELSE [monitor[m] EXCEPT !.age = @ + 1]]
  /\ UNCHANGED <<healthy, kills, watched>>

-----------------------------------------------------------------------------
(* A run.                                                                  *)

Start(m) ==
  /\ At(m, "idle") /\ Becomes(m, [Idle EXCEPT !.stage = "checking"])
  /\ UNCHANGED <<healthy, incident, kills, watched, silence>>

\* The checks run side by side, each with its timeout: a source is opened,
\* read, and its path looked at again before the result counts.
Open(m, c) ==
  /\ At(m, "checking") /\ monitor[m].found[c] = "unread"
  /\ Becomes(m, [monitor[m] EXCEPT !.found[c] = "open"])
  /\ UNCHANGED <<healthy, incident, kills, watched, silence>>

Result(m, c) ==
  IF monitor[m].found[c] = "replaced" THEN "failed"
  ELSE IF c \in healthy THEN "healthy" ELSE "unhealthy"

Check(m, c) ==
  /\ At(m, "checking") /\ monitor[m].found[c] \in {"open", "replaced"}
  /\ \E f \in {"failed", Result(m, c)} :
       Becomes(m, [monitor[m] EXCEPT !.found[c] = f])
  /\ UNCHANGED <<healthy, incident, kills, watched, silence>>

Checked(m) == At(m, "checking") /\ \A c \in Checks : monitor[m].found[c] \in Found

\* Everything is healthy: the incident is forgotten, if its file can be removed.
ClearIncidentState(m) ==
  /\ Checked(m) /\ monitor[m].found = NoIncident
  /\ incident' \in {incident, NoState}
  /\ Becomes(m, Idle)
  /\ UNCHANGED <<healthy, kills, watched, silence>>

\* Mutant: whatever incident is remembered counts.
AnyIncidentWithinCooldown(m) ==
  /\ incident.of # NoIncident
  /\ monitor[m].age <= incident.age /\ incident.age - monitor[m].age < Cooldown

\* Mutant: an incident once handed over is never handed over again.
NeverAgain(m) == incident.of = monitor[m].found

\* The same incident was handed over less than a cooldown before this run
\* started, and by a run that did not start after it.
WithinCooldown(m) ==
  /\ incident.of = monitor[m].found
  /\ monitor[m].age <= incident.age /\ incident.age - monitor[m].age < Cooldown

Suppress(m) ==
  /\ Checked(m) /\ monitor[m].found # NoIncident
  /\ WithinCooldown(m)
  /\ Becomes(m, Idle)
  /\ UNCHANGED <<healthy, incident, kills, watched, silence>>

\* The file cannot be read: the run ends and hands nothing over.
ReadFails(m) ==
  /\ Checked(m) /\ monitor[m].found # NoIncident
  /\ Becomes(m, Idle)
  /\ UNCHANGED <<healthy, incident, kills, watched, silence>>

HandOver(m) ==
  /\ Checked(m) /\ monitor[m].found # NoIncident
  /\ ~WithinCooldown(m)
  /\ Becomes(m, [monitor[m] EXCEPT !.stage = "delivering"])
  /\ UNCHANGED <<healthy, incident, kills, watched, silence>>

Heard(m) == silence' = IF monitor[m].found = watched THEN 0 ELSE silence

\* Hermes accepts the report and its answer arrives.
Delivered(m) ==
  /\ At(m, "delivering")
  /\ Heard(m)
  /\ Becomes(m, [monitor[m] EXCEPT !.stage = "recording"])
  /\ UNCHANGED <<healthy, incident, kills, watched>>

\* It does not answer, whether or not it took the report: the attempt is
\* repeated, until the last.
AttemptFails(m) ==
  /\ At(m, "delivering")
  /\ Heard(m) \/ UNCHANGED silence
  /\ Becomes(m, IF monitor[m].attempts + 1 < MaximumAttempts
                THEN [monitor[m] EXCEPT !.attempts = @ + 1] ELSE Idle)
  /\ UNCHANGED <<healthy, incident, kills, watched>>

\* The incident is remembered with the time its run started. A write that
\* fails may have renamed the file into place before.
WriteIncidentState(m) ==
  /\ At(m, "recording")
  /\ incident' \in {incident, [of |-> monitor[m].found, age |-> monitor[m].age]}
  /\ Becomes(m, Idle)
  /\ UNCHANGED <<healthy, kills, watched, silence>>

\* The run is killed.
Kill(m) ==
  /\ ~At(m, "idle") /\ Becomes(m, Idle)
  /\ kills < MaxKills /\ kills' = kills + 1
  /\ UNCHANGED <<healthy, incident, watched, silence>>

RunStep(m) ==
  \/ Start(m) \/ (\E c \in Checks : Open(m, c) \/ Check(m, c))
  \/ ClearIncidentState(m) \/ Suppress(m) \/ HandOver(m) \/ WriteIncidentState(m)

Next ==
  \/ \E c \in Checks : Source(c) \/ Replace(c)
  \/ Tick
  \/ \E m \in Monitors :
       RunStep(m) \/ ReadFails(m) \/ Delivered(m) \/ AttemptFails(m) \/ Kill(m)

Spec == Init /\ [][Next]_vars

\* launchd starts the monitor again and again; the file is not unreadable, nor
\* Hermes silent, for ever.
FairSpec ==
  /\ Spec /\ WF_vars(Tick)
  /\ \A m \in Monitors :
       WF_vars(RunStep(m)) /\ SF_vars(HandOver(m)) /\ SF_vars(Delivered(m))

-----------------------------------------------------------------------------
(* Properties.                                                             *)

\* A run keeps silent about an incident only when Hermes accepted a report
\* of exactly this incident less than a cooldown, and the time of the runs,
\* ago: not for another one, not for one it only tried to hand over.
SilenceIsEarned ==
  \A m \in Monitors :
    (Checked(m) /\ monitor[m].found = watched /\ WithinCooldown(m)) => silence < Horizon

\* A source that stays unhealthy is reported again and again, whatever else
\* fails and recovers meanwhile.
IncidentsHeard ==
  \A c \in Checks :
    <>[](c \notin healthy)
      => []<><<\E m \in Monitors : Delivered(m) /\ monitor[m].found[c] # "healthy">>_vars

=============================================================================
