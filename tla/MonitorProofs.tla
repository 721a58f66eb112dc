---------------------------- MODULE MonitorProofs ----------------------------
(***************************************************************************)
(* Proofs about Monitor, for any sources, any number of overlapping runs,  *)
(* any cooldown and any time limits: a run that keeps silent about an      *)
(* incident does so because Hermes accepted a report of it not long ago.   *)
(***************************************************************************)
EXTENDS Monitor, TLAPS

-----------------------------------------------------------------------------
(* The inductive invariant.                                                *)

\* What a run hands over, or remembers, is an incident.
ReportsSound ==
  \A m \in Monitors :
    monitor[m].stage \in {"delivering", "recording"} => monitor[m].found \in Incidents

\* Hermes heard of the watched incident no longer ago than the file says, and
\* since the run started that is about to write it there.
HeardSince ==
  /\ incident.of = watched => silence <= incident.age
  /\ \A m \in Monitors :
       At(m, "recording") /\ monitor[m].found = watched => silence <= monitor[m].age

IInv == TypeOK /\ ReportsSound /\ HeardSince

-----------------------------------------------------------------------------
(* The runs.                                                               *)

Run == [stage : {"idle", "checking", "delivering", "recording"},
        found : [Checks -> Found \cup {"unread", "open", "replaced"}],
        attempts : 0..MaximumAttempts, age : 0..MaxRunTime]

LEMMA Numbers ==
  /\ MaximumAttempts \in Nat /\ MaximumAttempts > 0
  /\ Cooldown \in Nat /\ MaxRunTime \in Nat /\ Horizon \in Nat
  /\ MaxRunTime <= Horizon
  BY MonitorAssumption DEF Horizon

LEMMA RunType == ASSUME TypeOK, NEW m \in Monitors PROVE monitor[m] \in Run
  BY DEF TypeOK, Run

LEMMA IdleRun == Idle \in Run
  BY Numbers DEF Idle, Run

LEMMA IncidentFound ==
  /\ Incidents \subseteq [Checks -> Found]
  /\ NoIncident \in [Checks -> Found] /\ NoIncident \notin Incidents
  /\ \A f \in [Checks -> Found] : f # NoIncident => f \in Incidents
<1>1. \A f \in [Checks -> Found] : f # NoIncident => \E c \in Checks : f[c] # "healthy"
  <2> SUFFICES ASSUME NEW f \in [Checks -> Found], \A c \in Checks : f[c] = "healthy"
               PROVE  f = NoIncident
    OBVIOUS
  <2> QED
    BY DEF NoIncident
<1> QED
  BY <1>1 DEF Incidents, NoIncident, Found

\* A step of one run that neither reports nor remembers anything. What it hands
\* over next is an incident, and it does not come to remember one.
LEMMA RunKeeps ==
  ASSUME IInv, NEW m \in Monitors, NEW r \in Run, Becomes(m, r),
         r.stage # "recording",
         r.stage = "delivering" => r.found \in Incidents,
         UNCHANGED <<incident, watched, silence>>,
         healthy' \subseteq Checks, kills' \in 0..MaxKills
  PROVE  IInv'
<1>1. /\ monitor' \in [Monitors -> Run] /\ monitor'[m] = r
      /\ \A n \in Monitors \ {m} : monitor'[n] = monitor[n]
  BY DEF IInv, TypeOK, Run, Becomes
<1>2. TypeOK'
  BY <1>1 DEF IInv, TypeOK, Run
<1>3. ReportsSound'
  BY <1>1 DEF IInv, ReportsSound
<1>4. HeardSince'
  BY <1>1 DEF IInv, HeardSince, At
<1> QED
  BY <1>2, <1>3, <1>4 DEF IInv

-----------------------------------------------------------------------------
(* The steps.                                                              *)

LEMMA InitIInv == Init => IInv
<1> SUFFICES ASSUME Init PROVE IInv
  OBVIOUS
<1>1. TypeOK
  <2>1. monitor \in [Monitors -> Run]
    BY IdleRun DEF Init
  <2>2. NoState \in [of : Incidents \cup {NoIncident}, age : 0..Horizon]
    BY Numbers DEF NoState
  <2> QED
    BY <2>1, <2>2, Numbers, MonitorAssumption DEF Init, TypeOK, Run
<1>2. ReportsSound
  BY DEF Init, Idle, ReportsSound
<1>3. HeardSince
  BY IncidentFound DEF Init, Idle, NoState, HeardSince, At
<1> QED
  BY <1>1, <1>2, <1>3 DEF IInv

LEMMA ReplaceKeeps == ASSUME IInv, NEW c \in Checks, Replace(c) PROVE IInv'
<1> DEFINE g(m) == [monitor[m] EXCEPT !.found[c] = "replaced"]
<1>1. \A m \in Monitors :
        /\ g(m) \in Run
        /\ g(m).stage = monitor[m].stage /\ g(m).age = monitor[m].age
  BY RunType DEF IInv, Run
<1>2. /\ \A m \in Monitors : monitor'[m] = IF monitor[m].found[c] = "open" THEN g(m) ELSE monitor[m]
      /\ UNCHANGED <<healthy, incident, kills, watched, silence>>
      /\ monitor' = [m \in Monitors |-> monitor'[m]]
  BY DEF Replace
<1> HIDE DEF g
<1>3. monitor' \in [Monitors -> Run]
  BY <1>1, <1>2, RunType DEF IInv
<1>4. \A m \in Monitors : monitor[m].stage \in {"delivering", "recording"} => monitor'[m] = monitor[m]
  BY <1>2, IncidentFound DEF IInv, ReportsSound, Found
<1>5. \A m \in Monitors : monitor'[m].stage = monitor[m].stage
  BY <1>1, <1>2
<1>6. TypeOK'
  BY <1>2, <1>3 DEF IInv, TypeOK, Run
<1>7. ReportsSound' /\ HeardSince'
  BY <1>2, <1>4, <1>5 DEF IInv, ReportsSound, HeardSince, At
<1> QED
  BY <1>6, <1>7 DEF IInv

\* Time ages the file, the runs and the silence alike, each up to its bound.
LEMMA TickKeeps == ASSUME IInv, Tick PROVE IInv'
<1> USE Numbers
<1> DEFINE g(m) == [monitor[m] EXCEPT !.age = @ + 1]
<1>1. \A m \in Monitors :
        /\ g(m).stage = monitor[m].stage /\ g(m).found = monitor[m].found
        /\ g(m).age = monitor[m].age + 1 /\ monitor[m].age \in Nat
        /\ ~At(m, "idle") => g(m) \in Run
  BY RunType DEF IInv, Run, Tick
<1>2. /\ \A m \in Monitors : monitor'[m] = IF At(m, "idle") THEN monitor[m] ELSE g(m)
      /\ UNCHANGED <<healthy, kills, watched>>
      /\ monitor' = [m \in Monitors |-> monitor'[m]]
  BY DEF Tick
<1> HIDE DEF g
<1>3. monitor' \in [Monitors -> Run]
  BY <1>1, <1>2, RunType DEF IInv
<1>4. /\ incident.age \in 0..Horizon /\ silence \in 0..Horizon
      /\ incident \in [of : Incidents \cup {NoIncident}, age : 0..Horizon]
  BY DEF IInv, TypeOK
<1>5. /\ silence' = Aged(silence) /\ silence' \in 0..Horizon /\ silence' <= silence + 1
      /\ incident'.age = Aged(incident.age) /\ incident'.of = incident.of
      /\ incident' \in [of : Incidents \cup {NoIncident}, age : 0..Horizon]
  BY <1>4 DEF Tick, Aged
<1>6. TypeOK'
  BY <1>2, <1>3, <1>5 DEF IInv, TypeOK, Run
<1>7. ReportsSound'
  BY <1>1, <1>2 DEF IInv, ReportsSound
<1>8. incident.of = watched => silence' <= incident'.age
  BY <1>4, <1>5 DEF IInv, HeardSince, Aged
<1>9. \A m \in Monitors : At(m, "recording") /\ monitor[m].found = watched
        => silence' <= monitor[m].age + 1
  BY <1>1, <1>4, <1>5 DEF IInv, HeardSince
<1>10. HeardSince'
  BY <1>1, <1>2, <1>5, <1>8, <1>9 DEF HeardSince, At
<1> QED
  BY <1>6, <1>7, <1>10 DEF IInv

\* The answer of Hermes: the watched incident was heard of now.
LEMMA HeardKeeps ==
  ASSUME IInv, NEW m \in Monitors, NEW r \in Run, Becomes(m, r),
         r.found = monitor[m].found \/ r.stage \notin {"delivering", "recording"},
         At(m, "delivering"),
         r.stage = "recording" => Heard(m),
         Heard(m) \/ UNCHANGED silence,
         UNCHANGED <<healthy, incident, kills, watched>>
  PROVE  IInv'
<1> USE Numbers
<1>1. /\ monitor' \in [Monitors -> Run] /\ monitor'[m] = r
      /\ \A n \in Monitors \ {m} : monitor'[n] = monitor[n]
  BY DEF IInv, TypeOK, Run, Becomes
<1>2. silence' \in {0, silence} /\ silence \in 0..Horizon /\ incident.age \in 0..Horizon
  BY DEF Heard, IInv, TypeOK
<1>3. TypeOK'
  BY <1>1, <1>2 DEF IInv, TypeOK, Run
<1>4. ReportsSound'
  BY <1>1 DEF IInv, ReportsSound, At
<1>5. incident.of = watched => silence' <= incident.age
  BY <1>2 DEF IInv, HeardSince
<1>6. \A n \in Monitors \ {m} : At(n, "recording") /\ monitor[n].found = watched
        => silence' <= monitor[n].age
  <2>1. \A n \in Monitors : monitor[n].age \in Nat
    BY RunType DEF IInv, Run
  <2> QED
    BY <1>2, <2>1 DEF IInv, HeardSince
<1>7. r.stage = "recording" /\ r.found = watched => silence' <= r.age
  BY DEF Heard, Run
<1>8. HeardSince'
  BY <1>1, <1>5, <1>6, <1>7 DEF HeardSince, At
<1> QED
  BY <1>3, <1>4, <1>8 DEF IInv

\* What a run remembers is as old as the run, and was heard of since it started.
LEMMA WriteKeeps ==
  ASSUME IInv, NEW m \in Monitors, WriteIncidentState(m)
  PROVE  IInv'
<1> USE Numbers
<1>1. /\ monitor' \in [Monitors -> Run] /\ monitor'[m] = Idle
      /\ \A n \in Monitors \ {m} : monitor'[n] = monitor[n]
  BY IdleRun DEF IInv, TypeOK, Run, Becomes, WriteIncidentState
<1> DEFINE i == [of |-> monitor[m].found, age |-> monitor[m].age]
<1>2. /\ incident' \in {incident, i} /\ UNCHANGED <<healthy, kills, watched, silence>>
      /\ At(m, "recording")
  BY DEF WriteIncidentState
<1>3. /\ i \in [of : Incidents \cup {NoIncident}, age : 0..Horizon]
      /\ i.of = watched => silence <= i.age
  <2>1. monitor[m].found \in Incidents /\ monitor[m].age \in 0..Horizon
    BY <1>2, RunType DEF IInv, ReportsSound, At, Run
  <2>2. monitor[m].found = watched => silence <= monitor[m].age
    BY <1>2 DEF IInv, HeardSince
  <2> QED
    BY <2>1, <2>2
<1> HIDE DEF i
<1>4. TypeOK'
  BY <1>1, <1>2, <1>3 DEF IInv, TypeOK, Run
<1>5. ReportsSound'
  BY <1>1 DEF IInv, ReportsSound, Idle
<1>6. HeardSince'
  BY <1>1, <1>2, <1>3 DEF IInv, HeardSince, At, Idle
<1> QED
  BY <1>4, <1>5, <1>6 DEF IInv

\* A healthy run forgets whatever was remembered.
LEMMA ClearKeeps ==
  ASSUME IInv, NEW m \in Monitors, ClearIncidentState(m)
  PROVE  IInv'
<1> USE Numbers
<1>1. /\ monitor' \in [Monitors -> Run] /\ monitor'[m] = Idle
      /\ \A n \in Monitors \ {m} : monitor'[n] = monitor[n]
  BY IdleRun DEF IInv, TypeOK, Run, Becomes, ClearIncidentState
<1>2. incident' \in {incident, NoState} /\ UNCHANGED <<healthy, kills, watched, silence>>
  BY DEF ClearIncidentState
<1>3. /\ NoState \in [of : Incidents \cup {NoIncident}, age : 0..Horizon]
      /\ NoState.of # watched
  BY IncidentFound DEF NoState, IInv, TypeOK
<1> HIDE DEF NoState
<1>4. TypeOK'
  BY <1>1, <1>2, <1>3 DEF IInv, TypeOK, Run
<1>5. ReportsSound'
  BY <1>1 DEF IInv, ReportsSound, Idle
<1>6. HeardSince'
  BY <1>1, <1>2, <1>3 DEF IInv, HeardSince, At, Idle
<1> QED
  BY <1>4, <1>5, <1>6 DEF IInv

LEMMA NextKeeps == IInv /\ [Next]_vars => IInv'
<1> SUFFICES ASSUME IInv, [Next]_vars PROVE IInv'
  OBVIOUS
<1>0. healthy \subseteq Checks /\ kills \in 0..MaxKills /\ \A m \in Monitors : monitor[m] \in Run
  BY RunType DEF IInv, TypeOK
<1>1. CASE UNCHANGED vars
  BY <1>1 DEF vars, IInv, TypeOK, ReportsSound, HeardSince, At
<1>2. ASSUME NEW c \in Checks, Source(c) PROVE IInv'
  BY <1>0, <1>2 DEF Source, IInv, TypeOK, ReportsSound, HeardSince, At
<1>3. ASSUME NEW c \in Checks, Replace(c) PROVE IInv'
  BY <1>3, ReplaceKeeps
<1>4. CASE Tick
  BY <1>4, TickKeeps
<1>5. ASSUME NEW m \in Monitors, Start(m) PROVE IInv'
  <2>1. [Idle EXCEPT !.stage = "checking"] \in Run
          /\ [Idle EXCEPT !.stage = "checking"].stage = "checking"
    BY IdleRun DEF Run
  <2> QED
    BY <1>0, <1>5, <2>1, RunKeeps DEF Start
<1>6. ASSUME NEW m \in Monitors, NEW c \in Checks, Open(m, c) \/ Check(m, c) PROVE IInv'
  <2>1. PICK f \in Found \cup {"open"} : Becomes(m, [monitor[m] EXCEPT !.found[c] = f])
    BY <1>6 DEF Open, Check, Result, Found
  <2>2. [monitor[m] EXCEPT !.found[c] = f] \in Run
    BY <1>0 DEF Run
  <2>3. [monitor[m] EXCEPT !.found[c] = f].stage = "checking"
    BY <1>0, <1>6 DEF Run, Open, Check, At
  <2>4. UNCHANGED <<healthy, incident, kills, watched, silence>>
    BY <1>6 DEF Open, Check
  <2> QED
    BY <1>0, <2>1, <2>2, <2>3, <2>4, RunKeeps
<1>7. ASSUME NEW m \in Monitors, ClearIncidentState(m) PROVE IInv'
  BY <1>7, ClearKeeps
<1>8. ASSUME NEW m \in Monitors, Suppress(m) \/ ReadFails(m) \/ Kill(m) PROVE IInv'
  <2>1. Becomes(m, Idle) /\ UNCHANGED <<healthy, incident, watched, silence>>
          /\ kills' \in 0..MaxKills
    BY <1>0, <1>8, MonitorAssumption DEF Suppress, ReadFails, Kill
  <2>2. Idle.stage = "idle"
    BY DEF Idle
  <2> QED
    BY <1>0, <2>1, <2>2, IdleRun, RunKeeps
<1>9. ASSUME NEW m \in Monitors, HandOver(m) PROVE IInv'
  <2> DEFINE r == [monitor[m] EXCEPT !.stage = "delivering"]
  <2>1. r \in Run /\ r.stage = "delivering" /\ r.found = monitor[m].found
    BY <1>0 DEF Run
  <2>2. monitor[m].found \in [Checks -> Found]
    BY <1>0, <1>9 DEF HandOver, Checked, Run
  <2>3. monitor[m].found \in Incidents
    BY <1>9, <2>2, IncidentFound DEF HandOver
  <2>4. Becomes(m, r) /\ UNCHANGED <<healthy, incident, kills, watched, silence>>
    BY <1>9 DEF HandOver
  <2> HIDE DEF r
  <2> QED
    BY <1>0, <2>1, <2>3, <2>4, RunKeeps
<1>10. ASSUME NEW m \in Monitors, Delivered(m) PROVE IInv'
  <2> DEFINE r == [monitor[m] EXCEPT !.stage = "recording"]
  <2>1. r \in Run /\ r.stage = "recording" /\ r.found = monitor[m].found
    BY <1>0 DEF Run
  <2>2. Becomes(m, r) /\ Heard(m) /\ At(m, "delivering")
          /\ UNCHANGED <<healthy, incident, kills, watched>>
    BY <1>10 DEF Delivered
  <2> HIDE DEF r
  <2> QED
    BY <2>1, <2>2, HeardKeeps
<1>11. ASSUME NEW m \in Monitors, AttemptFails(m) PROVE IInv'
  <2> DEFINE r == [monitor[m] EXCEPT !.attempts = @ + 1]
  <2>1. At(m, "delivering") /\ (Heard(m) \/ UNCHANGED silence)
          /\ UNCHANGED <<healthy, incident, kills, watched>>
    BY <1>11 DEF AttemptFails
  <2>2. CASE monitor[m].attempts + 1 < MaximumAttempts
    <3>1. r \in Run /\ r.stage = "delivering" /\ r.found = monitor[m].found
      BY <1>0, <2>1, <2>2, Numbers DEF Run, At
    <3>2. Becomes(m, r)
      BY <1>11, <2>2 DEF AttemptFails
    <3> HIDE DEF r
    <3> QED
      BY <2>1, <3>1, <3>2, HeardKeeps
  <2>3. CASE ~(monitor[m].attempts + 1 < MaximumAttempts)
    <3>1. Becomes(m, Idle) /\ Idle.stage = "idle"
      BY <1>11, <2>3 DEF AttemptFails, Idle
    <3> QED
      BY <2>1, <3>1, IdleRun, HeardKeeps
  <2> QED
    BY <2>2, <2>3
<1>12. ASSUME NEW m \in Monitors, WriteIncidentState(m) PROVE IInv'
  BY <1>12, WriteKeeps
<1> QED
  BY <1>1, <1>2, <1>3, <1>4, <1>5, <1>6, <1>7, <1>8, <1>9, <1>10, <1>11, <1>12
  DEF Next, RunStep

-----------------------------------------------------------------------------
(* The theorems.                                                           *)

LEMMA Invariant == Spec => []IInv
  BY InitIInv, NextKeeps, PTL DEF Spec

\* The runs and the protected file keep their types, whatever is killed,
\* replaced or not written.
THEOREM TypeCorrect == Spec => []TypeOK
<1>1. IInv => TypeOK
  BY DEF IInv
<1> QED
  BY <1>1, Invariant, PTL

\* A run is silent about an incident only when Hermes accepted a report of
\* exactly that one less than a cooldown, and the time of the runs, ago.
THEOREM SilenceCorrect == Spec => []SilenceIsEarned
<1>1. IInv => SilenceIsEarned
  <2> SUFFICES ASSUME IInv, NEW m \in Monitors, monitor[m].found = watched, WithinCooldown(m)
               PROVE  silence < Horizon
    BY DEF SilenceIsEarned
  <2>1. silence <= incident.age
    BY DEF IInv, HeardSince, WithinCooldown
  <2>2. /\ incident.age - monitor[m].age < Cooldown
        /\ incident.age \in Nat /\ monitor[m].age \in 0..MaxRunTime /\ silence \in Nat
    BY RunType, Numbers DEF IInv, TypeOK, Run, WithinCooldown
  <2> QED
    BY <2>1, <2>2, Numbers DEF Horizon
<1> QED
  BY <1>1, Invariant, PTL

=============================================================================
