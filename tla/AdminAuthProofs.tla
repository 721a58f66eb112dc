--------------------------- MODULE AdminAuthProofs ---------------------------
(***************************************************************************)
(* Theorems about the administrator's way in, for any number of logins,    *)
(* permits, resets and second factors, and any times: a reset stands, a    *)
(* factor signs in once, and guesses stay below the limit.                 *)
(***************************************************************************)
EXTENDS AdminAuth, FiniteSetTheorems, TLAPS

USE AuthAssumption

-----------------------------------------------------------------------------
(* Numbers.                                                                *)

LEMMA BoundTypes ==
  /\ Permits \in Nat \ {0} /\ Limit \in Nat \ {0} /\ Window \in Nat \ {0}
  /\ AdmissionLife \in Nat /\ ChallengeLife \in Nat /\ SessionLife \in Nat /\ SessionIdle \in Nat
  /\ MaxTime \in Nat /\ MaxResets \in Nat /\ MaxFactors \in Nat /\ MaxMisses \in Nat
  OBVIOUS

USE BoundTypes

LEMMA StartBounds ==
  ASSUME NEW t \in Nat
  PROVE  Start(t) \in Nat /\ Start(t) <= t /\ t < Start(t) + Window
<1>1. \A w \in Nat \ {0} : /\ (t \div w) * w \in Nat
                           /\ (t \div w) * w <= t /\ t < (t \div w) * w + w
  OBVIOUS
<1> QED
  BY <1>1 DEF Start

LEMMA WindowTypes == /\ \A t \in Times : Start(t) \in Windows /\ t \in Nat
                     /\ \A w \in Windows : w \in Nat
  BY StartBounds DEF Windows, Times

-----------------------------------------------------------------------------
(* The logins and the gate.                                                *)

Busy == {l \in Logins : login[l].stage \in {"waiting", "verifying"}}

\* Who waits at the gate is waiting, and no login is from the future.
GateSound ==
  /\ \A m \in ToSet(gate.waiters) : login[m].stage = "waiting"
  /\ \A l \in Logins : login[l].at <= now

\* A login ends, and its permit is handed on or given back.
LEMMA EndedShape ==
  ASSUME TypeOK, GateSound, NEW l \in Logins, login[l].stage = "verifying",
         NEW g \in BOOLEAN, login' = Ended(l, g), gate' = PermitReleased
  PROVE  /\ login' \in [Logins -> Login]
         /\ login'[l].stage = "over" /\ login'[l].guessed = g
         /\ \A m \in Logins :
              /\ login'[m].typed = login[m].typed /\ login'[m].at = login[m].at
              /\ login'[m].hash = login[m].hash
              /\ m # l => /\ login'[m].guessed = login[m].guessed
                          /\ login'[m].stage # login[m].stage
                               => login[m].stage = "waiting" /\ login'[m].stage = "verifying"
         /\ Busy' = Busy \ {l}
         /\ \A m \in ToSet(gate'.waiters) : login'[m].stage = "waiting"
         /\ gate'.waiters \in Seq(Logins)
         /\ \/ gate'.taken = gate.taken /\ Len(gate'.waiters) = Len(gate.waiters) - 1
            \/ gate'.taken = gate.taken - 1 /\ Len(gate'.waiters) = 0
<1> DEFINE woken == ToSet(gate.waiters) \ ToSet(PermitReleased.waiters)
<1>1. \A m \in Logins : login[m] \in Login
  BY DEF TypeOK
<1>2. woken \in SUBSET ToSet(gate.waiters)
  OBVIOUS
<1>4. gate.waiters \in Seq(Logins)
  BY DEF TypeOK
<1>5. /\ gate'.waiters \in Seq(Logins)
      /\ ToSet(gate'.waiters) \subseteq ToSet(gate.waiters)
      /\ \/ gate'.taken = gate.taken /\ Len(gate'.waiters) = Len(gate.waiters) - 1
         \/ gate'.taken = gate.taken - 1 /\ Len(gate'.waiters) = 0
  <2>1. CASE gate.waiters # <<>>
    <3>1. gate'.waiters = Tail(gate.waiters) /\ gate'.taken = gate.taken
      BY <2>1 DEF PermitReleased, TypeOK
    <3>2. /\ Tail(gate.waiters) \in Seq(Logins)
          /\ Len(Tail(gate.waiters)) = Len(gate.waiters) - 1
          /\ \A i \in DOMAIN Tail(gate.waiters) :
               i + 1 \in DOMAIN gate.waiters /\ Tail(gate.waiters)[i] = gate.waiters[i + 1]
      BY <1>4, <2>1
    <3> QED
      BY <3>1, <3>2 DEF ToSet
  <2>2. CASE gate.waiters = <<>>
    <3>1. gate'.waiters = gate.waiters /\ gate'.taken = gate.taken - 1
      BY <2>2 DEF PermitReleased, TypeOK
    <3> QED
      BY <3>1, <1>4, <2>2
  <2> QED
    BY <2>1, <2>2
<1>6. ToSet(gate'.waiters) \cap woken = {}
  OBVIOUS
<1>7. \A m \in ToSet(gate.waiters) : m \in Logins /\ login[m].stage = "waiting" /\ m # l
  BY <1>4 DEF ToSet, GateSound
<1>3. /\ login'[l] = [login[l] EXCEPT !.stage = "over", !.guessed = g]
      /\ \A m \in Logins \ {l} :
           /\ m \in woken => login'[m] = [login[m] EXCEPT !.stage = "verifying"]
           /\ m \notin woken => login'[m] = login[m]
  <2>1. l \notin woken
    BY <1>2, <1>7
  <2> QED
    BY <2>1 DEF Ended
<1> HIDE DEF woken
<1>8. /\ login'[l] \in Login /\ login'[l].stage = "over" /\ login'[l].guessed = g
      /\ login'[l].typed = login[l].typed /\ login'[l].at = login[l].at
      /\ login'[l].hash = login[l].hash
  BY <1>1, <1>3 DEF Login
<1>9. ASSUME NEW m \in Logins \ {l}
      PROVE  /\ login'[m] \in Login
             /\ login'[m].typed = login[m].typed /\ login'[m].at = login[m].at
             /\ login'[m].hash = login[m].hash /\ login'[m].guessed = login[m].guessed
             /\ m \notin woken => login'[m].stage = login[m].stage
             /\ m \in woken => login'[m].stage = "verifying"
  <2>1. CASE m \in woken
    <3>1. login[m] \in Login /\ login'[m] = [login[m] EXCEPT !.stage = "verifying"]
      BY <1>1, <1>3, <2>1
    <3> QED
      BY <2>1, <3>1 DEF Login
  <2>2. CASE m \notin woken
    BY <1>1, <1>3, <2>2
  <2> QED
    BY <2>1, <2>2
<1>12. login' \in [Logins -> Login]
  <2>1. login' = [m \in Logins |-> login'[m]]
    BY DEF Ended
  <2> QED
    BY <1>8, <1>9, <2>1
<1>10. Busy' = Busy \ {l}
  BY <1>2, <1>7, <1>8, <1>9 DEF Busy
<1>11. \A m \in ToSet(gate'.waiters) : login'[m].stage = "waiting"
  BY <1>5, <1>6, <1>7, <1>9
<1> QED
  BY <1>2, <1>5, <1>7, <1>8, <1>9, <1>10, <1>11, <1>12

-----------------------------------------------------------------------------
(* Types.                                                                  *)

LEMMA ThrottleTypes ==
  ASSUME TypeOK, NEW t \in Times
  PROVE  /\ LiveBucket(t) \in [Windows -> Nat] /\ Failed(t) \in [Windows -> Nat]
         /\ LiveAdmissions(t) \in SUBSET admission /\ BelowLimit(t) \in BOOLEAN
<1>1. LiveBucket(t) \in [Windows -> Nat]
  BY DEF LiveBucket, TypeOK
<1>2. Start(t) \in Windows
  BY WindowTypes
<1>3. Failed(t) \in [Windows -> Nat]
  BY <1>1, <1>2 DEF Failed
<1> QED
  BY <1>1, <1>3 DEF LiveAdmissions, BelowLimit

\* What TypeOK says of each variable, but for the count of the busy logins.
Types ==
  /\ now \in Times /\ admin \in Admin /\ resets \in Passwords
  /\ login \in [Logins -> Login]
  /\ gate \in [taken : 0..Permits, waiters : Seq(Logins)]
  /\ admission \subseteq Logins /\ bucket \in [Windows -> Nat]
  /\ challenge \in [Logins -> Challenge] /\ session \in [Logins -> Session]
  /\ \A l \in Logins : session[l].until <= session[l].made + SessionLife
  /\ misses \in 0..MaxMisses

Counted == gate.taken + Len(gate.waiters) = Cardinality(Busy)

LEMMA TypeParts == TypeOK <=> Types /\ Counted
  BY DEF TypeOK, Types, Counted, Busy

LEMMA BusyFinite == IsFiniteSet(Busy) /\ Cardinality(Busy) \in Nat
<1>1. Busy \in SUBSET Logins
  BY DEF Busy
<1>2. IsFiniteSet(Busy)
  BY <1>1, FS_Subset
<1> QED
  BY <1>2, FS_CardinalityType

LEMMA InitTypes == Init => TypeOK
<1> SUFFICES ASSUME Init PROVE TypeOK
  OBVIOUS
<1>1. Types
  BY DEF Init, Types, NewLogin, NoChallenge, NoSession, Admin, Login, Challenge, Session,
         Passwords, Secrets, Times
<1>2. Busy = {}
  BY DEF Init, NewLogin, Busy
<1>3. gate.taken + Len(gate.waiters) = 0
  BY DEF Init
<1> QED
  BY <1>1, <1>2, <1>3, FS_EmptySet, TypeParts DEF Counted

LEMMA ReserveTypes ==
  ASSUME TypeOK, NEW l \in Logins, Reserve(l)
  PROVE  Types' /\ Busy' = Busy /\ gate' = gate
<1>1. PICK p \in Passwords :
        login' = [login EXCEPT ![l].stage = "reserved", ![l].typed = p,
                               ![l].at = now, ![l].admitted = BelowLimit(now)]
  BY DEF Reserve
<1>2. login[l] \in Login /\ now \in Times /\ BelowLimit(now) \in BOOLEAN
  BY ThrottleTypes DEF TypeOK
<1>3. login' = [login EXCEPT ![l] = [login[l] EXCEPT !.stage = "reserved", !.typed = p,
                                       !.at = now, !.admitted = BelowLimit(now)]]
  BY <1>1, <1>2 DEF TypeOK, Login
<1>4. login'[l] \in Login /\ login'[l].stage = "reserved"
      /\ \A m \in Logins \ {l} : login'[m] = login[m]
  BY <1>2, <1>3 DEF TypeOK, Login
<1>5. login' \in [Logins -> Login]
  BY <1>3, <1>4 DEF TypeOK
<1>6. admission' \subseteq Logins /\ bucket' \in [Windows -> Nat]
  BY <1>2, ThrottleTypes DEF Reserve, TypeOK
<1>7. Busy' = Busy
  BY <1>4 DEF Busy, Reserve
<1> QED
  BY <1>5, <1>6, <1>7 DEF Reserve, TypeOK, Types

LEMMA ReadTypes ==
  ASSUME TypeOK, NEW l \in Logins, ReadAdmin(l)
  PROVE  TypeOK'
<1> DEFINE free == gate.taken < Permits /\ gate.waiters = <<>>
           stage == IF free THEN "verifying" ELSE "waiting"
<1>1. login[l] \in Login /\ admin.password \in Passwords /\ admin.weak \in BOOLEAN
      /\ login[l].stage = "reserved"
  BY DEF TypeOK, Admin, ReadAdmin
<1>2. login' = [login EXCEPT ![l] = [login[l] EXCEPT !.stage = stage,
                                       !.hash = admin.password, !.weak = admin.weak]]
  BY <1>1 DEF TypeOK, Login, ReadAdmin
<1>3. stage \in {"waiting", "verifying"}
  OBVIOUS
<1> HIDE DEF stage
<1>4. login'[l] \in Login /\ login'[l].stage = stage
      /\ \A m \in Logins \ {l} : login'[m] = login[m]
  BY <1>1, <1>2, <1>3 DEF TypeOK, Login
<1>5. login' \in [Logins -> Login]
  BY <1>2, <1>4 DEF TypeOK
<1>6. /\ gate' \in [taken : 0..Permits, waiters : Seq(Logins)]
      /\ gate'.taken + Len(gate'.waiters) = gate.taken + Len(gate.waiters) + 1
  <2>1. gate \in [taken : 0..Permits, waiters : Seq(Logins)]
    BY DEF TypeOK
  <2>2. CASE free
    BY <2>1, <2>2 DEF ReadAdmin
  <2>3. CASE ~free
    <3>1. gate' = [gate EXCEPT !.waiters = Append(@, l)]
      BY <2>3 DEF ReadAdmin
    <3>2. Append(gate.waiters, l) \in Seq(Logins) /\ Len(Append(gate.waiters, l)) = Len(gate.waiters) + 1
      BY <2>1
    <3>3. Len(gate.waiters) \in Nat /\ gate.taken \in Nat
      BY <2>1
    <3>4. gate' = [taken |-> gate.taken, waiters |-> Append(gate.waiters, l)]
      BY <2>1, <3>1
    <3>5. gate' \in [taken : 0..Permits, waiters : Seq(Logins)]
      BY <2>1, <3>2, <3>4
    <3>6. gate'.taken = gate.taken /\ Len(gate'.waiters) = Len(gate.waiters) + 1
      BY <3>2, <3>4
    <3> QED
      BY <3>3, <3>5, <3>6
  <2> QED
    BY <2>2, <2>3
<1>7. Busy' = Busy \cup {l} /\ l \notin Busy
  BY <1>1, <1>3, <1>4 DEF Busy
<1>8. Cardinality(Busy') = Cardinality(Busy) + 1
  BY <1>7, BusyFinite, FS_AddElement
<1>9. Types'
  BY <1>5, <1>6 DEF ReadAdmin, TypeOK, Types
<1>10. Counted'
  BY <1>6, <1>8, TypeParts DEF Counted
<1>11. TypeOK' <=> Types' /\ Counted'
  BY TypeParts, PTL
<1> QED
  BY <1>9, <1>10, <1>11

LEMMA VerifiedTypes ==
  ASSUME TypeOK, GateSound, NEW l \in Logins, Verified(l)
  PROVE  TypeOK'
<1>1. PICK g \in BOOLEAN : login' = Ended(l, g) /\ gate' = PermitReleased /\ login[l].stage = "verifying"
  <2>1. CASE VerificationFails(l)
    <3>1. (l \in LiveAdmissions(login[l].at)) \in BOOLEAN
      OBVIOUS
    <3> QED
      BY <2>1, <3>1 DEF VerificationFails
  <2>2. CASE VerificationSucceeds(l)
    BY <2>2 DEF VerificationSucceeds
  <2> QED
    BY <2>1, <2>2 DEF Verified
<1>2. login[l].at \in Times
  BY DEF TypeOK, Login
<1>3. /\ login' \in [Logins -> Login]
      /\ Busy' = Busy \ {l}
      /\ gate'.waiters \in Seq(Logins)
      /\ \/ gate'.taken = gate.taken /\ Len(gate'.waiters) = Len(gate.waiters) - 1
         \/ gate'.taken = gate.taken - 1 /\ Len(gate'.waiters) = 0
  BY <1>1, EndedShape
<1>4. Cardinality(Busy') = Cardinality(Busy) - 1 /\ Cardinality(Busy') \in Nat
  <2>1. l \in Busy
    BY <1>1 DEF Busy
  <2> QED
    BY <1>3, <2>1, BusyFinite, FS_RemoveElement, FS_CardinalityType
<1>5. /\ gate.taken \in 0..Permits /\ Len(gate.waiters) \in Nat
      /\ gate.taken + Len(gate.waiters) = Cardinality(Busy)
  BY TypeParts DEF TypeOK, Counted
<1>6. gate.waiters = <<>> \/ gate.waiters # <<>>
  OBVIOUS
<1>7. gate'.taken = gate.taken - 1 => gate.waiters = <<>>
  BY <1>1, <1>5 DEF PermitReleased, TypeOK
<1>8. gate.waiters = <<>> => Len(gate.waiters) = 0
  OBVIOUS
<1>9. Counted' /\ gate'.taken \in 0..Permits
  BY <1>3, <1>4, <1>5, <1>7, <1>8 DEF Counted
<1>10. gate' \in [taken : 0..Permits, waiters : Seq(Logins)]
  <2>1. gate \in [taken : 0..Permits, waiters : Seq(Logins)]
    BY DEF TypeOK
  <2>2. gate' = [taken |-> gate'.taken, waiters |-> gate'.waiters]
    BY <1>1, <2>1 DEF PermitReleased
  <2> QED
    BY <1>3, <1>9, <2>2
<1>11. admission' \subseteq Logins /\ bucket' \in [Windows -> Nat]
  BY <1>2, ThrottleTypes DEF Verified, VerificationFails, VerificationSucceeds, TypeOK
<1>12. challenge' \in [Logins -> Challenge]
  <2>1. [open |-> TRUE, rehash |-> login[l].weak] \in Challenge
    BY DEF TypeOK, Login, Challenge
  <2> QED
    BY <2>1 DEF Verified, VerificationFails, VerificationSucceeds, TypeOK
<1>13. Types'
  BY <1>3, <1>10, <1>11, <1>12 DEF Verified, VerificationFails, VerificationSucceeds, TypeOK, Types
<1>14. TypeOK' <=> Types' /\ Counted'
  BY TypeParts, PTL
<1> QED
  BY <1>9, <1>13, <1>14

LEMMA CompleteTypes ==
  ASSUME TypeOK, NEW l \in Logins, CompleteMfa(l)
  PROVE  Types' /\ Busy' = Busy /\ gate' = gate
<1>1. admin \in Admin /\ now \in Nat /\ now \in 0..MaxTime /\ login[l] \in Login
      /\ session \in [Logins -> Session]
  BY DEF TypeOK, Times
<1>2. PICK code \in 0..(MaxTime + 1) \cup RecoveryCodes, row \in Admin : SignIn(l, code, row)
  <2>1. ASSUME NEW c \in (now - 1)..(now + 1), c >= 0, SignIn(l, c, [admin EXCEPT !.counter = c])
        PROVE  \E code \in 0..(MaxTime + 1) \cup RecoveryCodes, row \in Admin : SignIn(l, code, row)
    <3>1. c \in 0..(MaxTime + 1) /\ c \in -1..(MaxTime + 1)
      BY <1>1, <2>1
    <3>2. [admin EXCEPT !.counter = c] \in Admin
      BY <1>1, <3>1 DEF Admin
    <3> QED
      BY <2>1, <3>1, <3>2
  <2>2. ASSUME NEW r \in admin.spare, SignIn(l, r, [admin EXCEPT !.spare = @ \ {r}])
        PROVE  \E code \in 0..(MaxTime + 1) \cup RecoveryCodes, row \in Admin : SignIn(l, code, row)
    <3>1. r \in RecoveryCodes /\ [admin EXCEPT !.spare = @ \ {r}] \in Admin
      BY <1>1 DEF Admin
    <3> QED
      BY <2>2, <3>1
  <2> QED
    BY <2>1, <2>2 DEF CompleteMfa
<1>3. admin' \in Admin
  BY <1>1, <1>2 DEF SignIn, Rehashed, Admin, Login
<1>4. session' \in [Logins -> Session]
      /\ \A m \in Logins : session'[m].until <= session'[m].made + SessionLife
  <2> DEFINE s == [live |-> TRUE, made |-> now, until |-> now + SessionIdle,
                   factors |-> {[secret |-> admin.secret, code |-> code]}, secret |-> admin.secret]
  <2>1. session' = [session EXCEPT ![l] = s]
    BY <1>2 DEF SignIn
  <2>2. [secret |-> admin.secret, code |-> code] \in Factors /\ admin.secret \in Secrets
    BY <1>1 DEF Admin, Factors
  <2>3. s \in Session /\ s.until <= s.made + SessionLife
    BY <1>1, <2>2 DEF Session, Times
  <2> HIDE DEF s
  <2>4. /\ session'[l] = s /\ \A m \in Logins \ {l} : session'[m] = session[m]
        /\ session' \in [Logins -> Session]
    BY <1>1, <2>1, <2>3
  <2> QED
    BY <2>3, <2>4 DEF TypeOK
<1>5. challenge' \in [Logins -> Challenge]
  BY <1>2 DEF SignIn, TypeOK, Challenge
<1>6. login' \in [Logins -> Login] /\ \A m \in Logins : login'[m].stage = login[m].stage
  <2>1. \A m \in Logins : login'[m] = [login[m] EXCEPT !.guessed = FALSE] /\ login[m] \in Login
    BY <1>2 DEF SignIn, TypeOK
  <2>2. ASSUME NEW m \in Logins PROVE login'[m] \in Login /\ login'[m].stage = login[m].stage
    BY <2>1 DEF Login
  <2>3. login' = [m \in Logins |-> login'[m]]
    BY <1>2 DEF SignIn
  <2> QED
    BY <2>2, <2>3
<1>7. bucket' \in [Windows -> Nat]
  BY <1>2 DEF SignIn
<1>8. Busy' = Busy
  BY <1>6 DEF Busy
<1>9. UNCHANGED <<now, resets, gate, admission, misses>>
  BY <1>2 DEF SignIn
<1> QED
  BY <1>3, <1>4, <1>5, <1>6, <1>7, <1>8, <1>9 DEF TypeOK, Types

LEMMA SessionTypes ==
  ASSUME TypeOK, NEW l \in Logins, UseSession(l) \/ Logout(l)
  PROVE  Types'
<1>1. session[l] \in Session /\ now \in Nat
  BY DEF TypeOK, Times
<1>2. /\ IdleEnd(l) \in Nat /\ IdleEnd(l) <= session[l].made + SessionLife
  <2>1. session[l].made \in Nat
    BY <1>1 DEF Session, Times
  <2> QED
    BY <1>1, <2>1 DEF IdleEnd, Earlier
<1>3. PICK s \in Session : /\ session' = [session EXCEPT ![l] = s]
                           /\ s.until <= s.made + SessionLife
  <2>1. CASE UseSession(l)
    <3>1. session' = [session EXCEPT ![l] = [session[l] EXCEPT !.until = IdleEnd(l)]]
      BY <1>1, <2>1 DEF UseSession, TypeOK, Session
    <3>2. [session[l] EXCEPT !.until = IdleEnd(l)] \in Session
      BY <1>1, <1>2 DEF Session
    <3>3. /\ [session[l] EXCEPT !.until = IdleEnd(l)].until = IdleEnd(l)
          /\ [session[l] EXCEPT !.until = IdleEnd(l)].made = session[l].made
      BY <1>1 DEF Session
    <3> QED
      BY <1>2, <3>1, <3>2, <3>3
  <2>2. CASE Logout(l)
    <3>1. session' = [session EXCEPT ![l] = [session[l] EXCEPT !.live = FALSE]]
      BY <1>1, <2>2 DEF Logout, TypeOK, Session
    <3>2. [session[l] EXCEPT !.live = FALSE] \in Session
      BY <1>1 DEF Session
    <3>3. /\ [session[l] EXCEPT !.live = FALSE].until = session[l].until
          /\ [session[l] EXCEPT !.live = FALSE].made = session[l].made
      BY <1>1 DEF Session
    <3>4. session[l].until <= session[l].made + SessionLife
      BY DEF TypeOK
    <3> QED
      BY <3>1, <3>2, <3>3, <3>4
  <2> QED
    BY <2>1, <2>2
<1>4. /\ session' \in [Logins -> Session]
      /\ \A m \in Logins : session'[m].until <= session'[m].made + SessionLife
  BY <1>3 DEF TypeOK
<1> QED
  BY <1>4 DEF UseSession, Logout, TypeOK, Types

LEMMA CommandTypes ==
  ASSUME TypeOK, ResetPassword \/ ReplaceMfa
  PROVE  Types'
<1>1. admin \in Admin /\ resets \in Passwords
  BY DEF TypeOK
<1>2. admin' \in Admin /\ resets' \in Passwords
  <2>1. CASE ResetPassword
    <3>1. resets + 1 \in Passwords
      BY <1>1, <2>1 DEF ResetPassword, Passwords
    <3> QED
      BY <1>1, <2>1, <3>1 DEF ResetPassword, Admin
  <2>2. CASE ReplaceMfa
    <3>1. admin.secret + 1 \in Secrets /\ -1 \in -1..(MaxTime + 1)
      BY <1>1, <2>2 DEF ReplaceMfa, Admin, Secrets
    <3> QED
      BY <1>1, <2>2, <3>1 DEF ReplaceMfa, Admin
  <2> QED
    BY <2>1, <2>2
<1>3. /\ session' = [l \in Logins |-> [session[l] EXCEPT !.live = FALSE]]
      /\ challenge' = [l \in Logins |-> [challenge[l] EXCEPT !.open = FALSE]]
  BY DEF ResetPassword, ReplaceMfa, RevokeAll
<1>4. \A l \in Logins : /\ session[l] \in Session /\ challenge[l] \in Challenge
                        /\ session[l].until <= session[l].made + SessionLife
  BY DEF TypeOK
<1>5. \A l \in Logins : /\ session'[l] \in Session /\ session'[l].made = session[l].made
                        /\ session'[l].until = session[l].until
  BY <1>3, <1>4 DEF Session
<1>6. \A l \in Logins : challenge'[l] \in Challenge
  BY <1>3, <1>4 DEF Challenge
<1>7. session' \in [Logins -> Session] /\ challenge' \in [Logins -> Challenge]
  BY <1>3, <1>5, <1>6
<1>8. admission' \subseteq Logins
  BY DEF ResetPassword, ReplaceMfa, AdmissionsFenced, TypeOK
<1> QED
  BY <1>2, <1>4, <1>5, <1>7, <1>8 DEF ResetPassword, ReplaceMfa, TypeOK, Types

LEMMA RestartTypes ==
  ASSUME TypeOK, Restart
  PROVE  Types' /\ Counted'
<1>1. \A l \in Logins : /\ login[l] \in Login
                        /\ login'[l] = IF login[l].stage = "new" THEN login[l]
                                       ELSE [login[l] EXCEPT !.stage = "over"]
  BY DEF TypeOK, Restart
<1>2. ASSUME NEW l \in Logins PROVE login'[l] \in Login /\ login'[l].stage \in {"new", "over"}
  <2>1. CASE login[l].stage = "new"
    BY <1>1, <2>1
  <2>2. CASE login[l].stage # "new"
    <3>1. login[l] \in Login /\ login'[l] = [login[l] EXCEPT !.stage = "over"]
      BY <1>1, <2>2
    <3> QED
      BY <3>1 DEF Login
  <2> QED
    BY <2>1, <2>2
<1>3. login' = [l \in Logins |-> login'[l]]
  BY DEF Restart
<1>4. login' \in [Logins -> Login]
  BY <1>2, <1>3
<1>5. Busy' = {}
  BY <1>2 DEF Busy
<1>6. gate' \in [taken : 0..Permits, waiters : Seq(Logins)] /\ gate'.taken + Len(gate'.waiters) = 0
  BY DEF Restart
<1> QED
  BY <1>4, <1>5, <1>6, FS_EmptySet DEF Restart, TypeOK, Types, Counted

LEMMA StepTypes == TypeOK /\ GateSound /\ [Next]_vars => TypeOK'
<1> SUFFICES ASSUME TypeOK, GateSound, [Next]_vars PROVE TypeOK'
  OBVIOUS
<1>1. Types /\ Counted
  BY TypeParts
<1>2. TypeOK' <=> Types' /\ Counted'
  BY TypeParts, PTL
<1>3. gate' = gate /\ Busy' = Busy => Counted'
  BY <1>1 DEF Counted
<1>4. login' = login => Busy' = Busy
  BY DEF Busy
<1>5. CASE Tick
  BY <1>1, <1>2, <1>3, <1>4, <1>5 DEF Tick, Types, Times
<1>6. CASE MfaFails
  <2>1. /\ admission' \subseteq Logins /\ bucket' \in [Windows -> Nat]
    BY <1>6, ThrottleTypes DEF MfaFails, TypeOK
  <2> QED
    BY <1>1, <1>2, <1>3, <1>4, <1>6, <2>1 DEF MfaFails, Types
<1>7. CASE ResetPassword \/ ReplaceMfa
  BY <1>2, <1>3, <1>4, <1>7, CommandTypes DEF ResetPassword, ReplaceMfa
<1>8. CASE Restart
  BY <1>2, <1>8, RestartTypes
<1>9. ASSUME NEW l \in Logins, Reserve(l) \/ CompleteMfa(l) PROVE TypeOK'
  BY <1>2, <1>3, <1>9, ReserveTypes, CompleteTypes
<1>10. ASSUME NEW l \in Logins, UseSession(l) \/ Logout(l) PROVE TypeOK'
  BY <1>2, <1>3, <1>4, <1>10, SessionTypes DEF UseSession, Logout
<1>11. CASE UNCHANGED vars
  BY <1>1, <1>2, <1>3, <1>4, <1>11 DEF vars, Types
<1> QED
  BY <1>5, <1>6, <1>7, <1>8, <1>9, <1>10, <1>11, ReadTypes, VerifiedTypes DEF Next

-----------------------------------------------------------------------------
(* How the logins change.                                                  *)

SameLogin(l) ==
  /\ login'[l].typed = login[l].typed /\ login'[l].at = login[l].at
  /\ login'[l].hash = login[l].hash

LEMMA ReserveShape ==
  ASSUME TypeOK, NEW l \in Logins, Reserve(l)
  PROVE  /\ login[l].stage = "new" /\ login'[l].stage = "reserved"
         /\ login'[l].at = now /\ login'[l].guessed = login[l].guessed
         /\ \A m \in Logins \ {l} : login'[m] = login[m]
<1>1. PICK p \in Passwords :
        login' = [login EXCEPT ![l].stage = "reserved", ![l].typed = p,
                               ![l].at = now, ![l].admitted = BelowLimit(now)]
  BY DEF Reserve
<1>2. login[l] \in Login
  BY DEF TypeOK
<1> QED
  BY <1>1, <1>2 DEF TypeOK, Login, Reserve

LEMMA ReadShape ==
  ASSUME TypeOK, NEW l \in Logins, ReadAdmin(l)
  PROVE  /\ login[l].stage = "reserved" /\ login'[l].hash = admin.password
         /\ login'[l].typed = login[l].typed /\ login'[l].at = login[l].at
         /\ login'[l].guessed = login[l].guessed
         /\ login'[l].stage \in {"waiting", "verifying"}
         /\ \A m \in Logins \ {l} : login'[m] = login[m]
         /\ \A m \in ToSet(gate'.waiters) :
              m \in ToSet(gate.waiters) \/ (m = l /\ login'[l].stage = "waiting")
<1> DEFINE free == gate.taken < Permits /\ gate.waiters = <<>>
<1>1. login[l] \in Login /\ gate.waiters \in Seq(Logins)
  BY DEF TypeOK
<1>2. CASE free
  <2>1. login' = [login EXCEPT ![l].stage = "verifying", ![l].hash = admin.password,
                               ![l].weak = admin.weak]
    BY <1>2 DEF ReadAdmin
  <2>2. gate'.waiters = gate.waiters
    BY <1>2 DEF ReadAdmin, TypeOK
  <2> QED
    BY <1>1, <2>1, <2>2 DEF ReadAdmin, TypeOK, Login
<1>3. CASE ~free
  <2>1. login' = [login EXCEPT ![l].stage = "waiting", ![l].hash = admin.password,
                               ![l].weak = admin.weak]
    BY <1>3 DEF ReadAdmin
  <2>2. gate'.waiters = Append(gate.waiters, l)
    BY <1>3 DEF ReadAdmin, TypeOK
  <2>3. \A m \in ToSet(gate'.waiters) : m \in ToSet(gate.waiters) \/ m = l
    BY <1>1, <2>2 DEF ToSet
  <2>4. login'[l].stage = "waiting"
    BY <1>1, <2>1 DEF TypeOK, Login
  <2> QED
    BY <1>1, <2>1, <2>3, <2>4 DEF ReadAdmin, TypeOK, Login
<1> QED
  BY <1>2, <1>3

LEMMA VerifiedShape ==
  ASSUME TypeOK, GateSound, NEW l \in Logins, Verified(l)
  PROVE  /\ login[l].stage = "verifying" /\ login'[l].stage = "over"
         /\ VerificationFails(l) => (login'[l].guessed <=> l \in LiveAdmissions(login[l].at))
         /\ VerificationSucceeds(l) => ~login'[l].guessed
         /\ \A m \in Logins :
              /\ SameLogin(m)
              /\ m # l => /\ login'[m].guessed = login[m].guessed
                          /\ login'[m].stage # login[m].stage
                               => login[m].stage = "waiting" /\ login'[m].stage = "verifying"
         /\ \A m \in ToSet(gate'.waiters) : login'[m].stage = "waiting"
         /\ admission' = LiveAdmissions(login[l].at) \ {l}
<1>1. CASE VerificationFails(l)
  <2> DEFINE known == l \in LiveAdmissions(login[l].at)
  <2>1. login' = Ended(l, known) /\ gate' = PermitReleased /\ login[l].stage = "verifying"
        /\ admission' = LiveAdmissions(login[l].at) \ {l} /\ ~VerificationSucceeds(l)
    BY <1>1 DEF VerificationFails, VerificationSucceeds
  <2>2. known \in BOOLEAN
    OBVIOUS
  <2> HIDE DEF known
  <2>3. /\ login'[l].guessed = known /\ login'[l].stage = "over"
        /\ \A m \in Logins :
             /\ SameLogin(m)
             /\ m # l => /\ login'[m].guessed = login[m].guessed
                         /\ login'[m].stage # login[m].stage
                              => login[m].stage = "waiting" /\ login'[m].stage = "verifying"
        /\ \A m \in ToSet(gate'.waiters) : login'[m].stage = "waiting"
    BY <2>1, <2>2, EndedShape DEF SameLogin
  <2>4. login'[l].guessed <=> l \in LiveAdmissions(login[l].at)
    BY <2>3 DEF known
  <2> QED
    BY <2>1, <2>3, <2>4
<1>2. CASE VerificationSucceeds(l)
  <2>1. login' = Ended(l, FALSE) /\ gate' = PermitReleased /\ login[l].stage = "verifying"
        /\ admission' = LiveAdmissions(login[l].at) \ {l} /\ ~VerificationFails(l)
    BY <1>2 DEF VerificationFails, VerificationSucceeds
  <2> QED
    BY <2>1, EndedShape DEF SameLogin
<1> QED
  BY <1>1, <1>2 DEF Verified

LEMMA SignInShape ==
  ASSUME TypeOK, NEW l, NEW code, NEW row, SignIn(l, code, row), NEW m \in Logins
  PROVE  SameLogin(m) /\ login'[m].stage = login[m].stage /\ ~login'[m].guessed
<1>1. login[m] \in Login /\ login'[m] = [login[m] EXCEPT !.guessed = FALSE]
  BY DEF SignIn, TypeOK
<1> QED
  BY <1>1 DEF Login, SameLogin

LEMMA RestartShape ==
  ASSUME TypeOK, Restart, NEW m \in Logins
  PROVE  /\ SameLogin(m) /\ login'[m].guessed = login[m].guessed
         /\ login[m].stage = "new" => login'[m].stage = "new"
         /\ login[m].stage # "new" => login'[m].stage = "over"
<1>1. CASE login[m].stage = "new"
  BY <1>1 DEF Restart, SameLogin
<1>2. CASE login[m].stage # "new"
  <2>1. login[m] \in Login /\ login'[m] = [login[m] EXCEPT !.stage = "over"]
    BY <1>2 DEF Restart, TypeOK
  <2> QED
    BY <1>2, <2>1 DEF Login, SameLogin
<1> QED
  BY <1>1, <1>2

LEMMA GateKept == TypeOK /\ GateSound /\ [Next]_vars => GateSound'
<1> SUFFICES ASSUME TypeOK, GateSound, [Next]_vars PROVE GateSound'
  OBVIOUS
<1>1. \A m \in ToSet(gate.waiters) : m \in Logins
  BY DEF TypeOK, ToSet
<1>2. now \in Nat /\ \A m \in Logins : login[m].at \in Nat
  BY DEF TypeOK, Login, Times
<1>3. CASE UNCHANGED <<login, gate>> /\ now' \in Nat /\ now <= now'
  BY <1>2, <1>3 DEF GateSound
<1>4. CASE Tick
  BY <1>2, <1>3, <1>4 DEF Tick
<1>5. CASE UNCHANGED <<login, gate, now>>
  BY <1>2, <1>3, <1>5
<1>6. ASSUME NEW l \in Logins, Reserve(l) PROVE GateSound'
  <2>1. now' = now /\ gate' = gate
    BY <1>6 DEF Reserve
  <2> QED
    BY <1>1, <1>2, <1>6, <2>1, ReserveShape DEF GateSound
<1>7. ASSUME NEW l \in Logins, ReadAdmin(l) PROVE GateSound'
  <2>1. now' = now
    BY <1>7 DEF ReadAdmin
  <2> QED
    BY <1>1, <1>2, <1>7, <2>1, ReadShape DEF GateSound
<1>8. ASSUME NEW l \in Logins, Verified(l) PROVE GateSound'
  <2>1. now' = now
    BY <1>8 DEF Verified, VerificationFails, VerificationSucceeds
  <2> QED
    BY <1>2, <1>8, <2>1, VerifiedShape DEF GateSound, SameLogin
<1>9. ASSUME NEW l \in Logins, NEW code, NEW row, SignIn(l, code, row) PROVE GateSound'
  <2>1. now' = now /\ gate' = gate
    BY <1>9 DEF SignIn
  <2> QED
    BY <1>1, <1>2, <1>9, <2>1, SignInShape DEF GateSound, SameLogin
<1>10. CASE Restart
  <2>1. now' = now /\ ToSet(gate'.waiters) = {}
    BY <1>10 DEF Restart, ToSet
  <2> QED
    BY <1>2, <1>10, <2>1, RestartShape DEF GateSound, SameLogin
<1> QED
  BY <1>4, <1>5, <1>6, <1>7, <1>8, <1>9, <1>10
     DEF Next, MfaFails, ResetPassword, ReplaceMfa, CompleteMfa, UseSession, Logout, vars

-----------------------------------------------------------------------------
(* Resets and factors.                                                     *)

\* A login that has not begun left nothing; one that is admitted and has read
\* the owner's row has read the newest, for a reset would have fenced it.
LoginsSound ==
  \A l \in Logins :
    /\ login[l].stage = "new" =>
         ~login[l].guessed /\ ~challenge[l].open /\ ~session[l].live /\ l \notin admission
    /\ l \in admission /\ login[l].stage \in {"waiting", "verifying"} => login[l].hash = resets

\* The factors used leave their mark in the owner's row.
FactorsMarked ==
  \A l \in Logins : \A f \in session[l].factors :
    /\ f.secret <= admin.secret
    /\ f.secret = admin.secret => /\ f.code \in 0..(MaxTime + 1) => f.code <= admin.counter
                                 /\ f.code \notin admin.spare

Sound == TypeOK /\ GateSound /\ LoginsSound /\ ResetsStand

\* Sessions change as a whole, but for their end.
LEMMA SessionShape ==
  ASSUME TypeOK, \/ \E l \in Logins : UseSession(l) \/ Logout(l)
                 \/ ResetPassword \/ ReplaceMfa,
         NEW m \in Logins
  PROVE  /\ session'[m].live => session[m].live
         /\ session'[m].secret = session[m].secret /\ session'[m].factors = session[m].factors
<1>1. session[m] \in Session
  BY DEF TypeOK
<1>2. ASSUME NEW l \in Logins, UseSession(l) \/ Logout(l)
      PROVE  /\ session'[m].live => session[m].live
             /\ session'[m].secret = session[m].secret /\ session'[m].factors = session[m].factors
  <2>1. CASE m # l
    BY <1>2, <2>1 DEF UseSession, Logout, TypeOK
  <2>2. CASE m = l
    <3>1. \/ session'[m] = [session[m] EXCEPT !.until = IdleEnd(l)]
          \/ session'[m] = [session[m] EXCEPT !.live = FALSE]
      BY <1>2, <2>2 DEF UseSession, Logout, TypeOK
    <3> QED
      BY <1>1, <3>1 DEF Session
  <2> QED
    BY <2>1, <2>2
<1>3. CASE ResetPassword \/ ReplaceMfa
  <2>1. session'[m] = [session[m] EXCEPT !.live = FALSE]
    BY <1>3 DEF ResetPassword, ReplaceMfa, RevokeAll
  <2> QED
    BY <1>1, <2>1 DEF Session
<1> QED
  BY <1>2, <1>3

\* After a reset or a new second factor nobody is in.
LEMMA RevokedShape ==
  ASSUME TypeOK, RevokeAll, NEW m \in Logins
  PROVE  ~session'[m].live /\ ~challenge'[m].open
<1>1. session[m] \in Session /\ challenge[m] \in Challenge
  BY DEF TypeOK
<1>2. /\ session'[m] = [session[m] EXCEPT !.live = FALSE]
      /\ challenge'[m] = [challenge[m] EXCEPT !.open = FALSE]
  BY DEF RevokeAll
<1> QED
  BY <1>1, <1>2 DEF Session, Challenge

\* What a sign-in writes.
LEMMA SignInWrites ==
  ASSUME TypeOK, NEW l \in Logins, NEW code, NEW row \in Admin, SignIn(l, code, row)
  PROVE  /\ admin'.password = IF challenge[l].rehash THEN login[l].typed ELSE row.password
         /\ admin'.secret = row.secret /\ admin'.counter = row.counter /\ admin'.spare = row.spare
         /\ session'[l].secret = admin.secret
         /\ session'[l].factors = {[secret |-> admin.secret, code |-> code]}
         /\ \A m \in Logins \ {l} : session'[m] = session[m] /\ challenge'[m] = challenge[m]
         /\ ~challenge'[l].open
         /\ UNCHANGED <<now, resets, admission>>
<1>1. challenge[l] \in Challenge /\ challenge \in [Logins -> Challenge] /\ session \in [Logins -> Session]
  BY DEF TypeOK
<1>2. /\ admin'.password = IF challenge[l].rehash THEN login[l].typed ELSE row.password
      /\ admin'.secret = row.secret /\ admin'.counter = row.counter /\ admin'.spare = row.spare
  BY DEF SignIn, Rehashed, Admin
<1>3. challenge' = [challenge EXCEPT ![l].open = FALSE]
  BY DEF SignIn
<1>4. ~challenge'[l].open /\ \A m \in Logins \ {l} : challenge'[m] = challenge[m]
  BY <1>1, <1>3 DEF Challenge
<1> DEFINE s == [live |-> TRUE, made |-> now, until |-> now + SessionIdle,
                 factors |-> {[secret |-> admin.secret, code |-> code]}, secret |-> admin.secret]
<1>5. session' = [session EXCEPT ![l] = s]
  BY DEF SignIn
<1>6. s.secret = admin.secret /\ s.factors = {[secret |-> admin.secret, code |-> code]}
  OBVIOUS
<1> HIDE DEF s
<1>7. session'[l] = s /\ \A m \in Logins \ {l} : session'[m] = session[m]
  BY <1>1, <1>5
<1> QED
  BY <1>2, <1>4, <1>6, <1>7 DEF SignIn

\* The factor of a sign-in: a fresh code, or a spare one.
LEMMA CompleteShape ==
  ASSUME TypeOK, NEW l \in Logins, CompleteMfa(l)
  PROVE  \E code : \E row \in Admin :
           /\ SignIn(l, code, row) /\ challenge[l].open
           /\ row.password = admin.password /\ row.secret = admin.secret
           /\ \/ /\ code \in 0..(MaxTime + 1) /\ code > admin.counter
                 /\ row.counter = code /\ row.spare = admin.spare
              \/ /\ code \in admin.spare
                 /\ row.counter = admin.counter /\ row.spare = admin.spare \ {code}
<1>1. admin \in Admin /\ now \in Nat /\ now \in 0..MaxTime /\ challenge[l].open
  BY DEF TypeOK, Times, CompleteMfa, ChallengeValid
<1>2. ASSUME NEW c \in (now - 1)..(now + 1), c >= 0, Fresh(c), SignIn(l, c, [admin EXCEPT !.counter = c])
      PROVE  \E code : \E row \in Admin :
               /\ SignIn(l, code, row) /\ row.password = admin.password /\ row.secret = admin.secret
               /\ code \in 0..(MaxTime + 1) /\ code > admin.counter
               /\ row.counter = code /\ row.spare = admin.spare
  <2>1. c \in 0..(MaxTime + 1) /\ c \in -1..(MaxTime + 1) /\ c > admin.counter
    BY <1>1, <1>2 DEF Fresh
  <2> DEFINE row == [admin EXCEPT !.counter = c]
  <2>2. /\ row \in Admin /\ row.password = admin.password /\ row.secret = admin.secret
        /\ row.counter = c /\ row.spare = admin.spare
    BY <1>1, <2>1 DEF Admin
  <2>3. SignIn(l, c, row)
    BY <1>2
  <2> HIDE DEF row
  <2> QED
    BY <2>1, <2>2, <2>3
<1>3. ASSUME NEW r \in admin.spare, SignIn(l, r, [admin EXCEPT !.spare = @ \ {r}])
      PROVE  \E code : \E row \in Admin :
               /\ SignIn(l, code, row) /\ row.password = admin.password /\ row.secret = admin.secret
               /\ code \in admin.spare
               /\ row.counter = admin.counter /\ row.spare = admin.spare \ {code}
  <2> DEFINE row == [admin EXCEPT !.spare = @ \ {r}]
  <2>1. /\ row \in Admin /\ row.password = admin.password /\ row.secret = admin.secret
        /\ row.counter = admin.counter /\ row.spare = admin.spare \ {r}
    BY <1>1 DEF Admin
  <2>2. SignIn(l, r, row)
    BY <1>3
  <2> HIDE DEF row
  <2> QED
    BY <2>1, <2>2
<1>4. \/ \E c \in (now - 1)..(now + 1) : c >= 0 /\ Fresh(c) /\ SignIn(l, c, [admin EXCEPT !.counter = c])
      \/ \E r \in admin.spare : SignIn(l, r, [admin EXCEPT !.spare = @ \ {r}])
  BY DEF CompleteMfa
<1> QED
  BY <1>1, <1>2, <1>3, <1>4

LEMMA SoundKept == Sound /\ [Next]_vars => LoginsSound' /\ ResetsStand'
<1> SUFFICES ASSUME Sound, [Next]_vars PROVE LoginsSound' /\ ResetsStand'
  OBVIOUS
<1>1. TypeOK /\ GateSound /\ LoginsSound /\ ResetsStand
  BY DEF Sound
<1>2. CASE /\ UNCHANGED <<admin, resets, login, challenge, session>> /\ admission' \subseteq admission
  BY <1>1, <1>2 DEF LoginsSound, ResetsStand
<1>3. CASE Tick \/ MfaFails
  BY <1>1, <1>2, <1>3 DEF Tick, MfaFails, LiveAdmissions
<1>4. ASSUME NEW l \in Logins, Reserve(l) PROVE LoginsSound' /\ ResetsStand'
  <2>1. UNCHANGED <<admin, resets, challenge, session>> /\ admission' \subseteq admission \cup {l}
    BY <1>4 DEF Reserve, LiveAdmissions
  <2> QED
    BY <1>1, <1>4, <2>1, ReserveShape DEF LoginsSound, ResetsStand
<1>5. ASSUME NEW l \in Logins, ReadAdmin(l) PROVE LoginsSound' /\ ResetsStand'
  <2>1. UNCHANGED <<admin, resets, challenge, session, admission>>
    BY <1>5 DEF ReadAdmin
  <2> QED
    BY <1>1, <1>5, <2>1, ReadShape DEF LoginsSound, ResetsStand
<1>6. ASSUME NEW l \in Logins, Verified(l) PROVE LoginsSound' /\ ResetsStand'
  <2>1. UNCHANGED <<admin, resets, session>>
    BY <1>6 DEF Verified, VerificationFails, VerificationSucceeds
  <2>2. /\ login[l].stage = "verifying" /\ login'[l].stage = "over" /\ l \notin admission'
        /\ admission' \subseteq admission
        /\ \A m \in Logins :
             /\ login'[m].typed = login[m].typed /\ login'[m].hash = login[m].hash
             /\ m # l => /\ login'[m].guessed = login[m].guessed
                         /\ login'[m].stage # login[m].stage
                              => login[m].stage = "waiting" /\ login'[m].stage = "verifying"
    BY <1>1, <1>6, VerifiedShape DEF SameLogin, LiveAdmissions
  <2>3. /\ \A m \in Logins \ {l} : challenge'[m] = challenge[m]
        /\ challenge'[l] = challenge[l] \/ login[l].typed = resets
    <3>1. CASE challenge' = challenge
      BY <3>1
    <3>2. CASE Settles(l) /\ Matches(l)
               /\ challenge' = [challenge EXCEPT ![l] = [open |-> TRUE, rehash |-> login[l].weak]]
      <4>1. l \in admission /\ login[l].hash = login[l].typed
        BY <3>2 DEF Settles, LiveAdmissions, Matches
      <4>2. login[l].hash = resets
        BY <1>1, <2>2, <4>1 DEF LoginsSound
      <4> QED
        BY <1>1, <3>2, <4>1, <4>2 DEF TypeOK
    <3> QED
      BY <1>6, <3>1, <3>2 DEF Verified, VerificationFails, VerificationSucceeds
  <2>4. LoginsSound'
    BY <1>1, <2>1, <2>2, <2>3 DEF LoginsSound
  <2>5. ResetsStand'
    BY <1>1, <2>1, <2>2, <2>3 DEF ResetsStand
  <2> QED
    BY <2>4, <2>5
<1>7. ASSUME NEW l \in Logins, CompleteMfa(l) PROVE LoginsSound' /\ ResetsStand'
  <2>1. PICK code : \E row \in Admin :
           /\ SignIn(l, code, row) /\ challenge[l].open
           /\ row.password = admin.password /\ row.secret = admin.secret
    BY <1>1, <1>7, CompleteShape
  <2>2. PICK row \in Admin :
           /\ SignIn(l, code, row) /\ challenge[l].open
           /\ row.password = admin.password /\ row.secret = admin.secret
    BY <2>1
  <2>3. login[l].typed = resets /\ admin.password = resets /\ login[l].stage # "new"
    BY <1>1, <2>2 DEF ResetsStand, LoginsSound
  <2>4. /\ admin'.password = resets /\ admin'.secret = admin.secret
        /\ session'[l].secret = admin.secret
        /\ \A m \in Logins \ {l} : session'[m] = session[m] /\ challenge'[m] = challenge[m]
        /\ ~challenge'[l].open
        /\ UNCHANGED <<resets, admission>>
    BY <1>1, <2>2, <2>3, SignInWrites
  <2>5. \A m \in Logins : /\ login'[m].typed = login[m].typed /\ login'[m].hash = login[m].hash
                          /\ login'[m].stage = login[m].stage /\ ~login'[m].guessed
    BY <1>1, <2>2, SignInShape DEF SameLogin
  <2>6. LoginsSound'
    BY <1>1, <2>3, <2>4, <2>5 DEF LoginsSound
  <2>7. ResetsStand'
    BY <1>1, <2>3, <2>4, <2>5 DEF ResetsStand
  <2> QED
    BY <2>6, <2>7
<1>8. ASSUME NEW l \in Logins, UseSession(l) \/ Logout(l) PROVE LoginsSound' /\ ResetsStand'
  <2>1. UNCHANGED <<admin, resets, login, challenge, admission>>
    BY <1>8 DEF UseSession, Logout
  <2>2. \A m \in Logins : /\ session'[m].live => session[m].live
                          /\ session'[m].secret = session[m].secret
    BY <1>1, <1>8, SessionShape
  <2> QED
    BY <1>1, <2>1, <2>2 DEF LoginsSound, ResetsStand
<1>9. CASE ResetPassword
  <2>1. /\ admin'.password = resets' /\ admission' = {} /\ login' = login
    BY <1>1, <1>9 DEF ResetPassword, AdmissionsFenced, TypeOK, Admin
  <2>2. \A m \in Logins : ~session'[m].live /\ ~challenge'[m].open
    BY <1>1, <1>9, RevokedShape DEF ResetPassword
  <2> QED
    BY <1>1, <2>1, <2>2 DEF LoginsSound, ResetsStand
<1>10. CASE ReplaceMfa
  <2>1. /\ admin'.password = admin.password /\ UNCHANGED <<resets, admission, login>>
    BY <1>1, <1>10 DEF ReplaceMfa, TypeOK, Admin
  <2>2. \A m \in Logins : ~session'[m].live /\ ~challenge'[m].open
    BY <1>1, <1>10, RevokedShape DEF ReplaceMfa
  <2> QED
    BY <1>1, <2>1, <2>2 DEF LoginsSound, ResetsStand
<1>11. CASE Restart
  <2>1. UNCHANGED <<admin, resets, admission, challenge, session>>
    BY <1>11 DEF Restart
  <2>2. \A m \in Logins : /\ login'[m].typed = login[m].typed /\ login'[m].guessed = login[m].guessed
                          /\ login[m].stage = "new" => login'[m].stage = "new"
                          /\ login[m].stage # "new" => login'[m].stage = "over"
    BY <1>1, <1>11, RestartShape DEF SameLogin
  <2>3. LoginsSound'
    BY <1>1, <2>1, <2>2 DEF LoginsSound
  <2> QED
    BY <1>1, <2>1, <2>2, <2>3 DEF ResetsStand
<1>12. CASE UNCHANGED vars
  BY <1>2, <1>12 DEF vars
<1> QED
  BY <1>3, <1>4, <1>5, <1>6, <1>7, <1>8, <1>9, <1>10, <1>11, <1>12 DEF Next

LEMMA FactorsKept == TypeOK /\ FactorsMarked /\ FactorsUsedOnce /\ [Next]_vars
                       => FactorsMarked' /\ FactorsUsedOnce'
<1> SUFFICES ASSUME TypeOK, FactorsMarked, FactorsUsedOnce, [Next]_vars
             PROVE  FactorsMarked' /\ FactorsUsedOnce'
  OBVIOUS
<1>1. /\ admin.secret \in Nat /\ admin.counter \in Int /\ admin.spare \subseteq RecoveryCodes
      /\ \A l \in Logins : \A f \in session[l].factors : f \in Factors /\ f.secret \in Nat
  BY DEF TypeOK, Admin, Session, Factors, Secrets
<1>2. CASE UNCHANGED <<admin, session>>
  BY <1>2 DEF FactorsMarked, FactorsUsedOnce
<1>3. ASSUME NEW l \in Logins, CompleteMfa(l) PROVE FactorsMarked' /\ FactorsUsedOnce'
  <2>1. PICK code : \E row \in Admin :
           /\ SignIn(l, code, row) /\ row.secret = admin.secret
           /\ \/ /\ code \in 0..(MaxTime + 1) /\ code > admin.counter
                 /\ row.counter = code /\ row.spare = admin.spare
              \/ /\ code \in admin.spare
                 /\ row.counter = admin.counter /\ row.spare = admin.spare \ {code}
    BY <1>3, CompleteShape
  <2>2. PICK row \in Admin :
           /\ SignIn(l, code, row) /\ row.secret = admin.secret
           /\ \/ /\ code \in 0..(MaxTime + 1) /\ code > admin.counter
                 /\ row.counter = code /\ row.spare = admin.spare
              \/ /\ code \in admin.spare
                 /\ row.counter = admin.counter /\ row.spare = admin.spare \ {code}
    BY <2>1
  <2>3. PICK f : f = [secret |-> admin.secret, code |-> code]
    OBVIOUS
  <2>4. /\ admin'.secret = admin.secret /\ admin'.counter = row.counter /\ admin'.spare = row.spare
        /\ session'[l].factors = {f}
        /\ \A m \in Logins \ {l} : session'[m] = session[m]
    BY <2>2, <2>3, SignInWrites
  <2>5. f.secret = admin.secret /\ f.code = code
    BY <2>3
  <2>6. \A m \in Logins : f \notin session[m].factors
    BY <1>1, <2>2, <2>5 DEF FactorsMarked
  <2>7. /\ row.counter \in Int /\ admin.counter <= row.counter /\ row.spare \subseteq admin.spare
        /\ code \in 0..(MaxTime + 1) => code <= row.counter
        /\ code \notin row.spare
    BY <1>1, <2>2
  <2>8. FactorsMarked'
    <3>1. ASSUME NEW m \in Logins, NEW e \in session'[m].factors
          PROVE  /\ e.secret <= admin'.secret
                 /\ e.secret = admin'.secret => /\ e.code \in 0..(MaxTime + 1) => e.code <= admin'.counter
                                               /\ e.code \notin admin'.spare
      <4>1. CASE m = l
        BY <1>1, <2>4, <2>5, <2>7, <4>1
      <4>2. CASE m # l
        <5>1. e \in session[m].factors
          BY <2>4, <4>2
        <5> QED
          BY <1>1, <2>4, <2>7, <5>1 DEF FactorsMarked
      <4> QED
        BY <4>1, <4>2
    <3> QED
      BY <3>1 DEF FactorsMarked
  <2>9. FactorsUsedOnce'
    BY <2>4, <2>6 DEF FactorsUsedOnce
  <2> QED
    BY <2>8, <2>9
<1>4. ASSUME NEW l \in Logins, UseSession(l) \/ Logout(l) PROVE FactorsMarked' /\ FactorsUsedOnce'
  <2>1. admin' = admin /\ \A m \in Logins : session'[m].factors = session[m].factors
    BY <1>4, SessionShape DEF UseSession, Logout
  <2> QED
    BY <2>1 DEF FactorsMarked, FactorsUsedOnce
<1>5. CASE ResetPassword \/ ReplaceMfa
  <2>1. \A m \in Logins : session'[m].factors = session[m].factors
    BY <1>5, SessionShape
  <2>2. \/ /\ admin'.secret = admin.secret /\ admin'.counter = admin.counter
           /\ admin'.spare = admin.spare
        \/ admin'.secret = admin.secret + 1
    BY <1>5 DEF ResetPassword, ReplaceMfa, TypeOK, Admin
  <2> QED
    BY <1>1, <2>1, <2>2 DEF FactorsMarked, FactorsUsedOnce
<1> QED
  BY <1>2, <1>3, <1>4, <1>5
     DEF Next, Tick, MfaFails, Restart, Reserve, ReadAdmin, Verified, VerificationFails,
         VerificationSucceeds, vars

\* Logins, resets and the gate agree.
THEOREM Invariant == Spec => []Sound
<1>1. Init => Sound
  <2> SUFFICES ASSUME Init PROVE Sound
    OBVIOUS
  <2>1. GateSound
    <3>1. ToSet(gate.waiters) = {}
      BY DEF Init, ToSet
    <3> QED
      BY <3>1 DEF Init, NewLogin, GateSound
  <2>2. LoginsSound /\ ResetsStand
    BY DEF Init, NewLogin, NoChallenge, NoSession, LoginsSound, ResetsStand
  <2> QED
    BY <2>1, <2>2, InitTypes DEF Sound
<1>2. Sound /\ [Next]_vars => Sound'
  BY StepTypes, GateKept, SoundKept DEF Sound
<1> QED
  BY <1>1, <1>2, PTL DEF Spec

\* Rows, sessions, permits and waiters keep their types, and the permits
\* taken and the logins waiting are those of the logins under way.
THEOREM TypeCorrect == Spec => []TypeOK
  BY Invariant, PTL DEF Sound

\* What the owner reset stays reset.
THEOREM ResetsCorrect == Spec => []ResetsStand
  BY Invariant, PTL DEF Sound

\* No second factor signs in twice.
THEOREM FactorsCorrect == Spec => []FactorsUsedOnce
<1>1. Init => FactorsMarked /\ FactorsUsedOnce
  BY DEF Init, NoSession, FactorsMarked, FactorsUsedOnce
<1> QED
  BY <1>1, FactorsKept, TypeCorrect, PTL DEF Spec

-----------------------------------------------------------------------------
(* The limit of the throttle.                                              *)

\* The logins of a window that learnt of their failure, and those admitted.
Guesses(w) == {l \in Logins : login[l].guessed /\ Start(login[l].at) = w}
Admitted(w) == {l \in admission : Start(login[l].at) = w}

\* While a window is open its bucket counts its guesses; and with those who
\* may still guess they stay within the limit.
ThrottleAt(w) ==
  /\ Cardinality(Guesses(w)) + Cardinality(Admitted(w)) <= Limit
  /\ now < w + Window => Cardinality(Guesses(w)) <= bucket[w]

ThrottleSound == \A w \in Windows : ThrottleAt(w)

LEMMA SubsetCount ==
  ASSUME NEW T \in SUBSET Logins, NEW S \in SUBSET T
  PROVE  /\ IsFiniteSet(S) /\ Cardinality(S) \in Nat /\ Cardinality(T) \in Nat
         /\ Cardinality(S) <= Cardinality(T)
<1>1. IsFiniteSet(T)
  BY FS_Subset
<1>2. IsFiniteSet(S) /\ Cardinality(S) <= Cardinality(T)
  BY <1>1, FS_Subset
<1> QED
  BY <1>1, <1>2, FS_CardinalityType

LEMMA GuessTypes ==
  ASSUME TypeOK, NEW w
  PROVE  Guesses(w) \in SUBSET Logins /\ Admitted(w) \in SUBSET Logins
  BY DEF TypeOK, Guesses, Admitted

\* Fewer guesses, fewer admissions, and no failure forgotten.
LEMMA ThrottleEases ==
  ASSUME TypeOK, NEW w \in Windows, ThrottleAt(w),
         Guesses(w)' \subseteq Guesses(w), Admitted(w)' \subseteq Admitted(w),
         now' < w + Window => now < w + Window /\ bucket'[w] \in Nat /\ bucket'[w] >= bucket[w]
  PROVE  ThrottleAt(w)'
<1>1. /\ Cardinality(Guesses(w)') \in Nat /\ Cardinality(Guesses(w)) \in Nat
      /\ Cardinality(Guesses(w)') <= Cardinality(Guesses(w))
      /\ Cardinality(Admitted(w)') \in Nat /\ Cardinality(Admitted(w)) \in Nat
      /\ Cardinality(Admitted(w)') <= Cardinality(Admitted(w))
  BY GuessTypes, SubsetCount
<1>2. bucket[w] \in Nat
  BY DEF TypeOK
<1>3. Cardinality(Guesses(w)') + Cardinality(Admitted(w)') <= Limit
  BY <1>1 DEF ThrottleAt
<1>4. now' < w + Window => Cardinality(Guesses(w)') <= bucket'[w]
  BY <1>1, <1>2 DEF ThrottleAt
<1> QED
  BY <1>3, <1>4 DEF ThrottleAt

\* An open window's failures are counted, whichever clock a login goes by.
LEMMA OpenWindow ==
  ASSUME TypeOK, NEW w \in Windows, NEW t \in Times, t <= now, now < w + Window
  PROVE  /\ LiveBucket(t)[w] = bucket[w] /\ bucket[w] \in Nat
         /\ Failed(t)[w] = IF w = Start(t) THEN bucket[w] + 1 ELSE bucket[w]
<1>1. w + Window > t /\ bucket[w] \in Nat
  BY WindowTypes DEF TypeOK
<1>2. LiveBucket(t)[w] = bucket[w]
  BY <1>1 DEF LiveBucket
<1>3. LiveBucket(t) \in [Windows -> Nat] /\ Start(t) \in Windows
  BY ThrottleTypes, WindowTypes
<1> QED
  BY <1>1, <1>2, <1>3 DEF Failed

LEMMA ReserveCounts ==
  ASSUME Sound, ThrottleSound, NEW l \in Logins, Reserve(l), NEW w \in Windows
  PROVE  ThrottleAt(w)'
<1>1. /\ TypeOK /\ now \in Times /\ now \in Nat /\ Start(now) \in Windows /\ now' = now
      /\ ThrottleAt(w) /\ \A m \in admission : m \in Logins
  BY WindowTypes DEF Sound, TypeOK, ThrottleSound, Reserve
<1>2. /\ login[l].stage = "new" /\ login'[l].at = now /\ login'[l].guessed = login[l].guessed
      /\ \A m \in Logins \ {l} : login'[m] = login[m]
  BY <1>1, ReserveShape
<1>3. ~login[l].guessed /\ l \notin admission
  BY <1>2 DEF Sound, LoginsSound
<1>4. Guesses(w)' = Guesses(w)
  BY <1>2, <1>3 DEF Guesses
<1>5. now < w + Window => bucket'[w] = bucket[w] /\ bucket[w] \in Nat
  BY <1>1, OpenWindow DEF Reserve
<1>6. CASE Admitted(w)' \subseteq Admitted(w)
  BY <1>1, <1>4, <1>5, <1>6, ThrottleEases
<1>7. CASE ~(Admitted(w)' \subseteq Admitted(w))
  <2>1. \A m \in Admitted(w)' : m \in LiveAdmissions(now) \/ (m = l /\ BelowLimit(now))
    BY DEF Admitted, Reserve
  <2>2. \A m \in Admitted(w)' : m # l => m \in Admitted(w)
    BY <1>1, <1>2, <2>1 DEF Admitted, LiveAdmissions
  <2>3. BelowLimit(now) /\ w = Start(now)
    BY <1>1, <1>2, <1>3, <1>7, <2>1, <2>2 DEF Admitted, LiveAdmissions
  <2>4. LiveAdmissions(now) \in SUBSET Logins
    BY <1>1 DEF LiveAdmissions
  <2>5. IsFiniteSet(LiveAdmissions(now)) /\ Cardinality(LiveAdmissions(now)) \in Nat
    BY <2>4, SubsetCount
  <2>6. LiveAdmissions(now) \cup {l} \in SUBSET Logins /\ l \notin LiveAdmissions(now)
    BY <1>3, <2>4 DEF LiveAdmissions
  <2>7. Cardinality(LiveAdmissions(now) \cup {l}) = Cardinality(LiveAdmissions(now)) + 1
    BY <2>5, <2>6, FS_AddElement
  <2>8. Admitted(w)' \in SUBSET (LiveAdmissions(now) \cup {l})
    BY <2>1
  <2>9. /\ Cardinality(Admitted(w)') \in Nat
        /\ Cardinality(Admitted(w)') <= Cardinality(LiveAdmissions(now)) + 1
    BY <2>6, <2>7, <2>8, SubsetCount
  <2>10. now < w + Window
    BY <1>1, <2>3, StartBounds
  <2>11. /\ bucket[w] \in Nat /\ bucket'[w] = bucket[w]
         /\ bucket[w] + Cardinality(LiveAdmissions(now)) < Limit
    BY <1>1, <1>5, <2>3, <2>10, OpenWindow DEF BelowLimit
  <2>12. Cardinality(Guesses(w)) \in Nat /\ Cardinality(Guesses(w)) <= bucket[w]
    BY <1>1, <2>10, GuessTypes, SubsetCount DEF ThrottleAt
  <2>13. Cardinality(Guesses(w)') + Cardinality(Admitted(w)') <= Limit
    BY <1>4, <2>5, <2>9, <2>11, <2>12
  <2>14. Cardinality(Guesses(w)') <= bucket'[w]
    BY <1>4, <2>11, <2>12
  <2> QED
    BY <2>13, <2>14 DEF ThrottleAt
<1> QED
  BY <1>6, <1>7

LEMMA VerifiedCounts ==
  ASSUME Sound, ThrottleSound, NEW l \in Logins, Verified(l), NEW w \in Windows
  PROVE  ThrottleAt(w)'
<1> DEFINE t == login[l].at
<1>1. /\ TypeOK /\ GateSound /\ t \in Times /\ t \in Nat /\ now \in Nat /\ t <= now
      /\ ThrottleAt(w) /\ admission \subseteq Logins
  BY WindowTypes DEF Sound, GateSound, TypeOK, ThrottleSound, Login
<1>2. /\ VerificationFails(l) => (login'[l].guessed <=> l \in LiveAdmissions(t))
      /\ VerificationSucceeds(l) => ~login'[l].guessed
      /\ \A m \in Logins : /\ login'[m].at = login[m].at
                           /\ m # l => login'[m].guessed = login[m].guessed
      /\ admission' = LiveAdmissions(t) \ {l}
  BY <1>1, VerifiedShape DEF SameLogin
<1>3. now' = now /\ bucket' \in {Failed(t), LiveBucket(t)} /\ (VerificationFails(l) => bucket' = Failed(t))
  BY DEF Verified, VerificationFails, VerificationSucceeds
<1> HIDE DEF t
<1>4. now < w + Window => /\ bucket'[w] \in Nat /\ bucket'[w] >= bucket[w]
                          /\ VerificationFails(l) /\ w = Start(t) => bucket'[w] = bucket[w] + 1
  BY <1>1, <1>3, OpenWindow
<1>5. Admitted(w)' \subseteq Admitted(w) \ {l}
  BY <1>1, <1>2 DEF Admitted, LiveAdmissions
<1>6. CASE Guesses(w)' \subseteq Guesses(w)
  BY <1>1, <1>3, <1>4, <1>5, <1>6, ThrottleEases
<1>7. CASE ~(Guesses(w)' \subseteq Guesses(w))
  <2>1. Guesses(w)' \subseteq Guesses(w) \cup {l}
    BY <1>2 DEF Guesses
  <2>2. l \in Guesses(w)' /\ l \notin Guesses(w)
    BY <1>7, <2>1
  <2>3. login'[l].guessed /\ Start(t) = w
    BY <1>2, <2>2 DEF Guesses, t
  <2>4. VerificationFails(l) /\ l \in Admitted(w)
    BY <1>2, <2>3 DEF Verified, Admitted, LiveAdmissions, t
  <2>5. Guesses(w) \in SUBSET Logins /\ Admitted(w) \in SUBSET Logins
    BY <1>1, GuessTypes
  <2>6. /\ IsFiniteSet(Guesses(w)) /\ Cardinality(Guesses(w)) \in Nat
        /\ IsFiniteSet(Admitted(w)) /\ Cardinality(Admitted(w)) \in Nat
    BY <2>5, SubsetCount
  <2>7. Cardinality(Guesses(w) \cup {l}) = Cardinality(Guesses(w)) + 1
    BY <2>2, <2>6, FS_AddElement
  <2>8. Cardinality(Admitted(w) \ {l}) = Cardinality(Admitted(w)) - 1
    BY <2>4, <2>6, FS_RemoveElement
  <2>9. Guesses(w) \cup {l} \in SUBSET Logins /\ Admitted(w) \ {l} \in SUBSET Logins
    BY <2>5
  <2>10. /\ Cardinality(Guesses(w)') \in Nat
         /\ Cardinality(Guesses(w)') <= Cardinality(Guesses(w)) + 1
    BY <2>1, <2>7, <2>9, SubsetCount
  <2>11. /\ Cardinality(Admitted(w)') \in Nat
         /\ Cardinality(Admitted(w)') <= Cardinality(Admitted(w)) - 1
    BY <1>5, <2>8, <2>9, SubsetCount
  <2>12. Cardinality(Guesses(w)') + Cardinality(Admitted(w)') <= Limit
    BY <1>1, <2>6, <2>10, <2>11 DEF ThrottleAt
  <2>13. now < w + Window => Cardinality(Guesses(w)') <= bucket'[w]
    <3>1. bucket[w] \in Nat
      BY <1>1 DEF TypeOK
    <3> QED
      BY <1>1, <1>4, <2>3, <2>4, <2>6, <2>10, <3>1 DEF ThrottleAt
  <2> QED
    BY <1>3, <2>12, <2>13 DEF ThrottleAt
<1> QED
  BY <1>6, <1>7

LEMMA ThrottleKept == Sound /\ ThrottleSound /\ [Next]_vars => ThrottleSound'
<1> SUFFICES ASSUME Sound, ThrottleSound, [Next]_vars, NEW w \in Windows PROVE ThrottleAt(w)'
  BY DEF ThrottleSound
<1>1. /\ TypeOK /\ GateSound /\ ThrottleAt(w) /\ now \in Times /\ now \in Nat /\ w \in Nat
      /\ bucket[w] \in Nat /\ admission \subseteq Logins
  BY WindowTypes DEF Sound, TypeOK, ThrottleSound
<1>2. CASE /\ \A m \in Logins : login'[m].at = login[m].at /\ login'[m].guessed = login[m].guessed
           /\ admission' \subseteq admission /\ bucket' = bucket /\ now' = now
  <2>1. Guesses(w)' \subseteq Guesses(w)
    BY <1>2 DEF Guesses
  <2>2. Admitted(w)' \subseteq Admitted(w)
    BY <1>1, <1>2 DEF Admitted
  <2> QED
    BY <1>1, <1>2, <2>1, <2>2, ThrottleEases
<1>3. CASE Tick
  <2>1. Guesses(w)' = Guesses(w) /\ Admitted(w)' = Admitted(w) /\ bucket' = bucket /\ now' = now + 1
    BY <1>3 DEF Tick, Guesses, Admitted
  <2> QED
    BY <1>1, <2>1, ThrottleEases
<1>4. CASE MfaFails
  <2>1. Guesses(w)' = Guesses(w) /\ Admitted(w)' \subseteq Admitted(w) /\ now' = now
    BY <1>4 DEF MfaFails, Guesses, Admitted, LiveAdmissions
  <2>2. now < w + Window => bucket'[w] \in Nat /\ bucket'[w] >= bucket[w]
    BY <1>1, <1>4, OpenWindow DEF MfaFails
  <2> QED
    BY <1>1, <2>1, <2>2, ThrottleEases
<1>5. ASSUME NEW l \in Logins, ReadAdmin(l) PROVE ThrottleAt(w)'
  BY <1>1, <1>2, <1>5, ReadShape DEF ReadAdmin
<1>6. CASE Restart
  BY <1>1, <1>2, <1>6, RestartShape DEF Restart, SameLogin
<1>7. CASE ResetPassword \/ ReplaceMfa
  BY <1>1, <1>2, <1>7 DEF ResetPassword, ReplaceMfa, AdmissionsFenced
<1>8. ASSUME NEW l, NEW code, NEW row, SignIn(l, code, row) PROVE ThrottleAt(w)'
  <2>1. /\ \A m \in Logins : login'[m].at = login[m].at /\ ~login'[m].guessed
        /\ admission' = admission /\ bucket'[w] = 0
    BY <1>1, <1>8, SignInShape DEF SignIn, SameLogin
  <2>2. Guesses(w)' = {}
    BY <2>1 DEF Guesses
  <2>3. Admitted(w)' = Admitted(w)
    BY <1>1, <2>1 DEF Admitted
  <2>4. Cardinality(Guesses(w)') = 0
    BY <2>2, FS_EmptySet
  <2>5. Cardinality(Guesses(w)) \in Nat /\ Cardinality(Admitted(w)) \in Nat
    BY <1>1, GuessTypes, SubsetCount
  <2> QED
    BY <1>1, <2>1, <2>3, <2>4, <2>5 DEF ThrottleAt
<1>9. ASSUME NEW l \in Logins, UseSession(l) \/ Logout(l) PROVE ThrottleAt(w)'
  BY <1>2, <1>9 DEF UseSession, Logout
<1>10. CASE UNCHANGED vars
  BY <1>2, <1>10 DEF vars
<1> QED
  BY <1>3, <1>4, <1>5, <1>6, <1>7, <1>8, <1>9, <1>10, ReserveCounts, VerifiedCounts
     DEF Next, CompleteMfa

\* No more than the limit learn within a window that they guessed wrong.
THEOREM GuessesCorrect == Spec => []GuessesBounded
<1>1. Init => ThrottleSound
  <2> SUFFICES ASSUME Init, NEW w \in Windows PROVE ThrottleAt(w)
    BY DEF ThrottleSound
  <2>1. Guesses(w) = {} /\ Admitted(w) = {} /\ bucket[w] = 0
    BY DEF Init, NewLogin, Guesses, Admitted
  <2> QED
    BY <2>1, FS_EmptySet DEF ThrottleAt
<1>2. TypeOK /\ ThrottleSound => GuessesBounded
  <2> SUFFICES ASSUME TypeOK, ThrottleSound, NEW w \in Windows
               PROVE  Cardinality({l \in Logins : login[l].guessed /\ Start(login[l].at) = w}) <= Limit
    BY DEF GuessesBounded
  <2>1. Cardinality(Guesses(w)) \in Nat /\ Cardinality(Admitted(w)) \in Nat
    BY GuessTypes, SubsetCount
  <2>2. Cardinality(Guesses(w)) <= Limit
    BY <2>1 DEF ThrottleSound, ThrottleAt
  <2> QED
    BY <2>2 DEF Guesses
<1> QED
  BY <1>1, <1>2, ThrottleKept, Invariant, TypeCorrect, PTL DEF Spec

=============================================================================
