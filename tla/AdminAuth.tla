----------------------------- MODULE AdminAuth -----------------------------
(***************************************************************************)
(* The administrator's way in. A login reserves a place under the throttle *)
(* (an admission), reads the stored password hash, waits for one of the    *)
(* few permits to verify a password, and after the long verification       *)
(* settles its admission: as a failure in the throttle's bucket, or as a   *)
(* challenge for the second factor, which ends in a session. Beside them   *)
(* the owner resets the password or replaces the second factor from the    *)
(* command line, in a process of its own.                                  *)
(*                                                                         *)
(* A password is its version: a login types the one of the owner's resets  *)
(* it knows, or one that is not (yet) valid. There is one owner, and one   *)
(* subject stands for the username and the source, which are counted the   *)
(* same way. The code takes its clock once, at the start of a login, and   *)
(* uses that time when the login settles.                                  *)
(***************************************************************************)
EXTENDS Integers, FiniteSets, SequencesExt

CONSTANTS
  Logins,           \* login attempts
  Permits,          \* MAX_CONCURRENT_PASSWORD_VERIFICATIONS
  Limit,            \* USERNAME_LIMIT
  Window,           \* WINDOW_MS of the throttle
  AdmissionLife,    \* ADMISSION_TTL_MS
  ChallengeLife,    \* PRE_AUTH_TTL_MS
  SessionLife,      \* ABSOLUTE_TTL_MS
  SessionIdle,      \* IDLE_TTL_MS
  RecoveryCodes,    \* the codes handed out with a second factor
  MaxTime,          \* bound: the clock, in steps of the one-time codes
  MaxResets,        \* bound: password resets
  MaxFactors,       \* bound: replacements of the second factor
  MaxMisses         \* bound: wrong second factors

ASSUME AuthAssumption ==
  /\ {Permits, Limit, Window, AdmissionLife, ChallengeLife} \subseteq Nat \ {0}
  /\ {SessionLife, SessionIdle, MaxTime, MaxResets, MaxFactors, MaxMisses} \subseteq Nat
  /\ SessionIdle <= SessionLife
  /\ IsFiniteSet(Logins)
  /\ RecoveryCodes \cap 0..(MaxTime + 1) = {}

VARIABLES
  now,        \* the clock
  admin,      \* the owner's row, and the recovery codes left
  resets,     \* the newest password version the owner chose
  login,      \* the logins in the server
  gate,       \* the permits taken, and the logins that wait for one
  admission,  \* admin_login_admissions
  bucket,     \* admin_login_buckets
  challenge,  \* admin_pre_auth_challenges, by the login that earned them
  session,    \* admin_sessions, by the login they came from
  misses      \* wrong second factors so far

vars == <<now, admin, resets, login, gate, admission, bucket, challenge, session, misses>>

Times == 0..MaxTime
Passwords == 0..MaxResets
Secrets == 0..MaxFactors
Start(t) == (t \div Window) * Window
Windows == {Start(t) : t \in Times}

\* A second factor: the one-time code of a time step, or a recovery code,
\* both of one enrolment.
Factors == [secret : Secrets, code : 0..(MaxTime + 1) \cup RecoveryCodes]

Admin == [password : Passwords, weak : BOOLEAN, secret : Secrets,
          counter : -1..(MaxTime + 1), spare : SUBSET RecoveryCodes]
Login == [stage : {"new", "reserved", "waiting", "verifying", "over"},
          typed : Passwords, at : Times, admitted : BOOLEAN,
          hash : Passwords, weak : BOOLEAN, guessed : BOOLEAN]
Challenge == [open : BOOLEAN, rehash : BOOLEAN]
Session == [live : BOOLEAN, made : Times, until : Nat,
            factors : SUBSET Factors, secret : Secrets]

\* The schema of the tables; a session is never renewed past its end.
TypeOK ==
  /\ now \in Times
  /\ admin \in Admin
  /\ resets \in Passwords
  /\ login \in [Logins -> Login]
  /\ gate \in [taken : 0..Permits, waiters : Seq(Logins)]
  /\ gate.taken + Len(gate.waiters) =
       Cardinality({l \in Logins : login[l].stage \in {"waiting", "verifying"}})
  /\ admission \subseteq Logins
  /\ bucket \in [Windows -> Nat]
  /\ challenge \in [Logins -> Challenge]
  /\ session \in [Logins -> Session]
  /\ \A l \in Logins : session[l].until <= session[l].made + SessionLife
  /\ misses \in 0..MaxMisses

NewLogin == [stage |-> "new", typed |-> 0, at |-> 0, admitted |-> FALSE,
             hash |-> 0, weak |-> FALSE, guessed |-> FALSE]
NoChallenge == [open |-> FALSE, rehash |-> FALSE]
NoSession == [live |-> FALSE, made |-> 0, until |-> 0, factors |-> {}, secret |-> 0]

\* The owner was bootstrapped, with a hash of an older, weaker form.
Init ==
  /\ now = 0
  /\ admin = [password |-> 0, weak |-> TRUE, secret |-> 0, counter |-> -1,
              spare |-> RecoveryCodes]
  /\ resets = 0
  /\ login = [l \in Logins |-> NewLogin]
  /\ gate = [taken |-> 0, waiters |-> <<>>]
  /\ admission = {}
  /\ bucket = [w \in Windows |-> 0]
  /\ challenge = [l \in Logins |-> NoChallenge]
  /\ session = [l \in Logins |-> NoSession]
  /\ misses = 0

Tick ==
  /\ now < MaxTime
  /\ now' = now + 1
  /\ UNCHANGED <<admin, resets, login, gate, admission, bucket, challenge, session, misses>>

-----------------------------------------------------------------------------
(* The throttle. Its rows are compared with the time a login began.        *)

LiveAdmissions(t) == {l \in admission : login[l].at + AdmissionLife > t}
LiveBucket(t) == [w \in Windows |-> IF w + Window > t THEN bucket[w] ELSE 0]

\* Mutant: attempts still being verified are not counted.
FailuresBelowLimit(t) == LiveBucket(t)[Start(t)] < Limit

BelowLimit(t) == LiveBucket(t)[Start(t)] + Cardinality(LiveAdmissions(t)) < Limit

Failed(t) == [LiveBucket(t) EXCEPT ![Start(t)] = @ + 1]

-----------------------------------------------------------------------------
(* The password.                                                           *)

Reserve(l) ==
  /\ login[l].stage = "new"
  /\ \E p \in Passwords :
       login' = [login EXCEPT ![l].stage = "reserved", ![l].typed = p,
                              ![l].at = now, ![l].admitted = BelowLimit(now)]
  /\ admission' = LiveAdmissions(now) \cup (IF BelowLimit(now) THEN {l} ELSE {})
  /\ bucket' = LiveBucket(now)
  /\ UNCHANGED <<now, admin, resets, gate, challenge, session, misses>>

\* The row is read before the wait for a permit; a login that was not
\* admitted verifies against a dummy, to take as long.
ReadAdmin(l) ==
  LET free == gate.taken < Permits /\ gate.waiters = <<>> IN
  /\ login[l].stage = "reserved"
  /\ login' = [login EXCEPT ![l].stage = IF free THEN "verifying" ELSE "waiting",
                            ![l].hash = admin.password, ![l].weak = admin.weak]
  /\ gate' = IF free THEN [gate EXCEPT !.taken = @ + 1]
                     ELSE [gate EXCEPT !.waiters = Append(@, l)]
  /\ UNCHANGED <<now, admin, resets, admission, bucket, challenge, session, misses>>

\* Mutant: nobody is woken.
PermitDropped == [gate EXCEPT !.taken = @ - 1]

\* The permit goes to the login that waits longest, if there is one.
PermitReleased ==
  IF gate.waiters # <<>> THEN [gate EXCEPT !.waiters = Tail(@)]
                         ELSE [gate EXCEPT !.taken = @ - 1]

\* The logins once l has ended and its permit, if it is handed on, is taken.
Ended(l, guessed) ==
  [m \in Logins |->
     CASE m = l -> [login[l] EXCEPT !.stage = "over", !.guessed = guessed]
       [] m \in ToSet(gate.waiters) \ ToSet(PermitReleased.waiters) ->
            [login[m] EXCEPT !.stage = "verifying"]
       [] OTHER -> login[m]]

Matches(l) == login[l].admitted /\ login[l].hash = login[l].typed

\* A wrong password. The caller learns that from the answer only while the
\* admission stands: without it the right password is refused as well.
VerificationFails(l) ==
  /\ login[l].stage = "verifying" /\ ~Matches(l)
  /\ login' = Ended(l, l \in LiveAdmissions(login[l].at))
  /\ gate' = PermitReleased
  /\ admission' = LiveAdmissions(login[l].at) \ {l}
  /\ bucket' = Failed(login[l].at)
  /\ UNCHANGED <<now, admin, resets, challenge, session, misses>>

\* The admission is still there, and other failures have not used the limit up.
Settles(l) ==
  /\ l \in LiveAdmissions(login[l].at)
  /\ LiveBucket(login[l].at)[Start(login[l].at)] < Limit

\* The right password: a challenge, with the new hash if the old was weak.
VerificationSucceeds(l) ==
  /\ login[l].stage = "verifying" /\ Matches(l)
  /\ login' = Ended(l, FALSE)
  /\ gate' = PermitReleased
  /\ admission' = LiveAdmissions(login[l].at) \ {l}
  /\ bucket' = LiveBucket(login[l].at)
  /\ challenge' = IF Settles(l)
                    THEN [challenge EXCEPT ![l] = [open |-> TRUE, rehash |-> login[l].weak]]
                    ELSE challenge
  /\ UNCHANGED <<now, admin, resets, session, misses>>

-----------------------------------------------------------------------------
(* The second factor, in one transaction.                                  *)

ChallengeValid(l) == challenge[l].open /\ now < login[l].at + ChallengeLife

\* Mutant: the step last used may be used again.
FreshOrLast(c) == c >= admin.counter

Fresh(c) == c > admin.counter

Rehashed(l, row) ==
  IF challenge[l].rehash THEN [row EXCEPT !.password = login[l].typed, !.weak = FALSE]
                         ELSE row

\* The factor leaves its mark in the owner's row; there is a session, and the
\* failures are forgotten.
SignIn(l, code, row) ==
  /\ admin' = Rehashed(l, row)
  /\ session' = [session EXCEPT ![l] =
       [live |-> TRUE, made |-> now, until |-> now + SessionIdle,
        factors |-> {[secret |-> admin.secret, code |-> code]}, secret |-> admin.secret]]
  /\ challenge' = [challenge EXCEPT ![l].open = FALSE]
  /\ bucket' = [w \in Windows |-> 0]
  /\ login' = [m \in Logins |-> [login[m] EXCEPT !.guessed = FALSE]]
  /\ UNCHANGED <<now, resets, gate, admission, misses>>

CompleteMfa(l) ==
  /\ BelowLimit(now) /\ ChallengeValid(l)
  /\ \/ \E c \in (now - 1)..(now + 1) : /\ c >= 0 /\ Fresh(c)
                                        /\ SignIn(l, c, [admin EXCEPT !.counter = c])
     \/ \E r \in admin.spare : SignIn(l, r, [admin EXCEPT !.spare = @ \ {r}])

\* A wrong or used factor, no valid challenge, or the throttle: the failure
\* is recorded and a challenge stays.
MfaFails ==
  /\ misses < MaxMisses
  /\ misses' = misses + 1
  /\ admission' = LiveAdmissions(now)
  /\ bucket' = Failed(now)
  /\ UNCHANGED <<now, admin, resets, login, gate, challenge, session>>

-----------------------------------------------------------------------------
(* Sessions.                                                               *)

InSession(l) == session[l].live /\ now < session[l].until

Earlier(a, b) == IF a < b THEN a ELSE b

\* Mutant: the absolute end of a session is forgotten.
RenewedEnd(l) == now + SessionIdle

IdleEnd(l) == Earlier(now + SessionIdle, session[l].made + SessionLife)

UseSession(l) ==
  /\ InSession(l) /\ session[l].until # IdleEnd(l)
  /\ session' = [session EXCEPT ![l].until = IdleEnd(l)]
  /\ UNCHANGED <<now, admin, resets, login, gate, admission, bucket, challenge, misses>>

Logout(l) ==
  /\ InSession(l)
  /\ session' = [session EXCEPT ![l].live = FALSE]
  /\ UNCHANGED <<now, admin, resets, login, gate, admission, bucket, challenge, misses>>

-----------------------------------------------------------------------------
(* The command line, and the server's end.                                 *)

\* Sessions and challenges, whoever they belong to, end.
RevokeAll ==
  /\ session' = [l \in Logins |-> [session[l] EXCEPT !.live = FALSE]]
  /\ challenge' = [l \in Logins |-> [challenge[l] EXCEPT !.open = FALSE]]

\* Mutant: logins that verify the old password go on.
AdmissionsKept == admission

\* Logins that verify the old password will not settle.
AdmissionsFenced == {}

ResetPassword ==
  /\ resets < MaxResets
  /\ resets' = resets + 1
  /\ admin' = [admin EXCEPT !.password = resets + 1, !.weak = FALSE]
  /\ admission' = AdmissionsFenced
  /\ RevokeAll
  /\ UNCHANGED <<now, login, gate, bucket, misses>>

ReplaceMfa ==
  /\ admin.secret < MaxFactors
  /\ admin' = [admin EXCEPT !.secret = @ + 1, !.counter = -1, !.spare = RecoveryCodes]
  /\ RevokeAll
  /\ UNCHANGED <<now, resets, login, gate, admission, bucket, misses>>

\* The server ends with the logins in it; their admissions stay until they
\* expire.
Restart ==
  /\ \E l \in Logins : login[l].stage \in {"reserved", "waiting", "verifying"}
  /\ login' = [l \in Logins |-> IF login[l].stage = "new" THEN login[l]
                                ELSE [login[l] EXCEPT !.stage = "over"]]
  /\ gate' = [taken |-> 0, waiters |-> <<>>]
  /\ UNCHANGED <<now, admin, resets, admission, bucket, challenge, session, misses>>

-----------------------------------------------------------------------------
Verified(l) == VerificationFails(l) \/ VerificationSucceeds(l)

Next ==
  \/ Tick \/ MfaFails \/ ResetPassword \/ ReplaceMfa \/ Restart
  \/ \E l \in Logins : Reserve(l) \/ ReadAdmin(l) \/ Verified(l)
                         \/ CompleteMfa(l) \/ UseSession(l) \/ Logout(l)

Spec == Init /\ [][Next]_vars

\* A request that runs goes on, and a verification that holds a permit ends.
FairSpec == Spec /\ \A l \in Logins : WF_vars(ReadAdmin(l)) /\ WF_vars(Verified(l))

-----------------------------------------------------------------------------
(* Properties.                                                             *)

\* However many logins verify at once, and however long they take, no more
\* than the limit of them learn within one window, and since the owner's last
\* sign-in, that their password was wrong.
GuessesBounded ==
  \A w \in Windows :
    Cardinality({l \in Logins : login[l].guessed /\ Start(login[l].at) = w}) <= Limit

\* What the owner reset from the command line stays reset: no login that was
\* under way brings an older password back, and whoever is signed in, or may
\* sign in without typing a password again, typed the newest one and used the
\* newest second factor.
ResetsStand ==
  /\ admin.password = resets
  /\ \A l \in Logins :
       /\ challenge[l].open \/ session[l].live => login[l].typed = resets
       /\ session[l].live => session[l].secret = admin.secret

\* A one-time code, or a recovery code, of whatever enrolment, signs in once.
FactorsUsedOnce ==
  \A l, m \in Logins : session[l].factors \cap session[m].factors # {} => l = m

\* A login that began is answered, also when every permit was taken.
EveryLoginAnswered ==
  \A l \in Logins : login[l].stage \in {"reserved", "waiting", "verifying"}
                      ~> login[l].stage = "over"

=============================================================================
