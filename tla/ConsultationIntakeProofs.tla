----------------------- MODULE ConsultationIntakeProofs -----------------------
(***************************************************************************)
(* Theorems about the intake of consultations, for any number of visitors, *)
(* contents, bundles, publications and submissions, and any times: retries *)
(* are one consultation, consent is recorded as shown, and a visitor gets  *)
(* no more than the limit in within a window.                              *)
(***************************************************************************)
EXTENDS ConsultationIntake, FiniteSetTheorems, TLAPS

USE IntakeAssumption

-----------------------------------------------------------------------------
(* Types.                                                                  *)

Windows == {Start(t) : t \in Times}

LEMMA BoundTypes == MaxTime \in Nat /\ MaxKeys \in Nat /\ MaxTries \in Nat /\ MaxActivations \in Nat
  OBVIOUS

USE BoundTypes

LEMMA TimeType == Times \subseteq Nat
  BY DEF Times

LEMMA BlankType == \A v \in Visitors : BlankBody(v) \in Body
<1>1. (CHOOSE e \in Editions : TRUE) \in Editions
  OBVIOUS
<1> QED
  BY <1>1 DEF BlankBody, Body, Times

LEMMA InitTypes == Init => TypeOK
<1> SUFFICES ASSUME Init PROVE TypeOK
  OBVIOUS
<1>1. form \in [Visitors -> Form]
  BY BlankType DEF Init, ClosedForm, Form
<1>2. idem \in [Keys -> Key]
  <2>1. (CHOOSE v \in Visitors : TRUE) \in Visitors
    OBVIOUS
  <2> QED
    BY <2>1, BlankType DEF Init, Key, Times
<1> QED
  BY <1>1, <1>2 DEF Init, TypeOK, Site, Authority, NoAuthority, Times

LEMMA AuthorityType == TypeOK => Resolved \in Authority
  BY DEF TypeOK, Resolved, NoAuthority, Authority

\* What an answer does to the forms.
LEMMA AnswerTypes ==
  ASSUME TypeOK, NEW q \in net, NEW stage \in {"ready", "closed"}, NEW receipt \in 0..MaxKeys,
         Answer(q, stage, receipt)
  PROVE  /\ form' \in [Visitors -> Form] /\ net' \subseteq Submission
         /\ UNCHANGED <<now, site, keys>>
         /\ \A v \in Visitors :
              /\ form'[v].key = form[v].key /\ form'[v].sent = form[v].sent
              /\ \/ form'[v].receipt = form[v].receipt
                 \/ form[v].key = q.key /\ form'[v].receipt = receipt
         /\ net' \subseteq net
<1>1. q.body.visitor \in Visitors
  BY DEF TypeOK, Submission, Body
<1>2. PICK v \in Visitors : v = q.body.visitor
  BY <1>1
<1>3. CASE form' = form
  BY <1>3 DEF Answer, TypeOK
<1>4. CASE /\ form[v].key = q.key
           /\ form' = [form EXCEPT ![v].stage = stage, ![v].receipt = receipt]
  <2>1. form[v] \in Form
    BY DEF TypeOK
  <2>2. [form[v] EXCEPT !.stage = stage, !.receipt = receipt] \in Form
    BY <2>1 DEF Form
  <2>3. form'[v] = [form[v] EXCEPT !.stage = stage, !.receipt = receipt]
    BY <1>4 DEF TypeOK
  <2>4. /\ form'[v].key = form[v].key /\ form'[v].sent = form[v].sent
        /\ form'[v].receipt = receipt
    BY <2>1, <2>3 DEF Form
  <2>5. form' \in [Visitors -> Form] /\ \A u \in Visitors \ {v} : form'[u] = form[u]
    BY <1>4, <2>2 DEF TypeOK
  <2> QED
    BY <1>4, <2>4, <2>5 DEF Answer, TypeOK
<1> QED
  BY <1>2, <1>3, <1>4 DEF Answer

\* What the server remembers of an activation is what its release says.
CacheSound ==
  /\ cache.serial <= site.serial
  /\ site.open => site.serial < MaxActivations
  /\ cache.serial # 0 => cache.bundle \in Bundles
  /\ site.serial # 0 => site.bundle \in Bundles
  /\ cache.serial # 0 /\ cache.serial = site.serial => cache.bundle = site.bundle

LEMMA CacheKept == TypeOK /\ CacheSound /\ [Next]_vars => CacheSound'
<1> SUFFICES ASSUME TypeOK, CacheSound, [Next]_vars PROVE CacheSound'
  OBVIOUS
<1>1. site \in Site /\ cache \in Authority
  BY DEF TypeOK
<1>2. CASE OpenActivation \/ SettleActivation
  BY <1>1, <1>2 DEF OpenActivation, SettleActivation, Site, Authority, CacheSound
<1>3. CASE RefreshAuthority \/ RefreshFails
  BY <1>1, <1>3 DEF RefreshAuthority, RefreshFails, Verified, NoAuthority, Site, CacheSound
<1>4. ASSUME NEW q \in net, Refuse(q) PROVE CacheSound'
  BY <1>1, <1>4 DEF Refuse, Answer, Resolved, NoAuthority, Site, CacheSound
<1>5. CASE UNCHANGED <<site, cache>>
  BY <1>5 DEF CacheSound
<1> QED
  BY <1>2, <1>3, <1>4, <1>5
     DEF Next, Tick, LoadConsent, Edit, Submit, TimeOut, Replay, RateLimit, Accept, Answer,
         PurgeExpiredRecords, vars

LEMMA StartWindow == \A t \in Times : Start(t) \in Windows
  BY DEF Windows

LEMMA StepTypes == TypeOK /\ CacheSound /\ [Next]_vars => TypeOK'
<1> SUFFICES ASSUME TypeOK, CacheSound, [Next]_vars PROVE TypeOK'
  OBVIOUS
<1> USE DEF server
<1>1. CASE Tick
  BY <1>1 DEF Tick, TypeOK, Times
<1>2. CASE OpenActivation \/ SettleActivation
  <2>1. site' \in Site
    <3>1. site \in Site /\ site.open \in BOOLEAN /\ site.serial \in Nat
      BY DEF TypeOK, Site
    <3>2. CASE OpenActivation
      BY <3>1, <3>2 DEF OpenActivation, Site
    <3>3. ASSUME NEW b \in Bundles, SettleActivation,
                 site' = [serial |-> site.serial + 1, bundle |-> b, open |-> FALSE]
          PROVE site' \in Site
      <4>1. site.serial + 1 \in 0..MaxActivations
        BY <3>1, <3>3 DEF SettleActivation, CacheSound
      <4> QED
        BY <3>3, <4>1 DEF Site
    <3>4. CASE site' = [site EXCEPT !.open = FALSE]
      BY <3>1, <3>4 DEF Site
    <3> QED
      BY <1>2, <3>2, <3>3, <3>4 DEF SettleActivation
  <2> QED
    BY <1>2, <2>1 DEF OpenActivation, SettleActivation, TypeOK
<1>3. CASE RefreshAuthority \/ RefreshFails
  BY <1>3 DEF RefreshAuthority, RefreshFails, Verified, NoAuthority, TypeOK, Site, Authority
<1>4. ASSUME NEW v \in Visitors, LoadConsent(v) \/ Edit(v) \/ TimeOut(v) PROVE TypeOK'
  <2>1. form[v] \in Form /\ form[v].body \in Body /\ cache.bundle \in Bundles \cup {NoBundle}
    BY DEF TypeOK, Form, Authority
  <2>2. form' \in [Visitors -> Form]
    <3>1. CASE LoadConsent(v)
      <4>1. [form[v].body EXCEPT !.bundle = cache.bundle, !.issued = now] \in Body
        BY <2>1 DEF Body, TypeOK
      <4>2. form' = [form EXCEPT ![v] = [form[v] EXCEPT !.stage = "ready",
                       !.body = [form[v].body EXCEPT !.bundle = cache.bundle, !.issued = now]]]
        BY <3>1, <2>1 DEF LoadConsent, TypeOK, Form, Body
      <4> QED
        BY <4>1, <4>2, <2>1 DEF TypeOK, Form
    <3>2. CASE Edit(v)
      <4>1. PICK e \in Editions : form' = [form EXCEPT ![v].body.edition = e]
        BY <3>2 DEF Edit
      <4>2. [form[v].body EXCEPT !.edition = e] \in Body
        BY <2>1 DEF Body
      <4>3. form' = [form EXCEPT ![v] = [form[v] EXCEPT
                       !.body = [form[v].body EXCEPT !.edition = e]]]
        BY <4>1, <2>1 DEF TypeOK, Form, Body
      <4> QED
        BY <4>2, <4>3, <2>1 DEF TypeOK, Form
    <3>3. CASE TimeOut(v)
      BY <3>3, <2>1 DEF TimeOut, TypeOK, Form
    <3> QED
      BY <1>4, <3>1, <3>2, <3>3
  <2> QED
    BY <1>4, <2>2 DEF LoadConsent, Edit, TimeOut, TypeOK
<1>5. ASSUME NEW v \in Visitors, Submit(v) PROVE TypeOK'
  <2>1. form[v] \in Form
    BY DEF TypeOK
  <2>2. PICK key \in 1..MaxKeys, try \in 1..MaxTries :
          /\ net' = net \cup {[key |-> key, body |-> form[v].body, try |-> try]}
          /\ form' = [form EXCEPT ![v].stage = "waiting", ![v].key = key, ![v].try = try,
                                  ![v].sent = form[v].body, ![v].receipt = 0]
          /\ keys' \in {keys, key}
    <3>1. keys + 1 \in Nat /\ keys + 1 >= 1 /\ form[v].key \in Nat /\ form[v].try + 1 \in Nat
      BY <2>1 DEF TypeOK, Form
    <3>2. CASE Resubmitted(v)
      <4>1. form[v].key \in 1..MaxKeys /\ form[v].try + 1 \in 1..MaxTries
        BY <1>5, <2>1, <3>1, <3>2 DEF Submit, Resubmitted, Form
      <4> QED
        BY <1>5, <3>2, <4>1 DEF Submit
    <3>3. CASE ~Resubmitted(v)
      <4>1. keys + 1 \in 1..MaxKeys /\ 1 \in 1..MaxTries
        BY <1>5, <3>1, <3>3 DEF Submit
      <4> QED
        BY <1>5, <3>3, <4>1 DEF Submit
    <3> QED
      BY <3>2, <3>3
  <2>3. form' \in [Visitors -> Form]
    <3>1. form' = [form EXCEPT ![v] = [form[v] EXCEPT !.stage = "waiting", !.key = key,
                     !.try = try, !.sent = form[v].body, !.receipt = 0]]
      BY <2>1, <2>2 DEF TypeOK, Form
    <3>2. [form[v] EXCEPT !.stage = "waiting", !.key = key, !.try = try,
                          !.sent = form[v].body, !.receipt = 0] \in Form
      <4>1. key \in 0..MaxKeys /\ try \in 0..MaxTries /\ 0 \in 0..MaxKeys
        OBVIOUS
      <4> HIDE BoundTypes
      <4> QED
        BY <2>1, <4>1, Zenon DEF Form
    <3> QED
      BY <3>1, <3>2 DEF TypeOK
  <2>4. net' \subseteq Submission
    <3>1. [key |-> key, body |-> form[v].body, try |-> try] \in Submission
      BY <2>1 DEF Submission, Form, Keys
    <3> QED
      BY <2>2, <3>1 DEF TypeOK
  <2> QED
    BY <1>5, <2>2, <2>3, <2>4 DEF Submit, TypeOK
<1>6. ASSUME NEW q \in net, Replay(q) \/ Refuse(q) \/ RateLimit(q) \/ Accept(q) PROVE TypeOK'
  <2>1. /\ q \in Submission /\ q.key \in Keys /\ q.body \in Body /\ q.key \in 0..MaxKeys
        /\ Subject(q) \in Visitors \X Windows
    BY StartWindow DEF TypeOK, Submission, Body, Keys, Subject
  <2>2. /\ form' \in [Visitors -> Form] /\ net' \subseteq Submission
        /\ UNCHANGED <<now, site, keys>>
    <3>1. \E stage \in {"ready", "closed"}, receipt \in 0..MaxKeys : Answer(q, stage, receipt)
      BY <1>6, <2>1 DEF Replay, Refuse, RateLimit, Accept
    <3> QED
      BY <3>1, AnswerTypes
  <2>3. cache' \in Authority
    BY <1>6, AuthorityType DEF Replay, Refuse, RateLimit, Accept, TypeOK
  <2>4. bucket' \in [Visitors \X Windows -> Nat]
    <3>1. bucket \in [Visitors \X Windows -> Nat]
      BY DEF TypeOK, Windows
    <3>2. Counted(q) \in [Visitors \X Windows -> Nat]
      BY <3>1, <2>1 DEF Counted
    <3> QED
      BY <1>6, <3>1, <3>2 DEF Replay, Refuse, RateLimit, Accept
  <2>5. idem' \in [Keys -> Key]
    <3>1. [live |-> TRUE, body |-> q.body, at |-> now] \in Key
      BY <2>1 DEF Key, TypeOK
    <3>2. [idem[q.key] EXCEPT !.live = FALSE] \in Key
      BY <2>1 DEF TypeOK, Key
    <3> QED
      BY <1>6, <3>1, <3>2 DEF Replay, Refuse, RateLimit, Accept, TypeOK
  <2>6. taken' \subseteq Consultation
    <3>1. CASE Accept(q)
      <4>1. Resolved.bundle \in Bundles
        BY <3>1 DEF Accept, Admissible, Resolved, CacheValid, CacheSound
      <4> QED
        BY <3>1, <4>1, <2>1 DEF Accept, Consultation, TypeOK
    <3>2. CASE taken' = taken
      BY <3>2 DEF TypeOK
    <3> QED
      BY <1>6, <3>1, <3>2 DEF Replay, Refuse, RateLimit, Accept
  <2> QED
    BY <2>2, <2>3, <2>4, <2>5, <2>6 DEF TypeOK, Windows, Times
<1>7. CASE PurgeExpiredRecords
  <2>1. \A k \in Keys : [idem[k] EXCEPT !.live = KeyLive(k)] \in Key
    <3>1. \A k \in Keys : idem[k] \in Key /\ KeyLive(k) \in BOOLEAN
      BY DEF TypeOK, KeyLive, Key
    <3> QED
      BY <3>1 DEF Key
  <2> QED
    BY <1>7, <2>1 DEF PurgeExpiredRecords, TypeOK
<1>8. CASE UNCHANGED vars
  BY <1>8 DEF vars, TypeOK, Times
<1> QED
  BY <1>1, <1>2, <1>3, <1>4, <1>5, <1>6, <1>7, <1>8 DEF Next

-----------------------------------------------------------------------------
(* Keys, bodies and consultations.                                         *)

\* A key stands for one body, in the browser, on the way and in the tables.
OneBody ==
  /\ \A v \in Visitors : form[v].key <= keys
  /\ \A q \in net : q.key <= keys
  /\ \A c \in taken : c.key <= keys
  /\ \A v, u \in Visitors : form[v].key = form[u].key /\ form[v].key # 0
                             => form[v].sent = form[u].sent
  /\ \A q \in net, v \in Visitors : q.key = form[v].key => q.body = form[v].sent
  /\ \A p, q \in net : p.key = q.key => p.body = q.body
  /\ \A c \in taken, v \in Visitors : c.key = form[v].key => c.body = form[v].sent
  /\ \A c \in taken, q \in net : c.key = q.key => c.body = q.body

\* A consultation keeps its key until no token can bring its body back.
KeysHeld ==
  /\ \A c \in taken :
       /\ c.body.issued <= c.at
       /\ now < c.at + KeyLife => idem[c.key].live /\ idem[c.key].at = c.at
  /\ \A k \in Keys : idem[k].live =>
       \E c \in taken : c.key = k /\ c.body = idem[k].body

IInv ==
  /\ TypeOK /\ CacheSound /\ OneBody /\ KeysHeld
  /\ RetriesAreOne /\ ConsentAsShown

\* What is admitted was not taken in before.
LEMMA AdmittedIsNew ==
  ASSUME IInv, NEW q \in net, ~KeyLive(q.key), TokenGood(q.body), NEW c \in taken
  PROVE  /\ c.key # q.key \/ ~(now < c.at + KeyLife)
         /\ c.key # q.key
<1>1. /\ now \in Nat /\ c.at \in Nat /\ q.body.issued \in Nat
      /\ c.key = q.key => c.body = q.body
  BY DEF IInv, TypeOK, OneBody, Submission, Consultation, Body, Times
<1>2. c.key = q.key => ~(now < c.at + KeyLife)
  BY <1>1 DEF KeyLive, IInv, KeysHeld
<1>3. now - q.body.issued < TokenAge
  BY DEF TokenGood
<1>4. c.body.issued <= c.at
  BY DEF IInv, KeysHeld
<1> QED
  BY <1>1, <1>2, <1>3, <1>4

\* How the forms' keys, the submissions and the consultations change.
LEMMA StepShapes ==
  ASSUME TypeOK, [Next]_vars
  PROVE  \/ /\ UNCHANGED <<keys, net, taken>>
            /\ \A v \in Visitors : /\ form'[v].key = form[v].key /\ form'[v].sent = form[v].sent
                                   /\ form'[v].receipt = form[v].receipt
         \/ \E v \in Visitors : Submit(v)
         \/ \E q \in net : Replay(q) \/ Refuse(q) \/ RateLimit(q) \/ Accept(q)
<1>1. \A v \in Visitors : form[v] \in Form /\ form[v].body \in Body
  BY DEF TypeOK, Form
<1>2. ASSUME NEW v \in Visitors, LoadConsent(v) \/ Edit(v) \/ TimeOut(v)
      PROVE  /\ UNCHANGED <<keys, net, taken>>
             /\ \A u \in Visitors : /\ form'[u].key = form[u].key /\ form'[u].sent = form[u].sent
                                    /\ form'[u].receipt = form[u].receipt
  <2>1. UNCHANGED <<keys, net, taken>>
    BY <1>2 DEF LoadConsent, Edit, TimeOut, server
  <2>2. \A u \in Visitors \ {v} : form'[u] = form[u]
    BY <1>2 DEF LoadConsent, Edit, TimeOut, TypeOK
  <2>3. form'[v].key = form[v].key /\ form'[v].sent = form[v].sent /\ form'[v].receipt = form[v].receipt
    <3>1. CASE LoadConsent(v)
      BY <1>1, <3>1 DEF LoadConsent, TypeOK, Form
    <3>2. CASE Edit(v)
      <4>1. PICK e \in Editions : form' = [form EXCEPT ![v].body.edition = e]
        BY <3>2 DEF Edit
      <4> QED
        BY <1>1, <4>1 DEF TypeOK, Form
    <3>3. CASE TimeOut(v)
      BY <1>1, <3>3 DEF TimeOut, TypeOK, Form
    <3> QED
      BY <1>2, <3>1, <3>2, <3>3
  <2> QED
    BY <2>1, <2>2, <2>3
<1>3. CASE UNCHANGED <<keys, net, taken, form>>
  BY <1>3
<1> QED
  BY <1>2, <1>3 DEF Next, Tick, OpenActivation, SettleActivation, RefreshAuthority, RefreshFails,
                    PurgeExpiredRecords, server, vars

\* What a submission does: its key is the one of the same body, or new.
LEMMA SubmitShape ==
  ASSUME TypeOK, NEW v \in Visitors, Submit(v)
  PROVE  \E key, q :
           /\ key \in Nat
           /\ \/ key = form[v].key /\ key # 0 /\ form[v].sent = form[v].body /\ keys' = keys
              \/ key = keys + 1 /\ keys' = keys + 1
           /\ q.key = key /\ q.body = form[v].body /\ net' = net \cup {q}
           /\ form'[v].key = key /\ form'[v].sent = form[v].body /\ form'[v].receipt = 0
           /\ \A u \in Visitors \ {v} : form'[u] = form[u]
           /\ UNCHANGED <<now, idem, taken>>
<1> DEFINE key == IF Resubmitted(v) THEN form[v].key ELSE keys + 1
           try == IF Resubmitted(v) THEN form[v].try + 1 ELSE 1
           q == [key |-> key, body |-> form[v].body, try |-> try]
<1>1. form[v] \in Form /\ keys \in Nat
  BY DEF TypeOK
<1>2. key \in Nat
  BY <1>1 DEF Form
<1>3. q.key = key /\ q.body = form[v].body
  OBVIOUS
<1>4. /\ net' = net \cup {q}
      /\ form' = [form EXCEPT ![v].stage = "waiting", ![v].key = key, ![v].try = try,
                              ![v].sent = form[v].body, ![v].receipt = 0]
      /\ keys' = IF Resubmitted(v) THEN keys ELSE key
      /\ UNCHANGED <<now, idem, taken>>
  BY DEF Submit, server
<1>5. \/ key = form[v].key /\ key # 0 /\ form[v].sent = form[v].body /\ keys' = keys
      \/ key = keys + 1 /\ keys' = keys + 1
  BY <1>4 DEF Resubmitted
<1> HIDE DEF key, try, q
<1>6. /\ form'[v].key = key /\ form'[v].sent = form[v].body /\ form'[v].receipt = 0
      /\ \A u \in Visitors \ {v} : form'[u] = form[u]
  BY <1>1, <1>4 DEF TypeOK, Form
<1> QED
  BY <1>2, <1>3, <1>4, <1>5, <1>6

\* What an answer leaves of the forms, whatever it says.
LEMMA AnswerShape ==
  ASSUME TypeOK, NEW q \in net, Replay(q) \/ Refuse(q) \/ RateLimit(q) \/ Accept(q)
  PROVE  /\ keys' = keys /\ now' = now /\ net' \subseteq net
         /\ \A v \in Visitors : form'[v].key = form[v].key /\ form'[v].sent = form[v].sent
<1>1. q.key \in 0..MaxKeys
  BY DEF TypeOK, Submission, Keys
<1>2. PICK stage \in {"ready", "closed"}, receipt \in 0..MaxKeys : Answer(q, stage, receipt)
  BY <1>1 DEF Replay, Refuse, RateLimit, Accept
<1> QED
  BY <1>2, AnswerTypes

LEMMA BodiesKept == IInv /\ [Next]_vars => OneBody'
<1> SUFFICES ASSUME IInv, [Next]_vars PROVE OneBody'
  OBVIOUS
<1>1. TypeOK /\ OneBody
  BY DEF IInv
<1>2. /\ keys \in Nat
      /\ \A v \in Visitors : form[v].key \in Nat
      /\ \A q \in net : q.key \in Nat /\ q.key # 0
      /\ \A c \in taken : c.key \in Nat /\ c.key # 0
  BY <1>1 DEF TypeOK, Form, Submission, Consultation, Keys
<1>3. CASE /\ UNCHANGED <<keys, net, taken>>
           /\ \A v \in Visitors : form'[v].key = form[v].key /\ form'[v].sent = form[v].sent
  BY <1>1, <1>3 DEF OneBody
<1>4. ASSUME NEW v \in Visitors, Submit(v) PROVE OneBody'
  <2>1. PICK key, q :
           /\ key \in Nat
           /\ \/ key = form[v].key /\ key # 0 /\ form[v].sent = form[v].body /\ keys' = keys
              \/ key = keys + 1 /\ keys' = keys + 1
           /\ q.key = key /\ q.body = form[v].body /\ net' = net \cup {q}
           /\ form'[v].key = key /\ form'[v].sent = form[v].body
           /\ \A u \in Visitors \ {v} : form'[u] = form[u]
           /\ UNCHANGED taken
    BY <1>1, <1>4, SubmitShape
  <2>2. CASE key = form[v].key /\ key # 0 /\ form[v].sent = form[v].body /\ keys' = keys
    <3>1. \A u \in Visitors : form'[u].key = form[u].key /\ form'[u].sent = form[u].sent
      BY <2>1, <2>2
    <3>2. \A p \in net : p.key = key => p.body = form[v].body
      BY <1>1, <2>2 DEF OneBody
    <3>3. \A c \in taken : c.key = key => c.body = form[v].body
      BY <1>1, <2>2 DEF OneBody
    <3>4. \A u \in Visitors : form[u].key = key => form[u].sent = form[v].body
      BY <1>1, <2>2 DEF OneBody
    <3>5. key <= keys
      BY <1>1, <2>2 DEF OneBody
    <3> QED
      BY <1>1, <2>1, <2>2, <3>1, <3>2, <3>3, <3>4, <3>5 DEF OneBody
  <2>3. CASE key = keys + 1 /\ keys' = keys + 1
    <3>1. /\ \A u \in Visitors : form[u].key < key
          /\ \A p \in net : p.key < key
          /\ \A c \in taken : c.key < key
      BY <1>1, <1>2, <2>3 DEF OneBody
    <3>2. \A u \in Visitors \ {v} : form'[u].key < key
      BY <2>1, <3>1
    <3> QED
      BY <1>1, <1>2, <2>1, <2>3, <3>1, <3>2 DEF OneBody
  <2> QED
    BY <2>1, <2>2, <2>3
<1>5. ASSUME NEW q \in net, Replay(q) \/ Refuse(q) \/ RateLimit(q) \/ Accept(q) PROVE OneBody'
  <2>1. /\ keys' = keys /\ net' \subseteq net
        /\ \A v \in Visitors : form'[v].key = form[v].key /\ form'[v].sent = form[v].sent
    BY <1>1, <1>5, AnswerShape
  <2>2. \A c \in taken' : c \in taken \/ (c.key = q.key /\ c.body = q.body)
    BY <1>5 DEF Replay, Refuse, RateLimit, Accept, server
  <2> QED
    BY <1>1, <2>1, <2>2 DEF OneBody
<1> QED
  BY <1>1, <1>3, <1>4, <1>5, StepShapes

\* What is taken in.
LEMMA AcceptShape ==
  ASSUME NEW q \in net, Accept(q)
  PROVE  \E d : /\ taken' = taken \cup {d} /\ d.key = q.key /\ d.body = q.body /\ d.at = now
                /\ d.recorded = Resolved.bundle /\ d.serving = site
<1> DEFINE d == [key |-> q.key, body |-> q.body, at |-> now,
                 recorded |-> Resolved.bundle, serving |-> site]
<1>1. taken' = taken \cup {d}
  BY DEF Accept
<1>2. /\ d.key = q.key /\ d.body = q.body /\ d.at = now
      /\ d.recorded = Resolved.bundle /\ d.serving = site
  OBVIOUS
<1> HIDE DEF d
<1> QED
  BY <1>1, <1>2

LEMMA KeysKept == IInv /\ [Next]_vars => KeysHeld'
<1> SUFFICES ASSUME IInv, [Next]_vars PROVE KeysHeld'
  OBVIOUS
<1>1. TypeOK /\ KeysHeld
  BY DEF IInv
<1>2. /\ now \in Nat /\ \A c \in taken : c.at \in Nat /\ c.key \in Keys
      /\ \A q \in net : q.key \in Keys /\ q.body \in Body
      /\ \A k \in Keys : idem[k] \in Key /\ idem[k].at \in Nat
  BY <1>1 DEF TypeOK, Consultation, Submission, Key, Times
<1>3. CASE now' = now /\ UNCHANGED <<idem, taken>>
  BY <1>1, <1>3 DEF KeysHeld
<1>4. CASE Tick
  BY <1>1, <1>2, <1>4 DEF Tick, server, KeysHeld
<1>5. CASE PurgeExpiredRecords
  <2>1. \A k \in Keys : /\ idem'[k].live <=> KeyLive(k)
                        /\ idem'[k].at = idem[k].at /\ idem'[k].body = idem[k].body
    BY <1>2, <1>5 DEF PurgeExpiredRecords, Key
  <2>2. now' = now /\ taken' = taken
    BY <1>5 DEF PurgeExpiredRecords
  <2>3. \A k \in Keys : KeyLive(k) => idem[k].live
    BY DEF KeyLive
  <2>4. \A c \in taken : now < c.at + KeyLife => KeyLive(c.key) /\ idem[c.key].at = c.at
    BY <1>1, <1>2 DEF KeysHeld, KeyLive
  <2> QED
    BY <1>1, <1>2, <2>1, <2>2, <2>3, <2>4 DEF KeysHeld
<1>6. ASSUME NEW q \in net, Accept(q) PROVE KeysHeld'
  <2>1. ~KeyLive(q.key) /\ TokenGood(q.body)
    BY <1>6 DEF Accept, Admissible
  <2>2. \A c \in taken : c.key # q.key
    BY <2>1, AdmittedIsNew
  <2>3. PICK d : /\ taken' = taken \cup {d} /\ d.key = q.key /\ d.body = q.body /\ d.at = now
    BY <1>6, AcceptShape
  <2>4. /\ idem'[q.key].live /\ idem'[q.key].at = now /\ idem'[q.key].body = q.body
        /\ \A k \in Keys \ {q.key} : idem'[k] = idem[k]
        /\ now' = now
    BY <1>1, <1>2, <1>6 DEF Accept, Answer, TypeOK
  <2>5. q.body.issued <= now
    BY <1>2, <2>1 DEF TokenGood, Body, Times
  <2> QED
    BY <1>1, <1>2, <2>2, <2>3, <2>4, <2>5 DEF KeysHeld
<1>7. ASSUME NEW q \in net, RateLimit(q) PROVE KeysHeld'
  <2>1. ~KeyLive(q.key) /\ TokenGood(q.body)
    BY <1>7 DEF RateLimit, Admissible
  <2>2. \A c \in taken : c.key # q.key
    BY <2>1, AdmittedIsNew
  <2>3. ~idem'[q.key].live /\ now' = now /\ taken' = taken
        /\ \A k \in Keys \ {q.key} : idem'[k] = idem[k]
    BY <1>1, <1>2, <1>7 DEF RateLimit, Answer, TypeOK, Key
  <2> QED
    BY <1>1, <1>2, <2>2, <2>3 DEF KeysHeld
<1> QED
  BY <1>3, <1>4, <1>5, <1>6, <1>7
     DEF Next, OpenActivation, SettleActivation, RefreshAuthority, RefreshFails, LoadConsent,
         Edit, Submit, TimeOut, Replay, Refuse, Answer, server, vars

LEMMA RetriesKept == IInv /\ [Next]_vars => RetriesAreOne'
<1> SUFFICES ASSUME IInv, [Next]_vars PROVE RetriesAreOne'
  OBVIOUS
<1>1. TypeOK /\ OneBody /\ KeysHeld /\ RetriesAreOne
  BY DEF IInv
<1>2. CASE /\ taken' = taken
           /\ \A v \in Visitors : form'[v].sent = form[v].sent /\ form'[v].receipt = form[v].receipt
  BY <1>1, <1>2 DEF RetriesAreOne
<1>3. ASSUME NEW v \in Visitors, Submit(v) PROVE RetriesAreOne'
  <2>1. taken' = taken /\ form'[v].receipt = 0 /\ \A u \in Visitors \ {v} : form'[u] = form[u]
    BY <1>1, <1>3, SubmitShape
  <2> QED
    BY <1>1, <2>1 DEF RetriesAreOne
<1>4. ASSUME NEW q \in net, NEW receipt \in 0..MaxKeys, NEW stage \in {"ready", "closed"},
             Answer(q, stage, receipt), taken \subseteq taken',
             receipt # 0 => \E c \in taken' : c.key = receipt /\ c.body = q.body
      PROVE  \A v \in Visitors : form'[v].receipt # 0 =>
               \E c \in taken' : c.key = form'[v].receipt /\ c.body = form'[v].sent
  <2>1. TAKE v \in Visitors
  <2>2. /\ form'[v].sent = form[v].sent
        /\ \/ form'[v].receipt = form[v].receipt
           \/ form[v].key = q.key /\ form'[v].receipt = receipt
    BY <1>1, <1>4, AnswerTypes
  <2>3. CASE form'[v].receipt = form[v].receipt
    BY <1>1, <1>4, <2>2, <2>3 DEF RetriesAreOne
  <2>4. CASE form[v].key = q.key /\ form'[v].receipt = receipt
    <3>1. form'[v].sent = q.body
      BY <1>1, <2>2, <2>4 DEF OneBody
    <3> QED
      BY <1>4, <2>4, <3>1
  <2> QED
    BY <2>2, <2>3, <2>4
<1>5. ASSUME NEW q \in net, Replay(q) \/ Refuse(q) \/ RateLimit(q) PROVE RetriesAreOne'
  <2>1. q.key \in Keys /\ q.key \in 0..MaxKeys /\ taken' = taken
    BY <1>1, <1>5 DEF TypeOK, Submission, Keys, Replay, Refuse, RateLimit, server
  <2>2. CASE Replay(q)
    <3>1. \E c \in taken' : c.key = q.key /\ c.body = q.body
      BY <1>1, <2>1, <2>2 DEF Replay, KeyLive, KeysHeld
    <3> QED
      BY <1>1, <1>4, <2>1, <2>2, <3>1 DEF Replay, RetriesAreOne
  <2>3. CASE Refuse(q) \/ RateLimit(q)
    <3>1. \E stage \in {"ready", "closed"} : Answer(q, stage, 0)
      BY <2>3 DEF Refuse, RateLimit
    <3> QED
      BY <1>1, <1>4, <2>1, <3>1 DEF RetriesAreOne
  <2> QED
    BY <1>5, <2>2, <2>3
<1>6. ASSUME NEW q \in net, Accept(q) PROVE RetriesAreOne'
  <2>1. PICK d : taken' = taken \cup {d} /\ d.key = q.key /\ d.body = q.body
    BY <1>6, AcceptShape
  <2>2. \A c \in taken : c.key # q.key
    BY <1>6, AdmittedIsNew DEF Accept, Admissible
  <2>3. q.key \in 0..MaxKeys /\ Answer(q, "ready", q.key)
    BY <1>1, <1>6 DEF TypeOK, Submission, Keys, Accept
  <2> QED
    BY <1>1, <1>4, <2>1, <2>2, <2>3 DEF RetriesAreOne
<1> QED
  BY <1>1, <1>2, <1>3, <1>5, <1>6, StepShapes

LEMMA ConsentKept == IInv /\ [Next]_vars => ConsentAsShown'
<1> SUFFICES ASSUME IInv, [Next]_vars PROVE ConsentAsShown'
  OBVIOUS
<1>1. ConsentAsShown /\ TypeOK /\ CacheSound
  BY DEF IInv
<1>2. CASE taken' = taken
  BY <1>1, <1>2 DEF ConsentAsShown
<1>3. ASSUME NEW q \in net, Accept(q) PROVE ConsentAsShown'
  <2>1. PICK d : /\ taken' = taken \cup {d} /\ d.body = q.body
                 /\ d.recorded = Resolved.bundle /\ d.serving = site
    BY <1>3, AcceptShape
  <2>2. CacheValid /\ Resolved = cache /\ q.body.bundle = cache.bundle
    BY <1>3 DEF Accept, Admissible, DocumentsCurrent, Resolved
  <2>3. ~site.open /\ cache.bundle = site.bundle
    BY <1>1, <2>2 DEF CacheValid, CacheSound
  <2> QED
    BY <1>1, <2>1, <2>2, <2>3 DEF ConsentAsShown
<1> QED
  BY <1>1, <1>2, <1>3, StepShapes DEF Submit, Replay, Refuse, RateLimit, server

\* The intake is correct, whatever is lost, repeated, published or purged.
THEOREM Invariant == Spec => []IInv
<1>1. Init => IInv
  <2> SUFFICES ASSUME Init PROVE IInv
    OBVIOUS
  <2>1. CacheSound
    BY DEF Init, NoAuthority, CacheSound
  <2>2. OneBody /\ KeysHeld /\ RetriesAreOne /\ ConsentAsShown
    BY DEF Init, ClosedForm, OneBody, KeysHeld, RetriesAreOne, ConsentAsShown
  <2> QED
    BY <2>1, <2>2, InitTypes DEF IInv
<1>2. IInv /\ [Next]_vars => IInv'
  BY StepTypes, CacheKept, BodiesKept, KeysKept, RetriesKept, ConsentKept DEF IInv
<1> QED
  BY <1>1, <1>2, PTL DEF Spec

\* The forms, submissions and tables keep their types.
THEOREM TypeCorrect == Spec => []TypeOK
  BY Invariant, PTL DEF IInv

\* However often a visitor submits, one body is one consultation.
THEOREM RetriesCorrect == Spec => []RetriesAreOne
  BY Invariant, PTL DEF IInv

\* Consent is recorded as it was shown and as the release said.
THEOREM ConsentCorrect == Spec => []ConsentAsShown
  BY Invariant, PTL DEF IInv

-----------------------------------------------------------------------------
(* The limit of a window.                                                  *)

LEMMA StartBounds ==
  ASSUME NEW t \in Nat
  PROVE  Start(t) \in Nat /\ Start(t) <= t /\ t < Start(t) + Window
<1>1. \A w \in Nat \ {0} : /\ (t \div w) * w \in Nat
                           /\ (t \div w) * w <= t /\ t < (t \div w) * w + w
  OBVIOUS
<1> QED
  BY <1>1 DEF Start

\* Windows neither overlap nor leave a gap.
LEMMA StartIs ==
  ASSUME NEW t \in Nat, NEW u \in Nat
  PROVE  /\ Start(t) <= u /\ u < Start(t) + Window => Start(u) = Start(t)
         /\ Start(t) + Window <= u /\ u < Start(t) + Window + Window
              => Start(u) = Start(t) + Window
<1> DEFINE k == t \div Window  n == u \div Window
<1>1. k \in Int /\ n \in Int
  <2>1. \A w \in Nat \ {0} : (t \div w) \in Int /\ (u \div w) \in Int
    OBVIOUS
  <2> QED
    BY <2>1
<1>2. Start(t) = k * Window /\ Start(u) = n * Window
  BY DEF Start
<1>3. Start(u) <= u /\ u < Start(u) + Window
  BY StartBounds
<1> HIDE DEF k, n
<1>4. \A w \in Nat \ {0}, a, b \in Int :
        /\ a * w < b * w + w /\ b * w < a * w + w => a = b
        /\ a * w < b * w + w + w /\ b * w + w < a * w + w => a = b + 1
  OBVIOUS
<1>5. k * Window + Window = (k + 1) * Window
  BY <1>1
<1>6. k * Window \in Int /\ n * Window \in Int
  BY <1>1
<1>7. k * Window <= u /\ u < k * Window + Window => n = k
  BY <1>1, <1>2, <1>3, <1>4, <1>6
<1>8. k * Window + Window <= u /\ u < k * Window + Window + Window => n = k + 1
  BY <1>1, <1>2, <1>3, <1>4, <1>6
<1> QED
  BY <1>1, <1>2, <1>5, <1>7, <1>8

\* The consultations of a visitor in a window.
InWindow(v, w) == {c \in taken : c.body.visitor = v /\ Start(c.at) = w}

\* While a window can still grow, its bucket counts what was taken in.
BucketsCount ==
  /\ IsFiniteSet(taken)
  /\ \A v \in Visitors, w \in Windows :
       /\ Cardinality(InWindow(v, w)) <= Limit
       /\ now < w + Window + Grace => Cardinality(InWindow(v, w)) <= bucket[<<v, w>>]

LEMMA InWindowFinite ==
  ASSUME IsFiniteSet(taken), NEW v, NEW w
  PROVE  IsFiniteSet(InWindow(v, w)) /\ Cardinality(InWindow(v, w)) \in Nat
<1>1. InWindow(v, w) \in SUBSET taken
  BY DEF InWindow
<1>2. IsFiniteSet(InWindow(v, w))
  BY <1>1, FS_Subset
<1> QED
  BY <1>2, FS_CardinalityType

LEMMA AcceptCounts ==
  ASSUME TypeOK, BucketsCount, NEW q \in net, Accept(q)
  PROVE  BucketsCount'
<1>1. PICK d : taken' = taken \cup {d} /\ d.body = q.body /\ d.at = now
  BY AcceptShape
<1>2. /\ Subject(q) = <<q.body.visitor, Start(now)>> /\ Start(now) \in Windows
      /\ q.body.visitor \in Visitors /\ bucket \in [Visitors \X Windows -> Nat]
      /\ now \in Nat /\ now' = now
  BY StartWindow DEF Subject, TypeOK, Windows, Submission, Body, Times, Accept, Answer
<1>3. /\ bucket'[<<q.body.visitor, Start(now)>>] = bucket[<<q.body.visitor, Start(now)>>] + 1
      /\ bucket'[<<q.body.visitor, Start(now)>>] <= Limit
      /\ \A v \in Visitors, w \in Windows :
           v # q.body.visitor \/ w # Start(now) => bucket'[<<v, w>>] = bucket[<<v, w>>]
  BY <1>2 DEF Accept, Counted, WithinLimit
<1>4. IsFiniteSet(taken')
  BY <1>1, FS_AddElement DEF BucketsCount
<1>5. ASSUME NEW v \in Visitors, NEW w \in Windows
      PROVE  /\ Cardinality(InWindow(v, w)') <= Limit
             /\ now' < w + Window + Grace => Cardinality(InWindow(v, w)') <= bucket'[<<v, w>>]
  <2>1. CASE v = q.body.visitor /\ w = Start(now)
    <3>1. InWindow(v, w)' = InWindow(v, w) \cup {d}
      BY <1>1, <2>1 DEF InWindow
    <3>2. IsFiniteSet(InWindow(v, w)) /\ Cardinality(InWindow(v, w)) \in Nat
      BY InWindowFinite DEF BucketsCount
    <3>3. \A T : IsFiniteSet(T) /\ Cardinality(T) \in Nat
                  => /\ Cardinality(T \cup {d}) <= Cardinality(T) + 1
                     /\ Cardinality(T \cup {d}) \in Nat
      <4> SUFFICES ASSUME NEW T, IsFiniteSet(T), Cardinality(T) \in Nat
                   PROVE  /\ Cardinality(T \cup {d}) <= Cardinality(T) + 1
                          /\ Cardinality(T \cup {d}) \in Nat
        OBVIOUS
      <4>1. Cardinality(T \cup {d}) = IF d \in T THEN Cardinality(T) ELSE Cardinality(T) + 1
        BY FS_AddElement
      <4> QED
        BY <4>1
    <3>4. /\ Cardinality(InWindow(v, w)') <= Cardinality(InWindow(v, w)) + 1
          /\ Cardinality(InWindow(v, w)') \in Nat
      BY <3>1, <3>2, <3>3
    <3>5. now < w + Window + Grace
      BY <1>2, <2>1, StartBounds
    <3>6. Cardinality(InWindow(v, w)) <= bucket[<<v, w>>]
      BY <3>5 DEF BucketsCount
    <3>7. bucket[<<v, w>>] \in Nat
      BY <1>2
    <3> QED
      BY <1>3, <2>1, <3>2, <3>4, <3>6, <3>7
  <2>2. CASE v # q.body.visitor \/ w # Start(now)
    <3>1. InWindow(v, w)' = InWindow(v, w)
      BY <1>1, <2>2 DEF InWindow
    <3> QED
      BY <1>2, <1>3, <2>2, <3>1 DEF BucketsCount
  <2> QED
    BY <2>1, <2>2
<1> QED
  BY <1>4, <1>5 DEF BucketsCount

LEMMA CountsKept == TypeOK /\ BucketsCount /\ [Next]_vars => BucketsCount'
<1> SUFFICES ASSUME TypeOK, BucketsCount, [Next]_vars PROVE BucketsCount'
  OBVIOUS
<1>1. /\ bucket \in [Visitors \X Windows -> Nat] /\ now \in Nat
      /\ \A w \in Windows : w \in Nat
  BY StartBounds DEF TypeOK, Windows, Times
<1>2. taken' = taken => \A v, w : InWindow(v, w)' = InWindow(v, w)
  BY DEF InWindow
<1>3. CASE taken' = taken /\ bucket' = bucket /\ now' \in Nat /\ now <= now'
  BY <1>1, <1>2, <1>3 DEF BucketsCount
<1>4. CASE PurgeExpiredRecords
  <2>1. /\ taken' = taken /\ now' = now
        /\ \A v \in Visitors, w \in Windows :
             now < w + Window + Grace => bucket'[<<v, w>>] = bucket[<<v, w>>]
    BY <1>1, <1>4 DEF PurgeExpiredRecords, BucketExpired
  <2> QED
    BY <1>2, <2>1 DEF BucketsCount
<1>5. ASSUME NEW q \in net, RateLimit(q) PROVE BucketsCount'
  <2>1. /\ taken' = taken /\ now' = now
        /\ Subject(q) \in Visitors \X Windows
    BY <1>5, StartWindow DEF RateLimit, Answer, Subject, TypeOK, Submission, Body
  <2>2. \A v \in Visitors, w \in Windows : bucket'[<<v, w>>] \in Nat /\ bucket'[<<v, w>>] >= bucket[<<v, w>>]
    BY <1>1, <1>5, <2>1 DEF RateLimit, Counted
  <2>3. \A v, w : Cardinality(InWindow(v, w)) \in Nat
    BY InWindowFinite DEF BucketsCount
  <2> QED
    BY <1>1, <1>2, <2>1, <2>2, <2>3 DEF BucketsCount
<1>6. CASE Tick
  BY <1>1, <1>3, <1>6 DEF Tick, server
<1>7. CASE UNCHANGED <<now, bucket, taken>>
  BY <1>1, <1>3, <1>7
<1> QED
  BY <1>4, <1>5, <1>6, <1>7, AcceptCounts
     DEF Next, OpenActivation, SettleActivation, RefreshAuthority, RefreshFails, LoadConsent,
         Edit, Submit, TimeOut, Replay, Refuse, Answer, server, vars

LEMMA CountsBound == TypeOK /\ BucketsCount => FloodBounded
<1> SUFFICES ASSUME TypeOK, BucketsCount, NEW v \in Visitors, NEW t \in Times
    PROVE  LET within(first) == {c \in taken : /\ c.body.visitor = v
                                               /\ c.at \in first..(first + Window - 1)}
           IN  /\ Cardinality(within(Start(t))) <= Limit
               /\ Cardinality(within(t)) <= 2 * Limit
  BY DEF FloodBounded
<1> DEFINE within(first) == {c \in taken : /\ c.body.visitor = v
                                            /\ c.at \in first..(first + Window - 1)}
           next == Start(t) + Window
<1>1. t \in Nat /\ \A c \in taken : c.at \in Times /\ c.at \in Nat
  BY DEF TypeOK, Consultation, Times
<1>2. /\ Start(t) \in Nat /\ Start(t) <= t /\ t < Start(t) + Window /\ Start(t) \in Windows
  BY <1>1, StartBounds, StartWindow
<1>3. \A w \in Windows : Cardinality(InWindow(v, w)) <= Limit
  BY DEF BucketsCount
<1>4. \A w : IsFiniteSet(InWindow(v, w)) /\ Cardinality(InWindow(v, w)) \in Nat
  BY InWindowFinite DEF BucketsCount
<1>5. Cardinality(InWindow(v, next)) <= Limit
  <2>1. CASE next \in Windows
    BY <1>3, <2>1
  <2>2. CASE next \notin Windows
    <3>1. InWindow(v, next) = {}
      BY <1>1, <2>2, StartWindow DEF InWindow
    <3> QED
      BY <3>1, FS_EmptySet
  <2> QED
    BY <2>1, <2>2
<1>6. Cardinality(within(Start(t))) <= Limit
  <2>1. within(Start(t)) \in SUBSET InWindow(v, Start(t))
    BY <1>1, <1>2, StartIs DEF InWindow
  <2>2. Cardinality(within(Start(t))) <= Cardinality(InWindow(v, Start(t)))
    BY <2>1, <1>4, FS_Subset
  <2>3. Cardinality(within(Start(t))) \in Nat
    BY <2>1, <1>4, FS_Subset, FS_CardinalityType
  <2> QED
    BY <1>2, <1>3, <1>4, <2>2, <2>3
<1>7. Cardinality(within(t)) <= 2 * Limit
  <2> DEFINE A == InWindow(v, Start(t))  B == InWindow(v, next)
  <2>1. within(t) \in SUBSET (A \cup B)
    <3>1. ASSUME NEW c \in within(t) PROVE c \in A \cup B
      <4>1. c \in taken /\ c.body.visitor = v /\ c.at \in Nat /\ t <= c.at /\ c.at < t + Window
        BY <1>1, <3>1
      <4>2. Start(c.at) = Start(t) \/ Start(c.at) = next
        BY <1>1, <1>2, <4>1, StartIs
      <4> QED
        BY <4>1, <4>2 DEF InWindow
    <3> QED
      BY <3>1
  <2>2. IsFiniteSet(A) /\ IsFiniteSet(B)
    BY <1>4
  <2>3. /\ IsFiniteSet(A \cup B)
        /\ Cardinality(A \cup B) = Cardinality(A) + Cardinality(B) - Cardinality(A \cap B)
    BY <2>2, FS_Union
  <2>4. Cardinality(A \cap B) \in Nat
    BY <2>2, FS_Intersection, FS_CardinalityType
  <2>5. Cardinality(A) \in Nat /\ Cardinality(B) \in Nat /\ Cardinality(A) <= Limit /\ Cardinality(B) <= Limit
    BY <1>2, <1>3, <1>4, <1>5
  <2>6. Cardinality(within(t)) <= Cardinality(A \cup B) /\ Cardinality(within(t)) \in Nat
    BY <2>1, <2>3, FS_Subset, FS_CardinalityType
  <2> HIDE DEF A, B, within, next
  <2> QED
    BY <2>3, <2>4, <2>5, <2>6
<1> QED
  BY <1>6, <1>7

\* No visitor floods the intake, however windows end and buckets are purged.
THEOREM FloodCorrect == Spec => []FloodBounded
<1>1. Init => BucketsCount
  <2> SUFFICES ASSUME Init PROVE BucketsCount
    OBVIOUS
  <2>1. taken = {} /\ \A v, w : InWindow(v, w) = {}
    BY DEF Init, InWindow
  <2>2. \A v \in Visitors, w \in Windows : bucket[<<v, w>>] = 0
    BY DEF Init, Windows
  <2> QED
    BY <2>1, <2>2, FS_EmptySet DEF BucketsCount
<1>2. Spec => []BucketsCount
  BY <1>1, CountsKept, TypeCorrect, PTL DEF Spec
<1> QED
  BY <1>2, CountsBound, TypeCorrect, PTL

=============================================================================
