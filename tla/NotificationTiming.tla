------------------------- MODULE NotificationTiming -------------------------
(***************************************************************************)
(* NotificationOutbox with the time its workers may take. The provider     *)
(* adapters bound every delivery by a timeout below the lease (90 s and    *)
(* 120 s), and SQLite bounds every wait for the write lock (5 s); a worker *)
(* whose process is not suspended takes no other time. NotificationOutbox  *)
(* itself lets a worker be arbitrarily slow and loses exactly what this    *)
(* module establishes: that the lease outlives the delivery it covers.     *)
(***************************************************************************)
EXTENDS NotificationOutbox

CONSTANTS
  IOTime,      \* provider timeout
  Resolving    \* channels whose adapter resolves an address in prepare()

\* providerTimeoutMs refuses a timeout that is not below the lease; what the
\* waits for the write lock add must fit in between.
ASSUME LeaseAssumption ==
  /\ IOTime \in Nat \ {0}
  /\ Resolving \subseteq Channels
  /\ IOTime + 4 * LockWait < LeaseTime

VARIABLE due   \* when each worker's current stage ends at the latest

tvars == <<vars, due>>

TimingTypeOK == due \in [Workers -> Nat]

Later(a, b) == IF a >= b THEN a ELSE b

\* Mutant: deliver() starts a deadline of its own.
DeliverByItself(w) == now + IOTime

\* prepare() and deliver() of a resolving adapter share one deadline, set
\* when prepare() starts; the other adapter times deliver() alone.
DeliverBy(w) ==
  IF ChannelOf[job[w].row] \in Resolving
  THEN Later(now, due[w] - LockWait)
  ELSE now + IOTime

\* A stage that opens a write transaction may wait for the lock before it.
NextDue(w) ==
  LET stage == job'[w].stage
      resolving == ChannelOf[job'[w].row] \in Resolving
  IN
  CASE stage \in {"idle", "loaded", "claimed"} -> now
    [] stage = "preparing" -> now + LockWait + IF resolving THEN IOTime ELSE 0
    [] stage = "delivering" -> DeliverBy(w)
    [] OTHER -> now + LockWait

Holding(w) == job[w].stage \notin {"idle", "loaded"}

TimelyTick ==
  /\ Tick
  /\ \A w \in Workers : Holding(w) => now < due[w]

TNext ==
  \/ ServiceStep /\ UNCHANGED due
  \/ \E w \in Workers : WorkerStep(w) /\ due' = [due EXCEPT ![w] = NextDue(w)]
  \/ \E w \in Workers : Crash(w) /\ UNCHANGED due
  \/ TimelyTick /\ UNCHANGED due

TInit == Init /\ due = [w \in Workers |-> 0]

TSpec == TInit /\ [][TNext]_tvars

-----------------------------------------------------------------------------
(* Properties.                                                             *)

\* The lease outlives the delivery: from the hand-over until its outcome is
\* recorded a message is this worker's alone, so that no two workers hold
\* one message at their providers and an accepted one is not sent again
\* because its lease ran out meanwhile.
DeliveryKeepsLease ==
  \A w \in Workers :
    job[w].stage \in {"delivering", "accepted"}
      => Current(w) /\ row[job[w].row].lease > now

(***************************************************************************)
(* The inductive invariant behind it. The time that a worker may still     *)
(* need after its stage, until nothing but the record of the outcome is    *)
(* left, fits in the rest of the lease it holds; and a worker whose        *)
(* message is with the provider does hold it, since nobody recovers a      *)
(* running lease and nobody cancels a marked row.                          *)
(***************************************************************************)
StillNeeded(w) ==
  LET stage == job[w].stage
      resolving == ChannelOf[job[w].row] \in Resolving
  IN
  CASE stage = "claimed" -> IOTime + 3 * LockWait
    [] stage = "minting" -> IOTime + 2 * LockWait
    [] stage = "preparing" -> LockWait + IF resolving THEN 0 ELSE IOTime
    [] stage = "delivering" -> LockWait
    [] OTHER -> 0

StageInTime == \A w \in Workers : Holding(w) => now <= due[w]

LeaseSuffices ==
  \A w \in Workers :
    Current(w) /\ job[w].stage \notin {"failing", "cancelling"}
      => due[w] + StillNeeded(w) < row[job[w].row].lease

WireHeld ==
  \A w \in Workers : job[w].stage \in {"delivering", "accepted"} => Current(w)

TIInv == TimingTypeOK /\ StageInTime /\ LeaseSuffices /\ WireHeld

=============================================================================
