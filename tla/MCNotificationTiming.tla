------------------------ MODULE MCNotificationTiming ------------------------
(* NotificationTiming on one consultation and its marketing mail, whose    *)
(* address is resolved before the hand-over.                               *)
EXTENDS NotificationTiming, TLC

CONSTANTS w1, w2, c1, offer, probe, email, telegram

MCConsultationOf == [r \in Rows |-> c1]
MCChannelOf == [r \in Rows |-> IF r = offer THEN email ELSE telegram]
MCPurposeOf == [r \in Rows |-> IF r = offer THEN "marketing" ELSE "test"]
MCOriginOf == [r \in Rows |-> IF r = offer THEN "received" ELSE "test"]
MCRetryDelay == [i \in 1..(MaxAttempts - 1) |-> 1]

WorkerSymmetry == Permutations(Workers)
=============================================================================
