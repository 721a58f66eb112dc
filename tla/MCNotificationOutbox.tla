------------------------ MODULE MCNotificationOutbox ------------------------
(* NotificationOutbox on one consultation with a transactional and a       *)
(* marketing mail, the mail of a status change, and a test message.        *)
EXTENDS NotificationOutbox, TLC

CONSTANTS w1, w2, c1, mail, offer, status, probe, email

MCConsultationOf == [r \in Rows |-> c1]
MCChannelOf == [r \in Rows |-> email]
MCPurposeOf == [r \in Rows |-> IF r = offer THEN "marketing"
                               ELSE IF r = probe THEN "test" ELSE "transactional"]
MCOriginOf == [r \in Rows |-> CASE r = probe -> "test"
                                 [] r = status -> "status"
                                 [] OTHER -> "received"]
MCRetryDelay == [i \in 1..(MaxAttempts - 1) |-> 1]

WorkerSymmetry == Permutations(Workers)
=============================================================================
