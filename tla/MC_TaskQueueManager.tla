------------------------- MODULE MC_TaskQueueManager -------------------------
(* Two queues, one of which can wake AFTER_WAKEUP queues, two priority     *)
(* tiers, immediate posts and delays of one and two ticks; the real-time   *)
(* domain alone, or with a virtual one queues can be retargeted to.        *)
EXTENDS TaskQueueManager

CONSTANTS q1, q2, real, virtual

MCQueues == {q1, q2}
MCCanWake == {q1}
MCOneDomain == {real}
MCTwoDomains == {real, virtual}
=============================================================================
