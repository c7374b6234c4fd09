---------------------------- MODULE MCNotifyQueue ----------------------------
(***************************************************************************)
(* Small instances of the notification queue for TLC.                      *)
(***************************************************************************)
EXTENDS NotifyQueueProps

\* A tick is five minutes.
FiveToTheN == [n \in 1 .. MaxRetries |-> 5 ^ (n - 1)]
=============================================================================
