--------------------------- MODULE MCNotification ---------------------------
(* Bounds for the TLC run of Notification.                                 *)
EXTENDS NotificationProperties

(* Nothing tells events or instances apart, so it does not matter which    *)
(* event is published first and which instance owns the partition first.   *)
FirstOfEach ==
  /\ topic # << >> => topic[1] = CHOOSE e \in Events : TRUE
  /\ rebalances = 0 => owner = CHOOSE i \in Instances : TRUE
=============================================================================
