----------------------- MODULE MCNotificationQueue -----------------------
(* Symmetries for the safety runs of NotificationQueue. *)
EXTENDS NotificationQueue, TLC

MCSymmetry == Permutations(DeliveryIds) \cup Permutations(Workers)
                \cup Permutations(Channels) \cup Permutations(Callers)
=============================================================================
