--------------------------- MODULE MCNotifications ---------------------------
(* Instances of Notifications for TLC: one notification and one client that  *)
(* follows all topics, the notifications or the announcements.               *)
EXTENDS Notifications, TLC

CONSTANTS notice, browser

MCLead == [h \in Handles |-> 0]
MCChannels == <<"email", "in-app">>
MCCovers ==
  ("*" :> {"terminal", "in-app", "created", "audit", "reminder", "dismissed"})
  @@ ("shared:notification:*" :> {"in-app", "created", "reminder", "dismissed"})
=============================================================================
