---------------------------- MODULE NoticePages -----------------------------
(* Notification pages of the three apps, a list and the bell above every    *)
(* page, and notification_service.py.                                      *)
EXTENDS Naturals

\* A notification of the user who is logged in.
NoticeRows == {[st |-> "unread"], [st |-> "read"], [st |-> "deleted"]}

Unread(row) == IF row.st = "unread" THEN 1 ELSE 0

\* The item, and what the badge counts.
BuyerNoticeSees(row) == [st |-> row.st, badge |-> Unread(row)]

\* The merchant's pages read unread_count; the answer has count.
SellerNoticeSees(row) == [st |-> row.st, badge |-> 0]

\* NotificationsContent and NotificationDropdown: a click on an unread item
\* reads it; the dropdown offers to read all while the badge shows some.
BuyerNotices(p, c, v) ==
    \/ c = "read" /\ v.st = "unread"
    \/ c = "read_all" /\ (p = "bell" => v.badge > 0)
    \/ c = "delete_notice" /\ p = "list" /\ v.st # "deleted"
    \/ c = "clear_read" /\ p = "list"

SellerNotices(p, c, v) ==
    \/ c = "read" /\ v.st = "unread"
    \/ c = "read_all" /\ v.badge > 0
    \/ c = "delete_notice" /\ p = "list" /\ v.st # "deleted"
    \/ c = "clear_read" /\ p = "list"

\* The console's bell is a link to its list.
StaffNotices(p, c, v) ==
    /\ p = "list"
    /\ \/ c = "read" /\ v.st = "unread"
       \/ c = "delete_notice" /\ v.st # "deleted"
       \/ c \in {"read_all", "clear_read"}

\* Every mutation invalidates the lists and the count, each app in its own way.
BuyerNoticeRefreshes(c) == {"list", "bell"}
SellerNoticeRefreshes(c) == {"list", "bell"}
StaffNoticeRefreshes(c) == {"list", "bell"}

-----------------------------------------------------------------------------
(* notification_service.py.                                                *)

NoticeControls == {"read", "read_all", "delete_notice", "clear_read"}

NoticeAccepts(c, row) == c \in {"read", "delete_notice"} => row.st # "deleted"

NoticeAfter(c, row) ==
    CASE c \in {"read", "read_all"} /\ row.st = "unread" -> [st |-> "read"]
      [] c = "delete_notice" -> [st |-> "deleted"]
      [] c = "clear_read" /\ row.st = "read" -> [st |-> "deleted"]
      [] OTHER -> row
=============================================================================
