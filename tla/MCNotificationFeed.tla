------------------------ MODULE MCNotificationFeed ------------------------
(* The instance of NotificationFeed for TLC. *)
EXTENDS NotificationFeed

CONSTANTS u1, c1, c2, l1, r1, k1

MCUsers == {u1}
MCComponents == {c1, c2}
\* The notifications of c2 are on no page.
MCCatalogue == {c1}
MCPopups == {l1}
MCReaders == {r1}
MCClosings == {k1}
=============================================================================
