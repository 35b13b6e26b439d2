--------------------------- MODULE MCSyslogServer ---------------------------
(* Three peers, of which one is not on the allow list, and two events: a    *)
(* connection arrives before, between and during the writes.                *)
EXTENDS SyslogServer
=============================================================================
