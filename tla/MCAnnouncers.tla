---------------------------- MODULE MCAnnouncers -----------------------------
(* Three hosts and two ports: two alarms.                                  *)
EXTENDS Announcers
=============================================================================
