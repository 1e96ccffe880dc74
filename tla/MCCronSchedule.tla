--------------------------- MODULE MCCronSchedule ---------------------------
(***************************************************************************)
(* Two scheduler instances and a job that occurs at every unit of time.    *)
(***************************************************************************)
EXTENDS CronSchedule

CONSTANTS s1, s2

Two == {s1, s2}
=============================================================================
