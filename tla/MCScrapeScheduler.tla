------------------------- MODULE MCScrapeScheduler -------------------------
(***************************************************************************)
(* ScrapeScheduler on a small instance: two schedules, a day of two hours.  *)
(***************************************************************************)
EXTENDS ScrapeScheduler
=============================================================================
