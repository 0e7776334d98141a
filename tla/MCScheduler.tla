---------------------------- MODULE MCScheduler -----------------------------
(***************************************************************************)
(* The last two minutes of a Monday and the first two of a Tuesday, the    *)
(* second of the month.  The sweep is due in the second minute of Tuesday  *)
(* by its weekday, and in the last of Monday by neither of its day fields; *)
(* the monitor on every odd minute, so in both.  Room for two runs at a    *)
(* time should the loop not wait, and one run by hand.                     *)
(***************************************************************************)
EXTENDS Scheduler

MCMoment ==
  [m \in Minutes |->
     LET late == m < 2 IN
     [minute |-> IF late THEN 58 + m ELSE m - 2,
      hour |-> IF late THEN 23 ELSE 0,
      day |-> IF late THEN 1 ELSE 2, month |-> 6,
      weekday |-> IF late THEN 1 ELSE 2]]

(* "59,1 * 3 * 2-6": by day of month or by weekday.                        *)
MCSweep == [minute |-> {Exactly(59), Exactly(1)}, hour |-> {Every("hour")},
            day |-> {Exactly(3)}, month |-> {Every("month")},
            weekday |-> {Span(2, 6, 1)}]

(* "1-59/2 * * * *"                                                        *)
MCMonitor == [minute |-> {Span(1, 59, 2)}, hour |-> {Every("hour")},
              day |-> {Every("day")}, month |-> {Every("month")},
              weekday |-> {Every("weekday")}]
=============================================================================
