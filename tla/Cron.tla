-------------------------------- MODULE Cron --------------------------------
(***************************************************************************)
(* Five-field cron expressions (docker/scheduler.py): what a field stands  *)
(* for, and which moments an expression matches.  A field is the set of    *)
(* its comma separated parts, a part its first value, its last and its     *)
(* step.                                                                   *)
(***************************************************************************)
EXTENDS Integers

CronFields == {"minute", "hour", "day", "month", "weekday"}

Low  == [minute |-> 0,  hour |-> 0,  day |-> 1,  month |-> 1,  weekday |-> 0]
High == [minute |-> 59, hour |-> 23, day |-> 31, month |-> 12, weekday |-> 6]

(* "*", "*" with a step, "a-b" with a step, "a", and "a" with a step,      *)
(* which counts up to the top of its field.                                *)
Every(f)        == [from |-> Low[f], to |-> High[f], by |-> 1, star |-> TRUE]
EveryNth(f, n)  == [from |-> Low[f], to |-> High[f], by |-> n, star |-> FALSE]
Span(a, b, n)   == [from |-> a, to |-> b, by |-> n, star |-> FALSE]
Exactly(a)      == Span(a, a, 1)
FromOn(f, a, n) == Span(a, IF n > 1 THEN High[f] ELSE a, n)

(* A profile that is switched off has a schedule that names no minute.     *)
Never == [f \in CronFields |-> {}]

(* What _parse_field accepts.                                              *)
WellFormed(f, part) ==
  /\ part.by >= 1
  /\ Low[f] =< part.from /\ part.from =< part.to /\ part.to =< High[f]

Values(parts) ==
  UNION {{v \in p.from..p.to : (v - p.from) % p.by = 0} : p \in parts}

(* A day field restricts unless it is written as a lone star: a star with  *)
(* a step of one restricts too.                                            *)
Restricts(parts) == \E p \in parts : ~p.star

(* Schedule.matches.  Where both day fields restrict, either will do.      *)
DayMatches(cron, t) ==
  LET dayOk     == t.day \in Values(cron.day)
      weekdayOk == t.weekday \in Values(cron.weekday)
  IN  IF Restricts(cron.day) /\ Restricts(cron.weekday)
      THEN dayOk \/ weekdayOk
      ELSE dayOk /\ weekdayOk

Matches(cron, t) ==
  /\ \A f \in {"minute", "hour", "month"} : t[f] \in Values(cron[f])
  /\ DayMatches(cron, t)
=============================================================================
