------------------------------- MODULE CronMC -------------------------------
(* Instances of Cron for TLC: days of two ticks, weeks of two days. *)
EXTENDS Cron, TLC

CONSTANTS report, agent, test

Every2 == [kind |-> "interval", every |-> 2]
DailyAt1 == [kind |-> "daily", at |-> 1]
SecondDayAt0 == [kind |-> "weekly", weekday |-> 1, at |-> 0]

AnySchedule == report :> {Every2, DailyAt1, SecondDayAt0}
=============================================================================
