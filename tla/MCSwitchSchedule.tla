---- MODULE MCSwitchSchedule ----
(* TLC instance of SwitchSchedule: seconds, minutes and days of two, a week  *)
(* of three days, and the plans the server may send.                         *)
EXTENDS SwitchSchedule

Entry(kind, days, on, min, at, clear) ==
    [kind |-> kind, days |-> days, on |-> on, min |-> min, at |-> at, clear |-> clear]

OneDay  == Entry("days", {0}, TRUE, 1, 0, TRUE)
Daily   == Entry("daily", {}, FALSE, 0, 0, TRUE)
TwoDays == Entry("days", {1, 2}, TRUE, 0, 0, TRUE)
Once    == Entry("once", {}, TRUE, 0, 5, TRUE)
Soon    == Entry("once", {}, FALSE, 0, 2, TRUE)
Garbled == Entry("days", {0, 2}, TRUE, 0, 0, FALSE)
Unknown == Entry("other", {}, TRUE, 0, 0, TRUE)

MCPlans == {<<Daily, TwoDays>>, <<Once, Soon, Unknown>>, <<OneDay, Garbled>>}

MCOncePlans == {<<Once>>}
====
