--------------------------- MODULE ReminderWindows ---------------------------
(***************************************************************************)
(* When a task's due date makes it match a reminder, and when the cron job *)
(* looks.  Times are hours of the server's clock, counted from a midnight. *)
(***************************************************************************)
EXTENDS Integers

Types == {"BEFORE_3_DAYS", "BEFORE_2_DAYS", "BEFORE_24_HOURS", "ON_DUE_DATE", "OVERDUE"}

Day(t) == t \div 24

\* '0 6,18 * * *'
IsCronTime(t) == t % 12 = 6

THREE_DAYS == 3
TWO_DAYS == 2
MIN == 23
MAX == 25

\* MUTANT: "n days ahead" counted in hours, with the tolerance of the 24-hour window.
InHoursAhead(now, due, n) == 24 * n - 1 <= due - now /\ due - now <= 24 * n + 1

\* Start and end of the calendar day that lies n days ahead.
InDaysAhead(now, due, n) == Day(due) = Day(now) + n

\* `now' as detectOverdue gets it: detectOnDueDate ran before it in the same
\* turn and set the shared Date to the last millisecond of its day.
OverdueClock(now) == 24 * (Day(now) + 1)

Matches(type, now, due) ==
    CASE type = "BEFORE_3_DAYS"   -> InDaysAhead(now, due, THREE_DAYS)
      [] type = "BEFORE_2_DAYS"   -> InDaysAhead(now, due, TWO_DAYS)
      [] type = "BEFORE_24_HOURS" -> now + MIN <= due /\ due <= now + MAX
      [] type = "ON_DUE_DATE"     -> InDaysAhead(now, due, 0)
      [] type = "OVERDUE"         -> due < OverdueClock(now)
=============================================================================
