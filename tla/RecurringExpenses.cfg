SPECIFICATION RecurringSpec
CONSTANTS
    s1 = s1
    s2 = s2
    cron = cron
    manual = manual
    Recurring = {s1, s2}
    Run = {cron, manual}
    Cron = cron
    Period = 2
    MaxLate = 2
    MaxFaults = 1
INVARIANTS RecurringTypeOK OncePerDay OnePerDueDate
PROPERTY CatchesUp
