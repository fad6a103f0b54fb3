\* the date at start-up, and the conversions on every day from 1970 to 2069
SPECIFICATION Spec
CONSTANTS
    Modes <- MCModes
    Slack = 6
    Times = {0, 3599, 43199, 45296, 86399}
    BootDays = {0, 58, 10956, 11015, 36523}
    LastDay = 36524
    MaxUpdates = 2
INVARIANTS NotTorn WorldtimeRight DateRight BackAndForth
CHECK_DEADLOCK FALSE
