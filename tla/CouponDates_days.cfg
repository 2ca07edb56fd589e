SPECIFICATION DatesSpec
CONSTANTS
    Texts <- AllTexts
    Starts <- AllStarts
    ServerOffset = 0
    DeviceOffset = 9
    ClockStep = 3
    Horizon = 48
CHECK_DEADLOCK FALSE
INVARIANTS
    ExpiryIsPrinted
    JudgedLikeListed
    ReminderSaysTomorrow
    BadgeFitsTab
