SPECIFICATION ViewSpec
CONSTANTS
    ChatIds = {c1, c2}
    Turns = {t1, t2}
    Folders = {f1}
    MaxMounts = 2
    MaxClicks = 6
    MaxFlights = 1
    MaxWaits = 2
    Nothing = Nothing
INVARIANTS TurnsInTheirChat TrustIsPerFolder ShownOfChat
PROPERTIES ImplementsLedger ComposerFrees
CHECK_DEADLOCK FALSE
