SPECIFICATION SessionSpec
CONSTANTS
    p1 = p1
    p2 = p2
    Calls = {c1, c2}
    Sightable = {p1, p2}
    Layers = {l1, l2}
    Rows <- LoggedRows
    Nothing = Nothing
    MaxCommands = 2
INVARIANT CaptureIsOfThesePorts
CHECK_DEADLOCK FALSE
