SPECIFICATION RenameSpec
CONSTANTS
    From = nis2
    To = cybersolide
    Doors = {"public"}
    MaxFaults = 0
    MaxStops = 0
CHECK_DEADLOCK FALSE
INVARIANT PeopleKept
