SPECIFICATION MCFairSpec
CONSTANTS
    Parts = {"build", "server", "commands", "parse"}
    UIs = {u1, u2}
    DefersSignals = FALSE
PROPERTIES BuildEnds EverybodyEnds CommandsEnd ParseEnds
