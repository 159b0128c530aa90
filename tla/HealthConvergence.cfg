CONSTANTS
    Readers = {r1}
    Targets = {"starting", "primary", "replica"}
SPECIFICATION HSpec
INVARIANT SettledSnapshot
INVARIANT SteadyAnswer
