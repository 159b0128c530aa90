CONSTANTS
    Readers = {r1}
    Targets = {"down", "replica"}
SPECIFICATION Spec
INVARIANT NeverPrimaryNever200
