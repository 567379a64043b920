SPECIFICATION Spec
CONSTANTS
    r1 = r1
    r2 = r2
    r3 = r3
    Requests <- MCRequests
    Estimates = {0, 2}
    Costs = {0, 2}
    Modes = {"hard", "soft"}
    Budget <- MCBudget
    Unlimited <- MCUnlimited
    DaysPerMonth = 2
    LastDay = 2
    Resets = {"admin"}
SYMMETRY Symmetry
INVARIANT
    SnapshotMirrorsRow
CHECK_DEADLOCK FALSE
