SPECIFICATION SceneFairSpec
CONSTANTS
    Deployments = {d1, d2, phase}
    phase = phase
    Builds = {1, 2}
    Dates = {1, 2, 3}
    Machines = {m1, m2}
    Incidents = {k1, k2}
    Take = 2
    MaxChanges = 1
INVARIANTS OneOpenDrift TaggedWasReverted TaggedOnce
PROPERTIES DriftHeals
CHECK_DEADLOCK FALSE
