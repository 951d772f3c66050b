SPECIFICATION Spec
CONSTANTS
    a = a
    b = b
    Issues = {a, b}
    Routed = {a}
    Order <- BThenA
    Triggers = {"Todo"}
    Threshold = 1
    MaxProbes = 1
    MaxInFlight = 1
    MaxStuck = 1
INVARIANT OncePerCooldown
PROPERTIES ProbedAgain StuckLeaves TodoServed
