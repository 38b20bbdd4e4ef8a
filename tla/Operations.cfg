SPECIFICATION Spec
CONSTANTS
    Replicas = {r1, r2}
    Backed = r1
    Nobody = nobody
    Latest = 2
    FallbackAllowed = TRUE
    MaxTroubles = 2
    Keep = 1
    MaxAge = 1
    Window = 1
    MaxJobs = 4
INVARIANTS ServesItsSchema VerifiedIsTrue ReadyMeansRestorable
 
CHECK_DEADLOCK FALSE
