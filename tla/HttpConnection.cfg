\* Requests of every kind, which arrive in any pieces; the client pipelines the
\* ones that are answered at once.
CONSTANTS
    Services = {"auth", "visitors", "scenes", "artworks"}
    Cors = TRUE
    Targets <- AllTargets
    MaxRequests = 3
    Kinds <- MixedKinds
    Eager <- SyncKinds
    Alone <- Singles
SPECIFICATION HttpFairSpec
INVARIANTS   RoutesGuarded
 
