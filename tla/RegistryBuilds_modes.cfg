SPECIFICATION Spec
CONSTANTS
    local = local
    remote = remote
    Packages = {1, 2, 3, 4}
    Versions = {1, 2}
    Registries = {local, remote}
    RegistryOf <- OwnRegistry
    AttemptLimit = 5
    Digests = {1, 2}
    Catalogs <- SmallCatalogs
    Manifests <- SmallManifests
    OtherLocks <- SomeLocks
    MaxBuilds = 2
    MaxEdits = 2
INVARIANTS SelectionIsBest FailureIsReal WalksAreExact LockedBuildIsSound UpdateLocksAreAccepted
CHECK_DEADLOCK FALSE
