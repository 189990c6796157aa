SPECIFICATION Spec
CONSTANTS
    local = local
    remote = remote
    Packages = {1, 2, 3, 4}
    Versions = {1, 2}
    Registries = {local, remote}
    RegistryOf <- OwnRegistry
    AttemptLimit = 5
    Digests = {1, 2}
    Catalogs <- SmallCatalogs
    Manifests <- SmallManifests
    OtherLocks <- SomeLocks
    MaxBuilds = 1
    MaxEdits = 0
INVARIANT HighestGraph
CHECK_DEADLOCK FALSE
