SPECIFICATION Spec
CONSTANTS
    AnyDb = AnyDb
    FileDb = FileDb
    k1 = k1
    k2 = k2
    k3 = k3
    k4 = k4
    Keys = {k1, k2, k3, k4}
    Repos <- MCRepos
    Sync <- MCSync
    Files <- MCFiles
    Depends <- MCDepends
    Provides <- MCProvides
    Groups <- MCGroups
    FileName <- MCFileName
    KeyringOf <- MCKeyringOf
    RepoEntries <- MCRepoEntries
    Trust <- MCTrust
    Install <- MCInstall
    Uninstall <- MCUninstall
    Replaces <- MCReplaces
    RetryCount = 1
    PkgOnce = 3
    MaxRuns = 3
INVARIANTS
    WalkIsClosure
    SyncFindsCache
    TrustedBeforeInstall
    PackagesAsConfigured
PROPERTY PacmanEnds
