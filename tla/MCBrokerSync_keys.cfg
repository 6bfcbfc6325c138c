\* Two keys in any slots, each of which may be revoked, and one restart with
\* other settings.
SPECIFICATION FairSpec
CONSTANTS
    Keys = {k1, k2}
    NoKey = NoKey
    Scopes <- MCScopes
    MaxRestarts = 1
INVARIANT TypeOK
INVARIANT OneEnvironmentPerKey
INVARIANT StatusSpeaksForBoundKey
PROPERTY KeepsKeyPromise
PROPERTY BindingIsForLife
PROPERTY KeySettles
