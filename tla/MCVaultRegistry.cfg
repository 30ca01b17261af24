CONSTANTS
    Keys <- MCKeys
    MaxVaults <- MCMaxVaults
    MaxLen <- MCMaxLen
SPECIFICATION Spec
INVARIANT LoadCanonical
