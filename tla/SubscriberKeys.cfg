\* Two keyrings: one given up, for whatever reason, and its successor. Six strong keys and a
\* weak one. Three saves, so that a failed one comes between two others, each under either
\* of two passphrases.
SPECIFICATION KeysSpec
CONSTANTS
    MaxKeyrings = 2
    k1 = k1
    k2 = k2
    k3 = k3
    k4 = k4
    k5 = k5
    k6 = k6
    weak = weak
    Keys <- AllKeys
    StrongKeys <- FewKeys
    MaxSaves = 3
    p1 = p1
    p2 = p2
    Passphrases = {p1, p2}
    Empty = Empty
SYMMETRY NewKeySymmetry
INVARIANTS
    OnboardingInvariant
    LettersMatch
    SuspensionHolds
    KeyChangeInvariant
    WholeKeyring
    KeyringFileInvariant
    NeverTruncated
    SavedKeyringLoads
PROPERTY
    OnlyNewKeysArrive
