\* Two changes of the bank's keys; one certificate is trusted, the other not, no key is weak.
SPECIFICATION Spec
CONSTANTS
    k1 = k1
    k2 = k2
    c1 = c1
    c2 = c2
    Keys = {k1, k2}
    Certificates = {c1, c2}
    Certified <- MCCertified
    Weak = {}
    Trusted = {c1}
    MaxChanges = 2
    None = None
INVARIANTS
    BankKeysInvariant
    TroubleOnlyAfterChange
PROPERTY
    MismatchMeansChange
