SPECIFICATION Spec
CONSTANTS
    ann = ann
    bob = bob
    Names = {ann, bob}
    Nobody = Nobody
    Plausible = {ann}
    Stocked = {ann}
    MaxCalls = 2
INVARIANTS
    LookupInv
    AnswerIsForTheName
    OwnersAreVerified
PROPERTIES
    LookupSettles
    ImplementsLookups
