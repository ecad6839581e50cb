\* One report, every behaviour of the language model behind both agents.
SPECIFICATION Spec
CONSTANTS
    s1 = s1
    s2 = s2
    plain = plain
    local = local
    Sections <- MCSections
    Texts <- MCTexts
    Clean <- MCClean
    NoText = NoText
\* A finished report is the end of its request.
CHECK_DEADLOCK FALSE
INVARIANTS
    BothGatesPassed
    BlockedNeverSent
    FullyVerifiedMeansNarrated
PROPERTIES
    Concludes
