\* The service answers HTTP 200 with a body that is not JSON.
SPECIFICATION Spec
CONSTANTS
    s1 = s1
    s2 = s2
    plain = plain
    local = local
    Sections <- MCSections
    Texts <- MCTexts
    Clean <- MCClean
    NoText = NoText
\* A finished report is the end of its request.
CHECK_DEADLOCK FALSE
INVARIANTS
    NeverRaises
