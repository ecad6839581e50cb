\* Two callers of the store race for one number, each dating it in either of two months.
SPECIFICATION Spec
SYMMETRY Interchangeable
CONSTANTS
    Ids = {i1}
    Months = {m1, m2}
    Docs = {d1, d2}
    Workers = {w1, w2}
    Missing = Missing
    Torn = Torn
INVARIANTS
    RecordHasBody
    OneDocumentPerId
    IndexAgrees
    UnhandledNeedsDamage
PROPERTIES
    NeverForgotten
    Implements
