\* One thread is enough: a record write that fails half-way, then a GET.
SPECIFICATION Spec
CONSTANTS
    Ids = {i1}
    Months = {m1}
    Docs = {d1}
    Workers = {w1}
    Missing = Missing
    Torn = Torn
INVARIANTS
    UnpublishedIsNotFound
