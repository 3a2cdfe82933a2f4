CONSTANTS
    m1 = m1
    m2 = m2
    Markets = {m1, m2}
    Decided = {m1}
    p1 = p1
    Pages = {p1}
    Background = Background
    TTL = 1
    REVALIDATION = 1
    TIMEOUT = 1
    MaxTime = 4
SPECIFICATION Spec
INVARIANTS
    StalenessBounded
    ShownStatesAreReal
PROPERTIES
    PageAnswered
CHECK_DEADLOCK FALSE
