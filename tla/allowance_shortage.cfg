\* Deadlock is not checked: once the requirement is inactive and its stock is used up little is left.
SPECIFICATION MaterialsSpec
CONSTANTS
    Request = {p1}
    None = None
    Requirement = {m1}
    MaxRequired = 2
    MaxSupply = 2
INVARIANTS ShortageMirrorsReadiness
CHECK_DEADLOCK FALSE
