CONSTANTS
    None = None
    Events <- FourEvents
    occurredAt <- TwoTimes
    Filters <- SomeFilters
    Unreadable = {4}
    Old = {2}
    Sizes = {0, 2, 9}
    DefaultPageSize = 1
    MaxPageSize = 3
    Precision = 1000
    MaxCopies = 2
SPECIFICATION Spec
INVARIANT PagesAreOrdered
CHECK_DEADLOCK FALSE
