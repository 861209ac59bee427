CONSTANTS
    Null = Null
    NoOne = NoOne
    Workers = {v, w}
    Ids <- MCIds
    Slots = 2
    Pages <- MCPages
    MaxPuts = 5
SPECIFICATION FooSpec
INVARIANTS MapExact ListExact PageInOrder
CHECK_DEADLOCK FALSE
