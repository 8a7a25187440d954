SPECIFICATION IngressSpec
CONSTANTS
    c1 = c1
    c2 = c2
    h1 = h1
    h2 = h2
    LiveChats = {c1, c2}
    Handlers = {h1, h2}
    MaxEvents = 2
    Setups <- MCSetups
INVARIANTS
    RowsSound
PROPERTIES
    DeliveriesTakeEffect
CHECK_DEADLOCK FALSE
