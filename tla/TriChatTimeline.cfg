\* Two server processes, two subscribers, one thread of three agents.
SPECIFICATION Spec
CONSTANTS
    p1 = p1
    p2 = p2
    c1 = c1
    c2 = c2
    a1 = a1
    a2 = a2
    a3 = a3
    x = x
    y = y
    Procs = {p1, p2}
    Clients = {c1, c2}
    Types <- EventTypes
    Wants <- SomeWants
    ReplayLimit = 2
    MaxEvents = 6
    NoFile = NoFile
    NoLink = NoLink
    Agents = {a1, a2, a3}
    Answers = {x, y}
    MinAgents = 2
    MaxMessages = 5
    Budgets <- FewBudgets
    NoCall = NoCall
INVARIANTS TypeOK SubscribersMissNothing AlertPerFlip
SYMMETRY Symmetry
CHECK_DEADLOCK FALSE
