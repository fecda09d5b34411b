CONSTANTS
    a1 = a1
    a2 = a2
    c1 = c1
    c2 = c2
    Empty = Empty
    Nil = Nil
    Addr <- MCAddr
    ValidAddr <- MCValidAddr
    CA <- MCCA

SPECIFICATION Spec

INVARIANT
    ServerSwitchedOnlyWhenResolved
