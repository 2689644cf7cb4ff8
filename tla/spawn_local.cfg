SPECIFICATION Spec
CONSTANTS
    MAXCLIENTS = 4
    Actors = {a1, a2, a3, a4}
    NoRef = NoRef
INVARIANT LocalPlayerLeftOut
