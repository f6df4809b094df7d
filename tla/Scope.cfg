CONSTANTS
    Scopes = {s1, s2, s3}
    Arrays = {a1, a2, a3}
    Root = Root
    Elsewhere = Elsewhere
    NULL = NULL
SPECIFICATION Spec
INVARIANT PoppedIsOut
CHECK_DEADLOCK FALSE
