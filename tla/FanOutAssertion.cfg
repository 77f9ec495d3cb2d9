SPECIFICATION Spec
CONSTANTS
    c1 = c1  c2 = c2  c3 = c3  c4 = c4
    r1 = r1  r2 = r2
    none = none
    Calls <- MCCalls
    Recipients <- MCRecipients
    NoCall <- none
INVARIANT
    WokenCallFindsItFree
