SPECIFICATION Spec
CONSTANTS
    q1 = q1
    q2 = q2
    Reqs <- MCReqs
    Emails = {"a"}
    Passwords = {"p1", "p2"}
    Keys = {"k"}
    Conns = {"c"}
    Bearers <- MCBearers
    Assertions <- MCAssertions
    RoleMappingRules <- MCRules
    InviteRoles = {"admin"}
    KeyScopes <- MCKeyScopes
SYMMETRY Symmetry
CHECK_DEADLOCK FALSE
INVARIANT
    AnswersHold
PROPERTY
    AcceptedIsFinal
