CONSTANTS
    None = None
    Names <- MCNames
    Resolve <- MCResolve
    Kind <- MCKind
    Chars <- MCChars
    Enc <- MCEnc
    RoleLen <- MCRoleLen
    Calls <- MCCalls
SPECIFICATION Spec
INVARIANTS NoCrash
ACTION_CONSTRAINT NoDeletion
CHECK_DEADLOCK FALSE
