CONSTANTS
    None = None
    Names <- MCNames
    Resolve <- MCResolve
    Kind <- MCKind
    Chars <- MCChars
    Enc <- MCEnc
    RoleLen <- MCRoleLen
    Calls <- MCCalls
SPECIFICATION Spec
INVARIANT EachFileCountedOnce
CHECK_DEADLOCK FALSE
