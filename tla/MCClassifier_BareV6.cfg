CONSTANTS
    None = None
    Tokens <- V6Tokens
    MaxArgs = 2
SPECIFICATION Spec
INVARIANT LoopbackLiteralsApproved
