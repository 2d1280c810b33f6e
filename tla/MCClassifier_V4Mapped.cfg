CONSTANTS
    None = None
    Tokens <- MappedTokens
    MaxArgs = 2
SPECIFICATION Spec
INVARIANT Soundness
