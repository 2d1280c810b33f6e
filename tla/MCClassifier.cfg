CONSTANTS
    None = None
    Tokens <- AllTokens
    MaxArgs = 2
SPECIFICATION Spec
INVARIANT Soundness
