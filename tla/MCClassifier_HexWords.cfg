CONSTANTS
    None = None
    Tokens <- HexTokens
    MaxArgs = 2
SPECIFICATION Spec
INVARIANT NonNetworkApproved
