\* A fetch may outlast the interval, a token may expire during the lookup.
CONSTANTS
    Callers = {"c1", "c2"}
    Kids = {"k1", "k2"}
    MinRefreshInterval = 1
    MaxTime = 2
    MaxEpoch = 2
    Tokens <- MCTokens
    Issuer = "idp"
    Audience = "docsclaw"
    RequiredScopes = {"agent", "admin"}
    AllowedCallers <- MCAllowedCallers
    ClockSkew = 1
SPECIFICATION AuthFairSpec
INVARIANTS RefreshRate AdmissionIsSound WarmCacheAdmits
PROPERTIES NoStaleInstall EveryRequestAnswered
