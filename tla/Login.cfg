SPECIFICATION Spec
CONSTANTS
    Offers <- SomeOffers
    MaxKex = 2
    Troubles = {"loss"}
    Methods = {"list", "pswd", "host", "pblc", "kybd"}
    MaxRequests = 2
INVARIANTS
    SealsAgree
    MethodsAgree
    SignaturesVerify
    SecretsSealed
    TrueVerdict
    NoNullRead
