SPECIFICATION Spec
CONSTANTS
    Manifests <- MCManifests
    Mapped = {"a", "b", "c"}
    SolanaCalls = 3
    CantonCalls = 2
    Nothing = Nothing
    Exchanges = {"x", "y"}
    Exchange = "x"
    CollateralAccounts <- MCCollateral
    Freezable <- MCFreezable
    Supply <- MCSupply
    Amounts = {1}
    ForeignBatches <- MCForeign
    MAX_LEGS = 2
    MaxU64 = 2
    Parties = {"a", "b", "c"}
    Funded = {"a", "b"}
    CashSteps = {1}
    MaxInt = 2
INVARIANTS
    CollateralIsBacked
    SettledByConsent
    SuccessIsTrue
PROPERTIES
    LedgerIsImplemented
    FrozenKeepsBalance
