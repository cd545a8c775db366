SPECIFICATION RegistrySpec
CONSTANTS
    Packages <- TwoPackages
    Interfaces <- OneInterface
    Methods <- TwoMethods
    Versions <- SingleDigit
    Registrable <- Some
    Payloads <- Requests
    GroupBits = 3
    MAX_METHOD_NAME_LEN = 12
INVARIANTS RegistryTypeOK ResolvesLatest DispatchedAsNamed
CHECK_DEADLOCK FALSE
