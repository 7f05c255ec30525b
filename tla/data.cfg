SPECIFICATION Spec
CONSTANTS
    Names <- MCNames
    Selectors <- MCSelectors
    Lifetimes = {0, 100000, 59000000, 75000000}
    Nonces <- MCNonces
    Payloads <- MCPayloads
    Foreign <- MCForeign
    BufferLength = 80
    MaxWaiting = 2
    MaxHops = 2
CHECK_DEADLOCK FALSE
INVARIANTS
    RoundTrip
    PayloadFound
    CutRefused
