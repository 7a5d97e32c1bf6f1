CONSTANTS
    None = None
    ActivationStates = {0, 5, 10, 255}
    PaymentUrl <- MCPaymentUrl
    Origins <- MCOrigins
    Statuses = {"ok", "failed"}
    MaxSends = 2
SPECIFICATION Spec
INVARIANT StatusFromPaymentPage
