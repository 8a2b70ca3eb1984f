\* Two orders, one per reply and one error named; confirmations and statuses
\* may outlive their time-out.
SPECIFICATION Spec
CONSTANTS
    NOrders = 2
    Limit = 1
    MaxErrors = 1
    MaxLate = 1
    Lagging <- Anything
    None = None
INVARIANTS
    NoOrderIsForgotten
    SiteFollows1C
PROPERTY
    ExchangeDelivers
