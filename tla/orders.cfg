SPECIFICATION FairSpec
CONSTANTS
    Orders = {o1}
    Workers = {w1, w2}
    Operations = {"webhook", "complete", "otp", "admin"}
    FaultKinds = {"call", "issue", "crash"}
    MaxFaults = 2
    None = None
INVARIANTS
    OneTicketUnlessRaced
    WebhookIssuesPaid
    StatusFollowsPayment
PROPERTIES
    PaidGetsTicket
