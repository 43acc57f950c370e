\* Bookings made here or imported with no approval record: free passengers raised, lowered and raised again.
SPECIFICATION Spec
CONSTANTS
    MaxFoc = 2
    MaxDiscount = 1
    MaxApprovals = 2
    Reasons = {TRUE, FALSE}
    Imported = {"draft", "pending", "pending_approval", "pending_foc", "completed"}
INVARIANT TypeOK
INVARIANT AtMostOnePending
INVARIANT WaitsForSomething
INVARIANT ConfirmedAsAsked
PROPERTY LifecycleSpec
PROPERTY ApprovalsAppendOnly
