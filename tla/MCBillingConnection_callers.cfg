CONSTANTS
    activity = activity
    paywall = paywall
    None = None
    Callers <- TwoCallers
    MaxCallbacks = 3
SPECIFICATION Spec
INVARIANTS TypeOK OwnerWaits AnswerOutstanding ConnectedTracksLink WakeupPending
PROPERTIES OwnerReturns QueryReturns
