SPECIFICATION FairSpec
CONSTANTS
    Requests = {r1, r2, r3}
INVARIANTS ConnectionsTypeOK NoWaitCycle AnswersAreDurable
PROPERTIES ImplementsTransactions WaitsEnd
