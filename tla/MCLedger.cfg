SPECIFICATION Spec
CONSTANTS
    AccountCodes = {"control", "bank", "payable", "income"}
    Currencies = {"BDT", "EUR"}
    Keys = {k1, k2, k3}
    Candidates <- MCCandidates
    LineLists <- MCLineLists
    NotReversal = NotReversal
    MaxEntries = 3
INVARIANTS
    TypeOK
    KeysUnique
    Replayable
    TrialBalanceZero
    AccountingEquation
    ReversalUndoes
PROPERTIES
    AppendOnly
