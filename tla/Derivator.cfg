SPECIFICATION Spec
CONSTANTS
    P = 7
    Sin <- MCSinTable
    Cos <- MCCosTable
    Ln <- MCLn
    SixDigits <- MCSixDigits
    MaxOrder = 3
    Formulas <- MCFormulas
    Points = {3}
    Requests <- MCRequests
INVARIANTS
    ParsedAsWritten
    SimplifiedKeepsValue
    DerivativesRight
    TaylorRight
    StoredComesBack
