SPECIFICATION Spec
CONSTANTS
    FooterKeyIds <- MCFooterKeyIds
    KeyIds <- MCKeyIds
    ColumnNames <- MCColumnNames
    Words <- MCWords
    Entered <- MCEntered
    Lifetimes <- MCLifetimes
    MaxColumns = 2
    None = None
    Garbage = Garbage
\* A configuration that was refused is the end of the way.
CHECK_DEADLOCK FALSE
INVARIANT
    EveryColumnKept
