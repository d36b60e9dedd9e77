SPECIFICATION Spec
CONSTANTS
    MaxText = 5
    MaxBound = 4
INVARIANTS
    ScannersAgree
    ArgumentsStayWhole
    NamesStayNames
    ZoneChangeIsSeen
    RowsReadBack
    TerminatorsToldApart
    ParametersArrive
    StampReadsBack
    LocalTimeUnambiguous
    DsnReadsBack
    NormalizeIsStable
CHECK_DEADLOCK FALSE
