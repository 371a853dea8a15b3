SPECIFICATION CoverageSpec
CONSTANTS
    Contexts = {c, d}
    Threads = {t, u}
    MaxSuspensions = 2
    Sizes = {0, 1, 2}
    Export = Export
    None = None
    RecordCounts = {0, 1, 3, 4, 5, 15, 16}
    MaxU32 = 15
    RecordSize = 4
INVARIANTS ExportIsKept ThreadIsRooted AnswersFit ProbesSuffice
PROPERTY InvocationsEnd
