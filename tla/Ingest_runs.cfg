\* Two ingestions by two processes, with edits, and a fault or a crash anywhere.
SPECIFICATION Spec
CONSTANTS
    Files = {"a", "x/a"}
    Nested = {"x/a"}
    Stem <- MCStem
    Contents = {"c1", "c2", "c3"}
    Scanned = {"c3"}
    Figures = {"c1", "c2"}
    OcrEngine = FALSE
    VisionEnabled = TRUE
    Workers = {"w1", "w2"}
    Given <- MCGiven
    Main = "w1"
    none = none
    None = none
    Incidents = {}
    MaxRuns = 2
    MaxEdits = 2
    MaxFaults = 1
INVARIANTS IngestSound SkipSound FiguresResolve
PROPERTIES RunEnds
CHECK_DEADLOCK FALSE
