CONSTANTS
    Schemes = {"ginx", "opt", "wwl24", "wwl24Alt", "lazy", "pipe", "pipeAlt"}
    Sizes = {2, 3}
    Level = 2
    Runs = 3
    Throws = 1
SPECIFICATION Spec
INVARIANTS GeneratedWhole SaveReports RoundTrip NoMixture
CHECK_DEADLOCK FALSE
