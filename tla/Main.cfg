\* The whole of main() around the benchmark.
CONSTANTS
    NoValue = NoValue
    Options <- MCOptions
    Names <- MCNames
    Arguments <- MCArguments
    Castable <- MCCastable
    InLimits <- MCInLimits
    Default <- MCDefault
    CommandLines <- MCCommandLines
    PortModulus = 10
    Characters = {"a", "1", "0", ":", "/"}
    IoThreads = {t1, t2}
    RequestLen = 2
    MostRead = 2
    MaxCallbacks = 3
    MaxLine = 4
    MaxUrl = 4
SPECIFICATION Spec
INVARIANTS TypeOK OptionsAreRight UrlPartsRight ReportIsPlausible
VIEW View
CHECK_DEADLOCK FALSE
