SPECIFICATION Spec
CONSTANTS
    Integer <- MCInteger
    OtherNumber <- MCOtherNumber
    PortItems <- MCPortItems
    AbsoluteUrls = {"url"}
    ByteSizes = {"64M"}
    Truths = {"true", "false"}
    Default <- MCDefault
    LeastMaxAge = 3
    MaxPort = 9
    Scenarios <- MCScenarios
    Samples = 10
    Rates = {10, 300}
INVARIANT InvalidConfigurationExits3
CHECK_DEADLOCK FALSE
