SPECIFICATION StartupSpec
CONSTANTS
    Nil = Nil
    PluginTypes <- MCPluginTypes
    StartInputs <- MCStartInputs
    AppProtocols = {"", "http", "h2c"}
    MaxPoolEvents = 2
INVARIANT StandaloneStarts
CHECK_DEADLOCK FALSE
