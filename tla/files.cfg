CONSTANTS
    Files = {"settings", "pet", "env"}
    PartsOf <- Parts
    Lenient = {"pet", "env"}
    Actors = {"h1", "h2", "pos", "webui", "bot", "checks", "script"}
    Values = {0, 1, 2, 3}
    First <- InitialFiles
    WritesBreak = TRUE
    NoFile = NoFile
    Torn = Torn
    Handlers = {"h1", "h2"}
    Pages = {"pos"}
    PageFile <- ShownFile
    PageParts <- EditedParts
    Programs = {"webui", "bot"}
    WebUI = "webui"
    Asks <- AskedPorts
    Ports = {"webui", "overlay", "webhook"}
    Choices = {1}
    MaxLoads = 3
    Bot = "checks"
    Script = "script"
    MaxIssued = 3
SPECIFICATION Spec
INVARIANTS EditsSurvive AskedOnce RefreshableKept
CHECK_DEADLOCK FALSE
