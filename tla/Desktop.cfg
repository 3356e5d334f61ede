SPECIFICATION DesktopSpec
CONSTANTS
    MaxSessions = 2
    MaxSliceOps = 2
    MaxServerOps = 1
    MaxSliceFails = 1
    MaxInbox = 2
    TextFiles = {"t"}
    Docs = {"d"}
    Pdfs = {"p"}
    Dirs = {"dir"}
    MaxClicks = 3
    MaxAgentWrites = 1
    DocTexts = {"a"}
    MaxDocOps = 6
    ChModelIds = {"a", "b"}
    MaxChOps = 2
    MaxChRows = 2
    MaxChannels = 2
    MaxChFails = 1
    EnvSearchKey = TRUE
    Emails = {"a", "b"}
    MaxAcOps = 3
    MaxAcUsers = 3
    MaxAcFails = 1
    PfWindows = {w1}
    Touched = {"open", "page", "openWeb", "submitCtrl", "autoApprove", "theme", "rulesScope", "uiSize", "hue", "uiFamily", "lists", "skills"}
    MaxPfOps = 3
    MaxPfCrashes = 1
    MaxPfFails = 1
VIEW Moving
INVARIANTS
    SlicesSound
    DocsSound
    EditorSound
    ChannelsSound
    AccountSound
    PrefsSound
PROPERTY KeysKept
CHECK_DEADLOCK FALSE
