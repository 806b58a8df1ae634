SPECIFICATION FairSpec
CONSTANTS
    Page = {p1}
    Typed = {"", "ann", "no one", "not latin-1"}
    BadIds = {"no one", "not latin-1"}
    Unsendable = {"not latin-1"}
    Asked = {0}
    Conf <- MCConf
    Providers = {"test", "bedrock"}
    DefaultCap = 3
    MaxClicks = 2
    MaxKills = 1
    MaxEdits = 1
    None = None
    Typo = Typo
    Null = Null
INVARIANTS TypeOK ShownBelongsToUser AnswerMeansWhatItSays RunsAsAsked OneGenerationPerClick
PROPERTIES ScriptsAdvance EveryClickEnds
CHECK_DEADLOCK FALSE
