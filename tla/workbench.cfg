SPECIFICATION Spec
CONSTANTS
    PipeTTL = 1
    PipeMax = 1
    MaxFrames = 1
    MaxSubmits = 2
    MaxMounts = 2
    MaxTicks = 1
    KsqlFaults = 1
    Fixed = {"retention.ms", "retention.bytes"}
    Selects = {"retention.bytes"}
    Listed = {"retention.bytes", "segment.bytes"}
    Unlisted = {"remote"}
    NameOrder <- MCNameOrder
    Typed = {"x", "y"}
    StartTopics <- MCStartTopics
    MaxRows = 3
    MaxKeys = 3
    MaxSends = 2
    TopicFaults = 1
    Topics = {"t1", "t2"}
    Labels = {"f", "g"}
    Codes = {"c", "d"}
    MaxOpens = 3
    MaxRegisters = 3
    MaxFilterOps = 3
    FilterFaults = 1
    Serdes = {"str", "avro"}
    Preferred = "avro"
    UrlSerde = "str"
    HasSchema = {"avro"}
    Subjects = {"sub1"}
    TextsTyped = {"j", "bad"}
    Invalid = {"bad"}
    Messages <- MCMessages
    MaxEdits = 2
    MaxPresses = 2
    ProduceFaults = 1
    LastVersion = 3
    MaxClicks = 3
    MaxChecks = 2
    UpdateFaults = 1
    ClusterNames = {"a"}
    Optional = {"schemas"}
    MaxLists = 2
    MaxFolds = 1
INVARIANTS  ShellSafe
PROPERTIES    ProduceSafe AllSettles
CHECK_DEADLOCK FALSE
