\* The start of two processes, requests under a changing policy, answers, texts.
CONSTANTS
    None = None
    Env <- EnvPolicy
    Before <- OldRows
    Updates <- SomeUpdates
    MaxVersion = 2
    Remarks <- SomeRemarks
    MaxTalk = 4
    Asks <- SomeAsks
    Lines <- SomeLines
    MaxLines = 3
    MaxChunk = 3
    LineBytes = 2
    CaptureLimit = 3
    Probes <- SomeProbes
SPECIFICATION Spec
INVARIANTS
    ImagesRight
    NormalizedRight
    AnswerRight
    TextRulesShrink
PROPERTIES
    StartKeepsPolicy
    CacheConverges
    EvictionMonotone
    EveryoneStarts
\* Conversations and answers end.
CHECK_DEADLOCK FALSE
