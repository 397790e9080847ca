SPECIFICATION Spec
CONSTANTS
    StartLen = 1
    SilenceLen = 1
    MaxAudio = 7
    Stride = 2
    IdleReset = 5
    Preroll = 5
    Slots = 2
    MaxFrames = 13
    MaxAborts = 2
INVARIANT UtteranceIsNew
PROPERTIES SpeechNotCut Answers
CHECK_DEADLOCK FALSE
