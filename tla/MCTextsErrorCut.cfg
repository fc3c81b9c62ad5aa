SPECIFICATION Spec
CONSTANTS
    Strings <- SmallStrings
    Primitives <- SmallPrimitives
    Width <- SmallWidth
    MaxDepth = 3
    TooLong = {"long"}
    Hashes = {"hash"}
    Sizes = {"1"}
    Dialogues <- SmallDialogues
    MaxCalls = 4
    Caps = {0, 1, 38, 88, 95, 102, 200}
    AnswerCaps = {16}
    Bytes = {10, 34, 48, 92, 99, 117, 233}
    MaxBytes = 6
    FieldCaps = {1, 3, 6}
    Names <- SmallNames
    Lines <- SmallLines
    MaxCmds = 3
    MaxArgs = 3
    OutSizes = {0, 1, 3, 4}
    TextLens = {0, 1, 2, 3}
    MaxAdds = 4
    MaxTexts = 3
CHECK_DEADLOCK FALSE
INVARIANTS OnlyWholeIsSent
