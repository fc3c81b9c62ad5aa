SPECIFICATION Spec
CONSTANTS
    Tasks = {t1, t2}
    NoTask = NoTask
    RingSize = 5
    BatchSize = 5
    LineMax = 4
    PacketLens = {1, 5}
    LineLens = {4}
    MaxPackets = 2
    MaxLines = 2
INVARIANTS TypeOK Accounted InOrder PacketIsWhole
PROPERTIES LoggingReturns BacklogIsTaken
