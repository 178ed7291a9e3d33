SPECIFICATION SlotSpec
CONSTANTS
    Words = {w1, w2}
    Messages = {m1, m2}
    NoMessage = none
    SeqMax = 3
    MaxLag = 2
    MaxReaderRestarts = 1
INVARIANTS SlotTypeOK CaughtUpMeansCurrent
PROPERTIES RefinesLatestValue PublishIsVisible LastMessageArrives
