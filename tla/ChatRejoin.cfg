\* One request at a time: is a message shown to those it brings back?
SPECIFICATION Spec
CONSTANTS
    h1 = h1
    h2 = h2
    Members = {alice, bob}
    Requests = {h1, h2}
    MaxTime = 2
    MaxMessages = 1
    Bounds <- SerialBounds
    Never = Never
PROPERTIES
    TimeJoinedBeforeMessage
