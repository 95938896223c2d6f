SPECIFICATION Spec
CONSTANTS
    a = a
    b = b
    p = p
    q = q
    Channels <- MCChannels
    Callers <- MCCallers
    Cleaner = Cleaner
    KickEvents <- MCEvents
    Chat = "chat.message.sent"
    Limit = 1
    None = None
    Left = Left
    MaxDisturbed = 1
    MaxFlight = 1
INVARIANTS NothingLeaked DocumentInv
PROPERTIES OnlyIdleRemoved
SYMMETRY MCSymmetry
