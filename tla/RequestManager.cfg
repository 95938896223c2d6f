SPECIFICATION FairSpec
CONSTANTS
    twitch = twitch
    youtube = youtube
    kick = kick
    None = None
    Keys = {twitch, youtube}
    Provider <- MCProvider
    Clients = {c1, c2, c3}
    Goroutines = {g1, g2}
    Slow = {twitch}
    MaxChanges = 3
INVARIANTS ReadersInv Settled
CHECK_DEADLOCK FALSE
PROPERTIES EventuallyReady Unblocked
