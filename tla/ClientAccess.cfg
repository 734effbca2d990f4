CONSTANTS
    Session = {console, other}
    Space = {home, asleep, fresh}
    Client = {first, second}
    Installation = {laptop, phone}
    Nobody = Nobody
    SpaceLimit = 1
    ClientLimit = 1
    Request = {p, q, r}
    AtOnce = 2
    Home = home
    First = first
    Console = console
    Asleep = asleep
SPECIFICATION Spec
INVARIANTS TypeOK ResetEndsSessions ChangeEndsOtherSessions SocketsAreAuthorised WithinLimits ActiveClientHasKey TwoKeysAtMost
PROPERTIES BoundUntilReset
SYMMETRY RequestsAndDevices
CHECK_DEADLOCK FALSE
