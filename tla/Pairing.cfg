CONSTANTS
    Users = {u1, u2}
    NoUser = NoUser
    RequestIds = {r1, r2}
    MaxInbox = 1
SPECIFICATION Spec
INVARIANTS
    TypeOK
    ConsentBeforeControl
    AgreementAtRest
    PairingInv
PROPERTIES
    AdoptsTheRegisteredUser
    UnpairedUserLosesControl
