CONSTANTS
    UserProxy = {p1, p2}
    UserPac = {u1, u2}
    OurProxy = OurProxy
    OurPac = OurPac
    None = None
SPECIFICATION Spec
INVARIANTS
    BlobInSync
    StoppedDirectsNobody
PROPERTIES
    OffWithdraws
