SPECIFICATION Spec
CONSTANTS
    Events = {e1}
    Sidecars = {s1, s2}
    Accounts = {a, b}
    Source = Source
    Target = Target
    RawModel = RawModel
    PlainModel = PlainModel
    Models <- MCModels
    NormalModel <- MCNormalModel
    Contents <- OneContent
    Default = Default
    AllHosts = AllHosts
    AnyModel = AnyModel
    NoTag = NoTag
    NoRow = NoRow
    NotHeld = NotHeld
    Idle = Idle
    MaxBatch = 1
    MaxChanges = 3
INVARIANTS
    RollupsMatchEvents
PROPERTIES
    NoSecondCopyUnderTarget
    NothingStampedOnArchived
    HeldEventsAreNotLost
    AttributionSettles
