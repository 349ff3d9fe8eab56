SPECIFICATION Spec
INVARIANTS
    CompactedWhole
    AcceptedWhole
    ScreenedOut
    ShownAsBuilt
PROPERTY
    RecentKept
CHECK_DEADLOCK FALSE
