SPECIFICATION Spec
CONSTANTS
    HelperTasks <- MCHelperTasks
    Configurations <- MCConfigurations
    HpkeConfigs <- MCHpkeConfigs
    Clocks <- MCClocks
    Reports = {r1, r2}
    r1 = r1
    r2 = r2
    Envelopes <- MCEnvelopes
    None = None
INVARIANTS VersionPinned ConfigurationBound MetadataBound HonestAccepted ErrorRoundTrip TimeUnlinkable
CHECK_DEADLOCK FALSE
