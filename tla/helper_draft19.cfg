SPECIFICATION FairSpec
CONSTANTS
    Tasks = {"t"}
    Configs <- Configs19
    Replaceable = {}
    Reports = {"r1", "r2"}
    JobIDs = {"d1", "d2", "d3", "d4", "d5"}
    Bodies <- Bodies19
    Decode <- Decode19
    DigestID <- Digest19
    LeaderJobIDs = {"d1"}
    Handlers = {h1, h2}
    None = None
INVARIANTS CountedOnce ClaimsBacked NoEncodeFailure
PROPERTIES EveryCallAnswered
