SPECIFICATION Spec
CONSTANTS
    Tasks = {"t"}
    Configs <- Configs18
    Replaceable = {}
    Reports = {"r1", "r2"}
    JobIDs = {"d", "j"}
    Bodies <- Bodies18
    Decode <- Decode18
    DigestID <- Digest18
    LeaderJobIDs = {"d", "j"}
    Handlers = {h1, h2}
    None = None
PROPERTIES FreshReportsOnly
