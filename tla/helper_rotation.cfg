SPECIFICATION ServerSpec
CONSTANTS
    Tasks = {"t"}
    Configs <- MCConfigs
    Replaceable = {"t"}
    Reports = {"r1", "r2"}
    JobIDs = {"d1", "d2"}
    Bodies <- MCBodies
    Decode <- MCDecode
    DigestID <- MCDigest
    LeaderJobIDs = {"d2"}
    Handlers = {h1, h2}
    None = None
    KeyPairs <- MCKeyPairs
    AddRequests <- MCAddRequests
SYMMETRY Sym
INVARIANTS OneJobPerReport CountedOnce
