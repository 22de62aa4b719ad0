SPECIFICATION Spec
CONSTANTS
    Tasks = {"t"}
    Configs <- ConfigsRotation
    Replaceable = {"t"}
    Reports = {"r1"}
    JobIDs = {"d1", "d2"}
    Bodies <- BodiesRotation
    Decode <- DecodeRotation
    DigestID <- DigestRotation
    LeaderJobIDs = {"d1", "d2"}
    Handlers = {h1, h2}
    None = None
PROPERTIES AnswerIsStored
