SPECIFICATION SecretsSpec
CONSTANTS
    NumSlots = 2
    Values = {v1, v2}
    Cut = cut
    Savers = {p1}
    Getters = {c1}
    MaxSaves = 2
PROPERTIES FailedTouchKeepsCredentials
CHECK_DEADLOCK FALSE
