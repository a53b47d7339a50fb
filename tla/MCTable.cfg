CONSTANTS
    Kinds = {"db", "mem", "cache", "none"}
    k1 = k1 kbad = kbad v1 = v1 v2 = v2 vbad = vbad
    Keys = {k1, kbad}
    Values = {v1, v2, vbad}
    Calls <- FewCalls
    Rows <- FewRows
    Garbled = {kbad, vbad}
    HalfRead <- Halves
    Blank = Blank
    Absent = Absent
    MaxCalls = 3
    MaxFailures = 1
SPECIFICATION Spec
CHECK_DEADLOCK FALSE
INVARIANTS HandlerWhileOpen GetAnswersRow
PROPERTIES EveryCallEnds
