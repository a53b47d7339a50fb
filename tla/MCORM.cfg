CONSTANTS
    p1 = p1 p2 = p2 p3 = p3 k1 = k1 k2 = k2 v = v w = w x = x e = e
    Programs <- AllPrograms
    Backend <- Backends
    Tables = {"PLAYER"}
    UpperCase = {"PLAYER"}
    Fields = {"score", "ratio", "bin", "name"}
    Kind <- Kinds
    FieldsOrdered <- FieldsOf
    Keys = {k1, k2}
    Values = {v, w, x, e}
    Empty = e
    Printed <- SixDigits
    Reads <- Readable
    NULL = NULL NullText = NullText Fresh = Fresh
    MaxCalls = 4
    MaxFailures = 1
SPECIFICATION Spec
SYMMETRY KeySymmetry
CHECK_DEADLOCK FALSE
INVARIANTS ReadBack
PROPERTIES UpdatedMeansColumns
