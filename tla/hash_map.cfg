SPECIFICATION Spec
CONSTANTS
    k1 = k1
    k2 = k2
    k3 = k3
    k4 = k4
    v1 = v1
    v2 = v2
    NULL = NULL
    Keys <- FourKeys
    Values = {v1, v2}
    index_size = 2
    hash_func_key <- RowOf
    hash_func_rbt <- RbtOf
    MaxEntries = 3
INVARIANT SizeNotBelow
PROPERTY ImplementsMap
