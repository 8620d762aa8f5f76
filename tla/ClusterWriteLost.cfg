CONSTANTS
    w1 = w1
    w2 = w2
    w3 = w3
    a1 = a1
    r1 = r1
    Writers = {w1, w2, w3}
    Large = {w2}
    Changers = {a1}
    Readers = {r1}
    Me = n1
    Bootstrap = {n1, n2}
    Nodes = {n1, n2, n3}
    None = None
    Failed = Failed
    MaxTerm = 2
    MaxLog = 3
    Casts <- OneWriter
SPECIFICATION Spec
INVARIANT OkMeansCommitted
