\* Windows and quads come and go while images are gathered, and the thread is stopped and restarted.
SPECIFICATION FairSpec
CONSTANTS
    i1 = i1
    i2 = i2
    w1 = w1
    A = A
    B = B
    Images = {i1, i2}
    Windows = {w1}
    Quads = {A, B}
    Shader <- ViewerShader
    Views <- ViewerViews
    NbUid = 2
    MaxSent = 2
    None = None
INVARIANTS TypeOK TablesSound ShownWhereAsked
PROPERTIES NeverBackInTime StopReturns
