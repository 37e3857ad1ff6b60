CONSTANTS
    Ids = {c1}
    Nets = {n1, n2}
    NoFrame = NoFrame
    MaxHost = 2
    MaxMoved = 2
    MaxChanges = 2
SPECIFICATION Spec
INVARIANT SamplingTypeOK
PROPERTIES RatesAreReal NoStretchTwice BytesHaveMoved
SYMMETRY NetSymmetry
