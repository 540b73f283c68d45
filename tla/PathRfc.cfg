SPECIFICATION Spec
CONSTANTS
    Names <- TwoNames
    RawInputs <- LongInputs
    MaxMisses = 1
    MaxLookups = 2
INVARIANT FollowsRFC3986
