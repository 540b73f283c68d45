SPECIFICATION Spec
CONSTANTS
    r1 = r1
    r2 = r2
    Requests <- MCRequests
    TypeOf <- MCTypeOf
    MaxScripts = 2
    MaxLateRegisters = 0
INVARIANT CallsRegisteredFunction
