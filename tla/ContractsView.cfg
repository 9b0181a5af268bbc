\* The tensors that the bindings return.
CONSTANTS
    Session <- MCSession
    Sms = 132
    I32Max = 8000000
SPECIFICATION Spec
INVARIANTS ReturnsPromisedShape
