SPECIFICATION Spec
CONSTANTS
    MaxGen = 10
    MaxHorizon = 3
INVARIANTS
    HorizonHeld
PROPERTIES
    AckMirrored
    ImplementsRegister
