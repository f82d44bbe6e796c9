\* The ends of the windows, the first stack, registers.
CONSTANTS
    Address <- MCAddress
    Register <- MCRegister
    Value <- MCValue
    Zero = 0
    Image <- MCImage
    Initialised = 1
    Nothing = Nothing
SPECIFICATION Spec
VIEW MCView
INVARIANTS TypeOK
PROPERTIES ImplementsGuestMemory
