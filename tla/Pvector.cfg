CONSTANTS
    Values = {1, 2, 3}
    Poison = 2
    PVECTOR_INIT_CAPACITY = 1
    MaxCapacity = 12
    MaxLen = 5
    MaxHashed = 3
    Capacities = {0, 2, 12, 13}
SPECIFICATION Spec
INVARIANTS SoundAccepted AcceptedIsIntact
PROPERTIES ElementsHandedOver ImplementsElementStack
