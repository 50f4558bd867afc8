SPECIFICATION Spec
CONSTANTS
    MaxDevices = 3
    DeviceProps <- DeviceKinds
INVARIANTS
    TypeOK
    ChosenIsBest
CHECK_DEADLOCK FALSE
