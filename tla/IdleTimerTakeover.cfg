SPECIFICATION Spec
CONSTANTS
    MaxMessages = 2
    MaxFaults = 0
PROPERTIES
    GatewayStaysOut
