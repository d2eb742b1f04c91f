CONSTANTS
    h1 = h1
    h2 = h2
    acm = acm
    usb = usb
    Handlers <- MCHandlers
    Ports <- MCPorts
    Mock = Mock
    None = None
    MaxLoops = 3
SPECIFICATION Spec
INVARIANTS ControllerHasLoop OneLoop LastSaveWins ProbeSparesReader
PROPERTY ReconnectEnds
