SPECIFICATION SequentialSpec
CONSTANTS
    StartPorts <- MCStartPorts
    PortLen = 1000
    FirstLines <- MCFirstLines
    Lines <- MCLines
    MaxLines = 3
    Undecodable = {"0xFF"}
    DeviceAddr <- MCDeviceAddr
    Schemes = {"http://", "https://", "rtsp://"}
    Ports = {":80", ":443", ":8080"}
    Hosts <- MCHosts
    ProxyTexts <- MCProxyTexts
    P2pTexts <- MCP2pTexts
    P2pBuilt = TRUE
    MaxPemLines = 7
    Chars <- MCChars
    MacLen = 2
    MaxText = 5
INVARIANTS
    SequentialTypeOK
    PortsDistinct
    PortsDialable
    ServiceGetsRequest
    PathKept
    RunsWhatWasGiven
    CodeNamesTheList
    WholeCertificates
    PrintedFindsDevice
    LabelsAreTheDigits
\* A request, a start and a label are handled once: the end of their way is the end.
CHECK_DEADLOCK FALSE
