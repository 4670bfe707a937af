SPECIFICATION FairSpec
CONSTANTS
    a = a
    b = b
    c = c
    d1 = d1
    d2 = d2
    h1 = h1
    e1 = e1
    s1 = s1
    none = none
    Ops <- AliasOps
    Devices = {d1, d2}
    Hosts = {h1}
    Endpoints = {e1}
    DeviceOf <- AliasDeviceOf
    HostOf <- OneHost
    EndpointOf <- OneEndpoint
    KindOf <- UpdateReadDiscover
    CLIDevices = {d1, d2}
    RESTDevices = {d1, d2}
    Persistence = "after_each_write"
    Settings = {s1}
    Foreign = none
    MaxDisturbances = 0
    MaxCrashes = 0
INVARIANTS OneSessionPerEndpoint
PROPERTIES EveryCallReturns
