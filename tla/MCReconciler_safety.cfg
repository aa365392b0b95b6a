\* Loads and two reloads of documents whose host entries all list remotes.
CONSTANTS
    p1 = p1  p2 = p2  c1 = c1  ta = ta  tb = tb  sd = sd
    e1 = e1  e2 = e2  e3 = e3  la = la  lb = lb
    NoLocals = NoLocals
    Ports <- MCPorts
    Types <- MCTypes
    Plugins <- MCPlugins
    StdType = sd
    Endpoints <- MCEndpoints
    LocalLists <- MCLocalLists
    Docs <- MCDocs
    MaxReloads = 2
SPECIFICATION Spec
INVARIANT TypeOK PortsUnique ReloadConverges NoUnneededHostRestart
\* Once MaxReloads reloads are done no step is left: the process idles.
CHECK_DEADLOCK FALSE
