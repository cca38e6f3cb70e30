CONSTANTS
    pa = pa
    pb = pb
    Plugins <- MCPlugins
    MaxVersion = 3
    BadVersions = {2}
    MaxFaults = 1
    AutomaticPluginReloading = TRUE

SPECIFICATION Spec
INVARIANTS RunningBuildOnDisk
PROPERTIES ImplementsLoader UpdateTakenUp
