SPECIFICATION Spec
CONSTANTS
    Configurations <- MCConfigurations
    Packaged = {"locale.gen", "mkinitcpio.conf", "hosts"}
    Allowed = {"skel", "conf", "late", "hosts", "junk"}
    SkelFile = "skel"
    Zones = {"UTC", "CET"}
    HostZones = {"UTC"}
    HostPaths = {"junk"}
    Presets <- MCPresets
    MaxRuns = 3
INVARIANTS
    PackagedKept
    HookKept
    ImagesAreNew
    DoneIsAsConfigured
