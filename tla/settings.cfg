\* A volume whose secrets are replaced by any others, and two targets.
SPECIFICATION Spec
CONSTANTS
    Volumes = {v1}
    Targets = {t1, t2}
    None = None
    FormatInPod = TRUE
    NoUpdateConfig = FALSE
    MountLabels = ""
    Parsed <- Texts
    Durations = {"1h"}
    Quantities = {"1000m", "2000m", "5000m", "1Gi", "2Gi", "5Gi"}
    CacheDirs <- Dirs
    SecretSets <- SomeSecrets
    VolCtxs <- SomeCtxs
    FlagSets <- SomeFlags
    Defaults <- Deployed
    ReadOnly = {FALSE}
SYMMETRY Symmetry
INVARIANTS PodCanStart SameCommand
