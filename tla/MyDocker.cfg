CONSTANTS
    r1 = r1  r2 = r2
    data = data  logs = logs
    Runs <- TwoRuns
    Volumes <- TwoVolumes
    NoVolume = NoVolume
SPECIFICATION DockerSpec
SYMMETRY Symmetric
INVARIANTS VolumeKept CleanExit
CHECK_DEADLOCK FALSE
