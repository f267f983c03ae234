SPECIFICATION LiveSpec
CONSTANTS
    MaxConnections = 1
    MaxErrors = 0
    MaxBatch = 0
    MaxAttach = 1
PROPERTIES
    ResumesOnConnect
