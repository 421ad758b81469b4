SPECIFICATION FairSpec
CONSTANTS
    nb_worker = 3
    SpuriousWakeups = TRUE
INVARIANT ReplacedWhileUnused
PROPERTY AwakeWorkerPauses
