SPECIFICATION Spec
CONSTANTS
    Sessions = {s1}
    Pausers = {c1}
    Resumers = {c1}
    Workers = {w1}
    NoWorker = NoWorker
    Nobody = Nobody
INVARIANTS
    TypeOK
    LiveAgentsAreListed
