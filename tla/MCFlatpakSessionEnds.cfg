SPECIFICATION FairSpec
CONSTANTS
    Sessions = {s1}
    Pausers = {c1}
    Resumers = {}
    Workers = {w1}
    NoWorker = NoWorker
    Nobody = Nobody
PROPERTIES
    CallsReturn
    RetiredAgentsEnd
