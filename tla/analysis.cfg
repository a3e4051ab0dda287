SPECIFICATION FairSpec
CONSTANTS
    Topics = {t1}
    Posts = {p1, p2}
    Deletes = {d1}
    Runs = {r1, r2}
    None = None
    MaxLog = 2
    MaxCancel = 1
INVARIANTS NoOrphanScan ResultsSound
PROPERTY AllEnds
CONSTRAINT Focused
