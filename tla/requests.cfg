SPECIFICATION Spec
CONSTANTS
    c1 = c1  c2 = c2  m1 = m1  m2 = m2
    Clusters = {k1}
    Definitions <- TwoConns
    Scrapers = {s1}
    Requests = {r1}
    Appliers = {a1}
    None = None
    MaxClock = 3
    MaxWrites = 1
INVARIANTS OffsetsReadYourWrites StaleClientOnlyIfTainted
PROPERTIES FreshnessNeverRegresses
CONSTRAINT ClockRuns
CHECK_DEADLOCK FALSE
