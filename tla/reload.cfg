SPECIFICATION FairSpec
CONSTANTS
    c1 = c1  c2 = c2  m1 = m1  m2 = m2
    Clusters = {k1}
    Definitions <- TwoConns
    Scrapers = {s1, s2}
    Requests = {}
    Appliers = {a1}
    None = None
    MaxClock = 1
    MaxWrites = 0
INVARIANTS NoLeakedScraper ScrapeSetAligned NoGhostState DiskMatchesRuntime
PROPERTY DefinitionConverges
