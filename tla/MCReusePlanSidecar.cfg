SPECIFICATION SidecarSpec
CONSTANTS
    g1 = g1  g2 = g2  r1 = r1  r2 = r2  pid1 = pid1  pid2 = pid2  wiki = wiki  road = road
    NoFile = NoFile
    Generators = {g1, g2}
    Readers = {r1, r2}
    Pids = {pid1, pid2}
    Graphs = {wiki, road}
    Configs = {8, 16}
    SizeOf <- MCSizeOf
    PlanOf <- MCPlanOf
    MaxCrashes = 1
SYMMETRY MCSymmetry
INVARIANTS
    AcceptedIsOwn
    PublishedIsComplete
CHECK_DEADLOCK FALSE
