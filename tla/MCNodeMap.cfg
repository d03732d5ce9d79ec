CONSTANTS
    Nodes <- MCNodes
    Ground <- MCGround
    Internal <- MCInternal
    Pairs <- MCPairs
    NodeSets <- MCNodeSets
    NoNode = 0
    Netlist <- MCNetlist
    Shuntable <- MCShuntable
    Requests <- MCRequests
    NoiseValues <- MCNoiseValues
    Solutions <- MCSolutions
    Buckets <- MCBuckets
    ForceFactor = 7
    Lead = 2
    History <- MCHistory
SPECIFICATION AssemblySpec
INVARIANTS
    SharedExactlyWhenConnected
    NumberedWithoutGaps
    SystemIsOneCircuit
    ForcesAsRequested
    SharedEquationsAreChecked
