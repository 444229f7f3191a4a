SPECIFICATION Spec
CONSTANTS
    Networks <- MCNetworks
    AnyBSSID = "any"
    NoSSID = ""
    MeshBSSIDs <- MCMeshBSSIDs
    IsGateway = TRUE
    Visible <- MCVisible
    MaxResults = 3
    OctetBits = 4
    Octet = 16
    Feedback <- MCFeedback
    Password <- MCPassword
INVARIANTS
    CellsConserved
    RoutersInOrder
    MeshInOrderOffTheEdge
    ListsWhatMayBeJoined
