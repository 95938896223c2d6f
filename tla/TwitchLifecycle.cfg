SPECIFICATION Spec
CONSTANTS
    r1 = r1
    r2 = r2
    Replicas <- MCReplicas
    Types <- MCTypes
    Scoped <- MCScoped
    None = None
    Left = Left
    MaxDeauths = 1
    MaxRestarts = 1
INVARIANTS WelcomeInv LatestServed
PROPERTIES OthersKept
SYMMETRY MCSymmetry
