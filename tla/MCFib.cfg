SPECIFICATION Spec
CONSTANTS
    W = 2
    Devs = {eth0, eth1}
    FIB_MAX_ROUTES = 2
SYMMETRY DevSymmetry
INVARIANTS
    IInv
    AnswersFromTable
    NoBarrenBranch
PROPERTY ImplementsTable
