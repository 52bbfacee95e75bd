SPECIFICATION Spec
CONSTANTS
    Operations = {a, b}
    Handles = {h1, h2}
    MaxSeq = 3
    MaxFaults = 1
    MaxLosses = 2
    MaxRot = 1
SYMMETRY Symmetry
INVARIANTS PromisesKept NothingDestroyed
PROPERTIES DecidesInOrder
