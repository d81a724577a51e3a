\* Two threads; objects smaller than the block of their class, and objects
\* that need a pool of their own size.
SPECIFICATION Spec
CONSTANTS
    Threads = {t1, t2}
    Chunks = {k1, k2, k3}
    Align = 2
    Classes = {2, 4}
    ClassBlocks = 2
    BigBlocks = 1
    Sizes = {3, 5}
    Width = 4
SYMMETRY Symmetry
INVARIANTS
    NoOverlap
    AccountsAgree
    FewChunks
