\* jobTemplate's node request for a job giving count and ppn, under both
\* interpreters setup.py supports: 1-4 processes, 1-4 per node.
CONSTANTS
    Counts = {1, 2, 3, 4}
    Ppns = {1, 2, 3, 4}
    NodeNums = {1, 2}
    Pythons = {2, 3}
SPECIFICATION Spec
INVARIANT NodesCoverCount
