\* Two calls of one user, and a client that reads the comments.
CONSTANTS
    Users = {u}
    Calls = {c, d}
    None = None
    MaxComments = 2
    PageLimit = 1
SPECIFICATION Spec
INVARIANTS DaoOutlivesCalls  AnswersTrue WalkComplete
