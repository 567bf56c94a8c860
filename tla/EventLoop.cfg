\* Two threads post to the loop, which also posts to itself.
CONSTANTS
    Threads = {a, b}
    Loop = loop_thread
    MaxPosts = 2
SPECIFICATION FairSpec
INVARIANTS NoLostWakeup ExecutedInOrder
PROPERTIES LoopProgress
