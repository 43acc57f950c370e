\* Two writes, two clients of an instance, one connection lost or one crash.
SPECIFICATION Spec
CONSTANTS
    Writes = {w1, w2}
    Streams = {s1, s2}
    Instances = {i1}
    Page = 1
    Breaks = 1
CHECK_DEADLOCK FALSE
INVARIANT TypeOK
INVARIANT NeverMissesEarlier
PROPERTY EveryChangeSent
