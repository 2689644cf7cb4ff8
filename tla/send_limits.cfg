SPECIFICATION FairSpec
CONSTANTS
    W = 5
    RESEND = 2
    FrameTicks = 1
    Us = Us
    Others = {a1, a2}
    Looks = {l1, l2}
    Items = {i1}
    Blank = Blank
INVARIANTS TypeOK Withheld
PROPERTIES Spaced NeverSilent
