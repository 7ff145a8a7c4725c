\* Two clerks, two requests, two photos; faults at any point.
SPECIFICATION Spec
CONSTANTS
    Screens = {c1, c2}
    Requests = {q1, q2}
    Photos = {p1, p2}
    Texts = {Blank, a}
    Blank = Blank
    NoScreen = NoScreen
    NoPhoto = NoPhoto
    MaxPhotos = 2
    MaxVersion = 5
    MaxFaults = 1
INVARIANTS LinkedPhotosStay OrphansAreKnown
PROPERTY SavesOverWhatWasShown
SYMMETRY Symmetry
CHECK_DEADLOCK FALSE
