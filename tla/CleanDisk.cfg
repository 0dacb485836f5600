CONSTANTS
    root = root  sub = sub  deep = deep
    fa = fa  fb = fb  fc = fc  fd = fd  fe = fe
    red = red  blue = blue
    Files <- SomeFiles
    Dirs <- SomeDirs
    Root = root
    Entries <- Tree
    Content <- Contents
    Unread = Unread
    NoFile = NoFile
    MaxFds = 5
    MaxRuns = 2
SPECIFICATION Spec
INVARIANTS OneCopySurvives ReportIsTrue LeavesNoDuplicates
CHECK_DEADLOCK FALSE
