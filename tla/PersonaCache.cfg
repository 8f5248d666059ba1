CONSTANTS
    t1 = t1  t2 = t2  boot = boot
    Id = "generic_linux"
    Hostnames = {"", "web"}
    Blank = ""
    Paths = {"/home/admin/notes.txt", "../x"}
    UnsafePaths = {"../x"}
    HomeFile = "/home/admin/notes.txt"
    Threads = {t1, t2}
    Boot = boot
    MaxSaves = 2
    MaxOutages = 1
    NoRow = NoRow
    NoPersona = NoPersona
    Failure = Failure
SPECIFICATION Spec
INVARIANT OutageChangesNothing
PROPERTIES NeverOlder SavedIsServed
CHECK_DEADLOCK FALSE
