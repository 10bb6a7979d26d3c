SPECIFICATION Spec
CONSTANTS
    None = None
    Unreadable = Unreadable
    b1 = b1
    b2 = b2
    i1 = i1
    runner = runner
    the = the
    c1 = c1
    c2 = c2
    Ids <- MCIds
    Terms = {runner, the, c1, c2}
    Queries <- MCQueries
    BuiltIn <- MCBuiltIn
    Directories <- MCDirectories
INVARIANTS
    TypeOK
    IndexedAsLoaded
    SearchesFind
