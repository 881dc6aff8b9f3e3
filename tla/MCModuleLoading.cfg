SPECIFICATION Spec
CONSTANTS
    File <- MCFile
    Text <- MCText
    Name <- MCName
    NoName = NoName
    Syntax = {op}
    Plain = Plain
    Captures <- MCCaptures
    Package <- MCPackage
    NoFile = NoFile
    Contents <- MCContents
    Absent = Absent
    MaxEdits = 1
    main = main
    lib = lib
    pack = pack
    text = text
    f = f
    g = g
    q = q
    op = op
INVARIANTS
    WholeFiles
    LookupsCurrent
    NoReentry
PROPERTIES
    Completes
