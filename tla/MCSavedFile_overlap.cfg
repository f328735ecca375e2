SPECIFICATION Spec
CONSTANTS
    w1 = w1
    w2 = w2
    w3 = w3
    short = short
    long = long
    noSave = noSave
    f1 = f1
    f2 = f2
    f3 = f3
    f4 = f4
    noFile = noFile
    Savers = {w1, w2, w3}
    Values = {short, long}
    Size <- MCSize
    NoSave = noSave
    Files = {f1, f2, f3, f4}
    NoFile = noFile
SYMMETRY Symmetry
INVARIANTS
    FileTypeOK
    LoadsAreWholeSaves
    SaverOwnsTmp
