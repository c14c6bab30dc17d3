CONSTANTS
    x = x  xCsv = xCsv  xApi = xApi  y = y
    fa = fa  fb = fb
    Texts = {x, xCsv, xApi, y}
    Similar <- SpelledAlike
    Files = {fa, fb}
    Lines <- OverlappingLines
    Feed = {xApi}
    Imports = {i1, i2, i3}
    Syncs = {s1, s2}
    NoStatement = NoStatement
    NoRow = NoRow
SYMMETRY Interchangeable
SPECIFICATION Spec
INVARIANTS TypeOK BookingsKept LinkedRowsAreListed RepetitionIsBounded
CHECK_DEADLOCK FALSE
