\* Two elements with two directives each, changed by their sources and from outside.
SPECIFICATION CMFairSpec
CONSTANTS
    Element = {e1, e2}
    a1 = a1
    a2 = a2
    b = b
    f = f
    g = g
    Class = {a1, a2, b, f, g}
    Sources = 2
    Group <- MCGroup
    Palettes <- MCPalettes
    Initially <- MCInitially
    HostClasses <- MCHostClasses
    Others = {b, f, g}
    None = None
    MaxChanges = 2
INVARIANTS
    CMTypeOK
    QuietIsMerged
    NoStrayClass
    OutsideClassesKept
PROPERTIES
    RecordsSettle
    TransitionsComeBack
