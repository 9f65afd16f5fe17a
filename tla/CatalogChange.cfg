SPECIFICATION MCSpec
CONSTANTS
    p1 = p1
    p2 = p2
    s1 = s1
    s2 = s2
    t1 = t1
    d1 = d1
    d2 = d2
    Proc <- MCProc
    Site <- MCSite
    Object <- MCObject
    Def <- MCDef
    MaxCommits = 2
    None = None
SYMMETRY MCSymmetry
INVARIANTS
    TypeOK
    LossAgreed
    HonestResult
    PlanStaysOnSite
PROPERTIES
    PreviewedChange
