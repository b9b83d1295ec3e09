SPECIFICATION MCSpec
CONSTANTS
    u1 = u1
    u2 = u2
    u3 = u3
    c1 = c1
    c2 = c2
    q1 = q1
    q2 = q2
    e1 = e1
    e2 = e2
    s1 = s1
    s2 = s2
    g1 = g1
    a1 = a1
    k1 = k1
    h1 = h1
    h2 = h2
    None = None
    Units = {u1, u2, u3}
    CoverageIds = {c1, c2}
    RequirementIds = {q1, q2}
    EvidenceIds = {e1, e2}
    SectionIds = {s1, s2}
    GapIds = {g1}
    ActionIds = {a1}
    ConflictIds = {k1}
    Keys = {h1, h2}
    Items <- MCItems
    Requirements <- MCRequirements
    Evidence <- MCEvidence
    Quotes <- MCQuotes
    Limits <- MCLimits
    MaxEdits = 2
CHECK_DEADLOCK FALSE
INVARIANTS
    CoverageIsBacked
    LinksAgree
    QuoteIsBounded
