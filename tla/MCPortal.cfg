CONSTANTS
    r1 = r1
    r2 = r2
    e1 = e1
    e2 = e2
    m1 = m1
    m2 = m2
    i1 = i1
    na = na
    None = None
    Ids = {u1, u2}
    Emails = {e1, e2}
    Members = {m1, m2}
    Requests = {r1, r2}
    SignIns = {s1, s2}
    Identities = {i1}
    Backfill = Backfill
    Junk = {na}
    MaxRuns = 2
    MaxBusy <- MCMaxBusy
    Registrations <- MCRegistrations
    NewEmails <- MCNewEmails
    Profiles <- MCProfiles
    LegacyRows <- MCLegacyRows
SYMMETRY Symmetry
SPECIFICATION Spec
INVARIANTS TypeOK EveryUserHasCred SignInMatchesLink NoLegacyMemberLost EmailNeverCostsAMember NoLockLeftBehind
PROPERTIES EmailRefusalJustified ImplementsDirectory
