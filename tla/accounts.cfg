CONSTANTS
    r1 = r1
    r2 = r2
    t1 = t1
    t2 = t2
    Rows = {r1, r2}
    Emails = {e1, e2}
    Passwords = {p1, p2, p3}
    Tabs = {t1, t2}
    Nothing = Nothing
SPECIFICATION FairSpec
INVARIANT SessionUserIsActive
PROPERTY ChangeReplacesProven
PROPERTY PendingEnds
CHECK_DEADLOCK FALSE
