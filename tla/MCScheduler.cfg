SPECIFICATION Spec
CONSTANTS
    slow = slow
    quick = quick
    Schedulers = {s1, s2}
    Tasks <- MCTasks
    Timeout <- MCTimeout
    Interval <- MCInterval
    Backoff <- MCBackoff
    Margin = 2
    Grace = 1
    MaxAge = 4
    MaxStreak = 2
    MaxTroubles = 1
    None = None
    Gone = Gone
INVARIANTS TypeOK OneAttempt
PROPERTIES AttemptsFollowOneAnother ClaimIsSettled
