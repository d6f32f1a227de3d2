\* Three requests of a route by two goroutines.  A call that fails or whose
\* answer is lost may be made a second time.  The clock runs for two windows,
\* and until a bucket that was emptied at once has been forgotten.  Time and
\* calls run out: deadlock is not checked.
SPECIFICATION Spec
CONSTANTS
  Names <- PolicyNames
  Policy <- RouterPolicies
  Chains <- RouterChains
  Clients <- RouterClients
  Anonymous = "none"
  Fields <- Joined
  Minute = 3
  Retries = 1
  Procs = {p1, p2}
  MaxTime = 6
  MaxCalls = 6
  MaxFaults = 1
  AbuseLimit = 2
  CreateLimit = 1
  WindowSpan = 2
  WindowTime = 4
  MaxRequests = 3
SYMMETRY Goroutines
CONSTRAINT OneRoute
INVARIANTS TypeOK WindowBound BucketBound HonestRetryAfter NoPhantomSlots ClosedIsMetered
PROPERTIES KeepsWindowContract KeepsBucketContract
CHECK_DEADLOCK FALSE
