SPECIFICATION Spec
CONSTANTS
    Main = Main
    Other = Other
    Threads = {Main, Other}
    NoThread = NoThread
    JobsOf <- MCJobsOf
    MaxJobs = 3
    MaxTimeouts = 1
    MaxPolls = 1
    MaxSpare = 1
    Attempts = 3
    Stops = {"jam", "own", "trace"}
INVARIANTS StopIsVisible JsrIsHonest ConfirmedRuns NoLeakedCheckpoint
