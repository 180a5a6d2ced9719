\* Is every client answered rightly, whatever the others do?
CONSTANTS
    shell = shell
    pest = pest
    Clients = {shell, pest}
    Honest = {shell}
    Sends <- MCSends
    None = None
    MaxRequests = 2
SPECIFICATION Spec
INVARIANT AnsweredInOrder
PROPERTIES OthersServed ThreadsEnd
\* The conversations end.
CHECK_DEADLOCK FALSE
