\* Under fair scheduling: two deliveries, two restores that may be cancelled,
\* cleanup and a hand-over of the active runtime; and the refinement of EventLedger.
SPECIFICATION FairSpec
CONSTANTS
    Events = {e1, e2}
    Restorers = {r1, r2}
    Exporters = {}
    Expired = {e2}
    QueueSize = 1
    BatchSize = 2
    Nil = Nil
PROPERTIES
    ImplementsLedger
    AcceptedSettles
    CloseEnds
    PausesEnd
