\* Three deliveries, one of them of an event old enough to be cleaned up, race
\* for a queue of one event; a restore and an export pause the writer.
SPECIFICATION Spec
CONSTANTS
    Events = {e1, e2, e3}
    Restorers = {r1}
    Exporters = {x1}
    Expired = {e3}
    QueueSize = 1
    BatchSize = 2
    Nil = Nil
SYMMETRY Symmetry
INVARIANTS
    TypeOK
    Placement
    AdmissionIsExact
    Conservation
    HonestOutcomes
    BarriersSeparate
    ClosesCleanly
