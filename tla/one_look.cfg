CONSTANTS
    Jobs = {job1, job2, job3}
    Nobody = Nobody
    Pins = {pin1, pin2}
    NoPin = NoPin
    MaxVersion = 2
SPECIFICATION OneLookSpec
SYMMETRY MCSymmetry
INVARIANTS
    ExposureIsRecorded
    ResultIsOne
PROPERTY CaptureIsKept
CHECK_DEADLOCK FALSE
