CONSTANTS
    Decoders = {"Q6KPacked"}
SPECIFICATION Spec
INVARIANTS
    SameNumber
