SPECIFICATION Spec
INVARIANTS
  TypeOK
  EveryPathAnswers
  ReturnsWrittenBytes
PROPERTIES
  BeliefFailsWithCause
