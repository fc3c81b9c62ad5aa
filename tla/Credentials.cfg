SPECIFICATION Spec
CONSTANT MaxIssued = 3
INVARIANTS TypeOK RunningIsDurable MixIsOrdered ErasedStaysErased
PROPERTIES IdentityKept
