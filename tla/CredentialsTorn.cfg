SPECIFICATION Spec
CONSTANT MaxIssued = 2
INVARIANT IdentityIsWhole
