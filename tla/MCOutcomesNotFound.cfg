SPECIFICATION Spec
INVARIANT UnknownSessionIsNotFound
