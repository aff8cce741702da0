SPECIFICATION Spec
CONSTANT Links <- AllLinks
INVARIANT IndicesAgree LiveCodeDecides ConstructorsRunFirst
