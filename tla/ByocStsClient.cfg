SPECIFICATION Spec
INVARIANT NilErrorMeansResult
