SPECIFICATION Spec
INVARIANT ErrorMeansNoResult
