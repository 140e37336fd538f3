CONSTANT Programs <- MCPrograms
SPECIFICATION Spec
INVARIANT SuccessMeansWritten
