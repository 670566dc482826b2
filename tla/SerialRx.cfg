SPECIFICATION FairSpec
CONSTANT R = 3
INVARIANTS Contiguous
PROPERTIES IsLineQueue Resumes
