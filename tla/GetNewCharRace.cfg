CONSTANTS CPUs = {c1, c2}
SPECIFICATION Spec
INVARIANT CharsAreLetters
