SPECIFICATION RegisterSpec
CONSTANT E = 16
INVARIANTS ArithmeticExact
