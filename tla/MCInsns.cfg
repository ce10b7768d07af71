CONSTANTS
  W = 8
  E32 = 4
  P32 = 2
  E64 = 5
  P64 = 6
SPECIFICATION Spec
INVARIANTS
  ProductsCorrect
  RemSqrtCorrect
  MulAddCorrect
  OrderCorrect
  ConversionsCorrect
  HalfCorrect
  IntegerCorrect
  TagsNotForged
