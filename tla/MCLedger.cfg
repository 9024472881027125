CONSTANTS
  Currencies = {usd, uah}
  Ids = {i1, i2}
  Requests = {r1, r2, r3}
  Values = {1, 2}
  Names = {n1, n2}
  MaxEquity = 3
  None = None
SYMMETRY Symmetry
SPECIFICATION Spec
INVARIANTS
  TypeOK
  NoDanglingCurrency
  StaleOnlyWhenContended
  CyclesMoveTwoOrClose
  BooksBalance
PROPERTIES
  ImplementsBooks
  CommittedIsFound
