CONSTANTS
  Currencies = {usd, uah}
  Ids = {i1, i2, i3}
  Requests = {r1, r2}
  Values = {1}
  Names = {n1}
  MaxEquity = 3
  None = None
SPECIFICATION FairFromOneCost
PROPERTY EveryRequestAnswered
