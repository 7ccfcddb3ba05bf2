CONSTANTS
  shirt = shirt
  hat = hat
  red = red
  blue = blue
  page = page
  m1 = m1
  m2 = m2
  q1 = q1
  q2 = q2
  q3 = q3
  s1 = s1
  s2 = s2
  NoEntry = NoEntry
  Products = {shirt, hat}
  Options = {red, blue}
  Pages = {page}
  Movements = {m1, m2}
  Requests = {q1, q2, q3}
  Servers = {s1, s2}
  ProductOf <- MCProductOf
  ShownOn <- MCShownOn
  Stock <- MCStock
  OptionOf <- MCOptionOf
  By <- MCBy
  ServerOf <- MCServerOf
SPECIFICATION CacheSpec
INVARIANT InvalidatedIsGone
CHECK_DEADLOCK FALSE
