SPECIFICATION Spec
CONSTANTS
  s1 = s1
  s2 = s2
  i1 = i1
  n1 = n1
  n2 = n2
  p1 = p1
  p2 = p2
  r1 = r1
  r2 = r2
  NoBook = NoBook
  EmptyString = EmptyString
  Sessions <- TwoSessions
  Isbns <- OneIsbn
  Names <- TwoNames
  Publishers <- TwoPublishers
  Reviews <- TwoReviews
  MaxReviews = 2
PROPERTIES
  UpdateStoresPublisher
