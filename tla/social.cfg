SPECIFICATION SocialSpec
CONSTANTS
  User = {u1, u2}
  Handle = {h1, h2}
  Request = {r1, r2}
  MaxRequests = 5
  MaxFaults = 1
  MaxComments = 3
  MaxPosts = 2
  MaxItems = 2
  Slots = 1
  MaxTalk = 4
  MaxShares = 3
  MaxTokens = 3
  MaxPasswords = 2
SYMMETRY Symmetry
INVARIANTS TypesOK HandleNamesProfile SeveredUnlessRaced
INVARIANTS ErasedSaysNothing CountsMatchPages AlertsAreTrue
INVARIANTS FamilyStaysClosed RevokedRunsDry
PROPERTY PublishedStays
