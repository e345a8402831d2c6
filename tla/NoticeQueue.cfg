SPECIFICATION FairSpec
CONSTANTS
  ann = ann
  bob = bob
  carol = carol
  post = post
  h1 = h1
  h2 = h2
  Posts = {post}
  Senders = {h1, h2}
  Author = ann
  Users = {ann, bob}
  InitialFollowers = {bob}
  Nothing = Nothing
  Capacity = 1
  MaxEvents = 2
  MaxFollows = 2
  MaxCrashes = 1
  HandlerFails = TRUE
INVARIANTS
  RankShown
  ToldAsDue
PROPERTIES
  Drains
CHECK_DEADLOCK FALSE
