SPECIFICATION QueueSpec
CONSTANTS
  ann = ann
  bob = bob
  carol = carol
  post = post
  h1 = h1
  h2 = h2
  Posts = {post}
  Senders = {h1, h2}
  Author = ann
  Users = {ann, bob, carol}
  InitialFollowers = {ann, bob}
  Nothing = Nothing
  Capacity = 1
  MaxEvents = 2
  MaxFollows = 0
  MaxCrashes = 0
  HandlerFails = FALSE
INVARIANTS
  WorkerSurvives
CHECK_DEADLOCK FALSE
