SPECIFICATION ComposerSpec
CONSTANTS
  p1 = p1
  p2 = p2
  Photos <- MCPhotos
  Videos <- MCVideos
  UploadSlots = 1
  MaxAttempt = 1
  MaxPosts = 1
INVARIANTS
  TraySound
PROPERTIES
  FinishingEnds
CHECK_DEADLOCK FALSE
