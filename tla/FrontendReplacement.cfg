CONSTANTS
  Requests = {1, 2, 3, 4}
  Files <- MCFiles
  FileKey <- MCFileKey
  Nothing = Nothing
SPECIFICATION Spec
ACTION_CONSTRAINT SendInOrder
INVARIANT ReplacementIsShown
