\* A photo board polled before a notice board; the newest posts have images.
SPECIFICATION Spec
CONSTANTS
  photo = photo
  notice = notice
  BoardList <- MCBoards
  ImageBoards = {photo}
  WithImages = {3}
  PageSize = 2
  LastPost <- MCLastPost
  MaxFaults = 1
INVARIANTS
  TypeOK
  RepeatsPaidByFaults
  NoSpam
  LossHasCause
PROPERTIES
  StopEnds
  CatchesUp
