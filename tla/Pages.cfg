CONSTANTS
  Deltas = {1, 2}
  Kick = 3
  Limit = 20
  MaxSpeed = 25
  Tacos = {1, 2}
  Balls = {1, 2}
  AngleLimit = 0
  MaxPending = 1
  Scene = Scene
  CameraMovel = CameraMovel
  Nowhere = Nowhere
  Windows <- MCWindows
  FirstWindow <- MCFirstWindow
  MaxTurn = 1
  FullTurn = 2
  MaxDistance = 2
SPECIFICATION Spec
INVARIANTS TypeOK OneBranchTurns SelectedIsRed AimTogether Waits OneOfEachBall
PROPERTIES SideFits KeepsScene ResetDone
