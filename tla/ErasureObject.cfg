SPECIFICATION Spec
CONSTANTS
  N = 4
  K = 2
  MaxWrites = 2
  Shapes <- MCShapes
INVARIANTS SurvivesOneLoss Durable HealRebuilds ReadFresh
CHECK_DEADLOCK FALSE
