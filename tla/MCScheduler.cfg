CONSTANTS
  Threads = {main, t1, t2, t3}
  Main = main
  NoThread = NoThread
SPECIFICATION SchedSpec
SYMMETRY Symmetry
INVARIANTS
  ReadyListExact
  LevelDiscipline
  CarcassSafe
PROPERTY NoOvertaking
