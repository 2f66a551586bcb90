SPECIFICATION FairSpec
CONSTANTS
  Nodos = {1, 2, 3}
  Host = 1
  Tareas <- MCTareas
  MaxFallas = 2
INVARIANTS ResultadoDeTodos
PROPERTIES SeResponde
CHECK_DEADLOCK FALSE
