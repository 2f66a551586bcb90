SPECIFICATION FairSpec
CONSTANTS
  Nodos = {1, 2, 3}
  Host = 1
  Tareas <- MCTareas
  MaxFallas = 1

PROPERTIES MuerteSeNota
CHECK_DEADLOCK FALSE
