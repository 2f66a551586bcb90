SPECIFICATION ServidorFairSpec
CONSTANTS
  n1 = n1
  n2 = n2
  n3 = n3
  n4 = n4
  f1 = f1
  f2 = f2
  NINGUNO = NINGUNO
  Nodes = {n1, n2, n3, n4}
  EnBin = {n1, n2, n3}
  ArchivosPrevios = {f1, f2}
  Bloques <- MCBloques
  MaxConexiones = 3
  MaxCaidas = 2

INVARIANTS ServidorOK UnHiloPorNodo InstanciasSonNodosActivos
PROPERTIES EstableConDatos SeEstabiliza
CHECK_DEADLOCK FALSE
