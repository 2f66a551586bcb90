SPECIFICATION Spec
CONSTANTS
  a = a
  b = b
  Nombres = {a, b}
  Punto = Punto
  NULL = NULL
  Worker = Worker
  Consola = Consola
  MAX_DIR_FS = 3
  Rutas <- MCRutas
  MaxEscrituras = 2
SYMMETRY Simetria
INVARIANTS TypeOK CuelgaDeLaRaiz
 
CHECK_DEADLOCK FALSE
