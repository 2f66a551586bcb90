SPECIFICATION FairSpec
CONSTANTS
  n1 = n1
  n2 = n2
  n3 = n3
  f1 = f1
  f2 = f2
  f3 = f3
  f4 = f4
  consola = consola
  worker = worker
  NULL = NULL
  Nodes = {n1, n2, n3}
  Total <- MCTotal
  Paths = {f1, f2, f3, f4}
  Contenido <- MCContenido
  Hilos = {consola}
  Consola = consola
  TamanioBloque = 2
  MaxPedidos = 4
  MaxDeaths = 1
INVARIANTS TypeOK NoBlockShared CopiesApart LibreIsFreeBlocks BinIsTrue StoredOrSent SelectionFindsReplica ReadsWhatWasWritten
PROPERTIES RefusedOnlyWithoutRoom CommandsEnd
CHECK_DEADLOCK FALSE
