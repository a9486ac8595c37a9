\* Two threads, one of which registers; two keys, three types for two handlers.
CONSTANTS
  Thread = {t1, t2}
  Registrar = {t1}
  Type = {0, 1, 2}
  Key = {"program", "node"}
  TypeOf <- MCTypeOf
  Value = {"none", "data"}
  Weightless <- MCWeightless
  NoType = NoType
  NoEntry = NoEntry
  MAX_HANDLERS = 2
SPECIFICATION FairSpec
INVARIANTS
  TypeOK
  NoNewsLost
PROPERTIES
  ImplementsMap
  NewsArrives
