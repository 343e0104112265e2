SPECIFICATION Spec
CONSTANTS
  c1 = c1 c2 = c2 None = None
CHECK_DEADLOCK FALSE
PROPERTIES ComesBack CatalogArrives CallsEnd
