CONSTANT Null = Null
SPECIFICATION Spec
PROPERTIES CallsReturn  StateCallReturns  
   LoadedMapSent CurrentTimSent
CHECK_DEADLOCK FALSE
