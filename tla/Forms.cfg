SPECIFICATION FormsSpec
CONSTANTS
  None = None
  t1 = t1
  t2 = t2
  r1 = r1
  r2 = r2
  e1 = e1
  p1 = p1
  Types = {t1, t2}
  Recipes = {r1, r2}
  TypeOf <- MCTypeOf
  Wafers = {w1, w2, w3}
  Machines = {e1, e2}
  RecipeLimit <- MCRecipeLimit
  MachineFits <- MCMachineFits
  Managers = {m1}
  MaxSaves = 2
  Params = {p1}
  SchemaOf <- MCSchemaOf
  MaxCalls = 1
INVARIANTS
  BatchMatchesItsRecipe
  ParametersStayWithTheirRecipe
PROPERTIES
  UntouchedCapabilitiesStay
CHECK_DEADLOCK FALSE
