CONSTANTS
  n1 = n1
  n2 = n2
  s1 = s1
  s2 = s2
  a = a
  b = b
  Texts <- MCTexts
  NodeIds <- MCNodeIds
  Types <- MCTypes
  SchemaNames = {s1, s2}
  FieldNames = {a, b}
  NoSchema = NoSchema
  NoField = NoField
  NoFile = NoFile
  NoHash = NoHash
  Edited = Edited
  Nothing = Nothing
  Catalog = Catalog
  Start <- MCStart
  FieldInputs <- MCFieldInputs
  ClaimInputs <- MCClaimInputs
  ValueInputs <- MCValueInputs
  MaxChanges = 2
SPECIFICATION Spec
INVARIANTS SchemasTypeOK
PROPERTIES RejectedChangesNothing AcceptedFits ValuesKept FilesFollowRows EditedCatalogKept CatalogFollows UndoRestores
