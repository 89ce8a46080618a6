SPECIFICATION AnswerSpec
CONSTANTS
  Tables <- MCTables
  Columns <- MCColumns
  Examples <- MCExamples
  TableOf <- MCTableOf
  Domains = {"sales", "product", "customer", "store", "inventory", "finance", "marketing"}
  DomainOf <- MCDomainOf
  Keys = {"store_id"}
  Reranker = TRUE
  TopTables = 2
  TopColumns = 2
  TopValues = 2
  TopExamples = 1
  Budget = 75
  RawScores <- MCRawScores
  Values <- MCValues
  Questions <- MCQuestions
  Days <- MCDays
  Inspected <- MCInspected
  Registry <- MCRegistry
  Synonyms <- MCSynonyms
  GlossaryTerms <- MCGlossary
  NamesOf <- MCNamesOf
  ForeignKeys <- MCForeignKeys
  Relations <- MCRelations
  ActiveSets <- MCActiveSets
  Parts <- MCParts
  Budgets = {0, 60, 100, 160, 260}
INVARIANTS FusedFairly RangesSound JoinsShortest CompletionJoined SemanticLinksMore ContextTrimmed
CHECK_DEADLOCK FALSE
PROPERTIES KeysKept
