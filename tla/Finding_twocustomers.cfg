\* The sentences of Language, and no models.
SPECIFICATION Spec
CONSTANTS
    Utterances <- MCUtterances
    Vocabulary <- MCVocabulary
    Names <- MCNames
    SoundsLike <- MCSoundsLike
    Extractions <- MCExtractions
    MaxQuantity = 100000000
    MaxTotal = 400000000
    MaxPrice = 400000000
    TooLong <- MCTooLong
    Modes = {"rules"}
    Providers = 0
INVARIANTS TwoCustomers
CHECK_DEADLOCK FALSE
