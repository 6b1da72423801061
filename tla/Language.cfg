\* Sentences of up to fourteen words, and two models that may say anything or fail, in every mode.
SPECIFICATION Spec
CONSTANTS
    Utterances <- MCUtterances
    Vocabulary <- MCVocabulary
    Names <- MCNames
    SoundsLike <- MCSoundsLike
    Extractions <- MCExtractions
    MaxQuantity = 100000000
    MaxTotal = 400000000
    MaxPrice = 400000000
    TooLong <- MCTooLong
    Modes = {"hybrid", "llm", "rules"}
    Providers = 2
INVARIANTS
    TypeOK
    ReadsAsSaid
    Grounded
    OneRole
    TwoOfAnything
    TypeIsSaid
PROPERTIES EverySentenceEnds
CHECK_DEADLOCK FALSE
