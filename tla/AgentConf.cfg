SPECIFICATION Spec
CONSTANTS
    Numerals <- Words
    Tokens <- AllTokens
    Main = "agent"
    Texts <- AllTexts
    NewTexts <- AllNewTexts
    Include = "inc"
    IncludeText <- Included
    Brokers = {"b1", "b2"}
    NoFile = "none"
    Unsafe = {".."}
    MaxEdits = 2
    MaxFails = 1
INVARIANTS
    Defined
    ModulesAsWritten
    MacrosReplaced
    BrokersServed
