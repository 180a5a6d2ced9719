\* Does every text become a filter or an error?
SPECIFICATION StartupSpec
CONSTANTS
    Lines <- MCLines
    GoodFilters = {1}
    EnvTexts <- MCEnvTexts
    FlagTexts <- MCFlagTexts
    Unbounded = 9000
    MaxLines = 4
    MaxFlags = 2
    MaxChars = 3
    MaxTokens = 7
    Texts <- MCTexts
    TokenSeqs <- MCTokenSeqs
    Subjects <- MCSubjects
    Number <- MCNumber
    Format <- MCFormat
    Before <- MCBefore
INVARIANTS NeverPanics
