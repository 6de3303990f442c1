\* Statements of every kind, typed piece by piece; every text of up to four of
\* eleven characters, or six of five.
CONSTANTS
    Names <- MCNames
    Digits <- MCDigits
    Tables <- MCTables
    Formats <- MCFormats
    Start <- MCStart
SPECIFICATION ParserSpec
INVARIANTS
    LongestMatch
    ConditionMeaning
    
    NothingLost
