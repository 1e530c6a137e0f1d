SPECIFICATION OptSpec
CONSTANTS
    WordBits = 3
    OptTables <- MCOptTables
    OptArgs <- MCOptArgs
    MaxArgc = 3
    OptsMax = 3
INVARIANT GroupsAreExclusive
\* rd_opt_parse() returns
CHECK_DEADLOCK FALSE
