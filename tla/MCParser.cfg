SPECIFICATION Spec
CONSTANTS
    RequestAlphabet <- MCRequestAlphabet
    UrlAlphabet <- MCUrlAlphabet
    HeaderAlphabet <- MCHeaderAlphabet
    MaxUrl = 4
    MaxSlack <- MCMaxSlack
CHECK_DEADLOCK FALSE
INVARIANTS
    TypeOK
    AssertsHold
    RequestLineExact
    UrlSplit
    HeaderExact
