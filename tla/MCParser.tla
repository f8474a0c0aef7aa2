------------------------------ MODULE MCParser ------------------------------
EXTENDS HttpParser

MCRequestAlphabet ==
    {"method", "proto", "word", "0", "1", "2", " ", "\t", "\r", "\n", "/", ".", "?"}
MCUrlAlphabet == {"word", "/", ".", "?", " ", "\t", "\r", "\n"}
MCHeaderAlphabet == {"word", " ", "\t", "\r", "\n", ":", "*"}
MCMaxSlack == [request |-> 1, header |-> 3]
=============================================================================
