-------------------------------- MODULE MCHttp --------------------------------
EXTENDS HttpConnection

AllKinds == {"keep", "close", "fail"}

=============================================================================
