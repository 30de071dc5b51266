------------------------------ MODULE MCGateway ------------------------------
EXTENDS Gateway

\* A public https endpoint in production, a local one in development, and one that is
\* refused.
SomeEndpoints ==
  {[scheme |-> "https", userinfo |-> FALSE, host |-> "named", private_ok |-> FALSE, http_ok |-> FALSE],
   [scheme |-> "http", userinfo |-> FALSE, host |-> "localhost", private_ok |-> TRUE, http_ok |-> TRUE],
   [scheme |-> "http", userinfo |-> FALSE, host |-> "named", private_ok |-> TRUE, http_ok |-> FALSE]}
=============================================================================
