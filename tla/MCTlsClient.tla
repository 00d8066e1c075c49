---------------------------- MODULE MCTlsClient ----------------------------
(* Small instances of TlsClient: both legal flights, one with a message of *)
(* another key exchange, one with parameters that were not offered, one    *)
(* with a message missing and one with a message too many.                 *)
EXTENDS TlsClient

MCFlights ==
  LegalFlights \cup
  {<<"server_hello", "certificate", "server_key_exchange", "server_hello_done">>,
   <<"bad_hello", "certificate", "server_hello_done">>,
   <<"server_hello", "server_hello_done">>,
   <<"server_hello", "certificate", "server_hello_done", "certificate_request">>}
============================================================================
