--------------------------- MODULE MCExperiments ----------------------------
\* The suites of the instance: each kind of scheme first and second.
EXTENDS Experiments

SomeSuites ==
  {<<"Falcon-512", "Dilithium2">>, <<"Dilithium3", "Falcon-512">>,
   <<"ECDSA", "Dilithium2">>, <<"Dilithium2", "Dilithium2">>, <<"ECDSA", "RSA">>}
=============================================================================
