---------------------------- MODULE MCProviderID ----------------------------
(* Constants for model-checking ProviderID. *)
EXTENDS ProviderID

\* Two names, one the beginning of the other, and two IPv6 addresses.
MCAddresses == { <<"a">>, <<"a", "b">>, <<"[", ":", "a", "]">>, <<"[", "a", ":", "]">> }
MCPort == <<":", "9090">>
MCUIDs == { <<"u">>, <<"a", "u">>, <<"microvm", ":">> }

\* Every string of up to seven tokens, those of a prefix among them.
MCWritten == BoundedSeq({"microvm", "a", ":", "/"}, 7) \ {<<>>}
=============================================================================
