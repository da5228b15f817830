-------------------------- MODULE MCDigestSession --------------------------
(***************************************************************************)
(* DigestSession and its credentials on a small instance.  MaxSends bounds *)
(* the requests of a DigestRequest, which could be used for ever.          *)
(***************************************************************************)
EXTENDS DigestCredential

CONSTANT MaxSends

MCNext == CredentialNext /\ \A c \in Calls : sends'[c] <= MaxSends

MCOffers == {{}, {"auth"}, {"auth", "auth-int"}, {"auth", "other"}}

MCSpec == CredentialInit /\ [][MCNext]_credentialVars

=============================================================================
