----------------------------- MODULE MCVerified -----------------------------
(* A finite instance of a verified run.                                    *)
EXTENDS VerifiedSource

MCContents == {"a", "b"}
=============================================================================
