--------------------------- MODULE MC_SshSession ---------------------------
EXTENDS SshSession, TLC

CONSTANTS p1, p2, s1, c1, c2, h1, h2, k1, k2

(* The two may meet at one server or write about different ones. *)
MCCalls == p1 :> {<<"tunnel", "refuse", c1>>, <<"tunnel", "accept", NoAlias>>}
        @@ p2 :> {<<"enroll", "accept", c1>>, <<"enroll", "prompt", NoAlias>>}

Signer == [role |-> "signer", scheme |-> "ssh", host |-> TRUE]
Cosigner == [role |-> "cosigner", scheme |-> "ssh", host |-> TRUE]

(* A file that loads, one with a cosigner as its default, one with too many   *)
(* cosigners, one of another version, one with a plain HTTP endpoint.        *)
MCFiles ==
  { [version |-> 2, endpoints |-> (s1 :> Signer @@ c1 :> Cosigner), default |-> NoAlias],
    [version |-> 2, endpoints |-> (s1 :> Signer @@ c1 :> Cosigner), default |-> c1],
    [version |-> 2, endpoints |-> (c1 :> Cosigner @@ c2 :> Cosigner), default |-> NoAlias],
    [version |-> 1, endpoints |-> (s1 :> Signer), default |-> s1],
    [version |-> 2, endpoints |-> (s1 :> [Signer EXCEPT !.scheme = "http"]), default |-> s1] }

MCHostOf == s1 :> h1 @@ c1 :> h2 @@ c2 :> h2

(* The signer's host key may change; the cosigner's does not. *)
MCOffers == h1 :> {k1, k2} @@ h2 :> {k1}
MCKnown == {<<h1, k1>>}
=============================================================================
