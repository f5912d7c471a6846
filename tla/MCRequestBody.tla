---------------------------- MODULE MCRequestBody ----------------------------
(***************************************************************************)
(* Octets for TLC: NUL, "%", the digits that spell the escapes of NUL       *)
(* (%00), of a lead octet (%C2), of a continuation octet (%A0, %AC) and of  *)
(* "*" (%2A), a lead octet and a continuation octet themselves.             *)
(***************************************************************************)
EXTENDS RequestBody

MCBytes == {0, 37, 48, 50, 65, 67, 172, 194}
=============================================================================
