------------------------- MODULE LifecycleAuthority -------------------------
(***************************************************************************)
(* Issuance and verification of lifecycle authorities                      *)
(* (lifecycle_authority.py): the configured human principal of a role      *)
(* seals an authority, and a stored row is trusted only while it still     *)
(* says what was signed.  A signature is the signed document itself.       *)
(***************************************************************************)
EXTENDS Integers

CONSTANTS
  Principals,    \* who may be logged in on the machine
  Approver,      \* policy.principals.approver
  MandateIssuer, \* policy.principals.mandate_issuer
  Bindings       \* the plans an authority may be bound to

ASSUME PrincipalAssumption == {Approver, MandateIssuer} \subseteq Principals

Authority == [kind : {"APPROVAL", "MANDATE"}, principal : Principals,
              binding : Bindings, expires : Nat]

RoleHolder(kind) == IF kind = "APPROVAL" THEN Approver ELSE MandateIssuer

\* _issue: the principal at the keyboard is the configured one of the role, the
\* authority names him, and it has not expired yet.
MayIssue(authority, principal, now) ==
  /\ principal = RoleHolder(authority.kind)
  /\ authority.principal = principal
  /\ authority.expires > now

\* verify_persisted_proof together with the row comparison of the stores: the
\* signed document names the role's holder and equals the stored fields.
ProofSigned(row) == row.signed.principal = RoleHolder(row.signed.kind)
ProofHolds(row) ==
  /\ row.signed.principal = RoleHolder(row.signed.kind)
  /\ row.signed = row.fields
=============================================================================
