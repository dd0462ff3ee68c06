-------------------------- MODULE MCPackageDispatch --------------------------
(* PackageDispatch for TLC.                                                *)
EXTENDS PackageDispatch, TLC

CONSTANTS e1, e2, w1, w2

OnePackage == ("d1" :> <<e1, e2>>) @@ ("d2" :> <<>>)
TwoPackages == ("d1" :> <<e1>>) @@ ("d2" :> <<e2>>)
\* one package is interrupted, resumed and polled; two race for the account,
\* with and without a failing journal
Faulty == {[plan |-> OnePackage, faults |-> {"crash", "lost", "read", "lease"}],
           [plan |-> TwoPackages, faults |-> {"lost", "odd", "preflight"}],
           [plan |-> TwoPackages, faults |-> {"lost", "odd", "journal", "preflight"}]}
Faultless == {[plan |-> OnePackage, faults |-> {}]}
AllWorkers == Permutations(Workers)
=============================================================================
