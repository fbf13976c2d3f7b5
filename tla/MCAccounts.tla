----------------------------- MODULE MCAccounts -----------------------------
\* Instances of Accounts for TLC.  The requests are model values which no definition
\* tells apart, so that permuting them is sound; there is no liveness property.
EXTENDS Accounts, TLC

Everything == AllKinds

OnlyUpdates == {"update"}

AnyRequest == Permutations(Reqs)
=============================================================================
