--------------------------- MODULE MCBlobStores ---------------------------
(* Instances of BlobStores for TLC.                                        *)
EXTENDS BlobStores, TLC

CallSymmetry == Permutations(Calls)

BothBackends == {"local", "s3"}
LocalOnly == {"local"}
=============================================================================
