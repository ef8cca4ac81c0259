------------------------ MODULE MCConsumerRegister --------------------------
EXTENDS ConsumerRegister, TLC

CONSTANTS g1, g2

(* Groups differ in their name only; used where no liveness is checked.    *)
SymmetricGroups == Permutations(Groups)
=============================================================================
