-------------------------- MODULE MCFlashRevisions --------------------------
(* FlashRevisions for TLC: what users submit in each question.             *)
EXTENDS FlashRevisions, TLC

Setting(exec, security, disk) ==
  [exec |-> exec, security |-> security, stopped |-> FALSE, disk |-> disk]

\* One image with any security setting; its disk is left to the provider.
FenceRequests == {Setting("e1", security, 0) : security \in Securities}

\* Any image, with a disk.
PlainRequests == {Setting(exec, security, 1) : exec \in Execs, security \in Securities}

\* Security settings are interchangeable.
SecuritySymmetry == Permutations(Securities)
=============================================================================
