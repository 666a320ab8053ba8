----------------------------- MODULE MCChildSa -----------------------------
(***************************************************************************)
(* Small instances of ChildSa for TLC.                                     *)
(***************************************************************************)
EXTENDS ChildSa

Conf(soft, hard, acq, die, fault, fifo, badke) ==
    [soft |-> soft, hard |-> hard, acq |-> acq, die |-> die, fault |-> fault,
     fifo |-> fifo, badke |-> badke]

MCConfs ==
    { Conf(2, 0, 0, 0, 0, TRUE, "none"),        \* simultaneous rekeying
      Conf(2, 0, 0, 0, 0, FALSE, "none"),       \* with overtaking messages
      Conf(2, 1, 0, 0, 0, TRUE, "none"),        \* rekeying against hard lifetimes
      Conf(1, 1, 0, 0, 0, FALSE, "none"),       \* both lifetimes
      Conf(1, 1, 1, 0, 0, TRUE, "none"),        \* traffic after the expiry
      Conf(2, 0, 0, 1, 0, TRUE, "none"),        \* the IKE SA is given up
      Conf(1, 1, 0, 0, 1, TRUE, "none"),        \* an error of the kernel
      Conf(1, 0, 0, 0, 2, TRUE, "none"),        \* a late answer and an error
      Conf(1, 1, 0, 0, 0, TRUE, Responder) }    \* another Diffie-Hellman group

MCNonces == 1..5
=============================================================================
