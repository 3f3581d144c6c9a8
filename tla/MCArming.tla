------------------------------- MODULE MCArming -------------------------------
(***************************************************************************)
(* Instances of ExecutionArming.  In a behaviour of the part "permit" two  *)
(* callers execute two orders under two permits; in one of the part "halt" *)
(* they execute one order across two cycles of HALT and resume; in one of  *)
(* the part "denials" permits run out, sessions change and gates deny.     *)
(***************************************************************************)
EXTENDS ExecutionArming, TLC

CONSTANTS c1, c2, o1, o2

VARIABLE part

Symmetry == Permutations({c1, c2}) \cup Permutations({o1, o2})

Halting == INSTANCE ExecutionArming WITH
             Orders <- {o1}, MaxEpochs <- 4, MaxArms <- 1, MaxLogins <- 1,
             Lapses <- TRUE, Denials <- FALSE
Denying == INSTANCE ExecutionArming WITH
             Orders <- {o1}, MaxEpochs <- 2, MaxArms <- 1, MaxLogins <- 2,
             Lapses <- TRUE, Denials <- TRUE

ArmingInit ==
  \/ part = "permit" /\ Init
  \/ part = "halt" /\ Halting!Init
  \/ part = "denials" /\ Denying!Init

ArmingNext ==
  /\ UNCHANGED part
  /\ \/ part = "permit" /\ Next
     \/ part = "halt" /\ Halting!Next
     \/ part = "denials" /\ Denying!Next

ArmingSpec == ArmingInit /\ [][ArmingNext]_<<part, vars>>

=============================================================================
