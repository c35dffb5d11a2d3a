---------------------------- MODULE MCInDialogue ----------------------------
(***************************************************************************)
(* InDialogue under names that do not meet those of Dialogue: TLC checks   *)
(* this instance, and DialogueProofs, which is about both, proves it.      *)
(***************************************************************************)
CONSTANT Manners   \* what the peers may do, sets of Chg!EnvBehaviour

VARIABLES manners, flag, req, early, info, ended, wronged

Chg == INSTANCE InDialogue WITH env <- manners, Envs <- Manners

ASSUME MannersAssumption == Manners \subseteq SUBSET Chg!EnvBehaviour

ChangeSpec == Chg!Spec

(***************************************************************************)
(* Between orderly peers no dialogueChanging flag outlives its change, and *)
(* no change is refused (stack.go:450) but for another one in progress.    *)
(***************************************************************************)
FlagsFree == Chg!FlagsFree

(***************************************************************************)
(* Every change comes to an end, even if both peers compete for the flags. *)
(***************************************************************************)
ChangeEnds == Chg!ChangeEnds
=============================================================================
