------------------------------- MODULE Lessons -------------------------------
(***************************************************************************)
(* What the household is promised about the articles that leave its feed:  *)
(* a deletion that was recorded waits until it has become part of what the *)
(* filter knows, and may be taught more than once but never not at all.    *)
(***************************************************************************)

CONSTANT Deletions

VARIABLES
    waiting,    \* recorded, not thrown away yet
    taught      \* made part of a profile at least once

lessonVars == <<waiting, taught>>

LessonsInit == waiting = {} /\ taught = {}

Record ==
    waiting \subseteq waiting' /\ waiting' \subseteq Deletions /\ UNCHANGED taught

Teach == taught \subseteq taught' /\ taught' \subseteq taught \cup waiting /\ UNCHANGED waiting

Forget == waiting' \subseteq waiting /\ waiting \ waiting' \subseteq taught /\ UNCHANGED taught

LessonsNext == Record \/ Teach \/ Forget

LessonsSpec == LessonsInit /\ [][LessonsNext]_lessonVars

=============================================================================
