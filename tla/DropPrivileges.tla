--------------------------- MODULE DropPrivileges ---------------------------
(***************************************************************************)
(* drop.c of ex05: a set-uid program gives up its privileges, first for a  *)
(* while and then for good, the wrong way (-w) or the correct way (-c),    *)
(* and tries whether it can have them back.                                *)
(***************************************************************************)
EXTENDS Naturals

CONSTANT Uids     \* the users; 0 is root

VARIABLES
    correct,             \* -c
    ruid, euid, suid,    \* real, effective and saved user
    old_euid,
    pc                   \* the next call, or how main has ended

vars == <<correct, ruid, euid, suid, old_euid, pc>>

\* exec of a set-uid file makes its owner the effective and the saved user.
Init ==
    /\ correct \in BOOLEAN
    /\ ruid \in Uids /\ euid \in Uids /\ suid = euid
    /\ old_euid = euid
    /\ pc = "check_privileges"

-----------------------------------------------------------------------------
(* The system calls.  Who is root may become anybody; the others may become
   the real or the saved user.  setuid by root changes all three.  A call that
   is permitted succeeds. *)

Permitted(u) == euid = 0 \/ u \in {ruid, suid}

seteuid(u) ==
    /\ euid' = IF Permitted(u) THEN u ELSE euid
    /\ UNCHANGED <<ruid, suid>>

setuid(u) ==
    /\ euid' = IF Permitted(u) THEN u ELSE euid
    /\ ruid' = IF euid = 0 THEN u ELSE ruid
    /\ suid' = IF euid = 0 THEN u ELSE suid

-----------------------------------------------------------------------------
(* check_privileges and drop_privileges.  A call that fails is only reported,
   but for the last one, which must. *)

CheckPrivileges ==
    /\ pc = "check_privileges"
    /\ pc' = IF ruid = euid THEN "EXIT_FAILURE" ELSE "temporarily"
    /\ UNCHANGED <<correct, ruid, euid, suid, old_euid>>

DropTemporarily ==
    /\ pc = "temporarily"
    /\ old_euid' = euid
    /\ seteuid(ruid)
    /\ pc' = IF correct THEN "regain" ELSE "permanently"
    /\ UNCHANGED correct

\* The correct way: setuid changes the saved user only while we are root.
Regain ==
    /\ pc = "regain"
    /\ seteuid(old_euid)
    /\ pc' = "permanently"
    /\ UNCHANGED <<correct, old_euid>>

\* Variant: the last drop with seteuid.
DropEffective ==
    /\ pc = "permanently"
    /\ seteuid(ruid)
    /\ pc' = "try"
    /\ UNCHANGED <<correct, old_euid>>

DropPermanently ==
    /\ pc = "permanently"
    /\ setuid(ruid)
    /\ pc' = "try"
    /\ UNCHANGED <<correct, old_euid>>

\* "old priviliges restored" is the failure.
TryOld ==
    /\ pc = "try"
    /\ setuid(old_euid)
    /\ pc' = IF Permitted(old_euid) THEN "EXIT_FAILURE" ELSE "EXIT_SUCCESS"
    /\ UNCHANGED <<correct, old_euid>>

Next ==
    \/ CheckPrivileges \/ DropTemporarily \/ Regain \/ DropPermanently \/ TryOld

Spec == Init /\ [][Next]_vars

-----------------------------------------------------------------------------
(* Properties *)

\* drop.c succeeds for the correct way out of root's privileges, and for nothing else;
\* and when it says "privileges dropped correctly", all three users are the one who
\* started it, so that no later setuid or seteuid gets the old one back.
DroppedForGood ==
    /\ pc = "EXIT_SUCCESS" =>
         euid = ruid /\ suid = ruid /\ ruid # old_euid /\ ~Permitted(old_euid)
    /\ pc = "EXIT_SUCCESS" => correct /\ old_euid = 0
    /\ pc = "EXIT_FAILURE" => ~(correct /\ old_euid = 0) \/ ruid = old_euid
=============================================================================
