------------------------------ MODULE Identity ------------------------------
(***************************************************************************)
(* id of hw05 with variables of its own, so that it can stand beside other *)
(* programs, and what is required of it.                                   *)
(***************************************************************************)
EXTENDS Naturals, FiniteSets

CONSTANTS Accounts, Gids, NULL, MaxChanges      \* of Id

\* A process is in finitely many groups, and NULL is no number of a group.
ASSUME IdAssumption ==
    /\ \A list \in SUBSET Gids : Cardinality(list) \in Nat
    /\ NULL \notin Gids

VARIABLES
    options, mode, user, group, supplementary, known, named, member, ngroups, groups_ids,
    groups_data, heap, twice, printed, memberships, id_pc, id_changes

id == <<options, mode, user, group, supplementary, known, named, member, ngroups, groups_ids,
        groups_data, heap, twice, printed, memberships, id_pc, id_changes>>

Id == INSTANCE Id WITH Uids <- Accounts, pc <- id_pc, changes <- id_changes

-----------------------------------------------------------------------------

\* hw05: id prints the groups of one moment, with their names, and frees everything.
PrintsOneMoment == Id!PrintsOneMoment
=============================================================================
