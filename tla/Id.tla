--------------------------------- MODULE Id ---------------------------------
(***************************************************************************)
(* id of hw05: id.c and utils.c, which print the user and the groups of the*)
(* process, or of users given by name or number.  The data bases are read  *)
(* by one call after another, and the administrator may change them in     *)
(* between.  The name of a user or a group is its number, NULL when there  *)
(* is none.                                                                *)
(***************************************************************************)
EXTENDS Naturals, Sequences, FiniteSets

CONSTANTS
    Uids, Gids,      \* sets of numbers; 0 is in both
    NULL,
    MaxChanges       \* bound: changes of the data bases

VARIABLES
    options,         \* what: "all", "user", "group" or "groups"; name, real
    mode,            \* "process" or "user"
    user, group,     \* real and effective number, and name: user_data, group_data
    supplementary,   \* the groups of the process
    known,           \* the users with an entry
    named,           \* the groups with an entry
    member,          \* those of them that list the user
    ngroups,
    groups_ids,
    groups_data,
    heap, twice,     \* what is allocated; something was freed that was not
    printed,
    memberships,     \* the groups the user has been in during the call
    pc, changes

vars == <<options, mode, user, group, supplementary, known, named, member, ngroups, groups_ids,
          groups_data, heap, twice, printed, memberships, pc, changes>>
process == <<options, mode, supplementary, known>>
database == <<named, member, memberships, changes>>

Entry(real, effective, name) == [real |-> real, effective |-> effective, name |-> name]
NameIn(set, n) == IF n \in set THEN n ELSE NULL

\* getopt_long and the checks after it; "pw_gid" of a user is the real group.
Init ==
    /\ options \in [what : {"all", "user", "group", "groups"}, name : BOOLEAN, real : BOOLEAN]
    /\ options.what = "all" => ~options.name /\ ~options.real
    /\ mode \in {"process", "user"}
    /\ user \in {Entry(r, e, NULL) : r, e \in Uids}
    /\ group \in {Entry(r, e, NULL) : r, e \in Gids}
    /\ mode = "user" => user.real = user.effective /\ group.real = group.effective
    /\ supplementary \in (IF mode = "process" THEN SUBSET Gids ELSE {{}})
    /\ known \in SUBSET Uids
    /\ named \in SUBSET Gids
    /\ member \in (IF mode = "user" THEN SUBSET named ELSE {{}})
    /\ ngroups = 0 /\ groups_ids = <<>> /\ groups_data = <<>>
    /\ heap = {} /\ twice = FALSE /\ printed = <<>>
    /\ memberships = {} /\ pc = "user" /\ changes = 0

\* What getgrouplist finds: pw_gid first.
GroupList == {group.real} \cup member

\* The administrator adds a group, adds the user to one, or takes one away.
Change ==
    /\ changes < MaxChanges /\ pc \notin {"exit", "crash"}
    /\ \E g \in Gids :
         \/ named' = named \cup {g} /\ member' = member
         \/ named' = named \cup {g} /\ member' = member \cup {g} /\ mode = "user"
         \/ named' = named \ {g} /\ member' = member \ {g}
    /\ changes' = changes + 1
    /\ memberships' = memberships \cup {{group.real} \cup member'}
    /\ UNCHANGED <<process, user, group, ngroups, groups_ids, groups_data, heap, twice, printed, pc>>

-----------------------------------------------------------------------------
(* Memory.  free of something that is not allocated is remembered; the pointers that
   are NULL are not freed. *)

Free(blocks) == heap' = heap \ blocks /\ twice' = (twice \/ ~(blocks \subseteq heap))
GroupName == IF group.name = NULL THEN {} ELSE {<<"group_data", 0>>}
Ids == {<<"groups_ids", 0>>}

\* What free_memory frees.
Data ==
    GroupName \cup {<<"groups_data", 0>>}
      \cup {<<"name", i>> : i \in {j \in DOMAIN groups_data : groups_data[j].name # NULL}}

ExitFreeing(blocks) ==
    /\ Free(blocks)
    /\ pc' = "exit"
    /\ UNCHANGED <<process, database, user, group, ngroups, groups_ids, groups_data, printed>>

\* The groups of a list, each of them once, in some order.
Orders(list) ==
    {order \in [1 .. Cardinality(list) -> list] :
        \A g \in list : \E k \in DOMAIN order : order[k] = g}

\* groups_ids and groups_data are allocated for the groups in a list.
Collect(list) ==
    /\ groups_ids' \in Orders(list)
    /\ ngroups' = Cardinality(list)
    /\ groups_data' = <<>>
    /\ heap' = heap \cup Ids \cup {<<"groups_data", 0>>}
    /\ pc' = "name"
    /\ UNCHANGED <<process, database, user, group, twice, printed>>

\* The name of the next group is found; strdup may fail.
NamesGroup ==
    LET i == Len(groups_data) + 1
        g == groups_ids[i]
    IN  /\ g \in named
        /\ \E name \in {g, NULL} :
             /\ groups_data' = Append(groups_data, Entry(g, g, name))
             /\ heap' = heap \cup (IF name = NULL THEN {} ELSE {<<"name", i>>})
        /\ UNCHANGED <<process, database, user, group, ngroups, groups_ids, twice, printed, pc>>

-----------------------------------------------------------------------------
(* get_process_info *)

\* getpwuid: the user may have no entry.
ProcessUser ==
    /\ pc = "user" /\ mode = "process"
    /\ user' = [user EXCEPT !.name = NameIn(known, user.real)]
    /\ pc' = "group"
    /\ UNCHANGED <<process, database, group, ngroups, groups_ids, groups_data, heap, twice, printed>>

\* getgrgid, and strdup, which may fail.
ProcessGroup ==
    /\ pc = "group" /\ mode = "process"
    /\ \/ group.real \in named /\ ExitFreeing({})
       \/ /\ group' = [group EXCEPT !.name = NameIn(named, group.real)]
          /\ heap' = heap \cup (IF group.real \in named THEN {<<"group_data", 0>>} ELSE {})
          /\ pc' = "fill"
          /\ UNCHANGED <<process, database, user, ngroups, groups_ids, groups_data, twice, printed>>

\* getgroups, twice, and the effective group where it is missing; a call that fails.
ProcessGroups ==
    /\ pc = "fill" /\ mode = "process"
    /\ \/ ExitFreeing(GroupName)
       \/ Collect(supplementary \cup {group.effective})

\* One turn of the loop.  A strdup that fails is not noticed; a group without an entry
\* is a null pointer that is used.
NameProcessGroup ==
    /\ pc = "name" /\ mode = "process" /\ Len(groups_data) < ngroups
    /\ \/ NamesGroup
       \/ /\ groups_ids[Len(groups_data) + 1] \notin named
          /\ pc' = "crash"
          /\ UNCHANGED <<process, database, user, group, ngroups, groups_ids, groups_data, heap,
                         twice, printed>>

-----------------------------------------------------------------------------
(* get_user_info *)

\* getpwnam or getpwuid
UserUser ==
    /\ pc = "user" /\ mode = "user"
    /\ IF user.real \notin known THEN ExitFreeing({})
       ELSE /\ user' = [user EXCEPT !.name = user.real]
            /\ pc' = "group"
            /\ memberships' = {GroupList}
            /\ UNCHANGED <<process, named, member, changes, group, ngroups, groups_ids, groups_data,
                           heap, twice, printed>>

\* getgrgid; whether strdup fails is not checked.
UserGroup ==
    /\ pc = "group" /\ mode = "user"
    /\ IF group.real \notin named THEN ExitFreeing({})
       ELSE /\ \E name \in {group.real, NULL} :
                 /\ group' = [group EXCEPT !.name = name]
                 /\ heap' = heap \cup (IF name = NULL THEN {} ELSE {<<"group_data", 0>>})
            /\ pc' = "count"
            /\ UNCHANGED <<process, database, user, ngroups, groups_ids, groups_data, twice, printed>>

\* getgrouplist that is given no room, and calloc.
CountGroups ==
    /\ pc = "count"
    /\ \/ ExitFreeing(GroupName)
       \/ /\ ngroups' = Cardinality(GroupList)
          /\ heap' = heap \cup Ids
          /\ pc' = "fill"
          /\ UNCHANGED <<process, database, user, group, groups_ids, groups_data, twice, printed>>

\* Variant: the number from the first call is used although the list has become shorter.
FillCounted ==
    /\ pc = "fill" /\ mode = "user"
    /\ \/ ExitFreeing(GroupName \cup Ids)
       \/ /\ Cardinality(GroupList) <= ngroups
          /\ \E order \in Orders(GroupList) :
               groups_ids' = order \o [i \in 1..(ngroups - Cardinality(GroupList)) |-> 0]
          /\ groups_data' = <<>>
          /\ heap' = heap \cup {<<"groups_data", 0>>}
          /\ pc' = "name"
          /\ UNCHANGED <<process, database, user, group, ngroups, twice, printed>>

\* The second getgrouplist fails if the list does not fit any more: "Group list changed".
FillGroups ==
    /\ pc = "fill" /\ mode = "user"
    /\ \/ ExitFreeing(GroupName \cup Ids)
       \/ Cardinality(GroupList) <= ngroups /\ Collect(GroupList)

\* One turn of the loop; a group that has no entry any more ends the program.
NameUserGroup ==
    /\ pc = "name" /\ mode = "user" /\ Len(groups_data) < ngroups
    /\ \/ NamesGroup
       \/ groups_ids[Len(groups_data) + 1] \notin named /\ ExitFreeing(Data \cup Ids)

-----------------------------------------------------------------------------
(* print_data *)

Both(e) == [id |-> e.real, name |-> e.name]

proper_print(e) ==
    [id |-> IF options.name THEN NULL ELSE IF options.real THEN e.real ELSE e.effective,
     name |-> IF options.name THEN e.name ELSE NULL]

\* The items of the line that is printed.
print_data ==
    CASE options.what = "all" ->
           <<Both(user), Both(group)>>
             \o (IF user.real = user.effective THEN <<>>
                 ELSE <<[id |-> user.effective, name |-> NameIn(known, user.effective)]>>)
             \o [i \in 1..ngroups |-> Both(groups_data[i])]
      [] options.what = "user" -> <<proper_print(user)>>
      [] options.what = "group" -> <<proper_print(group)>>
      [] options.what = "groups" -> [i \in 1..ngroups |-> proper_print(groups_data[i])]

\* free(groups_ids), print_data, free_memory
PrintInfo ==
    /\ pc = "name" /\ Len(groups_data) = ngroups
    /\ printed' = print_data
    /\ Free(Ids \cup Data)
    /\ pc' = "printed"
    /\ UNCHANGED <<process, database, user, group, ngroups, groups_ids, groups_data>>

\* main: the next argument.
NextUser ==
    /\ pc = "printed" /\ mode = "user"
    /\ \E uid \in Uids : user' = Entry(uid, uid, NULL)
    /\ \E gid \in Gids : group' = Entry(gid, gid, NULL)
    /\ member' \in SUBSET named
    /\ pc' = "user"
    /\ UNCHANGED <<process, named, memberships, changes, ngroups, groups_ids, groups_data, heap, twice, printed>>

Next ==
    \/ Change
    \/ ProcessUser \/ ProcessGroup \/ ProcessGroups \/ NameProcessGroup
    \/ UserUser \/ UserGroup \/ CountGroups \/ FillGroups \/ NameUserGroup
    \/ PrintInfo \/ NextUser

Spec == Init /\ [][Next]_vars

-----------------------------------------------------------------------------
(* Properties *)

\* The line pairs every number with its own name or with none; the groups on it are each
\* there once, they are all groups of the process, the effective one included, or all
\* that the user was in at one moment, although the data base changed between the calls
\* of get_user_info; and whichever call failed, everything was freed exactly once.
PrintsOneMoment ==
    /\ pc = "printed" /\ options.what = "all" =>
         LET shown == SubSeq(printed, Len(printed) - ngroups + 1, Len(printed))
             ids == {shown[i].id : i \in DOMAIN shown}
         IN  /\ \A i \in DOMAIN printed : printed[i].name \in {printed[i].id, NULL}
             /\ Cardinality(ids) = Len(shown)
             /\ ids \in (IF mode = "user" THEN memberships ELSE {supplementary \cup {group.effective}})
    /\ pc \in {"printed", "exit"} => heap = {}
    /\ ~twice

\* "-u  print only the effective user ID", "-n  print a name instead of a number": the
\* name that id -un prints is the effective user's (proper_print).
EffectiveName ==
    pc = "printed" /\ options.what = "user" /\ options.name /\ ~options.real =>
        printed[1].name \in {user.effective, NULL}
=============================================================================
