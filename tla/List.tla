-------------------------------- MODULE List --------------------------------
(***************************************************************************)
(* ex09/primes/list.c: a singly linked list with a head and a tail         *)
(* pointer.  Addresses are the nodes malloc may give, and a freed node may *)
(* be given again with what it had in it.                                  *)
(***************************************************************************)
EXTENDS Naturals, Sequences

CONSTANTS Nodes, Values, NULL

VARIABLES
    head, tail, size,    \* struct list
    next, value,         \* struct node, for every address
    allocated            \* the addresses malloc has given and free not taken

vars == <<head, tail, size, next, value, allocated>>

\* list_init; what memory contains before malloc gives it is arbitrary.
Init ==
    /\ head = NULL /\ tail = NULL /\ size = 0
    /\ next \in [Nodes -> Nodes \cup {NULL}]
    /\ value \in [Nodes -> Values]
    /\ allocated = {}

\* A malloc that fails changes nothing.
list_push(v) ==
    \E node \in Nodes \ allocated :
        /\ allocated' = allocated \cup {node}
        /\ value' = [value EXCEPT ![node] = v]
        /\ IF head = NULL
           THEN head' = node /\ next' = [next EXCEPT ![node] = NULL]
           ELSE head' = head /\ next' = [next EXCEPT ![node] = NULL, ![tail] = node]
        /\ tail' = node
        /\ size' = size + 1

\* Variant: tail keeps pointing to the node that was freed.
list_pop_keeps_tail ==
    /\ size # 0
    /\ head' = next[head]
    /\ allocated' = allocated \ {head}
    /\ size' = size - 1
    /\ UNCHANGED <<tail, next, value>>

\* The call on an empty list changes nothing; list_destroy is list_pop until
\* there is nothing left.
list_pop ==
    /\ size # 0
    /\ head' = next[head]
    /\ tail' = IF head' = NULL THEN NULL ELSE tail
    /\ allocated' = allocated \ {head}
    /\ size' = size - 1
    /\ UNCHANGED <<next, value>>

Next == (\E v \in Values : list_push(v)) \/ list_pop

Spec == Init /\ [][Next]_vars

-----------------------------------------------------------------------------

\* The nodes from head on, each pointing to the one after it and the last to NULL.
Linked(nodes) ==
    /\ head = IF size = 0 THEN NULL ELSE nodes[1]
    /\ \A j \in 1..size : next[nodes[j]] = IF j = size THEN NULL ELSE nodes[j + 1]

\* There are list->size nodes from head on and they are exactly the allocated ones, each
\* once: no node leaks and none is used after free.  tail is the last of them.
WellFormed ==
    \E nodes \in [1..size -> allocated] :
        /\ Linked(nodes)
        /\ \A n \in allocated : \E j \in 1..size : nodes[j] = n
        /\ \A j, k \in 1..size : nodes[j] = nodes[k] => j = k
        /\ tail = IF size = 0 THEN NULL ELSE nodes[size]

Contents ==
    LET nodes == CHOOSE nodes \in [1..size -> allocated] : Linked(nodes)
    IN  [j \in 1..size |-> value[nodes[j]]]

\* The list is a sequence: list_push appends its value and list_pop takes the
\* first one away, and both leave the pointers well-formed.
IsSequence ==
    [][ /\ WellFormed'
        /\ \/ \E v \in Values : Contents' = Append(Contents, v)
           \/ Contents # <<>> /\ Contents' = Tail(Contents)]_vars
=============================================================================
