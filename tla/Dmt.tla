-------------------------------- MODULE Dmt --------------------------------
(***************************************************************************)
(* The allocation tracker csrc/include/rxi/dmt.h: every block handed out   *)
(* is preceded by a node of a doubly linked list.  A node and its block    *)
(* have one address.  The actions take the address that malloc or realloc  *)
(* returns as an argument; a failing allocation changes nothing here       *)
(* (DMT_ABORT_NULL is not defined).                                        *)
(***************************************************************************)
EXTENDS Integers, FiniteSetsExt, TLC

CONSTANTS
  Addr,    \* addresses the C library may return
  Own,     \* one of them, that of a block the client keeps
  NULL

ASSUME AddrAssumption == IsFiniteSet(Addr) /\ Own \in Addr /\ NULL \notin Addr

VARIABLES
  nodes,      \* the nodes that are allocated, by address
  dmt_head,
  aborted     \* _dmt_abort was called

dmtvars == <<nodes, dmt_head, aborted>>

\* dmt_node_t; file and line are left out.
Node(prev, next, size) == [prev |-> prev, next |-> next, size |-> size]

DmtTypeOK ==
  /\ DOMAIN nodes \subseteq Addr
  /\ \A n \in DOMAIN nodes :
       /\ nodes[n].prev \in Addr \cup {NULL}
       /\ nodes[n].next \in Addr \cup {NULL}
       /\ nodes[n].size \in Nat
  /\ dmt_head \in Addr \cup {NULL}
  /\ aborted \in BOOLEAN

\* The client has one block of its own, of a byte.
DmtInit == nodes = [n \in {Own} |-> Node(NULL, NULL, 1)] /\ dmt_head = Own /\ aborted = FALSE

Free == Addr \ DOMAIN nodes

\* The walk along next from dmt_head, as many steps as there are nodes.
Walk ==
  LET at[k \in 0..Cardinality(DOMAIN nodes)] ==
        IF k = 0 THEN dmt_head
        ELSE IF at[k - 1] \in DOMAIN nodes THEN nodes[at[k - 1]].next ELSE NULL
  IN  at

Listed == {Walk[k] : k \in DOMAIN Walk} \ {NULL}

dmt_has_node(n) == n \in Listed

dmt_usage == MapThenSumSet(LAMBDA n : nodes[n].size, Listed)

---------------------------------------------------------------------------
\* The old head is not told of the node before it.
FaultyAlloc(node, size) ==
  /\ nodes' = [n \in DOMAIN nodes \cup {node} |->
                 IF n = node THEN Node(NULL, dmt_head, size) ELSE nodes[n]]
  /\ dmt_head' = node
  /\ UNCHANGED aborted

\* _dmt_alloc: node becomes the head of the list.
dmt_alloc(node, size) ==
  /\ nodes' = [n \in DOMAIN nodes \cup {node} |->
                 IF n = node THEN Node(NULL, dmt_head, size)
                 ELSE IF n = dmt_head THEN [nodes[n] EXCEPT !.prev = node]
                 ELSE nodes[n]]
  /\ dmt_head' = node
  /\ UNCHANGED aborted

\* "Bad realloc", "Bad free": the pointer is not in the list.
dmt_abort ==
  /\ aborted' = TRUE
  /\ UNCHANGED <<nodes, dmt_head>>

\* _dmt_realloc of a listed node that realloc moves to node (or leaves where
\* it is): the neighbours, which still point at the old address, follow.
dmt_realloc(old, node, size) ==
  /\ nodes' = [n \in (DOMAIN nodes \ {old}) \cup {node} |->
                 IF n = node THEN [nodes[old] EXCEPT !.size = size]
                 ELSE [nodes[n] EXCEPT !.next = IF n = nodes[old].prev THEN node ELSE @,
                                       !.prev = IF n = nodes[old].next THEN node ELSE @]]
  /\ dmt_head' = IF dmt_head = old THEN node ELSE dmt_head
  /\ UNCHANGED aborted

\* _dmt_free of a listed node.
dmt_free(node) ==
  /\ nodes' = [n \in DOMAIN nodes \ {node} |->
                 [nodes[n] EXCEPT !.next = IF n = nodes[node].prev THEN nodes[node].next ELSE @,
                                  !.prev = IF n = nodes[node].next THEN nodes[node].prev ELSE @]]
  /\ dmt_head' = IF node = dmt_head THEN nodes[node].next ELSE dmt_head
  /\ UNCHANGED aborted

---------------------------------------------------------------------------
(***************************************************************************)
(* The list of dmt.h holds every allocated node exactly once and prev is   *)
(* the inverse of next, also after realloc has moved nodes in the middle   *)
(* of it: dmt_usage and dmt_dump miss no block, and a good pointer is      *)
(* never taken for a bad one.                                              *)
(***************************************************************************)
ListSound ==
  /\ Listed = DOMAIN nodes
  /\ Walk[Cardinality(DOMAIN nodes)] = NULL
  /\ \A n \in DOMAIN nodes :
       /\ nodes[n].next # NULL => nodes[nodes[n].next].prev = n
       /\ nodes[n].prev = NULL <=> n = dmt_head
=============================================================================
