-------------------------------- MODULE DList --------------------------------
(***************************************************************************)
(* list.c: the list as nodes linked both ways.                             *)
(***************************************************************************)
EXTENDS Naturals, FiniteSets, FiniteSetsExt

CONSTANTS
  Data, Null,
  MaxNodes    \* bound: nodes allocated at a time

VARIABLES
  node,               \* the nodes that are allocated
  head, tail, size,   \* the List
  call                \* ghost: the call that was made last

Empty == [i \in {} |-> Null]

Init ==
  /\ node = Empty /\ head = Null /\ tail = Null /\ size = 0
  /\ call = <<"init">>

(* The nodes from the head on.                                             *)
Chain ==
  LET at[k \in 1 .. size] == IF k = 1 THEN head ELSE node[at[k - 1]].next
  IN  at

(* The node that holds the data, Null when there is none; the null pointer *)
(* is not looked for.                                                      *)
list_findPos(data) ==
  LET found == {k \in DOMAIN Chain : node[Chain[k]].data = data}
  IN  IF data = Null \/ found = {} THEN Null ELSE Chain[Min(found)]

list_tail == IF tail = Null THEN Null ELSE node[tail].data

\* Mutant: a node behind the tail does not become the tail.
LinkMiddle(n, pos, data) ==
  /\ UNCHANGED tail
  /\ node' = [i \in DOMAIN node \cup {n} |->
                CASE i = n   -> [data |-> data, next |-> node[pos].next, prev |-> pos]
                  [] i = pos -> [node[i] EXCEPT !.next = n]
                  [] i = node[pos].next -> [node[i] EXCEPT !.prev = n]
                  [] OTHER   -> node[i]]

(* The new node n goes behind pos.                                         *)
Link(n, pos, data) ==
  /\ node' = [i \in DOMAIN node \cup {n} |->
                CASE i = n   -> [data |-> data, next |-> node[pos].next, prev |-> pos]
                  [] i = pos -> [node[i] EXCEPT !.next = n]
                  [] i = node[pos].next -> [node[i] EXCEPT !.prev = n]
                  [] OTHER   -> node[i]]
  /\ tail' = IF pos = tail THEN n ELSE tail

(* What is refused leaves the list as it is: data that is there already, a *)
(* node that malloc does not give, a reference that is not there.          *)
Insert(data, ref) ==
  /\ list_findPos(data) = Null
  /\ DOMAIN node # 1 .. MaxNodes
  /\ LET n == Min((1 .. MaxNodes) \ DOMAIN node) IN
       IF size = 0
         THEN /\ node' = [i \in {n} |-> [data |-> data, next |-> Null, prev |-> Null]]
              /\ head' = n /\ tail' = n
         ELSE /\ list_findPos(ref) # Null
              /\ Link(n, list_findPos(ref), data)
              /\ UNCHANGED head
  /\ size' = size + 1

list_insert(data, ref) == Insert(data, ref) /\ call' = <<"insert", data, ref>>
list_append(data) == Insert(data, list_tail) /\ call' = <<"append", data>>

\* Mutant: the new head keeps its way back.
UnlinkForward(pos) ==
  /\ node' = [i \in DOMAIN node \ {pos} |->
                IF i = node[pos].prev THEN [node[i] EXCEPT !.next = node[pos].next]
                ELSE IF i = node[pos].next /\ pos # head
                  THEN [node[i] EXCEPT !.prev = node[pos].prev] ELSE node[i]]
  /\ head' = IF pos = head THEN node[pos].next ELSE head
  /\ tail' = IF pos = tail THEN node[pos].prev ELSE tail

Unlink(pos) ==
  /\ node' = [i \in DOMAIN node \ {pos} |->
                IF i = node[pos].prev THEN [node[i] EXCEPT !.next = node[pos].next]
                ELSE IF i = node[pos].next
                  THEN [node[i] EXCEPT !.prev = node[pos].prev] ELSE node[i]]
  /\ head' = IF pos = head THEN node[pos].next ELSE head
  /\ tail' = IF pos = tail THEN node[pos].prev ELSE tail

list_remove(data) ==
  /\ call' = <<"remove", data>>
  /\ list_findPos(data) # Null
  /\ Unlink(list_findPos(data))
  /\ size' = size - 1

(* Removes the head until there is none; a null member is never removed,   *)
(* and the loop does not end.                                              *)
list_delete ==
  /\ call' = <<"delete">>
  /\ \A i \in DOMAIN node : node[i].data # Null
  /\ node' = Empty /\ head' = Null /\ tail' = Null /\ size' = 0

Next ==
  \/ \E data \in Data \cup {Null} :
       list_append(data) \/ \E ref \in Data : list_insert(data, ref)
  \/ \E data \in Data : list_remove(data)
  \/ list_delete

-----------------------------------------------------------------------------
(* The links back mirror the links forward, and no node is lost.           *)
ListLinked ==
  /\ DOMAIN node = {Chain[k] : k \in DOMAIN Chain}
  /\ Cardinality(DOMAIN node) = size
  /\ \A k \in DOMAIN Chain :
       /\ node[Chain[k]].prev = IF k = 1 THEN Null ELSE Chain[k - 1]
       /\ node[Chain[k]].next = IF k = size THEN Null ELSE Chain[k + 1]
  /\ size > 0 => tail = Chain[size]

members == [k \in 1 .. size |-> node[Chain[k]].data]

Abstract == INSTANCE ListSeq WITH seq <- members

(* Every call does to the members what list.h says of it.                  *)
ListImplemented == Abstract!Init /\ [][Abstract!Next]_<<members, call>>
=============================================================================
