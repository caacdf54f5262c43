------------------------------- MODULE ListSeq -------------------------------
(***************************************************************************)
(* What list.h promises: a list of pointers, none of them twice, to which  *)
(* one is added behind a given one and from which one is removed.          *)
(***************************************************************************)
EXTENDS Naturals, SequencesExt

CONSTANTS Data, Null   \* the callers' pointers, and the null pointer

VARIABLES
  seq,
  call   \* the call that was made last

Init == seq = <<>> /\ call = <<"init">>

(* The null pointer is never found.                                        *)
Has(data) == data # Null /\ Contains(seq, data)
At(data)  == CHOOSE i \in DOMAIN seq : seq[i] = data

AddBehind(data, ref) ==
  /\ call' = <<"insert", data, ref>> /\ ~Has(data)
  /\ \/ seq = <<>> /\ seq' = <<data>>
     \/ Has(ref) /\ seq' = InsertAt(seq, At(ref) + 1, data)

AddLast(data) ==
  /\ call' = <<"append", data>> /\ ~Has(data)
  /\ seq' = Append(seq, data)

Take(data) ==
  /\ call' = <<"remove", data>> /\ Has(data)
  /\ seq' = RemoveAt(seq, At(data))

Clear ==
  /\ call' = <<"delete">> /\ ~Contains(seq, Null)
  /\ seq' = <<>>

Next == \/ \E data, ref \in Data \cup {Null} : AddBehind(data, ref) \/ AddLast(data)
        \/ \E data \in Data : Take(data)
        \/ Clear
=============================================================================
