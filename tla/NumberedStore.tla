----------------------------- MODULE NumberedStore -----------------------------
(***************************************************************************)
(* What a keychain table promises the code above it: records are found by   *)
(* their number, a number is the record's for as long as the record lives,  *)
(* and no two records have the same identity (keychain/src/format.rs, the   *)
(* comments of Table::insert, Table::delete and has_record_with_unique_key).*)
(***************************************************************************)
CONSTANTS
  Numbers,  (* record numbers                                              *)
  Ids,      (* values of the attributes that identify a record             *)
  Tags,     (* values of another indexed attribute                         *)
  NoTag     (* the attribute is absent                                     *)

VARIABLE store  (* the records, by number *)

Contents == [id : Ids, tag : Tags \union {NoTag}]

Init == store = [n \in {} |-> n]

Add ==
  \E n \in Numbers \ DOMAIN store, c \in Contents :
    /\ \A m \in DOMAIN store : store[m].id # c.id
    /\ store' = [m \in DOMAIN store \union {n} |-> IF m = n THEN c ELSE store[m]]

Update ==
  \E n \in DOMAIN store, tag \in Tags :
    store' = [store EXCEPT ![n].tag = tag]

Delete ==
  \E n \in DOMAIN store :
    store' = [m \in DOMAIN store \ {n} |-> store[m]]

Next == Add \/ Update \/ Delete

Spec == Init /\ [][Next]_store
=============================================================================
