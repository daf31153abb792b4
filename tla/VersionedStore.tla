--------------------------- MODULE VersionedStore ---------------------------
(***************************************************************************)
(* What the contract of chaincode/contract.go promises its callers: a      *)
(* store of versioned records in which every write is one atomic step.  A  *)
(* record is created with version 1, every overwrite adds exactly one, a   *)
(* write that names no creation time keeps the one already stored, and a   *)
(* deleted record leaves nothing behind, so the next write starts again    *)
(* from version 1.                                                         *)
(*                                                                         *)
(* The module mentions neither transactions nor the network: ABELedger     *)
(* implements it.                                                          *)
(***************************************************************************)
EXTENDS Naturals

CONSTANTS
  Keys,     \* the names records are stored under
  Bodies,   \* what a record holds besides its bookkeeping
  Times,    \* creation times
  Nil,      \* the body of a record that does not exist
  NoTime    \* the creation time of a write that names none

VARIABLE store   \* [Keys -> record]; version 0 stands for "no such record"

NoRecord == [version |-> 0, body |-> Nil, createdAt |-> NoTime]

Init == store = [k \in Keys |-> NoRecord]

Put(k, body, at) ==
  store' = [store EXCEPT ![k] =
              [version   |-> @.version + 1,
               body      |-> body,
               createdAt |-> IF at = NoTime THEN @.createdAt ELSE at]]

Delete(k) == store' = [store EXCEPT ![k] = NoRecord]

Next ==
  \E k \in Keys :
    \/ \E body \in Bodies, at \in Times \cup {NoTime} : Put(k, body, at)
    \/ Delete(k)

Spec == Init /\ [][Next]_store
=============================================================================
