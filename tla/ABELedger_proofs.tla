-------------------------- MODULE ABELedger_proofs --------------------------
(***************************************************************************)
(* Proofs about ABELedger, for any sets of transactions, ids and payloads. *)
(* LedgerInv is the inductive invariant: the fate of a transaction depends *)
(* on the record it read long before, so the invariant has to say what     *)
(* every transaction in flight has read, not only what the state holds.    *)
(***************************************************************************)
EXTENDS ABELedger, FiniteSetTheorems, TLAPS

(***************************************************************************)
(* Simulating a call changes nothing but its own transaction, which then   *)
(* is endorsed with the record given.  The three calls of the contract,    *)
(* seen through this lemma, differ only in the record.                     *)
(***************************************************************************)
LEMMA EndorsedRecord ==
  ASSUME TypeOK, NEW t \in Tx, NEW k \in Keys, NEW blind \in BOOLEAN,
         NEW asset \in Asset, Simulated(t, k, blind, asset)
  PROVE  /\ tx[t].stage = "idle"
         /\ world' = world
         /\ tx' \in [Tx -> TxState]
         /\ tx'[t] = [stage |-> "endorsed", key |-> k, blind |-> blind,
                      read |-> IF blind THEN Nil ELSE world[k].writer,
                      write |-> asset, answer |-> "none"]
         /\ \A u \in Tx \ {t} : tx'[u] = tx[u]
<1>1. world[k].writer \in Tx \cup {Nil}
  BY DEF TypeOK, Asset
<1>2. [stage |-> "endorsed", key |-> k, blind |-> blind,
       read |-> IF blind THEN Nil ELSE world[k].writer,
       write |-> asset, answer |-> "none"] \in TxState
  BY <1>1 DEF TxState, Stages
<1>3. QED
  BY <1>2 DEF TypeOK, Simulated

(***************************************************************************)
(* A step of the network changes of a transaction only its stage and its   *)
(* answer; the stage it leaves was not "committed", and no unsent          *)
(* transaction becomes sent.                                               *)
(***************************************************************************)
\* What a transaction was endorsed as is still the same.
SameCall(u) ==
  /\ tx'[u].key = tx[u].key /\ tx'[u].blind = tx[u].blind
  /\ tx'[u].read = tx[u].read /\ tx'[u].write = tx[u].write

\* The network leaves calls alone.
LEMMA NetworkStep ==
  ASSUME TypeOK, NEW t \in Tx, Refuse(t) \/ Network(t)
  PROVE  /\ tx' \in [Tx -> TxState]
         /\ \A u \in Tx : SameCall(u)
         /\ \A u \in Tx : Sent(u)' <=> Sent(u)
         /\ \A u \in Tx : tx[u].stage = "committed" => tx'[u].stage = "committed"
<1> USE DEF TypeOK, TxState, Stages, SameCall, Sent
<1>1. CASE Refuse(t)
  BY <1>1, ZenonT(60) DEF Refuse
<1>2. CASE Commit(t)
  BY <1>2 DEF Commit
<1>3. CASE Invalidate(t)
  BY <1>3 DEF Invalidate
<1>4. CASE Drop(t)
  BY <1>4 DEF Drop
<1>5. CASE Answer(t)
  BY <1>5 DEF Answer
<1>6. CASE GiveUp(t)
  BY <1>6 DEF GiveUp
<1>7. QED
  BY <1>1, <1>2, <1>3, <1>4, <1>5, <1>6 DEF Network

(***************************************************************************)
(* Validation means that the record a put replaces is the record it read.  *)
(***************************************************************************)
LEMMA ValidPutReplacesWhatItRead ==
  ASSUME LedgerInv, NEW t \in Tx, tx[t].stage = "endorsed", ~tx[t].blind, MVCCValid(t)
  PROVE  world[tx[t].key] = Replaced(t)
<1>1. tx[t].key \in Keys /\ world[tx[t].key].writer = tx[t].read
  BY DEF LedgerInv, TypeOK, TxState, MVCCValid
<1>2. CASE tx[t].read = Nil
  <2>1. world[tx[t].key] = Absent
    BY <1>1, <1>2, LedgerAssumption DEF LedgerInv, WritersCommitted, Committed
  <2>2. QED
    BY <1>2, <2>1 DEF Replaced
<1>3. CASE tx[t].read # Nil
  <2>1. world[tx[t].key] # Absent
    BY <1>1, <1>3 DEF Absent
  <2>2. QED
    BY <1>1, <1>3, <2>1 DEF LedgerInv, WritersCommitted, Replaced
<1>4. QED
  BY <1>2, <1>3

\* The empty ledger satisfies the invariant.
LEMMA LedgerInvInit == Init => LedgerInv
<1> SUFFICES ASSUME Init PROVE LedgerInv
  OBVIOUS
<1>1. Absent \in Asset
  BY DEF Absent, Asset
<1>2. Params \in Keys
  BY DEF Keys
<1>3. TypeOK
  BY <1>1, <1>2 DEF Init, TypeOK, TxState, Unused, Stages
<1>4. QED
  BY <1>3 DEF Init, LedgerInv, WritersCommitted, ReadsCommitted, WritesFollowReads,
              ReadsSuperseded, NoLostUpdate, Committed, Sent, Unused

\* Endorsing a call keeps the invariant, provided that it writes what the
\* contract's functions write: a delete nothing, a put the successor of the
\* record it has read.
LEMMA EndorsementKeepsInv ==
  ASSUME LedgerInv, NEW t \in Tx, NEW k \in Keys, NEW blind \in BOOLEAN,
         NEW asset \in Asset, Simulated(t, k, blind, asset),
         IF blind
         THEN asset = Absent /\ k # Params
         ELSE /\ asset.writer = t /\ asset.body \in Bodies
              /\ asset.version = world[k].version + 1
              /\ asset.createdAt = NoTime => world[k].createdAt = NoTime
              /\ k = Params => asset.createdAt = NoTime
  PROVE  LedgerInv'
<1>1. /\ tx[t].stage = "idle"
      /\ world' = world
      /\ tx' \in [Tx -> TxState]
      /\ tx'[t] = [stage |-> "endorsed", key |-> k, blind |-> blind,
                   read |-> IF blind THEN Nil ELSE world[k].writer,
                   write |-> asset, answer |-> "none"]
      /\ \A u \in Tx \ {t} : tx'[u] = tx[u]
  BY EndorsedRecord DEF LedgerInv
<1>2. TypeOK'
  BY <1>1 DEF LedgerInv, TypeOK
<1>3. Committed' = Committed /\ t \notin Committed
  BY <1>1 DEF Committed
<1>4. \A u \in Committed : u \in Tx /\ tx'[u] = tx[u]
  BY <1>1, <1>3 DEF Committed
<1>5. WritersCommitted'
  BY <1>1, <1>3, <1>4 DEF LedgerInv, WritersCommitted
<1>6. world[k].writer # Nil =>
        /\ world[k].writer \in Committed
        /\ tx[world[k].writer].key = k
        /\ world[k] = tx[world[k].writer].write
  BY DEF LedgerInv, WritersCommitted, Absent
<1>7. ReadsCommitted'
  <2> SUFFICES ASSUME NEW u \in Tx, Sent(u)', tx'[u].read # Nil
               PROVE  /\ tx'[u].read \in Committed
                      /\ tx'[tx'[u].read].key = tx'[u].key
    BY <1>3 DEF ReadsCommitted
  <2>1. CASE u = t
    BY <1>1, <1>4, <1>6, <2>1
  <2>2. CASE u # t
    BY <1>1, <1>4, <2>2 DEF LedgerInv, ReadsCommitted, Sent
  <2>3. QED
    BY <2>1, <2>2
<1>8. WritesFollowReads'
  <2> SUFFICES ASSUME NEW u \in Tx, Sent(u)'
               PROVE  (IF tx[u].blind
                       THEN tx[u].write = Absent /\ tx[u].read = Nil /\ tx[u].key # Params
                       ELSE /\ tx[u].write.writer = u
                            /\ tx[u].write.body \in Bodies
                            /\ tx[u].write.version = Replaced(u).version + 1
                            /\ tx[u].write.createdAt = NoTime
                                 => Replaced(u).createdAt = NoTime
                            /\ tx[u].key = Params
                                 => tx[u].write.createdAt = NoTime)'
    BY DEF WritesFollowReads
  <2>1. CASE u = t
    <3>1. CASE blind
      BY <1>1, <2>1, <3>1
    <3>2. CASE ~blind
      <4>1. Replaced(t)' = world[k]
        <5>1. CASE world[k].writer = Nil
          <6>1. world[k] = Absent
            BY <5>1, LedgerAssumption DEF LedgerInv, WritersCommitted, Committed
          <6>2. QED
            BY <1>1, <3>2, <5>1, <6>1 DEF Replaced
        <5>2. CASE world[k].writer # Nil
          BY <1>1, <1>4, <1>6, <3>2, <5>2 DEF Replaced
        <5>3. QED
          BY <5>1, <5>2
      <4>2. QED
        BY <1>1, <2>1, <3>2, <4>1
    <3>3. QED
      BY <3>1, <3>2
  <2>2. CASE u # t
    <3>1. tx'[u] = tx[u] /\ Sent(u)
      BY <1>1, <2>2 DEF Sent
    <3>2. Replaced(u)' = Replaced(u)
      BY <1>4, <3>1 DEF LedgerInv, ReadsCommitted, Replaced
    <3>3. QED
      BY <3>1, <3>2 DEF LedgerInv, WritesFollowReads
  <2>3. QED
    BY <2>1, <2>2
<1>9. ReadsSuperseded' /\ NoLostUpdate'
  BY <1>1, <1>3, <1>4 DEF LedgerInv, ReadsSuperseded, NoLostUpdate
<1>10. QED
  BY <1>2, <1>5, <1>7, <1>8, <1>9 DEF LedgerInv

(***************************************************************************)
(* The three calls of the contract.                                        *)
(***************************************************************************)
\* Endorsing a PutCiphertext keeps the invariant.
LEMMA PutCiphertextKeepsInv ==
  ASSUME LedgerInv, NEW t \in Tx, NEW id \in Ids, NEW body \in Bodies,
         NEW at \in Times \cup {NoTime}, PutCiphertext(t, id, body, at)
  PROVE  LedgerInv'
<1> DEFINE asset == [version |-> world[id].version + 1, body |-> body,
                     createdAt |-> IF at = NoTime THEN world[id].createdAt ELSE at,
                     writer |-> t]
<1>1. id \in Keys /\ id # Params
  BY LedgerAssumption DEF Keys
<1>2. world[id].version \in Nat /\ world[id].createdAt \in Times \cup {NoTime}
  BY <1>1 DEF LedgerInv, TypeOK, Asset
<1>3. asset \in Asset
  BY <1>2 DEF Asset
<1>4. /\ asset.writer = t /\ asset.body \in Bodies
      /\ asset.version = world[id].version + 1
      /\ asset.createdAt = NoTime => world[id].createdAt = NoTime
  OBVIOUS
<1>5. Simulated(t, id, FALSE, asset)
  BY DEF PutCiphertext
<1> HIDE DEF asset
<1>6. QED
  BY <1>1, <1>3, <1>4, <1>5, EndorsementKeepsInv

\* The global parameters never have a creation time.
LEMMA ParamsHaveNoTime ==
  ASSUME LedgerInv
  PROVE  world[Params].createdAt = NoTime
<1>1. Params \in Keys
  BY DEF Keys
<1>2. CASE world[Params] = Absent
  BY <1>2 DEF Absent
<1>3. CASE world[Params] # Absent
  <2> DEFINE w == world[Params].writer
  <2>1. w \in Tx /\ Sent(w) /\ tx[w].key = Params /\ world[Params] = tx[w].write
    BY <1>1, <1>3 DEF LedgerInv, WritersCommitted, Committed, Sent
  <2>2. QED
    BY <2>1 DEF LedgerInv, WritesFollowReads
<1>4. QED
  BY <1>2, <1>3

\* Endorsing a PutGlobalParams keeps the invariant.
LEMMA PutGlobalParamsKeepsInv ==
  ASSUME LedgerInv, NEW t \in Tx, NEW caller \in Callers, NEW body \in Bodies,
         PutGlobalParams(t, caller, body)
  PROVE  LedgerInv'
<1> DEFINE asset == [version |-> world[Params].version + 1, body |-> body,
                     createdAt |-> NoTime, writer |-> t]
<1>1. Params \in Keys
  BY DEF Keys
<1>2. asset \in Asset
  BY <1>1 DEF LedgerInv, TypeOK, Asset
<1>3. /\ asset.writer = t /\ asset.body \in Bodies
      /\ asset.version = world[Params].version + 1
      /\ asset.createdAt = NoTime
  OBVIOUS
<1>4. Simulated(t, Params, FALSE, asset)
  BY DEF PutGlobalParams
<1> HIDE DEF asset
<1>5. QED
  BY <1>1, <1>2, <1>3, <1>4, ParamsHaveNoTime, EndorsementKeepsInv

\* Endorsing a DeleteCiphertext keeps the invariant.
LEMMA DeleteCiphertextKeepsInv ==
  ASSUME LedgerInv, NEW t \in Tx, NEW id \in Ids, DeleteCiphertext(t, id)
  PROVE  LedgerInv'
<1>1. id \in Keys /\ id # Params
  BY LedgerAssumption DEF Keys
<1>2. Absent \in Asset
  BY DEF Absent, Asset
<1>3. Simulated(t, id, TRUE, Absent)
  BY DEF DeleteCiphertext
<1>4. QED
  BY <1>1, <1>2, <1>3, EndorsementKeepsInv

(***************************************************************************)
(* The network.  A step that commits nothing leaves the world state and    *)
(* the set of committed transactions alone.                                *)
(***************************************************************************)
\* No step of the network changes what a sent transaction is built on.
LEMMA ReplacedStays ==
  ASSUME LedgerInv, NEW t \in Tx, Refuse(t) \/ Network(t), NEW u \in Tx, Sent(u)
  PROVE  Replaced(u)' = Replaced(u)
<1>1. \A v \in Tx : SameCall(v)
  BY NetworkStep DEF LedgerInv
<1>2. tx[u].read # Nil => tx[u].read \in Tx
  BY DEF LedgerInv, ReadsCommitted, Committed
<1>3. QED
  BY <1>1, <1>2 DEF Replaced, SameCall

\* The parts of the invariant about calls survive every step of the network.
LEMMA NetworkKeepsCalls ==
  ASSUME LedgerInv, NEW t \in Tx, Refuse(t) \/ Network(t)
  PROVE  ReadsCommitted' /\ WritesFollowReads'
<1>1. /\ \A u \in Tx : SameCall(u)
      /\ \A u \in Tx : Sent(u)' <=> Sent(u)
      /\ \A u \in Tx : tx[u].stage = "committed" => tx'[u].stage = "committed"
  BY NetworkStep DEF LedgerInv
<1>2. ReadsCommitted'
  BY <1>1 DEF LedgerInv, ReadsCommitted, Committed, SameCall
<1>3. \A u \in Tx : Sent(u) => Replaced(u)' = Replaced(u)
  BY ReplacedStays
<1>4. WritesFollowReads'
  BY <1>1, <1>3 DEF LedgerInv, WritesFollowReads, SameCall
<1>5. QED
  BY <1>2, <1>4

\* Committing keeps the invariant: MVCC validation is what makes the new
\* write the only successor of the record it was built on.
LEMMA CommitKeepsInv ==
  ASSUME LedgerInv, NEW t \in Tx, Commit(t)
  PROVE  LedgerInv'
<1> DEFINE k == tx[t].key
<1>1. /\ tx' \in [Tx -> TxState]
      /\ \A u \in Tx : SameCall(u)
  BY NetworkStep DEF LedgerInv, Network
<1>2. /\ k \in Keys /\ tx[t].write \in Asset
      /\ tx[t].stage = "endorsed" /\ t \notin Committed /\ Sent(t)
  BY DEF LedgerInv, TypeOK, TxState, Commit, Committed, Sent
<1>3. /\ world'[k] = tx[t].write
      /\ \A j \in Keys \ {k} : world'[j] = world[j]
      /\ world' \in [Keys -> Asset]
  BY <1>2 DEF LedgerInv, TypeOK, Commit
<1>4. Committed' = Committed \cup {t}
  BY DEF LedgerInv, TypeOK, TxState, Commit, Committed
<1>5. TypeOK'
  BY <1>1, <1>3 DEF TypeOK
<1>6. tx[t].write # Absent => tx[t].write.writer = t
  BY <1>2 DEF LedgerInv, WritesFollowReads
<1>7. WritersCommitted'
  <2> SUFFICES ASSUME NEW j \in Keys, world'[j] # Absent
               PROVE  /\ world'[j].writer \in Committed'
                      /\ world'[j] = tx'[world'[j].writer].write
                      /\ tx'[world'[j].writer].key = j
    BY DEF WritersCommitted
  <2>1. CASE j = k
    BY <1>1, <1>3, <1>4, <1>6, <2>1 DEF SameCall
  <2>2. CASE j # k
    <3>1. /\ world'[j] = world[j]
          /\ world[j].writer \in Committed
          /\ world[j] = tx[world[j].writer].write
          /\ tx[world[j].writer].key = j
      BY <1>3, <2>2 DEF LedgerInv, WritersCommitted
    <3>2. QED
      BY <1>1, <1>4, <3>1 DEF SameCall, Committed
  <2>3. QED
    BY <2>1, <2>2
<1>8. ReadsCommitted' /\ WritesFollowReads'
  BY NetworkKeepsCalls DEF Network
\* The new write replaces what its transaction read, and it is not itself
\* read by any transaction that has committed.
<1>9. ReadsSuperseded'
  <2> SUFFICES ASSUME NEW u \in Committed \cup {t}, tx[u].read # Nil, NEW j \in Keys
               PROVE  world'[j].writer # tx[u].read
    BY <1>1, <1>4 DEF ReadsSuperseded, SameCall, Committed
  <2>1. tx[u].read \in Committed /\ tx[tx[u].read].key = tx[u].key
    BY <1>2 DEF LedgerInv, ReadsCommitted, Committed, Sent
  <2>2. CASE j = k
    <3>1. world'[j].writer \in {t, Nil}
      BY <1>3, <1>6, <2>2 DEF Absent
    <3>2. QED
      BY <1>2, <2>1, <3>1
  <2>3. CASE j # k /\ u = t
    <3>1. world'[j] = world[j]
      BY <1>3, <2>3
    <3>2. world[j].writer # Nil => tx[world[j].writer].key = j
      BY DEF LedgerInv, WritersCommitted, Absent
    <3>3. QED
      BY <2>1, <2>3, <3>1, <3>2
  <2>4. CASE j # k /\ u # t
    BY <1>3, <2>4 DEF LedgerInv, ReadsSuperseded
  <2>5. QED
    BY <2>2, <2>3, <2>4
<1>10. NoLostUpdate'
  <2>1. \A u \in Committed :
          ~tx[t].blind /\ tx[u].read = tx[t].read /\ tx[u].key = k => tx[t].read = Nil
    BY <1>2 DEF LedgerInv, ReadsSuperseded, Commit, MVCCValid
  <2>2. QED
    BY <1>1, <1>4, <2>1 DEF LedgerInv, NoLostUpdate, SameCall, Committed
<1>11. QED
  BY <1>5, <1>7, <1>8, <1>9, <1>10 DEF LedgerInv


\* The steps that commit nothing keep the invariant.
LEMMA OtherNetworkStepsKeepInv ==
  ASSUME LedgerInv, NEW t \in Tx,
         Refuse(t) \/ Invalidate(t) \/ Drop(t) \/ Answer(t) \/ GiveUp(t)
  PROVE  LedgerInv'
<1>1. /\ Refuse(t) \/ Network(t)
      /\ world' = world
  BY DEF Network, Refuse, Invalidate, Drop, Answer, GiveUp
<1>2. /\ tx' \in [Tx -> TxState]
      /\ \A u \in Tx : SameCall(u)
  BY <1>1, NetworkStep DEF LedgerInv
<1>3. Committed' = Committed
  BY DEF LedgerInv, TypeOK, TxState, Committed, Refuse, Invalidate, Drop, Answer, GiveUp
<1>4. TypeOK'
  BY <1>1, <1>2 DEF LedgerInv, TypeOK
<1>5. WritersCommitted'
  BY <1>1, <1>2, <1>3 DEF LedgerInv, WritersCommitted, SameCall, Committed
<1>6. ReadsCommitted' /\ WritesFollowReads'
  BY <1>1, NetworkKeepsCalls
<1>7. ReadsSuperseded'
  BY <1>1, <1>2, <1>3 DEF LedgerInv, ReadsSuperseded, SameCall, Committed
<1>8. NoLostUpdate'
  BY <1>2, <1>3 DEF LedgerInv, NoLostUpdate, SameCall, Committed
<1>9. QED
  BY <1>4, <1>5, <1>6, <1>7, <1>8 DEF LedgerInv

\* Every step of the ledger keeps the invariant.
LEMMA LedgerInvStep == LedgerInv /\ [Next]_ledgerVars => LedgerInv'
<1> SUFFICES ASSUME LedgerInv, [Next]_ledgerVars PROVE LedgerInv'
  OBVIOUS
<1>1. CASE UNCHANGED ledgerVars
  BY <1>1 DEF ledgerVars, LedgerInv, TypeOK, WritersCommitted, ReadsCommitted,
              WritesFollowReads, ReadsSuperseded, NoLostUpdate, Committed, Sent, Replaced
<1>2. ASSUME NEW t \in Tx, NEW caller \in Callers, NEW body \in Bodies,
             PutGlobalParams(t, caller, body)
      PROVE  LedgerInv'
  BY <1>2, PutGlobalParamsKeepsInv
<1>3. ASSUME NEW t \in Tx, NEW id \in Ids, NEW body \in Bodies,
             NEW at \in Times \cup {NoTime}, PutCiphertext(t, id, body, at)
      PROVE  LedgerInv'
  BY <1>3, PutCiphertextKeepsInv
<1>4. ASSUME NEW t \in Tx, NEW id \in Ids, DeleteCiphertext(t, id)
      PROVE  LedgerInv'
  BY <1>4, DeleteCiphertextKeepsInv
<1>5. ASSUME NEW t \in Tx, Refuse(t) \/ Network(t)
      PROVE  LedgerInv'
  BY <1>5, CommitKeepsInv, OtherNetworkStepsKeepInv DEF Network
<1>6. QED
  BY <1>1, <1>2, <1>3, <1>4, <1>5 DEF Next

(***************************************************************************)
(* Theorems.                                                               *)
(***************************************************************************)

\* The inductive invariant of the ledger holds in every behaviour.
THEOREM LedgerInvHolds == Spec => []LedgerInv
<1>1. QED
  BY LedgerInvInit, LedgerInvStep, PTL DEF Spec

\* Every variable of the ledger keeps its type.
THEOREM TypeCorrect == Spec => []TypeOK
<1>1. LedgerInv => TypeOK
  BY DEF LedgerInv
<1>2. QED
  BY <1>1, LedgerInvHolds, PTL

\* The world state shows only what committed transactions wrote.
THEOREM OnlyCommittedWritesShow == Spec => []WritersCommitted
<1>1. LedgerInv => WritersCommitted
  BY DEF LedgerInv
<1>2. QED
  BY <1>1, LedgerInvHolds, PTL

(***************************************************************************)
(* The ledger implements the versioned store: a commit is a Put or a       *)
(* Delete, and no other step shows.                                        *)
(***************************************************************************)
View(k) == [version |-> world[k].version, body |-> world[k].body,
            createdAt |-> world[k].createdAt]

\* Committing is a Put or a Delete of the versioned store.
LEMMA CommitIsStoreStep ==
  ASSUME LedgerInv, NEW t \in Tx, Commit(t)
  PROVE  Store!Next
<1>1. /\ tx[t].key \in Keys /\ tx[t].write \in Asset
      /\ Sent(t) /\ tx[t].stage = "endorsed"
      /\ world \in [Keys -> Asset]
      /\ world' = [world EXCEPT ![tx[t].key] = tx[t].write]
  BY DEF LedgerInv, TypeOK, TxState, Commit, Sent
<1>2. PICK k \in Keys, w \in Asset : k = tx[t].key /\ w = tx[t].write
  BY <1>1
<1>3. /\ View(k)' = [version |-> w.version, body |-> w.body, createdAt |-> w.createdAt]
      /\ \A j \in Keys \ {k} : View(j)' = View(j)
  BY <1>1, <1>2 DEF View
<1>4. CASE tx[t].blind
  <2>1. w = Absent
    BY <1>1, <1>2, <1>4 DEF LedgerInv, WritesFollowReads
  <2>2. View(k)' = Store!NoRecord
    BY <1>3, <2>1 DEF Absent, Store!NoRecord
  <2>3. Store!Delete(k)
    BY <1>3, <2>2 DEF Store!Delete, View
  <2>4. QED
    BY <2>3 DEF Store!Next
<1>5. CASE ~tx[t].blind
  <2>1. world[k] = Replaced(t)
    BY <1>1, <1>2, <1>5, ValidPutReplacesWhatItRead DEF Commit
  <2>2. /\ w.body \in Bodies
        /\ w.version = world[k].version + 1
        /\ w.createdAt = NoTime => world[k].createdAt = NoTime
        /\ w.createdAt \in Times \cup {NoTime}
    BY <1>1, <1>2, <1>5, <2>1 DEF LedgerInv, WritesFollowReads, Asset
  <2>3. PICK body \in Bodies, at \in Times \cup {NoTime} :
          body = w.body /\ at = w.createdAt
    BY <2>2
  <2>4. View(k)' = [version |-> View(k).version + 1, body |-> body,
                    createdAt |-> IF at = NoTime THEN View(k).createdAt ELSE at]
    BY <1>3, <2>2, <2>3 DEF View
  <2>5. Store!Put(k, body, at)
    BY <1>3, <2>4 DEF Store!Put, View
  <2>6. QED
    BY <2>5 DEF Store!Next
<1>6. QED
  BY <1>4, <1>5

\* Endorsed at one time and committed at another, the contract's calls act as
\* single steps of a versioned store.
THEOREM ImplementsVersionedStore == Spec => ActsAsVersionedStore
<1>1. Init => Store!Init
  BY DEF Init, Store!Init, Store!NoRecord, Absent
<1>2. LedgerInv /\ [Next]_ledgerVars =>
        [Store!Next]_[k \in Keys |-> [version |-> world[k].version,
                                      body |-> world[k].body,
                                      createdAt |-> world[k].createdAt]]
  <2> SUFFICES ASSUME LedgerInv, [Next]_ledgerVars
               PROVE  Store!Next \/ world' = world
    OBVIOUS
  <2>1. CASE \E t \in Tx : Commit(t)
    BY <2>1, CommitIsStoreStep
  <2>2. CASE ~\E t \in Tx : Commit(t)
    BY <2>2 DEF Next, Network, ledgerVars, Simulated, PutGlobalParams, PutCiphertext,
                DeleteCiphertext, Refuse, Invalidate, Drop, Answer, GiveUp
  <2>3. QED
    BY <2>1, <2>2
<1>3. QED
  BY <1>1, <1>2, LedgerInvHolds, PTL DEF Spec, ActsAsVersionedStore, Store!Spec

(***************************************************************************)
(* Counting the writes of the global parameters.                           *)
(***************************************************************************)
ParamsWrites == {t \in Committed : tx[t].key = Params}

CountInv == IsFiniteSet(ParamsWrites) /\ ParamsVersionCounts

\* A commit counts one more write exactly when it raises the version.
LEMMA CountInvCommit ==
  ASSUME LedgerInv, CountInv, NEW t \in Tx, Commit(t)
  PROVE  CountInv'
<1>1. /\ \A u \in Tx : SameCall(u)
      /\ Committed' = Committed \cup {t} /\ t \notin Committed
      /\ Committed \subseteq Tx
  BY NetworkStep, ZenonT(60) DEF LedgerInv, Network, TypeOK, TxState, Commit, Committed
<1>2. /\ tx[t].stage = "endorsed" /\ Sent(t) /\ tx[t].key \in Keys /\ Params \in Keys
      /\ world' = [world EXCEPT ![tx[t].key] = tx[t].write] /\ world \in [Keys -> Asset]
  BY DEF LedgerInv, TypeOK, TxState, Commit, Sent, Keys
<1>3. CASE tx[t].key = Params
  <2>1. ParamsWrites' = ParamsWrites \cup {t} /\ t \notin ParamsWrites
    BY <1>1, <1>3 DEF ParamsWrites, SameCall
  <2>2. IsFiniteSet(ParamsWrites') /\ Cardinality(ParamsWrites') = Cardinality(ParamsWrites) + 1
    BY <2>1, FS_AddElement DEF CountInv
  <2>3. ~tx[t].blind
    BY <1>2, <1>3 DEF LedgerInv, WritesFollowReads
  <2>4. tx[t].write.version = world[Params].version + 1
    BY <1>2, <1>3, <2>3, ValidPutReplacesWhatItRead DEF LedgerInv, WritesFollowReads, Commit
  <2>5. world'[Params].version = world[Params].version + 1
    BY <1>2, <1>3, <2>4
  <2>6. QED
    BY <2>2, <2>5 DEF CountInv, ParamsVersionCounts, ParamsWrites
<1>4. CASE tx[t].key # Params
  <2>1. ParamsWrites' = ParamsWrites
    BY <1>1, <1>4 DEF ParamsWrites, SameCall
  <2>2. world'[Params] = world[Params]
    BY <1>2, <1>4
  <2>3. QED
    BY <2>1, <2>2 DEF CountInv, ParamsVersionCounts, ParamsWrites
<1>5. QED
  BY <1>3, <1>4

\* A step that commits nothing changes neither the world state nor which
\* transactions have committed.
LEMMA QuietStep ==
  ASSUME LedgerInv, [Next]_ledgerVars, ~\E t \in Tx : Commit(t), NEW u \in Tx
  PROVE  /\ world' = world
         /\ tx'[u].stage = "committed" <=> tx[u].stage = "committed"
         /\ tx[u].stage = "committed" => tx'[u].key = tx[u].key
<1> USE DEF LedgerInv, TypeOK, TxState
<1>1. CASE UNCHANGED ledgerVars
  BY <1>1 DEF ledgerVars
<1>2. ASSUME NEW t \in Tx, NEW k, NEW blind, NEW asset, Simulated(t, k, blind, asset)
      PROVE  /\ world' = world
             /\ tx'[u].stage = "committed" <=> tx[u].stage = "committed"
             /\ tx[u].stage = "committed" => tx'[u].key = tx[u].key
  BY <1>2 DEF Simulated
<1>3. ASSUME NEW t \in Tx, Refuse(t) \/ Invalidate(t) \/ Drop(t) \/ Answer(t) \/ GiveUp(t)
      PROVE  /\ world' = world
             /\ tx'[u].stage = "committed" <=> tx[u].stage = "committed"
             /\ tx[u].stage = "committed" => tx'[u].key = tx[u].key
  BY <1>3 DEF Refuse, Invalidate, Drop, Answer, GiveUp
<1>4. QED
  BY <1>1, <1>2, <1>3 DEF Next, Network, PutGlobalParams, PutCiphertext, DeleteCiphertext

\* Such a step leaves the count as it is.
LEMMA CountInvOther ==
  ASSUME LedgerInv, CountInv, [Next]_ledgerVars, ~\E t \in Tx : Commit(t)
  PROVE  CountInv'
<1>1. world' = world
  BY DEF Next, Network, ledgerVars, Simulated, PutGlobalParams, PutCiphertext,
         DeleteCiphertext, Refuse, Invalidate, Drop, Answer, GiveUp
<1>2. ParamsWrites' = ParamsWrites
  BY QuietStep DEF ParamsWrites, Committed
<1>3. QED
  BY <1>1, <1>2 DEF CountInv, ParamsVersionCounts, ParamsWrites

\* The version of the global parameters is the number of committed writes.
THEOREM ParamsVersionsCountWrites == Spec => []ParamsVersionCounts
<1>1. Init => CountInv
  <2> SUFFICES ASSUME Init PROVE CountInv
    OBVIOUS
  <2>1. ParamsWrites = {} /\ Params \in Keys
    BY DEF Init, ParamsWrites, Committed, Unused, Keys
  <2>2. world[Params].version = 0
    BY <2>1 DEF Init, Absent
  <2>3. QED
    BY <2>1, <2>2, FS_EmptySet DEF CountInv, ParamsVersionCounts, ParamsWrites
<1>2. LedgerInv /\ CountInv /\ [Next]_ledgerVars => CountInv'
  BY CountInvCommit, CountInvOther
<1>3. CountInv => ParamsVersionCounts
  BY DEF CountInv
<1>4. QED
  BY <1>1, <1>2, <1>3, LedgerInvHolds, PTL DEF Spec
=============================================================================
