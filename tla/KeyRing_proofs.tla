--------------------------- MODULE KeyRing_proofs ----------------------------
(***************************************************************************)
(* Proofs about KeyRing, for any number of requests, any attributes and    *)
(* policies and any number of failed queries.  KeyInv and RingInv are      *)
(* inductive invariants: what a request that has read a version and not    *)
(* yet stored its row knows of the table, which others write to meanwhile, *)
(* and what a request and a row look like.  ServeInv, which rests on both, *)
(* says how far a decryption that nothing disturbs has come: it needs what *)
(* a comparison of numbers asks for in binary, and which keys each label   *)
(* stands for.                                                             *)
(***************************************************************************)
EXTENDS KeyRing, FiniteInduction

\* Rows are numbered as they are created, after what their requests saw.
TableInv(t) ==
  /\ IsFiniteSet(t)
  /\ \A x \in t : /\ x.id \in 1..Cardinality(t) /\ x.version \in Nat
                  /\ x.seen \in Nat /\ x.seen < x.id

\* What the request q, about to create a row, knows of the table t.
Knows(q, t) ==
  /\ q.version \in Nat /\ q.seen \in Nat /\ q.seen <= Cardinality(t)
  /\ ~q.blind => \A x \in t : x.label = q.label /\ x.id <= q.seen => x.version < q.version
  /\ q.alone => q.seen = Cardinality(t)

\* And about to look up the version it reports.
Stored(q, t) ==
  /\ \E x \in t : x.label = q.label /\ x.version = q.own
  /\ q.alone /\ ~q.fault => \A x \in t : x.label = q.label => x.version <= q.own

Reported(q) == ~q.fault /\ q.own # 0 => q.own <= q.said /\ (q.alone => q.own = q.said)

RequestInv(q, t) ==
  /\ DOMAIN q = DOMAIN Idle
  /\ q.own \in Nat /\ q.said \in Nat /\ q.alone \in BOOLEAN /\ q.fault \in BOOLEAN
  /\ q.enough \in BOOLEAN /\ q.blind \in BOOLEAN /\ (q.blind => q.fault /\ q.pc = "create")
  /\ q.pc = "create" => Knows(q, t)
  /\ q.pc = "report" => Stored(q, t)
  /\ q.pc # "report" => Reported(q)
  /\ q.pc # "done" => q.result = "none"

\* A request that has met no other is the only one.
AloneInv == \A r, s \in Req : r # s /\ Active(r) /\ Active(s) => ~req[r].alone

KeyInv ==
  /\ DOMAIN req = Req
  /\ TableInv(rows)
  /\ \A r \in Req : RequestInv(req[r], rows)
  /\ AloneInv
  /\ VersionsFollowOrder

-----------------------------------------------------------------------------
(***************************************************************************)
(* Lemmas.  All steps but Create leave the table alone.                    *)
(***************************************************************************)
LEMMA KeyInvInit == Init => KeyInv
<1> SUFFICES ASSUME Init PROVE KeyInv
  OBVIOUS
<1>1. TableInv(rows)
  BY FS_EmptySet DEF Init, TableInv
<1>2. \A r \in Req : RequestInv(req[r], rows)
  BY DEF Init, RequestInv, Reported, Idle
<1>3. QED
  BY <1>1, <1>2 DEF Init, KeyInv, AloneInv, Active, VersionsFollowOrder, Idle

\* A step of an active request that keeps what the request knows.
LEMMA SetKeepsInv ==
  ASSUME KeyInv, NEW r \in Req, NEW q, Active(r), Set(r, q), rows' = rows,
         RequestInv(q, rows), (q.alone => req[r].alone) \/ q.pc = "done"
  PROVE  KeyInv'
<1>1. DOMAIN req' = Req /\ req'[r] = q /\ \A s \in Req \ {r} : req'[s] = req[s]
  BY DEF KeyInv, Set
<1>2. \A s \in Req : RequestInv(req'[s], rows')
  BY <1>1 DEF KeyInv
<1>3. AloneInv'
  BY <1>1, <1>2 DEF KeyInv, AloneInv, Active, RequestInv
<1>4. QED
  BY <1>1, <1>2, <1>3 DEF KeyInv, VersionsFollowOrder, TableInv

\* A new request, which tells the others that they are not alone.
LEMMA BeginKeepsInv ==
  ASSUME KeyInv, NEW r \in Req, NEW q, req[r].pc = "idle", Begin(r, q), rows' = rows,
         DOMAIN q = DOMAIN Idle, q.own = 0, q.said = 0, ~q.fault, ~q.blind,
         q.fault \in BOOLEAN, q.blind \in BOOLEAN, q.pc \notin {"create", "report"},
         q.result = "none", q.enough = FALSE
  PROVE  KeyInv'
<1> DEFINE free == \A o \in Req : ~Active(o)
<1>1. DOMAIN req' = Req /\ req'[r] = [q EXCEPT !.alone = free]
  BY DEF Begin
<1>2. \A s \in Req \ {r} :
        req'[s] = IF Active(s) THEN [req[s] EXCEPT !.alone = FALSE] ELSE req[s]
  BY DEF Begin
<1>3. RequestInv(req'[r], rows')
  <2>1. free \in BOOLEAN /\ DOMAIN req'[r] = DOMAIN Idle
    BY <1>1 DEF Active
  <2>2. /\ req'[r].own = 0 /\ req'[r].said = 0 /\ req'[r].fault = q.fault
        /\ req'[r].blind = q.blind /\ req'[r].enough = FALSE /\ req'[r].alone = free
        /\ req'[r].pc = q.pc /\ req'[r].result = "none"
    BY <1>1 DEF Idle
  <2> HIDE DEF free
  <2>3. /\ req'[r].fault \in BOOLEAN /\ req'[r].blind \in BOOLEAN /\ ~req'[r].blind
        /\ req'[r].alone \in BOOLEAN /\ req'[r].enough \in BOOLEAN
        /\ req'[r].pc \notin {"create", "report"} /\ Reported(req'[r])
    BY <2>1, <2>2 DEF Reported
  <2>4. req'[r].own \in Nat /\ req'[r].said \in Nat
    BY <2>2
  <2>5. QED
    BY <2>1, <2>2, <2>3, <2>4, Zenon DEF RequestInv
<1>4. \A s \in Req \ {r} : RequestInv(req'[s], rows')
  <2> SUFFICES ASSUME NEW s \in Req \ {r} PROVE RequestInv(req'[s], rows)
    OBVIOUS
  <2>1. RequestInv(req[s], rows)
    BY DEF KeyInv
  <2>2. CASE ~Active(s)
    BY <1>2, <2>1, <2>2
  <2>3. CASE Active(s)
    <3>1. req'[s] = [req[s] EXCEPT !.alone = FALSE]
      BY <1>2, <2>3
    <3>2. RequestInv([req[s] EXCEPT !.alone = FALSE], rows)
      BY <2>1 DEF RequestInv, Reported, Knows, Stored, Idle
    <3>3. QED
      BY <3>1, <3>2
  <2>4. QED
    BY <2>2, <2>3
<1>5. AloneInv'
  <2> SUFFICES ASSUME NEW s \in Req, NEW u \in Req, s # u, Active(s)', Active(u)'
               PROVE  ~req'[s].alone
    BY DEF AloneInv
  <2>1. \A v \in Req \ {r} : Active(v)' => Active(v) /\ ~req'[v].alone
    BY <1>2, ZenonT(60) DEF Active, KeyInv, RequestInv, Idle
  <2>2. CASE s = r
    BY <1>1, <2>1, <2>2 DEF Idle
  <2>3. CASE s # r
    BY <2>1, <2>3
  <2>4. QED
    BY <2>2, <2>3
<1>6. QED
  BY <1>1, <1>3, <1>4, <1>5 DEF KeyInv, VersionsFollowOrder, TableInv

\* A finished request has what it had reported.
LEMMA FinishKeeps ==
  ASSUME NEW q, NEW t, RequestInv(q, t), Reported(q), NEW result
  PROVE  /\ RequestInv(Finish(q, result), t) /\ Finish(q, result).pc = "done"
         /\ RequestInv([Finish(q, result) EXCEPT !.fault = TRUE], t)
         /\ [Finish(q, result) EXCEPT !.fault = TRUE].pc = "done"
         /\ \A b \in BOOLEAN : /\ RequestInv([Finish(q, result) EXCEPT !.enough = b], t)
                              /\ [Finish(q, result) EXCEPT !.enough = b].pc = "done"
<1> DEFINE f == Finish(q, result)
<1>1. /\ DOMAIN f = DOMAIN Idle /\ f.pc = "done" /\ f.blind = FALSE /\ f.enough = FALSE
      /\ f.alone = q.alone /\ f.fault = q.fault /\ f.own = q.own /\ f.said = q.said
  BY DEF Finish, Idle
<1> HIDE DEF f
<1>2. ASSUME NEW g, DOMAIN g = DOMAIN Idle, g.pc = "done", g.blind = FALSE,
             g.enough \in BOOLEAN, g.alone = q.alone, g.fault = q.fault \/ g.fault = TRUE,
             g.own = q.own, g.said = q.said
      PROVE  RequestInv(g, t)
  BY <1>2 DEF RequestInv, Reported
<1>3. RequestInv(f, t)
  BY <1>1, <1>2
<1>4. RequestInv([f EXCEPT !.fault = TRUE], t) /\ [f EXCEPT !.fault = TRUE].pc = "done"
  <2> DEFINE g == [f EXCEPT !.fault = TRUE]
  <2>1. /\ DOMAIN g = DOMAIN Idle /\ g.pc = "done" /\ g.blind = FALSE /\ g.enough = FALSE
        /\ g.alone = q.alone /\ g.fault = TRUE /\ g.own = q.own /\ g.said = q.said
    BY <1>1 DEF Idle
  <2> HIDE DEF g
  <2>2. RequestInv(g, t) /\ g.pc = "done"
    BY <1>2, <2>1
  <2>3. QED
    BY <2>2 DEF g
<1>5. ASSUME NEW b \in BOOLEAN
      PROVE  RequestInv([f EXCEPT !.enough = b], t) /\ [f EXCEPT !.enough = b].pc = "done"
  <2> DEFINE g == [f EXCEPT !.enough = b]
  <2>1. /\ DOMAIN g = DOMAIN Idle /\ g.pc = "done" /\ g.blind = FALSE /\ g.enough = b
        /\ g.alone = q.alone /\ g.fault = q.fault /\ g.own = q.own /\ g.said = q.said
    BY <1>1 DEF Idle
  <2> HIDE DEF g
  <2>2. RequestInv(g, t) /\ g.pc = "done"
    BY <1>2, <2>1
  <2>3. QED
    BY <2>2 DEF g
<1>6. QED
  BY <1>1, <1>3, <1>4, <1>5 DEF f

-----------------------------------------------------------------------------
(***************************************************************************)
(* One lemma for each kind of step.                                        *)
(***************************************************************************)
LEMMA BeginStep ==
  ASSUME KeyInv, NEW r \in Req,
         \/ \E x \in Asked : RequestKey(r, x)
         \/ \E hour \in AutoAsked, loc \in Locations : RequestAutoKeys(r, hour, loc)
         \/ \E p \in Policies : EnsureKeysForPolicy(r, p)
  PROVE  KeyInv'
<1>1. \A specs : LET q == IssueNext(Idle, specs) IN
        /\ DOMAIN q = DOMAIN Idle /\ q.own = 0 /\ q.said = 0
        /\ q.fault = FALSE /\ q.blind = FALSE /\ q.enough = FALSE
        /\ q.pc = "read" /\ q.result = "none"
  BY DEF IssueNext, Idle
<1>2. CASE \E x \in Asked : RequestKey(r, x)
  <2>1. PICK x \in Asked : RequestKey(r, x)
    BY <1>2
  <2> DEFINE q == IssueNext(Idle, <<parseAttrSpec(x)>>)
  <2>2. req[r].pc = "idle" /\ Begin(r, q) /\ rows' = rows
    BY <2>1 DEF RequestKey
  <2> HIDE DEF q
  <2>3. DOMAIN q = DOMAIN Idle /\ q.own = 0 /\ q.said = 0
          /\ q.fault = FALSE /\ q.blind = FALSE /\ q.enough = FALSE
        /\ q.pc = "read" /\ q.result = "none"
    BY <1>1 DEF q
  <2>4. QED
    BY <2>2, <2>3, BeginKeepsInv
<1>3. CASE \E hour \in AutoAsked, loc \in Locations : RequestAutoKeys(r, hour, loc)
  <2>1. PICK hour \in AutoAsked, loc \in Locations : RequestAutoKeys(r, hour, loc)
    BY <1>3
  <2>2. PICK specs : req[r].pc = "idle" /\ Begin(r, IssueNext(Idle, specs)) /\ rows' = rows
    BY <2>1 DEF RequestAutoKeys
  <2> DEFINE q == IssueNext(Idle, specs)
  <2>3. DOMAIN q = DOMAIN Idle /\ q.own = 0 /\ q.said = 0
          /\ q.fault = FALSE /\ q.blind = FALSE /\ q.enough = FALSE
        /\ q.pc = "read" /\ q.result = "none"
    BY <1>1
  <2>4. req[r].pc = "idle" /\ Begin(r, q) /\ rows' = rows
    BY <2>2
  <2> HIDE DEF q
  <2>5. QED
    BY <2>3, <2>4, BeginKeepsInv
<1>4. CASE \E p \in Policies : EnsureKeysForPolicy(r, p)
  <2>1. PICK p \in Policies : EnsureKeysForPolicy(r, p)
    BY <1>4
  <2> DEFINE q == [Idle EXCEPT !.pc = "merge", !.policy = p, !.todo = p]
  <2>2. req[r].pc = "idle" /\ Begin(r, q) /\ rows' = rows
    BY <2>1 DEF EnsureKeysForPolicy
  <2>3. DOMAIN q = DOMAIN Idle /\ q.own = 0 /\ q.said = 0
          /\ q.fault = FALSE /\ q.blind = FALSE /\ q.enough = FALSE
          /\ q.pc = "merge" /\ q.result = "none"
    BY DEF Idle
  <2> HIDE DEF q
  <2>4. QED
    BY <2>2, <2>3, BeginKeepsInv
<1>5. QED
  BY <1>2, <1>3, <1>4

\* What a request knows does not change while it looks for its next key.
SameKnowledge(q, p) ==
  /\ DOMAIN q = DOMAIN Idle /\ q.pc \in {"loop", "read", "final"}
  /\ q.own = p.own /\ q.said = p.said /\ q.alone = p.alone /\ q.blind = p.blind
  /\ q.result = p.result /\ q.enough = p.enough /\ q.fault \in BOOLEAN /\ (p.fault => q.fault)

LEMMA SearchKeepsInv ==
  ASSUME KeyInv, NEW r \in Req, NEW q, Set(r, q), rows' = rows,
         req[r].pc \in {"merge", "loop"}, SameKnowledge(q, req[r])
  PROVE  KeyInv'
<1>1. RequestInv(req[r], rows)
  BY DEF KeyInv
<1>2. RequestInv(q, rows)
  BY <1>1 DEF RequestInv, SameKnowledge, Reported
<1>3. Active(r) /\ q.alone = req[r].alone
  BY DEF Active, SameKnowledge
<1>4. QED
  BY <1>2, <1>3, SetKeepsInv

LEMMA MergeStep ==
  ASSUME KeyInv, NEW r \in Req, Merge(r)
  PROVE  KeyInv'
<1>1. RequestInv(req[r], rows) /\ req[r].pc = "merge" /\ rows' = rows
  BY DEF KeyInv, Merge
<1>2. PICK missing, pc, fault :
        /\ pc \in {"loop", "final"} /\ fault \in BOOLEAN /\ (req[r].fault => fault)
        /\ Set(r, [req[r] EXCEPT !.missing = missing, !.pc = pc, !.fault = fault])
  <2>1. CASE \E keys \in Merges(req[r].policy) :
               LET missing == Missing(req[r].policy, keys) IN
                 Set(r, [req[r] EXCEPT !.missing = missing,
                                       !.pc = IF missing = {} THEN "final" ELSE "loop"])
    <3>1. PICK missing :
            Set(r, [req[r] EXCEPT !.missing = missing,
                                  !.pc = IF missing = {} THEN "final" ELSE "loop"])
      BY <2>1
    <3> DEFINE pc == IF missing = {} THEN "final" ELSE "loop"
    <3>2. [req[r] EXCEPT !.missing = missing, !.pc = pc] =
          [req[r] EXCEPT !.missing = missing, !.pc = pc, !.fault = req[r].fault]
      BY <1>1 DEF RequestInv, Idle
    <3>3. pc \in {"loop", "final"} /\ req[r].fault \in BOOLEAN
      BY <1>1 DEF RequestInv
    <3>4. Set(r, [req[r] EXCEPT !.missing = missing, !.pc = pc, !.fault = req[r].fault])
      BY <3>1, <3>2
    <3>5. QED
      BY <3>3, <3>4
  <2>2. CASE Set(r, [req[r] EXCEPT !.missing = PolicyVars(req[r].policy),
                                   !.pc = "loop", !.fault = TRUE])
    BY <2>2
  <2>3. QED
    BY <2>1, <2>2 DEF Merge
<1> DEFINE q == [req[r] EXCEPT !.missing = missing, !.pc = pc, !.fault = fault]
<1>3. SameKnowledge(q, req[r])
  BY <1>1, <1>2 DEF SameKnowledge, RequestInv, Idle
<1>4. Set(r, q)
  BY <1>2
<1> HIDE DEF q
<1>5. QED
  BY <1>1, <1>3, <1>4, SearchKeepsInv

LEMMA LoopStep ==
  ASSUME KeyInv, NEW r \in Req, Loop(r)
  PROVE  KeyInv'
<1> DEFINE p == req[r]
           spec == resolveAttrSpecForUser(Head(p.todo))
<1>1. RequestInv(p, rows) /\ p.pc = "loop" /\ Reported(p) /\ rows' = rows /\ Active(r)
  BY DEF KeyInv, Loop, RequestInv, Active
<1>2. \/ \E result : Set(r, Finish(p, result))
      \/ Set(r, [p EXCEPT !.todo = Tail(@)])
      \/ \E issue, label :
           Set(r, [p EXCEPT !.pc = "read", !.todo = Tail(@), !.issue = issue, !.label = label])
  BY DEF Loop
<1>3. ASSUME NEW result, Set(r, Finish(p, result)) PROVE KeyInv'
  <2> DEFINE q == Finish(p, result)
  <2>1. RequestInv(q, rows) /\ q.pc = "done"
    BY <1>1, FinishKeeps
  <2>2. Set(r, q)
    BY <1>3
  <2> HIDE DEF q
  <2>3. QED
    BY <1>1, <2>1, <2>2, SetKeepsInv
<1>4. CASE Set(r, [p EXCEPT !.todo = Tail(@)])
  <2> DEFINE q == [p EXCEPT !.todo = Tail(@)]
  <2>1. SameKnowledge(q, p)
    BY <1>1 DEF SameKnowledge, RequestInv, Idle
  <2>2. Set(r, q)
    BY <1>4
  <2> HIDE DEF q
  <2>3. QED
    BY <1>1, <2>1, <2>2, SearchKeepsInv
<1>5. ASSUME NEW issue, NEW label,
             Set(r, [p EXCEPT !.pc = "read", !.todo = Tail(@), !.issue = issue, !.label = label])
      PROVE  KeyInv'
  <2> DEFINE q == [p EXCEPT !.pc = "read", !.todo = Tail(@), !.issue = issue, !.label = label]
  <2>1. SameKnowledge(q, p)
    BY <1>1 DEF SameKnowledge, RequestInv, Idle
  <2>2. Set(r, q)
    BY <1>5
  <2> HIDE DEF q
  <2>3. QED
    BY <1>1, <2>1, <2>2, SearchKeepsInv
<1>6. QED
  BY <1>2, <1>3, <1>4, <1>5

\* The next version is read: it is higher than every version that is there.
LEMMA ReadStep ==
  ASSUME KeyInv, NEW r \in Req, ReadLatest(r)
  PROVE  KeyInv'
<1> DEFINE p == req[r]
<1>1. RequestInv(p, rows) /\ p.pc = "read" /\ rows' = rows /\ Active(r)
  BY DEF KeyInv, ReadLatest, Active
<1>2. TableInv(rows) /\ Cardinality(rows) \in Nat
  BY FS_CardinalityType DEF KeyInv, TableInv
<1>3. ~p.blind /\ Reported(p)
  BY <1>1 DEF RequestInv
<1>4. PICK version, blind, fault :
        /\ Set(r, [p EXCEPT !.pc = "create", !.version = version,
                            !.seen = Cardinality(rows), !.blind = blind, !.fault = fault])
        /\ version \in Nat /\ blind \in BOOLEAN /\ fault \in BOOLEAN /\ (p.fault => fault)
        /\ blind => fault
        /\ ~blind => \A y \in rows : y.label = p.label => y.version < version
  <2> DEFINE Q(version, blind, fault) ==
               [p EXCEPT !.pc = "create", !.version = version, !.seen = Cardinality(rows),
                         !.blind = blind, !.fault = fault]
  <2>1. CASE \E x \in Latest(p.label) :
               Set(r, [p EXCEPT !.pc = "create", !.version = x.version + 1,
                                !.seen = Cardinality(rows)])
    <3>1. PICK x \in Latest(p.label) :
               Set(r, [p EXCEPT !.pc = "create", !.version = x.version + 1,
                                !.seen = Cardinality(rows)])
      BY <2>1
    <3>2. [p EXCEPT !.pc = "create", !.version = x.version + 1, !.seen = Cardinality(rows)]
            = Q(x.version + 1, FALSE, p.fault)
      BY <1>1, <1>3 DEF RequestInv, Idle
    <3>3. /\ x.version + 1 \in Nat
          /\ \A y \in rows : y.label = p.label => y.version < x.version + 1
      BY <1>2, <3>1 DEF Latest, Of, TableInv
    <3>4. p.fault \in BOOLEAN
      BY <1>1 DEF RequestInv
    <3>5. Set(r, Q(x.version + 1, FALSE, p.fault))
      BY <3>1, <3>2
    <3> HIDE DEF p
    <3>6. QED
      BY <3>3, <3>4, <3>5
  <2>2. CASE /\ Of(p.label) = {}
             /\ Set(r, [p EXCEPT !.pc = "create", !.version = 1, !.seen = Cardinality(rows)])
    <3>1. [p EXCEPT !.pc = "create", !.version = 1, !.seen = Cardinality(rows)]
            = Q(1, FALSE, p.fault)
      BY <1>1, <1>3 DEF RequestInv, Idle
    <3>2. \A y \in rows : y.label # p.label
      BY <2>2 DEF Of
    <3>3. p.fault \in BOOLEAN
      BY <1>1 DEF RequestInv
    <3>4. Set(r, Q(1, FALSE, p.fault))
      BY <2>2, <3>1
    <3> HIDE DEF p
    <3>5. QED
      BY <3>2, <3>3, <3>4
  <2>3. CASE Set(r, [p EXCEPT !.pc = "create", !.version = 1, !.seen = Cardinality(rows),
                              !.blind = TRUE, !.fault = TRUE])
    BY <2>3
  <2>4. QED
    BY <2>1, <2>2, <2>3 DEF ReadLatest
<1> DEFINE q == [p EXCEPT !.pc = "create", !.version = version,
                          !.seen = Cardinality(rows), !.blind = blind, !.fault = fault]
<1>5. /\ DOMAIN q = DOMAIN Idle /\ q.pc = "create" /\ q.version = version
      /\ q.seen = Cardinality(rows) /\ q.blind = blind /\ q.fault = fault
      /\ q.own = p.own /\ q.said = p.said /\ q.alone = p.alone /\ q.label = p.label
      /\ q.result = p.result /\ q.enough = p.enough
  BY <1>1 DEF RequestInv, Idle
<1>6. Set(r, q)
  BY <1>4
<1> HIDE DEF q
<1>7. RequestInv(q, rows)
  BY <1>1, <1>2, <1>3, <1>4, <1>5 DEF RequestInv, Knows, Reported
<1>8. QED
  BY <1>1, <1>5, <1>6, <1>7, SetKeepsInv

\* The row is created: what others know of the table stays true, as the row is
\* numbered after all they have seen.
LEMMA CreateStep ==
  ASSUME KeyInv, NEW r \in Req, Create(r)
  PROVE  KeyInv'
<1> DEFINE p   == req[r]
           n   == Cardinality(rows)
           row == [id |-> n + 1, label |-> p.label, version |-> p.version,
                   issue |-> p.issue, seen |-> p.seen, blind |-> p.blind]
           q   == [p EXCEPT !.pc = "report", !.own = p.version, !.blind = FALSE]
<1>1. RequestInv(p, rows) /\ Knows(p, rows) /\ p.pc = "create" /\ Active(r)
  BY DEF KeyInv, Create, RequestInv, Active
<1>2. rows' = rows \cup {row} /\ Set(r, q)
  BY DEF Create
<1>3. TableInv(rows) /\ n \in Nat
  BY FS_CardinalityType DEF KeyInv, TableInv
<1>4. /\ row.id = n + 1 /\ row.label = p.label /\ row.version = p.version
      /\ row.seen = p.seen /\ row.blind = p.blind
  OBVIOUS
<1>5. /\ DOMAIN q = DOMAIN Idle /\ q.pc = "report" /\ q.own = p.version /\ q.blind = FALSE
      /\ q.fault = p.fault /\ q.said = p.said /\ q.alone = p.alone /\ q.label = p.label
      /\ q.result = p.result /\ q.enough = p.enough
  BY <1>1 DEF RequestInv, Idle
<1>6. row \notin rows
  BY <1>3, <1>4 DEF TableInv
<1>7. IsFiniteSet(rows') /\ Cardinality(rows') = n + 1
  <2>1. IsFiniteSet(rows)
    BY <1>3 DEF TableInv
  <2> HIDE DEF row
  <2>2. QED
    BY <1>2, <1>6, <2>1, FS_AddElement
<1> HIDE DEF row, q, n
<1>8. TableInv(rows')
  <2>1. ASSUME NEW x \in rows
        PROVE  x.id \in 1..(n + 1) /\ x.version \in Nat /\ x.seen \in Nat /\ x.seen < x.id
    BY <1>3 DEF TableInv, n
  <2>2. row.id \in 1..(n + 1) /\ row.version \in Nat /\ row.seen \in Nat /\ row.seen < row.id
    BY <1>1, <1>3, <1>4 DEF Knows, n
  <2>3. QED
    BY <1>2, <1>7, <2>1, <2>2 DEF TableInv
<1>9. \A x \in rows : x.id <= n
  BY <1>3 DEF TableInv, n
<1>10. RequestInv(q, rows')
  <2>1. \E x \in rows' : x.label = q.label /\ x.version = q.own
    BY <1>2, <1>4, <1>5
  <2>2. ASSUME q.alone, ~q.fault, NEW x \in rows', x.label = q.label
        PROVE  x.version <= q.own
    <3>1. CASE x = row
      BY <1>1, <1>4, <1>5, <3>1 DEF Knows
    <3>2. CASE x \in rows
      <4>1. ~p.blind /\ p.seen = n
        BY <1>1, <1>5, <2>2 DEF RequestInv, Knows, n
      <4>2. x.version \in Nat /\ p.version \in Nat /\ x.version < p.version
        BY <1>1, <1>3, <1>5, <1>9, <2>2, <3>2, <4>1 DEF Knows, TableInv
      <4>3. QED
        BY <1>5, <4>2
    <3>3. QED
      BY <1>2, <3>1, <3>2
  <2>3. Stored(q, rows')
    BY <2>1, <2>2 DEF Stored
  <2>4. QED
    BY <1>1, <1>5, <2>3 DEF RequestInv, Knows
<1>11. DOMAIN req' = Req /\ req'[r] = q /\ \A s \in Req \ {r} : req'[s] = req[s]
  BY <1>2 DEF KeyInv, Set
<1>12. ASSUME NEW s \in Req \ {r} PROVE RequestInv(req[s], rows')
  <2>1. RequestInv(req[s], rows)
    BY DEF KeyInv
  <2>2. Active(s) => ~req[s].alone
    BY <1>1 DEF KeyInv, AloneInv
  <2>3. CASE req[s].pc = "create"
    <3>1. Knows(req[s], rows) /\ ~req[s].alone
      BY <2>1, <2>2, <2>3 DEF RequestInv, Active
    <3>2. \A x \in rows' : x.id <= req[s].seen => x \in rows
      BY <1>2, <1>3, <1>4, <3>1 DEF Knows, n
    <3>3. req[s].seen <= Cardinality(rows')
      BY <1>3, <1>7, <3>1 DEF Knows, n
    <3>4. Knows(req[s], rows')
      BY <3>1, <3>2, <3>3 DEF Knows
    <3>5. QED
      BY <2>1, <2>3, <3>4 DEF RequestInv
  <2>4. CASE req[s].pc = "report"
    <3>1. Stored(req[s], rows) /\ ~req[s].alone
      BY <2>1, <2>2, <2>4 DEF RequestInv, Active
    <3>2. Stored(req[s], rows')
      BY <1>2, <3>1 DEF Stored
    <3>3. QED
      BY <2>1, <2>4, <3>2 DEF RequestInv
  <2>5. CASE req[s].pc \notin {"create", "report"}
    BY <2>1, <2>5 DEF RequestInv
  <2>6. QED
    BY <2>3, <2>4, <2>5
<1>13. AloneInv'
  BY <1>1, <1>5, <1>11 DEF KeyInv, AloneInv, Active
<1>14. VersionsFollowOrder'
  <2> SUFFICES ASSUME NEW x \in rows', NEW y \in rows',
                      x.label = y.label, x.id <= y.seen, ~y.blind
               PROVE  x.version < y.version
    BY DEF VersionsFollowOrder
  <2>1. CASE x \in rows /\ y \in rows
    BY <2>1 DEF KeyInv, VersionsFollowOrder
  <2>2. CASE x \in rows /\ y = row
    BY <1>1, <1>4, <2>2 DEF Knows
  <2>3. CASE x = row
    <3>1. y.seen < n + 1
      BY <1>1, <1>2, <1>3, <1>4, <1>9 DEF TableInv, Knows, n
    <3>2. y.seen \in Nat
      BY <1>1, <1>2, <1>3, <1>4 DEF TableInv, Knows
    <3>3. QED
      BY <1>3, <1>4, <2>3, <3>1, <3>2
  <2>4. QED
    BY <1>2, <2>1, <2>2, <2>3
<1>15. QED
  BY <1>8, <1>10, <1>11, <1>12, <1>13, <1>14 DEF KeyInv

\* The version looked up is at least that of the request's own row, and that
\* very one when nobody else is there to add to the label.
LEMMA ReportStep ==
  ASSUME KeyInv, NEW r \in Req, Report(r)
  PROVE  KeyInv'
<1> DEFINE p == req[r]
           Next1(v) == [p EXCEPT !.pc = "merge", !.said = v]
           Next2(v) == IssueNext([p EXCEPT !.said = v], p.todo)
           Next3(v) == Finish([p EXCEPT !.said = v], "issued")
           after(v) == IF p.policy # <<>> THEN Next1(v)
                       ELSE IF p.todo # <<>> THEN Next2(v) ELSE Next3(v)
<1>1. RequestInv(p, rows) /\ Stored(p, rows) /\ p.pc = "report" /\ rows' = rows /\ Active(r)
  BY DEF KeyInv, Report, RequestInv, Active
<1>2. TableInv(rows)
  BY DEF KeyInv
<1>3. \A v : /\ DOMAIN after(v) = DOMAIN Idle /\ after(v).pc \in {"merge", "read", "done"}
             /\ after(v).own = p.own /\ after(v).said = v /\ after(v).alone = p.alone
             /\ after(v).fault = p.fault /\ after(v).blind = FALSE
             /\ after(v).pc # "done" => after(v).result = p.result
             /\ after(v).enough \in BOOLEAN
  <2>1. \A v : /\ DOMAIN Next1(v) = DOMAIN Idle /\ Next1(v).pc = "merge"
               /\ Next1(v).own = p.own /\ Next1(v).said = v /\ Next1(v).alone = p.alone
               /\ Next1(v).fault = p.fault /\ Next1(v).blind = FALSE
               /\ Next1(v).result = p.result /\ Next1(v).enough = p.enough
    BY <1>1 DEF RequestInv, Idle
  <2>2. \A v : /\ DOMAIN Next2(v) = DOMAIN Idle /\ Next2(v).pc = "read"
               /\ Next2(v).own = p.own /\ Next2(v).said = v /\ Next2(v).alone = p.alone
               /\ Next2(v).fault = p.fault /\ Next2(v).blind = FALSE
               /\ Next2(v).result = p.result /\ Next2(v).enough = p.enough
    BY <1>1 DEF RequestInv, Idle, IssueNext
  <2>3. \A v : /\ DOMAIN Next3(v) = DOMAIN Idle /\ Next3(v).pc = "done"
               /\ Next3(v).own = p.own /\ Next3(v).said = v /\ Next3(v).alone = p.alone
               /\ Next3(v).fault = p.fault /\ Next3(v).blind = FALSE /\ Next3(v).enough = FALSE
    BY <1>1 DEF RequestInv, Idle, Finish
  <2> HIDE DEF Next1, Next2, Next3
  <2>4. p.enough \in BOOLEAN
    BY <1>1 DEF RequestInv
  <2>5. QED
    BY <2>1, <2>2, <2>3, <2>4
<1>4. \/ \E x \in Latest(p.label) : Set(r, after(x.version))
      \/ Set(r, [after(1) EXCEPT !.fault = TRUE])
  BY DEF Report
<1> HIDE DEF after
<1>5. ASSUME NEW x \in Latest(p.label), Set(r, after(x.version)) PROVE KeyInv'
  <2>1. x \in rows /\ x.label = p.label /\ x.version \in Nat
    BY <1>2 DEF Latest, Of, TableInv
  <2>2. p.own <= x.version
    BY <1>1 DEF Stored, Latest, Of
  <2>3. p.alone /\ ~p.fault => p.own = x.version
    BY <1>1, <2>1, <2>2 DEF Stored, RequestInv
  <2>4. RequestInv(after(x.version), rows)
    BY <1>1, <1>3, <2>1, <2>2, <2>3 DEF RequestInv, Reported
  <2>5. QED
    BY <1>1, <1>3, <1>5, <2>4, SetKeepsInv
<1>6. CASE Set(r, [after(1) EXCEPT !.fault = TRUE])
  <2> DEFINE q == [after(1) EXCEPT !.fault = TRUE]
  <2>1. /\ DOMAIN q = DOMAIN Idle /\ q.pc \in {"merge", "read", "done"}
        /\ q.own = p.own /\ q.said = 1 /\ q.alone = p.alone
        /\ q.fault = TRUE /\ q.blind = FALSE
        /\ q.pc # "done" => q.result = p.result
        /\ q.enough \in BOOLEAN
    BY <1>3 DEF Idle
  <2>2. Set(r, q)
    BY <1>6
  <2> HIDE DEF q
  <2>3. q.fault /\ q.fault \in BOOLEAN /\ q.alone \in BOOLEAN /\ q.blind \in BOOLEAN
    BY <1>1, <2>1 DEF RequestInv
  <2>4. q.own \in Nat /\ q.said \in Nat /\ (q.pc # "done" => q.result = "none")
    BY <1>1, <2>1 DEF RequestInv
  <2>5. RequestInv(q, rows)
    BY <2>1, <2>3, <2>4 DEF RequestInv, Reported
  <2>6. QED
    BY <1>1, <2>1, <2>2, <2>5, SetKeepsInv
<1>7. QED
  BY <1>4, <1>5, <1>6

LEMMA SufficientIsBoolean == \A policy, keys : Sufficient(policy, keys) \in BOOLEAN
BY DEF Sufficient

LEMMA DecryptStep ==
  ASSUME KeyInv, NEW r \in Req, Decrypt(r)
  PROVE  KeyInv'
<1> DEFINE p == req[r]
<1>1. RequestInv(p, rows) /\ p.pc = "final" /\ Reported(p) /\ rows' = rows /\ Active(r)
  BY DEF KeyInv, Decrypt, RequestInv, Active
<1>2. PICK b \in BOOLEAN : \E result : \/ Set(r, [Finish(p, result) EXCEPT !.enough = b])
                                      \/ Set(r, [Finish(p, result) EXCEPT !.fault = TRUE])
  BY SufficientIsBoolean DEF Decrypt
<1>6. PICK result : \/ Set(r, [Finish(p, result) EXCEPT !.enough = b])
                    \/ Set(r, [Finish(p, result) EXCEPT !.fault = TRUE])
  BY <1>2
<1> DEFINE q == [Finish(p, result) EXCEPT !.enough = b]
           f == [Finish(p, result) EXCEPT !.fault = TRUE]
<1>3. RequestInv(q, rows) /\ q.pc = "done" /\ RequestInv(f, rows) /\ f.pc = "done"
  BY <1>1, FinishKeeps
<1>4. Set(r, q) \/ Set(r, f)
  BY <1>6
<1> HIDE DEF q, f
<1>5. QED
  BY <1>1, <1>3, <1>4, SetKeepsInv

LEMMA AbortStep ==
  ASSUME KeyInv, NEW r \in Req, Abort(r)
  PROVE  KeyInv'
<1> DEFINE q == [Idle EXCEPT !.pc = "done", !.result = "aborted"]
<1>1. Active(r) /\ Set(r, q) /\ rows' = rows
  BY DEF Abort
<1>2. q.pc = "done" /\ RequestInv(q, rows)
  BY DEF RequestInv, Reported, Idle
<1> HIDE DEF q
<1>3. QED
  BY <1>1, <1>2, SetKeepsInv

LEMMA KeyInvStep == KeyInv /\ [Next]_vars => KeyInv'
<1> SUFFICES ASSUME KeyInv, [Next]_vars PROVE KeyInv'
  OBVIOUS
<1>1. CASE UNCHANGED vars
  BY <1>1 DEF vars, KeyInv, AloneInv, Active, VersionsFollowOrder
<1>2. CASE Next
  <2>1. PICK r \in Req :
          \/ \E x \in Asked : RequestKey(r, x)
          \/ \E hour \in AutoAsked, loc \in Locations : RequestAutoKeys(r, hour, loc)
          \/ \E p \in Policies : EnsureKeysForPolicy(r, p)
          \/ Merge(r) \/ Loop(r) \/ ReadLatest(r) \/ Create(r) \/ Report(r) \/ Decrypt(r)
          \/ Abort(r)
    BY <1>2 DEF Next
  <2>2. QED
    BY <2>1, BeginStep, MergeStep, LoopStep, ReadStep, CreateStep, ReportStep,
       DecryptStep, AbortStep
<1>3. QED
  BY <1>1, <1>2

THEOREM KeyInvariant == Spec => []KeyInv
BY KeyInvInit, KeyInvStep, PTL DEF Spec

-----------------------------------------------------------------------------
(***************************************************************************)
(* Theorems.                                                               *)
(***************************************************************************)

\* key_service.go:244-263: whatever requests and failures come together, a key
\* gets a higher version than every key of its label that its request saw.
THEOREM VersionsAreOrdered == Spec => []VersionsFollowOrder
BY KeyInvariant, PTL DEF KeyInv

\* key_service.go:110, 290-297: the version that is looked up after the
\* transaction is not below that of the key stored, and is that of the key when
\* no other request came between.
THEOREM ReportsAreOwn == Spec => []ReportedVersionIsOwn
<1>1. KeyInv => ReportedVersionIsOwn
  <2> SUFFICES ASSUME KeyInv, NEW r \in Req,
                      req[r].result \in {"issued", "opened"}, req[r].own # 0, ~req[r].fault
               PROVE  req[r].own <= req[r].said /\ (req[r].alone => req[r].own = req[r].said)
    BY DEF ReportedVersionIsOwn
  <2>1. QED
    BY DEF KeyInv, RequestInv, Reported
<1>2. QED
  BY <1>1, KeyInvariant, PTL

-----------------------------------------------------------------------------
(***************************************************************************)
(* The types of the key ring.  A version is never above the number of      *)
(* rows, as one above the highest of a label is one above some row's; and  *)
(* what is still to be issued is labelled, whatever the specs were made    *)
(* from.                                                                   *)
(***************************************************************************)
Specs == {parseAttrSpec(x) : x \in Written}

\* What is left to do: specs for a request of keys, clauses for a policy.
TodoInv(q) ==
  \/ /\ q.policy = <<>> /\ q.todo \in Seq(Specs)
     /\ q.pc \in {"merge", "loop", "final"} => q.todo = <<>>
  \/ q.policy # <<>> /\ q.todo \in Seq(Written)

TypedRequest(q, n) ==
  /\ q.pc \in {"idle", "merge", "loop", "read", "create", "report", "final", "done"}
  /\ q.pc \in {"read", "create"} => IsLabel(q.label)
  /\ q.pc = "create" => q.version \in 1..q.seen + 1
  /\ q.pc \in {"create", "report"} => q.seen \in 0..n
  /\ q.own \in 0..n /\ q.said \in 0..n
  /\ TodoInv(q)

TypedRow(x, n) == x.version \in 1..n /\ IsLabel(x.label) /\ x.blind \in BOOLEAN

RingInv ==
  /\ faults \in 0..MaxFaults
  /\ \A x \in rows : TypedRow(x, Cardinality(rows))
  /\ \A x, y \in rows : x.id = y.id => x = y
  /\ \A r \in Req : TypedRequest(req[r], Cardinality(rows))

LEMMA ThreeParts == ASSUME NEW x, NEW y, NEW z PROVE Len(<<x, y, z>>) = 3
OBVIOUS

LEMMA NotEmpty == ASSUME NEW S, NEW s \in Seq(S), s # <<>> PROVE Len(s) \in Nat \ {0}
OBVIOUS

LEMMA SpecsAreLabelled ==
  ASSUME NEW spec \in Specs
  PROVE  IsLabel(spec.label)
<1>1. PICK x \in Written : spec = parseAttrSpec(x)
  BY DEF Specs
<1>2. Len(x) \in 1..3
  BY KeyRingAssumption
<1>3. CASE Len(x) = 2
  <2>1. spec.label = <<x[1], "==", x[2]>>
    BY <1>1, <1>3 DEF parseAttrSpec, HasNumber, IsComparison
  <2>2. Len(spec.label) = 3
    BY <2>1, ThreeParts
  <2>3. QED
    BY <2>2 DEF IsLabel
<1>4. CASE Len(x) # 2
  BY <1>1, <1>2, <1>4 DEF parseAttrSpec, HasNumber, IsComparison, IsLabel
<1>5. QED
  BY <1>3, <1>4

\* The spec a clause is resolved to.
LEMMA ResolvedIsSpec ==
  ASSUME NEW clause \in Written, resolveAttrSpecForUser(clause) # Refused
  PROVE  resolveAttrSpecForUser(clause) \in Specs
<1>1. CASE resolveAttrSpecForUser(clause) = parseAttrSpec(clause)
  BY <1>1 DEF Specs
<1>2. CASE /\ resolveAttrSpecForUser(clause) = parseAttrSpec(FirstNumber(clause[1]))
           /\ Numbers(clause[1]) # {}
  <2>1. Numbers(clause[1]) \subseteq DOMAIN Registered /\ DOMAIN Registered \subseteq Nat
    BY KeyRingAssumption DEF Numbers
  <2> DEFINE N == Numbers(clause[1])
  <2>2. \E i \in N : \A j \in N : i <= j
    BY <1>2, <2>1, LeastNatural
  <2>3. Min(N) \in N
    BY <2>2 DEF Min
  <2>4. FirstNumber(clause[1]) \in Written
    BY <2>1, <2>3 DEF FirstNumber, Written, ToSet
  <2>5. QED
    BY <1>2, <2>4 DEF Specs
<1>3. QED
  BY <1>1, <1>2 DEF resolveAttrSpecForUser, RegisteredSatisfies

\* autoAttributeSpecs: a non-empty sequence of specs.
LEMMA AutoSpecs ==
  ASSUME NEW all \in Seq(Written), all # <<>>
  PROVE  LET specs == FoldLeft(AddSpec, <<>>, [i \in DOMAIN all |-> parseAttrSpec(all[i])])
         IN  specs \in Seq(Specs) /\ specs # <<>>
<1> DEFINE D      == DOMAIN all
           given  == [i \in D |-> parseAttrSpec(all[i])]
           Is(h)  == h = [s \in SUBSET D |->
                            IF s = {} THEN <<>> ELSE AddSpec(h[s \ {Max(s)}], given[Max(s)])]
           h      == CHOOSE k : Is(k)
           pick   == [s \in SUBSET D |-> Max(s)]
           F      == [s \in SUBSET D |-> [v \in Seq(Specs) |-> AddSpec(v, given[Max(s)])]]
<1>1. FoldLeft(AddSpec, <<>>, given) = h[D]
  BY DEF FoldLeft, MapThenFoldSet
<1>2. D = 1..Len(all) /\ Len(all) \in Nat /\ IsFiniteSet(D) /\ D # {}
  <2>1. D = 1..Len(all) /\ Len(all) \in Nat
    OBVIOUS
  <2>2. Len(all) \in Nat \ {0}
    BY NotEmpty
  <2>3. IsFiniteSet(1..Len(all))
    BY <2>1, FS_Interval
  <2> HIDE DEF D
  <2>4. 1 \in 1..Len(all)
    BY <2>2
  <2>5. QED
    BY <2>1, <2>3, <2>4
<1>3. \A s \in SUBSET D : s # {} => Max(s) \in s /\ given[Max(s)] \in Specs
  <2> SUFFICES ASSUME NEW s \in SUBSET D, s # {}
               PROVE  Max(s) \in s /\ given[Max(s)] \in Specs
    OBVIOUS
  <2>1. s \in SUBSET (1..Len(all))
    BY <1>2
  <2>2. \E z \in s : \A x \in s : x <= z
    BY <1>2, <2>1, Greatest
  <2>3. \E z \in s : \A x \in s : z >= x
    <3>1. \A x \in s : x \in Int
      BY <2>1
    <3>2. QED
      BY <2>2, <3>1
  <2>4. Max(s) \in s
    BY <2>3 DEF Max
  <2>5. QED
    BY <2>4 DEF Specs
<1>4. ASSUME NEW v \in Seq(Specs), NEW spec \in Specs
      PROVE  AddSpec(v, spec) \in Seq(Specs) /\ AddSpec(v, spec) # <<>>
  <2>1. CASE \E i \in DOMAIN v : v[i].issue = spec.issue
    <3>1. AddSpec(v, spec) = v /\ DOMAIN v # {}
      BY <2>1 DEF AddSpec
    <3>2. QED
      BY <3>1
  <2>2. CASE ~\E i \in DOMAIN v : v[i].issue = spec.issue
    <3>1. AddSpec(v, spec) = Append(v, spec)
      BY <2>2 DEF AddSpec
    <3>2. Append(v, spec) \in Seq(Specs) /\ Len(Append(v, spec)) = Len(v) + 1
      OBVIOUS
    <3>3. QED
      BY <3>1, <3>2
  <2>3. QED
    BY <2>1, <2>2
<1>5. \A s \in SUBSET D : s # {} =>
        /\ pick[s] = Max(s) /\ pick[s] \in s
        /\ \A v \in Seq(Specs) : F[s][v] = AddSpec(v, given[Max(s)]) /\ F[s][v] \in Seq(Specs)
  <2> SUFFICES ASSUME NEW s \in SUBSET D, s # {}
               PROVE  /\ pick[s] = Max(s) /\ pick[s] \in s
                      /\ \A v \in Seq(Specs) :
                           F[s][v] = AddSpec(v, given[Max(s)]) /\ F[s][v] \in Seq(Specs)
    OBVIOUS
  <2> HIDE DEF D, given
  <2>1. pick[s] = Max(s) /\ \A v \in Seq(Specs) : F[s][v] = AddSpec(v, given[Max(s)])
    OBVIOUS
  <2>2. Max(s) \in s /\ given[Max(s)] \in Specs
    BY <1>3
  <2> HIDE DEF pick, F
  <2>3. QED
    BY <1>4, <2>1, <2>2
<1>6. PICK g \in Recursion(SUBSET D, Seq(Specs), <<>>, pick, F) : TRUE
  <2> HIDE DEF D, given, pick, F
  <2>1. \A s \in SUBSET D : s # {} => pick[s] \in s
    BY <1>5
  <2>2. \A s \in SUBSET D : \A v \in Seq(Specs) : s # {} => F[s][v] \in Seq(Specs)
    BY <1>5
  <2>3. <<>> \in Seq(Specs)
    OBVIOUS
  <2>4. Recursion(SUBSET D, Seq(Specs), <<>>, pick, F) # {}
    BY <1>2, <2>1, <2>2, <2>3, RecursionExists
  <2>5. QED
    BY <2>4
<1>7. Is(g)
  <2> HIDE DEF D, given, pick, F
  <2>1. /\ g \in [SUBSET D -> Seq(Specs)]
        /\ \A s \in SUBSET D : g[s] = IF s = {} THEN <<>> ELSE F[s][g[s \ {pick[s]}]]
    BY <1>6 DEF Recursion
  <2>2. ASSUME NEW s \in SUBSET D, s # {}
        PROVE  g[s] = AddSpec(g[s \ {Max(s)}], given[Max(s)])
    <3>1. pick[s] = Max(s) /\ g[s \ {pick[s]}] \in Seq(Specs)
      BY <1>5, <2>1, <2>2
    <3>2. F[s][g[s \ {pick[s]}]] = AddSpec(g[s \ {pick[s]}], given[Max(s)])
      BY <1>5, <2>2, <3>1
    <3>3. QED
      BY <2>1, <2>2, <3>1, <3>2
  <2>3. g = [s \in SUBSET D |->
               IF s = {} THEN <<>> ELSE AddSpec(g[s \ {Max(s)}], given[Max(s)])]
    BY <2>1, <2>2
  <2>4. QED
    BY <2>3
<1> HIDE DEF Is
<1>8. Is(h)
  BY <1>7
<1> HIDE DEF h
<1>9. h = [s \in SUBSET D |->
             IF s = {} THEN <<>> ELSE AddSpec(h[s \ {Max(s)}], given[Max(s)])]
  BY <1>8 DEF Is
<1> HIDE DEF D, given, pick, F
<1>10. Recurs(h, g, D, Seq(Specs), <<>>, pick, F)
  <2>1. ASSUME NEW s \in SUBSET D, s # {}, h[s \ {pick[s]}] \in Seq(Specs)
        PROVE  h[s] = F[s][h[s \ {pick[s]}]]
    <3>1. pick[s] = Max(s)
      BY <1>5, <2>1
    <3>2. h[s] = AddSpec(h[s \ {Max(s)}], given[Max(s)])
      BY <1>9, <2>1
    <3>3. F[s][h[s \ {pick[s]}]] = AddSpec(h[s \ {pick[s]}], given[Max(s)])
      BY <1>5, <2>1
    <3>4. QED
      BY <3>1, <3>2, <3>3
  <2>2. h[{}] = <<>>
    BY <1>9
  <2>3. QED
    BY <1>2, <1>5, <1>6, <2>1, <2>2 DEF Recurs
<1>11. \A s \in SUBSET D : h[s] = g[s] /\ g[s] \in Seq(Specs)
  <2>1. \A s \in SUBSET D : h[s] = g[s]
    BY <1>10, RecursionUnique
  <2>2. QED
    BY <1>6, <2>1 DEF Recursion
<1>12. h[D] \in Seq(Specs) /\ h[D] # <<>>
  <2>1. h[D] = AddSpec(h[D \ {Max(D)}], given[Max(D)])
    BY <1>2, <1>9
  <2>2. h[D \ {Max(D)}] \in Seq(Specs) /\ given[Max(D)] \in Specs
    BY <1>2, <1>3, <1>11
  <2>3. QED
    BY <1>4, <2>1, <2>2
<1>13. QED
  BY <1>1, <1>12 DEF given, D

-----------------------------------------------------------------------------
(***************************************************************************)
(* Steps and types.                                                        *)
(***************************************************************************)
LEMMA RingInvInit == Init => RingInv
<1> SUFFICES ASSUME Init PROVE RingInv
  OBVIOUS
<1>1. Cardinality(rows) = 0 /\ faults \in 0..MaxFaults
  BY FS_EmptySet, KeyRingAssumption DEF Init
<1>2. ASSUME NEW r \in Req PROVE TypedRequest(req[r], Cardinality(rows))
  <2>1. req[r] = Idle
    BY DEF Init
  <2>2. <<>> \in Seq(Specs)
    OBVIOUS
  <2>3. QED
    BY <1>1, <2>1, <2>2 DEF TypedRequest, TodoInv, Idle
<1>3. QED
  BY <1>1, <1>2 DEF Init, RingInv

LEMMA CountIsNatural == KeyInv => Cardinality(rows) \in Nat
BY FS_CardinalityType DEF KeyInv, TableInv

\* A query may fail, and counts when it does.
LEMMA FaultsStayTyped ==
  ASSUME RingInv, NEW r \in Req, Fault(r) \/ UNCHANGED faults
  PROVE  faults' \in 0..MaxFaults
BY KeyRingAssumption DEF RingInv, Fault

LEMMA SetKeepsRing ==
  ASSUME KeyInv, RingInv, NEW r \in Req, NEW q, Set(r, q), rows' = rows,
         TypedRequest(q, Cardinality(rows)), faults' \in 0..MaxFaults
  PROVE  RingInv'
<1>1. req'[r] = q /\ \A s \in Req \ {r} : req'[s] = req[s]
  BY DEF KeyInv, Set
<1>2. \A s \in Req : TypedRequest(req'[s], Cardinality(rows)')
  BY <1>1 DEF RingInv
<1>3. QED
  BY <1>2 DEF RingInv

LEMMA AloneIsNoType ==
  ASSUME NEW q, DOMAIN q = DOMAIN Idle, NEW n, TypedRequest(q, n), NEW b
  PROVE  TypedRequest([q EXCEPT !.alone = b], n)
BY DEF TypedRequest, TodoInv, Idle

LEMMA BeginKeepsRing ==
  ASSUME KeyInv, RingInv, NEW r \in Req, NEW q, Begin(r, q), rows' = rows, faults' = faults,
         DOMAIN q = DOMAIN Idle, TypedRequest(q, Cardinality(rows))
  PROVE  RingInv'
<1> DEFINE n == Cardinality(rows)
<1>1. TypedRequest(req'[r], n)
  BY AloneIsNoType DEF Begin
<1>2. ASSUME NEW s \in Req \ {r} PROVE TypedRequest(req'[s], n)
  <2>1. DOMAIN req[s] = DOMAIN Idle /\ TypedRequest(req[s], n)
    BY DEF KeyInv, RequestInv, RingInv
  <2>2. req'[s] = req[s] \/ req'[s] = [req[s] EXCEPT !.alone = FALSE]
    BY DEF Begin
  <2>3. TypedRequest([req[s] EXCEPT !.alone = FALSE], n)
    BY <2>1, AloneIsNoType
  <2>4. QED
    BY <2>1, <2>2, <2>3
<1>3. QED
  BY <1>1, <1>2 DEF RingInv

LEMMA FinishIsTyped ==
  ASSUME NEW q, NEW n, NEW result, q.own \in 0..n, q.said \in 0..n, TodoInv(q)
  PROVE  /\ TypedRequest(Finish(q, result), n)
         /\ TypedRequest([Finish(q, result) EXCEPT !.fault = TRUE], n)
         /\ \A b : TypedRequest([Finish(q, result) EXCEPT !.enough = b], n)
<1>1. <<>> \in Seq(Specs) /\ <<>> \in Seq(Written)
  OBVIOUS
<1>2. QED
  BY <1>1 DEF TypedRequest, TodoInv, Finish, Idle

LEMMA IssueIsTyped ==
  ASSUME NEW q, DOMAIN q = DOMAIN Idle, NEW n, q.policy = <<>>,
         q.own \in 0..n, q.said \in 0..n, NEW specs \in Seq(Specs), specs # <<>>
  PROVE  TypedRequest(IssueNext(q, specs), n)
<1>1. Head(specs) \in Specs /\ Tail(specs) \in Seq(Specs)
  OBVIOUS
<1>2. IsLabel(Head(specs).label)
  BY <1>1, SpecsAreLabelled
<1> DEFINE p == IssueNext(q, specs)
<1>3. /\ p.pc = "read" /\ p.label = Head(specs).label /\ p.todo = Tail(specs)
      /\ p.policy = q.policy /\ p.own = q.own /\ p.said = q.said
  BY DEF IssueNext, Idle
<1> HIDE DEF p
<1>4. TypedRequest(p, n)
  BY <1>1, <1>2, <1>3 DEF TypedRequest, TodoInv
<1>5. QED
  BY <1>4 DEF p

LEMMA BeginStaysTyped ==
  ASSUME KeyInv, RingInv, NEW r \in Req,
         \/ \E x \in Asked : RequestKey(r, x)
         \/ \E hour \in AutoAsked, loc \in Locations : RequestAutoKeys(r, hour, loc)
         \/ \E p \in Policies : EnsureKeysForPolicy(r, p)
  PROVE  RingInv'
<1> DEFINE n == Cardinality(rows)
<1>1. n \in Nat
  BY CountIsNatural
<1>2. DOMAIN Idle = DOMAIN Idle /\ Idle.policy = <<>> /\ Idle.own \in 0..n /\ Idle.said \in 0..n
  BY <1>1 DEF Idle
<1>3. ASSUME NEW specs \in Seq(Specs), specs # <<>>, Begin(r, IssueNext(Idle, specs)),
             rows' = rows, faults' = faults
      PROVE  RingInv'
  <2> DEFINE q == IssueNext(Idle, specs)
  <2>1. TypedRequest(q, n)
    BY <1>2, <1>3, IssueIsTyped
  <2>2. DOMAIN q = DOMAIN Idle
    BY DEF IssueNext, Idle
  <2>3. Begin(r, q)
    BY <1>3
  <2> HIDE DEF q
  <2>4. QED
    BY <1>3, <2>1, <2>2, <2>3, BeginKeepsRing
<1>4. ASSUME NEW x \in Asked, RequestKey(r, x)
      PROVE  RingInv'
  <2>1. parseAttrSpec(x) \in Specs
    BY DEF Specs, Written
  <2>2. <<parseAttrSpec(x)>> \in Seq(Specs) /\ <<parseAttrSpec(x)>> # <<>>
    BY <2>1
  <2>3. Begin(r, IssueNext(Idle, <<parseAttrSpec(x)>>)) /\ rows' = rows /\ faults' = faults
    BY <1>4 DEF RequestKey
  <2>4. QED
    BY <1>3, <2>2, <2>3
<1>5. ASSUME NEW hour \in AutoAsked, NEW loc \in Locations, RequestAutoKeys(r, hour, loc)
      PROVE  RingInv'
  <2> DEFINE all   == Registered \o <<hour, <<loc>> >>
             specs == FoldLeft(AddSpec, <<>>, [i \in DOMAIN all |-> parseAttrSpec(all[i])])
  <2>1. ToSet(Registered) \subseteq Written /\ hour \in Written /\ <<loc>> \in Written
    BY DEF Written
  <2>2. Registered \in Seq(Written) /\ <<hour, <<loc>> >> \in Seq(Written)
    BY <2>1, KeyRingAssumption
  <2>3. all \in Seq(Written) /\ Len(all) = Len(Registered) + 2 /\ Len(Registered) \in Nat
    BY <2>2
  <2>4. all # <<>>
    BY <2>3
  <2>5. specs \in Seq(Specs) /\ specs # <<>>
    BY <2>3, <2>4, AutoSpecs
  <2>6. Begin(r, IssueNext(Idle, specs)) /\ rows' = rows /\ faults' = faults
    BY <1>5 DEF RequestAutoKeys
  <2> HIDE DEF specs
  <2>7. QED
    BY <1>3, <2>5, <2>6
<1>6. ASSUME NEW p \in Policies, EnsureKeysForPolicy(r, p)
      PROVE  RingInv'
  <2> DEFINE q == [Idle EXCEPT !.pc = "merge", !.policy = p, !.todo = p]
  <2>1. ToSet(p) \subseteq Written /\ p \in Seq(ToSet(p))
    BY KeyRingAssumption DEF Written
  <2>2. p \in Seq(Written) /\ <<>> \in Seq(Specs)
    BY <2>1
  <2>3. /\ DOMAIN q = DOMAIN Idle /\ q.pc = "merge" /\ q.policy = p /\ q.todo = p
        /\ q.own = 0 /\ q.said = 0
    BY DEF Idle
  <2>4. Begin(r, q) /\ rows' = rows /\ faults' = faults
    BY <1>6 DEF EnsureKeysForPolicy
  <2> HIDE DEF q
  <2>5. TypedRequest(q, n)
    BY <1>1, <2>2, <2>3 DEF TypedRequest, TodoInv
  <2>6. QED
    BY <2>3, <2>4, <2>5, BeginKeepsRing
<1>7. QED
  BY <1>4, <1>5, <1>6

LEMMA MergeStaysTyped ==
  ASSUME KeyInv, RingInv, NEW r \in Req, Merge(r)
  PROVE  RingInv'
<1> DEFINE n == Cardinality(rows)
           p == req[r]
<1>1. DOMAIN p = DOMAIN Idle /\ TypedRequest(p, n) /\ p.pc = "merge" /\ rows' = rows
  BY DEF KeyInv, RequestInv, RingInv, Merge
<1>2. faults' \in 0..MaxFaults
  BY FaultsStayTyped DEF Merge
<1>3. PICK q : /\ Set(r, q) /\ q.pc \in {"loop", "final"} /\ q.own = p.own /\ q.said = p.said
               /\ q.todo = p.todo /\ q.policy = p.policy
  <2> DEFINE Q(missing, pc) == [p EXCEPT !.missing = missing, !.pc = pc]
             F(missing)     == [p EXCEPT !.missing = missing, !.pc = "loop", !.fault = TRUE]
  <2>1. \A missing, pc :
          /\ Q(missing, pc).pc = pc /\ Q(missing, pc).own = p.own
          /\ Q(missing, pc).said = p.said /\ Q(missing, pc).todo = p.todo
          /\ Q(missing, pc).policy = p.policy
    BY <1>1 DEF Idle
  <2>2. \A missing :
          /\ F(missing).pc = "loop" /\ F(missing).own = p.own /\ F(missing).said = p.said
          /\ F(missing).todo = p.todo /\ F(missing).policy = p.policy
    BY <1>1 DEF Idle
  <2>3. \/ \E missing : Set(r, Q(missing, IF missing = {} THEN "final" ELSE "loop"))
        \/ \E missing : Set(r, F(missing))
    BY DEF Merge
  <2> HIDE DEF Q, F
  <2>4. QED
    BY <2>1, <2>2, <2>3
<1>4. TypedRequest(q, n)
  BY <1>1, <1>3 DEF TypedRequest, TodoInv
<1>5. QED
  BY <1>1, <1>2, <1>3, <1>4, SetKeepsRing

LEMMA LoopStaysTyped ==
  ASSUME KeyInv, RingInv, NEW r \in Req, Loop(r)
  PROVE  RingInv'
<1> DEFINE n     == Cardinality(rows)
           p     == req[r]
           spec  == resolveAttrSpecForUser(Head(p.todo))
           next  == [p EXCEPT !.todo = Tail(@)]
           reads == [p EXCEPT !.pc = "read", !.todo = Tail(@),
                              !.issue = spec.issue, !.label = spec.label]
<1>1. /\ DOMAIN p = DOMAIN Idle /\ TypedRequest(p, n) /\ p.pc = "loop"
      /\ rows' = rows /\ faults' \in 0..MaxFaults
  BY DEF KeyInv, RequestInv, RingInv, Loop
<1>2. \/ \E result : Set(r, Finish(p, result))
      \/ p.todo # <<>> /\ Set(r, next)
      \/ p.todo # <<>> /\ spec # Refused /\ Set(r, reads)
  BY DEF Loop
<1>3. p.todo # <<>> => p.policy # <<>> /\ p.todo \in Seq(Written)
  BY <1>1 DEF TypedRequest, TodoInv
<1>4. ASSUME NEW result, Set(r, Finish(p, result)) PROVE RingInv'
  <2> DEFINE q == Finish(p, result)
  <2>1. TypedRequest(q, n)
    BY <1>1, FinishIsTyped DEF TypedRequest
  <2>2. Set(r, q)
    BY <1>4
  <2> HIDE DEF q
  <2>3. QED
    BY <1>1, <2>1, <2>2, SetKeepsRing
<1>5. CASE p.todo # <<>> /\ Set(r, next)
  <2>1. Tail(p.todo) \in Seq(Written)
    BY <1>3, <1>5
  <2>2. /\ next.pc = "loop" /\ next.todo = Tail(p.todo) /\ next.own = p.own
        /\ next.said = p.said /\ next.policy = p.policy
    BY <1>1 DEF Idle
  <2>3. Set(r, next) /\ p.policy # <<>>
    BY <1>3, <1>5
  <2> HIDE DEF next
  <2>4. TypedRequest(next, n)
    BY <1>1, <2>1, <2>2, <2>3 DEF TypedRequest, TodoInv
  <2>5. QED
    BY <1>1, <2>3, <2>4, SetKeepsRing
<1>6. CASE p.todo # <<>> /\ spec # Refused /\ Set(r, reads)
  <2>1. Tail(p.todo) \in Seq(Written) /\ Head(p.todo) \in Written
    BY <1>3, <1>6
  <2>2. spec \in Specs
    BY <1>6, <2>1, ResolvedIsSpec
  <2>3. IsLabel(spec.label)
    BY <2>2, SpecsAreLabelled
  <2>4. /\ reads.pc = "read" /\ reads.todo = Tail(p.todo) /\ reads.own = p.own
        /\ reads.said = p.said /\ reads.policy = p.policy /\ reads.label = spec.label
    BY <1>1 DEF Idle
  <2>5. Set(r, reads) /\ p.policy # <<>>
    BY <1>3, <1>6
  <2> HIDE DEF reads
  <2>6. TypedRequest(reads, n)
    BY <1>1, <2>1, <2>3, <2>4, <2>5 DEF TypedRequest, TodoInv
  <2>7. QED
    BY <1>1, <2>5, <2>6, SetKeepsRing
<1>7. QED
  BY <1>2, <1>4, <1>5, <1>6

\* One above a version that is there is at most one above the number of rows.
LEMMA ReadStaysTyped ==
  ASSUME KeyInv, RingInv, NEW r \in Req, ReadLatest(r)
  PROVE  RingInv'
<1> DEFINE n == Cardinality(rows)
           p == req[r]
           Q(version) == [p EXCEPT !.pc = "create", !.version = version, !.seen = n]
           F == [p EXCEPT !.pc = "create", !.version = 1, !.seen = n,
                          !.blind = TRUE, !.fault = TRUE]
<1>1. DOMAIN p = DOMAIN Idle /\ TypedRequest(p, n) /\ p.pc = "read" /\ rows' = rows
  BY DEF KeyInv, RequestInv, RingInv, ReadLatest
<1>2. faults' \in 0..MaxFaults /\ n \in Nat
  BY FaultsStayTyped, CountIsNatural DEF ReadLatest
<1>3. \/ \E x \in Latest(p.label) : Set(r, Q(x.version + 1))
      \/ Set(r, Q(1)) \/ Set(r, F)
  BY DEF ReadLatest
<1>4. \A x \in Latest(p.label) : x.version + 1 \in 1..n + 1
  BY <1>2 DEF Latest, Of, RingInv, TypedRow
<1>5. \A version : /\ Q(version).pc = "create" /\ Q(version).version = version
                   /\ Q(version).seen = n /\ Q(version).label = p.label
                   /\ Q(version).own = p.own /\ Q(version).said = p.said
                   /\ Q(version).policy = p.policy /\ Q(version).todo = p.todo
  BY <1>1 DEF Idle
<1>6. /\ F.pc = "create" /\ F.version = 1 /\ F.seen = n /\ F.label = p.label
      /\ F.own = p.own /\ F.said = p.said /\ F.policy = p.policy /\ F.todo = p.todo
  BY <1>1 DEF Idle
<1> HIDE DEF Q, F
<1>7. PICK q : /\ Set(r, q) /\ q.pc = "create" /\ q.version \in 1..n + 1 /\ q.seen = n
               /\ q.label = p.label /\ q.own = p.own /\ q.said = p.said
               /\ q.policy = p.policy /\ q.todo = p.todo
  <2>1. 1 \in 1..n + 1
    BY <1>2
  <2>2. QED
    BY <1>3, <1>4, <1>5, <1>6, <2>1
<1>8. TypedRequest(q, n)
  BY <1>1, <1>2, <1>7 DEF TypedRequest, TodoInv
<1>9. QED
  BY <1>1, <1>2, <1>7, <1>8, SetKeepsRing

LEMMA CreateStaysTyped ==
  ASSUME KeyInv, RingInv, NEW r \in Req, Create(r)
  PROVE  RingInv'
<1> DEFINE n   == Cardinality(rows)
           p   == req[r]
           row == [id |-> n + 1, label |-> p.label, version |-> p.version,
                   issue |-> p.issue, seen |-> p.seen, blind |-> p.blind]
           q   == [p EXCEPT !.pc = "report", !.own = p.version, !.blind = FALSE]
<1>1. /\ DOMAIN p = DOMAIN Idle /\ TypedRequest(p, n) /\ p.pc = "create"
      /\ p.blind \in BOOLEAN /\ TableInv(rows) /\ faults' \in 0..MaxFaults
  BY DEF KeyInv, RequestInv, RingInv, Create
<1>2. rows' = rows \cup {row} /\ Set(r, q) /\ n \in Nat
  BY CountIsNatural DEF Create
<1>3. row.id = n + 1 /\ row.label = p.label /\ row.version = p.version /\ row.blind = p.blind
  OBVIOUS
<1>4. /\ q.pc = "report" /\ q.own = p.version /\ q.said = p.said /\ q.seen = p.seen
      /\ q.policy = p.policy /\ q.todo = p.todo
  BY <1>1 DEF Idle
<1> HIDE DEF row, q
<1>5. \A x \in rows : x.id \in 1..n
  BY <1>1 DEF TableInv
<1>6. row \notin rows
  BY <1>2, <1>3, <1>5
<1>7. Cardinality(rows') = n + 1
  <2>1. IsFiniteSet(rows)
    BY <1>1 DEF TableInv
  <2>2. QED
    BY <1>2, <1>6, <2>1, FS_AddElement
<1> HIDE DEF n
<1>8. p.version \in 1..n + 1 /\ IsLabel(p.label) /\ p.seen \in 0..n + 1
  <2>1. p.version \in 1..p.seen + 1 /\ p.seen \in 0..n /\ IsLabel(p.label)
    BY <1>1 DEF TypedRequest
  <2>2. QED
    BY <1>2, <2>1
<1>9. \A s \in Req : TypedRequest(req[s], n) => TypedRequest(req[s], n + 1)
  BY <1>2 DEF TypedRequest
<1>10. ASSUME NEW x \in rows' PROVE TypedRow(x, n + 1)
  <2>1. CASE x \in rows
    <3>1. TypedRow(x, n)
      BY <2>1 DEF RingInv, n
    <3>2. QED
      BY <1>2, <3>1 DEF TypedRow
  <2>2. CASE x = row
    BY <1>1, <1>3, <1>8, <2>2 DEF TypedRow
  <2>3. QED
    BY <1>2, <2>1, <2>2
<1>11. ASSUME NEW x \in rows', NEW y \in rows', x.id = y.id PROVE x = y
  <2>1. CASE x \in rows /\ y \in rows
    BY <1>11, <2>1 DEF RingInv
  <2>2. CASE x = row /\ y = row
    BY <2>2
  <2>3. CASE (x \in rows /\ y = row) \/ (x = row /\ y \in rows)
    BY <1>2, <1>3, <1>5, <1>11, <2>3
  <2>4. QED
    BY <1>2, <2>1, <2>2, <2>3
<1>12. TypedRequest(q, n + 1)
  BY <1>1, <1>2, <1>4, <1>8 DEF TypedRequest, TodoInv
<1>13. req'[r] = q /\ \A s \in Req \ {r} : req'[s] = req[s]
  BY <1>2 DEF KeyInv, Set
<1>14. \A s \in Req : TypedRequest(req'[s], n + 1)
  BY <1>9, <1>12, <1>13 DEF RingInv, n
<1>15. QED
  BY <1>1, <1>7, <1>10, <1>11, <1>14 DEF RingInv

LEMMA ReportStaysTyped ==
  ASSUME KeyInv, RingInv, NEW r \in Req, Report(r)
  PROVE  RingInv'
<1> DEFINE n == Cardinality(rows)
           p == req[r]
           Merges1(v) == [p EXCEPT !.pc = "merge", !.said = v]
           Says(v)    == [p EXCEPT !.said = v]
           Issues(v)  == IssueNext(Says(v), p.todo)
           Ends(v)    == Finish(Says(v), "issued")
           after(v)   == IF p.policy # <<>> THEN Merges1(v)
                         ELSE IF p.todo # <<>> THEN Issues(v) ELSE Ends(v)
<1>1. /\ DOMAIN p = DOMAIN Idle /\ TypedRequest(p, n) /\ Stored(p, rows) /\ rows' = rows
      /\ p.pc = "report"
  BY DEF KeyInv, RequestInv, RingInv, Report
<1>2. faults' \in 0..MaxFaults /\ n \in Nat
  BY FaultsStayTyped, CountIsNatural DEF Report
<1>3. \A x \in Latest(p.label) : x.version \in 0..n
  BY <1>2 DEF Latest, Of, RingInv, TypedRow
<1>4. 1 \in 0..n
  BY <1>1, <1>2 DEF Stored, RingInv, TypedRow
<1>5. \/ \E x \in Latest(p.label) : Set(r, after(x.version))
      \/ Set(r, [after(1) EXCEPT !.fault = TRUE])
  BY DEF Report
<1>6. ASSUME NEW v \in 0..n
      PROVE  TypedRequest(after(v), n) /\ TypedRequest([after(v) EXCEPT !.fault = TRUE], n)
  <2>1. /\ DOMAIN Says(v) = DOMAIN Idle /\ Says(v).own \in 0..n /\ Says(v).said \in 0..n
        /\ Says(v).policy = p.policy /\ Says(v).todo = p.todo /\ Says(v).pc = p.pc
    BY <1>1 DEF TypedRequest, Idle
  <2>2. CASE p.policy # <<>>
    <3> DEFINE q == Merges1(v)
               f == [q EXCEPT !.fault = TRUE]
    <3>1. /\ DOMAIN q = DOMAIN Idle /\ q.pc = "merge" /\ q.own = p.own /\ q.said = v
          /\ q.policy = p.policy /\ q.todo = p.todo
      BY <1>1 DEF Idle
    <3>2. after(v) = q
      BY <2>2
    <3> HIDE DEF q, after
    <3>3. /\ f.pc = "merge" /\ f.own = p.own /\ f.said = v
          /\ f.policy = p.policy /\ f.todo = p.todo
      BY <3>1 DEF Idle
    <3> HIDE DEF f
    <3>4. TypedRequest(q, n) /\ TypedRequest(f, n)
      BY <1>1, <2>2, <3>1, <3>3 DEF TypedRequest, TodoInv
    <3>5. QED
      BY <3>2, <3>4 DEF f
  <2>3. CASE p.policy = <<>> /\ p.todo # <<>>
    <3> DEFINE q == Issues(v)
               f == [q EXCEPT !.fault = TRUE]
    <3>1. p.todo \in Seq(Specs)
      BY <1>1, <2>3 DEF TypedRequest, TodoInv
    <3> HIDE DEF Says
    <3>2. TypedRequest(q, n)
      BY <2>1, <2>3, <3>1, IssueIsTyped
    <3>3. after(v) = q /\ DOMAIN q = DOMAIN Idle
      BY <2>1, <2>3 DEF IssueNext, Idle
    <3> HIDE DEF q, after
    <3>4. /\ f.pc = q.pc /\ f.own = q.own /\ f.said = q.said /\ f.policy = q.policy
          /\ f.todo = q.todo /\ f.label = q.label /\ f.seen = q.seen /\ f.version = q.version
      BY <3>3 DEF Idle
    <3> HIDE DEF f
    <3>5. TypedRequest(f, n)
      BY <3>2, <3>4 DEF TypedRequest, TodoInv
    <3>6. QED
      BY <3>2, <3>3, <3>5 DEF f
  <2>4. CASE p.policy = <<>> /\ p.todo = <<>>
    <3>1. TodoInv(Says(v))
      BY <1>1, <2>1 DEF TypedRequest, TodoInv
    <3> HIDE DEF Says
    <3>2. after(v) = Finish(Says(v), "issued")
      BY <2>4
    <3>3. TypedRequest(Finish(Says(v), "issued"), n)
          /\ TypedRequest([Finish(Says(v), "issued") EXCEPT !.fault = TRUE], n)
      BY <2>1, <3>1, FinishIsTyped
    <3> HIDE DEF after
    <3>4. QED
      BY <3>2, <3>3
  <2>5. QED
    BY <2>2, <2>3, <2>4
<1> HIDE DEF after
<1>7. PICK q : Set(r, q) /\ TypedRequest(q, n)
  BY <1>3, <1>4, <1>5, <1>6
<1>8. QED
  BY <1>1, <1>2, <1>7, SetKeepsRing

LEMMA DecryptStaysTyped ==
  ASSUME KeyInv, RingInv, NEW r \in Req, Decrypt(r)
  PROVE  RingInv'
<1> DEFINE n == Cardinality(rows)
           p == req[r]
<1>1. TypedRequest(p, n) /\ rows' = rows /\ faults' \in 0..MaxFaults
  BY FaultsStayTyped DEF RingInv, Decrypt
<1>2. PICK result, b : \/ Set(r, [Finish(p, result) EXCEPT !.enough = b])
                       \/ Set(r, [Finish(p, result) EXCEPT !.fault = TRUE])
  BY DEF Decrypt
<1>3. /\ TypedRequest([Finish(p, result) EXCEPT !.enough = b], n)
      /\ TypedRequest([Finish(p, result) EXCEPT !.fault = TRUE], n)
  BY <1>1, FinishIsTyped DEF TypedRequest
<1>4. PICK q : Set(r, q) /\ TypedRequest(q, n)
  BY <1>2, <1>3
<1>5. QED
  BY <1>1, <1>4, SetKeepsRing

LEMMA AbortStaysTyped ==
  ASSUME KeyInv, RingInv, NEW r \in Req, Abort(r)
  PROVE  RingInv'
<1> DEFINE n == Cardinality(rows)
           q == [Idle EXCEPT !.pc = "done", !.result = "aborted"]
<1>1. Set(r, q) /\ rows' = rows /\ faults' \in 0..MaxFaults /\ n \in Nat
  BY CountIsNatural DEF RingInv, Abort
<1>2. <<>> \in Seq(Specs)
  OBVIOUS
<1>3. TypedRequest(q, n)
  BY <1>1, <1>2 DEF TypedRequest, TodoInv, Idle
<1> HIDE DEF q
<1>4. QED
  BY <1>1, <1>3, SetKeepsRing

LEMMA RingInvStep == KeyInv /\ RingInv /\ [Next]_vars => RingInv'
<1> SUFFICES ASSUME KeyInv, RingInv, [Next]_vars PROVE RingInv'
  OBVIOUS
<1>1. CASE UNCHANGED vars
  BY <1>1 DEF vars, RingInv
<1>2. CASE Next
  <2>1. PICK r \in Req :
          \/ \E x \in Asked : RequestKey(r, x)
          \/ \E hour \in AutoAsked, loc \in Locations : RequestAutoKeys(r, hour, loc)
          \/ \E p \in Policies : EnsureKeysForPolicy(r, p)
          \/ Merge(r) \/ Loop(r) \/ ReadLatest(r) \/ Create(r) \/ Report(r) \/ Decrypt(r)
          \/ Abort(r)
    BY <1>2 DEF Next
  <2>2. QED
    BY <2>1, BeginStaysTyped, MergeStaysTyped, LoopStaysTyped, ReadStaysTyped,
       CreateStaysTyped, ReportStaysTyped, DecryptStaysTyped, AbortStaysTyped
<1>3. QED
  BY <1>1, <1>2

THEOREM RingInvariant == Spec => []RingInv
BY RingInvInit, RingInvStep, KeyInvariant, PTL DEF Spec

\* key_service.go:244-263, attr_format.go:25-94: whatever is asked for, in one of
\* the three ways an attribute is written, rows carry a name or a comparison as
\* their label; a version, and what a request reports, is at most the number of
\* rows, as no request counts beyond what it has seen.
THEOREM TypeCorrect == Spec => []TypeOK
<1>1. KeyInv /\ RingInv => TypeOK
  <2> SUFFICES ASSUME KeyInv, RingInv PROVE TypeOK
    OBVIOUS
  <2>1. ASSUME NEW x \in rows
        PROVE  /\ x.id \in 1..Cardinality(rows) /\ x.version \in 1..Cardinality(rows)
               /\ IsLabel(x.label) /\ x.seen < x.id /\ x.blind \in BOOLEAN
    BY DEF KeyInv, TableInv, RingInv, TypedRow
  <2>2. ASSUME NEW r \in Req
        PROVE  /\ req[r].pc \in {"idle", "merge", "loop", "read", "create", "report",
                                 "final", "done"}
               /\ req[r].pc \in {"create", "report"} => req[r].seen \in 0..Cardinality(rows)
               /\ req[r].alone \in BOOLEAN /\ req[r].fault \in BOOLEAN
               /\ req[r].enough \in BOOLEAN
               /\ req[r].own \in 0..Cardinality(rows) /\ req[r].said \in 0..Cardinality(rows)
    BY DEF KeyInv, RequestInv, RingInv, TypedRequest
  <2>3. QED
    BY <2>1, <2>2 DEF RingInv, TypeOK
<1>2. QED
  BY <1>1, KeyInvariant, RingInvariant, PTL
-----------------------------------------------------------------------------
(***************************************************************************)
(* Numbers and the bits a comparison asks for.                             *)
(***************************************************************************)
\* What a comparison other than == may be with, where it is validated.
Comparable(op, v) ==
  /\ op \in Compares \ {"=="}
  /\ v \in (IF op \in {">=", "<"} THEN 1 ELSE 0)..(2^NBit - 2)

\* The digit of the run that v ends with below the lowest bit asked for.
Run(op) == IF op \in {">", "<="} THEN 1 ELSE 0

LEMMA LowestBitIs ==
  ASSUME NEW op, NEW v, Comparable(op, v)
  PROVE  LET k == LowestBit(op, v)
         IN  /\ k \in 0..NBit - 1 /\ v \in Nat /\ v \in 0..2^NBit - 1 /\ Bit(v, k) # Run(op)
             /\ \A i \in 0..k - 1 : Bit(v, i) = Run(op)
<1> DEFINE b    == Run(op)
           Q(n) == Bit(v, n) # b /\ \A i \in 0..n - 1 : Bit(v, i) = b
<1>1. NBit \in Nat /\ 2^NBit \in Nat \ {0}
  BY KeyRingAssumption, PowersOfTwo
<1>2. b \in {0, 1} /\ v \in Nat /\ v \in 0..2^NBit - 1 /\ v # (IF b = 1 THEN 2^NBit - 1 ELSE 0)
  BY <1>1 DEF Comparable, Compares, Run
<1>3. \E k \in 0..NBit - 1 : Q(k)
  <2> DEFINE T == {k \in 0..NBit - 1 : Bit(v, k) # b}
  <2>1. T # {}
    <3>1. SUFFICES ASSUME \A i \in 0..NBit - 1 : (v \div 2^i) % 2 = b PROVE FALSE
      BY DEF Bit
    <3>2. v % 2^NBit = IF b = 1 THEN 2^NBit - 1 ELSE 0
      BY <1>1, <1>2, <3>1, EqualDigits
    <3>3. v % 2^NBit = v
      BY <1>1, <1>2, AllDigits
    <3>4. QED
      BY <1>2, <3>2, <3>3
  <2>2. PICK k \in T : \A m \in T : k <= m
    <3>1. T \subseteq Nat
      BY <1>1
    <3> HIDE DEF T
    <3>2. QED
      BY <2>1, <3>1, LeastNatural
  <2>3. \A i \in 0..k - 1 : Bit(v, i) = b
    BY <1>1, <2>2
  <2>4. QED
    BY <2>2, <2>3
<1>4. ~\A i \in 0..NBit - 1 : Bit(v, i) = b
  BY <1>3
<1>5. LowestBit(op, v) = CHOOSE n \in 0..NBit - 1 : Q(n)
  BY <1>4 DEF LowestBit, TrailingRun, Run
<1>6. LowestBit(op, v) \in 0..NBit - 1 /\ Q(LowestBit(op, v))
  <2> HIDE DEF Q
  <2>1. QED
    BY <1>3, <1>5
<1>7. QED
  BY <1>2, <1>6

\* A number that satisfies a comparison has a bit the comparison asks for: were
\* all of them otherwise, the highest bits would decide against it.
LEMMA DecidingBit ==
  ASSUME NEW op, NEW v, Comparable(op, v), NEW u \in Values,
         NumericCompareSatisfied(u, op, v)
  PROVE  \E i \in LowestBit(op, v)..(NBit - 1) : Bit(u, i) = Deciding(op)
<1> DEFINE k == LowestBit(op, v)
           b == Run(op)
           d == Deciding(op)
           x == u % 2^(k + 1)
           y == v % 2^(k + 1)
<1>1. /\ k \in 0..NBit - 1 /\ v \in Nat /\ v \in 0..2^NBit - 1 /\ Bit(v, k) # b
      /\ \A i \in 0..k - 1 : Bit(v, i) = b
  BY LowestBitIs
<1>2. NBit \in Nat /\ u \in Nat /\ k \in Nat /\ k + 1 \in Nat /\ k + 1 <= NBit
      /\ b \in {0, 1} /\ u % 2^NBit = u /\ v % 2^NBit = v
  BY <1>1, KeyRingAssumption, AllDigits, PowersOfTwo DEF Values, Run
<1>3. SUFFICES ASSUME \A i \in k..NBit - 1 : Bit(u, i) # d PROVE FALSE
  OBVIOUS
<1>4. \A i \in Nat : Bit(u, i) \in {0, 1} /\ Bit(v, i) \in {0, 1}
  BY <1>1, <1>2, Digits DEF Bit
<1>5. IF Bit(u, k) = 1 THEN IF b = 1 THEN y < x ELSE y <= x
                       ELSE IF b = 1 THEN x <= y ELSE x < y
  <2> HIDE DEF k, b
  <2>1. \A i \in 0..k - 1 : (v \div 2^i) % 2 = b
    BY <1>1 DEF Bit
  <2>2. (v \div 2^k) % 2 # b
    BY <1>1 DEF Bit
  <2>3. u \in Nat /\ v \in Nat /\ k \in Nat /\ b \in {0, 1}
    BY <1>1, <1>2
  <2>4. IF (u \div 2^k) % 2 = 1
        THEN IF b = 1 THEN v % 2^(k + 1) < u % 2^(k + 1) ELSE v % 2^(k + 1) <= u % 2^(k + 1)
        ELSE IF b = 1 THEN u % 2^(k + 1) <= v % 2^(k + 1) ELSE u % 2^(k + 1) < v % 2^(k + 1)
    BY ONLY <2>1, <2>2, <2>3, RunDecides, Zenon
  <2>5. QED
    BY <2>4 DEF Bit
<1>6. d \in {0, 1} /\ (d = 1 <=> op \in {">", ">="}) /\ (b = 1 <=> op \in {">", "<="})
      /\ op \in {">", ">=", "<", "<="}
  BY DEF Deciding, Run, Comparable, Compares
<1>7. NumericCompareSatisfied(u, op, v) <=>
        IF d = 1 THEN IF b = 1 THEN u > v ELSE u >= v ELSE IF b = 1 THEN u <= v ELSE u < v
  BY <1>6 DEF NumericCompareSatisfied
<1>8. k \in k..NBit - 1 /\ \A i \in (k + 1)..NBit - 1 : i \in k..NBit - 1 /\ i \in Nat
  BY <1>1, <1>2
<1> HIDE DEF k, b, d
<1>9. x \in Nat /\ y \in Nat
  <2>1. x \in 0..2^(k + 1) - 1 /\ y \in 0..2^(k + 1) - 1 /\ 2^(k + 1) \in Nat \ {0}
    BY <1>1, <1>2, Digits, PowersOfTwo
  <2>2. QED
    BY <2>1
<1>10. CASE d = 1
  <2>1. \A i \in k..NBit - 1 : Bit(u, i) = 0
    BY <1>1, <1>2, <1>3, <1>4, <1>10
  <2>2. \A i \in (k + 1)..NBit - 1 : (u \div 2^i) % 2 <= (v \div 2^i) % 2
    BY <1>4, <1>8, <2>1 DEF Bit
  <2>3. (x < y => u < v) /\ (x <= y => u <= v)
    <3>1. /\ x < y => u % 2^NBit < v % 2^NBit
          /\ x <= y => u % 2^NBit <= v % 2^NBit
      BY <1>1, <1>2, <2>2, DigitsDominate
    <3>2. QED
      BY <1>2, <3>1
  <2>4. ~(Bit(u, k) = 1)
    BY <1>8, <2>1
  <2>5. IF b = 1 THEN x <= y ELSE x < y
    BY <1>5, <2>4
  <2>6. IF b = 1 THEN u > v ELSE u >= v
    BY <1>7, <1>10
  <2> HIDE DEF x, y
  <2>7. QED
    BY <1>1, <1>2, <2>3, <2>5, <2>6
<1>11. CASE d = 0
  <2>1. \A i \in k..NBit - 1 : Bit(u, i) = 1
    BY <1>1, <1>2, <1>3, <1>4, <1>11
  <2>2. \A i \in (k + 1)..NBit - 1 : (v \div 2^i) % 2 <= (u \div 2^i) % 2
    BY <1>4, <1>8, <2>1 DEF Bit
  <2>3. (y < x => v < u) /\ (y <= x => v <= u)
    <3>1. /\ y < x => v % 2^NBit < u % 2^NBit
          /\ y <= x => v % 2^NBit <= u % 2^NBit
      BY <1>1, <1>2, <2>2, DigitsDominate
    <3>2. QED
      BY <1>2, <3>1
  <2>4. Bit(u, k) = 1
    BY <1>8, <2>1
  <2>5. IF b = 1 THEN y < x ELSE y <= x
    BY <1>5, <2>4
  <2>6. IF b = 1 THEN u <= v ELSE u < v
    BY <1>6, <1>7, <1>11
  <2> HIDE DEF x, y
  <2>7. QED
    BY <1>1, <1>2, <1>9, <2>3, <2>5, <2>6 DEF x, y
<1>12. QED
  BY <1>6, <1>10, <1>11

\* A number has as many keys as bits.
LEMMA BagSize ==
  ASSUME NEW a, NEW u
  PROVE  Cardinality(BagOfBits(a, u)) = NBit
<1> DEFINE T == 0..NBit - 1
           B == BagOfBits(a, u)
           f == [i \in T |-> <<a, i, Bit(u, i)>>]
<1>1. NBit \in Nat
  BY KeyRingAssumption
<1>2. IsFiniteSet(T) /\ Cardinality(T) = NBit
  <2>1. 0 \in Int /\ NBit - 1 \in Int
    BY <1>1
  <2>2. QED
    BY <1>1, <2>1, FS_Interval
<1>3. f \in Bijection(T, B)
  <2>1. f \in [T -> B] /\ \A i \in T : f[i] = <<a, i, Bit(u, i)>>
    BY DEF BagOfBits
  <2>2. \A i, j \in T : f[i] = f[j] => i = j
    BY <2>1
  <2>3. \A k \in B : \E i \in T : f[i] = k
    BY <2>1 DEF BagOfBits
  <2> HIDE DEF f, T, B
  <2>4. QED
    BY <2>1, <2>2, <2>3 DEF Bijection, Injection, Surjection, IsInjective
<1> HIDE DEF T, B, f
<1>4. Cardinality(B) = Cardinality(T)
  BY <1>2, <1>3, FS_Bijection DEF ExistsBijection
<1>5. QED
  BY <1>2, <1>4 DEF B
-----------------------------------------------------------------------------
(***************************************************************************)
(* The keys for a policy.                                                  *)
(***************************************************************************)
\* The keys a row with this label is taken to have, and a row that has them or,
\* issued for a text the server takes for a name, one of no use.
Keys(label) == IF IsComparison(label) THEN BagOfBits(label[1], label[3]) ELSE {label}

WellIssued(label, issue) ==
  IssueAttributeExpansion(issue) \in {Keys(label), {<<issue, "unparsed">>}}

\* The latest row of the label has its keys.
Provided(label) ==
  /\ Latest(label) # {}
  /\ \A x \in Latest(label) : IssueAttributeExpansion(x.issue) = Keys(label)

\* What a clause asks for, and the label of the row that is to answer it.
Vars(c)     == IF IsComparison(c) THEN ComparedBits(c[1], c[2], c[3]) ELSE {c}
LabelFor(c) == resolveAttrSpecForUser(c).label

\* The policies whose keys a request is to complete.
Completable(policy) ==
  /\ policy \in Policies /\ policy # <<>> /\ Validated(policy)
  /\ \A c \in Clauses(policy) :
       Entitled(c) /\ (IsComparison(c) /\ c[2] = "==" => Numbers(c[1]) = {})

LEMMA FirstNumberIs ==
  ASSUME NEW a, Numbers(a) # {}
  PROVE  LET x == FirstNumber(a)
         IN  x \in Written /\ HasNumber(x) /\ x[1] = a /\ x[2] \in Values
<1> DEFINE N == Numbers(a)
<1>1. N \subseteq DOMAIN Registered /\ DOMAIN Registered \subseteq Nat
  BY KeyRingAssumption DEF Numbers
<1>2. \E i \in N : \A j \in N : i <= j
  BY <1>1, LeastNatural
<1>3. Min(N) \in N
  BY <1>2 DEF Min
<1>4. Registered[Min(N)] \in Written
  BY <1>1, <1>3 DEF Written, ToSet
<1>5. HasNumber(Registered[Min(N)]) /\ Registered[Min(N)][1] = a
  BY <1>3 DEF Numbers
<1>6. QED
  BY <1>4, <1>5, KeyRingAssumption DEF FirstNumber

\* What a clause is resolved to, whichever of the three kinds it is.
Resolves(c, s, l) ==
  /\ s \in Specs /\ s # Refused /\ s.label = l
  /\ authorizeKeyIssue(s, c) /\ keyLabelsForPolicySpec(c) = {l}
  /\ IssueAttributeExpansion(s.issue) = Keys(l)
  /\ IsComparison(l) <=> IsComparison(c)
  /\ IsComparison(c) => /\ l[1] = c[1] /\ l[3] \in Values
                        /\ NumericCompareSatisfied(l[3], c[2], c[3])
  /\ ~IsComparison(c) => l = c /\ Len(c) = 1

LEMMA NameResolves ==
  ASSUME NEW c \in Written, Len(c) = 1, Entitled(c)
  PROVE  Resolves(c, resolveAttrSpecForUser(c), LabelFor(c))
<1> DEFINE s == resolveAttrSpecForUser(c)
<1>1. ~IsComparison(c) /\ ~HasNumber(c)
  BY DEF IsComparison, HasNumber
<1>2. s = parseAttrSpec(c) /\ parseAttrSpec(c) = [issue |-> c, label |-> c]
  BY <1>1 DEF resolveAttrSpecForUser, parseAttrSpec
<1>3. s.issue = c /\ s.label = c /\ LabelFor(c) = c
  BY <1>2 DEF LabelFor
<1>4. s \in Specs
  BY <1>2 DEF Specs
<1>5. s # Refused
  BY <1>3 DEF Refused
<1>6. IssueAttributeExpansion(c) = {c} /\ Keys(c) = {c}
  BY <1>1 DEF IssueAttributeExpansion, Keys
<1>7. keyLabelsForPolicySpec(c) = {c}
  BY <1>1, <1>2 DEF keyLabelsForPolicySpec
<1>8. authorizeKeyIssue(s, c)
  <2>1. CASE c[1] \in Locations
    BY <1>3, <2>1 DEF authorizeKeyIssue
  <2>2. CASE \E i \in DOMAIN Registered : Registered[i] = c
    BY <1>1, <1>2, <1>3, <2>2 DEF authorizeKeyIssue
  <2>3. QED
    BY <1>1, <2>1, <2>2 DEF Entitled
<1> HIDE DEF s
<1>9. QED
  BY <1>1, <1>3, <1>4, <1>5, <1>6, <1>7, <1>8 DEF Resolves, s

\* An hour compared by ==.
LEMMA HourResolves ==
  ASSUME NEW c \in Written, IsComparison(c), c[2] = "==", Numbers(c[1]) = {}, Entitled(c)
  PROVE  Resolves(c, resolveAttrSpecForUser(c), LabelFor(c))
<1> DEFINE s == resolveAttrSpecForUser(c)
           n == <<c[1], c[3]>>
<1>1. c[1] = "hour" /\ ~HasNumber(c) /\ c[3] \in Values
  BY KeyRingAssumption DEF Entitled, RegisteredSatisfies, IsComparison, HasNumber
<1>2. s = parseAttrSpec(c) /\ parseAttrSpec(c) = [issue |-> n, label |-> c]
  BY <1>1 DEF resolveAttrSpecForUser, parseAttrSpec
<1>3. s.issue = n /\ s.label = c /\ LabelFor(c) = c
  BY <1>2 DEF LabelFor
<1>4. Len(n) = 2 /\ n[1] = c[1] /\ n[2] = c[3]
  OBVIOUS
<1>5. s \in Specs
  BY <1>2 DEF Specs
<1>6. s # Refused
  BY <1>3 DEF Refused, IsComparison
<1> HIDE DEF n
<1>7. IssueAttributeExpansion(n) = Keys(c)
  <2>1. IssueAttributeExpansion(n) = BagOfBits(n[1], n[2])
    BY <1>4 DEF IssueAttributeExpansion, HasNumber, IsComparison
  <2>2. Keys(c) = BagOfBits(c[1], c[3])
    BY DEF Keys
  <2>3. QED
    BY <1>4, <2>1, <2>2
<1>8. keyLabelsForPolicySpec(c) = {c}
  BY <1>1, <1>2 DEF keyLabelsForPolicySpec
<1>9. authorizeKeyIssue(s, c)
  BY <1>1, <1>3, <1>4 DEF authorizeKeyIssue, HasNumber
<1>10. NumericCompareSatisfied(c[3], c[2], c[3])
  BY DEF NumericCompareSatisfied
<1> HIDE DEF s
<1>11. QED
  BY <1>1, <1>3, <1>5, <1>6, <1>7, <1>8, <1>9, <1>10 DEF Resolves, s

\* A comparison otherwise is answered with the number the user is registered with.
LEMMA NumberResolves ==
  ASSUME NEW c \in Written, IsComparison(c), c[2] # "==", Entitled(c)
  PROVE  Resolves(c, resolveAttrSpecForUser(c), LabelFor(c))
<1> DEFINE s == resolveAttrSpecForUser(c)
           x == FirstNumber(c[1])
           l == <<x[1], "==", x[2]>>
<1>1. RegisteredSatisfies(c) /\ Numbers(c[1]) # {} /\ NumericCompareSatisfied(x[2], c[2], c[3])
  BY DEF Entitled, RegisteredSatisfies
<1>2. x \in Written /\ HasNumber(x) /\ x[1] = c[1] /\ x[2] \in Values
  BY <1>1, FirstNumberIs
<1> HIDE DEF x
<1>3. s = parseAttrSpec(x) /\ parseAttrSpec(x) = [issue |-> x, label |-> l]
  <2>1. s = parseAttrSpec(x)
    BY <1>1 DEF resolveAttrSpecForUser, x
  <2>2. parseAttrSpec(x) = [issue |-> x, label |-> l]
    BY <1>2 DEF parseAttrSpec, HasNumber, IsComparison
  <2>3. QED
    BY <2>1, <2>2
<1>4. s.issue = x /\ s.label = l /\ LabelFor(c) = l
  BY <1>3 DEF LabelFor
<1>5. IsComparison(l) /\ l[1] = c[1] /\ l[3] = x[2]
  BY <1>2, ThreeParts DEF IsComparison
<1>6. s \in Specs
  BY <1>2, <1>3 DEF Specs
<1> HIDE DEF l
<1>7. s # Refused
  BY <1>4, <1>5 DEF Refused, IsComparison
<1>8. IssueAttributeExpansion(x) = Keys(l)
  <2>1. IssueAttributeExpansion(x) = BagOfBits(x[1], x[2])
    BY <1>2 DEF IssueAttributeExpansion, HasNumber, IsComparison
  <2>2. Keys(l) = BagOfBits(l[1], l[3])
    BY <1>5 DEF Keys
  <2>3. QED
    BY <1>2, <1>5, <2>1, <2>2
<1>9. keyLabelsForPolicySpec(c) = {l}
  BY <1>4, <1>7 DEF keyLabelsForPolicySpec
<1>10. authorizeKeyIssue(s, c)
  BY <1>7 DEF authorizeKeyIssue
<1> HIDE DEF s
<1>11. QED
  BY <1>1, <1>2, <1>4, <1>5, <1>6, <1>7, <1>8, <1>9, <1>10 DEF Resolves, s

LEMMA ClauseResolves ==
  ASSUME NEW policy, Completable(policy), NEW c \in Clauses(policy)
  PROVE  c \in Written /\ Resolves(c, resolveAttrSpecForUser(c), LabelFor(c))
<1>1. c \in Written /\ ~HasNumber(c) /\ Entitled(c)
      /\ (IsComparison(c) /\ c[2] = "==" => Numbers(c[1]) = {})
  BY KeyRingAssumption DEF Completable, Clauses, Written
<1>2. IsComparison(c) \/ Len(c) = 1
  BY <1>1, KeyRingAssumption DEF HasNumber, IsComparison
<1>3. QED
  BY <1>1, <1>2, NameResolves, HourResolves, NumberResolves

\* A comparison asks for a bit of the number that answers it.
LEMMA ClauseHasKeys ==
  ASSUME NEW policy, Completable(policy), NEW c \in Clauses(policy)
  PROVE  \E k \in Keys(LabelFor(c)) : k \in Vars(c)
<1> DEFINE l == LabelFor(c)
<1>1. c \in Written /\ Resolves(c, resolveAttrSpecForUser(c), l)
  BY ClauseResolves
<1>2. CASE ~IsComparison(c)
  BY <1>1, <1>2 DEF Resolves, Keys, Vars
<1>3. CASE IsComparison(c)
  <2>1. /\ IsComparison(l) /\ l[1] = c[1] /\ l[3] \in Values
        /\ NumericCompareSatisfied(l[3], c[2], c[3])
        /\ c[2] \in Compares /\ c[3] \in Values
    BY <1>1, <1>3, KeyRingAssumption DEF Resolves
  <2>2. Keys(l) = {<<c[1], i, Bit(l[3], i)>> : i \in 0..NBit - 1}
    BY <2>1 DEF Keys, BagOfBits
  <2>3. CASE c[2] = "=="
    <3>1. l[3] = c[3]
      BY <2>1, <2>3 DEF NumericCompareSatisfied
    <3>2. Vars(c) = Keys(l)
      BY <1>3, <2>1, <2>3, <3>1 DEF Vars, ComparedBits, Keys
    <3>3. 0 \in 0..NBit - 1
      BY KeyRingAssumption
    <3>4. QED
      BY <2>2, <3>2, <3>3
  <2>4. CASE c[2] # "=="
    <3>1. Comparable(c[2], c[3])
      BY <1>3, <2>1, <2>4 DEF Comparable, Completable, Validated
    <3>2. PICK i \in LowestBit(c[2], c[3])..(NBit - 1) : Bit(l[3], i) = Deciding(c[2])
      BY <2>1, <3>1, DecidingBit
    <3>3. LowestBit(c[2], c[3]) \in 0..NBit - 1 /\ NBit \in Nat
      BY <3>1, LowestBitIs, KeyRingAssumption
    <3>4. i \in 0..NBit - 1
      BY <3>3
    <3>5. <<c[1], i, Bit(l[3], i)>> \in Keys(l)
      BY <2>2, <3>4
    <3>6. <<c[1], i, Deciding(c[2])>> \in Vars(c)
      BY <1>3, <2>4 DEF Vars, ComparedBits
    <3>7. QED
      BY <3>2, <3>5, <3>6
  <2>5. QED
    BY <2>3, <2>4
<1>4. QED
  BY <1>2, <1>3

\* The labels merged for such a policy are those of its clauses that have rows.
LEMMA MergedAre ==
  ASSUME NEW policy, Completable(policy)
  PROVE  MergedLabels(policy) = {l \in Labels : \E c \in Clauses(policy) : l = LabelFor(c)}
<1> DEFINE want  == UNION {keyLabelsForPolicySpec(c) : c \in Clauses(policy)}
           found == {l \in Labels : want = {} \/ l \in want}
           ours  == {l \in Labels : \E c \in Clauses(policy) : l = LabelFor(c)}
<1>1. \A c \in Clauses(policy) :
        /\ keyLabelsForPolicySpec(c) = {LabelFor(c)}
        /\ IsComparison(LabelFor(c)) <=> IsComparison(c)
        /\ Rank(LabelFor(c)) \in Int
  <2> SUFFICES ASSUME NEW c \in Clauses(policy)
               PROVE  /\ keyLabelsForPolicySpec(c) = {LabelFor(c)}
                      /\ IsComparison(LabelFor(c)) <=> IsComparison(c)
                      /\ Rank(LabelFor(c)) \in Int
    OBVIOUS
  <2>1. Resolves(c, resolveAttrSpecForUser(c), LabelFor(c))
    BY ClauseResolves
  <2>2. PICK x \in Written : resolveAttrSpecForUser(c) = parseAttrSpec(x)
    BY <2>1 DEF Resolves, Specs
  <2>3. Rank(LabelFor(c)) \in Int
    BY <2>2, RankAssumption DEF LabelFor
  <2>4. QED
    BY <2>1, <2>3 DEF Resolves
<1>2. PICK c \in Clauses(policy) : TRUE
  <2>1. policy \in Seq(ToSet(policy)) /\ policy # <<>>
    BY KeyRingAssumption DEF Completable
  <2>2. Len(policy) \in Nat \ {0} /\ DOMAIN policy = 1..Len(policy)
    BY <2>1, NotEmpty
  <2>3. policy[1] \in ToSet(policy)
    BY <2>2 DEF ToSet
  <2>4. QED
    BY <2>3 DEF Clauses
<1>3. want = {LabelFor(d) : d \in Clauses(policy)}
  BY <1>1
<1>4. want # {}
  BY <1>2, <1>3
<1>5. found = ours
  BY <1>3, <1>4
<1>6. ASSUME NEW l \in ours, IsHour(l), NEW k \in ours, IsHour(k)
      PROVE  Rank(l) <= Rank(k)
  <2>1. PICK d \in Clauses(policy), e \in Clauses(policy) : l = LabelFor(d) /\ k = LabelFor(e)
    OBVIOUS
  <2>2. d = e
    BY <1>1, <1>6, <2>1 DEF IsHour, Completable, Validated
  <2>3. QED
    BY <1>1, <2>1, <2>2
<1>7. MergedLabels(policy) = {l \in found : IsHour(l) =>
        \A k \in found : IsHour(k) => Rank(l) <= Rank(k)}
  BY DEF MergedLabels
<1> HIDE DEF want, found, ours
<1>8. MergedLabels(policy) = ours
  BY <1>5, <1>6, <1>7
<1>9. QED
  BY <1>8 DEF ours

\* No two rows are the latest of a label, when no version is given twice.
LEMMA OneIsLatest ==
  ASSUME KeyInv, VersionsUnique, NEW l, NEW x \in Latest(l), NEW y \in Latest(l)
  PROVE  x = y
<1>1. x \in rows /\ y \in rows /\ x.label = l /\ y.label = l
  BY DEF Latest, Of
<1>2. x.version <= y.version /\ y.version <= x.version
  BY DEF Latest
<1>3. x.version \in Nat /\ y.version \in Nat
  BY <1>1 DEF KeyInv, TableInv
<1>4. QED
  BY <1>1, <1>2, <1>3 DEF VersionsUnique

\* The keys merged are those of the latest rows.
LEMMA MergedKeys ==
  ASSUME KeyInv, VersionsUnique, NEW policy, Completable(policy), NEW keys \in Merges(policy)
  PROVE  /\ \A c \in Clauses(policy) : \A x \in Latest(LabelFor(c)) :
              IssueAttributeExpansion(x.issue) \subseteq keys
         /\ \A k \in keys : \E c \in Clauses(policy) : \E x \in Latest(LabelFor(c)) :
              k \in IssueAttributeExpansion(x.issue)
<1> DEFINE ls == MergedLabels(policy)
<1>1. PICK pick \in [ls -> rows] :
        /\ \A l \in ls : pick[l] \in Latest(l)
        /\ keys = UNION {IssueAttributeExpansion(pick[l].issue) : l \in ls}
  BY DEF Merges
<1>2. ls = {l \in Labels : \E c \in Clauses(policy) : l = LabelFor(c)}
  BY MergedAre
<1> HIDE DEF ls
<1>3. ASSUME NEW c \in Clauses(policy), NEW x \in Latest(LabelFor(c))
      PROVE  IssueAttributeExpansion(x.issue) \subseteq keys
  <2>1. LabelFor(c) \in ls
    BY <1>2 DEF Latest, Of, Labels
  <2>2. pick[LabelFor(c)] = x
    BY <1>1, <2>1, OneIsLatest
  <2>3. QED
    BY <1>1, <2>1, <2>2
<1>4. ASSUME NEW k \in keys
      PROVE  \E c \in Clauses(policy) : \E x \in Latest(LabelFor(c)) :
               k \in IssueAttributeExpansion(x.issue)
  <2>1. PICK l \in ls : k \in IssueAttributeExpansion(pick[l].issue)
    BY <1>1
  <2>2. pick[l] \in Latest(l)
    BY <1>1
  <2>3. QED
    BY <1>2, <2>1, <2>2
<1>5. QED
  BY <1>3, <1>4

\* What the table holds is well issued.
RowsIssued == \A x \in rows : WellIssued(x.label, x.issue)

\* The parts of a key tell names, bits and what is of no use apart.
LEMMA KeysApart ==
  ASSUME NEW label, NEW k \in Keys(label)
  PROVE  /\ IsComparison(label) => Len(k) = 3 /\ k[1] = label[1]
         /\ ~IsComparison(label) => k = label
BY ThreeParts DEF Keys, BagOfBits

LEMMA Unparsed == ASSUME NEW issue PROVE Len(<<issue, "unparsed">>) = 2
OBVIOUS

\* The keys there are for a clause: all that its label stands for or none.
LEMMA ClauseKeys ==
  ASSUME KeyInv, VersionsUnique, RowsIssued, NEW policy, Completable(policy),
         NEW keys \in Merges(policy), NEW c \in Clauses(policy)
  PROVE  LET l == LabelFor(c)
             K == IF IsComparison(c) THEN {k \in keys : Len(k) = 3 /\ k[1] = c[1]}
                  ELSE {k \in keys : k = c}
         IN  K = IF Provided(l) THEN Keys(l) ELSE {}
<1> DEFINE l == LabelFor(c)
           Mine(k) == IF IsComparison(c) THEN Len(k) = 3 /\ k[1] = c[1] ELSE k = c
<1>1. \A d \in Clauses(policy) :
        /\ IsComparison(LabelFor(d)) <=> IsComparison(d)
        /\ IsComparison(d) => LabelFor(d)[1] = d[1]
        /\ ~IsComparison(d) => LabelFor(d) = d /\ Len(d) = 1
  BY ClauseResolves DEF Resolves
<1>2. \A k \in Keys(l) : Mine(k)
  BY <1>1, KeysApart
<1>3. ASSUME NEW k \in keys, Mine(k)
      PROVE  k \in Keys(l) /\ Provided(l)
  <2>1. PICK d \in Clauses(policy) :
          \E x \in Latest(LabelFor(d)) : k \in IssueAttributeExpansion(x.issue)
    BY MergedKeys
  <2>2. PICK x \in Latest(LabelFor(d)) : k \in IssueAttributeExpansion(x.issue)
    BY <2>1
  <2>3. WellIssued(LabelFor(d), x.issue)
    BY DEF RowsIssued, Latest, Of
  <2>4. Len(k) # 2
    BY <1>1, <1>3
  <2>5. IssueAttributeExpansion(x.issue) = Keys(LabelFor(d)) /\ k \in Keys(LabelFor(d))
    BY <2>2, <2>3, <2>4, Unparsed DEF WellIssued
  <2>6. d = c
    <3>1. CASE IsComparison(c)
      <4>1. IsComparison(d)
        BY <1>1, <1>3, <2>5, <3>1, KeysApart
      <4>2. QED
        BY <3>1, <4>1 DEF Completable, Validated
    <3>2. CASE ~IsComparison(c)
      <4>1. k = c /\ Len(c) = 1
        BY <1>1, <1>3, <3>2
      <4>2. ~IsComparison(d)
        BY <1>1, <2>5, <4>1, KeysApart
      <4>3. k = d
        BY <1>1, <2>5, <4>2, KeysApart
      <4>4. QED
        BY <4>1, <4>3
    <3>3. QED
      BY <3>1, <3>2
  <2>7. \A y \in Latest(l) : IssueAttributeExpansion(y.issue) = Keys(l)
    BY <2>5, <2>6, OneIsLatest
  <2>8. QED
    BY <2>5, <2>6, <2>7 DEF Provided
<1>4. ASSUME Provided(l)
      PROVE  Keys(l) \subseteq keys
  BY <1>4, MergedKeys DEF Provided
<1>5. {k \in keys : Mine(k)} = IF Provided(l) THEN Keys(l) ELSE {}
  BY <1>2, <1>3, <1>4
<1>6. QED
  BY <1>5

\* Nothing is missing of a clause that is provided for.
LEMMA ProvidedIsNotMissed ==
  ASSUME KeyInv, VersionsUnique, RowsIssued, NEW policy, Completable(policy),
         NEW keys \in Merges(policy), NEW c \in Clauses(policy), Provided(LabelFor(c)),
         NEW x \in Vars(c)
  PROVE  x \notin Missing(policy, keys)
<1> DEFINE l == LabelFor(c)
<1>1. Resolves(c, resolveAttrSpecForUser(c), l)
  BY ClauseResolves
<1>2. CASE ~IsComparison(c)
  <2>1. x = c /\ Keys(l) = {c}
    BY <1>1, <1>2 DEF Vars, Resolves, Keys
  <2>2. x \in keys
    <3>1. {k \in keys : k = c} = Keys(l)
      BY <1>2, ClauseKeys, ZenonT(60)
    <3>2. QED
      BY <2>1, <3>1
  <2>3. QED
    BY <2>2 DEF Missing
<1>3. CASE IsComparison(c)
  <2> DEFINE B == {k \in keys : Len(k) = 3 /\ k[1] = c[1]}
  <2>1. B = Keys(l) /\ Keys(l) = BagOfBits(c[1], l[3])
    <3>1. B = Keys(l)
      BY <1>3, ClauseKeys, ZenonT(60)
    <3>2. IsComparison(l) /\ l[1] = c[1]
      BY <1>1, <1>3 DEF Resolves
    <3>3. QED
      BY <3>1, <3>2 DEF Keys
  <2>2. CASE c[2] = "=="
    <3>1. l[3] = c[3]
      BY <1>1, <1>3, <2>2 DEF Resolves, NumericCompareSatisfied
    <3>2. x \in BagOfBits(c[1], c[3])
      BY <1>3, <2>2 DEF Vars, ComparedBits
    <3>3. x \in keys
      BY <2>1, <3>1, <3>2
    <3>4. QED
      BY <3>3 DEF Missing
  <2>3. CASE c[2] # "=="
    <3>1. Cardinality(BagOfBits(c[1], l[3])) = NBit
      BY BagSize
    <3>2. HasBitKeys(keys, c[1])
      <4>1. Cardinality(B) = NBit
        BY <2>1, <3>1
      <4>2. Cardinality(B) >= NBit
        BY <4>1, KeyRingAssumption
      <4>3. QED
        BY <4>2 DEF HasBitKeys
    <3>3. Len(x) = 3 /\ x[1] = c[1]
      BY <1>3, <2>3, ThreeParts DEF Vars, ComparedBits
    <3>4. QED
      BY <1>3, <2>3, <3>2, <3>3 DEF Missing
  <2>4. QED
    BY <2>2, <2>3
<1>4. QED
  BY <1>2, <1>3

\* A key of what its label stands for is missing of a clause that is not.
LEMMA OthersAreMissed ==
  ASSUME KeyInv, VersionsUnique, RowsIssued, NEW policy, Completable(policy),
         NEW keys \in Merges(policy), NEW c \in Clauses(policy), ~Provided(LabelFor(c))
  PROVE  \E k \in Keys(LabelFor(c)) : k \in Missing(policy, keys)
<1> DEFINE l == LabelFor(c)
<1>1. Resolves(c, resolveAttrSpecForUser(c), l)
  BY ClauseResolves
<1>2. PICK k \in Keys(l) : k \in Vars(c)
  BY ClauseHasKeys
<1>3. k \in PolicyVars(policy)
  BY <1>2 DEF PolicyVars, Vars
<1>4. CASE ~IsComparison(c)
  <2>1. k = c /\ Len(c) = 1
    BY <1>1, <1>2, <1>4, KeysApart DEF Resolves
  <2>2. k \notin keys
    BY <1>4, <2>1, ClauseKeys
  <2>3. QED
    BY <1>2, <1>3, <2>1, <2>2 DEF Missing
<1>5. CASE IsComparison(c)
  <2> DEFINE B == {j \in keys : Len(j) = 3 /\ j[1] = c[1]}
  <2>1. B = {}
    BY <1>5, ClauseKeys
  <2>2. Len(k) = 3 /\ k[1] = c[1]
    BY <1>1, <1>2, <1>5, KeysApart DEF Resolves
  <2>3. k \notin keys
    BY <2>1, <2>2
  <2>4. ~HasBitKeys(keys, c[1])
    <3>1. Cardinality({}) = 0
      BY FS_EmptySet
    <3>2. Cardinality(B) = 0
      BY <2>1, <3>1
    <3>3. ~(Cardinality(B) >= NBit)
      BY <3>2, KeyRingAssumption
    <3>4. QED
      BY <3>3 DEF HasBitKeys
  <2>5. QED
    BY <1>2, <1>3, <2>2, <2>3, <2>4 DEF Missing
<1>6. QED
  BY <1>4, <1>5

LEMMA MissingIsAskedFor ==
  ASSUME NEW policy, NEW keys, NEW x \in Missing(policy, keys)
  PROVE  \E c \in Clauses(policy) : x \in Vars(c)
BY DEF Missing, PolicyVars, Vars

\* The keys of a policy that is provided for suffice for it.
LEMMA ProvidedSuffices ==
  ASSUME KeyInv, VersionsUnique, RowsIssued, NEW policy, Completable(policy),
         NEW keys \in Merges(policy), \A c \in Clauses(policy) : Provided(LabelFor(c))
  PROVE  Sufficient(policy, keys)
<1> SUFFICES ASSUME NEW c \in Clauses(policy)
             PROVE  IF IsComparison(c)
                    THEN \E u \in Values : /\ BagOfBits(c[1], u) \subseteq keys
                                           /\ NumericCompareSatisfied(u, c[2], c[3])
                    ELSE c \in keys
  BY DEF Sufficient
<1> DEFINE l == LabelFor(c)
<1>1. Resolves(c, resolveAttrSpecForUser(c), l)
  BY ClauseResolves
<1>2. CASE ~IsComparison(c)
  <2>1. Keys(l) = {c} /\ Provided(l)
    BY <1>1, <1>2 DEF Resolves, Keys
  <2>2. {k \in keys : k = c} = Keys(l)
    BY <1>2, <2>1, ClauseKeys
  <2>3. QED
    BY <1>2, <2>1, <2>2
<1>3. CASE IsComparison(c)
  <2>1. IsComparison(l) /\ l[1] = c[1] /\ l[3] \in Values
        /\ NumericCompareSatisfied(l[3], c[2], c[3])
    BY <1>1, <1>3 DEF Resolves
  <2>2. {k \in keys : Len(k) = 3 /\ k[1] = c[1]} = Keys(l)
    BY <1>3, ClauseKeys
  <2>3. BagOfBits(c[1], l[3]) \subseteq keys
    BY <2>1, <2>2 DEF Keys
  <2>4. QED
    BY <1>3, <2>1, <2>3
<1>4. QED
  BY <1>2, <1>3

\* A clause that needs no issue is provided for, and one that does is refused
\* to nobody.
LEMMA NoNeedIsProvided ==
  ASSUME KeyInv, VersionsUnique, RowsIssued, NEW policy, Completable(policy),
         NEW keys \in Merges(policy), NEW c \in Clauses(policy),
         ~specNeedsIssue(c, Missing(policy, keys))
  PROVE  Provided(LabelFor(c))
<1>1. Resolves(c, resolveAttrSpecForUser(c), LabelFor(c))
  BY ClauseResolves
<1>2. Keys(LabelFor(c)) \cap Missing(policy, keys) = {}
  BY <1>1 DEF specNeedsIssue, Resolves
<1>3. QED
  BY <1>2, OthersAreMissed
-----------------------------------------------------------------------------
(***************************************************************************)
(* A decryption that nothing disturbs.  What is left to do shrinks to      *)
(* nothing while every clause that is done with is provided for.           *)
(***************************************************************************)
Undisturbed(q) == q.pc # "idle" /\ q.alone /\ ~q.fault /\ Completable(q.policy)

\* Each clause is still to come, provided for, or the one whose key is under way.
InHand(q) ==
  /\ ToSet(q.todo) \subseteq Clauses(q.policy)
  /\ \A c \in Clauses(q.policy) :
       \/ c \in ToSet(q.todo)
       \/ Provided(LabelFor(c))
       \/ q.pc \in {"read", "create"} /\ LabelFor(c) = q.label

Progress(q) ==
  /\ q.pc \in {"merge", "loop", "read", "create", "report"} => InHand(q)
  /\ q.pc = "loop" =>
       q.missing # {} /\ \E keys \in Merges(q.policy) : q.missing = Missing(q.policy, keys)
  /\ q.pc \in {"read", "create"} => IssueAttributeExpansion(q.issue) = Keys(q.label)
  /\ q.pc = "final" => \A c \in Clauses(q.policy) : Provided(LabelFor(c))
  /\ q.pc = "done" => q.enough

Serves(q) ==
  /\ q.policy # <<>> => q.policy \in Policies
  /\ q.pc \in {"read", "create"} => WellIssued(q.label, q.issue)
  /\ VersionsUnique /\ Undisturbed(q) => Progress(q)

ServeInv == RowsIssued /\ \A r \in Req : Serves(req[r])

LEMMA SpecsAreWellIssued ==
  ASSUME NEW spec \in Specs
  PROVE  WellIssued(spec.label, spec.issue)
<1>1. PICK x \in Written : spec = parseAttrSpec(x)
  BY DEF Specs
<1>2. CASE HasNumber(x)
  <2> DEFINE l == <<x[1], "==", x[2]>>
  <2>1. spec.issue = x /\ spec.label = l
    BY <1>1, <1>2 DEF parseAttrSpec, HasNumber, IsComparison
  <2>2. IsComparison(l) /\ l[1] = x[1] /\ l[3] = x[2]
    BY ThreeParts DEF IsComparison
  <2>3. IssueAttributeExpansion(x) = BagOfBits(x[1], x[2])
    BY <1>2 DEF IssueAttributeExpansion, HasNumber, IsComparison
  <2>4. Keys(l) = BagOfBits(l[1], l[3])
    BY <2>2 DEF Keys
  <2> HIDE DEF l
  <2>5. IssueAttributeExpansion(x) = Keys(l)
    BY <2>2, <2>3, <2>4
  <2>6. QED
    BY <2>1, <2>5 DEF WellIssued
<1>3. CASE IsComparison(x) /\ x[1] = "hour"
  <2> DEFINE n == <<x[1], x[3]>>
  <2>1. spec.issue = n /\ spec.label = x
    BY <1>1, <1>3 DEF parseAttrSpec, HasNumber, IsComparison
  <2>2. Len(n) = 2 /\ n[1] = x[1] /\ n[2] = x[3]
    OBVIOUS
  <2> HIDE DEF n
  <2>3. IssueAttributeExpansion(n) = BagOfBits(n[1], n[2])
    BY <2>2 DEF IssueAttributeExpansion, HasNumber, IsComparison
  <2>4. Keys(x) = BagOfBits(x[1], x[3])
    BY <1>3 DEF Keys
  <2>5. IssueAttributeExpansion(n) = Keys(x)
    BY <2>2, <2>3, <2>4
  <2>6. QED
    BY <2>1, <2>5 DEF WellIssued
<1>4. CASE IsComparison(x) /\ x[1] # "hour"
  <2>1. spec.issue = x /\ IssueAttributeExpansion(x) = {<<x, "unparsed">>}
    BY <1>1, <1>4 DEF parseAttrSpec, IssueAttributeExpansion, HasNumber, IsComparison
  <2>2. QED
    BY <2>1 DEF WellIssued
<1>5. CASE ~HasNumber(x) /\ ~IsComparison(x)
  <2>1. spec.issue = x /\ spec.label = x /\ IssueAttributeExpansion(x) = {x} /\ Keys(x) = {x}
    BY <1>1, <1>5 DEF parseAttrSpec, IssueAttributeExpansion, Keys
  <2>2. QED
    BY <2>1 DEF WellIssued
<1>6. QED
  BY <1>2, <1>3, <1>4, <1>5

LEMMA ServeInvInit == Init => ServeInv
BY DEF Init, ServeInv, RowsIssued, Serves, Undisturbed, Idle

\* What a request has been told is kept by a step of another that leaves the
\* table or adds to it.
LEMMA OthersAreServed ==
  ASSUME KeyInv, ServeInv, NEW r \in Req, Active(r), rows \subseteq rows',
         NEW s \in Req \ {r}, req'[s] = req[s]
  PROVE  Serves(req[s])'
<1>1. Serves(req[s]) /\ (Active(s) => ~req[s].alone)
  BY DEF KeyInv, AloneInv, ServeInv
<1>2. VersionsUnique' => VersionsUnique
  BY DEF VersionsUnique
<1>3. ASSUME VersionsUnique', Undisturbed(req[s])
      PROVE  req[s].pc = "done" /\ req[s].enough
  <2>1. req[s].pc = "done"
    BY <1>1, <1>3 DEF Undisturbed, Active
  <2>2. QED
    BY <1>1, <1>2, <1>3, <2>1 DEF Serves, Progress
<1>4. (VersionsUnique /\ Undisturbed(req[s]) => Progress(req[s]))'
  <2> SUFFICES ASSUME VersionsUnique', Undisturbed(req[s])' PROVE Progress(req[s])'
    OBVIOUS
  <2>1. Undisturbed(req[s])
    BY DEF Undisturbed, Completable, Validated, Clauses, Entitled, RegisteredSatisfies, Numbers, FirstNumber
  <2>2. req'[s].pc = "done" /\ req'[s].enough
    BY <1>3, <2>1
  <2>3. QED
    BY <2>2 DEF Progress
<1>5. QED
  BY <1>1, <1>4 DEF Serves, WellIssued, IssueAttributeExpansion, Keys

LEMMA SetServes ==
  ASSUME KeyInv, ServeInv, NEW r \in Req, NEW q, Active(r), Set(r, q), rows' = rows, Serves(q)
  PROVE  ServeInv'
<1>1. req'[r] = q /\ \A s \in Req \ {r} : req'[s] = req[s]
  BY DEF KeyInv, Set
<1>2. Serves(req[r])'
  <2>1. Serves(q) /\ req'[r] = q
    BY <1>1
  <2>2. VersionsUnique' <=> VersionsUnique
    BY DEF VersionsUnique
  <2>3. \A l : Provided(l)' <=> Provided(l)
    BY DEF Provided, Latest, Of
  <2>4. \A policy : Merges(policy)' = Merges(policy)
    BY DEF Merges, MergedLabels, Labels, Latest, Of
  <2>5. InHand(req[r])' <=> InHand(q)
    BY <2>1, <2>3 DEF InHand
  <2>6. Progress(req[r])' <=> Progress(q)
    BY <2>1, <2>3, <2>4, <2>5 DEF Progress
  <2>7. QED
    BY <2>1, <2>2, <2>6 DEF Serves, Undisturbed
<1>3. \A s \in Req \ {r} : Serves(req[s])'
  BY <1>1, OthersAreServed
<1>4. RowsIssued'
  BY DEF ServeInv, RowsIssued
<1>5. QED
  BY <1>2, <1>3, <1>4 DEF ServeInv

\* A new request tells the others that they are not alone.
LEMMA BeginServes ==
  ASSUME KeyInv, RingInv, ServeInv, NEW r \in Req, NEW q, req[r].pc = "idle", Begin(r, q),
         rows' = rows, DOMAIN q = DOMAIN Idle, \A b : Serves([q EXCEPT !.alone = b])
  PROVE  ServeInv'
<1>1. VersionsUnique' <=> VersionsUnique
  BY DEF VersionsUnique
<1>2. \A l : Provided(l)' <=> Provided(l)
  BY DEF Provided, Latest, Of
<1>3. \A policy : Merges(policy)' = Merges(policy)
  BY DEF Merges, MergedLabels, Labels, Latest, Of
<1>4. ASSUME NEW s \in Req, NEW p, req'[s] = p, Serves(p)
      PROVE  Serves(req[s])'
  <2>1. InHand(req[s])' <=> InHand(p)
    BY <1>2, <1>4 DEF InHand
  <2>2. Progress(req[s])' <=> Progress(p)
    BY <1>2, <1>3, <1>4, <2>1 DEF Progress
  <2>3. QED
    BY <1>1, <1>4, <2>2 DEF Serves, Undisturbed
<1>5. Serves(req[r])'
  <2>1. PICK b : req'[r] = [q EXCEPT !.alone = b]
    BY DEF Begin
  <2>2. QED
    BY <1>4, <2>1
<1>6. ASSUME NEW s \in Req \ {r} PROVE Serves(req[s])'
  <2>1. Serves(req[s]) /\ DOMAIN req[s] = DOMAIN Idle
    BY DEF ServeInv, KeyInv, RequestInv
  <2>2. CASE req'[s] = req[s]
    BY <1>4, <2>1, <2>2
  <2>3. CASE req'[s] = [req[s] EXCEPT !.alone = FALSE]
    <3> DEFINE p == [req[s] EXCEPT !.alone = FALSE]
    <3>1. /\ p.policy = req[s].policy /\ p.pc = req[s].pc /\ p.label = req[s].label
          /\ p.issue = req[s].issue /\ p.alone = FALSE
      BY <2>1 DEF Idle
    <3>2. req'[s] = p
      BY <2>3
    <3> HIDE DEF p
    <3>3. Serves(p)
      BY <2>1, <3>1 DEF Serves, Undisturbed
    <3>4. QED
      BY <1>4, <3>2, <3>3
  <2>4. QED
    BY <2>2, <2>3 DEF Begin
<1>7. RowsIssued'
  BY DEF ServeInv, RowsIssued
<1>8. QED
  BY <1>5, <1>6, <1>7 DEF ServeInv

\* A request for keys rather than a policy serves none.
LEMMA IssueServes ==
  ASSUME NEW q, DOMAIN q = DOMAIN Idle, q.policy = <<>>,
         NEW specs \in Seq(Specs), specs # <<>>
  PROVE  LET p == IssueNext(q, specs)
         IN  /\ \A b : Serves([p EXCEPT !.alone = b])
             /\ \A b : Serves([p EXCEPT !.fault = b]) /\ Serves(p)
<1> DEFINE p == IssueNext(q, specs)
<1>1. Head(specs) \in Specs
  OBVIOUS
<1>2. WellIssued(Head(specs).label, Head(specs).issue)
  BY <1>1, SpecsAreWellIssued
<1>3. /\ DOMAIN p = DOMAIN Idle /\ p.pc = "read" /\ p.policy = <<>>
      /\ p.label = Head(specs).label /\ p.issue = Head(specs).issue
  BY DEF IssueNext, Idle
<1> HIDE DEF p
<1>4. ASSUME NEW f, f.policy = <<>>, f.label = p.label, f.issue = p.issue
      PROVE  Serves(f)
  BY <1>2, <1>3, <1>4 DEF Serves, Undisturbed, Completable
<1>5. \A b : LET f == [p EXCEPT !.alone = b]
                 g == [p EXCEPT !.fault = b]
             IN  /\ f.policy = <<>> /\ f.label = p.label /\ f.issue = p.issue
                 /\ g.policy = <<>> /\ g.label = p.label /\ g.issue = p.issue
  BY <1>3 DEF Idle
<1>6. QED
  BY <1>3, <1>4, <1>5 DEF p

LEMMA BeginStepServes ==
  ASSUME KeyInv, RingInv, ServeInv, NEW r \in Req,
         \/ \E x \in Asked : RequestKey(r, x)
         \/ \E hour \in AutoAsked, loc \in Locations : RequestAutoKeys(r, hour, loc)
         \/ \E p \in Policies : EnsureKeysForPolicy(r, p)
  PROVE  ServeInv'
<1>1. DOMAIN Idle = DOMAIN Idle /\ Idle.policy = <<>>
  BY DEF Idle
<1>2. ASSUME NEW specs \in Seq(Specs), specs # <<>>, req[r].pc = "idle",
             Begin(r, IssueNext(Idle, specs)), rows' = rows
      PROVE  ServeInv'
  <2> DEFINE q == IssueNext(Idle, specs)
  <2>1. \A b : Serves([q EXCEPT !.alone = b])
    BY <1>1, <1>2, IssueServes
  <2>2. DOMAIN q = DOMAIN Idle
    BY DEF IssueNext, Idle
  <2>3. Begin(r, q)
    BY <1>2
  <2> HIDE DEF q
  <2>4. QED
    BY <1>2, <2>1, <2>2, <2>3, BeginServes
<1>3. ASSUME NEW x \in Asked, RequestKey(r, x)
      PROVE  ServeInv'
  <2>1. parseAttrSpec(x) \in Specs
    BY DEF Specs, Written
  <2>2. <<parseAttrSpec(x)>> \in Seq(Specs) /\ <<parseAttrSpec(x)>> # <<>>
    BY <2>1
  <2>3. req[r].pc = "idle" /\ Begin(r, IssueNext(Idle, <<parseAttrSpec(x)>>)) /\ rows' = rows
    BY <1>3 DEF RequestKey
  <2>4. QED
    BY <1>2, <2>2, <2>3
<1>4. ASSUME NEW hour \in AutoAsked, NEW loc \in Locations, RequestAutoKeys(r, hour, loc)
      PROVE  ServeInv'
  <2> DEFINE all   == Registered \o <<hour, <<loc>> >>
             specs == FoldLeft(AddSpec, <<>>, [i \in DOMAIN all |-> parseAttrSpec(all[i])])
  <2>1. ToSet(Registered) \subseteq Written /\ hour \in Written /\ <<loc>> \in Written
    BY DEF Written
  <2>2. Registered \in Seq(Written) /\ <<hour, <<loc>> >> \in Seq(Written)
    BY <2>1, KeyRingAssumption
  <2>3. all \in Seq(Written) /\ Len(all) = Len(Registered) + 2 /\ Len(Registered) \in Nat
    BY <2>2
  <2>4. all # <<>>
    BY <2>3
  <2>5. specs \in Seq(Specs) /\ specs # <<>>
    BY <2>3, <2>4, AutoSpecs
  <2>6. req[r].pc = "idle" /\ Begin(r, IssueNext(Idle, specs)) /\ rows' = rows
    BY <1>4 DEF RequestAutoKeys
  <2> HIDE DEF specs
  <2>7. QED
    BY <1>2, <2>5, <2>6
<1>5. ASSUME NEW p \in Policies, EnsureKeysForPolicy(r, p)
      PROVE  ServeInv'
  <2> DEFINE q == [Idle EXCEPT !.pc = "merge", !.policy = p, !.todo = p]
  <2>1. DOMAIN q = DOMAIN Idle /\ q.pc = "merge" /\ q.policy = p /\ q.todo = p
    BY DEF Idle
  <2>2. req[r].pc = "idle" /\ Begin(r, q) /\ rows' = rows
    BY <1>5 DEF EnsureKeysForPolicy
  <2> HIDE DEF q
  <2>3. ASSUME NEW b PROVE Serves([q EXCEPT !.alone = b])
    <3> DEFINE f == [q EXCEPT !.alone = b]
    <3>1. f.pc = "merge" /\ f.policy = p /\ f.todo = p
      BY <2>1 DEF Idle
    <3> HIDE DEF f
    <3>2. Progress(f)
      BY <3>1 DEF Progress, InHand, Clauses
    <3>3. Serves(f)
      BY <3>1, <3>2 DEF Serves
    <3>4. QED
      BY <3>3 DEF f
  <2>4. QED
    BY <2>1, <2>2, <2>3, BeginServes
<1>6. QED
  BY <1>3, <1>4, <1>5

\* A policy with all its keys is complete.
LEMMA CompleteIsProvided ==
  ASSUME KeyInv, VersionsUnique, RowsIssued, NEW policy, Completable(policy),
         NEW keys \in Merges(policy)
  PROVE  Missing(policy, keys) = {} <=> \A c \in Clauses(policy) : Provided(LabelFor(c))
BY ProvidedIsNotMissed, OthersAreMissed, MissingIsAskedFor

LEMMA MergeServes ==
  ASSUME KeyInv, RingInv, ServeInv, NEW r \in Req, Merge(r)
  PROVE  ServeInv'
<1> DEFINE p == req[r]
           Q(missing) == [p EXCEPT !.missing = missing,
                                   !.pc = IF missing = {} THEN "final" ELSE "loop"]
           F == [p EXCEPT !.missing = PolicyVars(p.policy), !.pc = "loop", !.fault = TRUE]
<1>1. DOMAIN p = DOMAIN Idle /\ Serves(p) /\ p.pc = "merge" /\ rows' = rows /\ Active(r)
  BY DEF KeyInv, RequestInv, ServeInv, Merge, Active
<1>2. CASE \E keys \in Merges(p.policy) : Set(r, Q(Missing(p.policy, keys)))
  <2>1. PICK keys \in Merges(p.policy) : Set(r, Q(Missing(p.policy, keys)))
    BY <1>2
  <2> DEFINE missing == Missing(p.policy, keys)
             q == Q(missing)
  <2>2. /\ q.pc = IF missing = {} THEN "final" ELSE "loop"
        /\ q.missing = missing /\ q.policy = p.policy /\ q.todo = p.todo
        /\ q.alone = p.alone /\ q.fault = p.fault
    BY <1>1 DEF Idle
  <2>3. Set(r, q)
    BY <2>1
  <2> HIDE DEF q, Q
  <2>4. ASSUME VersionsUnique, Undisturbed(q)
        PROVE  Progress(q)
    <3>1. Undisturbed(p) /\ Completable(p.policy)
      BY <1>1, <2>2, <2>4 DEF Undisturbed
    <3>2. InHand(p)
      BY <1>1, <2>4, <3>1 DEF Serves, Progress
    <3>3. missing = {} <=> \A c \in Clauses(p.policy) : Provided(LabelFor(c))
      BY <2>1, <2>4, <3>1, CompleteIsProvided DEF ServeInv
    <3>4. InHand(q)
      BY <1>1, <2>2, <3>2 DEF InHand
    <3>5. QED
      BY <2>1, <2>2, <3>3, <3>4 DEF Progress
  <2>5. Serves(q)
    BY <1>1, <2>2, <2>4 DEF Serves
  <2>6. QED
    BY <1>1, <2>3, <2>5, SetServes
<1>3. CASE Set(r, F)
  <2>1. F.pc = "loop" /\ F.policy = p.policy /\ F.fault = TRUE
    BY <1>1 DEF Idle
  <2>2. Set(r, F)
    BY <1>3
  <2> HIDE DEF F
  <2>3. Serves(F)
    BY <1>1, <2>1 DEF Serves, Undisturbed
  <2>4. QED
    BY <1>1, <2>2, <2>3, SetServes
<1>4. QED
  BY <1>2, <1>3 DEF Merge

\* A request that something has disturbed may end in any way.
LEMMA FinishServes ==
  ASSUME NEW p, Serves(p), NEW result, ~ (VersionsUnique /\ Undisturbed(p)), p.pc # "idle"
  PROVE  Serves(Finish(p, result)) /\ Serves([Finish(p, result) EXCEPT !.fault = TRUE])
<1> DEFINE q == Finish(p, result)
           f == [q EXCEPT !.fault = TRUE]
<1>1. /\ q.pc = "done" /\ q.policy = p.policy
      /\ q.alone = p.alone /\ q.fault = p.fault
      /\ f.pc = "done" /\ f.policy = p.policy /\ f.fault = TRUE
  BY DEF Finish, Idle
<1> HIDE DEF q, f
<1>2. Serves(q)
  BY <1>1 DEF Serves, Undisturbed, Progress
<1>3. Serves(f)
  BY <1>1 DEF Serves, Undisturbed
<1>4. QED
  BY <1>2, <1>3 DEF q, f

LEMMA HeadAndTail ==
  ASSUME NEW S, NEW s \in Seq(S), s # <<>>
  PROVE  /\ Head(s) \in S /\ Head(s) \in ToSet(s)
         /\ ToSet(Tail(s)) \subseteq ToSet(s)
         /\ \A x \in ToSet(s) : x = Head(s) \/ x \in ToSet(Tail(s))
<1>1. Len(s) \in Nat \ {0} /\ DOMAIN s = 1..Len(s)
  BY NotEmpty
<1>2. Head(s) = s[1] /\ 1 \in DOMAIN s /\ s[1] \in S
  BY <1>1
<1>3. /\ DOMAIN Tail(s) = 1..Len(s) - 1
      /\ \A i \in 1..Len(s) - 1 : Tail(s)[i] = s[i + 1]
  BY <1>1
<1>4. ToSet(Tail(s)) \subseteq ToSet(s)
  BY <1>1, <1>3 DEF ToSet
<1>5. ASSUME NEW x \in ToSet(s), x # Head(s)
      PROVE  x \in ToSet(Tail(s))
  <2>1. PICK i \in 1..Len(s) : s[i] = x
    BY <1>1, <1>5 DEF ToSet
  <2>2. i # 1
    BY <1>2, <1>5, <2>1
  <2>3. i - 1 \in DOMAIN Tail(s) /\ Tail(s)[i - 1] = x
    BY <1>1, <1>3, <2>1, <2>2
  <2>4. QED
    BY <2>3 DEF ToSet
<1>6. QED
  BY <1>2, <1>4, <1>5 DEF ToSet

LEMMA LoopServes ==
  ASSUME KeyInv, RingInv, ServeInv, NEW r \in Req, Loop(r)
  PROVE  ServeInv'
<1> DEFINE p    == req[r]
           c    == Head(p.todo)
           spec == resolveAttrSpecForUser(c)
<1>1. /\ DOMAIN p = DOMAIN Idle /\ Serves(p) /\ p.pc = "loop" /\ rows' = rows /\ Active(r)
      /\ RowsIssued
  BY DEF KeyInv, RequestInv, ServeInv, Loop, Active
<1>2. TodoInv(p)
  BY DEF RingInv, TypedRequest
<1>3. ASSUME VersionsUnique, Undisturbed(p)
      PROVE  /\ InHand(p) /\ Completable(p.policy)
             /\ \E keys \in Merges(p.policy) :
                  p.missing = Missing(p.policy, keys) /\ p.missing # {}
  BY <1>1, <1>3 DEF Serves, Progress, Undisturbed
<1>4. ASSUME p.todo # <<>>
      PROVE  p.todo \in Seq(Written) /\ p.policy # <<>>
  BY <1>1, <1>2, <1>4 DEF TodoInv
<1>5. ASSUME p.todo = <<>>, Set(r, Finish(p, "missing"))
      PROVE  ServeInv'
  <2>1. ASSUME VersionsUnique, Undisturbed(p)
        PROVE  FALSE
    <3>1. PICK keys \in Merges(p.policy) :
                 p.missing = Missing(p.policy, keys) /\ p.missing # {}
      BY <1>3, <2>1
    <3>2. ToSet(p.todo) = {}
      BY <1>5 DEF ToSet
    <3>3. \A d \in Clauses(p.policy) : Provided(LabelFor(d))
      BY <1>1, <1>3, <2>1, <3>2 DEF InHand
    <3>4. QED
      BY <1>1, <1>3, <2>1, <3>1, <3>3, CompleteIsProvided
  <2>2. Serves(Finish(p, "missing"))
    BY <1>1, <2>1, FinishServes
  <2>3. QED
    BY <1>1, <1>5, <2>2, SetServes
<1>6. ASSUME p.todo # <<>>, ~specNeedsIssue(c, p.missing), Set(r, [p EXCEPT !.todo = Tail(@)])
      PROVE  ServeInv'
  <2> DEFINE q == [p EXCEPT !.todo = Tail(@)]
  <2>1. /\ q.pc = "loop" /\ q.todo = Tail(p.todo) /\ q.policy = p.policy /\ q.label = p.label
        /\ q.alone = p.alone /\ q.fault = p.fault /\ q.missing = p.missing
    BY <1>1 DEF Idle
  <2>2. Set(r, q)
    BY <1>6
  <2> HIDE DEF q
  <2>3. ASSUME VersionsUnique, Undisturbed(q)
        PROVE  Progress(q)
    <3>1. Undisturbed(p)
      BY <1>1, <2>1, <2>3 DEF Undisturbed
    <3>2. PICK keys \in Merges(p.policy) :
                 p.missing = Missing(p.policy, keys) /\ p.missing # {}
      BY <1>3, <2>3, <3>1
    <3>3. /\ c \in ToSet(p.todo) /\ ToSet(q.todo) \subseteq ToSet(p.todo)
          /\ \A d \in ToSet(p.todo) : d = c \/ d \in ToSet(q.todo)
      BY <1>4, <1>6, <2>1, HeadAndTail
    <3>4. InHand(p) /\ Completable(p.policy)
      BY <1>3, <2>3, <3>1
    <3>5. c \in Clauses(p.policy)
      BY <3>3, <3>4 DEF InHand
    <3>6. Provided(LabelFor(c))
      BY <1>1, <1>6, <2>3, <3>2, <3>4, <3>5, NoNeedIsProvided
    <3>7. InHand(q)
      BY <1>1, <2>1, <3>3, <3>4, <3>6 DEF InHand
    <3>8. QED
      BY <2>1, <3>2, <3>7 DEF Progress
  <2>4. Serves(q)
    BY <1>1, <2>1, <2>3 DEF Serves
  <2>5. QED
    BY <1>1, <2>2, <2>4, SetServes
<1>7. ASSUME VersionsUnique, Undisturbed(p), p.todo # <<>>
      PROVE  /\ c \in Clauses(p.policy) /\ Resolves(c, spec, LabelFor(c))
  <2>1. InHand(p) /\ Completable(p.policy)
    BY <1>3, <1>7
  <2>2. c \in ToSet(p.todo)
    BY <1>4, <1>7, HeadAndTail
  <2>3. c \in Clauses(p.policy)
    BY <2>1, <2>2 DEF InHand
  <2>4. QED
    BY <2>1, <2>3, ClauseResolves
<1>8. ASSUME p.todo # <<>>, spec = Refused \/ ~authorizeKeyIssue(spec, c),
             Set(r, Finish(p, "refused"))
      PROVE  ServeInv'
  <2>1. ~ (VersionsUnique /\ Undisturbed(p))
    BY <1>7, <1>8 DEF Resolves
  <2>2. Serves(Finish(p, "refused"))
    BY <1>1, <2>1, FinishServes
  <2>3. QED
    BY <1>1, <1>8, <2>2, SetServes
<1>9. ASSUME p.todo # <<>>, spec # Refused,
             Set(r, [p EXCEPT !.pc = "read", !.todo = Tail(@),
                              !.issue = spec.issue, !.label = spec.label])
      PROVE  ServeInv'
  <2> DEFINE q == [p EXCEPT !.pc = "read", !.todo = Tail(@),
                            !.issue = spec.issue, !.label = spec.label]
  <2>1. /\ q.pc = "read" /\ q.todo = Tail(p.todo) /\ q.policy = p.policy
        /\ q.issue = spec.issue /\ q.label = spec.label
        /\ q.alone = p.alone /\ q.fault = p.fault
    BY <1>1 DEF Idle
  <2>2. Set(r, q)
    BY <1>9
  <2> HIDE DEF q
  <2>3. WellIssued(q.label, q.issue)
    <3>1. c \in Written
      BY <1>4, <1>9, HeadAndTail
    <3>2. spec \in Specs
      BY <1>9, <3>1, ResolvedIsSpec
    <3>3. QED
      BY <2>1, <3>2, SpecsAreWellIssued
  <2>4. ASSUME VersionsUnique, Undisturbed(q)
        PROVE  Progress(q)
    <3>1. Undisturbed(p)
      BY <1>1, <2>1, <2>4 DEF Undisturbed
    <3>2. InHand(p) /\ Resolves(c, spec, LabelFor(c))
      BY <1>3, <1>7, <1>9, <2>4, <3>1
    <3>3. /\ c \in ToSet(p.todo) /\ ToSet(q.todo) \subseteq ToSet(p.todo)
          /\ \A d \in ToSet(p.todo) : d = c \/ d \in ToSet(q.todo)
      BY <1>4, <1>9, <2>1, HeadAndTail
    <3>4. q.label = LabelFor(c) /\ IssueAttributeExpansion(q.issue) = Keys(q.label)
      BY <2>1, <3>2 DEF Resolves
    <3>5. InHand(q)
      BY <1>1, <2>1, <3>2, <3>3, <3>4 DEF InHand
    <3>6. QED
      BY <2>1, <3>4, <3>5 DEF Progress
  <2>5. Serves(q)
    BY <1>1, <2>1, <2>3, <2>4 DEF Serves
  <2>6. QED
    BY <1>1, <2>2, <2>5, SetServes
<1>10. QED
  BY <1>5, <1>6, <1>8, <1>9 DEF Loop

LEMMA ReadServes ==
  ASSUME KeyInv, RingInv, ServeInv, NEW r \in Req, ReadLatest(r)
  PROVE  ServeInv'
<1> DEFINE p == req[r]
           Q(n) == [p EXCEPT !.pc = "create", !.version = n, !.seen = Cardinality(rows)]
           F == [p EXCEPT !.pc = "create", !.version = 1, !.seen = Cardinality(rows),
                          !.blind = TRUE, !.fault = TRUE]
<1>1. DOMAIN p = DOMAIN Idle /\ Serves(p) /\ p.pc = "read" /\ rows' = rows /\ Active(r)
  BY DEF KeyInv, RequestInv, ServeInv, ReadLatest, Active
<1>2. (\E n : Set(r, Q(n))) \/ Set(r, F)
  BY DEF ReadLatest
<1>3. ASSUME NEW q, Set(r, q), q.pc = "create", q.policy = p.policy, q.label = p.label,
             q.issue = p.issue, q.alone = p.alone, q.todo = p.todo, p.fault => q.fault,
             q.fault \in BOOLEAN
      PROVE  ServeInv'
  <2>1. ASSUME VersionsUnique, Undisturbed(q)
        PROVE  Progress(q)
    <3>1. Undisturbed(p)
      BY <1>1, <1>3, <2>1 DEF Undisturbed
    <3>2. InHand(p) /\ IssueAttributeExpansion(p.issue) = Keys(p.label)
      BY <1>1, <2>1, <3>1 DEF Serves, Progress
    <3>3. InHand(q)
      BY <1>1, <1>3, <3>2 DEF InHand
    <3>4. QED
      BY <1>3, <3>2, <3>3 DEF Progress
  <2>2. Serves(q)
    BY <1>1, <1>3, <2>1 DEF Serves
  <2>3. QED
    BY <1>1, <1>3, <2>2, SetServes
<1>4. p.fault \in BOOLEAN
  BY DEF KeyInv, RequestInv
<1>5. CASE \E n : Set(r, Q(n))
  <2>1. PICK n : Set(r, Q(n))
    BY <1>5
  <2> DEFINE q == Q(n)
  <2>2. /\ q.pc = "create" /\ q.policy = p.policy /\ q.label = p.label /\ q.issue = p.issue
        /\ q.alone = p.alone /\ q.todo = p.todo /\ q.fault = p.fault
    BY <1>1 DEF Idle
  <2> HIDE DEF q
  <2>3. Set(r, q)
    BY <2>1 DEF q
  <2>4. QED
    BY <1>3, <1>4, <2>2, <2>3
<1>6. CASE Set(r, F)
  <2>1. /\ F.pc = "create" /\ F.policy = p.policy /\ F.label = p.label /\ F.issue = p.issue
        /\ F.alone = p.alone /\ F.todo = p.todo /\ F.fault = TRUE
    BY <1>1 DEF Idle
  <2>2. Set(r, F)
    BY <1>6
  <2> HIDE DEF F
  <2>3. QED
    BY <1>3, <2>1, <2>2
<1>7. QED
  BY <1>2, <1>5, <1>6

\* The key of an undisturbed request becomes the latest of its label.
LEMMA CreateProvides ==
  ASSUME KeyInv, NEW r \in Req, req[r].pc = "create", req[r].alone, ~req[r].fault,
         NEW row, row.label = req[r].label, row.version = req[r].version,
         rows' = rows \cup {row},
         IssueAttributeExpansion(row.issue) = Keys(row.label)
  PROVE  \A l : l = row.label \/ Provided(l) => Provided(l)'
<1> DEFINE p == req[r]
<1>1. /\ row.version \in Nat
      /\ \A x \in rows : x.label = row.label => x.version \in Nat /\ x.version < row.version
  <2>1. Knows(p, rows) /\ ~p.blind
    BY DEF KeyInv, RequestInv
  <2>2. \A x \in rows : x.id <= p.seen /\ x.version \in Nat
    BY <2>1 DEF KeyInv, TableInv, Knows
  <2>3. QED
    BY <2>1, <2>2 DEF Knows
<1>2. ASSUME NEW l, l = row.label
      PROVE  Provided(l)'
  <2>1. Of(l)' = Of(l) \cup {row}
    BY <1>2 DEF Of
  <2>2. \A x \in Of(l) : x.version \in Nat /\ x.version < row.version
    BY <1>1, <1>2 DEF Of
  <2>3. Latest(l)' = {row}
    BY <1>1, <2>1, <2>2 DEF Latest
  <2>4. QED
    BY <1>2, <2>3 DEF Provided, IssueAttributeExpansion, Keys
<1>3. ASSUME NEW l, l # row.label, Provided(l)
      PROVE  Provided(l)'
  <2>1. Of(l)' = Of(l)
    BY <1>3 DEF Of
  <2>2. Latest(l)' = Latest(l)
    BY <2>1 DEF Latest
  <2>3. QED
    BY <1>3, <2>2 DEF Provided, IssueAttributeExpansion, Keys
<1>4. QED
  BY <1>2, <1>3

LEMMA CreateServes ==
  ASSUME KeyInv, RingInv, ServeInv, NEW r \in Req, Create(r)
  PROVE  ServeInv'
<1> DEFINE p   == req[r]
           row == [id |-> Cardinality(rows) + 1, label |-> p.label, version |-> p.version,
                   issue |-> p.issue, seen |-> p.seen, blind |-> p.blind]
           q   == [p EXCEPT !.pc = "report", !.own = p.version, !.blind = FALSE]
<1>1. DOMAIN p = DOMAIN Idle /\ Serves(p) /\ p.pc = "create" /\ Active(r)
  BY DEF KeyInv, RequestInv, ServeInv, Create, Active
<1>2. row.label = p.label /\ row.version = p.version /\ row.issue = p.issue
  OBVIOUS
<1>3. /\ q.pc = "report" /\ q.policy = p.policy /\ q.todo = p.todo
      /\ q.alone = p.alone /\ q.fault = p.fault
  BY <1>1 DEF Idle
<1>4. rows' = rows \cup {row} /\ Set(r, q)
  BY DEF Create
<1> HIDE DEF row, q
<1>5. /\ \A s \in Req \ {r} : req'[s] = req[s]
      /\ req'[r].pc = "report" /\ req'[r].policy = p.policy /\ req'[r].todo = p.todo
      /\ req'[r].alone = p.alone /\ req'[r].fault = p.fault
  BY <1>3, <1>4 DEF KeyInv, Set
<1>6. RowsIssued'
  <2>1. WellIssued(row.label, row.issue)
    BY <1>1, <1>2 DEF Serves
  <2>2. \A x \in rows' : WellIssued(x.label, x.issue)
    BY <1>4, <2>1 DEF ServeInv, RowsIssued
  <2>3. QED
    BY <2>2 DEF RowsIssued, WellIssued, IssueAttributeExpansion, Keys
<1>7. VersionsUnique' => VersionsUnique
  BY <1>4 DEF VersionsUnique
<1>8. ASSUME VersionsUnique', Undisturbed(req[r])'
      PROVE  Progress(req[r])'
  <2>1. Undisturbed(p)
    BY <1>1, <1>5, <1>8 DEF Undisturbed, Completable, Validated, Clauses, Entitled,
       RegisteredSatisfies, Numbers, FirstNumber
  <2>2. InHand(p) /\ IssueAttributeExpansion(p.issue) = Keys(p.label)
    BY <1>1, <1>7, <1>8, <2>1 DEF Serves, Progress
  <2>3. \A l : l = row.label \/ Provided(l) => Provided(l)'
    <3>1. IssueAttributeExpansion(row.issue) = Keys(row.label)
      BY <1>2, <2>2
    <3>2. QED
      BY <1>1, <1>2, <1>4, <2>1, <3>1, CreateProvides DEF Undisturbed
  <2>4. ASSUME NEW c \in Clauses(p.policy), c \notin ToSet(p.todo)
        PROVE  Provided(LabelFor(c))'
    <3>1. LabelFor(c) = row.label \/ Provided(LabelFor(c))
      BY <1>2, <2>2, <2>4 DEF InHand
    <3>2. QED
      BY <2>3, <3>1 DEF LabelFor, resolveAttrSpecForUser, RegisteredSatisfies, FirstNumber,
         Numbers, parseAttrSpec
  <2>5. ToSet(p.todo) \subseteq Clauses(p.policy)
    BY <2>2 DEF InHand
  <2>6. InHand(req[r])'
    BY <1>5, <2>4, <2>5 DEF InHand, Clauses, LabelFor
  <2>7. QED
    BY <1>5, <2>6 DEF Progress
<1>9. Serves(req[r])'
  BY <1>1, <1>5, <1>8 DEF Serves
<1>10. \A s \in Req \ {r} : Serves(req[s])'
  BY <1>1, <1>4, <1>5, OthersAreServed
<1>11. QED
  BY <1>6, <1>9, <1>10 DEF ServeInv

LEMMA ReportServes ==
  ASSUME KeyInv, RingInv, ServeInv, NEW r \in Req, Report(r)
  PROVE  ServeInv'
<1> DEFINE p == req[r]
           g(v) == [p EXCEPT !.said = v]
           after(v) == IF p.policy # <<>> THEN [p EXCEPT !.pc = "merge", !.said = v]
                       ELSE IF p.todo # <<>> THEN IssueNext(g(v), p.todo)
                       ELSE Finish(g(v), "issued")
<1>1. DOMAIN p = DOMAIN Idle /\ Serves(p) /\ p.pc = "report" /\ rows' = rows /\ Active(r)
  BY DEF KeyInv, RequestInv, ServeInv, Report, Active
<1>2. \/ \E v : Set(r, after(v))
      \/ \E v : Set(r, [after(v) EXCEPT !.fault = TRUE])
  BY DEF Report
<1>3. TodoInv(p)
  BY DEF RingInv, TypedRequest
<1>4. ASSUME NEW v PROVE Serves(after(v)) /\ Serves([after(v) EXCEPT !.fault = TRUE])
  <2>1. CASE p.policy # <<>>
    <3> DEFINE q == [p EXCEPT !.pc = "merge", !.said = v]
               f == [q EXCEPT !.fault = TRUE]
    <3>1. /\ q.pc = "merge" /\ q.policy = p.policy /\ q.todo = p.todo
          /\ q.alone = p.alone /\ q.fault = p.fault
          /\ f.pc = "merge" /\ f.policy = p.policy /\ f.fault = TRUE
      BY <1>1 DEF Idle
    <3>2. after(v) = q
      BY <2>1
    <3> HIDE DEF q, f
    <3>3. ASSUME VersionsUnique, Undisturbed(q)
          PROVE  Progress(q)
      <4>1. Undisturbed(p)
        BY <1>1, <3>1, <3>3 DEF Undisturbed
      <4>2. InHand(p)
        BY <1>1, <3>3, <4>1 DEF Serves, Progress
      <4>3. InHand(q)
        BY <1>1, <3>1, <4>2 DEF InHand
      <4>4. QED
        BY <3>1, <4>3 DEF Progress
    <3>4. Serves(q)
      BY <1>1, <3>1, <3>3 DEF Serves
    <3>5. Serves(f)
      BY <1>1, <3>1 DEF Serves, Undisturbed
    <3>6. QED
      BY <3>2, <3>4, <3>5 DEF f
  <2>2. CASE p.policy = <<>> /\ p.todo # <<>>
    <3>1. DOMAIN g(v) = DOMAIN Idle /\ g(v).policy = <<>>
      BY <1>1, <2>2 DEF Idle
    <3>2. p.todo \in Seq(Specs)
      BY <1>3, <2>2 DEF TodoInv
    <3>3. after(v) = IssueNext(g(v), p.todo)
      BY <2>2
    <3> HIDE DEF g, after
    <3>4. QED
      BY <2>2, <3>1, <3>2, <3>3, IssueServes
  <2>3. CASE p.policy = <<>> /\ p.todo = <<>>
    <3>1. g(v).pc = "report" /\ g(v).policy = <<>>
      BY <1>1, <2>3 DEF Idle
    <3>2. after(v) = Finish(g(v), "issued")
      BY <2>3
    <3> HIDE DEF g, after
    <3>3. Serves(g(v)) /\ ~Undisturbed(g(v))
      BY <3>1 DEF Serves, Undisturbed, Completable
    <3>4. QED
      BY <3>1, <3>2, <3>3, FinishServes
  <2>4. QED
    BY <2>1, <2>2, <2>3
<1> HIDE DEF after
<1>5. QED
  BY <1>1, <1>2, <1>4, SetServes

LEMMA DecryptServes ==
  ASSUME KeyInv, RingInv, ServeInv, NEW r \in Req, Decrypt(r)
  PROVE  ServeInv'
<1> DEFINE p == req[r]
<1>1. Serves(p) /\ p.pc = "final" /\ rows' = rows /\ Active(r) /\ RowsIssued
  BY DEF ServeInv, Decrypt, Active
<1>2. CASE \E keys \in Merges(p.policy), result \in {"opened", "failed"} :
             Set(r, [Finish(p, result) EXCEPT !.enough = Sufficient(p.policy, keys)])
  <2>1. PICK keys \in Merges(p.policy), result \in {"opened", "failed"} :
               Set(r, [Finish(p, result) EXCEPT !.enough = Sufficient(p.policy, keys)])
    BY <1>2
  <2> DEFINE q == [Finish(p, result) EXCEPT !.enough = Sufficient(p.policy, keys)]
  <2>2. /\ q.pc = "done" /\ q.policy = p.policy /\ q.alone = p.alone /\ q.fault = p.fault
        /\ q.enough = Sufficient(p.policy, keys)
    BY DEF Finish, Idle
  <2>3. Set(r, q)
    BY <2>1
  <2>4. VersionsUnique /\ Undisturbed(p) => Sufficient(p.policy, keys)
    BY <1>1, <2>1, ProvidedSuffices DEF Serves, Progress, Undisturbed
  <2> HIDE DEF q
  <2>5. Serves(q)
    BY <1>1, <2>2, <2>4 DEF Serves, Undisturbed, Progress
  <2>6. QED
    BY <1>1, <2>3, <2>5, SetServes
<1>3. CASE Set(r, [Finish(p, "failed") EXCEPT !.fault = TRUE])
  <2> DEFINE f == [Finish(p, "failed") EXCEPT !.fault = TRUE]
  <2>1. f.pc = "done" /\ f.policy = p.policy /\ f.fault = TRUE
    BY DEF Finish, Idle
  <2>2. Set(r, f)
    BY <1>3
  <2> HIDE DEF f
  <2>3. Serves(f)
    BY <1>1, <2>1 DEF Serves, Undisturbed
  <2>4. QED
    BY <1>1, <2>2, <2>3, SetServes
<1>4. QED
  BY <1>2, <1>3 DEF Decrypt

LEMMA AbortServes ==
  ASSUME KeyInv, RingInv, ServeInv, NEW r \in Req, Abort(r)
  PROVE  ServeInv'
<1> DEFINE q == [Idle EXCEPT !.pc = "done", !.result = "aborted"]
<1>1. q.pc = "done" /\ q.policy = <<>>
  BY DEF Idle
<1>2. Active(r) /\ Set(r, q) /\ rows' = rows
  BY DEF Abort
<1> HIDE DEF q
<1>3. Serves(q)
  BY <1>1 DEF Serves, Undisturbed, Completable
<1>4. QED
  BY <1>2, <1>3, SetServes

LEMMA ServeInvStep == KeyInv /\ RingInv /\ ServeInv /\ [Next]_vars => ServeInv'
<1> SUFFICES ASSUME KeyInv, RingInv, ServeInv, [Next]_vars PROVE ServeInv'
  OBVIOUS
<1>1. CASE Next
  <2>1. PICK r \in Req :
          \/ \E x \in Asked : RequestKey(r, x)
          \/ \E hour \in AutoAsked, loc \in Locations : RequestAutoKeys(r, hour, loc)
          \/ \E p \in Policies : EnsureKeysForPolicy(r, p)
          \/ Merge(r) \/ Loop(r) \/ ReadLatest(r) \/ Create(r) \/ Report(r) \/ Decrypt(r)
          \/ Abort(r)
    BY <1>1 DEF Next
  <2>2. QED
    BY <2>1, BeginStepServes, MergeServes, LoopServes, ReadServes, CreateServes,
       ReportServes, DecryptServes, AbortServes
<1>2. CASE UNCHANGED vars
  <2>1. rows' = rows /\ req' = req
    BY <1>2 DEF vars
  <2>2. /\ VersionsUnique' <=> VersionsUnique
        /\ \A l : Provided(l)' <=> Provided(l)
        /\ \A policy : Merges(policy)' = Merges(policy)
    BY <2>1 DEF VersionsUnique, Provided, Merges, MergedLabels, Labels, Latest, Of
  <2>3. \A r : InHand(req[r])' <=> InHand(req[r])
    BY <2>1, <2>2 DEF InHand
  <2>4. \A r : Progress(req[r])' <=> Progress(req[r])
    BY <2>1, <2>2, <2>3 DEF Progress
  <2>5. \A r : Serves(req[r])' <=> Serves(req[r])
    BY <2>1, <2>2, <2>4 DEF Serves, Undisturbed
  <2>6. QED
    BY <2>1, <2>5 DEF ServeInv, RowsIssued
<1>3. QED
  BY <1>1, <1>2

\* What has been provided for an undisturbed decryption stays provided: each
\* clause of its policy is still to come, has the keys of its label stored
\* latest, or is the one whose key is under way (key_service.go:115).
THEOREM ServeInvariant == Spec => []ServeInv
BY ServeInvInit, ServeInvStep, KeyInvariant, RingInvariant, PTL DEF Spec

\* A decryption that meets no other request and no failed query hands the engine
\* keys that suffice for its policy, whatever earlier requests have left in the
\* table, if the user is entitled to the clauses and none compares a registered
\* number by == (key_service.go:115).
THEOREM InequalitiesAreCompleted == Spec => []EnsureCompletesInequalities
<1>1. KeyInv /\ ServeInv => EnsureCompletesInequalities
  <2> SUFFICES ASSUME KeyInv, ServeInv, NEW r \in Req,
                      Served(r), Validated(req[r].policy),
                      \A c \in Clauses(req[r].policy) :
                        IsComparison(c) /\ c[2] = "==" => Numbers(c[1]) = {}
               PROVE  req[r].enough
    BY DEF EnsureCompletesInequalities
  <2>1. req[r].pc = "done"
    BY DEF KeyInv, RequestInv, Served
  <2>2. Completable(req[r].policy)
    BY DEF ServeInv, Serves, Served, Completable
  <2>3. Undisturbed(req[r]) /\ VersionsUnique
    BY <2>1, <2>2 DEF Undisturbed, Served
  <2>4. QED
    BY <2>1, <2>3 DEF ServeInv, Serves, Progress
<1>2. QED
  BY <1>1, KeyInvariant, ServeInvariant, PTL
=============================================================================
