-------------------------- MODULE FlowTableProofs --------------------------
(***************************************************************************)
(* Theorems about the flow table, for every number of keys, fragments and  *)
(* packets and every limit and timeout.  The methods are shown one by one  *)
(* to keep a table in order (TableInv), to be true to its flows (Follows)  *)
(* and to keep its books (BooksInv); the steps of the three goroutines     *)
(* follow from that.                                                       *)
(***************************************************************************)
EXTENDS FlowTable, FiniteSetTheorems, TLAPS

-----------------------------------------------------------------------------
(* The maps and the fields of a table.                                       *)

\* What an assignment to a key of one of the table's maps does.
LEMMA PutMap == ASSUME NEW f, NEW x, NEW v
                PROVE  /\ DOMAIN Put(f, x, v) = DOMAIN f \cup {x} /\ Put(f, x, v)[x] = v
                       /\ \A y \in DOMAIN f : y # x => Put(f, x, v)[y] = f[y]
  BY DEF Put

\* What a deletion does.
LEMMA WithoutMap == ASSUME NEW f, NEW S
                    PROVE  /\ DOMAIN Without(f, S) = DOMAIN f \ S
                           /\ \A y \in DOMAIN f \ S : Without(f, S)[y] = f[y]
  BY DEF Without

\* An assignment to a field of the flowTable leaves a flowTable.
LEMMA Fields == ASSUME NEW tb, IsTable(tb), NEW v
                PROVE  /\ IsTable([tb EXCEPT !.flows = v]) /\ IsTable([tb EXCEPT !.auth = v])
                       /\ IsTable([tb EXCEPT !.fragments = v]) /\ IsTable([tb EXCEPT !.next = v])
                       /\ IsTable([tb EXCEPT !.pendingPackets = v])
                       /\ IsTable([tb EXCEPT !.pendingBytes = v]) /\ IsTable([tb EXCEPT !.closed = v])
  <1>1. IsTable([tb EXCEPT !.flows = v])
    BY DEF IsTable
  <1>2. IsTable([tb EXCEPT !.auth = v])
    BY DEF IsTable
  <1>3. IsTable([tb EXCEPT !.fragments = v])
    BY DEF IsTable
  <1>4. IsTable([tb EXCEPT !.next = v])
    BY DEF IsTable
  <1>5. IsTable([tb EXCEPT !.pendingPackets = v])
    BY DEF IsTable
  <1>6. IsTable([tb EXCEPT !.pendingBytes = v])
    BY DEF IsTable
  <1>7. IsTable([tb EXCEPT !.closed = v])
    BY DEF IsTable
  <1> QED
    BY <1>1, <1>2, <1>3, <1>4, <1>5, <1>6, <1>7

\* releasePendingLocked touches the books only.
LEMMA ReleaseFields == ASSUME NEW tb, IsTable(tb), NEW S
                       PROVE  LET r == releasePendingLocked(tb, S)
                              IN  /\ IsTable(r) /\ r.flows = tb.flows /\ r.auth = tb.auth
                                  /\ r.fragments = tb.fragments /\ r.next = tb.next
  <1> DEFINE r == releasePendingLocked(tb, S)
  <1>1. IsTable(r)
    BY Fields DEF releasePendingLocked
  <1>2. r.flows = tb.flows /\ r.auth = tb.auth /\ r.fragments = tb.fragments /\ r.next = tb.next
    BY DEF IsTable, releasePendingLocked
  <1> QED
    BY <1>1, <1>2

\* The associations that go with the flows S.
Orphans(tb, S) == {fr \in DOMAIN tb.fragments :
                     \E k \in S : tb.fragments[fr].key = k /\ tb.fragments[fr].id = tb.flows[k].id}

\* removeFragmentsLocked touches the fragments only.
LEMMA CutFields == ASSUME NEW tb, IsTable(tb), NEW S
                   PROVE  LET r == removeFragmentsLocked(tb, S)
                          IN  /\ IsTable(r) /\ r.flows = tb.flows /\ r.auth = tb.auth
                              /\ r.fragments = Without(tb.fragments, Orphans(tb, S)) /\ r.next = tb.next
  <1> DEFINE r == removeFragmentsLocked(tb, S)
  <1>1. IsTable(r)
    BY Fields DEF removeFragmentsLocked
  <1>2. r.flows = tb.flows /\ r.auth = tb.auth /\ r.next = tb.next
    BY DEF IsTable, removeFragmentsLocked
  <1>3. r.fragments = Without(tb.fragments, Orphans(tb, S))
    BY DEF IsTable, removeFragmentsLocked, Orphans
  <1> QED
    BY <1>1, <1>2, <1>3

\* removeLocked takes flows out of both indexes, and their fragments.
LEMMA RemoveFields == ASSUME NEW tb, IsTable(tb), NEW S
                      PROVE  LET r == removeLocked(tb, S)
                             IN  /\ IsTable(r) /\ r.flows = Without(tb.flows, S)
                                 /\ r.auth = Without(tb.auth, {tb.flows[k].id : k \in S})
                                 /\ r.fragments = Without(tb.fragments, Orphans(tb, S))
                                 /\ r.next = tb.next
  <1> DEFINE p == releasePendingLocked(tb, S)
             q == removeFragmentsLocked(p, S)
             r == removeLocked(tb, S)
  <1>1. IsTable(p) /\ p.flows = tb.flows /\ p.auth = tb.auth /\ p.fragments = tb.fragments /\ p.next = tb.next
    BY ReleaseFields
  <1>2. /\ IsTable(q) /\ q.flows = tb.flows /\ q.auth = tb.auth /\ q.next = tb.next
        /\ q.fragments = Without(tb.fragments, Orphans(tb, S))
    <2>1. Orphans(p, S) = Orphans(tb, S)
      BY <1>1 DEF Orphans
    <2> HIDE DEF p
    <2> QED
      BY <1>1, <2>1, CutFields
  <1>3. r = [q EXCEPT !.flows = Without(q.flows, S), !.auth = Without(q.auth, {tb.flows[k].id : k \in S})]
    BY DEF removeLocked
  <1> HIDE DEF p, q, r
  <1>4. IsTable(r)
    BY <1>2, <1>3, Fields
  <1>5. r.flows = Without(q.flows, S) /\ r.next = q.next /\ r.fragments = q.fragments
    BY <1>2, <1>3 DEF IsTable
  <1>6. r.auth = Without(q.auth, {tb.flows[k].id : k \in S})
    BY <1>2, <1>3 DEF IsTable
  <1> QED
    BY <1>2, <1>4, <1>5, <1>6 DEF r

-----------------------------------------------------------------------------
(* What keeps a table in order.                                              *)

\* r has flows of tb, under the ids they have, and their associations.
Trimmed(tb, r) ==
    /\ IsTable(r) /\ r.next = tb.next
    /\ DOMAIN r.flows \subseteq DOMAIN tb.flows /\ r.flows \in [DOMAIN r.flows -> Flow]
    /\ \A k \in DOMAIN r.flows : r.flows[k].id = tb.flows[k].id /\ Waits(r.flows[k])
    /\ DOMAIN r.auth = {i \in DOMAIN tb.auth : tb.auth[i] \in DOMAIN r.flows}
    /\ r.auth \in [DOMAIN r.auth -> Keys] /\ \A i \in DOMAIN r.auth : r.auth[i] = tb.auth[i]
    /\ DOMAIN r.fragments \subseteq DOMAIN tb.fragments /\ r.fragments \in [DOMAIN r.fragments -> Entry]
    /\ \A fr \in DOMAIN r.fragments :
          /\ r.fragments[fr].key = tb.fragments[fr].key /\ r.fragments[fr].id = tb.fragments[fr].id
          /\ r.fragments[fr].key \in DOMAIN r.flows
          /\ r.flows[r.fragments[fr].key].state # "failed"

\* A table that is trimmed stays in order: the two indexes, the associations of the fragments
\* and the deadlines agree as they did.
LEMMA TrimmedInv == ASSUME NEW tb, TableInv(tb), NEW r, Trimmed(tb, r)
                    PROVE  TableInv(r)
  <1>1. TypeTable(r)
    BY DEF Trimmed, TableInv, TypeTable
  <1>2. Indexed(r)
    <2>1. ASSUME NEW k \in DOMAIN r.flows
          PROVE  r.flows[k].id \in DOMAIN r.auth /\ r.auth[r.flows[k].id] = k
      BY <2>1 DEF Trimmed, TableInv, Indexed
    <2>2. ASSUME NEW i \in DOMAIN r.auth PROVE r.auth[i] \in DOMAIN r.flows /\ r.flows[r.auth[i]].id = i
      BY <2>2 DEF Trimmed, TableInv, Indexed
    <2>3. ASSUME NEW fr \in DOMAIN r.fragments PROVE Live(r, r.fragments[fr])
      BY <2>3 DEF Trimmed, TableInv, Indexed, Live
    <2> QED
      BY <2>1, <2>2, <2>3 DEF Indexed, Trimmed
  <1>3. \A k \in DOMAIN r.flows : r.flows[k].id <= r.next /\ Waits(r.flows[k])
    BY DEF Trimmed, TableInv
  <1> QED
    BY <1>1, <1>2, <1>3 DEF TableInv

\* g is what became of the flow f: its answer is final, and whether it was asked for is kept.
Follow(f, g) == /\ g.id = f.id /\ g.sent = f.sent /\ g.used = f.used
                /\ g.state = f.state \/ f.state = "pending"

\* Every flow of r is one of tb or new, with an id that tb has not given away.
Follows(tb, r) ==
    /\ tb.next <= r.next
    /\ \A k \in DOMAIN r.flows :
          \/ k \in DOMAIN tb.flows /\ Follow(tb.flows[k], r.flows[k])
          \/ r.flows[k].id > tb.next /\ ~r.flows[k].sent /\ ~r.flows[k].used

\* One call after another.
LEMMA FollowsTwice == ASSUME NEW a, NEW b, NEW c, TableInv(a), TableInv(b), TableInv(c), Follows(a, b), Follows(b, c)
                      PROVE  Follows(a, c)
  <1>1. a.next \in Nat /\ b.next \in Nat /\ c.next \in Nat /\ a.next <= c.next
    BY DEF TableInv, TypeTable, Follows
  <1>2. ASSUME NEW k \in DOMAIN c.flows
        PROVE  \/ k \in DOMAIN a.flows /\ Follow(a.flows[k], c.flows[k])
               \/ c.flows[k].id > a.next /\ ~c.flows[k].sent /\ ~c.flows[k].used
    <2>1. c.flows[k].id \in Nat
      BY <1>2 DEF TableInv, TypeTable, Flow
    <2>2. CASE c.flows[k].id > b.next /\ ~c.flows[k].sent /\ ~c.flows[k].used
      BY <1>1, <2>1, <2>2 DEF Follows
    <2>3. CASE k \in DOMAIN b.flows /\ Follow(b.flows[k], c.flows[k])
      BY <2>3 DEF Follows, Follow
    <2> QED
      BY <1>2, <2>2, <2>3 DEF Follows
  <1> QED
    BY <1>1, <1>2 DEF Follows

-----------------------------------------------------------------------------
(* The methods.                                                              *)

\* Fewer associations.
LEMMA Sweep == ASSUME NEW tb, TableInv(tb), NEW S, NEW r, r = [tb EXCEPT !.fragments = Without(tb.fragments, S)]
               PROVE  TableInv(r) /\ Follows(tb, r) /\ r.next = tb.next /\ r.flows = tb.flows
                      /\ r.fragments = Without(tb.fragments, S)
  <1>1. IsTable(tb) /\ tb.next \in Nat
    BY DEF TableInv, TypeTable
  <1>2. /\ IsTable(r) /\ r.flows = tb.flows /\ r.auth = tb.auth /\ r.next = tb.next
        /\ r.fragments = Without(tb.fragments, S)
    <2>1. IsTable(r)
      BY <1>1, Fields
    <2>2. r.flows = tb.flows /\ r.auth = tb.auth /\ r.next = tb.next
      BY <1>1 DEF IsTable
    <2>3. r.fragments = Without(tb.fragments, S)
      BY <1>1 DEF IsTable
    <2> QED
      BY <2>1, <2>2, <2>3
  <1>3. /\ DOMAIN r.fragments = DOMAIN tb.fragments \ S
        /\ \A fr \in DOMAIN r.fragments : r.fragments[fr] = tb.fragments[fr]
        /\ r.fragments \in [DOMAIN r.fragments -> Entry]
    BY <1>2, WithoutMap DEF Without, TableInv, TypeTable
  <1>4. Trimmed(tb, r)
    BY <1>2, <1>3 DEF Trimmed, TableInv, TypeTable, Indexed, Live
  <1>5. Follows(tb, r)
    BY <1>1, <1>2 DEF Follows, Follow
  <1> QED
    BY <1>2, <1>4, <1>5, TrimmedInv

\* removeLocked, also of several flows: their fragments go with them.
LEMMA Remove == ASSUME NEW tb, TableInv(tb), NEW S, S \subseteq DOMAIN tb.flows
                PROVE  LET r == removeLocked(tb, S)
                       IN  /\ TableInv(r) /\ Follows(tb, r) /\ r.next = tb.next
                           /\ r.flows = Without(tb.flows, S)
  <1> DEFINE r == removeLocked(tb, S)
  <1>1. IsTable(tb) /\ tb.next \in Nat
    BY DEF TableInv, TypeTable
  <1>2. /\ IsTable(r) /\ r.flows = Without(tb.flows, S)
        /\ r.auth = Without(tb.auth, {tb.flows[k].id : k \in S})
        /\ r.fragments = Without(tb.fragments, Orphans(tb, S)) /\ r.next = tb.next
    BY <1>1, RemoveFields
  <1> HIDE DEF r
  <1>3. /\ DOMAIN r.flows = DOMAIN tb.flows \ S /\ \A k \in DOMAIN r.flows : r.flows[k] = tb.flows[k]
        /\ r.flows \in [DOMAIN r.flows -> Flow]
    BY <1>2, WithoutMap DEF Without, TableInv, TypeTable
  <1>4. /\ DOMAIN r.auth = DOMAIN tb.auth \ {tb.flows[k].id : k \in S}
        /\ \A i \in DOMAIN r.auth : r.auth[i] = tb.auth[i]
        /\ r.auth \in [DOMAIN r.auth -> Keys]
    BY <1>2, WithoutMap DEF Without, TableInv, TypeTable
  <1>5. DOMAIN r.auth = {i \in DOMAIN tb.auth : tb.auth[i] \in DOMAIN r.flows}
    BY <1>3, <1>4 DEF TableInv, Indexed
  <1>6. /\ DOMAIN r.fragments = DOMAIN tb.fragments \ Orphans(tb, S)
        /\ \A fr \in DOMAIN r.fragments : r.fragments[fr] = tb.fragments[fr]
        /\ r.fragments \in [DOMAIN r.fragments -> Entry]
    BY <1>2, WithoutMap DEF Without, TableInv, TypeTable
  <1>7. ASSUME NEW fr \in DOMAIN r.fragments
        PROVE  r.fragments[fr].key \in DOMAIN r.flows /\ r.flows[r.fragments[fr].key].state # "failed"
    BY <1>3, <1>6, <1>7 DEF TableInv, Indexed, Live, Orphans
  <1>8. Trimmed(tb, r)
    BY <1>2, <1>3, <1>4, <1>5, <1>6, <1>7 DEF Trimmed, TableInv
  <1>9. Follows(tb, r)
    BY <1>1, <1>2, <1>3 DEF Follows, Follow
  <1> QED
    BY <1>2, <1>8, <1>9, TrimmedInv DEF r

\* One flow is changed and keeps its id.
LEMMA Touch == ASSUME NEW tb, TableInv(tb), NEW k \in DOMAIN tb.flows, NEW g \in Flow, NEW r, IsTable(r),
                      r.flows = [tb.flows EXCEPT ![k] = g], r.auth = tb.auth, r.next = tb.next,
                      r.fragments = tb.fragments, Waits(g), g.id = tb.flows[k].id,
                      \/ g.state # "failed" \/ g.state = tb.flows[k].state
                      \/ \A fr \in DOMAIN tb.fragments : tb.fragments[fr].key # k
               PROVE  /\ TableInv(r) /\ r.flows[k] = g /\ DOMAIN r.flows = DOMAIN tb.flows
                      /\ Follow(tb.flows[k], g) => Follows(tb, r)
  <1>1. /\ DOMAIN r.flows = DOMAIN tb.flows /\ r.flows[k] = g
        /\ \A j \in DOMAIN r.flows : j # k => r.flows[j] = tb.flows[j]
        /\ r.flows \in [DOMAIN r.flows -> Flow] /\ tb.next \in Nat
    BY DEF TableInv, TypeTable
  <1>2. Trimmed(tb, r)
    <2>1. \A j \in DOMAIN r.flows : r.flows[j].id = tb.flows[j].id /\ Waits(r.flows[j])
      BY <1>1 DEF TableInv
    <2>2. \A fr \in DOMAIN r.fragments : /\ r.fragments[fr].key \in DOMAIN r.flows
                                         /\ r.flows[r.fragments[fr].key].state # "failed"
      BY <1>1 DEF TableInv, Indexed, Live
    <2> QED
      BY <1>1, <2>1, <2>2 DEF Trimmed, TableInv, TypeTable, Indexed
  <1>3. Follow(tb.flows[k], g) => Follows(tb, r)
    BY <1>1 DEF Follows, Follow
  <1> QED
    BY <1>1, <1>2, <1>3, TrimmedInv

\* newFlow gives the flow an id that no other ever had.
LEMMA NewFlow == ASSUME NEW tb, TableInv(tb), NEW k \in Keys, k \notin DOMAIN tb.flows
                 PROVE  LET r == newFlow(tb, k)
                        IN  /\ TableInv(r) /\ Follows(tb, r) /\ r.next = tb.next + 1
                            /\ k \in DOMAIN r.flows /\ r.fragments = tb.fragments
  <1> DEFINE r == newFlow(tb, k)
             g == [id |-> tb.next + 1, state |-> "pending", pending |-> <<>>, sent |-> FALSE,
                   used |-> FALSE, left |-> AuthTimeout, age |-> 0]
  <1>1. IsTable(tb) /\ tb.next \in Nat /\ AuthTimeout \in Nat /\ RetryDelay \in Nat
    BY FlowAssumption DEF TableInv, TypeTable
  <1>2. IsTable(r)
    BY <1>1, Fields DEF newFlow
  <1>3. r.flows = Put(tb.flows, k, g)
    BY <1>1 DEF IsTable, newFlow
  <1>4. r.auth = Put(tb.auth, tb.next + 1, k)
    BY <1>1 DEF IsTable, newFlow
  <1>5. r.next = tb.next + 1 /\ r.fragments = tb.fragments
    BY <1>1 DEF IsTable, newFlow
  <1>6. g \in Flow /\ Waits(g)
    <2>1. g \in Flow
      BY <1>1 DEF Flow
    <2>2. Waits(g)
      BY <1>1 DEF Waits
    <2> QED
      BY <2>1, <2>2
  <1>7. g.id = tb.next + 1 /\ g.state = "pending" /\ ~g.sent /\ ~g.used
    OBVIOUS
  <1> HIDE DEF r, g
  <1>8. /\ DOMAIN r.flows = DOMAIN tb.flows \cup {k} /\ r.flows[k] = g
        /\ \A j \in DOMAIN tb.flows : r.flows[j] = tb.flows[j]
        /\ r.flows \in [DOMAIN r.flows -> Flow]
    <2>1. tb.flows \in [DOMAIN tb.flows -> Flow]
      BY DEF TableInv, TypeTable
    <2> QED
      BY <1>3, <1>6, <2>1 DEF Put
  <1>9. /\ DOMAIN r.auth = DOMAIN tb.auth \cup {tb.next + 1} /\ r.auth[tb.next + 1] = k
        /\ \A i \in DOMAIN tb.auth : i # tb.next + 1 => r.auth[i] = tb.auth[i]
        /\ r.auth \in [DOMAIN r.auth -> Keys]
    <2>1. tb.auth \in [DOMAIN tb.auth -> Keys]
      BY DEF TableInv, TypeTable
    <2> QED
      BY <1>4, <2>1 DEF Put
  <1>10. /\ \A i \in DOMAIN tb.auth : i # tb.next + 1
         /\ \A j \in DOMAIN tb.flows : tb.flows[j].id <= tb.next /\ tb.flows[j].id \in Nat /\ j # k
    BY <1>1 DEF TableInv, TypeTable, Indexed, Flow
  <1>11. TypeTable(r)
    BY <1>1, <1>2, <1>5, <1>8, <1>9 DEF TableInv, TypeTable
  <1>12. Indexed(r)
    <2>1. \A j \in DOMAIN r.flows : r.flows[j].id \in DOMAIN r.auth /\ r.auth[r.flows[j].id] = j
      BY <1>7, <1>8, <1>9, <1>10 DEF TableInv, Indexed
    <2>2. \A i \in DOMAIN r.auth : r.auth[i] \in DOMAIN r.flows /\ r.flows[r.auth[i]].id = i
      BY <1>7, <1>8, <1>9, <1>10 DEF TableInv, Indexed
    <2>3. \A fr \in DOMAIN r.fragments :
             Live(r, r.fragments[fr]) /\ r.flows[r.fragments[fr].key].state # "failed"
      BY <1>5, <1>8, <1>10 DEF TableInv, Indexed, Live
    <2> QED
      BY <2>1, <2>2, <2>3 DEF Indexed
  <1>13. \A j \in DOMAIN r.flows : r.flows[j].id <= r.next /\ Waits(r.flows[j])
    BY <1>1, <1>5, <1>6, <1>7, <1>8, <1>10 DEF TableInv
  <1>14. Follows(tb, r)
    BY <1>1, <1>5, <1>7, <1>8, <1>10 DEF Follows, Follow
  <1> QED
    BY <1>5, <1>8, <1>11, <1>12, <1>13, <1>14 DEF TableInv, r

\* The association of a datagram is with the flow of its first fragment.
LEMMA AssociateOK == ASSUME NEW tb, TableInv(tb), NEW k \in DOMAIN tb.flows, tb.flows[k].state # "failed",
                            NEW fr, NEW off \in Nat, NEW more \in BOOLEAN,
                            off = 0 \/ fr \in DOMAIN tb.fragments
                     PROVE  LET r == Associate(tb, k, fr, off, more)
                            IN  TableInv(r) /\ Follows(tb, r) /\ r.next = tb.next
  <1> DEFINE r == Associate(tb, k, fr, off, more)
             e == [key |-> k, id |-> tb.flows[k].id, next |-> off + 1,
                   left |-> IF off = 0 THEN FragmentTTL ELSE tb.fragments[fr].left]
  <1>1. IsTable(tb) /\ tb.next \in Nat /\ FragmentTTL \in Nat
    BY FlowAssumption DEF TableInv, TypeTable
  <1>2. CASE more
    <2>1. r = [tb EXCEPT !.fragments = Put(tb.fragments, fr, e)]
      BY <1>2 DEF Associate
    <2>2. e \in Entry
      <3>1. (IF off = 0 THEN FragmentTTL ELSE tb.fragments[fr].left) \in Nat
        BY <1>1 DEF TableInv, TypeTable, Entry
      <3>2. k \in Keys /\ tb.flows[k].id \in Nat \ {0}
        BY DEF TableInv, TypeTable, Flow
      <3> QED
        BY <3>1, <3>2 DEF Entry
    <2>3. e.key = k /\ e.id = tb.flows[k].id
      OBVIOUS
    <2> HIDE DEF r, e
    <2>4. IsTable(r)
      BY <1>1, <2>1, Fields
    <2>5. r.flows = tb.flows /\ r.auth = tb.auth /\ r.next = tb.next
      BY <1>1, <2>1 DEF IsTable
    <2>6. r.fragments = Put(tb.fragments, fr, e)
      BY <1>1, <2>1 DEF IsTable
    <2>7. /\ DOMAIN r.fragments = DOMAIN tb.fragments \cup {fr} /\ r.fragments[fr] = e
          /\ \A x \in DOMAIN tb.fragments : x # fr => r.fragments[x] = tb.fragments[x]
          /\ r.fragments \in [DOMAIN r.fragments -> Entry]
      <3>1. tb.fragments \in [DOMAIN tb.fragments -> Entry]
        BY DEF TableInv, TypeTable
      <3> QED
        BY <2>2, <2>6, <3>1 DEF Put
    <2>8. TypeTable(r)
      BY <2>4, <2>5, <2>7 DEF TableInv, TypeTable
    <2>9. \A x \in DOMAIN r.fragments : Live(r, r.fragments[x]) /\ r.flows[r.fragments[x].key].state # "failed"
      BY <2>3, <2>5, <2>7 DEF TableInv, Indexed, Live
    <2>10. Indexed(r)
      BY <2>5, <2>9 DEF TableInv, Indexed
    <2>11. Follows(tb, r)
      BY <1>1, <2>5 DEF Follows, Follow
    <2> QED
      BY <2>5, <2>8, <2>10, <2>11 DEF TableInv, r
  <1>3. CASE ~more /\ off # 0
    <2>1. r = [tb EXCEPT !.fragments = Without(tb.fragments, {fr})]
      BY <1>3 DEF Associate, Forget
    <2> HIDE DEF r
    <2> QED
      BY <2>1, Sweep DEF r
  <1>4. CASE ~more /\ off = 0
    <2>1. r = tb
      BY <1>4 DEF Associate
    <2> QED
      BY <1>1, <2>1 DEF Follows, Follow
  <1> QED
    BY <1>2, <1>3, <1>4

\* No id is given away.
NoNew(tb, r) == r.next = tb.next

\* queuePacket at a flow of the table.
LEMMA AdmitOK == ASSUME NEW tb, TableInv(tb), NEW k \in DOMAIN tb.flows, NEW fr, NEW off \in Nat,
                        NEW more \in BOOLEAN, NEW n \in Sizes, off = 0 \/ fr \in DOMAIN tb.fragments
                 PROVE  LET r == Admit(tb, k, fr, off, more, n)
                        IN  TableInv(r) /\ Follows(tb, r) /\ NoNew(tb, r)
  <1> DEFINE r == Admit(tb, k, fr, off, more, n)
             f == tb.flows[k]
  <1>1. IsTable(tb) /\ tb.next \in Nat /\ f \in Flow /\ IdleTTL \in Nat /\ Waits(f)
    BY FlowAssumption DEF TableInv, TypeTable
  <1>2. f.state \in {"pending", "ready", "failed"}
    BY <1>1 DEF Flow
  <1>3. ASSUME f.state = "failed" \/ f.state = "ready", NEW u, TableInv(u), Follows(tb, u), u.next = tb.next, u.flows = tb.flows
        PROVE  LET q == [u EXCEPT !.flows[k].left = IdleTTL]
               IN  TableInv(q) /\ Follows(tb, q) /\ q.next = tb.next /\ k \in DOMAIN q.flows
                   /\ q.flows[k].state = f.state /\ q.fragments = u.fragments
    <2> DEFINE q == [u EXCEPT !.flows[k].left = IdleTTL]
               g == [f EXCEPT !.left = IdleTTL]
    <2>1. IsTable(u)
      BY <1>3 DEF TableInv, TypeTable
    <2>2. IsTable(q) 
      BY <2>1, Fields
    <2>3. q.flows = [u.flows EXCEPT ![k] = g]
      BY <1>3, <2>1 DEF IsTable
    <2>4. q.auth = u.auth /\ q.next = u.next /\ q.fragments = u.fragments
      BY <2>1 DEF IsTable
    <2>5. g \in Flow /\ g.id = f.id /\ g.state = f.state /\ Follow(f, g) /\ Waits(g)
      <3>1. g \in Flow /\ g.id = f.id /\ g.state = f.state /\ g.sent = f.sent /\ g.used = f.used
        BY <1>1 DEF Flow
      <3> QED
        BY <1>3, <3>1 DEF Follow, Waits
    <2> HIDE DEF q, g
    <2>6. TableInv(q) /\ q.flows[k] = g /\ DOMAIN q.flows = DOMAIN u.flows /\ (Follow(u.flows[k], g) => Follows(u, q))
      BY <1>3, <2>2, <2>3, <2>4, <2>5, Touch
    <2>7. Follows(u, q)
      BY <1>3, <2>5, <2>6
    <2>8. Follows(tb, q)
      BY <1>3, <2>6, <2>7, FollowsTwice
    <2> QED
      BY <1>3, <2>4, <2>5, <2>6, <2>8 DEF q
  <1>4. CASE f.state = "failed"
    <2> DEFINE u == Forget(tb, fr)
    <2>1. r = [u EXCEPT !.flows[k].left = IdleTTL]
      BY <1>4 DEF Admit
    <2>2. TableInv(u) /\ Follows(tb, u) /\ u.next = tb.next /\ u.flows = tb.flows
      BY Sweep DEF Forget
    <2> HIDE DEF u, r, f
    <2> QED
      BY <1>3, <1>4, <2>1, <2>2 DEF r, NoNew
  <1>5. CASE f.state = "ready"
    <2> DEFINE q == [tb EXCEPT !.flows[k].left = IdleTTL]
    <2>1. r = Associate(q, k, fr, off, more)
      BY <1>5 DEF Admit
    <2>2. Follows(tb, tb)
      BY <1>1 DEF Follows, Follow
    <2>3. TableInv(q) /\ Follows(tb, q) /\ q.next = tb.next /\ k \in DOMAIN q.flows /\ q.flows[k].state = f.state
          /\ q.fragments = tb.fragments
      BY <1>3, <1>5, <2>2
    <2> HIDE DEF q, r, f
    <2>4. TableInv(r) /\ Follows(q, r) /\ r.next = tb.next
      BY <1>5, <2>1, <2>3, AssociateOK
    <2> QED
      BY <2>3, <2>4, FollowsTwice DEF r, NoNew
  <1>6. CASE f.state = "pending" /\ ~Room(tb, k, n)
    <2>1. r = Forget(tb, fr)
      BY <1>6 DEF Admit
    <2> QED
      BY <2>1, Sweep DEF Forget, NoNew
  <1>7. CASE f.state = "pending" /\ Room(tb, k, n)
    <2> DEFINE q == [tb EXCEPT !.flows[k].pending = Append(@, n), !.pendingPackets = @ + 1, !.pendingBytes = @ + n]
               g == [f EXCEPT !.pending = Append(f.pending, n)]
    <2>1. r = Associate(q, k, fr, off, more)
      BY <1>7 DEF Admit
    <2>2. IsTable(q)
      BY <1>1, Fields
    <2>3. q.flows = [tb.flows EXCEPT ![k] = g]
      BY <1>1 DEF IsTable
    <2>4. q.auth = tb.auth /\ q.next = tb.next /\ q.fragments = tb.fragments
      BY <1>1 DEF IsTable
    <2>5. g \in Flow /\ g.id = f.id /\ g.state = f.state /\ Follow(f, g) /\ Waits(g)
      <3>1. Append(f.pending, n) \in Seq(Sizes)
        BY <1>1 DEF Flow
      <3>2. g \in Flow /\ g.id = f.id /\ g.state = f.state /\ g.sent = f.sent /\ g.used = f.used
            /\ g.age = f.age /\ g.left = f.left
        BY <1>1, <3>1 DEF Flow
      <3> QED
        BY <1>1, <3>2 DEF Follow, Waits
    <2> HIDE DEF q, g
    <2>6. TableInv(q) /\ q.flows[k] = g /\ DOMAIN q.flows = DOMAIN tb.flows /\ (Follow(tb.flows[k], g) => Follows(tb, q))
      BY <2>2, <2>3, <2>4, <2>5, Touch
    <2> HIDE DEF r, NoNew
    <2>7. k \in DOMAIN q.flows /\ q.flows[k].state # "failed"
      BY <1>7, <2>5, <2>6
    <2>8. TableInv(r) /\ Follows(q, r) /\ r.next = q.next
      BY <2>1, <2>4, <2>6, <2>7, AssociateOK
    <2> QED
      BY <2>4, <2>5, <2>6, <2>8, FollowsTwice DEF r, NoNew
  <1> QED
    BY <1>2, <1>4, <1>5, <1>6, <1>7

\* The same for a packet that is whole, or the first of its datagram.
LEMMA AdmitFirst == ASSUME NEW tb, TableInv(tb), NEW k \in DOMAIN tb.flows, NEW fr, NEW more \in BOOLEAN,
                           NEW n \in Sizes
                    PROVE  LET r == Admit(tb, k, fr, 0, more, n)
                           IN  TableInv(r) /\ Follows(tb, r) /\ NoNew(tb, r)
  BY AdmitOK

\* queuePacket of a later fragment.
LEMMA TailOK == ASSUME NEW tb, TableInv(tb), NEW fr, NEW off \in Nat, NEW more \in BOOLEAN, NEW n \in Sizes
                PROVE  LET r == QueueTail(tb, fr, off, more, n)
                       IN  TableInv(r) /\ Follows(tb, r) /\ r.next = tb.next
  <1> DEFINE r == QueueTail(tb, fr, off, more, n)
             s == tb.fragments[fr]
  <1>1. CASE r = tb
    BY <1>1 DEF Follows, Follow, TableInv, TypeTable
  <1>2. CASE r = Forget(tb, fr)
    BY <1>2, Sweep DEF Forget
  <1>3. CASE fr \in DOMAIN tb.fragments /\ r = Admit(tb, s.key, fr, off, more, n)
    <2>1. s.key \in DOMAIN tb.flows
      BY <1>3 DEF TableInv, Indexed, Live
    <2> QED
      BY <1>3, <2>1, AdmitOK DEF NoNew
  <1> QED
    BY <1>1, <1>2, <1>3 DEF QueueTail

\* queuePacket of a whole packet, or of a first fragment that was let in: the flow is there,
\* or the table makes one.
LEMMA FlowOK == ASSUME NEW tb, TableInv(tb), NEW k \in Keys, NEW fr, NEW more \in BOOLEAN, NEW n \in Sizes
                PROVE  LET r == QueueFlow(tb, k, fr, more, n)
                       IN  /\ TableInv(r) /\ Follows(tb, r) /\ r.next <= tb.next + 1
                           /\ k \in DOMAIN tb.flows /\ ~expired(tb.flows[k]) => r.next = tb.next
  <1> DEFINE r == QueueFlow(tb, k, fr, more, n)
             kept == IF k \in DOMAIN tb.flows /\ expired(tb.flows[k]) THEN removeLocked(tb, {k}) ELSE tb
  <1>1. TableInv(kept) /\ Follows(tb, kept) /\ kept.next = tb.next /\ tb.next \in Nat
        /\ (k \in DOMAIN tb.flows /\ ~expired(tb.flows[k]) => k \in DOMAIN kept.flows)
    <2>1. CASE k \in DOMAIN tb.flows /\ expired(tb.flows[k])
      BY <2>1, Remove DEF TableInv, TypeTable
    <2>2. CASE ~(k \in DOMAIN tb.flows /\ expired(tb.flows[k]))
      BY <2>2 DEF Follows, Follow, TableInv, TypeTable
    <2> QED
      BY <2>1, <2>2
  <1>2. \/ k \in DOMAIN kept.flows /\ r = Admit(kept, k, fr, 0, more, n)
        \/ k \notin DOMAIN kept.flows /\ r = kept
        \/ k \notin DOMAIN kept.flows /\ r = Admit(newFlow(kept, k), k, fr, 0, more, n)
    BY DEF QueueFlow
  <1> HIDE DEF kept, r
  <1>3. CASE k \in DOMAIN kept.flows /\ r = Admit(kept, k, fr, 0, more, n)
    <2>1. TableInv(kept) /\ k \in DOMAIN kept.flows
      BY <1>1, <1>3
    <2>2. TableInv(r) /\ Follows(kept, r) /\ r.next = kept.next
      BY <1>3, <2>1, AdmitFirst DEF NoNew
    <2> QED
      BY <1>1, <2>2, FollowsTwice DEF r
  <1>4. CASE k \notin DOMAIN kept.flows /\ r = kept
    BY <1>1, <1>4 DEF r
  <1>5. CASE k \notin DOMAIN kept.flows /\ r = Admit(newFlow(kept, k), k, fr, 0, more, n)
    <2> DEFINE q == newFlow(kept, k)
    <2>1. TableInv(q) /\ Follows(kept, q) /\ q.next = kept.next + 1 /\ k \in DOMAIN q.flows
      BY <1>1, <1>5, NewFlow
    <2>2. Follows(tb, q)
      BY <1>1, <2>1, FollowsTwice
    <2> HIDE DEF q
    <2>4. r = Admit(q, k, fr, 0, more, n)
      BY <1>5 DEF q
    <2>3. TableInv(r) /\ Follows(q, r) /\ r.next = q.next
      BY <2>1, <2>4, AdmitFirst DEF NoNew
    <2> QED
      BY <1>1, <1>5, <2>1, <2>2, <2>3, FollowsTwice DEF r
  <1> QED
    BY <1>2, <1>3, <1>4, <1>5

\* queuePacket of a whole packet or a first fragment.
LEMMA FirstOK == ASSUME NEW tb, TableInv(tb), NEW k \in Keys, NEW fr, NEW more \in BOOLEAN, NEW n \in Sizes
                 PROVE  LET r == QueueFirst(tb, k, fr, more, n)
                        IN  /\ TableInv(r) /\ Follows(tb, r) /\ r.next <= tb.next + 1
                            /\ k \in DOMAIN tb.flows /\ ~expired(tb.flows[k]) => r.next = tb.next
  <1> DEFINE r == QueueFirst(tb, k, fr, more, n)
             swept == expireFragmentsLocked(tb)
  <1>1. TableInv(swept) /\ Follows(tb, swept) /\ swept.next = tb.next /\ swept.flows = tb.flows /\ tb.next \in Nat
    BY Sweep DEF expireFragmentsLocked, TableInv, TypeTable
  <1>2. r \in {QueueFlow(tb, k, fr, more, n), Forget(tb, fr), swept, QueueFlow(swept, k, fr, more, n)}
    BY DEF QueueFirst
  <1> HIDE DEF swept, r
  <1>3. CASE r = QueueFlow(tb, k, fr, more, n)
    BY <1>3, FlowOK DEF r
  <1>4. CASE r = Forget(tb, fr)
    BY <1>1, <1>4, Sweep DEF Forget, r
  <1>5. CASE r = swept
    BY <1>1, <1>5 DEF r
  <1>6. CASE r = QueueFlow(swept, k, fr, more, n)
    <2>1. TableInv(r) /\ Follows(swept, r) /\ r.next <= swept.next + 1
          /\ (k \in DOMAIN swept.flows /\ ~expired(swept.flows[k]) => r.next = swept.next)
      BY <1>1, <1>6, FlowOK
    <2> QED
      BY <1>1, <2>1, FollowsTwice DEF r
  <1> QED
    BY <1>2, <1>3, <1>4, <1>5, <1>6

\* releasePendingLocked, and removeFragmentsLocked with it.
LEMMA Release == ASSUME NEW tb, TableInv(tb), NEW S, S \subseteq DOMAIN tb.flows
                 PROVE  LET p == releasePendingLocked(tb, S)
                            q == removeFragmentsLocked(p, S)
                        IN  /\ TableInv(p) /\ p.flows = tb.flows /\ p.next = tb.next
                            /\ TableInv(q) /\ q.flows = tb.flows /\ q.next = tb.next
                            /\ \A fr \in DOMAIN q.fragments : q.fragments[fr].key \notin S
  <1> DEFINE p == releasePendingLocked(tb, S)
             q == removeFragmentsLocked(p, S)
  <1>1. IsTable(tb)
    BY DEF TableInv, TypeTable
  <1>2. IsTable(p) /\ p.flows = tb.flows /\ p.auth = tb.auth /\ p.fragments = tb.fragments /\ p.next = tb.next
    BY <1>1, ReleaseFields
  <1> HIDE DEF p
  <1>3. TableInv(p)
    BY <1>2 DEF TableInv, TypeTable, Indexed, Live
  <1>4. /\ IsTable(q) /\ q.flows = p.flows /\ q.auth = p.auth /\ q.next = p.next
        /\ q.fragments = Without(p.fragments, Orphans(p, S))
    BY <1>2, CutFields
  <1> HIDE DEF q
  <1>5. /\ DOMAIN q.fragments = DOMAIN p.fragments \ Orphans(p, S)
        /\ \A fr \in DOMAIN q.fragments : q.fragments[fr] = p.fragments[fr]
        /\ q.fragments \in [DOMAIN q.fragments -> Entry]
    BY <1>3, <1>4, WithoutMap DEF Without, TableInv, TypeTable
  <1>6. Trimmed(p, q)
    BY <1>3, <1>4, <1>5 DEF Trimmed, TableInv, TypeTable, Indexed, Live
  <1>7. TableInv(q)
    BY <1>3, <1>6, TrimmedInv
  <1>8. \A fr \in DOMAIN q.fragments : q.fragments[fr].key \notin S
    BY <1>3, <1>5 DEF TableInv, Indexed, Live, Orphans
  <1> QED
    BY <1>2, <1>3, <1>4, <1>7, <1>8 DEF p, q

\* completeAuth: the answer, whatever it is, ends the waiting of the flow it is for.
LEMMA CompleteOK == ASSUME TableInv(t), NEW id, NEW ok \in BOOLEAN
                    PROVE  LET r == completeAuth(id, ok)
                           IN  TableInv(r) /\ Follows(t, r) /\ NoNew(t, r)
  <1> DEFINE r == completeAuth(id, ok)
             k == t.auth[id]
             b == IF ok THEN releasePendingLocked(t, {k})
                  ELSE removeFragmentsLocked(releasePendingLocked(t, {k}), {k})
  <1>1. IsTable(t) /\ t.next \in Nat /\ IdleTTL \in Nat
    BY FlowAssumption DEF TableInv, TypeTable
  <1>2. CASE ~Awaits(id)
    <2>1. r = t
      BY <1>2 DEF completeAuth
    <2> QED
      BY <1>1, <2>1 DEF Follows, Follow, NoNew
  <1>3. CASE Awaits(id) /\ expired(t.flows[k])
    <2>1. r = removeLocked(t, {k})
      BY <1>3 DEF completeAuth
    <2>2. {k} \subseteq DOMAIN t.flows
      BY <1>3 DEF Awaits, TableInv, Indexed
    <2> HIDE DEF k
    <2> QED
      BY <2>1, <2>2, Remove DEF NoNew
  <1>4. CASE Awaits(id) /\ ~expired(t.flows[k])
    <2> DEFINE f == t.flows[k]
               g == [f EXCEPT !.state = IF ok THEN "ready" ELSE "failed", !.pending = <<>>,
                              !.left = IdleTTL, !.age = 0]
    <2>1. r = [b EXCEPT !.flows[k].state = IF ok THEN "ready" ELSE "failed", !.flows[k].pending = <<>>,
                        !.flows[k].left = IdleTTL, !.flows[k].age = 0]
      BY <1>4 DEF completeAuth
    <2>2. k \in DOMAIN t.flows /\ f.state = "pending" /\ f \in Flow
      BY <1>4 DEF Awaits, TableInv, TypeTable, Indexed
    <2>3. /\ TableInv(b) /\ b.flows = t.flows /\ b.next = t.next
          /\ ok \/ \A fr \in DOMAIN b.fragments : b.fragments[fr].key # k
      <3>1. {k} \subseteq DOMAIN t.flows
        BY <2>2
      <3> HIDE DEF k
      <3> QED
        BY <3>1, Release
    <2>4. IsTable(b)
      BY <2>3 DEF TableInv, TypeTable
    <2> HIDE DEF b, k, r
    <2>5. g \in Flow /\ g.id = f.id /\ g.sent = f.sent /\ g.used = f.used
          /\ g.state = IF ok THEN "ready" ELSE "failed"
      <3>0. ASSUME NEW st \in {"pending", "ready", "failed"}, NEW ps \in Seq(Sizes),
                   NEW h, h = [f EXCEPT !.state = st, !.pending = ps, !.left = IdleTTL, !.age = 0]
            PROVE  h \in Flow /\ h.id = f.id /\ h.sent = f.sent /\ h.used = f.used /\ h.state = st
        BY <1>1, <2>2, <3>0 DEF Flow
      <3> <<>> \in Seq(Sizes)
        OBVIOUS
      <3>1. CASE ok
        <4>1. g = [f EXCEPT !.state = "ready", !.pending = <<>>, !.left = IdleTTL, !.age = 0]
          BY <3>1
        <4> HIDE DEF f, g
        <4>2. g \in Flow
          BY <3>0, <4>1
        <4>3. g.id = f.id /\ g.sent = f.sent /\ g.used = f.used
          BY <2>2, <4>1 DEF Flow
        <4>4. g.state = "ready"
          BY <2>2, <4>1 DEF Flow
        <4> QED
          BY <3>1, <4>2, <4>3, <4>4
      <3>2. CASE ~ok
        <4>1. g = [f EXCEPT !.state = "failed", !.pending = <<>>, !.left = IdleTTL, !.age = 0]
          BY <3>2
        <4> HIDE DEF f, g
        <4>2. g \in Flow
          BY <3>0, <4>1
        <4>3. g.id = f.id /\ g.sent = f.sent /\ g.used = f.used
          BY <2>2, <4>1 DEF Flow
        <4>4. g.state = "failed"
          BY <2>2, <4>1 DEF Flow
        <4> QED
          BY <3>2, <4>2, <4>3, <4>4
      <3> QED
        BY <3>1, <3>2
    <2>6. IsTable(r)
      BY <2>1, <2>4, Fields
    <2>7. r.auth = b.auth /\ r.fragments = b.fragments /\ r.next = b.next
      BY <2>1, <2>4 DEF IsTable
    <2>8. r.flows = [b.flows EXCEPT ![k] = g]
      BY <2>1, <2>2, <2>3, <2>4 DEF IsTable
    <2>9. Waits(g) /\ Follow(f, g)
      BY <2>2, <2>5 DEF Waits, Follow
    <2> HIDE DEF f, g
    <2>10. TableInv(r) /\ r.flows[k] = g /\ DOMAIN r.flows = DOMAIN b.flows
      BY <2>2, <2>3, <2>5, <2>6, <2>7, <2>8, <2>9, Touch DEF f
    <2>11. Follows(t, r)
      BY <1>1, <2>2, <2>3, <2>7, <2>8, <2>9, <2>10 DEF Follows, Follow, f
    <2> QED
      BY <2>3, <2>7, <2>10, <2>11 DEF r, NoNew
  <1> QED
    BY <1>2, <1>3, <1>4

\* expire: the flows that are over, and every association that is over or has lost its flow.
LEMMA ExpireOK == ASSUME TableInv(t), expire PROVE TableInv(t') /\ Follows(t, t') /\ NoNew(t, t')
  <1> DEFINE dead == {k \in DOMAIN t.flows : expired(t.flows[k])}
             p    == releasePendingLocked(t, dead)
             rest == [p EXCEPT !.flows = Without(p.flows, dead), !.auth = Without(p.auth, {t.flows[k].id : k \in dead})]
             gone == {fr \in DOMAIN rest.fragments :
                        rest.fragments[fr].left = 0 \/ ~Live(rest, rest.fragments[fr])}
  <1>1. t' = [rest EXCEPT !.fragments = Without(rest.fragments, gone)]
    BY DEF expire
  <1>2. IsTable(t) /\ t.next \in Nat
    BY DEF TableInv, TypeTable
  <1>3. IsTable(p) /\ p.flows = t.flows /\ p.auth = t.auth /\ p.fragments = t.fragments /\ p.next = t.next
    BY <1>2, ReleaseFields
  <1> HIDE DEF p
  <1>4. IsTable(rest) /\ rest.fragments = t.fragments /\ rest.next = t.next
    <2>1. IsTable(rest)
      BY <1>3, Fields
    <2>2. rest.fragments = p.fragments /\ rest.next = p.next
      BY <1>3 DEF IsTable
    <2> QED
      BY <1>3, <2>1, <2>2
  <1>5. rest.flows = Without(t.flows, dead)
    BY <1>3 DEF IsTable
  <1>6. rest.auth = Without(t.auth, {t.flows[k].id : k \in dead})
    BY <1>3 DEF IsTable
  <1> HIDE DEF rest
  <1>7. IsTable(t') /\ t'.flows = rest.flows /\ t'.auth = rest.auth /\ t'.next = t.next
    <2>1. IsTable([rest EXCEPT !.fragments = Without(rest.fragments, gone)])
      BY <1>4, Fields
    <2>2. t'.flows = rest.flows /\ t'.auth = rest.auth /\ t'.next = rest.next
      BY <1>1, <1>4 DEF IsTable
    <2> HIDE DEF gone
    <2> QED
      BY <1>1, <1>4, <2>1, <2>2
  <1>8. t'.fragments = Without(t.fragments, gone)
    BY <1>1, <1>4 DEF IsTable
  <1>9. /\ DOMAIN t'.flows = DOMAIN t.flows \ dead /\ \A k \in DOMAIN t'.flows : t'.flows[k] = t.flows[k]
        /\ t'.flows \in [DOMAIN t'.flows -> Flow]
    BY <1>5, <1>7, WithoutMap DEF Without, TableInv, TypeTable
  <1>10. /\ DOMAIN t'.auth = DOMAIN t.auth \ {t.flows[k].id : k \in dead}
         /\ \A i \in DOMAIN t'.auth : t'.auth[i] = t.auth[i]
         /\ t'.auth \in [DOMAIN t'.auth -> Keys]
    BY <1>6, <1>7, WithoutMap DEF Without, TableInv, TypeTable
  <1>11. DOMAIN t'.auth = {i \in DOMAIN t.auth : t.auth[i] \in DOMAIN t'.flows}
    BY <1>9, <1>10 DEF TableInv, Indexed
  <1>12. /\ DOMAIN t'.fragments = DOMAIN t.fragments \ gone
         /\ \A fr \in DOMAIN t'.fragments : t'.fragments[fr] = t.fragments[fr]
         /\ t'.fragments \in [DOMAIN t'.fragments -> Entry]
    BY <1>8, WithoutMap DEF Without, TableInv, TypeTable
  <1>13. ASSUME NEW fr \in DOMAIN t'.fragments
         PROVE  t'.fragments[fr].key \in DOMAIN t'.flows /\ t'.flows[t'.fragments[fr].key].state # "failed"
    <2>1. Live(rest, t.fragments[fr]) /\ fr \in DOMAIN t.fragments
      BY <1>4, <1>12, <1>13
    <2>2. t.flows[t.fragments[fr].key].state # "failed"
      BY <2>1 DEF TableInv, Indexed
    <2> QED
      BY <1>7, <1>9, <1>12, <2>1, <2>2 DEF Live
  <1>14. Trimmed(t, t')
    BY <1>7, <1>9, <1>10, <1>11, <1>12, <1>13 DEF Trimmed, TableInv
  <1>15. Follows(t, t')
    BY <1>2, <1>7, <1>9 DEF Follows, Follow
  <1> QED
    BY <1>7, <1>14, <1>15, TrimmedInv DEF NoNew

\* retryAuth: the flow gets its second and last chance, its id and its state unchanged.
LEMMA RetryOK == ASSUME TableInv(t), NEW id, retryAuth(id), Awaits(id), ~expired(t.flows[t.auth[id]]),
                        ~t.flows[t.auth[id]].used
                 PROVE  /\ TableInv(t') /\ NoNew(t, t') /\ DOMAIN t'.flows = DOMAIN t.flows
                        /\ t.auth[id] \in DOMAIN t.flows
                        /\ \A k \in DOMAIN t.flows : k # t.auth[id] => t'.flows[k] = t.flows[k]
                        /\ LET f == t.flows[t.auth[id]]
                               g == t'.flows[t.auth[id]]
                           IN  g.id = f.id /\ g.state = f.state /\ f.sent /\ g.used
  <1> DEFINE k == t.auth[id]
             f == t.flows[k]
             g == [f EXCEPT !.used = TRUE, !.sent = FALSE, !.left = RetryDelay + AuthTimeout]
  <1>1. /\ IsTable(t) /\ AuthTimeout \in Nat /\ RetryDelay \in Nat
        /\ k \in DOMAIN t.flows /\ f.state = "pending" /\ f \in Flow /\ Waits(f) /\ f.sent /\ f.left # 0 /\ ~f.used
    BY FlowAssumption DEF Awaits, TableInv, TypeTable, Indexed, expired
  <1>2. t' = [t EXCEPT !.flows[k].used = TRUE, !.flows[k].sent = FALSE, !.flows[k].left = RetryDelay + AuthTimeout]
    BY DEF retryAuth
  <1> HIDE DEF k
  <1>3. IsTable(t')
    BY <1>1, <1>2, Fields
  <1>4. t'.auth = t.auth /\ t'.fragments = t.fragments /\ t'.next = t.next
    BY <1>1, <1>2 DEF IsTable
  <1>5. t'.flows = [t.flows EXCEPT ![k] = g]
    BY <1>1, <1>2 DEF IsTable
  <1>6. g \in Flow /\ g.id = f.id /\ g.state = f.state /\ g.used /\ g.left = RetryDelay + AuthTimeout /\ g.age = f.age
    <2>1. g \in Flow
      <3>1. RetryDelay + AuthTimeout \in Nat
        BY <1>1
      <3>2. ASSUME NEW x \in Nat PROVE [f EXCEPT !.used = TRUE, !.sent = FALSE, !.left = x] \in Flow
        BY <1>1, <3>2 DEF Flow
      <3> QED
        BY <3>1, <3>2
    <2>2. g.id = f.id /\ g.state = f.state /\ g.age = f.age
      BY <1>1 DEF Flow
    <2>3. g.used = TRUE /\ g.left = RetryDelay + AuthTimeout
      BY <1>1 DEF Flow
    <2> QED
      BY <2>1, <2>2, <2>3
  <1>7. Waits(g)
    <2>1. f.age \in Nat /\ f.left \in Nat /\ f.age + f.left < AuthTimeout + 1
      BY <1>1 DEF Flow, Waits
    <2> HIDE DEF f, g
    <2>2. f.age < AuthTimeout
      BY <1>1, <2>1
    <2>3. g.age + g.left < AuthTimeout + (RetryDelay + AuthTimeout)
      BY <1>1, <1>6, <2>1, <2>2
    <2> QED
      BY <1>6, <2>3 DEF Waits
  <1> HIDE DEF f, g
  <1>8. TableInv(t') /\ t'.flows[k] = g /\ DOMAIN t'.flows = DOMAIN t.flows
    BY <1>1, <1>3, <1>4, <1>5, <1>6, <1>7, Touch DEF f
  <1>9. \A j \in DOMAIN t.flows : j # k => t'.flows[j] = t.flows[j]
    BY <1>5
  <1> QED
    BY <1>1, <1>4, <1>6, <1>8, <1>9 DEF NoNew, k, f

\* The flows S of the table b, marked as asked for.
Marked(b, S) == [b EXCEPT !.flows =
                    [k \in DOMAIN @ |-> IF k \in S THEN [@[k] EXCEPT !.sent = TRUE] ELSE @[k]]]

\* pendingAuth: flows that are over go, some of the others are marked as asked for.
LEMMA PendingOK ==
    ASSUME TableInv(t), NEW D, D \subseteq DOMAIN t.flows, NEW S,
           t' = Marked(removeLocked(t, D), S)
    PROVE  /\ TableInv(t') /\ NoNew(t, t') /\ DOMAIN t'.flows = DOMAIN t.flows \ D
           /\ \A k \in DOMAIN t'.flows :
                 /\ t'.flows[k].id = t.flows[k].id /\ t'.flows[k].state = t.flows[k].state
                 /\ t'.flows[k].used = t.flows[k].used
                 /\ k \in S => t'.flows[k].sent = TRUE
                 /\ k \notin S => t'.flows[k].sent = t.flows[k].sent
  <1> DEFINE b == removeLocked(t, D)
  <1>1. TableInv(b) /\ b.next = t.next /\ b.flows = Without(t.flows, D)
    BY Remove
  <1> HIDE DEF b
  <1>2. DOMAIN b.flows = DOMAIN t.flows \ D /\ \A k \in DOMAIN b.flows : b.flows[k] = t.flows[k]
    BY <1>1 DEF Without
  <1> DEFINE fl == [k \in DOMAIN b.flows |-> IF k \in S THEN [b.flows[k] EXCEPT !.sent = TRUE] ELSE b.flows[k]]
  <1>3. t' = [b EXCEPT !.flows = fl]
    BY DEF b, Marked
  <1>4. IsTable(b)
    BY <1>1 DEF TableInv, TypeTable
  <1>5. ASSUME NEW k \in DOMAIN b.flows
        PROVE  /\ fl[k] \in Flow /\ fl[k].id = b.flows[k].id /\ fl[k].state = b.flows[k].state
               /\ fl[k].used = b.flows[k].used /\ fl[k].left = b.flows[k].left /\ fl[k].age = b.flows[k].age
               /\ fl[k].sent = IF k \in S THEN TRUE ELSE b.flows[k].sent
    <2>1. b.flows[k] \in Flow
      BY <1>1, <1>5 DEF TableInv, TypeTable
    <2>2. CASE k \in S
      BY <1>5, <2>1, <2>2 DEF Flow
    <2>3. CASE k \notin S
      BY <1>5, <2>1, <2>3
    <2> QED
      BY <2>2, <2>3
  <1>6. DOMAIN fl = DOMAIN b.flows /\ fl \in [DOMAIN fl -> Flow]
    BY <1>5
  <1> HIDE DEF fl
  <1>7. IsTable(t')
    <2>1. IsTable([b EXCEPT !.flows = fl])
      BY <1>4, Fields
    <2> QED
      BY <1>3, <2>1
  <1>8. t'.flows = fl /\ t'.auth = b.auth /\ t'.fragments = b.fragments /\ t'.next = b.next
    BY <1>3, <1>4 DEF IsTable
  <1>9. Trimmed(b, t')
    <2>1. ASSUME NEW k \in DOMAIN t'.flows PROVE t'.flows[k].id = b.flows[k].id /\ Waits(t'.flows[k])
      <3>1. k \in DOMAIN b.flows /\ t'.flows[k] = fl[k]
        BY <1>6, <1>8, <2>1
      <3>2. Waits(b.flows[k])
        BY <1>1, <3>1 DEF TableInv
      <3> QED
        BY <1>5, <3>1, <3>2 DEF Waits
    <2>2. ASSUME NEW fr \in DOMAIN t'.fragments
          PROVE  /\ t'.fragments[fr].key \in DOMAIN t'.flows
                 /\ t'.flows[t'.fragments[fr].key].state # "failed"
      <3>1. fr \in DOMAIN b.fragments /\ t'.fragments[fr] = b.fragments[fr]
        BY <1>8, <2>2
      <3>2. b.fragments[fr].key \in DOMAIN b.flows /\ b.flows[b.fragments[fr].key].state # "failed"
        BY <1>1, <3>1 DEF TableInv, Indexed, Live
      <3> QED
        BY <1>5, <1>6, <1>8, <3>1, <3>2
    <2> QED
      BY <1>1, <1>6, <1>7, <1>8, <2>1, <2>2 DEF Trimmed, TableInv, TypeTable, Indexed
  <1>10. TableInv(t')
    BY <1>1, <1>9, TrimmedInv
  <1>11. ASSUME NEW k \in DOMAIN t'.flows
         PROVE  /\ t'.flows[k].id = t.flows[k].id /\ t'.flows[k].state = t.flows[k].state
                /\ t'.flows[k].used = t.flows[k].used
                /\ k \in S => t'.flows[k].sent = TRUE
                /\ k \notin S => t'.flows[k].sent = t.flows[k].sent
    <2>1. k \in DOMAIN b.flows /\ t'.flows[k] = fl[k] /\ b.flows[k] = t.flows[k]
      BY <1>2, <1>6, <1>8, <1>11
    <2> QED
      BY <1>5, <2>1
  <1>12. DOMAIN t'.flows = DOMAIN t.flows \ D /\ t'.next = t.next
    BY <1>1, <1>2, <1>6, <1>8
  <1> QED
    BY <1>10, <1>11, <1>12 DEF NoNew

\* Time passes: what may still be waited becomes what was waited.
LEMMA TickOK == ASSUME TableInv(t), Tick PROVE TableInv(t') /\ Follows(t, t') /\ NoNew(t, t')
  <1> DEFINE less(x) == IF x = 0 THEN 0 ELSE x - 1
             grown(f) == IF f.state = "pending" /\ f.left > 0 THEN f.age + 1 ELSE f.age
             fl == [k \in DOMAIN t.flows |-> [t.flows[k] EXCEPT !.left = less(t.flows[k].left), !.age = grown(t.flows[k])]]
             fs == [fr \in DOMAIN t.fragments |-> [t.fragments[fr] EXCEPT !.left = less(t.fragments[fr].left)]]
  <1>1. IsTable(t) /\ t.next \in Nat
    BY DEF TableInv, TypeTable
  <1>2. t' = [t EXCEPT !.flows = fl, !.fragments = fs]
    BY <1>1 DEF Tick, IsTable
  <1>3. ASSUME NEW f \in Flow
        PROVE  LET g == [f EXCEPT !.left = less(f.left), !.age = grown(f)]
               IN  g \in Flow /\ Follow(f, g) /\ g.state = f.state /\ (Waits(f) => Waits(g))
    <2> DEFINE g == [f EXCEPT !.left = less(f.left), !.age = grown(f)]
    <2>1. f.left \in Nat /\ f.age \in Nat
      BY DEF Flow
    <2>2. less(f.left) \in Nat /\ grown(f) \in Nat
      BY <2>1
    <2> HIDE DEF less, grown
    <2>3. g \in Flow /\ g.left = less(f.left) /\ g.age = grown(f) /\ g.used = f.used /\ g.state = f.state
      BY <2>2 DEF Flow
    <2>4. Follow(f, g)
      BY DEF Flow, Follow
    <2>5. Waits(f) => Waits(g)
      <3> HIDE DEF g
      <3>1. f.state = "pending" => g.age + g.left <= f.age + f.left
        BY <2>1, <2>3 DEF less, grown
      <3>2. g.age \in Nat /\ g.left \in Nat /\ RetryDelay \in Nat /\ AuthTimeout \in Nat
        BY <2>2, <2>3, FlowAssumption
      <3> QED
        BY <2>1, <2>3, <3>1, <3>2 DEF Waits
    <2> QED
      BY <2>3, <2>4, <2>5
  <1>4. \A k \in DOMAIN t.flows : /\ fl[k] \in Flow /\ Follow(t.flows[k], fl[k]) /\ fl[k].state = t.flows[k].state
                                  /\ Waits(t.flows[k]) => Waits(fl[k])
    <2>1. \A k \in DOMAIN t.flows : t.flows[k] \in Flow
      BY DEF TableInv, TypeTable
    <2>2. \A k \in DOMAIN t.flows : fl[k] = [t.flows[k] EXCEPT !.left = less(t.flows[k].left), !.age = grown(t.flows[k])]
      OBVIOUS
    <2> HIDE DEF less, grown, fl
    <2> QED
      BY <1>3, <2>1, <2>2
  <1>5. DOMAIN fl = DOMAIN t.flows /\ fl \in [DOMAIN fl -> Flow]
    BY <1>4
  <1>6. \A fr \in DOMAIN t.fragments : /\ fs[fr] \in Entry /\ fs[fr].key = t.fragments[fr].key
                                       /\ fs[fr].id = t.fragments[fr].id
    <2>1. \A fr \in DOMAIN t.fragments : t.fragments[fr] \in Entry
      BY DEF TableInv, TypeTable
    <2> QED
      BY <2>1 DEF Entry
  <1>7. DOMAIN fs = DOMAIN t.fragments /\ fs \in [DOMAIN fs -> Entry]
    BY <1>6
  <1> HIDE DEF fl, fs
  <1>8. IsTable(t')
    BY <1>1, <1>2, Fields
  <1>9. t'.flows = fl /\ t'.auth = t.auth /\ t'.fragments = fs /\ t'.next = t.next
    BY <1>1, <1>2 DEF IsTable
  <1>10. Trimmed(t, t')
    <2>1. \A k \in DOMAIN t'.flows : t'.flows[k].id = t.flows[k].id /\ Waits(t'.flows[k])
      BY <1>4, <1>5, <1>9 DEF TableInv, Follow
    <2>2. \A fr \in DOMAIN t'.fragments : /\ t'.fragments[fr].key \in DOMAIN t'.flows
                                          /\ t'.flows[t'.fragments[fr].key].state # "failed"
      BY <1>4, <1>5, <1>6, <1>7, <1>9 DEF TableInv, Indexed, Live
    <2> QED
      BY <1>5, <1>6, <1>7, <1>8, <1>9, <2>1, <2>2 DEF Trimmed, TableInv, TypeTable, Indexed
  <1>11. Follows(t, t')
    BY <1>1, <1>4, <1>5, <1>9 DEF Follows
  <1> QED
    BY <1>9, <1>10, <1>11, TrimmedInv DEF NoNew

\* clear: a closed table holds nothing.
LEMMA ClearOK == ASSUME TableInv(t), clear PROVE TableInv(t') /\ Follows(t, t') /\ NoNew(t, t')
  <1>1. t.next \in Nat
    BY DEF TableInv, TypeTable
  <1>2. t' = [flows |-> <<>>, auth |-> <<>>, fragments |-> <<>>, next |-> t.next, pendingPackets |-> 0,
              pendingBytes |-> 0, closed |-> TRUE]
    BY DEF clear, newFlowTable
  <1>3. t'.flows = <<>> /\ t'.auth = <<>> /\ t'.fragments = <<>> /\ t'.next = t.next /\ IsTable(t')
    BY <1>2 DEF IsTable
  <1> QED
    BY <1>1, <1>3 DEF TableInv, TypeTable, Indexed, Follows, NoNew

-----------------------------------------------------------------------------
(* The goroutines.                                                           *)

\* A call that is true to the flows asks for none of them, and makes none that was asked for.
LEMMA FollowAsks == ASSUME FlowInv, TableInv(t'), Follows(t, t'), t'.next <= MaxIDs, asks' = asks,
                           loop' \in Rounds, loop'.batch = loop.batch, loop'.pc # "send" => loop'.batch = {}
                    PROVE  FlowInv'
  <1>1. t.next \in Nat /\ t'.next \in Nat /\ MaxIDs \in Nat /\ t.next <= t'.next
    BY FlowAssumption DEF FlowInv, TableInv, TypeTable, Follows
  <1>2. \A i \in IDs : AskedFor(asks', loop'.batch, i) = AskedFor(asks, loop.batch, i) /\ AskedFor(asks, loop.batch, i) \in Nat
    BY DEF FlowInv, AsksInv, AskedFor, Once
  <1>3. \A i \in IDs : AskedFor(asks', loop'.batch, i) <= IF i <= t'.next THEN 2 ELSE 0
    BY <1>1, <1>2 DEF FlowInv, AsksInv, IDs
  <1>4. ASSUME NEW k \in DOMAIN t'.flows, t'.flows[k].state = "pending"
        PROVE  AskedFor(asks', loop'.batch, t'.flows[k].id) <= Once(t'.flows[k].sent) + Once(t'.flows[k].used)
    <2> DEFINE g == t'.flows[k]
    <2>1. g.id \in IDs /\ g.id \in Nat
      BY <1>1, <1>4 DEF TableInv, TypeTable, Flow, IDs
    <2>2. CASE k \in DOMAIN t.flows /\ Follow(t.flows[k], g)
      <3>1. t.flows[k].state = "pending" /\ t.flows[k].id = g.id /\ t.flows[k].sent = g.sent
            /\ t.flows[k].used = g.used
        BY <1>4, <2>2 DEF Follow
      <3> QED
        BY <1>2, <2>1, <2>2, <3>1 DEF FlowInv, AsksInv
    <2>3. CASE g.id > t.next /\ ~g.sent /\ ~g.used
      <3>1. AskedFor(asks, loop.batch, g.id) = 0
        BY <1>1, <1>2, <2>1, <2>3 DEF FlowInv, AsksInv
      <3> HIDE DEF g
      <3> QED
        BY <1>2, <2>1, <2>3, <3>1 DEF Once, g
    <2> QED
      BY <1>4, <2>2, <2>3 DEF Follows
  <1> QED
    BY <1>3, <1>4 DEF FlowInv, AsksInv

\* A step that leaves the table alone.
LEMMA SameTable == ASSUME FlowInv, t' = t PROVE TableInv(t') /\ Follows(t, t') /\ t'.next <= MaxIDs
  BY DEF FlowInv, AsksInv, TableInv, TypeTable, Follows, Follow

\* Send: an id is given only where there is one left.
LEMMA SendInv == ASSUME FlowInv, SendAny PROVE FlowInv' /\ Follows(t, t')
  <1>1. PICK k \in Keys, fr \in Fragments, off \in 0 .. MaxOffset, more \in BOOLEAN, n \in Sizes :
           Send(k, fr, off, more, n)
    BY DEF SendAny
  <1>2. TableInv(t) /\ t.next \in Nat /\ t.next <= MaxIDs /\ MaxIDs \in Nat /\ off \in Nat
    BY FlowAssumption DEF FlowInv, AsksInv, TableInv, TypeTable
  <1>3. TableInv(t') /\ Follows(t, t') /\ t'.next <= MaxIDs
    <2>1. CASE t' = t
      BY <2>1, SameTable
    <2>2. CASE off # 0 /\ t' = QueueTail(t, fr, off, more, n)
      BY <1>2, <2>2, TailOK
    <2>3. CASE off = 0 /\ t' = QueueFirst(t, k, fr, more, n)
      <3>1. /\ TableInv(t') /\ Follows(t, t') /\ t'.next <= t.next + 1
            /\ k \in DOMAIN t.flows /\ ~expired(t.flows[k]) => t'.next = t.next
        BY <1>2, <2>3, FirstOK
      <3>2. t'.next \in Nat
        BY <3>1 DEF TableInv, TypeTable
      <3> QED
        BY <1>1, <1>2, <2>3, <3>1, <3>2 DEF Send
    <2> QED
      BY <1>1, <2>1, <2>2, <2>3 DEF Send, queuePacket
  <1>4. asks' = asks /\ loop' = loop
    BY <1>1 DEF Send
  <1> QED
    BY <1>3, <1>4, FollowAsks DEF FlowInv, AsksInv

\* The scan of authLoop: what it asks for was not asked for before, or only once.
LEMMA DispatchInv == ASSUME FlowInv, LoopDispatch
                     PROVE  /\ FlowInv'
                            /\ \A k \in DOMAIN t.flows \cap DOMAIN t'.flows : t'.flows[k].state = t.flows[k].state
  <1>1. TableInv(t) /\ t.next \in Nat /\ t.next <= MaxIDs /\ MaxIDs \in Nat /\ loop.batch = {} /\ asks' = asks
    BY FlowAssumption DEF FlowInv, AsksInv, TableInv, TypeTable, LoopDispatch
  <1>2. PICK D \in SUBSET DOMAIN t.flows, S \in SUBSET DOMAIN t.flows :
           /\ \A k \in S : Due(t.flows[k])
           /\ t' = Marked(removeLocked(t, D), S)
           /\ loop' = [pc |-> "send", batch |-> {t.flows[k].id : k \in S}]
    <2>1. PICK V \in SUBSET DOMAIN t.flows :
             LET kept == removeLocked(t, {k \in V : expired(t.flows[k])})
                 S    == {k \in V \cap DOMAIN kept.flows : Due(t.flows[k])}
             IN  /\ t' = [kept EXCEPT !.flows =
                            [k \in DOMAIN @ |-> IF k \in S THEN [@[k] EXCEPT !.sent = TRUE] ELSE @[k]]]
                 /\ loop' = [pc |-> "send", batch |-> {t.flows[k].id : k \in S}]
      BY DEF LoopDispatch, pendingAuth
    <2> DEFINE D == {k \in V : expired(t.flows[k])}
               S == {k \in V \cap DOMAIN removeLocked(t, D).flows : Due(t.flows[k])}
    <2>2. loop' = [pc |-> "send", batch |-> {t.flows[k].id : k \in S}]
      BY <2>1
    <2>3. t' = Marked(removeLocked(t, D), S)
      BY <2>1, Zenon DEF Marked
    <2>4. D \in SUBSET DOMAIN t.flows /\ S \in SUBSET DOMAIN t.flows /\ \A k \in S : Due(t.flows[k])
      OBVIOUS
    <2> HIDE DEF D, S
    <2> QED
      BY <2>2, <2>3, <2>4
  <1>3. \A k \in S : t.flows[k].state = "pending" /\ ~t.flows[k].sent
    BY <1>2 DEF Due
  <1>6. /\ TableInv(t') /\ NoNew(t, t') /\ DOMAIN t'.flows = DOMAIN t.flows \ D
        /\ \A k \in DOMAIN t'.flows :
              /\ t'.flows[k].id = t.flows[k].id /\ t'.flows[k].state = t.flows[k].state
              /\ t'.flows[k].used = t.flows[k].used
              /\ k \in S => t'.flows[k].sent = TRUE
              /\ k \notin S => t'.flows[k].sent = t.flows[k].sent
    BY <1>1, <1>2, PendingOK
  <1>7. loop'.batch = {t.flows[k].id : k \in S} /\ loop'.pc = "send" /\ t'.next = t.next
    BY <1>2, <1>6 DEF NoNew
  <1>8. \A k \in DOMAIN t.flows : /\ t.flows[k].id \in IDs /\ t.flows[k].id <= t.next
                                  /\ t.flows[k].sent \in BOOLEAN /\ t.flows[k].used \in BOOLEAN
    BY <1>1 DEF TableInv, TypeTable, Flow, IDs
  <1>9. loop' \in Rounds
    BY <1>2, <1>8 DEF Rounds
  <1>10. \A i \in IDs : asks[i] \in Nat /\ AskedFor(asks, loop.batch, i) = asks[i] /\ AskedFor(asks', loop'.batch, i) = asks[i] + Once(i \in loop'.batch)
    BY <1>1 DEF FlowInv, AsksInv, AskedFor, Once
  <1>11. ASSUME NEW k \in S
         PROVE  asks[t.flows[k].id] <= Once(t.flows[k].used)
    <2>1. k \in DOMAIN t.flows /\ t.flows[k].state = "pending" /\ Once(t.flows[k].sent) = 0
      BY <1>3, <1>11 DEF Once
    <2>2. AskedFor(asks, loop.batch, t.flows[k].id) <= Once(t.flows[k].sent) + Once(t.flows[k].used)
      BY <2>1 DEF FlowInv, AsksInv
    <2>3. Once(t.flows[k].used) \in Nat
      BY DEF Once
    <2> QED
      BY <1>8, <1>10, <2>1, <2>2, <2>3
  <1>12. ASSUME NEW i \in IDs PROVE AskedFor(asks', loop'.batch, i) <= IF i <= t'.next THEN 2 ELSE 0
    <2>1. CASE i \in loop'.batch
      <3>1. PICK k \in S : i = t.flows[k].id
        BY <1>7, <2>1
      <3>2. i <= t.next /\ asks[i] <= 1
        BY <1>3, <1>8, <1>10, <1>11, <3>1 DEF Once
      <3> QED
        BY <1>7, <1>10, <2>1, <3>2 DEF Once
    <2>2. CASE i \notin loop'.batch
      BY <1>7, <1>10, <2>2 DEF FlowInv, AsksInv, Once
    <2> QED
      BY <2>1, <2>2
  <1>13. ASSUME NEW k \in DOMAIN t'.flows, t'.flows[k].state = "pending"
         PROVE  AskedFor(asks', loop'.batch, t'.flows[k].id) <= Once(t'.flows[k].sent) + Once(t'.flows[k].used)
    <2> DEFINE i == t.flows[k].id
    <2>1. /\ k \in DOMAIN t.flows /\ t.flows[k].state = "pending" /\ t'.flows[k].id = i /\ i \in IDs
          /\ t'.flows[k].used = t.flows[k].used
      BY <1>6, <1>8, <1>13
    <2>2. CASE k \in S
      <3>1. asks[i] <= Once(t.flows[k].used) /\ t'.flows[k].sent = TRUE
        BY <1>6, <1>11, <1>13, <2>2
      <3>2. AskedFor(asks', loop'.batch, i) <= 1 + asks[i] /\ asks[i] \in Nat
        BY <1>10, <2>1 DEF Once
      <3>3. Once(t.flows[k].used) \in Nat /\ Once(t'.flows[k].sent) = 1 /\ Once(i \in loop'.batch) \in Nat
        BY <3>1 DEF Once
      <3>4. AskedFor(asks', loop'.batch, i) \in Nat
        BY <1>10, <2>1, <3>2, <3>3
      <3> QED
        BY <2>1, <3>1, <3>2, <3>3, <3>4
    <2>3. CASE k \notin S
      <3>1. i \notin loop'.batch
        BY <1>3, <1>7, <2>1, <2>3, <1>1 DEF TableInv, Indexed
      <3>2. t'.flows[k].sent = t.flows[k].sent
        BY <1>6, <1>13, <2>3
      <3>3. AskedFor(asks', loop'.batch, i) = AskedFor(asks, loop.batch, i)
        BY <1>10, <2>1, <3>1 DEF Once
      <3>4. AskedFor(asks, loop.batch, i) <= Once(t.flows[k].sent) + Once(t.flows[k].used)
        BY <2>1 DEF FlowInv, AsksInv
      <3> QED
        BY <2>1, <3>2, <3>3, <3>4
    <2> QED
      BY <2>2, <2>3
  <1>14. AsksInv'
    BY <1>1, <1>7, <1>9, <1>12, <1>13 DEF FlowInv, AsksInv
  <1> QED
    BY <1>6, <1>14 DEF FlowInv

\* sendAuthRequest: a request that is due becomes one that was sent, or none.
LEMMA SendRequestInv == ASSUME FlowInv, LoopSend PROVE FlowInv' /\ t' = t
  <1>1. t' = t /\ TableInv(t) /\ loop \in Rounds /\ asks \in [IDs -> Nat]
    BY DEF FlowInv, AsksInv, LoopSend
  <1>2. ASSUME loop' \in Rounds, asks' \in [IDs -> Nat], loop'.pc # "send" => loop'.batch = {},
               \A i \in IDs : AskedFor(asks', loop'.batch, i) <= AskedFor(asks, loop.batch, i)
        PROVE  FlowInv'
    <2>1. \A i \in IDs : AskedFor(asks, loop.batch, i) \in Nat /\ AskedFor(asks', loop'.batch, i) \in Nat
      BY <1>1, <1>2 DEF AskedFor, Once
    <2>2. \A i \in IDs : AskedFor(asks', loop'.batch, i) <= IF i <= t.next THEN 2 ELSE 0
      BY <1>2, <2>1 DEF FlowInv, AsksInv
    <2>3. ASSUME NEW k \in DOMAIN t.flows, t.flows[k].state = "pending"
          PROVE  AskedFor(asks', loop'.batch, t.flows[k].id) <= Once(t.flows[k].sent) + Once(t.flows[k].used)
      <3>1. t.flows[k].id \in IDs
        <4>1. t.flows[k] \in Flow /\ t.flows[k].id <= t.next /\ t.next \in Nat /\ t.next <= MaxIDs
          BY <1>1, <2>3 DEF FlowInv, AsksInv, TableInv, TypeTable
        <4>2. t.flows[k].id \in Nat \ {0} /\ MaxIDs \in Nat
          BY <4>1, FlowAssumption DEF Flow
        <4> QED
          BY <4>1, <4>2 DEF IDs
      <3>2. Once(t.flows[k].sent) \in Nat /\ Once(t.flows[k].used) \in Nat
        BY DEF Once
      <3>3. AskedFor(asks, loop.batch, t.flows[k].id) <= Once(t.flows[k].sent) + Once(t.flows[k].used)
        BY <2>3 DEF FlowInv, AsksInv
      <3> QED
        BY <1>2, <2>1, <3>1, <3>2, <3>3
    <2> QED
      BY <1>1, <1>2, <2>2, <2>3 DEF FlowInv, AsksInv
  <1>3. CASE loop.batch = {} /\ loop' = Scanning /\ asks' = asks
    BY <1>1, <1>2, <1>3 DEF Scanning, Rounds, AskedFor, Once
  <1>4. CASE \E i \in loop.batch : asks' = [asks EXCEPT ![i] = @ + 1] /\ loop' = [loop EXCEPT !.batch = @ \ {i}]
    <2>1. PICK i \in loop.batch : asks' = [asks EXCEPT ![i] = @ + 1] /\ loop' = [loop EXCEPT !.batch = @ \ {i}]
      BY <1>4
    <2>2. loop'.batch = loop.batch \ {i} /\ loop'.pc = loop.pc /\ loop.pc = "send"
      BY <1>1, <2>1 DEF LoopSend, Rounds
    <2>0. loop' \in Rounds /\ i \in IDs
      BY <1>1, <2>1 DEF Rounds
    <2>3. asks' \in [IDs -> Nat] /\ \A j \in IDs : AskedFor(asks', loop'.batch, j) <= AskedFor(asks, loop.batch, j)
      BY <1>1, <2>0, <2>1, <2>2 DEF AskedFor, Once
    <2> QED
      BY <1>1, <1>2, <2>0, <2>2, <2>3
  <1>5. CASE loop' = [pc |-> "done", batch |-> {}] /\ asks' = asks
    BY <1>1, <1>2, <1>5 DEF Rounds, AskedFor, Once
  <1> QED
    BY <1>1, <1>3, <1>4, <1>5 DEF LoopSend

\* The temporary answer: the flow is asked for again, or the answer stands as a rejection.
LEMMA AnswerInv == ASSUME FlowInv, NEW id \in IDs, AnswerRetry(id)
                   PROVE  /\ FlowInv'
                          /\ \/ Follows(t, t')
                             \/ \A k \in DOMAIN t.flows \cap DOMAIN t'.flows : t'.flows[k].state = t.flows[k].state
  <1> DEFINE k == t.auth[id]
             f == t.flows[k]
  <1>1. TableInv(t) /\ t.next \in Nat /\ t.next <= MaxIDs /\ MaxIDs \in Nat /\ asks' = asks /\ loop' = loop
        /\ loop' \in Rounds /\ (loop'.pc # "send" => loop'.batch = {})
    BY FlowAssumption DEF FlowInv, AsksInv, TableInv, TypeTable, AnswerRetry
  <1>2. CASE t' = t
    BY <1>1, <1>2, SameTable, FollowAsks
  <1>3. CASE Awaits(id) /\ expired(f)
    <2>1. t' = removeLocked(t, {k}) /\ {k} \subseteq DOMAIN t.flows
      BY <1>1, <1>3 DEF AnswerRetry, retryAuth, Awaits, TableInv, Indexed
    <2> HIDE DEF k
    <2>2. TableInv(t') /\ Follows(t, t') /\ t'.next = t.next
      BY <1>1, <2>1, Remove
    <2> QED
      BY <1>1, <2>2, FollowAsks
  <1>4. CASE Awaits(id) /\ ~expired(f) /\ ~f.used
    <2>1. /\ TableInv(t') /\ NoNew(t, t') /\ DOMAIN t'.flows = DOMAIN t.flows
          /\ k \in DOMAIN t.flows
          /\ \A j \in DOMAIN t.flows : j # k => t'.flows[j] = t.flows[j]
          /\ t'.flows[k].id = f.id /\ t'.flows[k].state = f.state /\ f.sent /\ t'.flows[k].used
      BY <1>1, <1>4, RetryOK DEF AnswerRetry
    <2> HIDE DEF k
    <2>2. t'.next = t.next
      BY <2>1 DEF NoNew
    <2>3. AsksInv'
      <3>1. ASSUME NEW j \in DOMAIN t'.flows, t'.flows[j].state = "pending"
            PROVE  AskedFor(asks, loop.batch, t'.flows[j].id) <= Once(t'.flows[j].sent) + Once(t'.flows[j].used)
        <4>1. CASE j # k
          <5>1. j \in DOMAIN t.flows /\ t'.flows[j] = t.flows[j]
            BY <2>1, <3>1, <4>1
          <5> QED
            BY <3>1, <5>1 DEF FlowInv, AsksInv
        <4>2. CASE j = k
          <5>1. AskedFor(asks, loop.batch, f.id) <= Once(f.sent) + Once(f.used)
            BY <2>1, <3>1, <4>2 DEF FlowInv, AsksInv
          <5>2. Once(f.sent) = 1 /\ Once(f.used) = 0 /\ Once(t'.flows[k].used) = 1
                /\ Once(t'.flows[k].sent) \in Nat
            BY <1>4, <2>1 DEF Once
          <5>3. f.id \in IDs
            <6>1. f.id \in Nat \ {0} /\ f.id <= t.next
              BY <1>1, <2>1 DEF TableInv, TypeTable, Flow
            <6> QED
              BY <1>1, <6>1 DEF IDs
          <5>4. AskedFor(asks, loop.batch, f.id) \in Nat
            BY <5>3 DEF FlowInv, AsksInv, AskedFor, Once
          <5>5. AskedFor(asks, loop.batch, f.id) <= Once(t'.flows[k].sent) + Once(t'.flows[k].used)
            BY <5>1, <5>2, <5>4
          <5> QED
            BY <2>1, <4>2, <5>5
        <4> QED
          BY <4>1, <4>2
      <3> QED
        BY <1>1, <2>2, <3>1 DEF FlowInv, AsksInv
    <2>4. \A j \in DOMAIN t.flows \cap DOMAIN t'.flows : t'.flows[j].state = t.flows[j].state
      BY <2>1
    <2> QED
      BY <2>1, <2>3, <2>4 DEF FlowInv
  <1> QED
    BY <1>2, <1>3, <1>4 DEF AnswerRetry, retryAuth

\* A step that is true to the flows, or leaves the state of each as it is, keeps what was answered.
Final == \A k \in DOMAIN t.flows \cap DOMAIN t'.flows :
            t'.flows[k].id = t.flows[k].id /\ t.flows[k].state # "pending" =>
                t'.flows[k].state = t.flows[k].state

\* New flows have new ids.
LEMMA FollowsFinal == ASSUME TableInv(t), TableInv(t'), Follows(t, t') PROVE Final
  <1> SUFFICES ASSUME NEW k \in DOMAIN t.flows \cap DOMAIN t'.flows, t'.flows[k].id = t.flows[k].id,
                      t.flows[k].state # "pending"
               PROVE  t'.flows[k].state = t.flows[k].state
    BY DEF Final
  <1>1. t.flows[k].id \in Nat /\ t.flows[k].id <= t.next /\ t.next \in Nat
    BY DEF TableInv, TypeTable, Flow
  <1> QED
    BY <1>1 DEF Follows, Follow

\* The empty table is in order.
LEMMA InitInv == Init => FlowInv
  <1> SUFFICES ASSUME Init PROVE FlowInv
    OBVIOUS
  <1>1. t.flows = <<>> /\ t.auth = <<>> /\ t.fragments = <<>> /\ t.next = 0 /\ IsTable(t)
    BY DEF Init, newFlowTable, IsTable
  <1>2. TableInv(t)
    BY <1>1 DEF TableInv, TypeTable, Indexed
  <1>3. loop \in Rounds /\ loop.batch = {} /\ asks = [i \in IDs |-> 0]
    BY DEF Init, Scanning, Rounds
  <1>4. \A i \in IDs : AskedFor(asks, loop.batch, i) = 0
    BY <1>3 DEF AskedFor, Once
  <1>5. AsksInv
    <2>1. 0 <= MaxIDs /\ asks \in [IDs -> Nat] /\ \A i \in IDs : 0 <= IF i <= t.next THEN 2 ELSE 0
      BY <1>1, <1>3, FlowAssumption DEF IDs
    <2> QED
      BY <1>1, <1>3, <1>4, <2>1 DEF AsksInv
  <1> QED
    BY <1>2, <1>5 DEF FlowInv

\* Every step keeps the table in order and the account of the requests, and answers for good.
LEMMA Inductive == FlowInv /\ [Next]_vars => FlowInv' /\ Final
  <1> SUFFICES ASSUME FlowInv, [Next]_vars PROVE FlowInv' /\ Final
    OBVIOUS
  <1>1. TableInv(t) /\ t.next <= MaxIDs /\ loop \in Rounds /\ (loop.pc # "send" => loop.batch = {})
    BY DEF FlowInv, AsksInv
  <1>2. ASSUME FlowInv', Follows(t, t') PROVE FlowInv' /\ Final
    BY <1>1, <1>2, FollowsFinal DEF FlowInv
  <1>3. ASSUME TableInv(t'), Follows(t, t'), NoNew(t, t'), asks' = asks, loop' = loop PROVE FlowInv' /\ Final
    BY <1>1, <1>2, <1>3, FollowAsks DEF NoNew
  <1>4. ASSUME t' = t, asks' = asks, loop' = loop PROVE FlowInv' /\ Final
    BY <1>1, <1>2, <1>4, SameTable, FollowAsks
  <1>5. CASE SendAny
    BY <1>2, <1>5, SendInv
  <1>6. CASE \E fr \in Fragments : rejectFragment(fr)
    <2>1. PICK fr \in Fragments : rejectFragment(fr)
      BY <1>6
    <2>2. asks' = asks /\ loop' = loop /\ t' = [t EXCEPT !.fragments = Without(t.fragments, {fr})]
      BY <2>1 DEF rejectFragment, Forget
    <2> QED
      BY <1>1, <1>3, <2>2, Sweep DEF NoNew
  <1>7. CASE AuthLoop
    <2>1. ASSUME t' = t \/ (TableInv(t') /\ Follows(t, t') /\ NoNew(t, t')), asks' = asks, loop.pc = "select",
                 NEW p \in {"dispatch", "done"}, loop' = [loop EXCEPT !.pc = p]
          PROVE  FlowInv' /\ Final
      <3>1. TableInv(t') /\ Follows(t, t') /\ t'.next <= MaxIDs
        BY <1>1, <2>1, SameTable DEF NoNew
      <3>2. loop' \in Rounds /\ loop'.batch = loop.batch /\ loop.batch = {}
        BY <1>1, <2>1 DEF Rounds
      <3> QED
        BY <1>2, <2>1, <3>1, <3>2, FollowAsks
    <2>2. CASE LoopWake
      BY <2>1, <2>2 DEF LoopWake
    <2>3. CASE LoopTick
      BY <1>1, <2>1, <2>3, ExpireOK DEF LoopTick
    <2>4. CASE LoopEnds
      BY <2>1, <2>4 DEF LoopEnds
    <2>5. CASE LoopDispatch
      BY <2>5, DispatchInv DEF Final
    <2>6. CASE LoopSend
      <3>1. FlowInv' /\ t' = t
        BY <2>6, SendRequestInv
      <3> QED
        BY <1>2, <3>1, SameTable
    <2> QED
      BY <1>7, <2>2, <2>3, <2>4, <2>5, <2>6 DEF AuthLoop
  <1>8. CASE Answers
    <2>1. PICK id \in IDs : AnswerRetry(id) \/ AnswerReject(id) \/ AnswerToken(id)
      BY <1>8 DEF Answers
    <2>2. CASE AnswerRetry(id)
      BY <1>2, <2>2, AnswerInv DEF Final
    <2>3. CASE AnswerReject(id)
      BY <1>1, <1>3, <2>3, CompleteOK DEF AnswerReject
    <2>4. CASE AnswerToken(id)
      BY <1>1, <1>3, <2>4, CompleteOK DEF AnswerToken
    <2> QED
      BY <2>1, <2>2, <2>3, <2>4
  <1>9. CASE Flush
    BY <1>4, <1>9 DEF Flush
  <1>10. CASE Close
    BY <1>4, <1>10 DEF Close
  <1>11. CASE clear
    BY <1>1, <1>3, <1>11, ClearOK DEF clear
  <1>12. CASE Tick
    BY <1>1, <1>3, <1>12, TickOK DEF Tick
  <1>13. CASE UNCHANGED vars
    BY <1>4, <1>13 DEF vars
  <1> QED
    BY <1>5, <1>6, <1>7, <1>8, <1>9, <1>10, <1>11, <1>12, <1>13 DEF Next

\* What always holds of the table and of the requests.
THEOREM FlowsInOrder == Spec => []FlowInv
  BY InitInv, Inductive, PTL DEF Spec

\* A flow is found by its key and by its authorisation id alike, and no association of a
\* fragment outlives the flow its datagram began, or its rejection, whichever way the flow went:
\* expired in a scan, replaced on its key, answered too late or cleared by close.
THEOREM IndexesConsistent == Spec => []IndexesAgree
  <1>1. FlowInv => IndexesAgree
    BY DEF FlowInv, TableInv, IndexesAgree
  <1> QED
    BY <1>1, FlowsInOrder, PTL

\* No flow waits for its answer longer than both timeouts and the delay, and no flow is asked
\* for more than twice, however the server answers and whenever the scan runs.
THEOREM BoundedWait == Spec => []WaitIsBounded
  <1>1. FlowInv => WaitIsBounded
    <2> SUFFICES ASSUME FlowInv PROVE WaitIsBounded
      OBVIOUS
    <2>1. ASSUME NEW k \in DOMAIN t.flows, t.flows[k].state = "pending"
          PROVE  t.flows[k].age + t.flows[k].left < RetryDelay + 2 * AuthTimeout
      <3>1. /\ t.flows[k].age \in Nat /\ t.flows[k].left \in Nat
            /\ t.flows[k].age + t.flows[k].left
                  < AuthTimeout + (IF t.flows[k].used THEN RetryDelay + AuthTimeout ELSE 1)
        BY <2>1 DEF FlowInv, TableInv, TypeTable, Flow, Waits
      <3>2. AuthTimeout \in Nat \ {0} /\ RetryDelay \in Nat \ {0}
        BY FlowAssumption
      <3> QED
        BY <3>1, <3>2
    <2>2. ASSUME NEW i \in IDs PROVE asks[i] <= 2
      <3>1. asks[i] \in Nat /\ AskedFor(asks, loop.batch, i) <= IF i <= t.next THEN 2 ELSE 0
        BY <2>2 DEF FlowInv, AsksInv
      <3> QED
        BY <3>1 DEF AskedFor, Once
    <2> QED
      BY <2>1, <2>2 DEF WaitIsBounded
  <1> QED
    BY <1>1, FlowsInOrder, PTL

\* An answer is final: once a flow is ready or failed, no late or repeated answer changes it.
THEOREM FinalAnswers == Spec => AnswerIsFinal
  <1>1. FlowInv /\ [Next]_vars => [Final]_vars
    BY Inductive
  <1>2. Spec => [][Final]_vars
    BY <1>1, FlowsInOrder, PTL DEF Spec
  <1> QED
    BY <1>2, Zenon DEF AnswerIsFinal, Final

-----------------------------------------------------------------------------
(* The books: counting what waits.                                           *)

\* The union of finitely many finite sets.
LEMMA FiniteUnion == ASSUME NEW g, IsFiniteSet(DOMAIN g), \A x \in DOMAIN g : IsFiniteSet(g[x])
                     PROVE  IsFiniteSet(UNION {g[x] : x \in DOMAIN g})
  <1> DEFINE T == {g[x] : x \in DOMAIN g}
             h == [x \in DOMAIN g |-> g[x]]
  <1>1. h \in Surjection(DOMAIN g, T)
    BY DEF Surjection
  <1>2. IsFiniteSet(T)
    BY <1>1, FS_Surjection
  <1>3. \A y \in T : IsFiniteSet(y)
    OBVIOUS
  <1> HIDE DEF T
  <1>4. IsFiniteSet(UNION T)
    BY <1>2, <1>3, FS_UNION
  <1> QED
    BY <1>4 DEF T

\* An interval from 1 is as long as its end.
LEMMA UpTo == ASSUME NEW n \in Nat PROVE IsFiniteSet(1 .. n) /\ Cardinality(1 .. n) = n
  <1>1. 1 \in Int /\ n \in Int
    OBVIOUS
  <1>2. IsFiniteSet(1 .. n) /\ Cardinality(1 .. n) = IF 1 > n THEN 0 ELSE n - 1 + 1
    BY <1>1, FS_Interval
  <1> QED
    BY <1>2

\* What waits in finitely many flows is finite.
LEMMA WaitingFinite == ASSUME NEW tb, TypeTable(tb), NEW S, S \subseteq DOMAIN tb.flows, IsFiniteSet(S)
                       PROVE  /\ IsFiniteSet(Waiting(tb, S)) /\ IsFiniteSet(WaitingBytes(tb, S))
                              /\ Packets(tb, S) \in Nat /\ PacketBytes(tb, S) \in Nat
  <1> DEFINE g == [k \in S |-> {k} \X DOMAIN tb.flows[k].pending]
             W == Waiting(tb, S)
             h == [p \in W |-> {p} \X (1 .. tb.flows[p[1]].pending[p[2]])]
  <1>1. ASSUME NEW k \in S
        PROVE  /\ tb.flows[k].pending \in Seq(Sizes) /\ Len(tb.flows[k].pending) \in Nat
               /\ DOMAIN tb.flows[k].pending = 1 .. Len(tb.flows[k].pending)
    BY <1>1 DEF TypeTable, Flow
  <1>2. ASSUME NEW k \in S PROVE IsFiniteSet({k} \X DOMAIN tb.flows[k].pending)
    <2>1. IsFiniteSet({k}) /\ IsFiniteSet(1 .. Len(tb.flows[k].pending))
      BY <1>1, <1>2, FS_Singleton, UpTo
    <2> QED
      BY <1>1, <1>2, <2>1, FS_Product
  <1>3. W = UNION {g[k] : k \in DOMAIN g}
    BY DEF Waiting
  <1>4. IsFiniteSet(W)
    <2>1. DOMAIN g = S /\ \A k \in DOMAIN g : IsFiniteSet(g[k])
      BY <1>2
    <2> HIDE DEF g, W
    <2> QED
      BY <1>3, <2>1, FiniteUnion
  <1>5. ASSUME NEW p \in W PROVE p[1] \in S /\ p[2] \in DOMAIN tb.flows[p[1]].pending
    BY <1>5 DEF Waiting
  <1>6. ASSUME NEW p \in W PROVE IsFiniteSet({p} \X (1 .. tb.flows[p[1]].pending[p[2]]))
    <2> DEFINE s == tb.flows[p[1]].pending
    <2>0. s \in Seq(Sizes) /\ p[2] \in DOMAIN s
      BY <1>1, <1>5, <1>6
    <2>1. s[p[2]] \in Nat
      <3> HIDE DEF s
      <3>1. s[p[2]] \in Sizes
        BY <2>0
      <3> QED
        BY <3>1, FlowAssumption
    <2>2. IsFiniteSet({p}) /\ IsFiniteSet(1 .. tb.flows[p[1]].pending[p[2]])
      BY <2>1, FS_Singleton, UpTo
    <2> QED
      BY <2>2, FS_Product
  <1>7. WaitingBytes(tb, S) = UNION {h[p] : p \in DOMAIN h}
    BY DEF WaitingBytes
  <1>8. IsFiniteSet(WaitingBytes(tb, S))
    <2>1. DOMAIN h = W /\ \A p \in DOMAIN h : IsFiniteSet(h[p])
      BY <1>6
    <2> HIDE DEF h, W
    <2> QED
      BY <1>4, <1>7, <2>1, FiniteUnion
  <1> QED
    BY <1>4, <1>8, FS_CardinalityType DEF Packets, PacketBytes

\* Two disjoint finite sets are counted one after the other.
LEMMA CountApart == ASSUME NEW A, NEW B, IsFiniteSet(A), IsFiniteSet(B), A \cap B = {}
                    PROVE  Cardinality(A \cup B) = Cardinality(A) + Cardinality(B)
  <1>1. Cardinality(A) \in Nat /\ Cardinality(B) \in Nat /\ Cardinality(A \cap B) = 0
    BY FS_CardinalityType, FS_EmptySet
  <1>2. Cardinality(A \cup B) = Cardinality(A) + Cardinality(B) - Cardinality(A \cap B)
    BY FS_Union
  <1> QED
    BY <1>1, <1>2

\* What waits is told by the queues of the flows and nothing else.
LEMMA WaitingSame == ASSUME NEW a, NEW b, NEW S, \A k \in S : a.flows[k].pending = b.flows[k].pending
                     PROVE  /\ Waiting(a, S) = Waiting(b, S) /\ WaitingBytes(a, S) = WaitingBytes(b, S)
                            /\ Packets(a, S) = Packets(b, S) /\ PacketBytes(a, S) = PacketBytes(b, S)
  <1>1. Waiting(a, S) = Waiting(b, S)
    BY DEF Waiting
  <1>2. \A p \in Waiting(a, S) : p[1] \in S
    BY DEF Waiting
  <1>3. WaitingBytes(a, S) = WaitingBytes(b, S)
    <2> DEFINE W == Waiting(a, S)
    <2>1. \A p \in W : a.flows[p[1]].pending = b.flows[p[1]].pending
      BY <1>2
    <2>2. WaitingBytes(a, S) = UNION {{p} \X (1 .. a.flows[p[1]].pending[p[2]]) : p \in W}
      BY DEF WaitingBytes
    <2>3. WaitingBytes(b, S) = UNION {{p} \X (1 .. b.flows[p[1]].pending[p[2]]) : p \in W}
      BY <1>1 DEF WaitingBytes
    <2> HIDE DEF W
    <2> QED
      BY <2>1, <2>2, <2>3
  <1> QED
    BY <1>1, <1>3 DEF Packets, PacketBytes

\* The books of some flows and of the others.
LEMMA WaitingSplit == ASSUME NEW tb, TypeTable(tb), NEW S, S \subseteq DOMAIN tb.flows, IsFiniteSet(S),
                             NEW D, D \subseteq S
                      PROVE  /\ Packets(tb, S) = Packets(tb, D) + Packets(tb, S \ D)
                             /\ PacketBytes(tb, S) = PacketBytes(tb, D) + PacketBytes(tb, S \ D)
  <1> DEFINE R == S \ D
  <1>1. IsFiniteSet(D) /\ IsFiniteSet(R) /\ D \subseteq DOMAIN tb.flows /\ R \subseteq DOMAIN tb.flows
    BY FS_Subset
  <1>2. IsFiniteSet(Waiting(tb, D)) /\ IsFiniteSet(Waiting(tb, R))
        /\ IsFiniteSet(WaitingBytes(tb, D)) /\ IsFiniteSet(WaitingBytes(tb, R))
    <2> HIDE DEF R
    <2> QED
      BY <1>1, WaitingFinite
  <1>3. \A X : \A p \in Waiting(tb, X) : p[1] \in X
    BY DEF Waiting
  <1>4. Waiting(tb, S) = Waiting(tb, D) \cup Waiting(tb, R)
    BY DEF Waiting
  <1>5. Waiting(tb, D) \cap Waiting(tb, R) = {}
    BY <1>3
  <1>6. WaitingBytes(tb, S) = WaitingBytes(tb, D) \cup WaitingBytes(tb, R)
    BY <1>4 DEF WaitingBytes
  <1>7. \A X : \A q \in WaitingBytes(tb, X) : q[1] \in Waiting(tb, X)
    BY DEF WaitingBytes
  <1>8. WaitingBytes(tb, D) \cap WaitingBytes(tb, R) = {}
    BY <1>5, <1>7
  <1> HIDE DEF R
  <1> QED
    BY <1>2, <1>4, <1>5, <1>6, <1>8, CountApart DEF Packets, PacketBytes, R

\* Nothing waits in empty queues.
LEMMA NothingWaits == ASSUME NEW tb, NEW S, \A k \in S : tb.flows[k].pending = <<>>
                      PROVE  Packets(tb, S) = 0 /\ PacketBytes(tb, S) = 0
  <1>1. Waiting(tb, S) = {}
    BY DEF Waiting
  <1>2. WaitingBytes(tb, S) = {}
    BY <1>1 DEF WaitingBytes
  <1> QED
    BY <1>1, <1>2, FS_EmptySet DEF Packets, PacketBytes

\* One more packet waits in one flow.
LEMMA OneMoreWaits == ASSUME NEW a, TypeTable(a), NEW b, NEW k \in DOMAIN a.flows, NEW n \in Sizes,
                             b.flows[k].pending = Append(a.flows[k].pending, n)
                      PROVE  /\ Packets(b, {k}) = Packets(a, {k}) + 1
                             /\ PacketBytes(b, {k}) = PacketBytes(a, {k}) + n
  <1> DEFINE s == a.flows[k].pending
             m == Len(s) + 1
             x == <<k, m>>
             new == {x} \X (1 .. n)
  <1>1. s \in Seq(Sizes) /\ m \in Nat /\ DOMAIN s = 1 .. (m - 1) /\ n \in Nat
    <2>1. s \in Seq(Sizes)
      BY DEF TypeTable, Flow
    <2> HIDE DEF s
    <2> QED
      BY <2>1, FlowAssumption
  <1>2. DOMAIN Append(s, n) = DOMAIN s \cup {m} /\ Append(s, n)[m] = n /\ m \notin DOMAIN s
        /\ \A i \in DOMAIN s : Append(s, n)[i] = s[i]
    BY <1>1
  <1> HIDE DEF s, m
  <1>3. Waiting(a, {k}) = {k} \X DOMAIN s /\ Waiting(b, {k}) = {k} \X DOMAIN Append(s, n)
    BY DEF Waiting, s
  <1>4. Waiting(b, {k}) = Waiting(a, {k}) \cup {x} /\ x \notin Waiting(a, {k})
    <2>1. ASSUME NEW D, m \notin D
          PROVE  {k} \X (D \cup {m}) = ({k} \X D) \cup {<<k, m>>} /\ <<k, m>> \notin {k} \X D
      BY <2>1
    <2>2. m \notin DOMAIN s /\ DOMAIN Append(s, n) = DOMAIN s \cup {m}
      BY <1>2
    <2> QED
      BY <1>3, <2>1, <2>2
  <1>5. IsFiniteSet(Waiting(a, {k})) /\ IsFiniteSet(WaitingBytes(a, {k}))
        /\ Packets(a, {k}) \in Nat /\ PacketBytes(a, {k}) \in Nat
    <2>1. {k} \subseteq DOMAIN a.flows /\ IsFiniteSet({k})
      BY FS_Singleton
    <2> QED
      BY <2>1, WaitingFinite
  <1>6. Packets(b, {k}) = Packets(a, {k}) + 1
    BY <1>4, <1>5, FS_AddElement DEF Packets
  <1>7. ASSUME NEW p \in Waiting(a, {k})
        PROVE  b.flows[p[1]].pending[p[2]] = a.flows[p[1]].pending[p[2]]
    <2>0. ASSUME NEW D, NEW q \in {k} \X D PROVE q[1] = k /\ q[2] \in D
      OBVIOUS
    <2>1. p[1] = k /\ p[2] \in DOMAIN s
      BY <1>3, <2>0
    <2>2. b.flows[k].pending[p[2]] = Append(s, n)[p[2]] /\ a.flows[k].pending[p[2]] = s[p[2]]
      BY DEF s
    <2>3. Append(s, n)[p[2]] = s[p[2]]
      BY <1>2, <2>1
    <2> QED
      BY <2>1, <2>2, <2>3, Zenon
  <1>8. b.flows[x[1]].pending[x[2]] = n
    BY <1>2 DEF s
  <1> HIDE DEF x
  <1>9. WaitingBytes(b, {k}) = WaitingBytes(a, {k}) \cup new
    <2> DEFINE Wa == Waiting(a, {k})
    <2>1. WaitingBytes(b, {k}) = UNION {{p} \X (1 .. b.flows[p[1]].pending[p[2]]) : p \in Wa \cup {x}}
      BY <1>4 DEF WaitingBytes
    <2>2. WaitingBytes(a, {k}) = UNION {{p} \X (1 .. a.flows[p[1]].pending[p[2]]) : p \in Wa}
      BY DEF WaitingBytes
    <2>3. \A p \in Wa : b.flows[p[1]].pending[p[2]] = a.flows[p[1]].pending[p[2]]
      BY <1>7
    <2>4. {x} \X (1 .. b.flows[x[1]].pending[x[2]]) = new
      BY <1>8
    <2> HIDE DEF Wa, new
    <2>5. ASSUME NEW q
          PROVE  q \in WaitingBytes(b, {k}) <=> q \in WaitingBytes(a, {k}) \cup new
      <3>1. q \in WaitingBytes(b, {k}) <=>
               \/ \E p \in Wa : q \in {p} \X (1 .. b.flows[p[1]].pending[p[2]])
               \/ q \in {x} \X (1 .. b.flows[x[1]].pending[x[2]])
        BY <2>1, Zenon
      <3>2. q \in WaitingBytes(a, {k}) <=>
               \E p \in Wa : q \in {p} \X (1 .. a.flows[p[1]].pending[p[2]])
        BY <2>2, Zenon
      <3> QED
        BY <2>3, <2>4, <3>1, <3>2, Zenon
    <2> QED
      BY <2>5
  <1>10. WaitingBytes(a, {k}) \cap new = {}
    <2>1. \A X : \A q \in WaitingBytes(a, X) : q[1] \in Waiting(a, X)
      BY DEF WaitingBytes
    <2>2. \A q \in new : q[1] = x
      OBVIOUS
    <2> QED
      BY <1>4, <2>1, <2>2
  <1>11. IsFiniteSet(new) /\ Cardinality(new) = n
    <2>1. IsFiniteSet({x}) /\ Cardinality({x}) = 1
      BY FS_Singleton
    <2>2. IsFiniteSet(1 .. n) /\ Cardinality(1 .. n) = n
      BY <1>1, UpTo
    <2>3. IsFiniteSet(new) /\ Cardinality(new) = Cardinality({x}) * Cardinality(1 .. n)
      BY <2>1, <2>2, FS_Product
    <2> QED
      BY <1>1, <2>1, <2>2, <2>3
  <1> HIDE DEF new
  <1>12. PacketBytes(b, {k}) = PacketBytes(a, {k}) + n
    BY <1>5, <1>9, <1>10, <1>11, CountApart DEF PacketBytes
  <1> QED
    BY <1>6, <1>12

-----------------------------------------------------------------------------
(* The books: what the calls do to them.                                     *)

\* What a call does to the books when it settles the flows S: they are gone or hold nothing,
\* and what waited in them is taken off; all else that waits is left as it is.
Settles(tb, r, S) ==
    /\ S \subseteq DOMAIN tb.flows
    /\ DOMAIN r.flows \subseteq DOMAIN tb.flows /\ DOMAIN tb.flows \ S \subseteq DOMAIN r.flows
    /\ \A k \in DOMAIN r.flows \ S :
          r.flows[k].pending = tb.flows[k].pending /\ r.flows[k].state = tb.flows[k].state
    /\ \A k \in DOMAIN r.flows \cap S : r.flows[k].pending = <<>> /\ r.flows[k].state # "pending"
    /\ r.pendingPackets = tb.pendingPackets - Packets(tb, S)
    /\ r.pendingBytes = tb.pendingBytes - PacketBytes(tb, S)
    /\ r.closed = tb.closed
    /\ IsFiniteSet(DOMAIN r.fragments) /\ Cardinality(DOMAIN r.fragments) <= MaxFragments
    /\ tb.closed => DOMAIN r.fragments \subseteq DOMAIN tb.fragments /\ DOMAIN r.auth \subseteq DOMAIN tb.auth

\* The one empty map.
LEMMA EmptyMap == ASSUME NEW S, NEW f, f \in [DOMAIN f -> S], DOMAIN f = {} PROVE f = <<>>
  <1>1. f \in [{} -> S]
    OBVIOUS
  <1> QED
    BY <1>1

\* A call that settles flows keeps the books right.
LEMMA SettlesBooks == ASSUME NEW tb, TableInv(tb), BooksInv(tb), NEW r, TableInv(r), NEW S, Settles(tb, r, S)
                      PROVE  BooksInv(r)
  <1> DEFINE D == DOMAIN tb.flows
             E == DOMAIN r.flows
             K == S \cap E
  <1>1. /\ TypeTable(tb) /\ TypeTable(r) /\ IsFiniteSet(D) /\ S \subseteq D /\ E \subseteq D /\ D \ S \subseteq E
        /\ tb.pendingPackets = Packets(tb, D) /\ tb.pendingBytes = PacketBytes(tb, D)
        /\ tb.pendingPackets <= MaxPackets /\ tb.pendingBytes <= MaxBytes /\ Cardinality(D) <= MaxFlows
        /\ MaxPackets \in Nat /\ MaxBytes \in Nat /\ MaxFlows \in Nat
    BY FlowAssumption DEF TableInv, BooksInv, Reckoned, Settles
  <1>2. IsFiniteSet(S) /\ IsFiniteSet(E) /\ IsFiniteSet(D \ S) /\ Cardinality(E) <= Cardinality(D)
    BY <1>1, FS_Subset
  <1>3. Cardinality(E) <= MaxFlows
    BY <1>1, <1>2, FS_CardinalityType
  <1>4. /\ Packets(tb, S) \in Nat /\ PacketBytes(tb, S) \in Nat
        /\ Packets(tb, D \ S) \in Nat /\ PacketBytes(tb, D \ S) \in Nat
    <2> HIDE DEF D, E
    <2>1. D \ S \subseteq DOMAIN tb.flows /\ S \subseteq DOMAIN tb.flows
      BY <1>1 DEF D
    <2> QED
      BY <1>1, <1>2, <2>1, WaitingFinite
  <1>5. /\ Packets(tb, D) = Packets(tb, S) + Packets(tb, D \ S)
        /\ PacketBytes(tb, D) = PacketBytes(tb, S) + PacketBytes(tb, D \ S)
    BY <1>1, WaitingSplit
  <1>6. /\ Packets(r, E) = Packets(r, K) + Packets(r, E \ K)
        /\ PacketBytes(r, E) = PacketBytes(r, K) + PacketBytes(r, E \ K)
    BY <1>1, <1>2, WaitingSplit
  <1>7. Packets(r, K) = 0 /\ PacketBytes(r, K) = 0
    <2>1. \A k \in K : r.flows[k].pending = <<>>
      BY DEF Settles
    <2> HIDE DEF K
    <2> QED
      BY <2>1, NothingWaits
  <1>8. E \ K = D \ S
    BY <1>1
  <1>9. Packets(r, D \ S) = Packets(tb, D \ S) /\ PacketBytes(r, D \ S) = PacketBytes(tb, D \ S)
    <2>1. \A k \in D \ S : r.flows[k].pending = tb.flows[k].pending
      BY <1>1 DEF Settles
    <2> HIDE DEF D
    <2> QED
      BY <2>1, WaitingSame
  <1>10. r.pendingPackets = tb.pendingPackets - Packets(tb, S) /\ r.pendingBytes = tb.pendingBytes - PacketBytes(tb, S)
    BY DEF Settles
  <1>11. r.pendingPackets = Packets(r, E) /\ r.pendingPackets <= MaxPackets
    <2>1. Packets(r, E) = Packets(r, K) + Packets(tb, D \ S)
      BY <1>6, <1>8, <1>9
    <2>2. tb.pendingPackets = Packets(tb, S) + Packets(tb, D \ S) /\ tb.pendingPackets <= MaxPackets /\ MaxPackets \in Nat
      BY <1>1, <1>5
    <2> HIDE DEF D, E, K
    <2> QED
      BY <1>4, <1>7, <1>10, <2>1, <2>2
  <1>12. r.pendingBytes = PacketBytes(r, E) /\ r.pendingBytes <= MaxBytes
    <2>1. PacketBytes(r, E) = PacketBytes(r, K) + PacketBytes(tb, D \ S)
      BY <1>6, <1>8, <1>9
    <2>2. tb.pendingBytes = PacketBytes(tb, S) + PacketBytes(tb, D \ S) /\ tb.pendingBytes <= MaxBytes /\ MaxBytes \in Nat
      BY <1>1, <1>5
    <2> HIDE DEF D, E, K
    <2> QED
      BY <1>4, <1>7, <1>10, <2>1, <2>2
  <1>13. Held(r)
    <2> SUFFICES ASSUME NEW k \in E PROVE (r.flows[k].pending # <<>>) <=> (r.flows[k].state = "pending")
      BY DEF Held
    <2>1. CASE k \in S
      BY <2>1 DEF Settles
    <2>2. CASE k \notin S
      BY <1>1, <2>2 DEF Settles, BooksInv, Held
    <2> QED
      BY <2>1, <2>2
  <1>14. ASSUME r.closed
         PROVE  r.flows = <<>> /\ r.auth = <<>> /\ r.fragments = <<>> /\ r.pendingPackets = 0
    <2>1. D = {} /\ DOMAIN tb.auth = {} /\ DOMAIN tb.fragments = {} /\ tb.closed
      BY <1>14 DEF BooksInv, Reckoned, Settles
    <2>2. E = {} /\ DOMAIN r.auth = {} /\ DOMAIN r.fragments = {}
      BY <1>1, <2>1 DEF Settles
    <2>3. r.flows \in [DOMAIN r.flows -> Flow] /\ r.auth \in [DOMAIN r.auth -> Keys]
          /\ r.fragments \in [DOMAIN r.fragments -> Entry]
      BY <1>1 DEF TypeTable
    <2>4. Packets(r, E) = 0
      <3>1. \A k \in E : r.flows[k].pending = <<>>
        BY <2>2
      <3> HIDE DEF E
      <3> QED
        BY <3>1, NothingWaits
    <2> QED
      BY <1>11, <2>2, <2>3, <2>4, EmptyMap
  <1>15. IsFiniteSet(DOMAIN r.fragments) /\ Cardinality(DOMAIN r.fragments) <= MaxFragments
    BY DEF Settles
  <1> QED
    BY <1>2, <1>3, <1>11, <1>12, <1>13, <1>14, <1>15 DEF BooksInv, Reckoned

\* Fewer associations than a table within its limits has.
LEMMA FewerFragments == ASSUME NEW tb, BooksInv(tb), NEW T, T \subseteq DOMAIN tb.fragments
                        PROVE  IsFiniteSet(T) /\ Cardinality(T) <= Cardinality(DOMAIN tb.fragments)
                               /\ Cardinality(T) <= MaxFragments
  <1>1. IsFiniteSet(DOMAIN tb.fragments) /\ Cardinality(DOMAIN tb.fragments) <= MaxFragments /\ MaxFragments \in Nat
    BY FlowAssumption DEF BooksInv, Reckoned
  <1>2. IsFiniteSet(T) /\ Cardinality(T) <= Cardinality(DOMAIN tb.fragments)
    BY <1>1, FS_Subset
  <1> QED
    BY <1>1, <1>2, FS_CardinalityType

\* A call that leaves the queues, and has no association but with room for it, keeps the books right.
LEMMA QueuesKept == ASSUME NEW tb, TableInv(tb), BooksInv(tb), NEW r, TableInv(r), DOMAIN r.flows = DOMAIN tb.flows,
                           \A k \in DOMAIN r.flows : /\ r.flows[k].pending = tb.flows[k].pending
                                                     /\ r.flows[k].state = tb.flows[k].state,
                           r.pendingPackets = tb.pendingPackets, r.pendingBytes = tb.pendingBytes,
                           r.closed = tb.closed, DOMAIN r.auth \subseteq DOMAIN tb.auth,
                           \/ DOMAIN r.fragments \subseteq DOMAIN tb.fragments
                           \/ /\ IsFiniteSet(DOMAIN r.fragments) /\ Cardinality(DOMAIN r.fragments) <= MaxFragments
                              /\ ~tb.closed
                    PROVE  BooksInv(r)
  <1>1. Packets(tb, {}) = 0 /\ PacketBytes(tb, {}) = 0
    BY NothingWaits
  <1>2. tb.pendingPackets \in Nat /\ tb.pendingBytes \in Nat
    BY WaitingFinite DEF TableInv, BooksInv, Reckoned
  <1>3. IsFiniteSet(DOMAIN r.fragments) /\ Cardinality(DOMAIN r.fragments) <= MaxFragments
    BY FewerFragments
  <1>4. Settles(tb, r, {})
    BY <1>1, <1>2, <1>3 DEF Settles
  <1> QED
    BY <1>4, SettlesBooks

\* Associate touches the associations only, and makes none but that of its datagram.
LEMMA AssociateFields == ASSUME NEW tb, IsTable(tb), NEW k, NEW fr, NEW off, NEW more \in BOOLEAN
                         PROVE  LET r == Associate(tb, k, fr, off, more)
                                IN  /\ r.flows = tb.flows /\ r.auth = tb.auth /\ r.closed = tb.closed
                                    /\ r.pendingPackets = tb.pendingPackets /\ r.pendingBytes = tb.pendingBytes
                                    /\ \/ DOMAIN r.fragments \subseteq DOMAIN tb.fragments
                                       \/ more /\ DOMAIN r.fragments = DOMAIN tb.fragments \cup {fr}
  <1> DEFINE r == Associate(tb, k, fr, off, more)
             F == r.fragments
  <1>1. \/ more /\ r = [tb EXCEPT !.fragments =
                          Put(@, fr, [key |-> k, id |-> tb.flows[k].id, next |-> off + 1,
                                      left |-> IF off = 0 THEN FragmentTTL ELSE @[fr].left])]
        \/ r = [tb EXCEPT !.fragments = Without(@, {fr})]
        \/ r = tb
    BY DEF Associate, Forget
  <1>2. CASE r = tb
    BY <1>2
  <1>3. ASSUME NEW v, r = [tb EXCEPT !.fragments = v]
        PROVE  /\ r.flows = tb.flows /\ r.auth = tb.auth /\ r.closed = tb.closed
               /\ r.pendingPackets = tb.pendingPackets /\ r.pendingBytes = tb.pendingBytes
               /\ r.fragments = v
    <2> HIDE DEF r
    <2> QED
      BY <1>3 DEF IsTable
  <1>4. CASE r = [tb EXCEPT !.fragments = Without(@, {fr})]
    <2> HIDE DEF r
    <2>1. DOMAIN Without(tb.fragments, {fr}) \subseteq DOMAIN tb.fragments
      BY DEF Without
    <2> QED
      BY <1>3, <1>4, <2>1 DEF r
  <1>5. CASE more /\ r = [tb EXCEPT !.fragments =
                            Put(@, fr, [key |-> k, id |-> tb.flows[k].id, next |-> off + 1,
                                        left |-> IF off = 0 THEN FragmentTTL ELSE @[fr].left])]
    <2> DEFINE e == [key |-> k, id |-> tb.flows[k].id, next |-> off + 1,
                     left |-> IF off = 0 THEN FragmentTTL ELSE tb.fragments[fr].left]
    <2>1. r = [tb EXCEPT !.fragments = Put(tb.fragments, fr, e)] /\ more
      BY <1>5
    <2> HIDE DEF r, e
    <2>2. DOMAIN Put(tb.fragments, fr, e) = DOMAIN tb.fragments \cup {fr}
      BY PutMap
    <2> QED
      BY <1>3, <2>1, <2>2 DEF r
  <1> QED
    BY <1>1, <1>2, <1>4, <1>5

\* What a packet n let in at the flow k makes of the table: the flow keeps its state, its queue
\* and the books grow by the packet, or stay, and there is at most the association of its datagram more.
Admitted(tb, r, k, fr, more, n) ==
    /\ DOMAIN r.flows = DOMAIN tb.flows /\ r.auth = tb.auth /\ r.closed = tb.closed
    /\ \A j \in DOMAIN tb.flows \ {k} : r.flows[j] = tb.flows[j]
    /\ r.flows[k].state = tb.flows[k].state
    /\ \/ DOMAIN r.fragments \subseteq DOMAIN tb.fragments
       \/ more /\ DOMAIN r.fragments = DOMAIN tb.fragments \cup {fr}
    /\ tb.flows[k].state = "pending" /\ Room(tb, k, n) =>
          /\ r.flows[k].pending = Append(tb.flows[k].pending, n)
          /\ r.pendingPackets = tb.pendingPackets + 1 /\ r.pendingBytes = tb.pendingBytes + n
    /\ ~(tb.flows[k].state = "pending" /\ Room(tb, k, n)) =>
          /\ r.flows[k].pending = tb.flows[k].pending
          /\ r.pendingPackets = tb.pendingPackets /\ r.pendingBytes = tb.pendingBytes

\* Admit does just that.
LEMMA AdmitFields == ASSUME NEW tb, TableInv(tb), NEW k \in DOMAIN tb.flows, NEW fr, NEW off \in Nat,
                            NEW more \in BOOLEAN, NEW n \in Sizes
                     PROVE  Admitted(tb, Admit(tb, k, fr, off, more, n), k, fr, more, n)
  <1> DEFINE r == Admit(tb, k, fr, off, more, n)
             f == tb.flows[k]
  <1>1. IsTable(tb) /\ f \in Flow /\ f.state \in {"pending", "ready", "failed"}
    BY DEF TableInv, TypeTable, Flow
  <1>2. ASSUME NEW u, IsTable(u), u.flows = tb.flows, u.auth = tb.auth, u.closed = tb.closed,
               u.pendingPackets = tb.pendingPackets, u.pendingBytes = tb.pendingBytes,
               NEW q, q = [u EXCEPT !.flows[k].left = IdleTTL]
        PROVE  /\ IsTable(q) /\ DOMAIN q.flows = DOMAIN tb.flows /\ q.auth = tb.auth /\ q.closed = tb.closed
               /\ \A j \in DOMAIN tb.flows \ {k} : q.flows[j] = tb.flows[j]
               /\ q.flows[k].state = f.state /\ q.flows[k].pending = f.pending
               /\ q.pendingPackets = tb.pendingPackets /\ q.pendingBytes = tb.pendingBytes
               /\ q.fragments = u.fragments
    <2>1. IsTable(q)
      BY <1>2, Fields
    <2>2. q.flows = [tb.flows EXCEPT ![k] = [f EXCEPT !.left = IdleTTL]]
      BY <1>2 DEF IsTable
    <2>3. q.auth = tb.auth /\ q.closed = tb.closed /\ q.pendingPackets = tb.pendingPackets
          /\ q.pendingBytes = tb.pendingBytes /\ q.fragments = u.fragments
      BY <1>2 DEF IsTable
    <2>4. DOMAIN q.flows = DOMAIN tb.flows /\ q.flows[k] = [f EXCEPT !.left = IdleTTL]
          /\ \A j \in DOMAIN tb.flows \ {k} : q.flows[j] = tb.flows[j]
      BY <2>2
    <2>5. q.flows[k].state = f.state /\ q.flows[k].pending = f.pending
      BY <1>1, <2>4 DEF Flow
    <2> QED
      BY <2>1, <2>3, <2>4, <2>5
  <1>3. LET u == Forget(tb, fr)
        IN  /\ IsTable(u) /\ u.flows = tb.flows /\ u.auth = tb.auth /\ u.closed = tb.closed
            /\ u.pendingPackets = tb.pendingPackets /\ u.pendingBytes = tb.pendingBytes
            /\ DOMAIN u.fragments \subseteq DOMAIN tb.fragments
    <2> DEFINE u == Forget(tb, fr)
    <2>1. u = [tb EXCEPT !.fragments = Without(tb.fragments, {fr})]
      BY DEF Forget
    <2> HIDE DEF u
    <2>2. IsTable(u)
      BY <1>1, <2>1, Fields
    <2>3. u.flows = tb.flows /\ u.auth = tb.auth /\ u.closed = tb.closed
          /\ u.pendingPackets = tb.pendingPackets /\ u.pendingBytes = tb.pendingBytes
          /\ u.fragments = Without(tb.fragments, {fr})
      BY <1>1, <2>1 DEF IsTable
    <2>4. DOMAIN Without(tb.fragments, {fr}) \subseteq DOMAIN tb.fragments
      BY DEF Without
    <2> QED
      BY <2>2, <2>3, <2>4 DEF u
  <1>4. CASE f.state = "failed"
    <2> DEFINE u == Forget(tb, fr)
    <2>1. r = [u EXCEPT !.flows[k].left = IdleTTL]
      BY <1>4 DEF Admit
    <2> HIDE DEF u, r
    <2> QED
      BY <1>2, <1>3, <1>4, <2>1 DEF u, r, Admitted
  <1>5. CASE f.state = "ready"
    <2> DEFINE q == [tb EXCEPT !.flows[k].left = IdleTTL]
    <2>1. r = Associate(q, k, fr, off, more)
      BY <1>5 DEF Admit
    <2>2. /\ IsTable(q) /\ DOMAIN q.flows = DOMAIN tb.flows /\ q.auth = tb.auth /\ q.closed = tb.closed
          /\ \A j \in DOMAIN tb.flows \ {k} : q.flows[j] = tb.flows[j]
          /\ q.flows[k].state = f.state /\ q.flows[k].pending = f.pending
          /\ q.pendingPackets = tb.pendingPackets /\ q.pendingBytes = tb.pendingBytes
          /\ q.fragments = tb.fragments
      BY <1>1, <1>2
    <2> HIDE DEF q, r
    <2>3. /\ r.flows = q.flows /\ r.auth = q.auth /\ r.closed = q.closed
          /\ r.pendingPackets = q.pendingPackets /\ r.pendingBytes = q.pendingBytes
          /\ \/ DOMAIN r.fragments \subseteq DOMAIN q.fragments
             \/ more /\ DOMAIN r.fragments = DOMAIN q.fragments \cup {fr}
      BY <2>1, <2>2, AssociateFields
    <2> QED
      BY <1>5, <2>2, <2>3 DEF r, Admitted
  <1>6. CASE f.state = "pending" /\ ~Room(tb, k, n)
    <2>1. r = Forget(tb, fr)
      BY <1>6 DEF Admit
    <2> HIDE DEF r
    <2> QED
      BY <1>3, <1>6, <2>1 DEF r, Admitted
  <1>7. CASE f.state = "pending" /\ Room(tb, k, n)
    <2> DEFINE q == [tb EXCEPT !.flows[k].pending = Append(@, n), !.pendingPackets = @ + 1, !.pendingBytes = @ + n]
    <2>1. r = Associate(q, k, fr, off, more)
      BY <1>7 DEF Admit
    <2>2. IsTable(q)
      BY <1>1, Fields
    <2>3. q.flows = [tb.flows EXCEPT ![k] = [f EXCEPT !.pending = Append(f.pending, n)]]
      BY <1>1 DEF IsTable
    <2>4. q.auth = tb.auth /\ q.closed = tb.closed /\ q.fragments = tb.fragments
      BY <1>1 DEF IsTable
    <2>5. q.pendingPackets = tb.pendingPackets + 1 /\ q.pendingBytes = tb.pendingBytes + n
      BY <1>1 DEF IsTable
    <2> HIDE DEF q, r
    <2>6. DOMAIN q.flows = DOMAIN tb.flows /\ q.flows[k] = [f EXCEPT !.pending = Append(f.pending, n)]
          /\ \A j \in DOMAIN tb.flows \ {k} : q.flows[j] = tb.flows[j]
      BY <2>3
    <2>7. q.flows[k].state = f.state /\ q.flows[k].pending = Append(f.pending, n)
      BY <1>1, <2>6 DEF Flow
    <2>8. /\ r.flows = q.flows /\ r.auth = q.auth /\ r.closed = q.closed
          /\ r.pendingPackets = q.pendingPackets /\ r.pendingBytes = q.pendingBytes
          /\ \/ DOMAIN r.fragments \subseteq DOMAIN q.fragments
             \/ more /\ DOMAIN r.fragments = DOMAIN q.fragments \cup {fr}
      BY <2>1, <2>2, AssociateFields
    <2> QED
      BY <1>7, <2>4, <2>5, <2>6, <2>7, <2>8 DEF r, Admitted
  <1> QED
    BY <1>1, <1>4, <1>5, <1>6, <1>7

\* The books are right, but that the flow k, just made, holds nothing yet.
BooksBut(tb, k) ==
    /\ IsFiniteSet(DOMAIN tb.flows) /\ IsFiniteSet(DOMAIN tb.fragments)
    /\ Reckoned(tb) /\ ~tb.closed
    /\ \A j \in DOMAIN tb.flows \ {k} : (tb.flows[j].pending # <<>>) <=> (tb.flows[j].state = "pending")

\* queuePacket at a flow of the table: what is let in is within the budgets and on the books.
LEMMA AdmitBooks == ASSUME NEW tb, TableInv(tb), NEW k \in DOMAIN tb.flows, NEW fr, NEW off \in Nat,
                           NEW more \in BOOLEAN, NEW n \in Sizes, off = 0 \/ fr \in DOMAIN tb.fragments,
                           BooksBut(tb, k), BooksInv(tb) \/ (tb.flows[k].state = "pending" /\ Room(tb, k, n)),
                           more => fr \in DOMAIN tb.fragments \/ Cardinality(DOMAIN tb.fragments) < MaxFragments
                    PROVE  BooksInv(Admit(tb, k, fr, off, more, n))
  <1> DEFINE r == Admit(tb, k, fr, off, more, n)
             D == DOMAIN tb.flows
  <1>1. TableInv(r) /\ TypeTable(tb) /\ TypeTable(r)
    BY AdmitOK DEF TableInv
  <1>2. Admitted(tb, r, k, fr, more, n)
    BY AdmitFields
  <1> HIDE DEF r
  <1>3. IsFiniteSet(DOMAIN r.fragments) /\ Cardinality(DOMAIN r.fragments) <= MaxFragments
    <2>1. /\ IsFiniteSet(DOMAIN tb.fragments) /\ Cardinality(DOMAIN tb.fragments) \in Nat /\ MaxFragments \in Nat
          /\ Cardinality(DOMAIN tb.fragments) <= MaxFragments
      BY FS_CardinalityType, FlowAssumption DEF BooksBut, Reckoned
    <2>2. CASE DOMAIN r.fragments \subseteq DOMAIN tb.fragments
      <3>1. IsFiniteSet(DOMAIN r.fragments) /\ Cardinality(DOMAIN r.fragments) <= Cardinality(DOMAIN tb.fragments)
        BY <2>1, <2>2, FS_Subset
      <3> QED
        BY <2>1, <3>1, FS_CardinalityType
    <2>3. CASE more /\ DOMAIN r.fragments = DOMAIN tb.fragments \cup {fr}
      <3>1. /\ IsFiniteSet(DOMAIN tb.fragments \cup {fr})
            /\ Cardinality(DOMAIN tb.fragments \cup {fr}) =
                  IF fr \in DOMAIN tb.fragments THEN Cardinality(DOMAIN tb.fragments)
                  ELSE Cardinality(DOMAIN tb.fragments) + 1
        BY <2>1, FS_AddElement
      <3> QED
        BY <2>1, <2>3, <3>1
    <2> QED
      BY <1>2, <2>2, <2>3 DEF Admitted
  <1>4. ~tb.closed /\ ~r.closed
    <2>1. ~tb.closed
      BY DEF BooksBut
    <2> QED
      BY <1>2, <2>1, Zenon DEF Admitted
  <1>5. CASE tb.flows[k].state = "pending" /\ Room(tb, k, n)
    <2>1. /\ r.flows[k].pending = Append(tb.flows[k].pending, n)
          /\ r.pendingPackets = tb.pendingPackets + 1 /\ r.pendingBytes = tb.pendingBytes + n
      BY <1>2, <1>5 DEF Admitted
    <2>2. /\ IsFiniteSet(D) /\ tb.pendingPackets = Packets(tb, D) /\ tb.pendingBytes = PacketBytes(tb, D)
          /\ Cardinality(D) <= MaxFlows
      BY DEF BooksBut, Reckoned
    <2>3. tb.pendingPackets < MaxPackets /\ tb.pendingBytes + n <= MaxBytes /\ MaxPackets \in Nat
          /\ MaxBytes \in Nat /\ n \in Nat
      BY <1>5, FlowAssumption DEF Room, Budget
    <2>4. {k} \subseteq D /\ D \ {k} \subseteq D /\ IsFiniteSet({k}) /\ IsFiniteSet(D \ {k})
      BY <2>2, FS_Subset
    <2>5. /\ Packets(tb, {k}) \in Nat /\ PacketBytes(tb, {k}) \in Nat
          /\ Packets(tb, D \ {k}) \in Nat /\ PacketBytes(tb, D \ {k}) \in Nat
      <3> HIDE DEF D
      <3>1. {k} \subseteq DOMAIN tb.flows /\ D \ {k} \subseteq DOMAIN tb.flows
        BY <2>4 DEF D
      <3> QED
        BY <1>1, <2>4, <3>1, WaitingFinite
    <2>6. /\ Packets(tb, D) = Packets(tb, {k}) + Packets(tb, D \ {k})
          /\ PacketBytes(tb, D) = PacketBytes(tb, {k}) + PacketBytes(tb, D \ {k})
      BY <1>1, <2>2, <2>4, WaitingSplit
    <2>7. /\ Packets(r, D) = Packets(r, {k}) + Packets(r, D \ {k})
          /\ PacketBytes(r, D) = PacketBytes(r, {k}) + PacketBytes(r, D \ {k})
      BY <1>1, <1>2, <2>2, <2>4, WaitingSplit DEF Admitted
    <2>8. Packets(r, D \ {k}) = Packets(tb, D \ {k}) /\ PacketBytes(r, D \ {k}) = PacketBytes(tb, D \ {k})
      <3>1. \A j \in D \ {k} : r.flows[j].pending = tb.flows[j].pending
        BY <1>2 DEF Admitted
      <3> HIDE DEF D
      <3> QED
        BY <3>1, WaitingSame
    <2>9. Packets(r, {k}) = Packets(tb, {k}) + 1 /\ PacketBytes(r, {k}) = PacketBytes(tb, {k}) + n
      BY <1>1, <2>1, OneMoreWaits
    <2>10. r.pendingPackets = Packets(r, D) /\ r.pendingPackets <= MaxPackets
      <3> HIDE DEF D
      <3>1. Packets(r, D) = Packets(tb, D) + 1 /\ Packets(tb, D) \in Nat
        BY <2>5, <2>6, <2>7, <2>8, <2>9
      <3> QED
        BY <2>1, <2>2, <2>3, <3>1
    <2>11. r.pendingBytes = PacketBytes(r, D) /\ r.pendingBytes <= MaxBytes
      <3> HIDE DEF D
      <3>1. PacketBytes(r, D) = PacketBytes(tb, D) + n /\ PacketBytes(tb, D) \in Nat
        BY <2>3, <2>5, <2>6, <2>7, <2>8, <2>9
      <3> QED
        BY <2>1, <2>2, <2>3, <3>1
    <2>12. Held(r)
      <3>1. Append(tb.flows[k].pending, n) # <<>>
        <4>1. tb.flows[k].pending \in Seq(Sizes)
          BY <1>1 DEF TypeTable, Flow
        <4>2. ASSUME NEW s \in Seq(Sizes) PROVE Append(s, n) # <<>>
          OBVIOUS
        <4> QED
          BY <4>1, <4>2
      <3> QED
        BY <1>2, <1>5, <2>1, <3>1 DEF Held, BooksBut, Admitted
    <2>13. DOMAIN r.flows = D
      BY <1>2 DEF Admitted
    <2>14. Reckoned(r)
      BY <1>3, <1>4, <2>2, <2>10, <2>11, <2>13 DEF Reckoned
    <2> HIDE DEF D
    <2> QED
      BY <1>3, <2>2, <2>12, <2>13, <2>14 DEF BooksInv, r
  <1>6. CASE ~(tb.flows[k].state = "pending" /\ Room(tb, k, n))
    <2>1. BooksInv(tb)
      BY <1>6
    <2>2. /\ r.flows[k].pending = tb.flows[k].pending /\ r.pendingPackets = tb.pendingPackets
          /\ r.pendingBytes = tb.pendingBytes
      BY <1>2, <1>6 DEF Admitted
    <2>3. \A j \in DOMAIN r.flows : /\ r.flows[j].pending = tb.flows[j].pending
                                    /\ r.flows[j].state = tb.flows[j].state
      BY <1>2, <2>2 DEF Admitted
    <2>4. DOMAIN r.flows = DOMAIN tb.flows /\ r.closed = tb.closed /\ DOMAIN r.auth \subseteq DOMAIN tb.auth
      BY <1>2, Zenon DEF Admitted
    <2> QED
      BY <1>1, <1>3, <1>4, <2>1, <2>2, <2>3, <2>4, QueuesKept DEF r
  <1> QED
    BY <1>5, <1>6 DEF r

\* The books of r are those of tb less what waits in the flows S.
TakenOff(tb, r, S) ==
    /\ r.pendingPackets = tb.pendingPackets - Packets(tb, S)
    /\ r.pendingBytes = tb.pendingBytes - PacketBytes(tb, S)
    /\ r.closed = tb.closed

\* releasePendingLocked, removeFragmentsLocked with it and removeLocked take off what waited in the flows.
LEMMA ReleaseTakesOff == ASSUME NEW tb, IsTable(tb), NEW S
                         PROVE  /\ TakenOff(tb, releasePendingLocked(tb, S), S)
                                /\ TakenOff(tb, removeFragmentsLocked(releasePendingLocked(tb, S), S), S)
                                /\ TakenOff(tb, removeLocked(tb, S), S)
  <1> DEFINE p == releasePendingLocked(tb, S)
             q == removeFragmentsLocked(p, S)
             r == removeLocked(tb, S)
  <1>1. IsTable(p) /\ p.pendingPackets = tb.pendingPackets - Packets(tb, S)
        /\ p.pendingBytes = tb.pendingBytes - PacketBytes(tb, S) /\ p.closed = tb.closed
    <2>1. IsTable(p)
      BY ReleaseFields
    <2>2. p = [tb EXCEPT !.pendingPackets = tb.pendingPackets - Packets(tb, S),
                         !.pendingBytes = tb.pendingBytes - PacketBytes(tb, S)]
      BY DEF releasePendingLocked
    <2> HIDE DEF p
    <2> QED
      BY <2>1, <2>2 DEF IsTable
  <1>2. r = [q EXCEPT !.flows = Without(q.flows, S), !.auth = Without(q.auth, {tb.flows[k].id : k \in S})]
    BY DEF removeLocked
  <1> HIDE DEF p, r
  <1>3. IsTable(q) /\ q.pendingPackets = p.pendingPackets /\ q.pendingBytes = p.pendingBytes /\ q.closed = p.closed
    <2>1. IsTable(q)
      BY <1>1, CutFields
    <2>2. PICK v : q = [p EXCEPT !.fragments = v]
      BY DEF removeFragmentsLocked
    <2> HIDE DEF q
    <2> QED
      BY <1>1, <2>1, <2>2 DEF IsTable
  <1> HIDE DEF q
  <1>4. r.pendingPackets = q.pendingPackets /\ r.pendingBytes = q.pendingBytes /\ r.closed = q.closed
    BY <1>2, <1>3 DEF IsTable
  <1> QED
    BY <1>1, <1>3, <1>4 DEF TakenOff, p, q, r

\* Fewer associations and the same flows: the books are as they were.
LEMMA SweepBooks == ASSUME NEW tb, TableInv(tb), BooksInv(tb), NEW S
                    PROVE  BooksInv([tb EXCEPT !.fragments = Without(tb.fragments, S)])
  <1> DEFINE r == [tb EXCEPT !.fragments = Without(tb.fragments, S)]
  <1>1. IsTable(tb)
    BY DEF TableInv, TypeTable
  <1>2. TableInv(r)
    BY Sweep
  <1> HIDE DEF r
  <1>3. /\ r.flows = tb.flows /\ r.auth = tb.auth /\ r.pendingPackets = tb.pendingPackets
        /\ r.pendingBytes = tb.pendingBytes /\ r.closed = tb.closed /\ r.fragments = Without(tb.fragments, S)
    BY <1>1 DEF IsTable, r
  <1>4. DOMAIN r.fragments \subseteq DOMAIN tb.fragments
    BY <1>3 DEF Without
  <1> QED
    BY <1>2, <1>3, <1>4, QueuesKept DEF r

\* removeLocked: the flows go with their packets and with their packets' part of the books.
LEMMA RemoveBooks == ASSUME NEW tb, TableInv(tb), BooksInv(tb), NEW S, S \subseteq DOMAIN tb.flows
                     PROVE  /\ BooksInv(removeLocked(tb, S)) /\ removeLocked(tb, S).closed = tb.closed
                            /\ DOMAIN removeLocked(tb, S).fragments \subseteq DOMAIN tb.fragments
  <1> DEFINE r == removeLocked(tb, S)
  <1>1. IsTable(tb)
    BY DEF TableInv, TypeTable
  <1>2. TableInv(r)
    BY Remove
  <1>3. /\ IsTable(r) /\ r.flows = Without(tb.flows, S)
        /\ r.auth = Without(tb.auth, {tb.flows[k].id : k \in S})
        /\ r.fragments = Without(tb.fragments, Orphans(tb, S)) /\ r.next = tb.next
    BY <1>1, RemoveFields
  <1>4. TakenOff(tb, r, S)
    BY <1>1, ReleaseTakesOff
  <1> HIDE DEF r
  <1>5. DOMAIN r.flows = DOMAIN tb.flows \ S /\ \A k \in DOMAIN r.flows : r.flows[k] = tb.flows[k]
    BY <1>3 DEF Without
  <1>6. DOMAIN r.auth \subseteq DOMAIN tb.auth /\ DOMAIN r.fragments \subseteq DOMAIN tb.fragments
    BY <1>3 DEF Without
  <1>7. IsFiniteSet(DOMAIN r.fragments) /\ Cardinality(DOMAIN r.fragments) <= MaxFragments
    BY <1>6, FewerFragments
  <1>8. Settles(tb, r, S)
    BY <1>4, <1>5, <1>6, <1>7 DEF Settles, TakenOff
  <1> QED
    BY <1>2, <1>4, <1>6, <1>8, SettlesBooks DEF TakenOff, r

\* newFlow: one flow more, with nothing in it.
LEMMA NewBooks == ASSUME NEW tb, TableInv(tb), BooksInv(tb), NEW k \in Keys, k \notin DOMAIN tb.flows, ~tb.closed,
                         Cardinality(DOMAIN tb.flows) < MaxFlows
                  PROVE  LET q == newFlow(tb, k)
                         IN  /\ BooksBut(q, k) /\ q.flows[k].state = "pending" /\ q.flows[k].pending = <<>>
                             /\ q.pendingPackets = tb.pendingPackets /\ q.pendingBytes = tb.pendingBytes
                             /\ q.fragments = tb.fragments
  <1> DEFINE q == newFlow(tb, k)
             g == [id |-> tb.next + 1, state |-> "pending", pending |-> <<>>, sent |-> FALSE,
                   used |-> FALSE, left |-> AuthTimeout, age |-> 0]
             D == DOMAIN tb.flows
  <1>1. IsTable(tb)
    BY DEF TableInv, TypeTable
  <1>2. TypeTable(q)
    BY NewFlow DEF TableInv
  <1>3. q.flows = Put(tb.flows, k, g)
    BY <1>1 DEF IsTable, newFlow
  <1>4. q.pendingPackets = tb.pendingPackets /\ q.pendingBytes = tb.pendingBytes
    BY <1>1 DEF IsTable, newFlow
  <1>5. q.closed = tb.closed /\ q.fragments = tb.fragments
    BY <1>1 DEF IsTable, newFlow
  <1>6. g.state = "pending" /\ g.pending = <<>>
    OBVIOUS
  <1> HIDE DEF q, g
  <1>7. DOMAIN q.flows = D \cup {k} /\ q.flows[k] = g /\ \A j \in D : q.flows[j] = tb.flows[j]
    BY <1>3 DEF Put
  <1>8. /\ IsFiniteSet(D) /\ IsFiniteSet(DOMAIN tb.fragments) /\ tb.pendingPackets = Packets(tb, D)
        /\ tb.pendingBytes = PacketBytes(tb, D) /\ tb.pendingPackets <= MaxPackets /\ tb.pendingBytes <= MaxBytes
        /\ Cardinality(DOMAIN tb.fragments) <= MaxFragments /\ Held(tb)
    BY DEF BooksInv, Reckoned
  <1>9. IsFiniteSet(D \cup {k}) /\ Cardinality(D \cup {k}) <= MaxFlows
    <2>1. Cardinality(D) \in Nat /\ Cardinality(D) < MaxFlows /\ MaxFlows \in Nat
      BY <1>8, FS_CardinalityType, FlowAssumption
    <2>2. IsFiniteSet(D \cup {k}) /\ Cardinality(D \cup {k}) = Cardinality(D) + 1
      BY <1>8, FS_AddElement
    <2> QED
      BY <2>1, <2>2
  <1>10. Packets(q, D \cup {k}) = Packets(tb, D) /\ PacketBytes(q, D \cup {k}) = PacketBytes(tb, D)
    <2> DEFINE E == D \cup {k}
    <2>1. E \subseteq DOMAIN q.flows /\ {k} \subseteq E /\ E \ {k} = D
      BY <1>7
    <2>2. IsFiniteSet(E)
      BY <1>9
    <2>3. \A j \in D : q.flows[j].pending = tb.flows[j].pending
      BY <1>7
    <2>4. \A j \in {k} : q.flows[j].pending = <<>>
      BY <1>6, <1>7
    <2>5. Packets(tb, D) \in Nat /\ PacketBytes(tb, D) \in Nat
      BY <1>8, WaitingFinite DEF TableInv
    <2> HIDE DEF D, E
    <2>6. Packets(q, D) = Packets(tb, D) /\ PacketBytes(q, D) = PacketBytes(tb, D)
      BY <2>3, WaitingSame
    <2>7. Packets(q, {k}) = 0 /\ PacketBytes(q, {k}) = 0
      BY <2>4, NothingWaits
    <2>8. /\ Packets(q, E) = Packets(q, {k}) + Packets(q, E \ {k})
          /\ PacketBytes(q, E) = PacketBytes(q, {k}) + PacketBytes(q, E \ {k})
      BY <1>2, <2>1, <2>2, WaitingSplit
    <2>9. E \ {k} = D
      BY <2>1
    <2>10. Packets(q, E) = 0 + Packets(tb, D) /\ PacketBytes(q, E) = 0 + PacketBytes(tb, D)
      BY <2>6, <2>7, <2>8, <2>9, Zenon
    <2> QED
      BY <2>5, <2>10 DEF E
  <1>11. ~q.closed
    BY <1>5, Zenon
  <1>12. Reckoned(q)
    BY <1>4, <1>5, <1>7, <1>8, <1>9, <1>10, <1>11 DEF Reckoned
  <1>13. ASSUME NEW j \in DOMAIN q.flows \ {k}
         PROVE  (q.flows[j].pending # <<>>) <=> (q.flows[j].state = "pending")
    BY <1>7, <1>8 DEF Held
  <1> HIDE DEF D
  <1>14. BooksBut(q, k)
    BY <1>5, <1>7, <1>8, <1>9, <1>11, <1>12, <1>13 DEF BooksBut
  <1> QED
    BY <1>4, <1>5, <1>6, <1>7, <1>14 DEF q

\* Books that are right are right but for any one flow.
LEMMA BooksButOne == ASSUME NEW tb, BooksInv(tb), ~tb.closed, NEW k PROVE BooksBut(tb, k)
  BY DEF BooksInv, BooksBut, Held

\* queuePacket of a later fragment.
LEMMA TailBooks == ASSUME NEW tb, TableInv(tb), BooksInv(tb), ~tb.closed, NEW fr, NEW off \in Nat,
                          NEW more \in BOOLEAN, NEW n \in Sizes
                   PROVE  BooksInv(QueueTail(tb, fr, off, more, n))
  <1> DEFINE r == QueueTail(tb, fr, off, more, n)
             s == tb.fragments[fr]
  <1>1. CASE r = tb
    BY <1>1
  <1>2. CASE r = Forget(tb, fr)
    BY <1>2, SweepBooks DEF Forget
  <1>3. CASE fr \in DOMAIN tb.fragments /\ r = Admit(tb, s.key, fr, off, more, n)
    <2>1. s.key \in DOMAIN tb.flows
      BY <1>3 DEF TableInv, Indexed, Live
    <2>2. BooksBut(tb, s.key)
      BY BooksButOne
    <2> HIDE DEF r, s
    <2> QED
      BY <1>3, <2>1, <2>2, AdmitBooks DEF r
  <1> QED
    BY <1>1, <1>2, <1>3 DEF QueueTail

\* queuePacket of a whole packet, or of a first fragment for which there is room.
LEMMA FlowBooks == ASSUME NEW tb, TableInv(tb), BooksInv(tb), ~tb.closed, NEW k \in Keys, NEW fr,
                          NEW more \in BOOLEAN, NEW n \in Sizes,
                          more => Cardinality(DOMAIN tb.fragments) < MaxFragments
                   PROVE  BooksInv(QueueFlow(tb, k, fr, more, n))
  <1> DEFINE r == QueueFlow(tb, k, fr, more, n)
             kept == IF k \in DOMAIN tb.flows /\ expired(tb.flows[k]) THEN removeLocked(tb, {k}) ELSE tb
  <1>1. TableInv(kept) /\ BooksInv(kept) /\ DOMAIN kept.fragments \subseteq DOMAIN tb.fragments
        /\ kept.closed = tb.closed
    <2>1. CASE k \in DOMAIN tb.flows /\ expired(tb.flows[k])
      BY <2>1, Remove, RemoveBooks
    <2>2. CASE ~(k \in DOMAIN tb.flows /\ expired(tb.flows[k]))
      BY <2>2
    <2> QED
      BY <2>1, <2>2
  <1>2. \/ k \in DOMAIN kept.flows /\ r = Admit(kept, k, fr, 0, more, n)
        \/ r = kept
        \/ /\ k \notin DOMAIN kept.flows /\ ~(Cardinality(DOMAIN kept.flows) >= MaxFlows) /\ Budget(kept, n)
           /\ r = Admit(newFlow(kept, k), k, fr, 0, more, n)
    BY DEF QueueFlow
  <1> HIDE DEF kept, r
  <1>3. ~kept.closed
    BY <1>1, Zenon
  <1>4. more => Cardinality(DOMAIN kept.fragments) < MaxFragments
    <2>1. /\ IsFiniteSet(DOMAIN tb.fragments) /\ Cardinality(DOMAIN tb.fragments) \in Nat /\ MaxFragments \in Nat
      BY FS_CardinalityType, FlowAssumption DEF BooksInv
    <2>2. Cardinality(DOMAIN kept.fragments) <= Cardinality(DOMAIN tb.fragments)
          /\ Cardinality(DOMAIN kept.fragments) \in Nat
      BY <1>1, <2>1, FS_Subset, FS_CardinalityType
    <2> QED
      BY <2>1, <2>2
  <1>5. CASE k \in DOMAIN kept.flows /\ r = Admit(kept, k, fr, 0, more, n)
    <2>1. BooksBut(kept, k)
      BY <1>1, <1>3, BooksButOne
    <2>2. 0 \in Nat
      OBVIOUS
    <2> QED
      BY <1>1, <1>4, <1>5, <2>1, <2>2, AdmitBooks DEF r
  <1>6. CASE r = kept
    BY <1>1, <1>6 DEF r
  <1>7. CASE /\ k \notin DOMAIN kept.flows /\ ~(Cardinality(DOMAIN kept.flows) >= MaxFlows) /\ Budget(kept, n)
             /\ r = Admit(newFlow(kept, k), k, fr, 0, more, n)
    <2> DEFINE q == newFlow(kept, k)
    <2>1. TableInv(q) /\ k \in DOMAIN q.flows
      BY <1>1, <1>7, NewFlow
    <2>2. Cardinality(DOMAIN kept.flows) < MaxFlows
      <3>1. Cardinality(DOMAIN kept.flows) \in Nat /\ MaxFlows \in Nat
        BY <1>1, FS_CardinalityType, FlowAssumption DEF BooksInv
      <3> QED
        BY <1>7, <3>1
    <2>3. /\ BooksBut(q, k) /\ q.flows[k].state = "pending" /\ q.flows[k].pending = <<>>
          /\ q.pendingPackets = kept.pendingPackets /\ q.pendingBytes = kept.pendingBytes
          /\ q.fragments = kept.fragments
      BY <1>1, <1>3, <1>7, <2>2, NewBooks
    <2> HIDE DEF q
    <2>4. Room(q, k, n)
      <3>1. Len(q.flows[k].pending) = 0 /\ 0 < MaxPerFlow
        BY <2>3, FlowAssumption
      <3> QED
        BY <1>7, <2>3, <3>1 DEF Room, Budget
    <2>5. r = Admit(q, k, fr, 0, more, n) /\ 0 \in Nat
      BY <1>7 DEF q
    <2>6. more => Cardinality(DOMAIN q.fragments) < MaxFragments
      BY <1>4, <2>3
    <2> QED
      BY <2>1, <2>3, <2>4, <2>5, <2>6, AdmitBooks DEF r
  <1> QED
    BY <1>2, <1>5, <1>6, <1>7

\* queuePacket of a whole packet or a first fragment.
LEMMA FirstBooks == ASSUME NEW tb, TableInv(tb), BooksInv(tb), ~tb.closed, NEW k \in Keys, NEW fr,
                           NEW more \in BOOLEAN, NEW n \in Sizes
                    PROVE  BooksInv(QueueFirst(tb, k, fr, more, n))
  <1> DEFINE r == QueueFirst(tb, k, fr, more, n)
             swept == expireFragmentsLocked(tb)
  <1>1. TableInv(swept) /\ BooksInv(swept) /\ swept.closed = tb.closed
    <2>1. swept = [tb EXCEPT !.fragments = Without(tb.fragments, {fs \in DOMAIN tb.fragments : tb.fragments[fs].left = 0})]
      BY DEF expireFragmentsLocked
    <2>2. swept.closed = tb.closed
      BY <2>1 DEF TableInv, TypeTable, IsTable
    <2> HIDE DEF swept
    <2> QED
      BY <2>1, <2>2, Sweep, SweepBooks
  <1>2. \/ ~more /\ r = QueueFlow(tb, k, fr, more, n)
        \/ r = Forget(tb, fr) \/ r = swept
        \/ ~(Cardinality(DOMAIN swept.fragments) >= MaxFragments) /\ r = QueueFlow(swept, k, fr, more, n)
    BY DEF QueueFirst
  <1> HIDE DEF swept, r
  <1>3. CASE ~more /\ r = QueueFlow(tb, k, fr, more, n)
    BY <1>3, FlowBooks DEF r
  <1>4. CASE r = Forget(tb, fr)
    BY <1>4, SweepBooks DEF Forget, r
  <1>5. CASE r = swept
    BY <1>1, <1>5 DEF r
  <1>6. CASE ~(Cardinality(DOMAIN swept.fragments) >= MaxFragments) /\ r = QueueFlow(swept, k, fr, more, n)
    <2>1. ~swept.closed
      BY <1>1, Zenon
    <2>2. Cardinality(DOMAIN swept.fragments) < MaxFragments
      <3>1. Cardinality(DOMAIN swept.fragments) \in Nat /\ MaxFragments \in Nat
        BY <1>1, FS_CardinalityType, FlowAssumption DEF BooksInv
      <3> QED
        BY <1>6, <3>1
    <2> QED
      BY <1>1, <1>6, <2>1, <2>2, FlowBooks DEF r
  <1> QED
    BY <1>2, <1>3, <1>4, <1>5, <1>6

\* completeAuth: what waited is released and taken off the books, or goes with its flow.
LEMMA CompleteBooks == ASSUME TableInv(t), BooksInv(t), NEW id, NEW ok \in BOOLEAN
                       PROVE  BooksInv(completeAuth(id, ok))
  <1> DEFINE r == completeAuth(id, ok)
             k == t.auth[id]
             b == IF ok THEN releasePendingLocked(t, {k})
                  ELSE removeFragmentsLocked(releasePendingLocked(t, {k}), {k})
  <1>1. IsTable(t) /\ TableInv(r)
    BY CompleteOK DEF TableInv, TypeTable
  <1>2. CASE ~Awaits(id)
    BY <1>2 DEF completeAuth
  <1>3. CASE Awaits(id) /\ expired(t.flows[k])
    <2>1. r = removeLocked(t, {k}) /\ {k} \subseteq DOMAIN t.flows
      BY <1>3 DEF completeAuth, Awaits, TableInv, Indexed
    <2> HIDE DEF k, r
    <2> QED
      BY <2>1, RemoveBooks DEF r
  <1>4. CASE Awaits(id) /\ ~expired(t.flows[k])
    <2> DEFINE f == t.flows[k]
               st == IF ok THEN "ready" ELSE "failed"
               g == [f EXCEPT !.state = st, !.pending = <<>>, !.left = IdleTTL, !.age = 0]
    <2>1. r = [b EXCEPT !.flows[k].state = st, !.flows[k].pending = <<>>,
                        !.flows[k].left = IdleTTL, !.flows[k].age = 0]
      BY <1>4 DEF completeAuth
    <2>2. k \in DOMAIN t.flows /\ f \in Flow
      BY <1>4 DEF Awaits, TableInv, TypeTable, Indexed
    <2>3. /\ IsTable(b) /\ b.flows = t.flows /\ b.auth = t.auth
          /\ DOMAIN b.fragments \subseteq DOMAIN t.fragments /\ TakenOff(t, b, {k})
      <3> DEFINE p == releasePendingLocked(t, {k})
                 q == removeFragmentsLocked(p, {k})
      <3>1. IsTable(p) /\ p.flows = t.flows /\ p.auth = t.auth /\ p.fragments = t.fragments /\ p.next = t.next
        BY <1>1, ReleaseFields
      <3>2. TakenOff(t, p, {k}) /\ TakenOff(t, q, {k})
        BY <1>1, ReleaseTakesOff
      <3>3. b = p \/ b = q
        OBVIOUS
      <3> HIDE DEF p
      <3>4. IsTable(q) /\ q.flows = p.flows /\ q.auth = p.auth
            /\ q.fragments = Without(p.fragments, Orphans(p, {k})) /\ q.next = p.next
        BY <3>1, CutFields
      <3>5. DOMAIN q.fragments \subseteq DOMAIN t.fragments
        BY <3>1, <3>4 DEF Without
      <3> HIDE DEF q, b
      <3> QED
        BY <3>1, <3>2, <3>3, <3>4, <3>5
    <2> HIDE DEF b, k, r
    <2>4. r.auth = b.auth /\ r.fragments = b.fragments
      BY <2>1, <2>3 DEF IsTable
    <2>5. r.pendingPackets = b.pendingPackets /\ r.pendingBytes = b.pendingBytes /\ r.closed = b.closed
      BY <2>1, <2>3 DEF IsTable
    <2>6. r.flows = [t.flows EXCEPT ![k] = g]
      BY <2>1, <2>2, <2>3 DEF IsTable
    <2>7. g.pending = <<>> /\ g.state # "pending"
      BY <2>2 DEF Flow
    <2> HIDE DEF f, g, st
    <2>8. DOMAIN r.flows = DOMAIN t.flows /\ r.flows[k] = g
          /\ \A j \in DOMAIN t.flows : j # k => r.flows[j] = t.flows[j]
      BY <2>2, <2>6
    <2>9. DOMAIN r.fragments \subseteq DOMAIN t.fragments
      BY <2>3, <2>4
    <2>10. IsFiniteSet(DOMAIN r.fragments) /\ Cardinality(DOMAIN r.fragments) <= MaxFragments
      BY <2>9, FewerFragments
    <2>11. TakenOff(t, r, {k})
      BY <2>3, <2>5 DEF TakenOff
    <2>12. Settles(t, r, {k})
      BY <2>2, <2>3, <2>4, <2>7, <2>8, <2>9, <2>10, <2>11 DEF Settles, TakenOff
    <2> QED
      BY <1>1, <2>12, SettlesBooks DEF r
  <1> QED
    BY <1>2, <1>3, <1>4

\* expire: the flows that are over take their packets off the books.
LEMMA ExpireBooks == ASSUME TableInv(t), BooksInv(t), expire PROVE BooksInv(t')
  <1> DEFINE dead == {k \in DOMAIN t.flows : expired(t.flows[k])}
             p    == releasePendingLocked(t, dead)
             rest == [p EXCEPT !.flows = Without(p.flows, dead), !.auth = Without(p.auth, {t.flows[k].id : k \in dead})]
             gone == {fr \in DOMAIN rest.fragments :
                        rest.fragments[fr].left = 0 \/ ~Live(rest, rest.fragments[fr])}
  <1>1. t' = [rest EXCEPT !.fragments = Without(rest.fragments, gone)]
    BY DEF expire
  <1>2. IsTable(t) /\ TableInv(t')
    BY ExpireOK DEF TableInv, TypeTable
  <1>3. IsTable(p) /\ p.flows = t.flows /\ p.auth = t.auth /\ p.fragments = t.fragments /\ p.next = t.next
    BY <1>2, ReleaseFields
  <1>4. TakenOff(t, p, dead)
    BY <1>2, ReleaseTakesOff
  <1>5. dead \subseteq DOMAIN t.flows
    OBVIOUS
  <1> HIDE DEF p, dead
  <1>6. IsTable(rest) /\ rest.fragments = t.fragments
    <2>1. IsTable(rest)
      BY <1>3, Fields
    <2>2. rest.fragments = p.fragments
      BY <1>3 DEF IsTable
    <2> QED
      BY <1>3, <2>1, <2>2
  <1>7. rest.flows = Without(t.flows, dead)
    BY <1>3 DEF IsTable
  <1>8. rest.auth = Without(t.auth, {t.flows[k].id : k \in dead})
    BY <1>3 DEF IsTable
  <1>9. rest.pendingPackets = p.pendingPackets /\ rest.pendingBytes = p.pendingBytes /\ rest.closed = p.closed
    BY <1>3 DEF IsTable
  <1> HIDE DEF rest, gone
  <1>10. t'.flows = rest.flows /\ t'.auth = rest.auth /\ t'.fragments = Without(t.fragments, gone)
    BY <1>1, <1>6 DEF IsTable
  <1>11. t'.pendingPackets = p.pendingPackets /\ t'.pendingBytes = p.pendingBytes /\ t'.closed = p.closed
    BY <1>1, <1>6, <1>9 DEF IsTable
  <1> PICK r : r = t'
    OBVIOUS
  <1>12. DOMAIN r.flows = DOMAIN t.flows \ dead /\ \A k \in DOMAIN r.flows : r.flows[k] = t.flows[k]
    BY <1>7, <1>10 DEF Without
  <1>13. DOMAIN r.auth \subseteq DOMAIN t.auth /\ DOMAIN r.fragments \subseteq DOMAIN t.fragments
    BY <1>8, <1>10 DEF Without
  <1>14. IsFiniteSet(DOMAIN r.fragments) /\ Cardinality(DOMAIN r.fragments) <= MaxFragments
    BY <1>13, FewerFragments
  <1>15. Settles(t, r, dead)
    BY <1>4, <1>5, <1>11, <1>12, <1>13, <1>14 DEF Settles, TakenOff
  <1>16. BooksInv(r)
    BY <1>2, <1>15, SettlesBooks
  <1> QED
    BY <1>16

\* pendingAuth: the flows that are over go, the others keep what waits in them.
LEMMA PendingBooks ==
    ASSUME TableInv(t), BooksInv(t), NEW D, D \subseteq DOMAIN t.flows, NEW S, t' = Marked(removeLocked(t, D), S)
    PROVE  BooksInv(t')
  <1> PICK b : b = removeLocked(t, D)
    OBVIOUS
  <1> PICK r : r = t'
    OBVIOUS
  <1>1. TableInv(b) /\ BooksInv(b) /\ TableInv(r)
    BY Remove, RemoveBooks, PendingOK
  <1>2. IsTable(b) /\ \A k \in DOMAIN b.flows : b.flows[k] \in Flow
    BY <1>1 DEF TableInv, TypeTable
  <1> DEFINE fl == [k \in DOMAIN b.flows |-> IF k \in S THEN [b.flows[k] EXCEPT !.sent = TRUE] ELSE b.flows[k]]
  <1>3. r = [b EXCEPT !.flows = fl]
    BY DEF Marked
  <1>4. DOMAIN fl = DOMAIN b.flows
        /\ \A k \in DOMAIN fl : fl[k].pending = b.flows[k].pending /\ fl[k].state = b.flows[k].state
    BY <1>2 DEF Flow
  <1> HIDE DEF fl
  <1>5. r.flows = fl /\ r.auth = b.auth /\ r.fragments = b.fragments
    BY <1>2, <1>3 DEF IsTable
  <1>6. r.pendingPackets = b.pendingPackets /\ r.pendingBytes = b.pendingBytes /\ r.closed = b.closed
    BY <1>2, <1>3 DEF IsTable
  <1>7. BooksInv(r)
    BY <1>1, <1>4, <1>5, <1>6, QueuesKept
  <1> QED
    BY <1>7

\* retryAuth: the flow waits on, with what waits in it.
LEMMA RetryBooks == ASSUME TableInv(t), BooksInv(t), NEW id, retryAuth(id), TableInv(t')
                    PROVE  BooksInv(t')
  <1> DEFINE k == t.auth[id]
             f == t.flows[k]
             g == [f EXCEPT !.used = TRUE, !.sent = FALSE, !.left = RetryDelay + AuthTimeout]
  <1> PICK r : r = t'
    OBVIOUS
  <1>1. CASE r = t
    BY <1>1
  <1>2. CASE Awaits(id) /\ expired(f)
    <2>1. r = removeLocked(t, {k}) /\ {k} \subseteq DOMAIN t.flows
      BY <1>2 DEF retryAuth, Awaits, TableInv, Indexed
    <2> HIDE DEF k
    <2>2. BooksInv(r)
      BY <2>1, RemoveBooks
    <2> QED
      BY <2>2
  <1>3. CASE Awaits(id) /\ ~expired(f) /\ ~f.used
    <2>1. k \in DOMAIN t.flows /\ f \in Flow /\ IsTable(t)
      BY <1>3 DEF Awaits, TableInv, TypeTable, Indexed
    <2>2. r = [t EXCEPT !.flows[k].used = TRUE, !.flows[k].sent = FALSE, !.flows[k].left = RetryDelay + AuthTimeout]
      BY <1>3 DEF retryAuth
    <2> HIDE DEF k
    <2>3. r.auth = t.auth /\ r.fragments = t.fragments
      BY <2>1, <2>2 DEF IsTable
    <2>4. r.pendingPackets = t.pendingPackets /\ r.pendingBytes = t.pendingBytes /\ r.closed = t.closed
      BY <2>1, <2>2 DEF IsTable
    <2>5. r.flows = [t.flows EXCEPT ![k] = g]
      BY <2>1, <2>2 DEF IsTable
    <2>6. g.pending = f.pending /\ g.state = f.state
      BY <2>1 DEF Flow
    <2> HIDE DEF g
    <2>7. DOMAIN r.flows = DOMAIN t.flows
          /\ \A j \in DOMAIN r.flows : r.flows[j].pending = t.flows[j].pending /\ r.flows[j].state = t.flows[j].state
      BY <2>1, <2>5, <2>6
    <2>8. BooksInv(r)
      BY <2>3, <2>4, <2>7, QueuesKept
    <2> QED
      BY <2>8
  <1> QED
    BY <1>1, <1>2, <1>3 DEF retryAuth

\* Time passes: nothing that waits moves.
LEMMA TickBooks == ASSUME TableInv(t), BooksInv(t), Tick PROVE BooksInv(t')
  <1> DEFINE less(x) == IF x = 0 THEN 0 ELSE x - 1
             later(f) == [f EXCEPT !.left = less(f.left),
                                   !.age = IF f.state = "pending" /\ f.left > 0 THEN f.age + 1 ELSE f.age]
             past(s) == [s EXCEPT !.left = less(s.left)]
             fl == [k \in DOMAIN t.flows |-> later(t.flows[k])]
             fs == [fr \in DOMAIN t.fragments |-> past(t.fragments[fr])]
  <1> PICK r : r = t'
    OBVIOUS
  <1>1. TableInv(r) /\ IsTable(t) /\ \A k \in DOMAIN t.flows : t.flows[k] \in Flow
    BY TickOK DEF TableInv, TypeTable
  <1>2. r = [t EXCEPT !.flows = fl, !.fragments = fs]
    BY <1>1 DEF Tick, IsTable
  <1>3. DOMAIN fl = DOMAIN t.flows /\ DOMAIN fs = DOMAIN t.fragments
    OBVIOUS
  <1>4. \A k \in DOMAIN fl : fl[k].pending = t.flows[k].pending /\ fl[k].state = t.flows[k].state
    BY <1>1 DEF Flow
  <1> HIDE DEF fl, fs
  <1>5. r.flows = fl /\ r.auth = t.auth /\ r.fragments = fs
    BY <1>1, <1>2 DEF IsTable
  <1>6. r.pendingPackets = t.pendingPackets /\ r.pendingBytes = t.pendingBytes /\ r.closed = t.closed
    BY <1>1, <1>2 DEF IsTable
  <1>7. BooksInv(r)
    BY <1>1, <1>3, <1>4, <1>5, <1>6, QueuesKept
  <1> QED
    BY <1>7

\* A table that holds nothing, as it is made and as close leaves it.
LEMMA EmptyBooks == ASSUME NEW r, r.flows = <<>>, r.auth = <<>>, r.fragments = <<>>, r.pendingPackets = 0,
                           r.pendingBytes = 0
                    PROVE  BooksInv(r)
  <1>1. DOMAIN r.flows = {} /\ DOMAIN r.fragments = {}
    OBVIOUS
  <1>2. Packets(r, {}) = 0 /\ PacketBytes(r, {}) = 0
    BY NothingWaits
  <1>3. IsFiniteSet({}) /\ Cardinality({}) = 0
    BY FS_EmptySet
  <1>4. 0 <= MaxPackets /\ 0 <= MaxBytes /\ 0 <= MaxFlows /\ 0 <= MaxFragments
    BY FlowAssumption
  <1> QED
    BY <1>1, <1>2, <1>3, <1>4 DEF BooksInv, Reckoned, Held

\* Every step keeps the books.
LEMMA BooksStep == ASSUME FlowInv, FlowInv', BooksInv(t), [Next]_vars PROVE BooksInv(t')
  <1>1. TableInv(t) /\ TableInv(t')
    BY DEF FlowInv
  <1>2. ASSUME t' = t PROVE BooksInv(t')
    BY <1>2
  <1>3. CASE SendAny
    <2>1. PICK k \in Keys, fr \in Fragments, off \in 0 .. MaxOffset, more \in BOOLEAN, n \in Sizes :
             Send(k, fr, off, more, n)
      BY <1>3 DEF SendAny
    <2>2. off \in Nat
      BY FlowAssumption
    <2>3. CASE t' = t
      BY <1>2, <2>3
    <2>4. CASE ~t.closed /\ t' = QueueTail(t, fr, off, more, n)
      BY <1>1, <2>2, <2>4, TailBooks
    <2>5. CASE ~t.closed /\ t' = QueueFirst(t, k, fr, more, n)
      BY <1>1, <2>5, FirstBooks
    <2> QED
      BY <2>1, <2>3, <2>4, <2>5 DEF Send, queuePacket
  <1>4. CASE \E fr \in Fragments : rejectFragment(fr)
    <2>1. PICK fr \in Fragments : t' = [t EXCEPT !.fragments = Without(t.fragments, {fr})]
      BY <1>4 DEF rejectFragment, Forget
    <2> QED
      BY <1>1, <2>1, SweepBooks
  <1>5. CASE AuthLoop
    <2>1. CASE LoopTick
      BY <1>1, <2>1, ExpireBooks DEF LoopTick
    <2>2. CASE LoopDispatch
      <3>1. PICK V \in SUBSET DOMAIN t.flows :
               LET kept == removeLocked(t, {k \in V : expired(t.flows[k])})
                   S    == {k \in V \cap DOMAIN kept.flows : Due(t.flows[k])}
               IN t' = Marked(kept, S)
        BY <2>2 DEF LoopDispatch, pendingAuth, Marked
      <3> DEFINE D == {k \in V : expired(t.flows[k])}
                 S == {k \in V \cap DOMAIN removeLocked(t, D).flows : Due(t.flows[k])}
      <3>2. D \subseteq DOMAIN t.flows /\ t' = Marked(removeLocked(t, D), S)
        BY <3>1
      <3> HIDE DEF D, S
      <3> QED
        BY <1>1, <3>2, PendingBooks
    <2>3. CASE LoopWake \/ LoopEnds \/ LoopSend
      BY <1>2, <2>3 DEF LoopWake, LoopEnds, LoopSend
    <2> QED
      BY <1>5, <2>1, <2>2, <2>3 DEF AuthLoop
  <1>6. CASE Answers
    <2>1. PICK id \in IDs : AnswerRetry(id) \/ AnswerReject(id) \/ AnswerToken(id)
      BY <1>6 DEF Answers
    <2>2. CASE AnswerRetry(id)
      BY <1>1, <2>2, RetryBooks DEF AnswerRetry
    <2>3. CASE AnswerReject(id)
      BY <1>1, <2>3, CompleteBooks DEF AnswerReject
    <2>4. CASE AnswerToken(id)
      BY <1>1, <2>4, CompleteBooks DEF AnswerToken
    <2> QED
      BY <2>1, <2>2, <2>3, <2>4
  <1>7. CASE Flush \/ Close \/ UNCHANGED vars
    BY <1>2, <1>7 DEF Flush, Close, vars
  <1>8. CASE clear
    <2>1. t' = [flows |-> <<>>, auth |-> <<>>, fragments |-> <<>>, next |-> t.next, pendingPackets |-> 0,
                pendingBytes |-> 0, closed |-> TRUE]
      BY <1>8 DEF clear, newFlowTable
    <2> PICK r : r = t'
      OBVIOUS
    <2>2. r.flows = <<>> /\ r.auth = <<>> /\ r.fragments = <<>> /\ r.pendingPackets = 0 /\ r.pendingBytes = 0
      BY <2>1
    <2>3. BooksInv(r)
      BY <2>2, EmptyBooks
    <2> QED
      BY <2>3
  <1>9. CASE Tick
    BY <1>1, <1>9, TickBooks
  <1> QED
    BY <1>3, <1>4, <1>5, <1>6, <1>7, <1>8, <1>9 DEF Next

\* The books are right, whatever the three goroutines do and however the server answers: what the
\* table counts as waiting is what waits, within every limit, only flows that wait for their answer
\* hold packets, and a closed table holds nothing.
THEOREM BooksAreRight == Spec => []BooksBalance
  <1>1. Init => BooksInv(t)
    <2> SUFFICES ASSUME Init PROVE BooksInv(t)
      OBVIOUS
    <2>1. t.flows = <<>> /\ t.auth = <<>> /\ t.fragments = <<>> /\ t.pendingPackets = 0 /\ t.pendingBytes = 0
      BY DEF Init, newFlowTable
    <2> QED
      BY <2>1, EmptyBooks
  <1>2. FlowInv /\ FlowInv' /\ BooksInv(t) /\ [Next]_vars => BooksInv(t)'
    <2> SUFFICES ASSUME FlowInv, FlowInv', BooksInv(t), [Next]_vars PROVE BooksInv(t)'
      OBVIOUS
    <2>1. BooksInv(t')
      BY BooksStep
    <2> QED
      BY <2>1 DEF BooksInv, Reckoned, Held, Packets, PacketBytes, Waiting, WaitingBytes
  <1>3. BooksInv(t) => BooksBalance
    BY DEF BooksInv, BooksBalance
  <1> QED
    BY <1>1, <1>2, <1>3, FlowsInOrder, PTL DEF Spec
=============================================================================
