----------------------------- MODULE FlowTable -----------------------------
(***************************************************************************)
(* Per-flow authorisation of an L3 tunnel: the flow table                  *)
(* (internal/ztna/conntrack.go) and the three goroutines of tunnelConn     *)
(* that use it (internal/ztna/tunnel.go): Send, the reader's               *)
(* handleAuthResp, and authLoop.                                           *)
(*                                                                         *)
(* Every method of the table runs under its lock and is one step; what a   *)
(* goroutine does between two calls is not.  A flow is named by its        *)
(* authID, so a pointer to a flow is a key with an authID.  A packet is    *)
(* its length.  Instants become the time that is left until them, counted  *)
(* down by Tick to 0.  The server answers anything, any number of times.   *)
(***************************************************************************)
EXTENDS Naturals, Sequences, FiniteSets

CONSTANTS
    Keys,            \* flow keys
    Fragments,       \* fragment keys (source, destination, protocol, identification)
    Sizes,           \* packet lengths
    MaxPerFlow, MaxPackets, MaxBytes,  \* what may wait for an answer
    MaxFlows, MaxFragments,            \* table sizes
    AuthTimeout, RetryDelay, IdleTTL, FragmentTTL,
    AuthBatch,       \* requests sent per scan
    MaxIDs,          \* bound: flows ever made
    MaxOffset        \* bound: fragments per datagram

ASSUME FlowAssumption ==
    /\ Sizes \subseteq Nat \ {0}
    /\ {MaxPerFlow, MaxPackets, MaxFlows, AuthBatch} \subseteq Nat \ {0}
    /\ {AuthTimeout, RetryDelay, IdleTTL, FragmentTTL} \subseteq Nat \ {0}
    /\ {MaxBytes, MaxFragments, MaxIDs, MaxOffset} \subseteq Nat

VARIABLES
    t,       \* the flowTable
    done,    \* closeCh is closed
    wake,    \* authWake
    loop,    \* authLoop: where it is, and the requests it has yet to send
    reader,  \* handleAuthResp: where it is, and the flow the answer names
    asks     \* history: how often each flow was asked for

vars == <<t, done, wake, loop, reader, asks>>

IDs == 1 .. MaxIDs

newFlowTable ==
    [flows |-> <<>>, auth |-> <<>>, fragments |-> <<>>, next |-> 0, pendingPackets |-> 0,
     pendingBytes |-> 0, closed |-> FALSE]

Scanning == [pc |-> "select", batch |-> {}]
Listening == [pc |-> "idle", id |-> 0]

Init ==
    /\ t = newFlowTable /\ done = FALSE /\ wake = FALSE
    /\ loop = Scanning /\ reader = Listening
    /\ asks = [i \in IDs |-> 0]

-----------------------------------------------------------------------------
(* Maps, and the parts the methods of the table share.                       *)

Put(f, x, v)    == [y \in DOMAIN f \cup {x} |-> IF y = x THEN v ELSE f[y]]
Without(f, S)   == [y \in DOMAIN f \ S |-> f[y]]
Forget(tb, fr)  == [tb EXCEPT !.fragments = Without(@, {fr})]
Live(tb, s)     == s.key \in DOMAIN tb.flows /\ tb.flows[s.key].id = s.id

expired(f) == f.left = 0

\* The packets that wait in these flows, each at its place in its queue, and their bytes.
Waiting(tb, S)      == UNION {{k} \X DOMAIN tb.flows[k].pending : k \in S}
WaitingBytes(tb, S) == UNION {{p} \X (1 .. tb.flows[p[1]].pending[p[2]]) : p \in Waiting(tb, S)}
Packets(tb, S)      == Cardinality(Waiting(tb, S))
PacketBytes(tb, S)  == Cardinality(WaitingBytes(tb, S))

\* The packets that wait in these flows are taken out.
releasePendingLocked(tb, S) ==
    [tb EXCEPT !.pendingPackets = @ - Packets(tb, S), !.pendingBytes = @ - PacketBytes(tb, S)]

removeFragmentsLocked(tb, S) ==
    [tb EXCEPT !.fragments =
        Without(@, {fr \in DOMAIN @ : \E k \in S : @[fr].key = k /\ @[fr].id = tb.flows[k].id})]

\* Mutant: what waited in the flow stays on the books.
removeUnreleased(tb, S) ==
    [removeFragmentsLocked(tb, S) EXCEPT
        !.flows = Without(@, S), !.auth = Without(@, {tb.flows[k].id : k \in S})]

removeLocked(tb, S) ==
    [removeFragmentsLocked(releasePendingLocked(tb, S), S) EXCEPT
        !.flows = Without(@, S), !.auth = Without(@, {tb.flows[k].id : k \in S})]

expireFragmentsLocked(tb) ==
    [tb EXCEPT !.fragments = Without(@, {fr \in DOMAIN @ : @[fr].left = 0})]

-----------------------------------------------------------------------------
(* queuePacket.                                                              *)

\* The shared budgets have room for one more packet, and a flow for one of its own.
Budget(tb, n)  == tb.pendingPackets < MaxPackets /\ tb.pendingBytes + n <= MaxBytes
Room(tb, k, n) == Len(tb.flows[k].pending) < MaxPerFlow /\ Budget(tb, n)

newFlow(tb, k) ==
    [tb EXCEPT !.next = @ + 1,
               !.flows = Put(@, k, [id |-> tb.next + 1, state |-> "pending", pending |-> <<>>,
                                    sent |-> FALSE, used |-> FALSE, left |-> AuthTimeout,
                                    age |-> 0]),
               !.auth = Put(@, tb.next + 1, k)]

\* The association of a datagram starts with its first fragment, its deadline is
\* not extended, and its last fragment ends it.
Associate(tb, k, fr, off, more) ==
    IF more THEN [tb EXCEPT !.fragments =
                     Put(@, fr, [key |-> k, id |-> tb.flows[k].id, next |-> off + 1,
                                 left |-> IF off = 0 THEN FragmentTTL ELSE @[fr].left])]
    ELSE IF off # 0 THEN Forget(tb, fr) ELSE tb

\* A packet for the flow at k: rejected, kept until the answer, or passed on.
Admit(tb, k, fr, off, more, n) ==
    CASE tb.flows[k].state = "failed" -> [Forget(tb, fr) EXCEPT !.flows[k].left = IdleTTL]
      [] tb.flows[k].state = "pending" /\ ~Room(tb, k, n) -> Forget(tb, fr)
      [] tb.flows[k].state = "pending" /\ Room(tb, k, n) ->
            Associate([tb EXCEPT !.flows[k].pending = Append(@, n), !.pendingPackets = @ + 1,
                                 !.pendingBytes = @ + n], k, fr, off, more)
      [] tb.flows[k].state = "ready" ->
            Associate([tb EXCEPT !.flows[k].left = IdleTTL], k, fr, off, more)

\* A later fragment follows its datagram; one that has none changes nothing.
QueueTail(tb, fr, off, more, n) ==
    LET s == tb.fragments[fr] IN
    IF fr \notin DOMAIN tb.fragments THEN tb
    ELSE IF \/ s.left = 0 \/ ~Live(tb, s)
            \/ tb.flows[s.key].state = "failed" \/ expired(tb.flows[s.key]) \/ off # s.next
         THEN Forget(tb, fr)
         ELSE Admit(tb, s.key, fr, off, more, n)

\* The flow of a whole packet or a first fragment: an expired one is replaced, if
\* there is room for another.
QueueFlow(tb, k, fr, more, n) ==
    LET kept == IF k \in DOMAIN tb.flows /\ expired(tb.flows[k]) THEN removeLocked(tb, {k}) ELSE tb IN
    IF k \in DOMAIN kept.flows THEN Admit(kept, k, fr, 0, more, n)
    ELSE IF Cardinality(DOMAIN kept.flows) >= MaxFlows \/ ~Budget(kept, n) THEN kept
         ELSE Admit(newFlow(kept, k), k, fr, 0, more, n)

QueueFirst(tb, k, fr, more, n) ==
    LET swept == expireFragmentsLocked(tb) IN
    IF ~more THEN QueueFlow(tb, k, fr, more, n)
    ELSE IF fr \in DOMAIN tb.fragments /\ tb.fragments[fr].left > 0 THEN Forget(tb, fr)
    ELSE IF Cardinality(DOMAIN swept.fragments) >= MaxFragments THEN swept
    ELSE QueueFlow(swept, k, fr, more, n)

queuePacket(k, fr, off, more, n) ==
    t' = IF t.closed THEN t
         ELSE IF off = 0 THEN QueueFirst(t, k, fr, more, n) ELSE QueueTail(t, fr, off, more, n)

\* Send of a packet that passes the resource table: what is kept wakes authLoop,
\* the rest is written or refused.
Send(k, fr, off, more, n) ==
    /\ t.next < MaxIDs \/ off # 0 \/ (k \in DOMAIN t.flows /\ ~expired(t.flows[k]))
    /\ queuePacket(k, fr, off, more, n)
    /\ wake' = (wake \/ \E j \in DOMAIN t'.flows : /\ t'.flows[j].state = "pending"
                                                   /\ j \in DOMAIN t.flows => t'.flows[j] # t.flows[j])
    /\ UNCHANGED <<done, loop, reader, asks>>

\* Send of one that does not: a fragment takes its datagram with it.
rejectFragment(fr) ==
    /\ fr \in DOMAIN t.fragments /\ t' = Forget(t, fr)
    /\ UNCHANGED <<done, wake, loop, reader, asks>>

-----------------------------------------------------------------------------
(* authLoop.                                                                 *)

Due(f) == f.state = "pending" /\ ~f.sent /\ (f.used => f.left <= AuthTimeout)

LoopWake ==
    /\ loop.pc = "select" /\ wake /\ wake' = FALSE
    /\ loop' = [loop EXCEPT !.pc = "dispatch"]
    /\ UNCHANGED <<t, done, reader, asks>>

\* Mutant: the second index is not kept up.
expireKeepsAuth ==
    LET dead == {k \in DOMAIN t.flows : expired(t.flows[k])}
        rest == [releasePendingLocked(t, dead) EXCEPT !.flows = Without(@, dead)]
    IN  t' = [rest EXCEPT !.fragments =
                Without(@, {fr \in DOMAIN @ : @[fr].left = 0 \/ ~Live(rest, @[fr])})]

\* The scan: the expired flows go, then the fragments are swept once.
expire ==
    LET dead == {k \in DOMAIN t.flows : expired(t.flows[k])}
        rest == [releasePendingLocked(t, dead) EXCEPT
                   !.flows = Without(@, dead), !.auth = Without(@, {t.flows[k].id : k \in dead})]
    IN  t' = [rest EXCEPT !.fragments =
                Without(@, {fr \in DOMAIN @ : @[fr].left = 0 \/ ~Live(rest, @[fr])})]

LoopTick ==
    /\ loop.pc = "select"
    /\ expire
    /\ loop' = [loop EXCEPT !.pc = "dispatch"]
    /\ UNCHANGED <<done, wake, reader, asks>>

LoopEnds ==
    /\ loop.pc = "select" /\ done /\ loop' = [loop EXCEPT !.pc = "done"]
    /\ UNCHANGED <<t, done, wake, reader, asks>>

\* pendingAuth visits the flows in any order until the batch is full.
pendingAuth ==
    \E V \in SUBSET DOMAIN t.flows :
        LET kept == removeLocked(t, {k \in V : expired(t.flows[k])})
            S    == {k \in V \cap DOMAIN kept.flows : Due(t.flows[k])}
        IN /\ Cardinality(S) <= AuthBatch
           /\ V = DOMAIN t.flows \/ Cardinality(S) = AuthBatch
           /\ t' = [kept EXCEPT !.flows =
                       [k \in DOMAIN @ |-> IF k \in S THEN [@[k] EXCEPT !.sent = TRUE] ELSE @[k]]]
           /\ loop' = [pc |-> "send", batch |-> {t.flows[k].id : k \in S}]

LoopDispatch ==
    /\ loop.pc = "dispatch" /\ pendingAuth
    /\ UNCHANGED <<done, wake, reader, asks>>

\* sendAuthRequest, one after the other; a write fails on a closed tunnel, or
\* closes it.
LoopSend ==
    /\ loop.pc = "send"
    /\ \/ loop.batch = {} /\ loop' = Scanning /\ UNCHANGED <<done, asks>>
       \/ \E i \in loop.batch :
             /\ ~done /\ asks' = [asks EXCEPT ![i] = @ + 1]
             /\ loop' = [loop EXCEPT !.batch = @ \ {i}] /\ UNCHANGED done
       \/ loop.batch # {} /\ loop' = [pc |-> "done", batch |-> {}] /\ done' = TRUE /\ UNCHANGED asks
    /\ UNCHANGED <<t, wake, reader>>

-----------------------------------------------------------------------------
(* handleAuthResp.  A frame read before the close may be handled after it.   *)

\* The flow an answer is for: one that waits, and for which a request was made.
Awaits(id) ==
    /\ id \in DOMAIN t.auth
    /\ LET f == t.flows[t.auth[id]] IN f.state = "pending" /\ (f.sent \/ f.used)

\* Mutant: a temporary answer that comes too late revives the flow.
retryAuthLate(id) ==
    LET k == t.auth[id] IN
    IF ~Awaits(id) THEN t' = t /\ reader' = [pc |-> "reject", id |-> id]
    ELSE IF t.flows[k].used
    THEN t' = t /\ reader' = IF t.flows[k].sent THEN [pc |-> "reject", id |-> id] ELSE Listening
    ELSE /\ t' = [t EXCEPT !.flows[k].used = TRUE, !.flows[k].sent = FALSE,
                           !.flows[k].left = RetryDelay + AuthTimeout]
         /\ reader' = Listening

\* A temporary failure: ask again later, once.  When that is not to be, the
\* answer counts as a rejection.
retryAuth(id) ==
    LET k == t.auth[id] IN
    IF ~Awaits(id) THEN t' = t /\ reader' = [pc |-> "reject", id |-> id]
    ELSE IF expired(t.flows[k])
    THEN t' = removeLocked(t, {k}) /\ reader' = [pc |-> "reject", id |-> id]
    ELSE IF t.flows[k].used
    THEN t' = t /\ reader' = IF t.flows[k].sent THEN [pc |-> "reject", id |-> id] ELSE Listening
    ELSE /\ t' = [t EXCEPT !.flows[k].used = TRUE, !.flows[k].sent = FALSE,
                           !.flows[k].left = RetryDelay + AuthTimeout]
         /\ reader' = Listening

\* Mutant: an answer may come again.
completeAuthAnyState(id, ok) ==
    LET k == t.auth[id] IN
    IF id \notin DOMAIN t.auth THEN t
    ELSE IF expired(t.flows[k]) THEN removeLocked(t, {k})
    ELSE [(IF ok THEN releasePendingLocked(t, {k})
           ELSE removeFragmentsLocked(releasePendingLocked(t, {k}), {k})) EXCEPT
            !.flows[k].state = IF ok THEN "ready" ELSE "failed", !.flows[k].pending = <<>>,
            !.flows[k].left = IdleTTL, !.flows[k].age = 0]

\* The answer: what waited is released, to be sent or dropped.
completeAuth(id, ok) ==
    LET k == t.auth[id] IN
    IF ~Awaits(id) THEN t
    ELSE IF expired(t.flows[k]) THEN removeLocked(t, {k})
    ELSE [(IF ok THEN releasePendingLocked(t, {k})
           ELSE removeFragmentsLocked(releasePendingLocked(t, {k}), {k})) EXCEPT
            !.flows[k].state = IF ok THEN "ready" ELSE "failed", !.flows[k].pending = <<>>,
            !.flows[k].left = IdleTTL, !.flows[k].age = 0]

AnswerRetry(id) ==
    /\ reader.pc = "idle"
    /\ retryAuth(id)
    /\ UNCHANGED <<done, wake, loop, asks>>

AnswerReject(id) ==
    /\ \/ reader.pc = "idle"
       \/ reader.pc = "reject" /\ reader.id = id
    /\ t' = completeAuth(id, FALSE)
    /\ reader' = Listening
    /\ UNCHANGED <<done, wake, loop, asks>>

AnswerToken(id) ==
    /\ reader.pc = "idle"
    /\ t' = completeAuth(id, TRUE)
    /\ reader' = IF Awaits(id) /\ id \in DOMAIN t'.auth THEN [pc |-> "flush", id |-> id] ELSE Listening
    /\ UNCHANGED <<done, wake, loop, asks>>

\* The released packets are written, batch by batch, or the tunnel is closed.
Flush ==
    /\ reader.pc = "flush" /\ reader' = Listening
    /\ done' \in {done, TRUE}
    /\ UNCHANGED <<t, wake, loop, asks>>

-----------------------------------------------------------------------------
\* close: from any goroutine (heartbeat, a malformed or final answer, the session).
Close ==
    /\ ~done /\ done' = TRUE
    /\ UNCHANGED <<t, wake, loop, reader, asks>>

\* The table is cleared at the end of close.
clear ==
    /\ done /\ ~t.closed
    /\ t' = [newFlowTable EXCEPT !.next = t.next, !.closed = TRUE]
    /\ UNCHANGED <<done, wake, loop, reader, asks>>

\* Time passes (external).
Tick ==
    LET less(x)  == IF x = 0 THEN 0 ELSE x - 1
        later(f) == [f EXCEPT !.left = less(f.left),
                              !.age = IF f.state = "pending" /\ f.left > 0 THEN f.age + 1 ELSE f.age]
        past(s)  == [s EXCEPT !.left = less(s.left)]
    IN  /\ t' = [t EXCEPT !.flows = [k \in DOMAIN @ |-> later(@[k])],
                          !.fragments = [fr \in DOMAIN @ |-> past(@[fr])]]
        /\ UNCHANGED <<done, wake, loop, reader, asks>>

SendAny ==
    \E k \in Keys, fr \in Fragments, off \in 0 .. MaxOffset, more \in BOOLEAN, n \in Sizes :
        (more => off < MaxOffset) /\ Send(k, fr, off, more, n)
AuthLoop == LoopWake \/ LoopTick \/ LoopEnds \/ LoopDispatch \/ LoopSend
Answers  == \E id \in IDs : AnswerRetry(id) \/ AnswerReject(id) \/ AnswerToken(id)

Next == SendAny \/ (\E fr \in Fragments : rejectFragment(fr)) \/ AuthLoop \/ Answers \/ Flush
        \/ Close \/ clear \/ Tick

Spec == Init /\ [][Next]_vars

-----------------------------------------------------------------------------
(* Properties.                                                               *)

\* The books are right: the shared counters are what the flows hold, within the
\* budgets and the limits of the table; only a flow that waits for its answer
\* holds anything, so no packet is stranded when the answer comes between looking
\* at a flow and queueing on it; and after close nothing is held, whatever was
\* under way.
Reckoned(tb) ==
    /\ tb.pendingPackets = Packets(tb, DOMAIN tb.flows)
    /\ tb.pendingBytes = PacketBytes(tb, DOMAIN tb.flows)
    /\ tb.pendingPackets <= MaxPackets /\ tb.pendingBytes <= MaxBytes
    /\ Cardinality(DOMAIN tb.flows) <= MaxFlows /\ Cardinality(DOMAIN tb.fragments) <= MaxFragments
    /\ tb.closed => tb.flows = <<>> /\ tb.auth = <<>> /\ tb.fragments = <<>> /\ tb.pendingPackets = 0
Held(tb) == \A k \in DOMAIN tb.flows : (tb.flows[k].pending # <<>>) <=> (tb.flows[k].state = "pending")
BooksBalance == Reckoned(t) /\ Held(t)

\* A flow is found by key and by authorisation id alike, and a fragment finds only
\* the flow its first fragment made: its association is gone with the flow, also
\* when a new flow has the same key by then, and with the flow's rejection.
Indexed(tb) ==
    /\ \A k \in DOMAIN tb.flows : tb.flows[k].id \in DOMAIN tb.auth /\ tb.auth[tb.flows[k].id] = k
    /\ \A i \in DOMAIN tb.auth : tb.auth[i] \in DOMAIN tb.flows /\ tb.flows[tb.auth[i]].id = i
    /\ \A fr \in DOMAIN tb.fragments :
          Live(tb, tb.fragments[fr]) /\ tb.flows[tb.fragments[fr].key].state # "failed"
IndexesAgree == Indexed(t)

\* A flow waits for the answer no longer than both timeouts and the delay, 26 s in
\* all (age is how long it has waited, left what it may still), and is asked for
\* once, and once more after a temporary failure, however many answers come, late
\* or twice.
WaitIsBounded ==
    /\ \A k \in DOMAIN t.flows : t.flows[k].state = "pending" =>
          t.flows[k].age + t.flows[k].left < RetryDelay + 2 * AuthTimeout
    /\ \A i \in IDs : asks[i] <= 2

\* The inductive form of these, for any table the methods work on: the maps hold what they
\* should, ids are given once, and what may still be waited depends on whether the second
\* request was used up ...
Flow  == [id : Nat \ {0}, state : {"pending", "ready", "failed"}, pending : Seq(Sizes),
          sent : BOOLEAN, used : BOOLEAN, left : Nat, age : Nat]
Entry == [key : Keys, id : Nat \ {0}, next : Nat, left : Nat]
IsTable(tb) ==
    tb = [flows |-> tb.flows, auth |-> tb.auth, fragments |-> tb.fragments, next |-> tb.next,
          pendingPackets |-> tb.pendingPackets, pendingBytes |-> tb.pendingBytes, closed |-> tb.closed]
TypeTable(tb) ==
    /\ IsTable(tb)
    /\ DOMAIN tb.flows \subseteq Keys /\ tb.flows \in [DOMAIN tb.flows -> Flow]
    /\ tb.auth \in [DOMAIN tb.auth -> Keys]
    /\ tb.fragments \in [DOMAIN tb.fragments -> Entry]
    /\ tb.next \in Nat
Waits(f) ==
    f.state = "pending" => f.age + f.left < AuthTimeout + (IF f.used THEN RetryDelay + AuthTimeout ELSE 1)
TableInv(tb) ==
    /\ TypeTable(tb) /\ Indexed(tb)
    /\ \A k \in DOMAIN tb.flows : tb.flows[k].id <= tb.next /\ Waits(tb.flows[k])

\* ... and a request that was sent, or is about to be, was made by the scan that marked
\* the flow as asked for.
Rounds   == [pc : {"select", "dispatch", "send", "done"}, batch : SUBSET IDs]
Once(b)  == IF b THEN 1 ELSE 0
AskedFor(a, b, i) == a[i] + Once(i \in b)
AsksInv ==
    /\ loop \in Rounds /\ (loop.pc # "send" => loop.batch = {})
    /\ t.next <= MaxIDs
    /\ asks \in [IDs -> Nat]
    /\ \A i \in IDs : AskedFor(asks, loop.batch, i) <= IF i <= t.next THEN 2 ELSE 0
    /\ \A k \in DOMAIN t.flows : LET f == t.flows[k] IN
          f.state = "pending" => AskedFor(asks, loop.batch, f.id) <= Once(f.sent) + Once(f.used)
FlowInv == TableInv(t) /\ AsksInv

\* The books of any table, in their inductive form.
BooksInv(tb) ==
    /\ IsFiniteSet(DOMAIN tb.flows) /\ IsFiniteSet(DOMAIN tb.fragments)
    /\ Reckoned(tb) /\ Held(tb)

\* An answer is final: a late or repeated one changes nothing about a flow.
AnswerIsFinal ==
    [][\A k \in DOMAIN t.flows \cap DOMAIN t'.flows :
          t'.flows[k].id = t.flows[k].id /\ t.flows[k].state # "pending" =>
              t'.flows[k].state = t.flows[k].state]_vars
=============================================================================
