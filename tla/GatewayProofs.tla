--------------------------- MODULE GatewayProofs ---------------------------
(* Proofs about a data connection, first alone - for every set of tables,   *)
(* automation, segmentation of the replies and schedule of the event loop -  *)
(* and then over links that come and go, for every server.                   *)
EXTENDS Gateway, FiniteSetTheorems, FunctionTheorems, SequenceTheorems, TLAPS

-----------------------------------------------------------------------------
(* The data protocol alone: the variables of DataProtocol and its Spec.     *)

(* A reply met a timeout in one pass: only a reply sets EV_READ, and it     *)
(* resets state; a query written afterwards withdraws the timeout.          *)
MixedOnlyIdle == res = Flags => state = "IDLE"

(* The inductive invariant. *)
IInv ==
    /\ TypeOK
    /\ MixedOnlyIdle
    /\ WaitHasWakeUp
    /\ NoStaleTimer
    /\ StallExplained

-----------------------------------------------------------------------------
(* The queue of requests, taken at its head.                               *)
LEMMA HeadTail ==
    ASSUME NEW S, NEW q \in Seq(S), q # <<>>
    PROVE  Head(q) \in S /\ Tail(q) \in Seq(S)
BY HeadTailProperties

(* Initially nothing is asked, queued or armed. *)
LEMMA InitIInv == Init => IInv
<1> SUFFICES ASSUME Init PROVE IInv
    OBVIOUS
<1>1. <<>> \in Seq(Request) /\ <<>> \in Seq(Line)
    BY EmptySeq
<1>2. TypeOK
    BY <1>1 DEF Init, TypeOK
<1>3. MixedOnlyIdle /\ WaitHasWakeUp /\ NoStaleTimer /\ StallExplained
    BY DEF Init, MixedOnlyIdle, WaitHasWakeUp, NoStaleTimer, StallExplained, Flags
<1>4. QED BY <1>2, <1>3 DEF IInv

(* Sending, enqueuing, and the automation that writes several requests.    *)
LEMMA WriteNextIInv == IInv /\ WriteNext => IInv'
<1> SUFFICES ASSUME IInv, WriteNext PROVE IInv'
    OBVIOUS
<1> DEFINE r == Head(todo)
<1>1. r \in Request /\ todo' \in Seq(Request)
    BY HeadTail DEF IInv, TypeOK, WriteNext
<1>2. CASE state = "IDLE" /\ r \in Name
    <2>1. /\ state' = "WAIT_FOR_RESPONSE"
          /\ last_req_tbl_name' = r
          /\ timer' = "pending"
          /\ res' = IF "EV_TIMEOUT" \in res THEN {} ELSE res
          /\ stall' = "none"
          /\ UNCHANGED <<outstanding_requests, ready, lines, check>>
        BY <1>2, SentinelAssumption DEF WriteNext, Write, Transfer, EventAdd
    <2>2. TypeOK'
        BY <1>1, <1>2, <2>1 DEF IInv, TypeOK
    <2>3. MixedOnlyIdle' /\ WaitHasWakeUp'
        BY <2>1 DEF IInv, MixedOnlyIdle, WaitHasWakeUp, WakeUp, Flags
    <2>4. QED BY <2>1, <2>2, <2>3 DEF IInv, NoStaleTimer, StallExplained
<1>3. CASE state = "IDLE" /\ r = Plain
    <2>1. UNCHANGED <<protocol, event, ready, lines, check>>
        BY <1>3, SentinelAssumption
        DEF WriteNext, Write, Transfer, event, protocol
    <2>2. QED
        BY <1>1, <2>1 DEF IInv, TypeOK, MixedOnlyIdle, WaitHasWakeUp, WakeUp, Accepted,
            NoStaleTimer, StallExplained, protocol, event
<1>4. CASE state = "WAIT_FOR_RESPONSE"
    <2>1. /\ outstanding_requests' = Append(outstanding_requests, r)
          /\ UNCHANGED <<state, last_req_tbl_name, stall, event, ready, lines, check>>
        BY <1>4 DEF WriteNext, Write
    <2>2. outstanding_requests' \in Seq(Request)
        BY <1>1, <2>1, AppendProperties DEF IInv, TypeOK
    <2>3. QED
        BY <1>1, <1>4, <2>1, <2>2 DEF IInv, TypeOK, MixedOnlyIdle, WaitHasWakeUp, WakeUp,
            Accepted, NoStaleTimer, StallExplained, event
<1>5. QED BY <1>1, <1>2, <1>3, <1>4 DEF IInv, TypeOK, Request

(* The end of a line: the reply resets the connection and wakes the queue. *)
LEMMA FinishLineIInv == IInv /\ FinishLine => IInv'
<1> SUFFICES ASSUME IInv, FinishLine PROVE IInv'
    OBVIOUS
<1>1. CASE state = "WAIT_FOR_RESPONSE" /\ Matches(check)
    <2>1. /\ state' = "IDLE" /\ check' = NoLine
          /\ res' = res \cup {"EV_READ"} /\ timer' = timer
          /\ UNCHANGED <<outstanding_requests, last_req_tbl_name, stall, ready, lines, todo>>
        BY <1>1 DEF FinishLine, EventActive
    <2>2. TypeOK'
        BY <2>1 DEF IInv, TypeOK, Flags
    <2>3. QED
        BY <2>1, <2>2 DEF IInv, MixedOnlyIdle, WaitHasWakeUp, NoStaleTimer, StallExplained
<1>2. CASE ~(state = "WAIT_FOR_RESPONSE" /\ Matches(check))
    <2>1. UNCHANGED <<protocol, event, ready, lines, todo>> /\ check' = NoLine
        BY <1>2 DEF FinishLine, protocol, event
    <2>2. QED
        BY <2>1 DEF IInv, TypeOK, MixedOnlyIdle, WaitHasWakeUp, WakeUp, Accepted,
            NoStaleTimer, StallExplained, protocol, event
<1>3. QED BY <1>1, <1>2

(* idle_event_cb, by the type it is called with and the queue it finds.    *)
LEMMA IdleEventCbIInv == IInv /\ IdleEventCb => IInv'
<1> SUFFICES ASSUME IInv, IdleEventCb PROVE IInv'
    OBVIOUS
<1>1. CASE IdleIgnored
    <2>1. res = Flags
        BY <1>1 DEF IdleIgnored, RunIdle, Accepted, Flags, IInv, TypeOK
    <2>2. state = "IDLE" /\ state' = "IDLE"
        BY <1>1, <2>1 DEF IInv, MixedOnlyIdle, IdleIgnored
    <2>3. TypeOK'
        BY <1>1 DEF IInv, TypeOK, IdleIgnored, RunIdle, callback
    <2>4. QED
        BY <1>1, <2>2, <2>3 DEF IInv, MixedOnlyIdle, WaitHasWakeUp, NoStaleTimer,
            StallExplained, IdleIgnored, Flags
<1>2. CASE IdleNothingQueued
    BY <1>2 DEF IInv, TypeOK, MixedOnlyIdle, WaitHasWakeUp, NoStaleTimer, StallExplained,
        IdleNothingQueued, RunIdle, callback, Flags
<1>3. CASE IdleSendsNext
    <2> DEFINE r == Head(outstanding_requests)
               rest == Tail(outstanding_requests)
    <2>1. r \in Request /\ rest \in Seq(Request)
        BY <1>3, HeadTail DEF IInv, TypeOK, IdleSendsNext
    <2>2. /\ outstanding_requests' = rest
          /\ stall' = IF r = Plain /\ rest # <<>> THEN "plain" ELSE "none"
          /\ res' = {}
          /\ UNCHANGED <<ready, lines, check, todo>>
        BY <1>3 DEF IdleSendsNext, RunIdle, callback
    <2>3. CASE r \in Name
        <3>1. /\ state' = "WAIT_FOR_RESPONSE" /\ last_req_tbl_name' = r
              /\ timer' = "pending"
            BY <1>3, <2>3, SentinelAssumption DEF IdleSendsNext
        <3>2. TypeOK'
            BY <2>1, <2>2, <2>3, <3>1 DEF IInv, TypeOK
        <3>3. QED
            BY <2>2, <3>1, <3>2 DEF IInv, MixedOnlyIdle, WaitHasWakeUp, WakeUp,
                NoStaleTimer, StallExplained, Flags
    <2>4. CASE r = Plain
        <3>1. /\ state' = "IDLE" /\ timer' = "off"
              /\ UNCHANGED last_req_tbl_name
            BY <1>3, <2>4, SentinelAssumption DEF IdleSendsNext
        <3>2. TypeOK'
            BY <2>1, <2>2, <3>1 DEF IInv, TypeOK
        <3>3. QED
            BY <2>2, <2>4, <3>1, <3>2 DEF IInv, MixedOnlyIdle, WaitHasWakeUp,
                NoStaleTimer, StallExplained, Flags
    <2>5. QED BY <2>1, <2>3, <2>4 DEF Request
<1>4. QED BY <1>1, <1>2, <1>3 DEF IdleEventCb

(* Every step keeps the inductive invariant. *)
LEMMA NextIInv == IInv /\ [Next]_vars => IInv'
<1> SUFFICES ASSUME IInv, [Next]_vars PROVE IInv'
    OBVIOUS
<1> USE DEF IInv
<1>1. CASE TimeElapses
    BY <1>1 DEF TimeElapses, TypeOK, MixedOnlyIdle, WaitHasWakeUp, WakeUp, Accepted,
        NoStaleTimer, StallExplained, protocol, callback
<1>2. CASE Poll
    <2>1. TypeOK'
        BY <1>2 DEF Poll, TypeOK, callback, Flags
    <2>2. MixedOnlyIdle' /\ WaitHasWakeUp'
        BY <1>2 DEF Poll, MixedOnlyIdle, WaitHasWakeUp, WakeUp, Accepted, Flags
    <2>3. NoStaleTimer' /\ StallExplained'
        BY <1>2 DEF Poll, NoStaleTimer, StallExplained
    <2>4. QED BY <2>1, <2>2, <2>3
<1>3. CASE RunRead
    BY <1>3, EnvironmentAssumption DEF RunRead, TypeOK, MixedOnlyIdle, WaitHasWakeUp, WakeUp,
        Accepted, NoStaleTimer, StallExplained, protocol, event
<1>4. CASE RunIssue
    BY <1>4, EnvironmentAssumption DEF RunIssue, TypeOK, MixedOnlyIdle, WaitHasWakeUp, WakeUp,
        Accepted, NoStaleTimer, StallExplained, protocol, event
<1>5. CASE WriteNext
    BY <1>5, WriteNextIInv
<1>6. CASE ProcessLine
    <2>1. Head(lines) \in Line /\ lines' \in Seq(Line)
        BY <1>6, HeadTail DEF ProcessLine, TypeOK
    <2>2. check' \in Line \cup {NoLine} /\ todo' \in Seq(Request)
        BY <1>6, <2>1, EnvironmentAssumption DEF ProcessLine, TypeOK, Line
    <2>3. UNCHANGED <<protocol, event, ready>>
        BY <1>6 DEF ProcessLine
    <2>4. QED
        BY <2>1, <2>2, <2>3 DEF TypeOK, MixedOnlyIdle, WaitHasWakeUp, WakeUp, Accepted,
            NoStaleTimer, StallExplained, protocol, event
<1>7. CASE FinishLine
    BY <1>7, FinishLineIInv
<1>8. CASE IdleEventCb
    BY <1>8, IdleEventCbIInv
<1>9. CASE UNCHANGED vars
    BY <1>9 DEF TypeOK, MixedOnlyIdle, WaitHasWakeUp, WakeUp, Accepted, NoStaleTimer,
        StallExplained, vars, protocol, event, callback
<1>10. QED
    BY <1>1, <1>2, <1>3, <1>4, <1>5, <1>6, <1>7, <1>8, <1>9 DEF Next, RunCallback

(* The inductive invariant holds in every reachable state. *)
THEOREM Invariance == Spec => []IInv
BY InitIInv, NextIInv, PTL DEF Spec

-----------------------------------------------------------------------------
(* The state is well typed and strcmp is never given a NULL name.           *)
THEOREM TypeCorrect == Spec => []TypeOK
<1>1. IInv => TypeOK
    BY DEF IInv
<1>2. QED BY <1>1, Invariance, PTL

(* A connection that waits is never left without the timer or an           *)
(* idle_event_cb whose type it accepts, in any interleaving of replies,     *)
(* timeouts and queries.                                                    *)
THEOREM WaitAlwaysWakes == Spec => []WaitHasWakeUp
<1>1. IInv => WaitHasWakeUp
    BY DEF IInv
<1>2. QED BY <1>1, Invariance, PTL

(* The timer armed for an answered query never runs out on a later one.     *)
THEOREM TimersAreFresh == Spec => []NoStaleTimer
<1>1. IInv => NoStaleTimer
    BY DEF IInv
<1>2. QED BY <1>1, Invariance, PTL

(* The two causes of a stalled queue are the only ones.                     *)
THEOREM StallCauses == Spec => []StallExplained
<1>1. IInv => StallExplained
    BY DEF IInv
<1>2. QED BY <1>1, Invariance, PTL

-----------------------------------------------------------------------------
(* How many complete tables a sequence of lines holds *)

(* The positions Ends counts. *)
EndsAt(s) == {i \in 1 .. Len(s) : s[i].complete}

LEMMA EndsType ==
    ASSUME NEW s \in Seq(Line)
    PROVE  /\ IsFiniteSet(EndsAt(s))
           /\ Ends(s) = Cardinality(EndsAt(s))
           /\ Ends(s) \in Nat
<1>1. IsFiniteSet(1 .. Len(s))
    BY FS_Interval
<1>2. IsFiniteSet(EndsAt(s))
    BY <1>1, FS_Subset DEF EndsAt
<1>3. Ends(s) = Cardinality(EndsAt(s))
    BY DEF Ends, EndsAt
<1>4. QED BY <1>2, <1>3, FS_CardinalityType

LEMMA EndsEmpty == Ends(<<>>) = 0
<1>1. EndsAt(<<>>) = {}
    BY DEF EndsAt
<1>2. QED BY <1>1, FS_EmptySet DEF Ends, EndsAt

(* Complete lines of a concatenation. *)
LEMMA EndsConcat ==
    ASSUME NEW s \in Seq(Line), NEW t \in Seq(Line)
    PROVE  Ends(s \o t) = Ends(s) + Ends(t)
<1> DEFINE K == {i \in Len(s) + 1 .. Len(s) + Len(t) : t[i - Len(s)].complete}
           f == [j \in EndsAt(t) |-> j + Len(s)]
<1>1. /\ s \o t \in Seq(Line)
      /\ Len(s \o t) = Len(s) + Len(t)
      /\ \A i \in 1 .. Len(s) + Len(t) :
            (s \o t)[i] = IF i <= Len(s) THEN s[i] ELSE t[i - Len(s)]
    BY ConcatProperties
<1>2. Len(s) \in Nat /\ Len(t) \in Nat
    BY LenProperties
<1>3. EndsAt(s \o t) = EndsAt(s) \cup K
    BY <1>1, <1>2 DEF EndsAt
<1>4. EndsAt(s) \cap K = {}
    BY <1>2 DEF EndsAt
<1>5. f \in Bijection(EndsAt(t), K)
    <2>1. f \in [EndsAt(t) -> K]
        BY <1>2 DEF EndsAt
    <2>2. \A i, j \in EndsAt(t) : f[i] = f[j] => i = j
        BY <1>2 DEF EndsAt
    <2>3. \A k \in K : \E j \in EndsAt(t) : f[j] = k
        <3> TAKE k \in K
        <3>1. k - Len(s) \in EndsAt(t) /\ k = (k - Len(s)) + Len(s)
            BY <1>2 DEF EndsAt
        <3>2. f[k - Len(s)] = k
            BY <3>1
        <3>3. QED BY <3>1, <3>2
    <2>4. QED BY <2>1, <2>2, <2>3, Fun_IsBij
<1>6. IsFiniteSet(K) /\ Cardinality(K) = Cardinality(EndsAt(t))
    BY <1>5, EndsType, FS_Bijection, Fun_ExistsBij
<1>7. Cardinality(EndsAt(s \o t)) = Cardinality(EndsAt(s)) + Cardinality(K)
    <2>1. Cardinality(EndsAt(s) \cup K)
            = Cardinality(EndsAt(s)) + Cardinality(K) - Cardinality({})
        BY <1>4, <1>6, EndsType, FS_Union
    <2>2. Cardinality(EndsAt(s)) \in Nat /\ Cardinality(K) \in Nat
        BY <1>6, EndsType, FS_CardinalityType
    <2>3. QED BY <1>3, <2>1, <2>2, FS_EmptySet
<1>8. QED BY <1>1, <1>6, <1>7, EndsType

(* Taking the first line. *)
LEMMA EndsTail ==
    ASSUME NEW s \in Seq(Line), s # <<>>
    PROVE  Ends(s) = (IF Head(s).complete THEN 1 ELSE 0) + Ends(Tail(s))
<1> DEFINE h == <<Head(s)>>
<1>1. Head(s) \in Line /\ Tail(s) \in Seq(Line)
    BY HeadTailProperties
<1>2. h \in Seq(Line) /\ s = h \o Tail(s)
    BY <1>1
<1>3. Ends(s) = Ends(h) + Ends(Tail(s))
    BY <1>1, <1>2, EndsConcat
<1>4. EndsAt(h) = IF Head(s).complete THEN {1} ELSE {}
    BY DEF EndsAt
<1>5. Ends(h) = IF Head(s).complete THEN 1 ELSE 0
    BY <1>2, <1>4, EndsType, FS_EmptySet, FS_Singleton
<1>6. QED BY <1>3, <1>5

(* Reading some lines, leaving the others. *)
LEMMA EndsSplit ==
    ASSUME NEW s \in Seq(Line), NEW n \in 0 .. Len(s)
    PROVE  /\ SubSeq(s, 1, n) \in Seq(Line)
           /\ SubSeq(s, n + 1, Len(s)) \in Seq(Line)
           /\ Ends(s) = Ends(SubSeq(s, 1, n)) + Ends(SubSeq(s, n + 1, Len(s)))
<1>1. Len(s) \in Nat /\ \A i \in 1 .. Len(s) : s[i] \in Line
    BY LenProperties
<1>2. SubSeq(s, 1, n) \in Seq(Line)
    BY <1>1, SubSeqProperties
<1>3. SubSeq(s, n + 1, Len(s)) \in Seq(Line)
    BY <1>1, SubSeqProperties
<1>4. SubSeq(s, 1, n) \o SubSeq(s, n + 1, Len(s)) = SubSeq(s, 1, Len(s))
    <2>1. 1 \in 1 .. Len(s) + 1 /\ n \in 1 - 1 .. Len(s) /\ Len(s) \in n .. Len(s)
        BY <1>1
    <2>2. QED BY <2>1, ConcatAdjacentSubSeq
<1>5. s = SubSeq(s, 1, n) \o SubSeq(s, n + 1, Len(s))
    BY <1>4, SubSeqFull
<1>6. QED BY <1>2, <1>3, <1>5, EndsConcat

-----------------------------------------------------------------------------
(* The system and the protocol *)

(* Every step of the system is a step of the protocol, or none of it.      *)
LEMMA StepIsProtocolStep == SystemNext => [Next]_vars
<1> SUFFICES ASSUME SystemNext PROVE [Next]_vars
    OBVIOUS
<1>1. CASE Gone
    BY <1>1 DEF Gone, system
<1>2. CASE Running
    <2>1. CASE Protocol
        BY <2>1 DEF Protocol, Send, Idle, Receive, Store, Finish, Command, Connected,
            Next, RunCallback
    <2>2. CASE Time \/ PollLink
        BY <2>2 DEF Time, PollLink, Next
    <2>3. CASE Flush \/ Break \/ Reconnect \/ Kill \/ Answer \/ Push
        BY <2>3 DEF Flush, Break, Reconnect, Kill, Answer, Push
    <2>4. QED BY <1>2, <2>1, <2>2, <2>3 DEF Running
<1>3. QED BY <1>1, <1>2 DEF SystemNext

(* What was proved of the protocol on its own holds of it in the system,   *)
(* over links that break and servers that answer late, twice or never: the  *)
(* system implements the protocol.                                          *)
THEOREM SystemIsProtocol == System => Init /\ [][Next]_vars
<1>1. SystemInit => Init
    BY DEF SystemInit
<1>2. [SystemNext]_system => [Next]_vars
    BY StepIsProtocolStep DEF system
<1>3. QED BY <1>1, <1>2, PTL DEF System

(* The link of the system, by itself. *)
Link == INSTANCE DataLink

(* It is a link in the sense of DataLink, which SocketConnection is, too:   *)
(* the system assumes of a connection no more than is proved of it.         *)
THEOREM SystemUsesDataLink == System => Link!Spec
<1>1. SystemInit => Link!Init
    BY DEF SystemInit, Link!Init
<1>2. [SystemNext]_system => [Link!Next]_link
    <2> SUFFICES ASSUME [SystemNext]_system PROVE [Link!Next]_link
        OBVIOUS
    <2> USE DEF Link!Next, Link!Connect, Link!Fail, Link!Retry, Link!End
    <2>1. CASE Connected
        BY <2>1 DEF Connected
    <2>2. CASE Break
        BY <2>2 DEF Break
    <2>3. CASE Reconnect
        BY <2>3 DEF Reconnect
    <2>4. CASE Kill
        BY <2>4 DEF Kill
    <2>5. CASE Time \/ PollLink \/ Flush \/ Answer \/ Push
        BY <2>5 DEF Time, PollLink, Flush, Answer, Push, transport
    <2>6. CASE Send \/ Idle \/ Receive \/ Store \/ Finish \/ Command
        BY <2>6 DEF Send, Idle, Receive, Store, Finish, Command, transport
    <2>7. CASE Gone \/ UNCHANGED system
        BY <2>7 DEF Gone, system, transport
    <2>8. QED BY <2>1, <2>2, <2>3, <2>4, <2>5, <2>6, <2>7 DEF SystemNext, Running, Protocol
<1>3. QED BY <1>1, <1>2, PTL DEF System, Link!Spec

(* The wait of a request never depends on the link or on the server.       *)
THEOREM SystemWaitWakes == System => [](WaitHasWakeUp /\ NoStaleTimer /\ StallExplained)
<1>1. IInv => WaitHasWakeUp /\ NoStaleTimer /\ StallExplained
    BY DEF IInv
<1>2. QED BY <1>1, InitIInv, NextIInv, SystemIsProtocol, PTL

-----------------------------------------------------------------------------
(* One query at a time *)

(* The inductive invariant: an IDLE connection has nothing in flight.      *)
Discipline ==
    excuse = {} => /\ InFlight <= 1
                   /\ state = "IDLE" => InFlight = 0

SInv == IInv /\ LinkTypeOK /\ Discipline

InFlightTypeOK ==
    /\ Len(output) \in Nat /\ Len(asked) \in Nat
    /\ Ends(wire) \in Nat /\ Ends(lines) \in Nat
    /\ InFlight \in Nat

LEMMA InFlightType == TypeOK /\ LinkTypeOK => InFlightTypeOK
<1> SUFFICES ASSUME TypeOK, LinkTypeOK PROVE InFlightTypeOK
    OBVIOUS
<1>1. Len(output) \in Nat /\ Len(asked) \in Nat
    BY LenProperties DEF LinkTypeOK
<1>2. Ends(wire) \in Nat /\ Ends(lines) \in Nat
    BY EndsType DEF LinkTypeOK, TypeOK
<1>3. QED BY <1>1, <1>2 DEF InFlight, InFlightTypeOK

LEMMA InFlightTypeNext == TypeOK' /\ LinkTypeOK' => InFlightTypeOK'
BY InFlightType, PTL

(* One more than something is two or more. *)
LEMMA TwoOrMore == \A m, n \in Nat : m = n + 1 /\ n # 0 => ~(m <= 1)
OBVIOUS

(* Less at each place is less in flight. *)
LEMMA LessInFlight ==
    ASSUME InFlightTypeOK, check' = check, lines' = lines,
           Len(output') \in Nat, Len(asked') \in Nat, Ends(wire') \in Nat,
           Len(output') + Len(asked') + Ends(wire') <= Len(output) + Len(asked) + Ends(wire)
    PROVE  InFlight' <= InFlight
<1> DEFINE c == IF check = NoLine THEN 0 ELSE 1
           n == Len(output) + Len(asked) + Ends(wire)
           m == Len(output') + Len(asked') + Ends(wire')
<1>1. InFlight = n + Ends(lines) + c
    BY DEF InFlight
<1>2. InFlight' = m + Ends(lines) + c
    BY DEF InFlight
<1>3. c \in Nat /\ n \in Nat /\ m \in Nat /\ m <= n /\ Ends(lines) \in Nat
    BY DEF InFlightTypeOK
<1> HIDE DEF c, n, m
<1>4. QED BY <1>1, <1>2, <1>3

(* A step that puts nothing in flight, leaves the protocol's state and      *)
(* forgets no excuse while something is.                                    *)
LEMMA CalmStep ==
    ASSUME Discipline, InFlight \in Nat, InFlight' \in Nat,
           InFlight' <= InFlight, state' = state,
           excuse' = excuse \/ Excuse({})
    PROVE  Discipline'
BY DEF Discipline, Excuse

LEMMA SystemInitSInv == SystemInit => SInv
<1> SUFFICES ASSUME SystemInit PROVE SInv
    OBVIOUS
<1>1. IInv
    BY InitIInv DEF SystemInit
<1>2. LinkTypeOK
    BY DEF SystemInit, LinkTypeOK
<1>3. InFlight = 0
    BY EndsEmpty DEF SystemInit, Init, InFlight
<1>4. QED BY <1>1, <1>2, <1>3 DEF SInv, Discipline

-----------------------------------------------------------------------------
(* What the protocol sends, one action at a time *)

(* A request in the output buffer. *)
LEMMA BufferType ==
    ASSUME NEW r \in Request, output \in Seq(Name), Buffer(r)
    PROVE  /\ output' \in Seq(Name)
           /\ r \in Name => Len(output') = Len(output) + 1
           /\ r \notin Name => output' = output
BY AppendProperties DEF Buffer

LEMMA SendSInv ==
    ASSUME SInv, IInv', Send
    PROVE  LinkTypeOK' /\ Discipline'
<1> DEFINE r == Head(todo)
<1>1. r \in Request
    BY HeadTail DEF SInv, IInv, TypeOK, Send, WriteNext
<1>2. /\ output \in Seq(Name)
      /\ UNCHANGED <<link, asked, wire, fresh, lines, check>>
      /\ Excuse({})
    BY DEF Send, WriteNext, SInv, LinkTypeOK
<1>3. output' \in Seq(Name)
    BY <1>1, <1>2, BufferType DEF Send
<1>4. LinkTypeOK'
    BY <1>2, <1>3 DEF SInv, LinkTypeOK, Excuse
<1>5. InFlight \in Nat /\ InFlight' \in Nat
    BY <1>4, InFlightType, InFlightTypeNext DEF SInv, IInv, InFlightTypeOK
<1>6. CASE state = "IDLE" /\ r \in Name
    <2>1. state' = "WAIT_FOR_RESPONSE"
        BY <1>6, SentinelAssumption DEF Send, WriteNext, Write, Transfer
    <2>2. InFlight' = InFlight + 1
        <3>1. Len(output') = Len(output) + 1
            BY <1>1, <1>2, <1>6, BufferType DEF Send
        <3>2. /\ Len(asked') = Len(asked) /\ Ends(wire') = Ends(wire) /\ Ends(lines') = Ends(lines)
              /\ check' = check
            BY <1>2
        <3>3. InFlightTypeOK
            BY InFlightType DEF SInv, IInv
        <3>4. QED BY <3>1, <3>2, <3>3 DEF InFlight, InFlightTypeOK
    <2>3. excuse' = {} => InFlight = 0
        BY <1>2, <1>5, <1>6, <2>2 DEF Discipline, SInv, Excuse
    <2>4. QED BY <1>4, <1>5, <2>1, <2>2, <2>3 DEF Discipline
<1>7. CASE state = "IDLE" /\ r = Plain
    <2>1. state' = state
        BY <1>7, SentinelAssumption DEF Send, WriteNext, Write, Transfer
    <2>2. InFlight' = InFlight
        BY <1>1, <1>2, <1>7, BufferType, SentinelAssumption DEF Send, InFlight
    <2>3. QED BY <1>2, <1>4, <1>5, <2>1, <2>2, CalmStep DEF SInv
<1>8. CASE state # "IDLE"
    <2>1. state' = state /\ output' = output
        BY <1>8 DEF Send, WriteNext, Write
    <2>2. InFlight' = InFlight
        BY <1>2, <2>1 DEF InFlight
    <2>3. QED BY <1>2, <1>4, <1>5, <2>1, <2>2, CalmStep DEF SInv
<1>9. QED BY <1>1, <1>4, <1>6, <1>7, <1>8 DEF Request

LEMMA IdleSInv ==
    ASSUME SInv, IInv', Idle
    PROVE  LinkTypeOK' /\ Discipline'
<1> DEFINE r == Head(outstanding_requests)
<1>1. /\ output \in Seq(Name)
      /\ UNCHANGED <<link, asked, wire, fresh, lines, check>>
      /\ Excuse(LetsPass)
      /\ res # {} /\ res \subseteq Flags
    BY DEF Idle, IdleEventCb, IdleIgnored, IdleNothingQueued, IdleSendsNext, RunIdle,
        SInv, IInv, TypeOK, LinkTypeOK, callback
<1>2. outstanding_requests # <<>> => r \in Request
    BY HeadTail DEF SInv, IInv, TypeOK
<1>3. output' \in Seq(Name)
    BY <1>1, <1>2, BufferType DEF Idle
<1>4. LinkTypeOK'
    BY <1>1, <1>3 DEF SInv, LinkTypeOK, Excuse, LetsPass
<1>5. InFlight \in Nat /\ InFlight' \in Nat
    BY <1>4, InFlightType, InFlightTypeNext DEF SInv, IInv, InFlightTypeOK
<1>6. SUFFICES ASSUME excuse' = {}, InFlight' # 0 PROVE Discipline'
    BY <1>4 DEF Discipline
<1>7. excuse = {} /\ LetsPass = {}
    BY <1>1, <1>6 DEF Excuse
<1>8. res = {"EV_READ"} /\ state = "IDLE"
    BY <1>1, <1>7 DEF LetsPass, Flags, SInv, IInv, TypeOK
<1>9. InFlight = 0 /\ Accepted
    BY <1>7, <1>8 DEF SInv, Discipline, Accepted, Flags
<1>10. CASE outstanding_requests # <<>> /\ r \in Name
    <2>1. state' = "WAIT_FOR_RESPONSE"
        BY <1>9, <1>10, SentinelAssumption
        DEF Idle, IdleEventCb, IdleIgnored, IdleNothingQueued, IdleSendsNext
    <2>2. Len(output') = Len(output) + 1
        <3>1. Buffer(r)
            BY <1>9, <1>10 DEF Idle
        <3>2. QED BY <1>1, <1>2, <1>10, <3>1, BufferType
    <2>3. InFlight' = InFlight + 1
        BY <1>1, <2>2, InFlightType DEF InFlight, SInv, IInv, InFlightTypeOK
    <2>4. QED BY <1>9, <2>1, <2>3 DEF Discipline
<1>11. CASE outstanding_requests = <<>> \/ r = Plain
    <2>1. output' = output
        BY <1>1, <1>11, SentinelAssumption DEF Idle, Buffer
    <2>2. QED BY <1>1, <1>6, <1>9, <2>1 DEF InFlight
<1>12. QED BY <1>2, <1>10, <1>11 DEF Request

-----------------------------------------------------------------------------
(* What the protocol reads *)

LEMMA ReceiveSInv ==
    ASSUME SInv, IInv', Receive
    PROVE  LinkTypeOK' /\ Discipline'
<1>1. /\ wire \in Seq(Line) /\ lines = <<>>
      /\ state' = state
      /\ UNCHANGED <<link, output, asked, fresh, check>>
      /\ Excuse({})
    BY DEF Receive, RunRead, Quiet, protocol, SInv, LinkTypeOK
<1>2. PICK n \in 0 .. Len(wire) :
        lines' = SubSeq(wire, 1, n) /\ wire' = SubSeq(wire, n + 1, Len(wire))
    BY DEF Receive
<1>3. wire' \in Seq(Line) /\ Ends(wire) = Ends(lines') + Ends(wire')
    BY <1>1, <1>2, EndsSplit
<1>4. LinkTypeOK'
    BY <1>1, <1>3 DEF SInv, LinkTypeOK, Excuse
<1>5. InFlightTypeOK /\ InFlightTypeOK'
    BY <1>4, InFlightType, InFlightTypeNext DEF SInv, IInv
<1>6. InFlight' = InFlight
    BY <1>1, <1>3, <1>5, EndsEmpty DEF InFlight, InFlightTypeOK
<1>7. QED BY <1>1, <1>4, <1>5, <1>6, CalmStep DEF SInv, InFlightTypeOK

LEMMA StoreSInv ==
    ASSUME SInv, IInv', Store
    PROVE  LinkTypeOK' /\ Discipline'
<1>1. /\ lines \in Seq(Line) /\ lines # <<>> /\ check = NoLine
      /\ lines' = Tail(lines)
      /\ check' = IF Head(lines).complete THEN Head(lines) ELSE check
      /\ state' = state
      /\ UNCHANGED transport
      /\ Excuse({})
    BY DEF Store, ProcessLine, protocol, SInv, IInv, TypeOK
<1>2. Head(lines) \in Line /\ Head(lines) # NoLine
    BY <1>1, HeadTail, SentinelAssumption
<1>3. LinkTypeOK'
    <2>1. fresh' \subseteq Name
        BY <1>2 DEF Store, SInv, LinkTypeOK, Line
    <2>2. QED BY <1>1, <2>1 DEF SInv, LinkTypeOK, transport, Excuse
<1>4. Ends(lines) = (IF Head(lines).complete THEN 1 ELSE 0) + Ends(lines')
    BY <1>1, EndsTail
<1>5. InFlightTypeOK /\ InFlightTypeOK'
    BY <1>3, InFlightType, InFlightTypeNext DEF SInv, IInv
<1>6. InFlight' = InFlight
    <2>1. CASE Head(lines).complete
        BY <1>1, <1>2, <1>4, <1>5, <2>1 DEF InFlight, InFlightTypeOK, transport
    <2>2. CASE ~Head(lines).complete
        BY <1>1, <1>2, <1>4, <1>5, <2>2 DEF InFlight, InFlightTypeOK, transport
    <2>3. QED BY <2>1, <2>2
<1>7. QED BY <1>1, <1>3, <1>5, <1>6, CalmStep DEF SInv, InFlightTypeOK

LEMMA FinishSInv ==
    ASSUME SInv, IInv', Finish
    PROVE  LinkTypeOK' /\ Discipline'
<1>1. /\ check # NoLine /\ check' = NoLine
      /\ state' \in {state, "IDLE"}
      /\ UNCHANGED <<transport, lines, fresh>>
      /\ Excuse({})
    BY DEF Finish, FinishLine
<1>2. LinkTypeOK'
    BY <1>1 DEF SInv, LinkTypeOK, transport, Excuse
<1>3. InFlightTypeOK /\ InFlightTypeOK'
    BY <1>2, InFlightType, InFlightTypeNext DEF SInv, IInv
<1>4. InFlight = InFlight' + 1
    BY <1>1, <1>3 DEF InFlight, InFlightTypeOK, transport
<1>5. CASE InFlight' = 0
    BY <1>2, <1>5 DEF Discipline
<1>6. CASE InFlight' # 0
    <2>1. excuse' = {} => excuse = {}
        BY <1>1, <1>6 DEF Excuse
    <2>2. InFlight \in Nat /\ InFlight' \in Nat
        BY <1>3 DEF InFlightTypeOK
    <2>3. ~(InFlight <= 1)
        BY <1>4, <1>6, <2>2, TwoOrMore
    <2>4. excuse # {}
        BY <2>3 DEF SInv, Discipline
    <2>5. QED BY <1>2, <2>1, <2>4 DEF Discipline
<1>7. QED BY <1>5, <1>6

-----------------------------------------------------------------------------
(* The link and the server *)

LEMMA LinkSInv ==
    ASSUME SInv, IInv', Flush \/ Break \/ Reconnect \/ Kill
    PROVE  LinkTypeOK' /\ Discipline'
<1>1. /\ output \in Seq(Name) /\ asked \in Seq(Name) /\ wire \in Seq(Line)
      /\ UNCHANGED vars /\ UNCHANGED fresh
      /\ excuse' = excuse \/ Excuse({})
      /\ excuse' \subseteq excuse
    BY DEF Flush, Break, Reconnect, Kill, history, SInv, LinkTypeOK, Excuse
<1>2. InFlightTypeOK
    BY InFlightType DEF SInv, IInv
<1>3. state' = state /\ lines' = lines /\ check' = check
    BY <1>1 DEF vars, protocol, callback
<1>4. LinkTypeOK' /\ InFlight' <= InFlight
    <2>1. CASE Flush
        <3>1. asked' \in Seq(Name) /\ Len(asked') = Len(asked) + Len(output)
            BY <1>1, <2>1, ConcatProperties DEF Flush
        <3>2. output' = <<>> /\ UNCHANGED <<link, wire, history>>
            BY <2>1 DEF Flush
        <3>3. LinkTypeOK'
            BY <1>1, <3>1, <3>2 DEF SInv, LinkTypeOK, history
        <3>4. Len(output') = 0
            BY <3>2
        <3>5. QED BY <1>2, <1>3, <3>1, <3>2, <3>3, <3>4 DEF InFlight, InFlightTypeOK
    <2>2. CASE Break
        <3>1. asked' = <<>> /\ wire' = <<>> /\ link' = "down" /\ UNCHANGED output
            BY <2>2 DEF Break
        <3>2. Len(asked') = 0 /\ Ends(wire') = 0
            BY <3>1, EndsEmpty
        <3>3. LinkTypeOK'
            BY <1>1, <3>1 DEF SInv, LinkTypeOK
        <3>4. Len(output') + Len(asked') + Ends(wire') <= Len(output) + Len(asked) + Ends(wire)
            BY <1>2, <3>1, <3>2 DEF InFlightTypeOK
        <3>5. Len(output') \in Nat /\ Len(asked') \in Nat /\ Ends(wire') \in Nat
            BY <1>2, <3>1, <3>2 DEF InFlightTypeOK
        <3>6. QED BY <1>2, <1>3, <3>3, <3>4, <3>5, LessInFlight
    <2>3. CASE Reconnect
        <3>1. output' = <<>> /\ link' = "connecting" /\ UNCHANGED <<asked, wire>>
            BY <2>3 DEF Reconnect
        <3>2. Len(output') = 0
            BY <3>1
        <3>3. LinkTypeOK'
            BY <1>1, <3>1 DEF SInv, LinkTypeOK
        <3>4. Len(output') + Len(asked') + Ends(wire') <= Len(output) + Len(asked) + Ends(wire)
            BY <1>2, <3>1, <3>2 DEF InFlightTypeOK
        <3>5. Len(output') \in Nat /\ Len(asked') \in Nat /\ Ends(wire') \in Nat
            BY <1>2, <3>1, <3>2 DEF InFlightTypeOK
        <3>6. QED BY <1>2, <1>3, <3>3, <3>4, <3>5, LessInFlight
    <2>4. CASE Kill
        <3>1. link' = "gone" /\ UNCHANGED <<output, asked, wire>>
            BY <2>4 DEF Kill
        <3>2. LinkTypeOK'
            BY <1>1, <3>1 DEF SInv, LinkTypeOK, Excuse
        <3>3. QED BY <1>2, <1>3, <3>1, <3>2 DEF InFlight, InFlightTypeOK
    <2>5. QED BY <2>1, <2>2, <2>3, <2>4
<1>5. InFlightTypeOK'
    BY <1>4, InFlightTypeNext DEF IInv
<1>6. QED BY <1>1, <1>2, <1>3, <1>4, <1>5, CalmStep DEF SInv, InFlightTypeOK

LEMMA AnswerSInv ==
    ASSUME SInv, IInv', Answer
    PROVE  LinkTypeOK' /\ Discipline'
<1> DEFINE reply == Reply[Head(asked)]
<1>1. /\ asked \in Seq(Name) /\ asked # <<>> /\ wire \in Seq(Line)
      /\ asked' = Tail(asked) /\ wire' = wire \o reply
      /\ UNCHANGED vars /\ UNCHANGED <<link, output, history>>
    BY DEF Answer, SInv, LinkTypeOK
<1>2. /\ Head(asked) \in Name
      /\ asked' \in Seq(Name) /\ Len(asked') = Len(asked) - 1
    BY <1>1, HeadTailProperties
<1>3. reply \in Seq(Line) /\ Ends(reply) <= 1
    BY <1>2, LinkAssumption
<1>4. /\ wire' \in Seq(Line)
      /\ Ends(wire') = Ends(wire) + Ends(reply)
      /\ Ends(reply) \in Nat
    BY <1>1, <1>3, EndsConcat, EndsType, ConcatProperties
<1>5. LinkTypeOK'
    BY <1>1, <1>2, <1>4 DEF SInv, LinkTypeOK, history
<1>6. InFlightTypeOK /\ InFlightTypeOK'
    BY <1>5, InFlightType, InFlightTypeNext DEF SInv, IInv
<1>7. state' = state /\ lines' = lines /\ check' = check
    BY <1>1 DEF vars, protocol, callback
<1>8. InFlight' <= InFlight
    <2>1. Len(output') + Len(asked') + Ends(wire') <= Len(output) + Len(asked) + Ends(wire)
        BY <1>1, <1>2, <1>3, <1>4, <1>6 DEF InFlightTypeOK
    <2>2. Len(output') \in Nat /\ Len(asked') \in Nat /\ Ends(wire') \in Nat
        BY <1>6 DEF InFlightTypeOK
    <2>3. QED BY <1>6, <1>7, <2>1, <2>2, LessInFlight
<1>9. QED BY <1>1, <1>5, <1>6, <1>7, <1>8, CalmStep DEF SInv, InFlightTypeOK, history

LEMMA PushSInv ==
    ASSUME SInv, Push
    PROVE  LinkTypeOK' /\ Discipline'
<1>1. PICK s \in Unasked : wire' = wire \o s
    BY DEF Push
<1>2. s \in Seq(Line) /\ wire \in Seq(Line)
    BY LinkAssumption DEF SInv, LinkTypeOK
<1>3. wire' \in Seq(Line)
    BY <1>1, <1>2, ConcatProperties
<1>4. QED BY <1>3 DEF Push, SInv, LinkTypeOK, Discipline

-----------------------------------------------------------------------------
(* The steps that move nothing; Connected forgets what the last link brought. *)
LEMMA OtherSInv ==
    ASSUME SInv, IInv', Time \/ PollLink \/ Command \/ Connected \/ UNCHANGED system
    PROVE  LinkTypeOK' /\ Discipline'
<1>1. /\ UNCHANGED <<output, asked, wire, excuse, lines, check, state>>
      /\ link' \in {link, "up"} /\ fresh' \in {fresh, {}}
    BY DEF Time, TimeElapses, PollLink, Poll, Command, RunIssue, Connected, system, vars,
        protocol, callback, transport, history
<1>2. LinkTypeOK'
    BY <1>1 DEF SInv, LinkTypeOK
<1>3. InFlight' = InFlight
    BY <1>1 DEF InFlight
<1>4. QED BY <1>1, <1>2, <1>3 DEF SInv, Discipline

LEMMA SystemNextSInv == SInv /\ [SystemNext]_system => SInv'
<1> SUFFICES ASSUME SInv, [SystemNext]_system PROVE SInv'
    OBVIOUS
<1>1. IInv'
    BY StepIsProtocolStep, NextIInv DEF SInv, system
<1>2. CASE Running
    <2>1. CASE Protocol
        BY <1>1, <2>1, SendSInv, IdleSInv, ReceiveSInv, StoreSInv, FinishSInv, OtherSInv
        DEF Protocol, SInv
    <2>2. CASE Flush \/ Break \/ Reconnect \/ Kill
        BY <1>1, <2>2, LinkSInv DEF SInv
    <2>3. CASE Answer \/ Push
        BY <1>1, <2>3, AnswerSInv, PushSInv DEF SInv
    <2>4. CASE Time \/ PollLink
        BY <1>1, <2>4, OtherSInv DEF SInv
    <2>5. QED BY <1>2, <2>1, <2>2, <2>3, <2>4 DEF Running
<1>3. CASE Gone \/ UNCHANGED system
    BY <1>1, <1>3, OtherSInv DEF SInv, Gone
<1>4. QED BY <1>2, <1>3 DEF SystemNext

(* The inductive invariant holds in every reachable state of the system.   *)
THEOREM SystemInvariance == System => []SInv
BY SystemInitSInv, SystemNextSInv, PTL DEF System

(* The link and the server are well typed.                                  *)
THEOREM LinkTypeCorrect == System => []LinkTypeOK
<1>1. SInv => LinkTypeOK
    BY DEF SInv
<1>2. QED BY <1>1, SystemInvariance, PTL

(* The server is never asked a second thing while it owes an answer, unless *)
(* a timeout, an early idle_event_cb or a table nobody asked for let the     *)
(* query pass: for every server whose replies end one table at most.        *)
THEOREM ServerAskedOneAtATime == System => []OneAtATime
<1>1. SInv => OneAtATime
    BY DEF SInv, Discipline, OneAtATime
<1>2. QED BY <1>1, SystemInvariance, PTL

=============================================================================
