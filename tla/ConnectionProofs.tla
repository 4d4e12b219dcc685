-------------------------- MODULE ConnectionProofs --------------------------
(***************************************************************************)
(* Proofs about the connections the gateway makes: the client side of a     *)
(* data connection, for any number of timers and whether or not SIGPIPE is  *)
(* ignored, and its connections to the HTTP targets, for any number of      *)
(* targets and requests.                                                    *)
(***************************************************************************)
EXTENDS SocketConnection, HttpTargets, TLAPS

-----------------------------------------------------------------------------
(* The client side of a data connection                                     *)


(* The known timer is the youngest one of S, and S holds at most one other. *)
Newest(S) ==
    /\ reconnect_timeout_event \in S
    /\ \A e \in S : e <= reconnect_timeout_event
    /\ \A e, f \in S \ {reconnect_timeout_event} : e = f

(* No link failed yet: both directions are open, no timer exists.           *)
Fresh ==
    /\ link # "down" /\ open = Directions
    /\ timers = {} /\ reconnect_timeout_event = Null

(* Each failure closed a direction; a second one created the second timer.  *)
Failed ==
    /\ link = "down" /\ open # Directions
    /\ Newest(timers)
    /\ open # {} => timers = {reconnect_timeout_event}

(* No timer is left to run. *)
Settled == firing = {} => (Fresh /\ ~tied) \/ Failed

(* The timers run in the order of their deadlines. *)
RunsForward ==
    firing # {} /\ ~reversed =>
        /\ link = "down" /\ ~tied
        /\ Newest(timers \cup firing)
        /\ \A e \in firing, f \in timers : e < f

(* Two timers run in reverse order: before the younger one, and after it.   *)
RunsBackward ==
    firing # {} /\ reversed =>
        /\ ~tied
        /\ \/ /\ link = "down" /\ timers = {}
              /\ Newest(firing)
           \/ /\ \A e, f \in firing : e = f
              /\ reconnect_timeout_event \notin firing
              /\ \/ Fresh
                 \/ link = "down" /\ open = {} /\ timers = {reconnect_timeout_event}

(* The inductive invariant. *)
IInv ==
    /\ TypeOK
    /\ Settled
    /\ RunsForward
    /\ RunsBackward
    /\ CrashNeedsTie

-----------------------------------------------------------------------------
(* Nothing failed and nothing is armed in the beginning. *)
LEMMA InitIInv == Init => IInv
<1> SUFFICES ASSUME Init PROVE IInv
    OBVIOUS
<1>1. TypeOK
    <2>1. created \in Nat /\ reconnect_timeout_event \in 0..created
        BY DEF Init, Null
    <2>2. timers \subseteq 1..created /\ firing \subseteq 1..created
        BY DEF Init
    <2>3. QED BY <2>1, <2>2 DEF Init, TypeOK
<1>2. Settled
    BY DEF Init, Settled, Fresh
<1>3. RunsForward /\ RunsBackward /\ CrashNeedsTie
    BY DEF Init, RunsForward, RunsBackward, CrashNeedsTie
<1>4. QED BY <1>1, <1>2, <1>3 DEF IInv

(* A failure of a fresh link arms the first timer, a failure of a failed    *)
(* link with an open direction the second and last.                         *)
LEMMA FailureIInv ==
    ASSUME IInv, Serving, NEW left, left \subseteq open, left # open,
           Fresh \/ left = {},
           open # {},
           Failure(left)
    PROVE  IInv'
<1> DEFINE new == created + 1
<1>1. /\ link' = "down" /\ open' = left
      /\ created' = new /\ reconnect_timeout_event' = new
      /\ timers' = timers \cup {new}
      /\ tied' \in BOOLEAN
      /\ UNCHANGED <<program, firing, reversed>>
    BY DEF Failure, ArmReconnect
<1>2. /\ created \in Nat /\ new \in Nat /\ created < new /\ new # Null
      /\ timers \subseteq 1..created
      /\ \A e \in timers : e < new
    BY DEF IInv, TypeOK, Null
<1>3. TypeOK'
    BY <1>1, <1>2 DEF IInv, TypeOK
<1>4. timers = {} \/ timers = {reconnect_timeout_event}
    BY DEF IInv, Settled, Serving, Fresh, Failed
<1>5. left # Directions
    BY DEF IInv, TypeOK
<1>6. Newest(timers)'
    BY <1>1, <1>2, <1>4 DEF Newest
<1>7. left # {} => timers = {}
    BY DEF Fresh
<1>8. Failed'
    BY <1>1, <1>5, <1>6, <1>7 DEF Failed, Directions
<1>9. Settled' /\ RunsForward' /\ RunsBackward'
    BY <1>1, <1>8 DEF Settled, RunsForward, RunsBackward, Serving
<1>10. CrashNeedsTie'
    BY <1>1 DEF CrashNeedsTie, Serving
<1>11. QED BY <1>3, <1>9, <1>10 DEF IInv

(* Serving a descriptor. *)
LEMMA EventCbIInv == IInv /\ (ConnectFails \/ ReadFails \/ WriteFails) => IInv'
<1> SUFFICES ASSUME IInv, ConnectFails \/ ReadFails \/ WriteFails PROVE IInv'
    OBVIOUS
<1>1. CASE ConnectFails
    <2>1. PICK left \in {{}, {"write"}} : Failure(left)
        BY <1>1 DEF ConnectFails
    <2>2. Serving /\ Fresh
        BY <1>1 DEF ConnectFails, IInv, Settled, Failed, Serving
    <2>3. open = Directions
        BY <2>2 DEF Fresh
    <2>4. left \subseteq open /\ left # open /\ open # {}
        BY <2>3 DEF Directions
    <2>5. QED BY <2>1, <2>2, <2>4, FailureIInv
<1>2. CASE ReadFails
    <2>1. open \ {"read"} \subseteq open /\ open \ {"read"} # open /\ open # {}
        BY <1>2 DEF ReadFails
    <2>2. Fresh \/ open \ {"read"} = {}
        BY <1>2 DEF ReadFails, IInv, TypeOK, Settled, Failed, Serving, Directions
    <2>3. Serving /\ Failure(open \ {"read"})
        BY <1>2 DEF ReadFails
    <2>4. QED BY <2>1, <2>2, <2>3, FailureIInv
<1>3. CASE WriteFails
    <2>1. open \ {"write"} \subseteq open /\ open \ {"write"} # open /\ open # {}
        BY <1>3 DEF WriteFails
    <2>2. Fresh \/ open \ {"write"} = {}
        BY <1>3 DEF WriteFails, IInv, TypeOK, Settled, Failed, Serving, Directions
    <2>3. Serving /\ Failure(open \ {"write"})
        BY <1>3 DEF WriteFails
    <2>4. QED BY <2>1, <2>2, <2>3, FailureIInv
<1>4. QED BY <1>1, <1>2, <1>3

(* Only timers of a failed link are activated; all together, or the oldest. *)
LEMMA TimeoutIInv == IInv /\ TimeoutProcess => IInv'
<1> SUFFICES ASSUME IInv, TimeoutProcess PROVE IInv'
    OBVIOUS
<1>1. /\ program = "running" /\ firing = {} /\ timers # {}
      /\ firing' \subseteq timers /\ timers' = timers \ firing'
      /\ reversed' \in BOOLEAN /\ tied' = FALSE
      /\ UNCHANGED <<program, link, open, reconnect_timeout_event, created>>
    BY DEF TimeoutProcess, Serving
<1>2. Failed
    BY <1>1 DEF IInv, Settled, Fresh
<1>3. TypeOK'
    BY <1>1 DEF IInv, TypeOK
<1>4. reconnect_timeout_event \in 1..created /\ timers \subseteq 1..created
    BY <1>2 DEF IInv, TypeOK, Failed, Newest
<1>5. timers' \cup firing' = timers
    BY <1>1
<1>6. Newest(timers \cup firing)'
    BY <1>1, <1>2, <1>5 DEF Failed, Newest
<1>7. \A e \in firing', f \in timers' : e < f
    BY <1>1, <1>4 DEF TimeoutProcess, IInv, TypeOK
<1>8. firing' # {}
    <2>1. CASE firing' = timers
        BY <2>1, <1>1
    <2>2. CASE firing' = {e \in timers : \A f \in timers : e <= f}
        <3>1. CASE timers = {reconnect_timeout_event}
            BY <3>1, <2>2, <1>4
        <3>2. CASE timers # {reconnect_timeout_event}
            <4>1. PICK o \in timers : o # reconnect_timeout_event
                BY <3>2, <1>2 DEF Failed, Newest
            <4>2. \A f \in timers : f = o \/ f = reconnect_timeout_event
                BY <4>1, <1>2 DEF Failed, Newest
            <4>3. o <= reconnect_timeout_event /\ o <= o
                BY <4>1, <1>2, <1>4 DEF Failed, Newest
            <4>4. QED BY <2>2, <4>1, <4>2, <4>3
        <3>3. QED BY <3>1, <3>2
    <2>3. QED BY <2>1, <2>2 DEF TimeoutProcess
<1>9. RunsForward'
    BY <1>1, <1>2, <1>6, <1>7 DEF RunsForward, Failed
<1>10. RunsBackward'
    <2>1. SUFFICES ASSUME reversed' PROVE firing' = timers
        BY <1>1, <1>2 DEF RunsBackward, Failed, Newest
    <2>2. QED BY <2>1 DEF TimeoutProcess
<1>11. CrashNeedsTie' /\ Settled'
    BY <1>1, <1>8 DEF CrashNeedsTie, Settled
<1>12. QED BY <1>3, <1>9, <1>10, <1>11 DEF IInv

(* The callback leaves no other timer behind, except the older of two that  *)
(* run in reverse order.                                                    *)
LEMMA ReconnectIInv ==
    ASSUME IInv, NEW e \in firing, ReconnectTimerCb(e)
    PROVE  IInv'
<1> DEFINE ptr == reconnect_timeout_event
           new == created + 1
           old == timers \ {ptr}
<1>1. /\ NextTimer(e) /\ ptr # Null /\ program = "running"
      /\ firing' = firing \ {e, ptr}
      /\ UNCHANGED <<program, tied, reversed>>
    BY DEF ReconnectTimerCb
<1>2. /\ created \in Nat /\ new \in Nat /\ created < new
      /\ ptr \in 1..created /\ timers \subseteq 1..created /\ firing \subseteq 1..created
      /\ e \in 1..created
    BY <1>1 DEF IInv, TypeOK, Null
<1>3. \/ /\ link' = "connecting" /\ open' = Directions /\ reconnect_timeout_event' = Null
         /\ timers' = old /\ created' = created
      \/ /\ link' = "down" /\ open' = {} /\ reconnect_timeout_event' = new
         /\ timers' = old \cup {new} /\ created' = new
    BY DEF ReconnectTimerCb, CreateClientSocket
<1>4. TypeOK'
    <2>1. firing' \subseteq 1..created /\ old \subseteq 1..created
        BY <1>1, <1>2
    <2>2. created' \in Nat /\ created <= created'
        BY <1>2, <1>3
    <2>3. firing' \subseteq 1..created' /\ timers' \subseteq 1..created'
        <3>1. CASE created' = created /\ timers' = old
            BY <3>1, <2>1
        <3>2. CASE created' = new /\ timers' = old \cup {new}
            <4>1. \A x \in 1..created : x \in 1..created'
                BY <3>2, <1>2
            <4>2. new \in 1..created'
                BY <3>2, <1>2
            <4>3. QED BY <4>1, <4>2, <3>2, <2>1
        <3>3. QED BY <3>1, <3>2, <1>3
    <2>4. reconnect_timeout_event' \in 0..created'
        BY <1>2, <1>3 DEF Null
    <2>5. link' \in {"connecting", "up", "down"} /\ open' \subseteq Directions
        BY <1>3
    <2>6. QED BY <1>1, <2>2, <2>3, <2>4, <2>5 DEF IInv, TypeOK
<1>5. ~tied /\ tied' = tied /\ old = {} /\ (reversed \/ firing' = {})
      /\ (\A x, y \in firing' : x = y)
    <2>1. CASE ~reversed
        <3>1. Newest(timers \cup firing) /\ ~tied /\ \A x \in firing, f \in timers : x < f
            BY <2>1 DEF IInv, RunsForward
        <3>2. \A f \in firing : e <= f
            BY <1>1, <2>1 DEF NextTimer
        <3>3. ptr \in timers \cup firing /\ \A x \in timers \cup firing : x <= ptr
            BY <3>1 DEF Newest
        <3>4. ASSUME NEW x \in timers \cup firing, x # ptr, x # e PROVE FALSE
            <4>1. e <= x
                BY <3>1, <3>2, <1>2, <3>4
            <4>2. CASE e = ptr
                BY <4>1, <4>2, <3>3, <1>2, <3>4
            <4>3. CASE e # ptr
                BY <4>3, <3>1, <3>4 DEF Newest
            <4>4. QED BY <4>2, <4>3
        <3>5. e \notin timers
            BY <3>1, <1>2
        <3>6. QED BY <3>1, <3>4, <3>5, <1>1
    <2>2. CASE reversed
        <3>1. firing # {} /\ ~tied
            BY <2>2 DEF IInv, RunsBackward
        <3>2. CASE link = "down" /\ timers = {} /\ Newest(firing)
            BY <3>1, <3>2, <2>2, <1>1 DEF Newest
        <3>3. CASE /\ \A x, f \in firing : x = f
                   /\ ptr \notin firing
                   /\ Fresh \/ (link = "down" /\ open = {} /\ timers = {ptr})
            BY <3>1, <3>3, <2>2, <1>1 DEF Fresh
        <3>4. QED BY <2>2, <3>1, <3>2, <3>3 DEF IInv, RunsBackward
    <2>3. QED BY <2>1, <2>2
<1>6. reconnect_timeout_event' \notin firing'
    BY <1>1, <1>2, <1>3 DEF Null
<1>7. \/ (Fresh)'
      \/ link' = "down" /\ open' = {} /\ timers' = {reconnect_timeout_event'}
    BY <1>3, <1>5 DEF Fresh
<1>8. Settled'
    <2>1. CASE (Fresh)'
        BY <2>1, <1>5 DEF Settled
    <2>2. CASE link' = "down" /\ open' = {} /\ timers' = {reconnect_timeout_event'}
        <3>1. reconnect_timeout_event' = new
            BY <1>3, <2>2
        <3>2. Newest(timers)'
            BY <1>2, <2>2, <3>1 DEF Newest
        <3>3. QED BY <2>2, <3>2 DEF Settled, Failed, Directions
    <2>3. QED BY <1>7, <2>1, <2>2
<1>9. RunsForward'
    BY <1>1, <1>5 DEF RunsForward
<1>10. RunsBackward'
    BY <1>1, <1>5, <1>6, <1>7 DEF RunsBackward
<1>11. CrashNeedsTie'
    BY <1>1 DEF CrashNeedsTie
<1>12. QED BY <1>4, <1>8, <1>9, <1>10, <1>11 DEF IInv

(* event_free(NULL) can only be met by the older of two timers, run last.   *)
LEMMA FreesNullIInv ==
    ASSUME IInv, NEW e \in firing, ReconnectTimerCbFreesNull(e)
    PROVE  IInv'
<1>1. /\ reconnect_timeout_event = Null /\ program' = "crashed"
      /\ firing' = firing \ {e}
      /\ UNCHANGED <<link, open, reconnect_timeout_event, timers, tied, reversed, created>>
    BY DEF ReconnectTimerCbFreesNull
<1>2. reversed
    BY <1>1 DEF IInv, RunsForward, Newest, TypeOK, Null
<1>3. /\ \A x, f \in firing : x = f
      /\ Fresh /\ ~tied
    BY <1>1, <1>2 DEF IInv, RunsBackward, Newest, TypeOK, Null
<1>4. firing' = {} /\ (Fresh)'
    BY <1>1, <1>3 DEF Fresh
<1>5. TypeOK' /\ Settled' /\ RunsForward' /\ RunsBackward'
    BY <1>1, <1>3, <1>4 DEF IInv, TypeOK, Settled, RunsForward, RunsBackward
<1>6. CrashNeedsTie'
    BY <1>1, <1>2 DEF CrashNeedsTie
<1>7. QED BY <1>5, <1>6 DEF IInv

(* Every step keeps the inductive invariant. *)
LEMMA NextIInv == IInv /\ [Next]_vars => IInv'
<1> SUFFICES ASSUME IInv, [Next]_vars PROVE IInv'
    OBVIOUS
<1>1. CASE Connected
    BY <1>1 DEF Connected, Serving, IInv, TypeOK, Settled, Fresh, Failed, RunsForward,
        RunsBackward, CrashNeedsTie
<1>2. CASE ConnectFails \/ ReadFails \/ WriteFails
    BY <1>2, EventCbIInv
<1>3. CASE WriteKills
    <2>1. /\ program' = "killed"
          /\ UNCHANGED <<link, open, reconnect_timeout_event, timers, tied, firing,
                         reversed, created>>
        BY <1>3 DEF WriteKills
    <2>2. QED
        BY <2>1 DEF IInv, TypeOK, Settled, Fresh, Failed, Newest, RunsForward,
            RunsBackward, CrashNeedsTie
<1>4. CASE TimeoutProcess
    BY <1>4, TimeoutIInv
<1>5. CASE RunTimer
    <2>1. PICK e \in firing : ReconnectTimerCb(e) \/ ReconnectTimerCbFreesNull(e)
        BY <1>5 DEF RunTimer
    <2>2. QED BY <2>1, ReconnectIInv, FreesNullIInv
<1>6. CASE UNCHANGED vars
    BY <1>6 DEF vars, IInv, TypeOK, Settled, Fresh, Failed, Newest, RunsForward,
        RunsBackward, CrashNeedsTie
<1>7. QED BY <1>1, <1>2, <1>3, <1>4, <1>5, <1>6 DEF Next

(* The inductive invariant holds in every reachable state. *)
THEOREM Invariance == Spec => []IInv
BY InitIInv, NextIInv, PTL DEF Spec

-----------------------------------------------------------------------------
(* The state is well typed. *)
THEOREM TypeCorrect == Spec => []TypeOK
<1>1. IInv => TypeOK
    BY DEF IInv
<1>2. QED BY <1>1, Invariance, PTL

(* A failed connection always has a timer that will reconnect it. *)
THEOREM FailureIsNoticed == Spec => []DownHasTimer
<1>1. IInv => DownHasTimer
    BY DEF IInv, DownHasTimer, Settled, Fresh, Failed, Newest
<1>2. QED BY <1>1, Invariance, PTL

(* What reconnect_timeout_event points to is never freed memory. *)
THEOREM NoDanglingTimer == Spec => []PointerIsLive
<1>1. IInv => PointerIsLive
    BY DEF IInv, PointerIsLive, Settled, Fresh, Failed, Newest, RunsForward, RunsBackward, TypeOK
<1>2. QED BY <1>1, Invariance, PTL

(* There are never more than two reconnect timers.                          *)
THEOREM TimersAreFew == Spec => []AtMostTwoTimers
<1>1. IInv => AtMostTwoTimers
    BY DEF IInv, AtMostTwoTimers, Settled, Fresh, Failed, Newest, RunsForward, RunsBackward, TypeOK
<1>2. QED BY <1>1, Invariance, PTL

(* Only timers with equal deadlines can disturb the link that replaced the  *)
(* failed one.                                                              *)
THEOREM LiveLinksLast == Spec => []LiveLinkUndisturbed
<1>1. IInv => LiveLinkUndisturbed
    BY DEF IInv, LiveLinkUndisturbed, Settled, Fresh, Failed, RunsForward, TypeOK
<1>2. QED BY <1>1, Invariance, PTL

(* event_free(NULL) takes two timers with equal deadlines. *)
THEOREM CrashCause == Spec => []CrashNeedsTie
<1>1. IInv => CrashNeedsTie
    BY DEF IInv
<1>2. QED BY <1>1, Invariance, PTL

-----------------------------------------------------------------------------
(* The link the protocol sees *)

(* While a timer has something to free, no link is up.                      *)
LEMMA TimerFindsNoLink ==
    ASSUME IInv, firing # {}, reconnect_timeout_event # Null
    PROVE  link = "down"
BY DEF IInv, RunsForward, RunsBackward, Fresh

(* Every step is one of the link, or none of it.                            *)
LEMMA StepIsLinkStep ==
    IInv /\ [Next]_vars => [Link!Next]_(IF program = "running" THEN link ELSE "gone")
<1> SUFFICES ASSUME IInv, [Next]_vars
             PROVE  [Link!Next]_(IF program = "running" THEN link ELSE "gone")
    OBVIOUS
<1> USE DEF Link!Next, Link!Connect, Link!Fail, Link!Retry, Link!End
<1>1. link \in {"connecting", "up", "down"}
    BY DEF IInv, TypeOK
<1>2. CASE Connected
    BY <1>2 DEF Connected, Serving
<1>3. CASE ConnectFails \/ ReadFails \/ WriteFails
    BY <1>1, <1>3 DEF ConnectFails, ReadFails, WriteFails, Failure, Serving
<1>4. CASE WriteKills
    BY <1>1, <1>4 DEF WriteKills, Serving
<1>5. CASE TimeoutProcess
    BY <1>5 DEF TimeoutProcess
<1>6. ASSUME NEW e \in firing, ReconnectTimerCb(e)
      PROVE  [Link!Next]_(IF program = "running" THEN link ELSE "gone")
    <2>1. link = "down" /\ program = "running" /\ program' = program
        BY <1>6, TimerFindsNoLink DEF ReconnectTimerCb
    <2>2. link' \in {"connecting", "down"}
        BY <1>6 DEF ReconnectTimerCb, CreateClientSocket
    <2>3. QED BY <2>1, <2>2
<1>7. ASSUME NEW e \in firing, ReconnectTimerCbFreesNull(e)
      PROVE  [Link!Next]_(IF program = "running" THEN link ELSE "gone")
    BY <1>1, <1>7 DEF ReconnectTimerCbFreesNull
<1>8. CASE UNCHANGED vars
    BY <1>8 DEF vars
<1>9. QED BY <1>2, <1>3, <1>4, <1>5, <1>6, <1>7, <1>8 DEF Next, RunTimer

(* A link that is up is never replaced but after its failure, however       *)
(* failures and timers are interleaved.                                     *)
THEOREM ConnectionImplementsDataLink == Spec => ImplementsLink
<1>1. Init => Link!Init
    BY DEF Init, Link!Init
<1>2. QED BY <1>1, StepIsLinkStep, Invariance, PTL DEF Spec, ImplementsLink, Link!Spec

-----------------------------------------------------------------------------
(* HTTP targets: what waits for a target is in order, behind what it has    *)
(* got, and each request is what the gateway has made of it when it was     *)
(* issued.                                                                  *)


Ascending(s) == \A j, k \in DOMAIN s : j < k => s[j].no < s[k].no

(* What a target has got comes before what waits for it. *)
Ordered ==
    \A i \in Target :
        /\ Ascending(arrived[i]) /\ Ascending(queue[i])
        /\ \A j \in DOMAIN arrived[i], k \in DOMAIN queue[i] : arrived[i][j].no < queue[i][k].no

(* A request to target i was issued, and tells truly what became of its    *)
(* body.                                                                    *)
Known(log, zip, r, i) ==
    /\ r.no \in DOMAIN log
    /\ LET n == log[r.no]
       IN  n.method = "PUT" /\ r.body # n.body =>
               /\ zip /\ n.body = "long"
               /\ r.encoded <=> \A j \in n.to : i <= j

AllKnown ==
    \A i \in Target :
        /\ \A k \in DOMAIN arrived[i] : Known(issued, compress, arrived[i][k], i)
        /\ \A k \in DOMAIN queue[i] : Known(issued, compress, queue[i][k], i)

TargetsIInv == TargetsTypeOK /\ Ordered /\ AllKnown

-----------------------------------------------------------------------------
(* Sequences of requests *)

(* One more at the end. *)
LEMMA OneMore ==
    ASSUME NEW S, NEW s \in Seq(S), NEW r \in S
    PROVE  /\ Append(s, r) \in Seq(S) /\ Len(Append(s, r)) = Len(s) + 1 /\ Len(s) \in Nat
           /\ DOMAIN s = 1 .. Len(s) /\ DOMAIN Append(s, r) = 1 .. Len(s) + 1
           /\ \A k \in DOMAIN s : Append(s, r)[k] = s[k] /\ k # Len(s) + 1
           /\ Append(s, r)[Len(s) + 1] = r
           /\ \A k \in DOMAIN Append(s, r) : k \in DOMAIN s \/ k = Len(s) + 1
<1>1. Append(s, r) \in Seq(S) /\ Len(Append(s, r)) = Len(s) + 1
  OBVIOUS
<1>2. Len(s) \in Nat /\ DOMAIN s = 1 .. Len(s) /\ \A k \in 1 .. Len(s) : Append(s, r)[k] = s[k]
  OBVIOUS
<1>3. Append(s, r)[Len(s) + 1] = r
  OBVIOUS
<1>4. DOMAIN Append(s, r) = 1 .. Len(s) + 1
  BY <1>1
<1>5. \A k \in 1 .. Len(s) + 1 : k \in 1 .. Len(s) \/ k = Len(s) + 1
  BY <1>2
<1>6. \A k \in 1 .. Len(s) : k # Len(s) + 1
  BY <1>2
<1>. QED BY <1>1, <1>2, <1>3, <1>4, <1>5, <1>6

(* The first is taken away. *)
LEMMA OneLess ==
    ASSUME NEW S, NEW s \in Seq(S), s # <<>>
    PROVE  /\ Head(s) \in S /\ Head(s) = s[1] /\ 1 \in DOMAIN s
           /\ Tail(s) \in Seq(S) /\ Len(Tail(s)) = Len(s) - 1 /\ Len(s) \in Nat
           /\ DOMAIN s = 1 .. Len(s)
           /\ \A k \in DOMAIN Tail(s) : k \in Int /\ 1 < k + 1 /\ k + 1 \in DOMAIN s /\ Tail(s)[k] = s[k + 1]
<1>1. Head(s) \in S /\ Head(s) = s[1] /\ Tail(s) \in Seq(S) /\ Len(Tail(s)) = Len(s) - 1
  OBVIOUS
<1>2. Len(s) \in Nat /\ Len(s) > 0 /\ DOMAIN s = 1 .. Len(s)
  OBVIOUS
<1>3. DOMAIN Tail(s) = 1 .. Len(s) - 1
  BY <1>1
<1>4. \A k \in 1 .. Len(s) - 1 : Tail(s)[k] = s[k + 1]
  OBVIOUS
<1>5. \A k \in 1 .. Len(s) - 1 : k \in Int /\ 1 < k + 1 /\ k + 1 \in 1 .. Len(s)
  BY <1>2
<1>6. 1 \in 1 .. Len(s)
  BY <1>2
<1>. QED BY <1>1, <1>2, <1>3, <1>4, <1>5, <1>6

LEMMA TargetsInitIInv == TargetsInit => TargetsIInv
<1> SUFFICES ASSUME TargetsInit PROVE TargetsIInv
  OBVIOUS
<1>1. /\ <<>> \in Seq(Request) /\ <<>> \in Seq(Issue) /\ Len(<<>>) = 0 /\ Len(<<>>) <= MaxRequests
      /\ Len(<<>>) + Len(<<>>) <= Len(<<>>)
  BY HttpAssumption
<1>2. TargetsTypeOK
  BY <1>1 DEF TargetsInit, TargetsTypeOK
<1>3. Ordered /\ AllKnown
  BY DEF TargetsInit, Ordered, Ascending, AllKnown
<1>. QED BY <1>2, <1>3 DEF TargetsIInv

-----------------------------------------------------------------------------
(* A request of the gateway *)

LEMMA NewRequest ==
    ASSUME TargetsIInv, NEW method \in Methods, NEW body \in Bodies, Len(issued) < MaxRequests,
           NEW i \in Target, enabled[i]
    PROVE  LET r == RequestFor(i, Len(issued) + 1, method, body)
           IN  /\ r \in Request /\ r.no = Len(issued) + 1
               /\ method = "PUT" /\ r.body # body =>
                    /\ compress /\ body = "long"
                    /\ r.encoded <=> \A j \in {k \in Target : enabled[k]} : i <= j
<1>1. Len(issued) \in Nat /\ Len(issued) + 1 \in 1 .. MaxRequests
  BY HttpAssumption DEF TargetsIInv, TargetsTypeOK
<1>2. Left(method, body, i) \in Bodies
  BY DEF Left, Bodies
<1>3. compress \in BOOLEAN
  BY DEF TargetsIInv, TargetsTypeOK
<1>4. Target \subseteq Int
  BY HttpAssumption DEF Target
<1> DEFINE earlier == \E j \in Target : j < i /\ enabled[j]
<1>5. ~earlier <=> \A j \in {k \in Target : enabled[k]} : i <= j
  BY <1>4
<1>6. RequestFor(i, Len(issued) + 1, method, body) \in Request
  BY <1>1, <1>2, <1>3 DEF RequestFor, Request, Compresses, Bodies
<1>7. ASSUME method = "PUT", RequestFor(i, Len(issued) + 1, method, body).body # body
      PROVE  /\ compress /\ body = "long"
             /\ RequestFor(i, Len(issued) + 1, method, body).encoded <=> ~earlier
  <2>1. CASE Compresses(method, body) /\ earlier
    BY <1>3, <1>7, <2>1 DEF RequestFor, Left, Compresses
  <2>2. CASE ~(Compresses(method, body) /\ earlier)
    <3>1. Left(method, body, i) = body
      BY <2>2 DEF Left
    <3>. QED BY <1>3, <1>7, <2>2, <3>1 DEF RequestFor, Compresses
  <2>. QED BY <2>1, <2>2
<1>8. RequestFor(i, Len(issued) + 1, method, body).no = Len(issued) + 1
  BY DEF RequestFor
<1>. QED BY <1>5, <1>6, <1>7, <1>8

LEMMA RoomForOneMore == \A q, a, l \in Nat : q + a <= l => q + a <= l + 1 /\ (q + 1) + a <= l + 1
OBVIOUS

LEMMA PerformIInv ==
    ASSUME TargetsIInv, NEW method \in Methods, NEW body \in Bodies, Perform(method, body)
    PROVE  TargetsIInv'
<1> DEFINE n == Len(issued) + 1
           issue == [method |-> method, body |-> body, to |-> {i \in Target : enabled[i]}]
           new(i) == RequestFor(i, n, method, body)
<1>1. /\ Len(issued) < MaxRequests /\ issued' = Append(issued, issue)
      /\ UNCHANGED <<compress, paused, enabled, connected, arrived>>
  BY DEF Perform
<1>2. issued \in Seq(Issue) /\ issue \in Issue
  BY DEF TargetsIInv, TargetsTypeOK, Issue
<1>3. /\ issued' \in Seq(Issue) /\ Len(issued') = n /\ Len(issued) \in Nat /\ n \in DOMAIN issued' /\ issued'[n] = issue
      /\ \A k \in DOMAIN issued : k \in DOMAIN issued' /\ issued'[k] = issued[k] /\ k \in Int /\ k < n
      /\ n <= MaxRequests
  <2>1. /\ issued' \in Seq(Issue) /\ Len(issued') = n /\ Len(issued) \in Nat /\ issued'[n] = issue
        /\ \A k \in DOMAIN issued : issued'[k] = issued[k]
        /\ DOMAIN issued = 1 .. Len(issued) /\ DOMAIN issued' = 1 .. Len(issued) + 1
    BY <1>1, <1>2, OneMore
  <2>2. n \in 1 .. Len(issued) + 1
    BY <2>1
  <2>3. \A k \in 1 .. Len(issued) : k \in 1 .. Len(issued) + 1 /\ k \in Int /\ k < n
    BY <2>1
  <2>4. n <= MaxRequests
    BY <1>1, <2>1, HttpAssumption
  <2>. QED BY <2>1, <2>2, <2>3, <2>4
<1>4. /\ queue' \in [Target -> UNION {{queue[i], Append(queue[i], new(i))} : i \in Target}]
      /\ \A i \in Target : queue'[i] = IF enabled[i] THEN Append(queue[i], new(i)) ELSE queue[i]
  BY <1>3 DEF Perform
<1> HIDE DEF issue, new
<1>5. ASSUME NEW i \in Target, enabled[i]
      PROVE  new(i) \in Request /\ new(i).no = n /\ Known(issued', compress', new(i), i)
  <2>1. /\ new(i) \in Request /\ new(i).no = n
        /\ method = "PUT" /\ new(i).body # body =>
              compress /\ body = "long" /\ (new(i).encoded <=> \A j \in {k \in Target : enabled[k]} : i <= j)
    BY <1>1, <1>5, NewRequest DEF new
  <2>2. compress' = compress /\ issued'[n] = issue /\ n \in DOMAIN issued'
    BY <1>1, <1>3
  <2>3. issue.method = method /\ issue.body = body /\ issue.to = {k \in Target : enabled[k]}
    BY DEF issue
  <2> HIDE DEF n
  <2>. QED BY <2>1, <2>2, <2>3 DEF Known
<1>6. ASSUME NEW r, NEW i, Known(issued, compress, r, i)
      PROVE  Known(issued', compress', r, i) /\ r.no \in Int /\ r.no < n
  BY <1>1, <1>3, <1>6 DEF Known
<1>7. ASSUME NEW i \in Target
      PROVE  /\ queue'[i] \in Seq(Request) /\ Len(queue'[i]) + Len(arrived'[i]) <= Len(issued')
             /\ Ascending(queue'[i]) /\ Ascending(arrived'[i])
             /\ \A j \in DOMAIN arrived'[i], k \in DOMAIN queue'[i] : arrived'[i][j].no < queue'[i][k].no
             /\ \A k \in DOMAIN arrived'[i] : Known(issued', compress', arrived'[i][k], i)
             /\ \A k \in DOMAIN queue'[i] : Known(issued', compress', queue'[i][k], i)
  <2>1. /\ queue[i] \in Seq(Request) /\ arrived[i] \in Seq(Request) /\ Len(queue[i]) + Len(arrived[i]) <= Len(issued)
        /\ Ascending(queue[i]) /\ Ascending(arrived[i])
        /\ \A j \in DOMAIN arrived[i], k \in DOMAIN queue[i] : arrived[i][j].no < queue[i][k].no
        /\ \A k \in DOMAIN arrived[i] : Known(issued, compress, arrived[i][k], i)
        /\ \A k \in DOMAIN queue[i] : Known(issued, compress, queue[i][k], i)
    BY DEF TargetsIInv, TargetsTypeOK, Ordered, AllKnown
  <2>2. /\ Len(queue[i]) \in Nat /\ Len(arrived[i]) \in Nat /\ arrived'[i] = arrived[i]
        /\ \A k \in DOMAIN arrived[i] : Known(issued', compress', arrived[i][k], i) /\ arrived[i][k].no < n
    BY <1>1, <1>6, <2>1
  <2>3. CASE ~enabled[i]
    <3>1. queue'[i] = queue[i]
      BY <1>4, <2>3
    <3>2. Len(queue[i]) + Len(arrived[i]) <= n
      BY <1>3, <2>1, <2>2, RoomForOneMore
    <3>3. \A k \in DOMAIN queue[i] : Known(issued', compress', queue[i][k], i)
      BY <1>6, <2>1
    <3>. QED BY <1>3, <2>1, <2>2, <3>1, <3>2, <3>3
  <2>4. CASE enabled[i]
    <3> DEFINE q == Append(queue[i], new(i))
               l == Len(queue[i]) + 1
    <3>1. queue'[i] = q /\ new(i) \in Request /\ new(i).no = n /\ Known(issued', compress', new(i), i)
      BY <1>4, <1>5, <2>4
    <3>2. /\ q \in Seq(Request) /\ Len(q) = l /\ q[l] = new(i)
          /\ \A k \in DOMAIN queue[i] : q[k] = queue[i][k] /\ k # l
          /\ \A k \in DOMAIN q : k \in DOMAIN queue[i] \/ k = l
          /\ DOMAIN q = 1 .. l /\ DOMAIN queue[i] = 1 .. Len(queue[i])
      BY <2>1, <3>1, OneMore
    <3>3. l + Len(arrived[i]) <= n
      BY <1>3, <2>1, <2>2, RoomForOneMore
    <3>4. \A k \in DOMAIN queue[i] : Known(issued', compress', queue[i][k], i) /\ queue[i][k].no < n
      BY <1>6, <2>1
    <3>5. \A j, k \in DOMAIN q : j < k => j \in DOMAIN queue[i]
      BY <2>2, <3>2
    <3> HIDE DEF q, l, n
    <3>6. Ascending(q)
      BY <2>1, <3>1, <3>2, <3>4, <3>5 DEF Ascending
    <3>7. \A j \in DOMAIN arrived[i], k \in DOMAIN q : arrived[i][j].no < q[k].no
      BY <2>1, <2>2, <3>1, <3>2
    <3>8. \A k \in DOMAIN q : Known(issued', compress', q[k], i)
      BY <3>1, <3>2, <3>4
    <3>. QED BY <1>3, <2>1, <2>2, <3>1, <3>2, <3>3, <3>6, <3>7, <3>8
  <2>. QED BY <2>3, <2>4
<1>8. TargetsTypeOK'
  BY <1>1, <1>3, <1>4, <1>7 DEF TargetsIInv, TargetsTypeOK
<1>9. Ordered' /\ AllKnown'
  BY <1>1, <1>7 DEF Ordered, AllKnown, Ascending
<1>. QED BY <1>8, <1>9 DEF TargetsIInv

-----------------------------------------------------------------------------
(* A connection *)

LEMMA RoomForOneLess ==
    \A q, a, l \in Nat : q + a <= l => 0 + a <= l /\ (q - 1) + a <= l /\ (q - 1) + (a + 1) <= l
OBVIOUS

(* The first of what waits for a target is done with; the target may have   *)
(* got it.                                                                  *)
LEMMA DoneIInv ==
    ASSUME TargetsIInv, NEW i \in Target, queue[i] # <<>>, connected' \in [Target -> BOOLEAN],
           queue' = [queue EXCEPT ![i] = Tail(@)],
           \/ arrived' = arrived
           \/ arrived' = [arrived EXCEPT ![i] = Append(@, Head(queue[i]))],
           UNCHANGED <<compress, paused, enabled, issued>>
    PROVE  TargetsIInv'
<1> DEFINE q == queue[i]
           a == arrived[i]
           r == Head(q)
<1>1. /\ q \in Seq(Request) /\ a \in Seq(Request) /\ Len(q) + Len(a) <= Len(issued) /\ Len(issued) \in Nat
      /\ Ascending(q) /\ Ascending(a)
      /\ \A j \in DOMAIN a, k \in DOMAIN q : a[j].no < q[k].no
      /\ \A k \in DOMAIN a : Known(issued, compress, a[k], i)
      /\ \A k \in DOMAIN q : Known(issued, compress, q[k], i)
  BY DEF TargetsIInv, TargetsTypeOK, Ordered, AllKnown
<1>2. /\ r \in Request /\ r = q[1] /\ 1 \in DOMAIN q
      /\ Tail(q) \in Seq(Request) /\ Len(Tail(q)) = Len(q) - 1 /\ Len(q) \in Nat /\ Len(a) \in Nat
      /\ \A k \in DOMAIN Tail(q) : k \in Int /\ 1 < k + 1 /\ k + 1 \in DOMAIN q /\ Tail(q)[k] = q[k + 1]
  BY <1>1, OneLess
<1>3. /\ Append(a, r) \in Seq(Request) /\ Len(Append(a, r)) = Len(a) + 1
      /\ DOMAIN a = 1 .. Len(a) /\ Append(a, r)[Len(a) + 1] = r
      /\ \A k \in DOMAIN a : Append(a, r)[k] = a[k] /\ k # Len(a) + 1
      /\ \A k \in DOMAIN Append(a, r) : k \in DOMAIN a \/ k = Len(a) + 1
      /\ DOMAIN Append(a, r) = 1 .. Len(a) + 1
  BY <1>1, <1>2, OneMore
<1>4. /\ queue'[i] = Tail(q) /\ \A j \in Target \ {i} : queue'[j] = queue[j]
      /\ arrived'[i] = a \/ arrived'[i] = Append(a, r)
      /\ \A j \in Target \ {i} : arrived'[j] = arrived[j]
  BY DEF TargetsIInv, TargetsTypeOK
<1>5. Len(Tail(q)) + Len(a) <= Len(issued) /\ Len(Tail(q)) + Len(Append(a, r)) <= Len(issued)
  BY <1>1, <1>2, <1>3, RoomForOneLess
<1>6. TargetsTypeOK'
  <2>1. queue' \in [Target -> Seq(Request)] /\ arrived' \in [Target -> Seq(Request)]
    BY <1>2, <1>3 DEF TargetsIInv, TargetsTypeOK
  <2>2. \A j \in Target : Len(queue'[j]) + Len(arrived'[j]) <= Len(issued')
    BY <1>4, <1>5 DEF TargetsIInv, TargetsTypeOK
  <2>. QED BY <2>1, <2>2 DEF TargetsIInv, TargetsTypeOK
<1>7. \A j, k \in DOMAIN Tail(q) : j < k => j + 1 < k + 1
  BY <1>2
<1>8. \A j, k \in DOMAIN Append(a, r) : j < k => j \in DOMAIN a
  BY <1>2, <1>3
<1> HIDE DEF q, a, r
<1>9. /\ Ascending(Tail(q)) /\ Ascending(Append(a, r))
      /\ \A j \in DOMAIN a, k \in DOMAIN Tail(q) : a[j].no < Tail(q)[k].no
      /\ \A j \in DOMAIN Append(a, r), k \in DOMAIN Tail(q) : Append(a, r)[j].no < Tail(q)[k].no
  <2>1. Ascending(Tail(q))
    BY <1>1, <1>2, <1>7 DEF Ascending
  <2>2. Ascending(Append(a, r))
    BY <1>1, <1>2, <1>3, <1>8 DEF Ascending
  <2>3. \A k \in DOMAIN Tail(q) : r.no < Tail(q)[k].no /\ \A j \in DOMAIN a : a[j].no < Tail(q)[k].no
    BY <1>1, <1>2 DEF Ascending
  <2>. QED BY <1>3, <2>1, <2>2, <2>3
<1>10. Ordered'
  <2> SUFFICES ASSUME NEW j \in Target
               PROVE  /\ Ascending(arrived'[j]) /\ Ascending(queue'[j])
                      /\ \A k \in DOMAIN arrived'[j], l \in DOMAIN queue'[j] :
                            arrived'[j][k].no < queue'[j][l].no
    BY DEF Ordered, Ascending
  <2>1. CASE j = i
    <3>1. queue'[j] = Tail(q) /\ (arrived'[j] = a \/ arrived'[j] = Append(a, r))
      BY <1>4, <2>1
    <3>2. Ascending(a)
      BY <1>1
    <3>3. CASE arrived'[j] = a
      BY <1>9, <3>1, <3>2, <3>3
    <3>4. CASE arrived'[j] = Append(a, r)
      BY <1>9, <3>1, <3>4
    <3>. QED BY <3>1, <3>3, <3>4
  <2>2. CASE j # i
    BY <1>4, <2>2 DEF TargetsIInv, Ordered
  <2>. QED BY <2>1, <2>2
<1>11. AllKnown'
  <2> SUFFICES ASSUME NEW j \in Target
               PROVE  /\ \A k \in DOMAIN arrived'[j] : Known(issued', compress', arrived'[j][k], j)
                      /\ \A k \in DOMAIN queue'[j] : Known(issued', compress', queue'[j][k], j)
    BY DEF AllKnown, Known
  <2>1. CASE j = i
    <3>1. \A k \in DOMAIN Tail(q) : Known(issued, compress, Tail(q)[k], i)
      BY <1>1, <1>2
    <3>2. \A k \in DOMAIN Append(a, r) : Known(issued, compress, Append(a, r)[k], i)
      BY <1>1, <1>2, <1>3
    <3>3. \A k \in DOMAIN a : Known(issued, compress, a[k], i)
      BY <1>1
    <3>4. /\ queue'[j] = Tail(q) /\ (arrived'[j] = a \/ arrived'[j] = Append(a, r))
          /\ issued' = issued /\ compress' = compress
      BY <1>4, <2>1
    <3>. QED BY <2>1, <3>1, <3>2, <3>3, <3>4
  <2>2. CASE j # i
    BY <1>4, <2>2 DEF TargetsIInv, AllKnown
  <2>. QED BY <2>1, <2>2
<1>. QED BY <1>6, <1>10, <1>11 DEF TargetsIInv

LEMMA ConnectionIInv == ASSUME TargetsIInv, NEW i \in Target, Exchange(i) \/ Closed(i) PROVE TargetsIInv'
<1>1. CASE Connect(i) \/ Closed(i)
  <2>1. /\ connected' \in [Target -> BOOLEAN]
        /\ UNCHANGED <<compress, paused, enabled, issued, queue, arrived>>
    BY <1>1 DEF Connect, Closed, TargetsIInv, TargetsTypeOK
  <2>. QED BY <2>1 DEF TargetsIInv, TargetsTypeOK, Ordered, Ascending, AllKnown, Known
<1>2. CASE ConnectGivenUp(i)
  <2>1. /\ queue' = [queue EXCEPT ![i] = <<>>]
        /\ UNCHANGED <<compress, paused, enabled, issued, connected, arrived>>
    BY <1>2 DEF ConnectGivenUp
  <2>2. queue'[i] = <<>> /\ \A j \in Target \ {i} : queue'[j] = queue[j]
    BY <2>1 DEF TargetsIInv, TargetsTypeOK
  <2>3. queue' \in [Target -> Seq(Request)]
    BY <2>1 DEF TargetsIInv, TargetsTypeOK
  <2>4. ASSUME NEW j \in Target PROVE Len(queue'[j]) + Len(arrived[j]) <= Len(issued)
    <3>1. Len(queue[j]) \in Nat /\ Len(arrived[j]) \in Nat /\ Len(issued) \in Nat
          /\ Len(queue[j]) + Len(arrived[j]) <= Len(issued)
      BY DEF TargetsIInv, TargetsTypeOK
    <3>2. j = i => Len(queue'[j]) = 0
      BY <2>2
    <3>. QED BY <2>2, <3>1, <3>2, RoomForOneLess
  <2>5. TargetsTypeOK'
    BY <2>1, <2>3, <2>4 DEF TargetsIInv, TargetsTypeOK
  <2>6. Ordered' /\ AllKnown'
    BY <2>1, <2>2 DEF TargetsIInv, Ordered, Ascending, AllKnown, Known
  <2>. QED BY <2>5, <2>6 DEF TargetsIInv
<1>3. CASE Answered(i)
  BY <1>3, DoneIInv DEF Answered, TargetsIInv, TargetsTypeOK
<1>4. CASE RequestFails(i)
  BY <1>4, DoneIInv DEF RequestFails, TargetsIInv, TargetsTypeOK
<1>. QED BY <1>1, <1>2, <1>3, <1>4 DEF Exchange

LEMMA TargetsNextIInv == TargetsIInv /\ [TargetsNext]_targetsVars => TargetsIInv'
<1> SUFFICES ASSUME TargetsIInv, [TargetsNext]_targetsVars PROVE TargetsIInv'
  OBVIOUS
<1>1. CASE AutomationHttp \/ OperatorHttp
  BY <1>1, PerformIInv DEF AutomationHttp, OperatorHttp
<1>2. CASE ModifyTarget \/ PauseResume \/ UNCHANGED targetsVars
  <2>1. /\ enabled' \in [Target -> BOOLEAN] /\ paused' \in BOOLEAN
        /\ UNCHANGED <<compress, issued, queue, connected, arrived>>
    BY <1>2 DEF ModifyTarget, PauseResume, targetsVars, TargetsIInv, TargetsTypeOK
  <2>. QED BY <2>1 DEF TargetsIInv, TargetsTypeOK, Ordered, Ascending, AllKnown, Known
<1>3. CASE \E i \in Target : Exchange(i) \/ Closed(i)
  BY <1>3, ConnectionIInv
<1>. QED BY <1>1, <1>2, <1>3 DEF TargetsNext

LEMMA TargetsInvariance == TargetsSpec => []TargetsIInv
BY TargetsInitIInv, TargetsNextIInv, PTL DEF TargetsSpec

(* The state of the targets has its type; none of them gets, or waits for,  *)
(* more requests than there were.                                           *)
THEOREM TargetsTypeCorrect == TargetsSpec => []TargetsTypeOK
<1>1. TargetsIInv => TargetsTypeOK
  BY DEF TargetsIInv
<1>. QED BY <1>1, TargetsInvariance, PTL

(* No target ever gets a request twice, or one before an earlier one.       *)
THEOREM TargetsInOrder == TargetsSpec => []ArriveOnceInOrder
<1>1. TargetsIInv => ArriveOnceInOrder
  BY DEF TargetsIInv, Ordered, Ascending, ArriveOnceInOrder
<1>. QED BY <1>1, TargetsInvariance, PTL

(* No body is lost but a compressed one, and only the first target is told. *)
THEOREM LossIsCompression == TargetsSpec => []BodyLostOnlyWhenCompressed
<1>1. TargetsIInv => BodyLostOnlyWhenCompressed
  BY DEF TargetsIInv, AllKnown, Known, BodyLostOnlyWhenCompressed
<1>. QED BY <1>1, TargetsInvariance, PTL

=============================================================================
