-------------------------- MODULE SocketConnection --------------------------
(***************************************************************************)
(* The client side of a data connection: the bufferevent of                *)
(* src/src/oris_socket_connection.c, its failures, and the timers that      *)
(* reconnect it.                                                            *)
(*                                                                         *)
(* Every failure event of the bufferevent creates a timer and stores it in *)
(* reconnect_timeout_event, over the one that may already be there.  A      *)
(* timer that runs frees whatever reconnect_timeout_event points to and     *)
(* creates a new bufferevent.  One bufferevent reports at most two          *)
(* failures: libevent stops reading after a failed read, writing after a    *)
(* failed write, and reading after a failed connect.                        *)
(*                                                                         *)
(* Timers are numbered in the order of their creation.  All have the same  *)
(* delay, so that is also the order of their deadlines; two timers created  *)
(* at the same time of the (cached, coarse) clock of the loop have equal    *)
(* deadlines, and the heap of libevent returns those in either order.       *)
(***************************************************************************)
EXTENDS Naturals

CONSTANT MaxTimers  \* bound: timers created in a run

ASSUME ConstantAssumption == MaxTimers \in Nat

VARIABLES
    program,    \* "running", "killed" by SIGPIPE, "crashed" in event_free(NULL)
    link,       \* "connecting", "up", "down"
    open,       \* the directions in which the bufferevent may still fail
    reconnect_timeout_event,    \* the timer the connection knows; Null for none
    timers,     \* armed timers
    tied,       \* the two armed timers have the same deadline
    firing,     \* timers that are activated and did not run yet
    reversed,   \* firing runs from the youngest timer to the oldest
    created     \* number of timers created so far

vars == <<program, link, open, reconnect_timeout_event, timers, tied, firing, reversed, created>>

Null == 0
Directions == {"read", "write"}

(* Faulty: the new timer is created and stored, but not added to the loop. *)
ArmForgotten ==
    /\ created < MaxTimers
    /\ created' = created + 1
    /\ reconnect_timeout_event' = created + 1
    /\ UNCHANGED timers

(* evtimer_new, stored over what was there, and event_add with ten seconds. *)
ArmReconnect ==
    /\ created < MaxTimers
    /\ created' = created + 1
    /\ reconnect_timeout_event' = created + 1
    /\ timers' = timers \cup {created + 1}

-----------------------------------------------------------------------------
(* oris_connection_event_cb; descriptors are served when no timer is left   *)
(* to run in this pass of the loop.                                         *)

Serving == program = "running" /\ firing = {}

Connected ==
    /\ Serving /\ link = "connecting"
    /\ link' = "up"
    /\ UNCHANGED <<program, open, reconnect_timeout_event, timers, tied, firing, reversed, created>>

(* BEV_EVENT_ERROR or BEV_EVENT_EOF, the bufferevent going on with the      *)
(* directions in left.                                                      *)
Failure(left) ==
    /\ link' = "down"
    /\ open' = left
    /\ ArmReconnect
    /\ tied' \in {t \in BOOLEAN : t => timers # {}}
    /\ UNCHANGED <<program, firing, reversed>>

(* The name is not resolved (no descriptor), or the peer refuses. *)
ConnectFails ==
    /\ Serving /\ link = "connecting"
    /\ \E left \in {{}, {"write"}} : Failure(left)

(* Faulty: a failing read keeps the bufferevent reading: it fails again and again.  *)
ReadFailsForever ==
    /\ Serving /\ link # "connecting" /\ "read" \in open
    /\ Failure(open)

(* Data that arrives is no concern of this module. *)
ReadFails ==
    /\ Serving /\ link # "connecting" /\ "read" \in open
    /\ Failure(open \ {"read"})

(* Requests are written whether the link is up or down. *)
WriteFails ==
    /\ Serving /\ link # "connecting" /\ "write" \in open
    /\ Failure(open \ {"write"})

(* The write hits a socket that is closed: nobody handles SIGPIPE. *)
WriteKills ==
    /\ Serving /\ link # "connecting" /\ "write" \in open
    /\ program' = "killed"
    /\ UNCHANGED <<link, open, reconnect_timeout_event, timers, tied, firing, reversed, created>>

-----------------------------------------------------------------------------
(* timeout_process of libevent: the earliest deadline has passed, and       *)
(* perhaps the other one; equal deadlines pass together.                     *)
TimeoutProcess ==
    /\ Serving /\ timers # {}
    /\ \/ ~tied /\ firing' = {e \in timers : \A f \in timers : e <= f}
       \/ firing' = timers
    /\ timers' = timers \ firing'
    /\ reversed' \in {r \in BOOLEAN : r => tied}
    /\ tied' = FALSE
    /\ UNCHANGED <<program, link, open, reconnect_timeout_event, created>>

(* The activated timer whose turn it is. *)
NextTimer(e) ==
    /\ e \in firing
    /\ \A f \in firing : IF reversed THEN f <= e ELSE e <= f

(* Faulty: reconnect_timeout_event keeps pointing to the event that was freed. *)
CreateClientSocketStale ==
    /\ link' = "connecting" /\ open' = Directions
    /\ timers' = timers \ {reconnect_timeout_event}
    /\ UNCHANGED <<created, reconnect_timeout_event>>

(* oris_create_client_socket: the old bufferevent is gone; connecting takes *)
(* time or fails at once, with an event before the call returns.            *)
CreateClientSocket ==
    \/ /\ link' = "connecting" /\ open' = Directions
       /\ reconnect_timeout_event' = Null
       /\ timers' = timers \ {reconnect_timeout_event}
       /\ UNCHANGED created
    \/ /\ link' = "down" /\ open' = {}
       /\ created < MaxTimers
       /\ created' = created + 1
       /\ reconnect_timeout_event' = created + 1
       /\ timers' = (timers \ {reconnect_timeout_event}) \cup {created + 1}

(* Faulty: the callback frees nothing, and a younger timer stays in the loop. *)
ReconnectTimerCbFreesNothing(e) ==
    /\ program = "running" /\ NextTimer(e)
    /\ reconnect_timeout_event # Null
    /\ firing' = firing \ {e}
    /\ link' = "connecting" /\ open' = Directions
    /\ UNCHANGED <<program, tied, reversed, timers, created, reconnect_timeout_event>>

(* oris_connection_reconnect_timer_cb of timer e: event_free takes the      *)
(* event it is given out of the loop, be it armed or active.                 *)
ReconnectTimerCb(e) ==
    /\ program = "running" /\ NextTimer(e)
    /\ reconnect_timeout_event # Null
    /\ firing' = firing \ {e, reconnect_timeout_event}
    /\ CreateClientSocket
    /\ UNCHANGED <<program, tied, reversed>>

(* event_free(NULL) *)
ReconnectTimerCbFreesNull(e) ==
    /\ program = "running" /\ NextTimer(e)
    /\ reconnect_timeout_event = Null
    /\ program' = "crashed"
    /\ firing' = firing \ {e}
    /\ UNCHANGED <<link, open, reconnect_timeout_event, timers, tied, reversed, created>>

-----------------------------------------------------------------------------
(* oris_socket_connection_init; a connect that fails at once is a           *)
(* ConnectFails that comes first.                                           *)
Init ==
    /\ program = "running"
    /\ link = "connecting" /\ open = Directions
    /\ reconnect_timeout_event = Null
    /\ timers = {} /\ tied = FALSE
    /\ firing = {} /\ reversed = FALSE
    /\ created = 0

RunTimer == \E e \in firing : ReconnectTimerCb(e) \/ ReconnectTimerCbFreesNull(e)

Next ==
    \/ Connected \/ ConnectFails
    \/ ReadFails \/ WriteFails \/ WriteKills
    \/ TimeoutProcess \/ RunTimer

(* Time passes and active timers run; nothing need ever fail or connect.   *)
Fairness == WF_vars(TimeoutProcess) /\ WF_vars(RunTimer)

Spec == Init /\ [][Next]_vars /\ Fairness

-----------------------------------------------------------------------------
(* Properties *)

TypeOK ==
    /\ program \in {"running", "killed", "crashed"}
    /\ link \in {"connecting", "up", "down"}
    /\ open \subseteq Directions
    /\ created \in Nat
    /\ reconnect_timeout_event \in 0..created
    /\ timers \subseteq 1..created
    /\ firing \subseteq 1..created
    /\ tied \in BOOLEAN /\ reversed \in BOOLEAN

(* A connection that failed is never left without a timer that will         *)
(* reconnect it: the gateway has no other way to notice.                     *)
DownHasTimer == program = "running" /\ link = "down" => timers \cup firing # {}

(* reconnect_timeout_event never dangles: what the next timer, or the       *)
(* destructor, frees is an event that is still in the loop.                  *)
PointerIsLive ==
    reconnect_timeout_event # Null => reconnect_timeout_event \in timers \cup firing

(* However reads, writes and timers interleave, no more than two timers     *)
(* wait at a time: failures do not multiply the reconnect attempts.          *)
AtMostTwoTimers ==
    \A e, f, g \in timers \cup firing : e = f \/ f = g \/ e = g

(* A link that is up or being established is not torn down again by a timer *)
(* of the link before it, unless two timers had equal deadlines and ran in   *)
(* reverse order.                                                           *)
LiveLinkUndisturbed ==
    program = "running" /\ link # "down" /\ timers \cup firing # {} => reversed

(* event_free(NULL) takes exactly that situation. *)
CrashNeedsTie == program = "crashed" => reversed

(* After a failure a reconnect timer does run, unless the gateway itself    *)
(* ends: by SIGPIPE, writing to the dead link while the timer is pending,    *)
(* or in event_free(NULL).                                                  *)
ReconnectAttempted == link = "down" ~> (firing # {} \/ program # "running")

(* To the protocol above it the connection is one link at a time: no timer  *)
(* of an old failure, run in whatever order, replaces a link that is up,    *)
(* and none brings back a gateway that has ended.                            *)
Link == INSTANCE DataLink WITH link <- IF program = "running" THEN link ELSE "gone"

ImplementsLink == Link!Spec

-----------------------------------------------------------------------------
(* What the source says, and the code does not keep                        *)

(* oris_socket_connection.c:144, "start timer for reconnect attempts": a    *)
(* timer that runs makes an attempt and does not end the gateway.            *)
TimersOnlyReconnect == program # "crashed"

=============================================================================
