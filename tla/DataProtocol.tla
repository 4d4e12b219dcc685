---------------------------- MODULE DataProtocol ----------------------------
(***************************************************************************)
(* One data connection of the gateway: the request/response discipline of  *)
(* src/src/oris_protocol_data.c, run by the libevent loop.                  *)
(*                                                                         *)
(* The server answers one query ("?Name") at a time.  A query puts the     *)
(* connection in WAIT_FOR_RESPONSE and arms the one second timer of        *)
(* idle_event; requests written meanwhile are queued.  The reply, or the   *)
(* timer, makes the loop run idle_event_cb, which goes back to IDLE and    *)
(* sends one queued request.                                               *)
(*                                                                         *)
(* The C code is single threaded, but several callbacks become active in   *)
(* one pass of the loop and run one after the other: what a callback finds *)
(* depends on the ones that ran before it in the same pass.                *)
(***************************************************************************)
EXTENDS Naturals, Sequences

CONSTANTS
    Base,       \* table names without the trailing '!'
    Plain,      \* a request that is no query (its text does not begin with '?')
    NoName,     \* NULL in last_req_tbl_name
    NoLine,     \* no line is being processed
    OnTable,    \* the requests the "on table" automation writes, by table name
    Segments,   \* the lines one read callback may find in its buffer
    Batches,    \* the requests a timer, a control command or a fresh connection writes
    MaxQueue    \* bound: no callback that writes starts above this queue length

(* "Foo!" is a table of its own: single lines, answered to a query of "Foo" too. *)
Name == [base : Base, bang : BOOLEAN]

Request == Name \cup {Plain}

(* A line of a table: complete when it is the last one ("Foo0|..." or      *)
(* "Foo!|..."), empty when it is an "empty reply" ("Foo!|...|0").            *)
Line == {l \in [name : Name, complete : BOOLEAN, empty : BOOLEAN] :
            /\ l.name.bang => l.complete
            /\ l.empty => l.name.bang}

Flags == {"EV_READ", "EV_TIMEOUT"}

ASSUME SentinelAssumption == Plain \notin Name /\ NoName \notin Name /\ NoLine \notin Line
ASSUME EnvironmentAssumption ==
    /\ OnTable \in [Name -> Seq(Request)]
    /\ Segments \subseteq Seq(Line)
    /\ Batches \subseteq Seq(Request)
    /\ MaxQueue \in Nat

VARIABLES
    state,                  \* "IDLE" or "WAIT_FOR_RESPONSE"
    outstanding_requests,   \* the queue of requests written while waiting
    last_req_tbl_name,      \* the table the last query asked for
    timer,                  \* timer of idle_event: "off", "pending", "due"
    res,                    \* flags idle_event is active with; {} when it is not active
    ready,                  \* other callbacks activated in this pass of the loop
    lines,                  \* lines of the running read callback still to process
    check,                  \* the line whose table_complete_cb is running
    todo,                   \* requests the running automation or command has yet to write
    stall                   \* history: why idle_event_cb left requests without a wake-up

protocol == <<state, outstanding_requests, last_req_tbl_name, stall>>
event == <<timer, res>>
callback == <<lines, check, todo>>
vars == <<protocol, event, ready, callback>>

-----------------------------------------------------------------------------
(* libevent *)

(* No callback is between two of its steps. *)
Quiet == lines = <<>> /\ check = NoLine /\ todo = <<>>

(* Faulty: the timer is not armed. *)
EventAddMissing == UNCHANGED event

(* event_add with a timeout: (re)arms the timer; an activation by an       *)
(* earlier timeout that did not run yet is withdrawn.                       *)
EventAdd ==
    /\ timer' = "pending"
    /\ res' = IF "EV_TIMEOUT" \in res THEN {} ELSE res

(* Faulty: nobody wakes the queue. *)
EventActiveMissing == UNCHANGED event

(* event_active(idle_event, EV_READ): flags of an active event accumulate. *)
EventActive ==
    /\ res' = res \cup {"EV_READ"}
    /\ timer' = timer

(* The timer of idle_event reaches its deadline. *)
TimeElapses ==
    /\ timer = "pending"
    /\ timer' = "due"
    /\ UNCHANGED <<protocol, res, ready, callback>>

(* Faulty: a timeout the poll never reports. *)
PollDroppingTimeouts ==
    /\ Quiet /\ ready = {} /\ res = {}
    /\ \E io \in SUBSET {"read", "issue"} : io # {} /\ ready' = io
    /\ UNCHANGED <<protocol, event, callback>>

(* One pass of the loop, nothing being active any more: the backend        *)
(* activates the callbacks of the descriptors, then an expired timer        *)
(* activates idle_event.                                                    *)
Poll ==
    /\ Quiet /\ ready = {} /\ res = {}
    /\ \E io \in SUBSET {"read", "issue"} :
          /\ io # {} \/ timer = "due"
          /\ ready' = io
    /\ res' = IF timer = "due" THEN {"EV_TIMEOUT"} ELSE {}
    /\ timer' = IF timer = "due" THEN "off" ELSE timer
    /\ UNCHANGED <<state, outstanding_requests, last_req_tbl_name, stall, callback>>

-----------------------------------------------------------------------------
(* oris_protocol_data_write *)

(* The part that sends: a query arms the timer and starts a wait, any      *)
(* other request leaves the connection IDLE with nothing armed.             *)
Transfer(r) ==
    \/ /\ r \in Name
       /\ state' = "WAIT_FOR_RESPONSE"
       /\ last_req_tbl_name' = r
       /\ EventAdd
    \/ /\ r = Plain
       /\ state' = "IDLE"
       /\ UNCHANGED <<last_req_tbl_name, event>>

(* Sent at once when IDLE, whatever is queued; enqueued otherwise. *)
Write(r) ==
    \/ /\ state = "IDLE"
       /\ Transfer(r)
       /\ stall' = IF r \in Name THEN "none" ELSE stall
       /\ UNCHANGED outstanding_requests
    \/ /\ state = "WAIT_FOR_RESPONSE"
       /\ outstanding_requests' = Append(outstanding_requests, r)
       /\ UNCHANGED <<state, last_req_tbl_name, stall, event>>

(* The running automation or command writes its next request. *)
WriteNext ==
    /\ todo # <<>>
    /\ Write(Head(todo))
    /\ todo' = Tail(todo)
    /\ UNCHANGED <<ready, lines, check>>

-----------------------------------------------------------------------------
(* oris_protocol_data_read_cb and process_line *)

(* The callback starts with the lines the buffer holds; an unusable line   *)
(* (empty, no field, a name of one character) has no effect and is left out. *)
RunRead ==
    /\ Quiet /\ "read" \in ready
    /\ ready' = ready \ {"read"}
    /\ lines' \in {s \in Segments : s = <<>> \/ Len(outstanding_requests) < MaxQueue}
    /\ UNCHANGED <<protocol, event, check, todo>>

(* A connection was established, an interval elapsed, or the operator      *)
(* typed a command.                                                         *)
RunIssue ==
    /\ Quiet /\ "issue" \in ready
    /\ ready' = ready \ {"issue"}
    /\ todo' \in {b \in Batches : b = <<>> \/ Len(outstanding_requests) < MaxQueue}
    /\ UNCHANGED <<protocol, event, lines, check>>

(* The row is stored; a complete table triggers its automation first of all. *)
ProcessLine ==
    /\ lines # <<>> /\ check = NoLine /\ todo = <<>>
    /\ lines' = Tail(lines)
    /\ IF Head(lines).complete
       THEN check' = Head(lines) /\ todo' = OnTable[Head(lines).name]
       ELSE UNCHANGED <<check, todo>>
    /\ UNCHANGED <<protocol, event, ready>>

(* strcmp of the names, or is_empty_reply: "Foo!|...|0" answers "?Foo". *)
Matches(l) ==
    \/ l.name = last_req_tbl_name
    \/ /\ l.empty
       /\ ~last_req_tbl_name.bang
       /\ l.name.base = last_req_tbl_name.base

(* Faulty: the reply does not end the wait of the timer: state is reset only. *)
FinishLineWithoutActivation ==
    /\ check # NoLine /\ todo = <<>>
    /\ check' = NoLine
    /\ IF state = "WAIT_FOR_RESPONSE" /\ Matches(check)
       THEN state' = "IDLE"
       ELSE UNCHANGED state
    /\ UNCHANGED <<outstanding_requests, last_req_tbl_name, stall, event, ready, lines, todo>>

(* After the automation: does the table answer what is asked for NOW?      *)
FinishLine ==
    /\ check # NoLine /\ todo = <<>>
    /\ check' = NoLine
    /\ IF state = "WAIT_FOR_RESPONSE" /\ Matches(check)
       THEN /\ state' = "IDLE"
            /\ EventActive
       ELSE UNCHANGED <<state, event>>
    /\ UNCHANGED <<outstanding_requests, last_req_tbl_name, stall, ready, lines, todo>>

-----------------------------------------------------------------------------
(* oris_protocol_data_idle_event_cb *)

(* Before the callback libevent deletes the event, its timer included.     *)
(* Activated by a timeout of this pass it may run before a timer callback   *)
(* with a later deadline; activated by a reply it runs last.                *)
RunIdle ==
    /\ Quiet /\ res # {} /\ "read" \notin ready
    /\ "issue" \in ready => "EV_TIMEOUT" \in res
    /\ UNCHANGED <<ready, callback>>

(* type == EV_TIMEOUT || type == EV_READ *)
Accepted == \E f \in Flags : res = {f}

(* A reply and a timeout in the same pass: the flags equal neither.        *)
IdleIgnored ==
    /\ RunIdle /\ ~Accepted
    /\ res' = {} /\ timer' = "off"
    /\ stall' = IF outstanding_requests = <<>> THEN stall ELSE "mixed"
    /\ UNCHANGED <<state, outstanding_requests, last_req_tbl_name>>

IdleNothingQueued ==
    /\ RunIdle /\ Accepted
    /\ outstanding_requests = <<>>
    /\ state' = "IDLE"
    /\ res' = {} /\ timer' = "off"
    /\ UNCHANGED <<outstanding_requests, last_req_tbl_name, stall>>

(* Faulty: the queued query is sent but its timer is never armed. *)
IdleSendsNextUnarmed ==
    /\ RunIdle /\ Accepted
    /\ outstanding_requests # <<>>
    /\ LET r == Head(outstanding_requests)
           rest == Tail(outstanding_requests)
       IN  /\ outstanding_requests' = rest
           /\ stall' = IF r = Plain /\ rest # <<>> THEN "plain" ELSE "none"
           /\ state' = IF r = Plain THEN "IDLE" ELSE "WAIT_FOR_RESPONSE"
           /\ last_req_tbl_name' = IF r = Plain THEN last_req_tbl_name ELSE r
           /\ res' = {} /\ timer' = "off"

(* The head of the queue is sent; a query arms the timer anew.             *)
IdleSendsNext ==
    /\ RunIdle /\ Accepted
    /\ outstanding_requests # <<>>
    /\ LET r == Head(outstanding_requests)
           rest == Tail(outstanding_requests)
       IN  /\ outstanding_requests' = rest
           /\ stall' = IF r = Plain /\ rest # <<>> THEN "plain" ELSE "none"
           /\ \/ /\ r \in Name
                 /\ state' = "WAIT_FOR_RESPONSE"
                 /\ last_req_tbl_name' = r
                 /\ res' = {} /\ timer' = "pending"
              \/ /\ r = Plain
                 /\ state' = "IDLE"
                 /\ res' = {} /\ timer' = "off"
                 /\ UNCHANGED last_req_tbl_name

-----------------------------------------------------------------------------
Init ==
    /\ state = "IDLE"
    /\ outstanding_requests = <<>>
    /\ last_req_tbl_name = NoName
    /\ timer = "off" /\ res = {}
    /\ ready = {}
    /\ lines = <<>> /\ check = NoLine /\ todo = <<>>
    /\ stall = "none"

IdleEventCb == IdleIgnored \/ IdleNothingQueued \/ IdleSendsNext

RunCallback ==
    \/ RunRead \/ RunIssue
    \/ WriteNext \/ ProcessLine \/ FinishLine
    \/ IdleEventCb

Next == TimeElapses \/ Poll \/ RunCallback

(* Descriptors need never become ready; an expired timer is polled, an     *)
(* active callback is run, and time passes.                                 *)
Fairness ==
    /\ WF_vars(TimeElapses)
    /\ WF_vars((timer = "due" /\ Poll) \/ RunCallback)

Spec == Init /\ [][Next]_vars /\ Fairness

-----------------------------------------------------------------------------
(* Properties *)

(* Types; and last_req_tbl_name, which strcmp and is_empty_reply           *)
(* dereference, is never NULL while a response is awaited.                  *)
TypeOK ==
    /\ state \in {"IDLE", "WAIT_FOR_RESPONSE"}
    /\ outstanding_requests \in Seq(Request)
    /\ last_req_tbl_name \in Name \cup {NoName}
    /\ timer \in {"off", "pending", "due"}
    /\ res \subseteq Flags
    /\ ready \subseteq {"read", "issue"}
    /\ lines \in Seq(Line)
    /\ check \in Line \cup {NoLine}
    /\ todo \in Seq(Request)
    /\ stall \in {"none", "mixed", "plain"}
    /\ state = "WAIT_FOR_RESPONSE" => last_req_tbl_name \in Name

(* idle_event is on its way and idle_event_cb will accept its type. *)
WakeUp == timer # "off" \/ Accepted

(* A wait never depends on the server alone: at every moment the timer of  *)
(* idle_event runs, or idle_event_cb is about to run with a type it accepts *)
(* - through replies, timeouts and queries written in the same pass.        *)
WaitHasWakeUp == state = "WAIT_FOR_RESPONSE" => WakeUp

(* The timer of an answered query never runs out on a later one: a timer   *)
(* that is armed while IDLE is deleted by an idle_event_cb already active.  *)
NoStaleTimer == state = "IDLE" /\ timer # "off" => "EV_READ" \in res

(* Requests are left behind in the queue of an IDLE connection, with no    *)
(* idle_event_cb on its way, in two situations only: a reply met its own    *)
(* timeout in one pass, or the request last taken from the queue was no     *)
(* query.                                                                   *)
StallExplained ==
    state = "IDLE" /\ outstanding_requests # <<>> => stall # "none" \/ res # {}

(* Every wait ends, whatever the server does: the reply is taken or         *)
(* idle_event_cb is about to run with a type it accepts.                    *)
WaitEnds == state = "WAIT_FOR_RESPONSE" ~> (state = "IDLE" \/ Accepted)

(* A non-empty queue is served again and again: idle_event_cb is about to  *)
(* run with a type it accepts, unless one of the two stalls happened.       *)
QueueServed ==
    outstanding_requests # <<>> ~> (stall # "none" \/ Accepted)

=============================================================================
