------------------------------ MODULE Gateway ------------------------------
(***************************************************************************)
(* A data connection as a whole: the protocol (DataProtocol) over a link   *)
(* that connects, breaks and is connected again                            *)
(* (src/src/oris_socket_connection.c), and the server at its other end.    *)
(*                                                                         *)
(* The protocol outlives the link: its state, its queue and its timer are  *)
(* those of the process, while every new link has a new bufferevent whose  *)
(* output buffer starts empty.  connection->write puts a request into that *)
(* buffer whatever the link is doing; libevent sends the buffer once the   *)
(* link is up.                                                             *)
(*                                                                         *)
(* Each step is a step of DataProtocol, of the link or of the server.  The *)
(* link is the one of SocketConnection seen from the protocol: its timers  *)
(* are one wait that ends, and both are links in the sense of DataLink.    *)
(***************************************************************************)
EXTENDS DataProtocol, FiniteSets

CONSTANTS
    OnConnect,  \* the requests the "connection established" automation writes
    Reply,      \* the lines the server answers a query with
    Unasked,    \* the lines the server may send on its own
    MaxTransit  \* bound: the server sends on its own below this number of lines on the way

(* The complete tables a sequence of lines holds. *)
Ends(s) == Cardinality({i \in 1 .. Len(s) : s[i].complete})

ASSUME LinkAssumption ==
    /\ OnConnect \in Batches
    /\ Reply \in [Name -> Seq(Line)]
    /\ \A n \in Name : Ends(Reply[n]) <= 1
    /\ Unasked \subseteq Seq(Line)
    /\ MaxTransit \in Nat

VARIABLES
    link,       \* "connecting", "up", "down"; "gone": killed by SIGPIPE
    output,     \* the queries in the output buffer of the bufferevent
    asked,      \* the queries the server has yet to answer
    wire,       \* the lines on their way to the gateway
    excuse,     \* history: why a query in flight may be joined by another one
    fresh       \* history: the tables that arrived since the link came up

transport == <<link, output, asked, wire>>
history == <<excuse, fresh>>
system == <<vars, transport, history>>

(* Queries without a complete answer, and answers that were not processed. *)
InFlight ==
    Len(output) + Len(asked) + Ends(wire) + Ends(lines) + (IF check = NoLine THEN 0 ELSE 1)

-----------------------------------------------------------------------------
(* History *)

(* idle_event_cb lets the next query pass: after a timeout, or because it  *)
(* runs for an earlier reply than the one awaited now.                      *)
LetsPass ==
    (IF "EV_TIMEOUT" \in res THEN {"timeout"} ELSE {})
        \cup (IF state = "WAIT_FOR_RESPONSE" /\ res = {"EV_READ"} THEN {"early"} ELSE {})

(* An excuse lasts while something is in flight. *)
Excuse(more) == excuse' = IF InFlight' = 0 THEN {} ELSE excuse \cup more

-----------------------------------------------------------------------------
(* The protocol writes: connection->write of oris_connection_t *)

(* bufferevent_write; the server answers queries only.                     *)
Buffer(r) == output' = IF r \in Name THEN Append(output, r) ELSE output

(* The running automation or command: sent or enqueued. *)
Send ==
    /\ WriteNext
    /\ IF state = "IDLE" THEN Buffer(Head(todo)) ELSE UNCHANGED output
    /\ UNCHANGED <<link, asked, wire, fresh>>
    /\ Excuse({})

(* idle_event_cb, which may send the head of the queue. *)
Idle ==
    /\ IdleEventCb
    /\ IF Accepted /\ outstanding_requests # <<>>
       THEN Buffer(Head(outstanding_requests))
       ELSE UNCHANGED output
    /\ UNCHANGED <<link, asked, wire, fresh>>
    /\ Excuse(LetsPass)

-----------------------------------------------------------------------------
(* The protocol reads *)

(* The read callback takes what has arrived: whole lines, here. *)
Receive ==
    /\ RunRead
    /\ \E n \in 0 .. Len(wire) :
          /\ n = 0 => wire = <<>> \/ Len(outstanding_requests) >= MaxQueue
          /\ lines' = SubSeq(wire, 1, n)
          /\ wire' = SubSeq(wire, n + 1, Len(wire))
    /\ UNCHANGED <<link, output, asked, fresh>>
    /\ Excuse({})

(* A complete table counts as fresh when its automation runs. *)
Store ==
    /\ ProcessLine
    /\ fresh' = IF Head(lines).complete THEN fresh \cup {Head(lines).name} ELSE fresh
    /\ UNCHANGED transport
    /\ Excuse({})

Finish ==
    /\ FinishLine
    /\ UNCHANGED <<transport, fresh>>
    /\ Excuse({})

(* Intervals and commands: they write whether the link is up or not. *)
Command ==
    /\ RunIssue
    /\ Len(todo') > 0 => InFlight < MaxTransit
    /\ UNCHANGED <<transport, history>>

-----------------------------------------------------------------------------
(* The link *)

(* Faulty: the protocol starts anew with every link. *)
ConnectedStartsIdle ==
    /\ link = "connecting"
    /\ Quiet /\ "issue" \in ready
    /\ ready' = ready \ {"issue"}
    /\ todo' = OnConnect
    /\ state' = "IDLE" /\ timer' = "off"
    /\ link' = "up"
    /\ fresh' = {}
    /\ UNCHANGED <<outstanding_requests, last_req_tbl_name, stall, res, lines, check,
                   output, asked, wire, excuse>>

(* BEV_EVENT_CONNECTED: connected_cb of the data protocol triggers the      *)
(* automation "connection established".                                     *)
Connected ==
    /\ link = "connecting"
    /\ RunIssue /\ todo' = OnConnect
    /\ link' = "up"
    /\ fresh' = {}
    /\ UNCHANGED <<output, asked, wire, excuse>>

(* The output buffer drains. *)
Flush ==
    /\ link = "up" /\ output # <<>>
    /\ output' = <<>>
    /\ asked' = asked \o output
    /\ UNCHANGED <<vars, link, wire, history>>

(* BEV_EVENT_ERROR or BEV_EVENT_EOF, while connecting or later: nothing of  *)
(* the protocol changes.                                                    *)
Break ==
    /\ link \in {"connecting", "up"}
    /\ Quiet /\ "read" \notin ready
    /\ link' = "down"
    /\ asked' = <<>> /\ wire' = <<>>
    /\ UNCHANGED <<vars, output, fresh>>
    /\ Excuse({})

(* The timer of the reconnect: bufferevent_free drops what was written to   *)
(* the dead link.                                                           *)
Reconnect ==
    /\ link = "down" /\ Quiet
    /\ link' = "connecting"
    /\ output' = <<>>
    /\ UNCHANGED <<vars, asked, wire, fresh>>
    /\ Excuse({})

(* A request is written to a socket the peer closed: nobody handles SIGPIPE. *)
Kill ==
    /\ link \in {"up", "down"} /\ output # <<>>
    /\ Quiet
    /\ link' = "gone"
    /\ UNCHANGED <<vars, output, asked, wire, history>>

Gone == link = "gone" /\ UNCHANGED system

-----------------------------------------------------------------------------
(* The server: it answers in the order it was asked. *)

Answer ==
    /\ asked # <<>>
    /\ asked' = Tail(asked)
    /\ wire' = wire \o Reply[Head(asked)]
    /\ UNCHANGED <<vars, link, output, history>>

(* It sends a table nobody asked for. *)
Push ==
    /\ link = "up" /\ InFlight < MaxTransit
    /\ \E s \in Unasked : wire' = wire \o s
    /\ excuse' = excuse \cup {"push"}
    /\ UNCHANGED <<vars, link, output, asked, fresh>>

-----------------------------------------------------------------------------
(* One pass of the loop: lines are read from a link that is up. *)
PollLink ==
    /\ Poll
    /\ "read" \in ready' => link = "up" /\ wire # <<>>
    /\ UNCHANGED <<transport, history>>

Time == TimeElapses /\ UNCHANGED <<transport, history>>

SystemInit ==
    /\ Init
    /\ link = "connecting" /\ output = <<>> /\ asked = <<>> /\ wire = <<>>
    /\ excuse = {} /\ fresh = {}

Protocol == Send \/ Idle \/ Receive \/ Store \/ Finish \/ Command \/ Connected

Running == Time \/ PollLink \/ Protocol \/ Flush \/ Break \/ Reconnect \/ Kill \/ Answer \/ Push

SystemNext == (link # "gone" /\ Running) \/ Gone

(* The loop runs and time passes; data on its way arrives and is read; a    *)
(* buffer drains.  Nothing need ever connect, break, push or be commanded.  *)
SystemFairness ==
    /\ WF_system(link # "gone" /\ Time)
    /\ WF_system(link # "gone" /\ ((timer = "due" /\ PollLink) \/ Protocol))
    /\ SF_system(link # "gone" /\ PollLink /\ "read" \in ready')
    /\ WF_system(Flush)

System == SystemInit /\ [][SystemNext]_system /\ SystemFairness

-----------------------------------------------------------------------------
(* Properties *)

(* Types of the link and the server. *)
LinkTypeOK ==
    /\ link \in {"connecting", "up", "down", "gone"}
    /\ output \in Seq(Name) /\ asked \in Seq(Name)
    /\ wire \in Seq(Line)
    /\ excuse \subseteq {"timeout", "early", "push"}
    /\ fresh \subseteq Name

(* The server is asked one thing at a time, over any number of broken       *)
(* links: a second query goes out while one is in flight only if a timeout  *)
(* passed, idle_event_cb ran for an earlier reply, or the server sent a     *)
(* table unasked.                                                           *)
OneAtATime == excuse = {} => InFlight <= 1

(* What is queued for an old link never keeps the new one from being used:  *)
(* whenever a link comes up, to a server that answers, all that the         *)
(* "connection established" automation asks for arrives, unless the link    *)
(* breaks or the queue stalls.                                              *)
Recovers ==
    WF_system(Answer) =>
        \A i \in 1 .. Len(OnConnect) :
            LET wanted == {Reply[OnConnect[i]][j].name : j \in 1 .. Len(Reply[OnConnect[i]])}
            IN  (link = "up") ~> (wanted \subseteq fresh \/ link # "up" \/ stall # "none")

=============================================================================
