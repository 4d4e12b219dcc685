--------------------------- MODULE ControlSession ---------------------------
(***************************************************************************)
(* Operators who steer the gateway over control connections: the server    *)
(* part of src/src/oris_socket_connection.c with src/src/oris_protocol_ctrl.c. *)
(*                                                                         *)
(* One callback handles all lines one read has brought, a step per line     *)
(* here; nothing else of the gateway runs until it returns.  Replies are    *)
(* only collected meanwhile, they are written later.                        *)
(***************************************************************************)
EXTENDS Integers, Sequences, SequencesExt

CONSTANTS
    Clients, NoClient,
    MaxRead,        \* bound: lines one read brings
    MaxLines        \* bound: lines of all operators, with the overlong ones

ASSUME ControlAssumption ==
    /\ NoClient \notin Clients
    /\ MaxRead \in Nat /\ MaxLines \in Nat

(* "other" stands for the commands that only show, for those of tables,     *)
(* targets and requests, for unknown names and for an empty line.            *)
Commands == {"exit", "pause", "resume", "terminate", "other"}
Replies == {"greeting", "bye", "terminating", "paused", "already paused", "resumed", "not paused",
            "too long", "done"}

VARIABLES
    paused,         \* the http actions of the automation are
    session,        \* of a client: "away", "open" or "closed"
    reading,        \* client whose read callback runs
    lines,          \* lines the callback has still to handle
    overlong,       \* more than 1024 bytes of an incomplete line are behind them
    close,          \* local variable of the callback
    output,         \* replies to a client that are not written yet
    seen,           \* history: replies a client has got
    typed,          \* history: lines so far
    program         \* "running", "stopping" or "ended"

callback == <<reading, lines, overlong, close>>
sessionVars == <<paused, session, callback, output, seen, typed, program>>

Idle == program = "running" /\ reading = NoClient

-----------------------------------------------------------------------------
(* oris_server_connection_do_accept and oris_protocol_ctrl_connected_cb *)
Accept(c) ==
    /\ Idle /\ session[c] = "away"
    /\ session' = [session EXCEPT ![c] = "open"]
    /\ output' = [output EXCEPT ![c] = <<"greeting">>]
    /\ UNCHANGED <<paused, callback, seen, typed, program>>

(* oris_server_socket_event_cb *)
ClientLeaves(c) ==
    /\ Idle /\ session[c] = "open"
    /\ session' = [session EXCEPT ![c] = "closed"]
    /\ output' = [output EXCEPT ![c] = <<>>]
    /\ UNCHANGED <<paused, callback, seen, typed, program>>

WriteOutput(c) ==
    /\ Idle /\ session[c] = "open" /\ output[c] # <<>>
    /\ seen' = [seen EXCEPT ![c] = @ \o output[c]]
    /\ output' = [output EXCEPT ![c] = <<>>]
    /\ UNCHANGED <<paused, session, callback, typed, program>>

-----------------------------------------------------------------------------
(* oris_protocol_ctrl_read_cb *)

StartRead(c) ==
    /\ Idle /\ session[c] = "open"
    /\ overlong' \in BOOLEAN
    /\ \E n \in 0..MaxRead : lines' \in [1..n -> Commands]
    /\ lines' # <<>> \/ overlong'
    /\ typed' = typed + Len(lines') + (IF overlong' THEN 1 ELSE 0)
    /\ typed' <= MaxLines
    /\ reading' = c
    /\ close' = FALSE
    /\ UNCHANGED <<paused, session, output, seen, program>>

(* A line is handled, be it what follows the discarded 1024 bytes or more   *)
(* of an overlong line.  The last line decides whether the session closes.   *)
Handle(cmd, reply) ==
    /\ reading # NoClient /\ lines # <<>> /\ Head(lines) = cmd
    /\ close' = (cmd = "exit")
    /\ lines' = Tail(lines)
    /\ output' = [output EXCEPT ![reading] = Append(@, reply)]
    /\ UNCHANGED <<session, reading, overlong, seen, typed>>

Exit == Handle("exit", "bye") /\ UNCHANGED <<paused, program>>

(* Faulty: the loop is not broken. *)
TerminateUnbroken == Handle("terminate", "terminating") /\ UNCHANGED <<paused, program>>

(* oris_builtin_cmd_terminate *)
Terminate ==
    /\ Handle("terminate", "terminating")
    /\ program' = "stopping"
    /\ UNCHANGED paused

(* oris_builtin_cmd_pause_resume *)
Pause ==
    /\ Handle("pause", IF paused THEN "already paused" ELSE "paused")
    /\ paused' = TRUE
    /\ UNCHANGED program

Resume ==
    /\ Handle("resume", IF paused THEN "resumed" ELSE "not paused")
    /\ paused' = FALSE
    /\ UNCHANGED program

Other == Handle("other", "done") /\ UNCHANGED <<paused, program>>

(* Faulty: neither exit nor a broken loop has a consequence. *)
EndReadForgetful ==
    /\ reading # NoClient /\ lines = <<>>
    /\ reading' = NoClient /\ overlong' = FALSE /\ close' = FALSE
    /\ output' = [output EXCEPT ![reading] = IF overlong THEN Append(@, "too long") ELSE @]
    /\ UNCHANGED <<paused, lines, session, seen, typed, program>>

(* What is left of an overlong line is drained; a closing session is freed  *)
(* with the replies it has not written; the loop ends if it was broken.     *)
EndRead ==
    /\ reading # NoClient /\ lines = <<>>
    /\ reading' = NoClient /\ overlong' = FALSE /\ close' = FALSE
    /\ program' = IF program = "stopping" THEN "ended" ELSE program
    /\ session' = IF close THEN [session EXCEPT ![reading] = "closed"] ELSE session
    /\ output' = [output EXCEPT ![reading] =
            IF close THEN <<>> ELSE IF overlong THEN Append(@, "too long") ELSE @]
    /\ UNCHANGED <<paused, lines, seen, typed>>

-----------------------------------------------------------------------------
SessionInit ==
    /\ paused = FALSE
    /\ session = [c \in Clients |-> "away"]
    /\ reading = NoClient /\ lines = <<>> /\ overlong = FALSE /\ close = FALSE
    /\ output = [c \in Clients |-> <<>>] /\ seen = [c \in Clients |-> <<>>]
    /\ typed = 0
    /\ program = "running"

ReadCallback == Exit \/ Terminate \/ Pause \/ Resume \/ Other \/ EndRead

SessionNext ==
    \/ \E c \in Clients : Accept(c) \/ ClientLeaves(c) \/ WriteOutput(c) \/ StartRead(c)
    \/ ReadCallback

SessionSpec == SessionInit /\ [][SessionNext]_sessionVars

-----------------------------------------------------------------------------
(* Properties *)

SessionTypeOK ==
    /\ paused \in BOOLEAN
    /\ session \in [Clients -> {"away", "open", "closed"}]
    /\ reading \in Clients \cup {NoClient}
    /\ lines \in Seq(Commands) /\ Len(lines) <= MaxRead
    /\ overlong \in BOOLEAN /\ close \in BOOLEAN
    /\ output \in [Clients -> Seq(Replies)] /\ seen \in [Clients -> Seq(Replies)]
    /\ typed \in 0..MaxLines
    /\ program \in {"running", "stopping", "ended"}
    /\ \A c \in Clients : output[c] # <<>> => session[c] = "open"

(* An exit with no line behind it in its read terminates the connection:    *)
(* "Bye!" is never the last word an operator who is still connected hears.   *)
LastExitTerminates ==
    \A c \in Clients :
        LET replies == seen[c] \o output[c]
        IN  session[c] = "open" /\ reading # c => replies # <<>> /\ replies[Len(replies)] # "bye"

(* What the help says of exit, "terminate connection": no operator who was  *)
(* told "Bye!" is still connected when the callback has returned.            *)
ExitTerminatesConnection ==
    \A c \in Clients :
        session[c] = "open" /\ reading # c => "bye" \notin ToSet(seen[c] \o output[c])

(* Nobody hears that the gateway terminates.                                *)
TerminatesSilently == \A c \in Clients : "terminating" \notin ToSet(seen[c])

=============================================================================
