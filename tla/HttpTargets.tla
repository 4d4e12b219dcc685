---------------------------- MODULE HttpTargets ----------------------------
(***************************************************************************)
(* The HTTP targets of src/src/oris_http.c: one request of the gateway goes *)
(* to every enabled target, over one connection for each target that sends *)
(* its requests one after the other (libevent's evhttp).                    *)
(*                                                                         *)
(* The body is one buffer for all targets.  With -z, a long one is          *)
(* compressed behind its end and then drained by its old length: what is   *)
(* left, for this target and the next, is an empty buffer.                  *)
(***************************************************************************)
EXTENDS Integers, Sequences, SequencesExt

CONSTANTS
    Count,          \* number of targets, in the order of the configuration
    MaxRequests     \* bound: HTTP requests of the gateway

ASSUME HttpAssumption == Count \in Nat /\ MaxRequests \in Nat

Target == 1..Count
Methods == {"GET", "PUT"}               \* PUT stands for POST too, GET for DELETE
Bodies == {"none", "short", "long"}     \* "long": 128 bytes and more

Issue == [method : Methods, body : Bodies, to : SUBSET Target]
Request == [no : 1..MaxRequests, body : Bodies, typed : BOOLEAN, encoded : BOOLEAN]

VARIABLES
    compress,       \* -z
    paused,         \* by an operator
    enabled,        \* of a target
    issued,         \* history: requests of the gateway
    queue,          \* requests of a target's connection; the first is being sent
    connected,      \* a target's connection is up
    arrived         \* history: requests a target has got

targetsVars == <<compress, paused, enabled, issued, queue, connected, arrived>>

-----------------------------------------------------------------------------
(* Faulty: whatever the length of the body. *)
CompressesAny(method, body) == compress /\ method = "PUT" /\ body # "none"

(* http_compress_body for a target that is sent to *)
Compresses(method, body) == compress /\ method = "PUT" /\ body = "long"

(* What the targets before i have left of the body. *)
Left(method, body, i) ==
    IF Compresses(method, body) /\ \E j \in Target : j < i /\ enabled[j] THEN "none" ELSE body

RequestFor(i, no, method, body) ==
    LET left == Left(method, body, i)
        drained == Compresses(method, left)
    IN  [no |-> no, typed |-> left # "none", encoded |-> drained,
         body |-> IF method = "GET" \/ drained THEN "none" ELSE left]

(* oris_perform_http_on_targets *)
Perform(method, body) ==
    /\ Len(issued) < MaxRequests
    /\ issued' = Append(issued, [method |-> method, body |-> body,
                                 to |-> {i \in Target : enabled[i]}])
    /\ queue' = [i \in Target |->
            IF enabled[i] THEN Append(queue[i], RequestFor(i, Len(issued'), method, body))
            ELSE queue[i]]
    /\ UNCHANGED <<compress, paused, enabled, connected, arrived>>

(* oris_perform_http_with_buffer: an http action of the automation; while   *)
(* the gateway is paused it does nothing.                                    *)
AutomationHttp ==
    ~paused /\ \E method \in Methods, body \in Bodies : Perform(method, body)

(* oris_builtin_cmd_http: an operator's, also while the gateway is paused;   *)
(* only a PUT takes a body.                                                   *)
OperatorHttp ==
    \E method \in Methods, body \in Bodies :
        (method = "GET" => body = "none") /\ Perform(method, body)

(* oris_builtin_cmd_target *)
ModifyTarget ==
    /\ \E i \in Target, on \in BOOLEAN : enabled' = [enabled EXCEPT ![i] = on]
    /\ UNCHANGED <<compress, paused, issued, queue, connected, arrived>>

(* oris_builtin_cmd_pause_resume *)
PauseResume ==
    /\ paused' = ~paused
    /\ UNCHANGED <<compress, enabled, issued, queue, connected, arrived>>

-----------------------------------------------------------------------------
(* The connection of a target *)

Connect(i) ==
    /\ ~connected[i] /\ queue[i] # <<>>
    /\ connected' = [connected EXCEPT ![i] = TRUE]
    /\ UNCHANGED <<compress, paused, enabled, issued, queue, arrived>>

(* All that is queued is given up. *)
ConnectGivenUp(i) ==
    /\ ~connected[i] /\ queue[i] # <<>>
    /\ queue' = [queue EXCEPT ![i] = <<>>]
    /\ UNCHANGED <<compress, paused, enabled, issued, connected, arrived>>

(* Faulty: a failed request is not taken from the queue. *)
RequestFailsStays(i) ==
    /\ connected[i] /\ queue[i] # <<>>
    /\ \/ UNCHANGED arrived
       \/ Len(arrived[i]) < MaxRequests /\ arrived' = [arrived EXCEPT ![i] = Append(@, Head(queue[i]))]
    /\ connected' = [connected EXCEPT ![i] = FALSE]
    /\ UNCHANGED <<compress, paused, enabled, issued, queue>>

(* http_request_done_cb with an answer; the target may close afterwards.    *)
Answered(i) ==
    /\ connected[i] /\ queue[i] # <<>>
    /\ arrived' = [arrived EXCEPT ![i] = Append(@, Head(queue[i]))]
    /\ queue' = [queue EXCEPT ![i] = Tail(@)]
    /\ \E up \in BOOLEAN : connected' = [connected EXCEPT ![i] = up]
    /\ UNCHANGED <<compress, paused, enabled, issued>>

(* http_request_done_cb without one: the target may have got it or not.     *)
RequestFails(i) ==
    /\ connected[i] /\ queue[i] # <<>>
    /\ \/ UNCHANGED arrived
       \/ arrived' = [arrived EXCEPT ![i] = Append(@, Head(queue[i]))]
    /\ queue' = [queue EXCEPT ![i] = Tail(@)]
    /\ connected' = [connected EXCEPT ![i] = FALSE]
    /\ UNCHANGED <<compress, paused, enabled, issued>>

(* http_connection_close while nothing is sent. *)
Closed(i) ==
    /\ connected[i] /\ queue[i] = <<>>
    /\ connected' = [connected EXCEPT ![i] = FALSE]
    /\ UNCHANGED <<compress, paused, enabled, issued, queue, arrived>>

Exchange(i) == Connect(i) \/ ConnectGivenUp(i) \/ Answered(i) \/ RequestFails(i)

-----------------------------------------------------------------------------
(* oris_config_add_target for each target of the configuration *)
TargetsInit ==
    /\ compress \in BOOLEAN
    /\ paused = FALSE
    /\ enabled = [i \in Target |-> TRUE]
    /\ issued = <<>>
    /\ queue = [i \in Target |-> <<>>]
    /\ connected = [i \in Target |-> FALSE]
    /\ arrived = [i \in Target |-> <<>>]

TargetsNext ==
    \/ AutomationHttp \/ OperatorHttp \/ ModifyTarget \/ PauseResume
    \/ \E i \in Target : Exchange(i) \/ Closed(i)

(* Each connection makes progress, with an answer, an error or evhttp's      *)
(* timeout, whatever the others do.                                          *)
TargetsSpec == TargetsInit /\ [][TargetsNext]_targetsVars /\ \A i \in Target : WF_targetsVars(Exchange(i))

-----------------------------------------------------------------------------
(* Properties *)

TargetsTypeOK ==
    /\ compress \in BOOLEAN /\ paused \in BOOLEAN
    /\ enabled \in [Target -> BOOLEAN]
    /\ issued \in Seq(Issue) /\ Len(issued) <= MaxRequests
    /\ queue \in [Target -> Seq(Request)]
    /\ connected \in [Target -> BOOLEAN]
    /\ arrived \in [Target -> Seq(Request)]
    /\ \A i \in Target : Len(queue[i]) + Len(arrived[i]) <= Len(issued)

(* Failures and reconnects neither repeat nor overtake: a target gets the   *)
(* requests in the order of the gateway, each at most once.                  *)
ArriveOnceInOrder ==
    \A i \in Target : \A j, k \in DOMAIN arrived[i] : j < k => arrived[i][j].no < arrived[i][k].no

(* A PUT arrives without its body only if that was compressed; the Content- *)
(* Encoding it arrives with says so to the first target only.                *)
BodyLostOnlyWhenCompressed ==
    \A i \in Target : \A k \in DOMAIN arrived[i] :
        LET r == arrived[i][k]
            n == issued[r.no]
        IN  n.method = "PUT" /\ r.body # n.body =>
                /\ compress /\ n.body = "long"
                /\ r.encoded <=> \A j \in n.to : i <= j

(* Every request comes to its end at every target, answered or given up,    *)
(* though others are slow and operators and the automation go on.            *)
RequestsEnd == \A i \in Target : queue[i] # <<>> ~> queue[i] = <<>>

=============================================================================
