------------------------ MODULE ControlSessionProofs ------------------------
(***************************************************************************)
(* Proofs about ControlSession, for any number of operators and lines: a    *)
(* reply that ends a session is only there while the callback that gave it  *)
(* has still to close it, and one that ends the gateway only when nothing   *)
(* is written any more.                                                     *)
(***************************************************************************)
EXTENDS ControlSession, TLAPS

EndsWith(s, reply) == s # <<>> /\ s[Len(s)] = reply

(* The session of a callback is open, and only a callback stops the loop.  *)
Serving ==
    /\ reading # NoClient => session[reading] = "open"
    /\ program = "stopping" => reading # NoClient
    /\ reading = NoClient => lines = <<>>

(* "Bye!" is the last reply only of a session that is about to be closed.  *)
ByeCloses ==
    \A c \in Clients :
        /\ EndsWith(output[c], "bye") => c = reading /\ close
        /\ ~EndsWith(seen[c], "bye")

(* An operator who is connected was greeted, or is going to be. *)
Greeted == \A c \in Clients : session[c] = "open" => seen[c] # <<>> \/ output[c] # <<>>

(* The gateway says that it terminates when it does not run any more.      *)
Silent ==
    \A c \in Clients :
        /\ program = "running" => \A k \in DOMAIN output[c] : output[c][k] # "terminating"
        /\ \A k \in DOMAIN seen[c] : seen[c][k] # "terminating"

IInv == SessionTypeOK /\ Serving /\ ByeCloses /\ Greeted /\ Silent

-----------------------------------------------------------------------------
(* One more reply. *)
LEMMA OneMore ==
    ASSUME NEW s \in Seq(Replies), NEW r \in Replies
    PROVE  /\ Append(s, r) \in Seq(Replies) /\ Append(s, r) # <<>>
           /\ Append(s, r)[Len(Append(s, r))] = r
           /\ (\A k \in DOMAIN s : s[k] # "terminating") /\ r # "terminating"
                => \A k \in DOMAIN Append(s, r) : Append(s, r)[k] # "terminating"
<1>1. Append(s, r) \in Seq(Replies) /\ Len(Append(s, r)) = Len(s) + 1
  OBVIOUS
<1>2. Append(s, r) # <<>>
  <2>1. Len(<<>>) = 0 /\ Len(s) + 1 # 0
    OBVIOUS
  <2>. QED BY <1>1, <2>1, Zenon
<1>3. /\ DOMAIN s = 1 .. Len(s) /\ Len(s) \in Nat
      /\ \A k \in 1 .. Len(s) : Append(s, r)[k] = s[k]
  OBVIOUS
<1>4. Append(s, r)[Len(s) + 1] = r
  OBVIOUS
<1>5. DOMAIN Append(s, r) = 1 .. Len(s) + 1
  BY <1>1
<1>6. \A k \in 1 .. Len(s) + 1 : k \in 1 .. Len(s) \/ k = Len(s) + 1
  BY <1>3
<1>. QED BY <1>1, <1>2, <1>3, <1>4, <1>5, <1>6

(* The replies that are written, behind those that were.                   *)
LEMMA Written ==
    ASSUME NEW s \in Seq(Replies), NEW t \in Seq(Replies), t # <<>>
    PROVE  /\ s \o t \in Seq(Replies) /\ s \o t # <<>>
           /\ (s \o t)[Len(s \o t)] = t[Len(t)]
           /\ (\A k \in DOMAIN s : s[k] # "terminating") /\ (\A k \in DOMAIN t : t[k] # "terminating")
                => \A k \in DOMAIN (s \o t) : (s \o t)[k] # "terminating"
<1>1. s \o t \in Seq(Replies) /\ Len(s \o t) = Len(s) + Len(t) /\ Len(t) > 0
  OBVIOUS
<1>2. \A k \in 1 .. Len(s) + Len(t) : (s \o t)[k] = IF k <= Len(s) THEN s[k] ELSE t[k - Len(s)]
  OBVIOUS
<1>3. DOMAIN (s \o t) = 1 .. Len(s) + Len(t) /\ DOMAIN s = 1 .. Len(s) /\ DOMAIN t = 1 .. Len(t)
  OBVIOUS
<1>4. s \o t # <<>> /\ (s \o t)[Len(s) + Len(t)] = t[Len(t)]
  BY <1>1, <1>2
<1>5. \A k \in 1 .. Len(s) + Len(t) :
        (k <= Len(s) => k \in 1 .. Len(s)) /\ (~(k <= Len(s)) => k - Len(s) \in 1 .. Len(t))
  BY <1>1
<1>. QED BY <1>1, <1>2, <1>3, <1>4, <1>5

LEMMA InitIInv == SessionInit => IInv
<1> SUFFICES ASSUME SessionInit PROVE IInv
  OBVIOUS
<1>1. SessionTypeOK
  <2>1. <<>> \in Seq(Commands) /\ Len(<<>>) = 0 /\ <<>> \in Seq(Replies)
    OBVIOUS
  <2>2. 0 <= MaxRead /\ 0 \in 0 .. MaxLines
    BY ControlAssumption
  <2>. QED BY <2>1, <2>2 DEF SessionInit, SessionTypeOK
<1>2. Serving /\ ByeCloses /\ Greeted
  BY DEF SessionInit, Serving, ByeCloses, Greeted, EndsWith
<1>3. Silent
  BY DEF SessionInit, Silent
<1>. QED BY <1>1, <1>2, <1>3 DEF IInv

(* A line is handled. *)
LEMMA HandleIInv ==
    ASSUME IInv, NEW cmd \in Commands, NEW reply \in Replies, Handle(cmd, reply),
           reply = "bye" => cmd = "exit",
           paused' \in BOOLEAN,
           program' \in {"running", "stopping", "ended"},
           program' = program \/ program' = "stopping",
           reply = "terminating" => program' = "stopping"
    PROVE  IInv'
<1>1. /\ reading \in Clients /\ reading' = reading /\ reading # NoClient
      /\ lines # <<>> /\ lines' = Tail(lines) /\ close' = (cmd = "exit")
      /\ output' = [output EXCEPT ![reading] = Append(@, reply)]
      /\ UNCHANGED <<session, overlong, seen, typed>>
  BY DEF IInv, SessionTypeOK, Handle
<1>2. session[reading] = "open"
  BY <1>1 DEF IInv, Serving
<1>3. output[reading] \in Seq(Replies)
  BY <1>1 DEF IInv, SessionTypeOK
<1>4. /\ output'[reading] = Append(output[reading], reply)
      /\ \A c \in Clients \ {reading} : output'[c] = output[c]
  BY <1>1 DEF IInv, SessionTypeOK
<1>5. SessionTypeOK'
  <2>1. Tail(lines) \in Seq(Commands) /\ Len(Tail(lines)) <= MaxRead
    BY <1>1, ControlAssumption DEF IInv, SessionTypeOK
  <2>2. output' \in [Clients -> Seq(Replies)]
    BY <1>1, <1>3, OneMore DEF IInv, SessionTypeOK
  <2>3. close' \in BOOLEAN
    BY <1>1
  <2>4. \A c \in Clients : output'[c] # <<>> => session'[c] = "open"
    BY <1>1, <1>2, <1>4 DEF IInv, SessionTypeOK
  <2>. QED BY <1>1, <2>1, <2>2, <2>3, <2>4 DEF IInv, SessionTypeOK
<1>6. Serving'
  BY <1>1 DEF IInv, Serving
<1>7. ByeCloses'
  <2> SUFFICES ASSUME NEW c \in Clients
               PROVE  /\ EndsWith(output'[c], "bye") => c = reading' /\ close'
                      /\ ~EndsWith(seen'[c], "bye")
    BY DEF ByeCloses
  <2>1. ~EndsWith(seen'[c], "bye")
    BY <1>1 DEF IInv, ByeCloses
  <2>2. CASE c = reading
    <3>1. Append(output[c], reply)[Len(Append(output[c], reply))] = reply
      BY <1>3, <2>2, OneMore
    <3>2. EndsWith(output'[c], "bye") => reply = "bye"
      BY <1>4, <2>2, <3>1 DEF EndsWith
    <3>. QED BY <1>1, <2>1, <2>2, <3>2
  <2>3. CASE c # reading
    BY <1>1, <1>4, <2>1, <2>3 DEF IInv, ByeCloses
  <2>. QED BY <2>2, <2>3
<1>8. Silent'
  <2> SUFFICES ASSUME NEW c \in Clients
               PROVE  /\ program' = "running" => \A k \in DOMAIN output'[c] : output'[c][k] # "terminating"
                      /\ \A k \in DOMAIN seen'[c] : seen'[c][k] # "terminating"
    BY DEF Silent
  <2>1. \A k \in DOMAIN seen'[c] : seen'[c][k] # "terminating"
    BY <1>1 DEF IInv, Silent
  <2>2. ASSUME program' = "running"
        PROVE  \A k \in DOMAIN output'[c] : output'[c][k] # "terminating"
    <3>1. reply # "terminating" /\ \A k \in DOMAIN output[c] : output[c][k] # "terminating"
      BY <2>2 DEF IInv, Silent
    <3>2. CASE c = reading
      BY <1>3, <1>4, <3>1, <3>2, OneMore
    <3>3. CASE c # reading
      BY <1>4, <3>1, <3>3
    <3>. QED BY <3>2, <3>3
  <2>. QED BY <2>1, <2>2
<1>9. Greeted'
  <2>1. output'[reading] # <<>>
    BY <1>3, <1>4, OneMore
  <2>. QED BY <1>1, <1>4, <2>1 DEF IInv, Greeted
<1>. QED BY <1>5, <1>6, <1>7, <1>8, <1>9 DEF IInv

LEMMA LineIInv == IInv /\ (Exit \/ Terminate \/ Pause \/ Resume \/ Other) => IInv'
<1> SUFFICES ASSUME IInv, Exit \/ Terminate \/ Pause \/ Resume \/ Other PROVE IInv'
  OBVIOUS
<1>1. paused \in BOOLEAN /\ program \in {"running", "stopping", "ended"}
  BY DEF IInv, SessionTypeOK
<1>2. CASE Exit
  BY <1>1, <1>2, HandleIInv DEF Exit, Commands, Replies
<1>3. CASE Terminate
  BY <1>1, <1>3, HandleIInv DEF Terminate, Commands, Replies
<1>4. CASE Pause
  BY <1>1, <1>4, HandleIInv DEF Pause, Commands, Replies
<1>5. CASE Resume
  BY <1>1, <1>5, HandleIInv DEF Resume, Commands, Replies
<1>6. CASE Other
  BY <1>1, <1>6, HandleIInv DEF Other, Commands, Replies
<1>. QED BY <1>2, <1>3, <1>4, <1>5, <1>6

(* The callback returns. *)
LEMMA EndReadIInv == IInv /\ EndRead => IInv'
<1> SUFFICES ASSUME IInv, EndRead PROVE IInv'
  OBVIOUS
<1>1. /\ reading \in Clients /\ reading # NoClient /\ lines = <<>> /\ lines' = lines
      /\ reading' = NoClient /\ overlong' = FALSE /\ close' = FALSE
      /\ UNCHANGED <<paused, seen, typed>>
  BY DEF IInv, SessionTypeOK, EndRead
<1>2. session[reading] = "open" /\ output[reading] \in Seq(Replies) /\ "too long" \in Replies
  BY <1>1 DEF IInv, Serving, SessionTypeOK, Replies
<1>3. program' \in {"running", "ended"} /\ (program' = "running" => program = "running")
  BY DEF EndRead, IInv, SessionTypeOK
<1>4. \A c \in Clients \ {reading} : output'[c] = output[c] /\ session'[c] = session[c]
  BY DEF EndRead, IInv, SessionTypeOK
<1>5. \/ close /\ output'[reading] = <<>>
      \/ ~close /\ session' = session /\ output'[reading] = Append(output[reading], "too long")
      \/ ~close /\ session' = session /\ output'[reading] = output[reading]
  BY <1>1 DEF EndRead, IInv, SessionTypeOK
<1>6. /\ Append(output[reading], "too long") \in Seq(Replies)
      /\ ~EndsWith(Append(output[reading], "too long"), "bye")
      /\ (\A k \in DOMAIN output[reading] : output[reading][k] # "terminating")
            => \A k \in DOMAIN Append(output[reading], "too long") :
                  Append(output[reading], "too long")[k] # "terminating"
  BY <1>2, OneMore DEF EndsWith
<1>7. SessionTypeOK'
  <2>1. output' \in [Clients -> Seq(Replies)]
    <3>1. output'[reading] \in Seq(Replies)
      <4>1. <<>> \in Seq(Replies)
        OBVIOUS
      <4>. QED BY <1>2, <1>5, <1>6, <4>1
    <3>2. PICK s : output' = [output EXCEPT ![reading] = s]
      BY DEF EndRead
    <3>3. s \in Seq(Replies)
      BY <1>1, <3>1, <3>2 DEF IInv, SessionTypeOK
    <3>. QED BY <3>2, <3>3 DEF IInv, SessionTypeOK
  <2>2. session' \in [Clients -> {"away", "open", "closed"}]
    BY <1>1 DEF EndRead, IInv, SessionTypeOK
  <2>3. \A c \in Clients : output'[c] # <<>> => session'[c] = "open"
    BY <1>2, <1>4, <1>5 DEF IInv, SessionTypeOK
  <2>. QED BY <1>1, <1>3, <2>1, <2>2, <2>3 DEF IInv, SessionTypeOK
<1>8. Serving'
  BY <1>1, <1>3 DEF Serving
<1>9. ByeCloses'
  <2> SUFFICES ASSUME NEW c \in Clients PROVE ~EndsWith(output'[c], "bye") /\ ~EndsWith(seen'[c], "bye")
    BY DEF ByeCloses
  <2>1. ~EndsWith(seen'[c], "bye")
    BY <1>1 DEF IInv, ByeCloses
  <2>2. CASE c = reading
    BY <1>5, <1>6, <2>1, <2>2 DEF IInv, ByeCloses, EndsWith
  <2>3. CASE c # reading
    BY <1>4, <2>1, <2>3 DEF IInv, ByeCloses
  <2>. QED BY <2>2, <2>3
<1>10. Silent'
  <2> SUFFICES ASSUME NEW c \in Clients
               PROVE  /\ program' = "running" => \A k \in DOMAIN output'[c] : output'[c][k] # "terminating"
                      /\ \A k \in DOMAIN seen'[c] : seen'[c][k] # "terminating"
    BY DEF Silent
  <2>1. \A k \in DOMAIN seen'[c] : seen'[c][k] # "terminating"
    BY <1>1 DEF IInv, Silent
  <2>2. ASSUME program' = "running"
        PROVE  \A k \in DOMAIN output'[c] : output'[c][k] # "terminating"
    <3>1. \A k \in DOMAIN output[c] : output[c][k] # "terminating"
      BY <1>3, <2>2 DEF IInv, Silent
    <3>2. CASE c = reading
      <4>1. \A k \in DOMAIN <<>> : FALSE
        OBVIOUS
      <4>. QED BY <1>5, <1>6, <3>1, <3>2, <4>1
    <3>3. CASE c # reading
      BY <1>4, <3>1, <3>3
    <3>. QED BY <3>2, <3>3
  <2>. QED BY <2>1, <2>2
<1>11. Greeted'
  <2> SUFFICES ASSUME NEW c \in Clients, session'[c] = "open" PROVE seen'[c] # <<>> \/ output'[c] # <<>>
    BY DEF Greeted
  <2>1. CASE c = reading
    <3>1. session[c] = "open" /\ seen'[c] = seen[c]
      BY <1>1, <1>2, <2>1
    <3>2. CASE close
      <4>1. session'[c] = "closed"
        BY <2>1, <3>2 DEF EndRead, IInv, SessionTypeOK
      <4>. QED BY <4>1
    <3>3. CASE ~close
      <4>1. Append(output[c], "too long") # <<>>
        BY <1>2, <2>1, OneMore
      <4>. QED BY <1>5, <2>1, <3>1, <3>3, <4>1 DEF IInv, Greeted
    <3>. QED BY <3>2, <3>3
  <2>2. CASE c # reading
    BY <1>1, <1>4, <2>2 DEF IInv, Greeted
  <2>. QED BY <2>1, <2>2
<1>. QED BY <1>7, <1>8, <1>9, <1>10, <1>11 DEF IInv

-----------------------------------------------------------------------------
(* Between two reads *)

LEMMA AcceptIInv == ASSUME IInv, NEW c \in Clients, Accept(c) PROVE IInv'
<1>1. /\ Idle /\ session[c] = "away" /\ session' = [session EXCEPT ![c] = "open"]
      /\ output' = [output EXCEPT ![c] = <<"greeting">>]
      /\ UNCHANGED <<paused, reading, lines, overlong, close, seen, typed, program>>
  BY DEF Accept, callback
<1>2. <<"greeting">> \in Seq(Replies) /\ ~EndsWith(<<"greeting">>, "bye")
      /\ \A k \in DOMAIN <<"greeting">> : <<"greeting">>[k] # "terminating"
  BY DEF Replies, EndsWith
<1>3. output'[c] = <<"greeting">> /\ \A d \in Clients \ {c} : output'[d] = output[d]
  BY <1>1 DEF IInv, SessionTypeOK
<1>4. SessionTypeOK'
  BY <1>1, <1>2 DEF IInv, SessionTypeOK
<1>5. Serving'
  BY <1>1 DEF Idle, IInv, Serving
<1>6. ByeCloses'
  BY <1>1, <1>2, <1>3 DEF IInv, ByeCloses
<1>7. Silent'
  BY <1>1, <1>2, <1>3 DEF IInv, Silent
<1>8. Greeted'
  <2>1. <<"greeting">> # <<>>
    OBVIOUS
  <2>. QED BY <1>1, <1>3, <2>1 DEF IInv, SessionTypeOK, Greeted
<1>. QED BY <1>4, <1>5, <1>6, <1>7, <1>8 DEF IInv

LEMMA ClientLeavesIInv == ASSUME IInv, NEW c \in Clients, ClientLeaves(c) PROVE IInv'
<1>1. /\ Idle /\ session' = [session EXCEPT ![c] = "closed"]
      /\ output' = [output EXCEPT ![c] = <<>>]
      /\ UNCHANGED <<paused, reading, lines, overlong, close, seen, typed, program>>
  BY DEF ClientLeaves, callback
<1>2. output'[c] = <<>> /\ \A d \in Clients \ {c} : output'[d] = output[d]
  BY <1>1 DEF IInv, SessionTypeOK
<1>3. SessionTypeOK'
  BY <1>1 DEF IInv, SessionTypeOK
<1>4. Serving'
  BY <1>1 DEF Idle, IInv, Serving
<1>5. ByeCloses'
  BY <1>1, <1>2 DEF IInv, ByeCloses, EndsWith
<1>6. Silent'
  BY <1>1, <1>2 DEF IInv, Silent
<1>7. Greeted'
  <2>1. session'[c] = "closed" /\ \A d \in Clients \ {c} : session'[d] = session[d]
    BY <1>1 DEF IInv, SessionTypeOK
  <2>. QED BY <1>1, <1>2, <2>1 DEF IInv, Greeted
<1>. QED BY <1>3, <1>4, <1>5, <1>6, <1>7 DEF IInv

LEMMA WriteOutputIInv == ASSUME IInv, NEW c \in Clients, WriteOutput(c) PROVE IInv'
<1>1. /\ Idle /\ output[c] # <<>>
      /\ seen' = [seen EXCEPT ![c] = @ \o output[c]] /\ output' = [output EXCEPT ![c] = <<>>]
      /\ UNCHANGED <<paused, session, reading, lines, overlong, close, typed, program>>
  BY DEF WriteOutput, callback
<1>2. /\ output'[c] = <<>> /\ \A d \in Clients \ {c} : output'[d] = output[d]
      /\ seen'[c] = seen[c] \o output[c] /\ \A d \in Clients \ {c} : seen'[d] = seen[d]
      /\ seen[c] \in Seq(Replies) /\ output[c] \in Seq(Replies)
  BY <1>1 DEF IInv, SessionTypeOK
<1>3. SessionTypeOK'
  <2>1. seen' \in [Clients -> Seq(Replies)]
    <3>1. seen[c] \o output[c] \in Seq(Replies)
      BY <1>1, <1>2, Written
    <3>. QED BY <1>1, <3>1 DEF IInv, SessionTypeOK
  <2>2. output' \in [Clients -> Seq(Replies)] /\ \A d \in Clients : output'[d] # <<>> => output[d] # <<>>
    BY <1>1, <1>2 DEF IInv, SessionTypeOK
  <2>. QED BY <1>1, <2>1, <2>2 DEF IInv, SessionTypeOK
<1>4. Serving'
  BY <1>1 DEF Idle, IInv, Serving
<1>5. ByeCloses'
  <2>1. ~EndsWith(output[c], "bye")
    BY <1>1, ControlAssumption DEF Idle, IInv, ByeCloses
  <2>2. ~EndsWith(seen[c] \o output[c], "bye")
    BY <1>1, <1>2, <2>1, Written DEF EndsWith
  <2>. QED BY <1>1, <1>2, <2>2 DEF IInv, ByeCloses, EndsWith
<1>6. Silent'
  <2>1. \A k \in DOMAIN seen'[c] : seen'[c][k] # "terminating"
    BY <1>1, <1>2, Written DEF Idle, IInv, Silent
  <2>2. \A k \in DOMAIN output'[c] : output'[c][k] # "terminating"
    BY <1>2
  <2> SUFFICES ASSUME NEW d \in Clients
               PROVE  /\ program' = "running" => \A k \in DOMAIN output'[d] : output'[d][k] # "terminating"
                      /\ \A k \in DOMAIN seen'[d] : seen'[d][k] # "terminating"
    BY DEF Silent
  <2>3. CASE d = c
    BY <2>1, <2>2, <2>3
  <2>4. CASE d # c
    BY <1>1, <1>2, <2>4 DEF IInv, Silent
  <2>. QED BY <2>3, <2>4
<1>7. Greeted'
  <2>1. seen'[c] # <<>>
    BY <1>1, <1>2, Written
  <2>. QED BY <1>1, <1>2, <2>1 DEF IInv, Greeted
<1>. QED BY <1>3, <1>4, <1>5, <1>6, <1>7 DEF IInv

LEMMA StartReadIInv == ASSUME IInv, NEW c \in Clients, StartRead(c) PROVE IInv'
<1>1. /\ Idle /\ session[c] = "open" /\ overlong' \in BOOLEAN /\ reading' = c /\ close' = FALSE
      /\ UNCHANGED <<paused, session, output, seen, program>>
  BY DEF StartRead
<1>2. PICK n \in 0 .. MaxRead : lines' \in [1 .. n -> Commands]
  BY DEF StartRead
<1>3. lines' \in Seq(Commands) /\ Len(lines') = n /\ n \in Nat /\ n <= MaxRead
  BY <1>2, ControlAssumption
<1>4. typed' \in 0 .. MaxLines
  <2>1. typed' = typed + Len(lines') + (IF overlong' THEN 1 ELSE 0) /\ typed' <= MaxLines
    BY DEF StartRead
  <2>2. typed \in Nat
    BY ControlAssumption DEF IInv, SessionTypeOK
  <2>. QED BY <1>3, <2>1, <2>2, ControlAssumption
<1>5. SessionTypeOK'
  BY <1>1, <1>3, <1>4 DEF IInv, SessionTypeOK
<1>6. Serving'
  BY <1>1, ControlAssumption DEF Idle, Serving
<1>7. ByeCloses'
  BY <1>1, ControlAssumption DEF Idle, IInv, ByeCloses
<1>8. Silent'
  BY <1>1 DEF IInv, Silent
<1>9. Greeted'
  BY <1>1 DEF IInv, Greeted
<1>. QED BY <1>5, <1>6, <1>7, <1>8, <1>9 DEF IInv

LEMMA NextIInv == IInv /\ [SessionNext]_sessionVars => IInv'
<1> SUFFICES ASSUME IInv, [SessionNext]_sessionVars PROVE IInv'
  OBVIOUS
<1>1. CASE \E c \in Clients : Accept(c) \/ ClientLeaves(c) \/ WriteOutput(c) \/ StartRead(c)
  BY <1>1, AcceptIInv, ClientLeavesIInv, WriteOutputIInv, StartReadIInv
<1>2. CASE Exit \/ Terminate \/ Pause \/ Resume \/ Other
  BY <1>2, LineIInv
<1>3. CASE EndRead
  BY <1>3, EndReadIInv
<1>4. CASE UNCHANGED sessionVars
  BY <1>4 DEF sessionVars, callback, IInv, SessionTypeOK, Serving, ByeCloses, Greeted, Silent
<1>. QED BY <1>1, <1>2, <1>3, <1>4 DEF SessionNext, ReadCallback

LEMMA Invariance == SessionSpec => []IInv
BY InitIInv, NextIInv, PTL DEF SessionSpec

(* The state of the sessions has its type; replies wait only for operators  *)
(* who are there.                                                           *)
THEOREM TypeCorrect == SessionSpec => []SessionTypeOK
<1>1. IInv => SessionTypeOK
  BY DEF IInv
<1>. QED BY <1>1, Invariance, PTL

(* An exit that is the last line of its read terminates the connection.     *)
THEOREM LastExitIsObeyed == SessionSpec => []LastExitTerminates
<1>1. IInv => LastExitTerminates
  <2> SUFFICES ASSUME IInv, NEW c \in Clients, session[c] = "open", reading # c
               PROVE  LET replies == seen[c] \o output[c]
                      IN  replies # <<>> /\ replies[Len(replies)] # "bye"
    BY DEF LastExitTerminates
  <2>1. seen[c] \in Seq(Replies) /\ output[c] \in Seq(Replies)
    BY DEF IInv, SessionTypeOK
  <2>2. ~EndsWith(output[c], "bye") /\ ~EndsWith(seen[c], "bye") /\ (seen[c] # <<>> \/ output[c] # <<>>)
    BY DEF IInv, ByeCloses, Greeted
  <2>3. CASE output[c] # <<>>
    BY <2>1, <2>2, <2>3, Written DEF EndsWith
  <2>4. CASE output[c] = <<>>
    <3>1. seen[c] \o output[c] = seen[c]
      BY <2>1, <2>4
    <3>. QED BY <2>2, <2>4, <3>1 DEF EndsWith
  <2>. QED BY <2>3, <2>4
<1>. QED BY <1>1, Invariance, PTL

(* No operator reads that the gateway terminates. *)
THEOREM NobodyHears == SessionSpec => []TerminatesSilently
<1>1. IInv => TerminatesSilently
  BY DEF IInv, Silent, TerminatesSilently, ToSet
<1>. QED BY <1>1, Invariance, PTL

=============================================================================
