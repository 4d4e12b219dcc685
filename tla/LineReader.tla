----------------------------- MODULE LineReader -----------------------------
(***************************************************************************)
(* oris_protocol_data_read_cb of src/src/oris_protocol_data.c: how the      *)
(* bytes of a TCP stream, cut into chunks anywhere, become lines.  One       *)
(* action per turn of the loop; the pointers p_start, p_end, bufstart and    *)
(* the counter buf_size become the sequence of the bytes still to process.   *)
(***************************************************************************)
EXTENDS Naturals, Sequences, FiniteSets, SequencesExt

CONSTANTS
    Bodies,     \* the lines the server sends, between the delimiters
    MaxChunk,   \* bound: bytes in a chunk
    Stx, Etx,   \* LINE_DELIM_START, LINE_DELIM_END
    Nul,        \* the byte written over a found LINE_DELIM_END
    Outside,    \* the byte in front of the allocated buffer
    Breaks      \* bound: how often the connection breaks and is made anew

(* Bytes of line i are the number i: a line tells where its bytes are from. *)
ASSUME BodiesAssumption ==
    /\ Bodies \in Seq(Seq(Nat))
    /\ \A i \in DOMAIN Bodies : Bodies[i] # <<>> /\ \A k \in DOMAIN Bodies[i] : Bodies[i][k] = i

(* No delimiter is a byte of a line.  The byte in front of the buffer is    *)
(* the last of the size the allocator keeps there: 0 unless that is huge.    *)
ASSUME DelimiterAssumption ==
    /\ {Stx, Etx, Nul, Outside} \cap DOMAIN Bodies = {}
    /\ Stx \notin {Etx, Nul, Outside} /\ Etx \notin {Nul, Outside}

ASSUME BoundsAssumption == MaxChunk \in Nat /\ Breaks \in Nat

VARIABLES
    pc,         \* "recv", "scan", "move": at the top, in the loop, behind it
    read,       \* how many bytes of the stream were read
    buffer,     \* bytes kept from the last callback; in it, bytes to process
    before,     \* the byte in front of them
    delivered,  \* the lines handed to process_line
    dangling,   \* history: lines whose first byte ended what a callback had read
    breaks      \* number of breaks so far

vars == <<pc, read, buffer, before, delivered, dangling, breaks>>

(* What the server sends up to the end of line i, and all it has to send.   *)
Sent[i \in 0..Len(Bodies)] == IF i = 0 THEN <<>> ELSE Sent[i - 1] \o <<Stx>> \o Bodies[i] \o <<Etx>>

Stream == Sent[Len(Bodies)]

(* The number of lines that were read to their end. *)
LinesRead == Cardinality({i \in DOMAIN Bodies : Len(Sent[i]) <= read})

(* The position of the first such byte, 0 if there is none. *)
Memchr(bytes, byte) == SelectInSeq(bytes, LAMBDA x : x = byte)

Position(byte) == Memchr(buffer, byte)

-----------------------------------------------------------------------------
(* oris_protocol_recv appends a chunk to what is kept; before it lies       *)
(* memory that does not belong to the buffer.                                *)
Recv ==
    /\ pc = "recv"
    /\ read' \in {n \in (read + 1)..(read + MaxChunk) : n <= Len(Stream)}
    /\ buffer' = buffer \o SubSeq(Stream, read + 1, read')
    /\ before' = Outside
    /\ pc' = "scan"
    /\ UNCHANGED <<delivered, dangling, breaks>>

(* Faulty: the end delimiter is taken for a byte of the line. *)
ScanLineWithEnd ==
    /\ pc = "scan" /\ Position(Stx) > 0
    /\ LET rest == SubSeq(buffer, Position(Stx) + 1, Len(buffer))
           end  == Memchr(rest, Etx)
       IN  /\ end > 0
           /\ delivered' = Append(delivered, SubSeq(rest, 1, end))
           /\ buffer' = SubSeq(rest, end + 1, Len(rest))
    /\ before' = Nul
    /\ UNCHANGED <<pc, read, dangling, breaks>>

(* Faulty: one line per callback, "if" for "while". *)
ScanOneLine ==
    /\ pc = "scan" /\ Position(Stx) > 0
    /\ LET rest == SubSeq(buffer, Position(Stx) + 1, Len(buffer))
           end  == Memchr(rest, Etx)
       IN  /\ end > 0
           /\ delivered' = Append(delivered, SubSeq(rest, 1, end - 1))
           /\ buffer' = SubSeq(rest, end + 1, Len(rest))
    /\ before' = Nul
    /\ pc' = "recv"
    /\ UNCHANGED <<read, dangling, breaks>>

(* Faulty: the line is handed on but stays in the buffer. *)
ScanLineAgain ==
    /\ pc = "scan" /\ Position(Stx) > 0
    /\ LET rest == SubSeq(buffer, Position(Stx) + 1, Len(buffer))
           end  == Memchr(rest, Etx)
       IN  end > 0 /\ delivered' = Append(delivered, SubSeq(rest, 1, end - 1))
    /\ UNCHANGED <<pc, read, buffer, before, dangling, breaks>>

(* LINE_DELIM_START with its LINE_DELIM_END: a line, and on with the loop.  *)
ScanLine ==
    /\ pc = "scan" /\ Position(Stx) > 0
    /\ LET rest == SubSeq(buffer, Position(Stx) + 1, Len(buffer))
           end  == Memchr(rest, Etx)
       IN  /\ end > 0
           /\ delivered' = Append(delivered, SubSeq(rest, 1, end - 1))
           /\ buffer' = SubSeq(rest, end + 1, Len(rest))
    /\ before' = Nul
    /\ UNCHANGED <<pc, read, dangling, breaks>>

(* Faulty: buf_size is not increased again, the start delimiter is lost. *)
ScanPartialWithoutStart ==
    /\ pc = "scan" /\ Position(Stx) \in 1..(Len(buffer) - 1)
    /\ LET rest == SubSeq(buffer, Position(Stx) + 1, Len(buffer))
       IN  /\ Etx \notin ToSet(rest)
           /\ buffer' = rest
    /\ pc' = "recv"
    /\ UNCHANGED <<read, before, delivered, dangling, breaks>>

(* "no delim found": the line is incomplete and kept from its first byte.   *)
ScanPartial ==
    /\ pc = "scan" /\ Position(Stx) \in 1..(Len(buffer) - 1)
    /\ LET rest == SubSeq(buffer, Position(Stx) + 1, Len(buffer))
       IN  /\ Etx \notin ToSet(rest)
           /\ buffer' = <<Stx>> \o rest
    /\ pc' = "recv"
    /\ UNCHANGED <<read, before, delivered, dangling, breaks>>

(* LINE_DELIM_START is the last byte: buf_size is 0 and nothing is kept.    *)
ScanDangling ==
    /\ pc = "scan" /\ Position(Stx) = Len(buffer) /\ buffer # <<>>
    /\ buffer' = <<>>
    /\ dangling' = dangling \cup {LinesRead + 1}
    /\ pc' = "recv"
    /\ UNCHANGED <<read, before, delivered, breaks>>

(* No LINE_DELIM_START: the loop ends at once, with bufstart unchanged.     *)
ScanNothing ==
    /\ pc = "scan" /\ Position(Stx) = 0
    /\ pc' = "move"
    /\ UNCHANGED <<read, buffer, before, delivered, dangling, breaks>>

(* memmove from bufstart - 1, which is in front of the bytes to process, and *)
(* in front of the buffer when no line was found: the bytes shift by one.    *)
Move ==
    /\ pc = "move"
    /\ buffer' = IF buffer = <<>> THEN <<>> ELSE <<before>> \o Front(buffer)
    /\ pc' = "recv"
    /\ UNCHANGED <<read, before, delivered, dangling, breaks>>

(* The connection breaks and is made anew; the server goes on with a later  *)
(* line.  Neither the buffer nor its size is reset.                          *)
Break ==
    /\ pc = "recv" /\ breaks < Breaks
    /\ read' \in {n \in read..Len(Stream) : n = Len(Stream) \/ Stream[n + 1] = Stx}
    /\ breaks' = breaks + 1
    /\ UNCHANGED <<pc, buffer, before, delivered, dangling>>

-----------------------------------------------------------------------------
Init ==
    /\ pc = "recv"
    /\ read = 0
    /\ buffer = <<>> /\ before = Outside
    /\ delivered = <<>> /\ dangling = {} /\ breaks = 0

Scan == ScanLine \/ ScanPartial \/ ScanDangling \/ ScanNothing

Next == Recv \/ Scan \/ Move \/ Break

Spec == Init /\ [][Next]_vars

-----------------------------------------------------------------------------
(* Properties *)

TypeOK ==
    /\ pc \in {"recv", "scan", "move"}
    /\ read \in 0..Len(Stream)
    /\ ToSet(buffer) \subseteq {Stx, Etx, Nul, Outside} \cup DOMAIN Bodies
    /\ before \in {Nul, Outside}
    /\ \A k \in DOMAIN delivered : ToSet(delivered[k]) \cap {Etx, Nul, Outside} = {}
    /\ dangling \subseteq DOMAIN Bodies
    /\ breaks \in 0..Breaks

(* However the stream is cut, the lines handed on are exactly the lines     *)
(* that were read to their end, whole and in order - but for those whose     *)
(* first byte was the last one a callback had read.                          *)
LostOnlyWhenDangling ==
    pc = "recv" /\ breaks = 0 =>
        /\ ToSet(delivered) = {Bodies[i] : i \in (1..LinesRead) \ dangling}
        /\ \A j, k \in DOMAIN delivered : j < k => Head(delivered[j]) < Head(delivered[k])

(* What a callback keeps is the beginning of one line, or bytes in which no *)
(* line can begin: kept bytes never hide a line, nor pile up, with the       *)
(* connection broken or not.                                                *)
KeepsAtMostOneLine ==
    pc = "recv" =>
        \/ /\ buffer # <<>> /\ Head(buffer) = Stx
           /\ Etx \notin ToSet(Tail(buffer))
        \/ Stx \notin ToSet(buffer)

(* A broken connection spoils one line at most: reading finds the           *)
(* beginning of a line again, whatever was left in the buffer.               *)
BreakSpoilsOneLine ==
    Cardinality({k \in DOMAIN delivered : delivered[k] \notin ToSet(Bodies)}) <= breaks

(* The reader is a channel that may lose lines; a line is the one its first  *)
(* byte belongs to, also when a broken connection glued another one to it.   *)
Channel == INSTANCE LineChannel WITH
    Lines <- Len(Bodies),
    got <- [k \in DOMAIN delivered |-> Head(delivered[k])]

ImplementsChannel == Channel!Spec

=============================================================================
