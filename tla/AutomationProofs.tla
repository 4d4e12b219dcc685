-------------------------- MODULE AutomationProofs --------------------------
(***************************************************************************)
(* Proofs about Automation, for any tables, programs and depth of loops.    *)
(* All loops over a table share its cursor.  The invariant tells whose the  *)
(* cursor is: that of the innermost loop over the table; and what a loop    *)
(* has put aside is where the next outer loop over the table stands.        *)
(***************************************************************************)
EXTENDS Automation, TLAPS

(* k is the innermost loop over t, or the next one over it around m.       *)
Innermost(t, k) == stack[k].tbl = t /\ \A m \in DOMAIN stack : m > k => stack[m].tbl # t
Around(t, k, m) == k < m /\ stack[k].tbl = t /\ \A l \in DOMAIN stack : k < l /\ l < m => stack[l].tbl # t

(* The cursor belongs to the innermost loop. *)
CursorOwned ==
    \A t \in Tables :
        \/ ~Looping(t) /\ current_row[t] \in {-1, 0}
        \/ \E k \in DOMAIN stack : Innermost(t, k) /\ (t \notin replaced => current_row[t] = stack[k].at)

(* Each loop is on a row of its table. *)
OnRows ==
    \A t \in Tables \ replaced : \A m \in DOMAIN stack :
        stack[m].tbl = t => stack[m].at \in 0 .. Len(rows[t]) - 1

(* Each loop will put back what the one around it stands on. *)
SavedOuter ==
    \A t \in Tables : \A m \in DOMAIN stack : stack[m].tbl = t =>
        \/ stack[m].saved \in {-1, 0} /\ \A k \in DOMAIN stack : k < m => stack[k].tbl # t
        \/ \E k \in DOMAIN stack : Around(t, k, m) /\ (t \notin replaced => stack[m].saved = stack[k].at)

Cursors == CursorOwned /\ OnRows /\ SavedOuter

(* A copy has created a table. *)
Created == \E x \in Actions : x.op = "copy" /\ x.dst \in known \ DOMAIN Loaded

(* The first frame is the trigger; loops lose their table only to new ones. *)
Frames ==
    /\ stack # <<>> => stack[1].tbl = NoTable
    /\ DOMAIN Loaded \subseteq known
    /\ \A k \in DOMAIN stack : ~stack[k].live => Created

IInv == TypeOK /\ Frames /\ Cursors

-----------------------------------------------------------------------------
(* The frames *)

LEMMA TopIsFrame ==
    ASSUME TypeOK, stack # <<>>
    PROVE  Len(stack) \in Nat \ {0} /\ Len(stack) \in DOMAIN stack /\ Top \in Frame
<1>1. stack \in Seq(Frame)
  BY DEF TypeOK
<1>. QED BY <1>1 DEF Top

(* The stack with another frame on top. *)
LEMMA NewTop ==
    ASSUME TypeOK, stack # <<>>, NEW f \in Frame
    PROVE  LET s == [stack EXCEPT ![Len(stack)] = f]
           IN  /\ s \in Seq(Frame) /\ Len(s) = Len(stack) /\ DOMAIN s = DOMAIN stack
               /\ s[Len(stack)] = f
               /\ \A k \in DOMAIN stack : k # Len(stack) => s[k] = stack[k]
<1>1. stack \in Seq(Frame)
  BY DEF TypeOK
<1>. QED BY <1>1, TopIsFrame

(* The next action is one of the configuration. *)
LEMMA ArgsAreActions ==
    ASSUME TypeOK, stack # <<>>, Top.rest # <<>>
    PROVE  Args \in Actions /\ Args \in Action /\ Tail(Top.rest) \in Seq(Actions)
<1>1. Top.rest \in Seq(Actions)
  BY TopIsFrame DEF Frame
<1>. QED BY <1>1, ConstantAssumption DEF Args

LEMMA PassedFrames ==
    ASSUME TypeOK, stack # <<>>, Top.rest # <<>>
    PROVE  /\ Passed \in Seq(Frame) /\ Len(Passed) = Len(stack) /\ DOMAIN Passed = DOMAIN stack
           /\ \A k \in DOMAIN stack :
                 /\ Passed[k].tbl = stack[k].tbl /\ Passed[k].saved = stack[k].saved
                 /\ Passed[k].at = stack[k].at /\ Passed[k].live = stack[k].live
<1> DEFINE f == [Top EXCEPT !.rest = Tail(@)]
<1>1. Top \in Frame /\ Len(stack) \in DOMAIN stack
  BY TopIsFrame
<1>2. f \in Frame /\ f.tbl = Top.tbl /\ f.saved = Top.saved /\ f.at = Top.at /\ f.live = Top.live
  BY <1>1, ArgsAreActions DEF Frame
<1>3. Passed = [stack EXCEPT ![Len(stack)] = f]
  BY <1>1 DEF Passed, Top
<1>4. Top = stack[Len(stack)]
  BY DEF Top
<1> HIDE DEF f
<1>. QED BY <1>1, <1>2, <1>3, <1>4, NewTop

LEMMA MovedAlike ==
    ASSUME NEW frames \in Seq(Frame), NEW moved \in MovedFrames(frames)
    PROVE  /\ moved \in Seq(Frame) /\ Len(moved) = Len(frames) /\ DOMAIN moved = DOMAIN frames
           /\ \A k \in DOMAIN frames :
                 /\ moved[k].tbl = frames[k].tbl /\ moved[k].saved = frames[k].saved
                 /\ moved[k].at = frames[k].at
<1> DEFINE other == [k \in DOMAIN frames |-> [frames[k] EXCEPT !.live = FALSE]]
<1>1. DOMAIN frames = 1 .. Len(frames) /\ Len(frames) \in Nat
  OBVIOUS
<1>2. \A k \in DOMAIN frames : frames[k] \in Frame
  BY <1>1
<1>3. \A k \in DOMAIN frames : /\ other[k] \in Frame /\ other[k].tbl = frames[k].tbl
                               /\ other[k].saved = frames[k].saved /\ other[k].at = frames[k].at
  BY <1>2 DEF Frame
<1>4. other \in Seq(Frame) /\ Len(other) = Len(frames) /\ DOMAIN other = DOMAIN frames
  BY <1>1, <1>3
<1>5. moved = frames \/ moved = other
  BY DEF MovedFrames
<1> HIDE DEF other
<1>. QED BY <1>3, <1>4, <1>5

-----------------------------------------------------------------------------
(* Where loops neither begin nor end nor turn *)

(* The cursor of a table stays, or the table was replaced under a loop, or  *)
(* no loop has it.                                                          *)
Kept(t) ==
    \/ current_row'[t] = current_row[t] /\ rows'[t] = rows[t] /\ (t \in replaced' <=> t \in replaced)
    \/ Looping(t) /\ t \in replaced'
    \/ ~Looping(t) /\ current_row'[t] \in {-1, 0}

LEMMA SameLoops ==
    ASSUME TypeOK, Cursors,
           DOMAIN stack' = DOMAIN stack,
           \A k \in DOMAIN stack : /\ stack'[k].tbl = stack[k].tbl
                                   /\ stack'[k].saved = stack[k].saved
                                   /\ stack'[k].at = stack[k].at,
           \A t \in Tables : Kept(t)
    PROVE  Cursors'
<1>1. \A t : Looping(t)' <=> Looping(t)
  BY DEF Looping
<1>2. \A t : \A k \in DOMAIN stack : Innermost(t, k)' <=> Innermost(t, k)
  BY DEF Innermost
<1>3. \A t : \A k, m \in DOMAIN stack : Around(t, k, m)' <=> Around(t, k, m)
  BY DEF Around
<1>4. \A t \in Tables : Looping(t) => \E k \in DOMAIN stack : Innermost(t, k)
  BY DEF Cursors, CursorOwned
<1>5. \A t \in Tables : \A m \in DOMAIN stack : stack[m].tbl = t => Looping(t)
  BY DEF Looping
<1>6. \A t \in Tables : Looping(t) /\ t \notin replaced' =>
           t \notin replaced /\ current_row'[t] = current_row[t] /\ rows'[t] = rows[t]
  BY DEF Kept
<1>7. CursorOwned'
  <2> SUFFICES ASSUME NEW t \in Tables
               PROVE  \/ ~Looping(t)' /\ current_row'[t] \in {-1, 0}
                      \/ \E k \in DOMAIN stack' :
                            Innermost(t, k)' /\ (t \notin replaced' => current_row'[t] = stack'[k].at)
    BY DEF CursorOwned
  <2>1. CASE Looping(t)
    <3>1. PICK k \in DOMAIN stack : Innermost(t, k) /\ (t \notin replaced => current_row[t] = stack[k].at)
      BY <2>1 DEF Cursors, CursorOwned
    <3>2. t \notin replaced' => current_row'[t] = stack'[k].at
      BY <2>1, <3>1, <1>6
    <3>. QED BY <3>1, <3>2, <1>2
  <2>2. CASE ~Looping(t)
    <3>1. current_row[t] \in {-1, 0}
      BY <2>2 DEF Cursors, CursorOwned, Innermost, Looping
    <3>2. current_row'[t] \in {-1, 0}
      BY <2>2, <3>1 DEF Kept
    <3>. QED BY <2>2, <3>2, <1>1
  <2>. QED BY <2>1, <2>2
<1>8. OnRows'
  BY <1>5, <1>6 DEF OnRows, Cursors
<1>9. SavedOuter'
  <2> SUFFICES ASSUME NEW t \in Tables, NEW m \in DOMAIN stack, stack[m].tbl = t
               PROVE  \/ stack'[m].saved \in {-1, 0} /\ \A k \in DOMAIN stack' : k < m => stack'[k].tbl # t
                      \/ \E k \in DOMAIN stack' :
                            Around(t, k, m)' /\ (t \notin replaced' => stack'[m].saved = stack'[k].at)
    BY DEF SavedOuter
  <2>1. CASE stack[m].saved \in {-1, 0} /\ \A k \in DOMAIN stack : k < m => stack[k].tbl # t
    BY <2>1
  <2>2. CASE \E k \in DOMAIN stack : Around(t, k, m) /\ (t \notin replaced => stack[m].saved = stack[k].at)
    <3>1. PICK k \in DOMAIN stack : Around(t, k, m) /\ (t \notin replaced => stack[m].saved = stack[k].at)
      BY <2>2
    <3>. QED BY <3>1, <1>3, <1>5, <1>6
  <2>. QED BY <2>1, <2>2 DEF Cursors, SavedOuter
<1>. QED BY <1>7, <1>8, <1>9 DEF Cursors


(* Reading puts a cursor that is nowhere on the first row; one that a loop  *)
(* has is somewhere.                                                        *)
LEMMA CheckedStays ==
    ASSUME TypeOK, Cursors, NEW t \in Tables,
           current_row' = [current_row EXCEPT ![t] = CheckedCursor(t)],
           rows' = rows, replaced' = replaced
    PROVE  /\ \A u \in Tables : Kept(u)
           /\ CheckedCursor(t) \in Int /\ CheckedCursor(t) >= -1
           /\ t \notin replaced /\ rows[t] # <<>> => CheckedCursor(t) \in 0 .. Len(rows[t]) - 1
<1>1. current_row[t] \in Int /\ current_row[t] >= -1 /\ rows[t] \in Seq(Nat)
  BY DEF TypeOK
<1>2. rows[t] # <<>> => Len(rows[t]) \in Nat \ {0}
  BY <1>1
<1>3. CheckedCursor(t) \in Int /\ CheckedCursor(t) >= -1
  BY <1>1 DEF CheckedCursor
<1>4. current_row'[t] = CheckedCursor(t) /\ \A u \in Tables \ {t} : current_row'[u] = current_row[u]
  BY DEF TypeOK
<1>5. CASE Looping(t)
  <2>1. PICK k \in DOMAIN stack : Innermost(t, k) /\ (t \notin replaced => current_row[t] = stack[k].at)
    BY <1>5 DEF Cursors, CursorOwned
  <2>2. t \notin replaced => current_row[t] \in 0 .. Len(rows[t]) - 1
    BY <2>1 DEF Cursors, OnRows, Innermost
  <2>3. t \notin replaced => CheckedCursor(t) = current_row[t]
    BY <1>1, <2>2 DEF CheckedCursor
  <2>. QED BY <1>3, <1>4, <1>5, <2>2, <2>3 DEF Kept
<1>6. CASE ~Looping(t)
  <2>1. current_row[t] \in {-1, 0}
    BY <1>6 DEF Cursors, CursorOwned, Innermost, Looping
  <2>2. CheckedCursor(t) \in {-1, 0} /\ (rows[t] # <<>> => CheckedCursor(t) = 0)
    BY <2>1 DEF CheckedCursor
  <2>3. rows[t] # <<>> => 0 \in 0 .. Len(rows[t]) - 1
    BY <1>2
  <2>. QED BY <1>3, <1>4, <1>6, <2>2, <2>3 DEF Kept
<1>. QED BY <1>5, <1>6

(* A table that is filled anew. *)
LEMMA RefilledKept ==
    ASSUME TypeOK, NEW t \in Tables, NEW r \in Seq(Nat), NEW n \in Nat,
           \A k \in DOMAIN r : r[k] <= n,
           Refilled(t, r, n),
           replaced' = IF Looping(t) THEN replaced \cup {t} ELSE replaced \ {t}
    PROVE  /\ \A u \in Tables : Kept(u)
           /\ rows' \in [Tables -> Seq(Nat)] /\ field_count' \in [Tables -> Nat]
           /\ current_row' \in [Tables -> Int] /\ \A u \in Tables : current_row'[u] >= -1
           /\ \A u \in Tables : \A k \in DOMAIN rows'[u] : rows'[u][k] <= field_count'[u]
           /\ replaced' \subseteq Tables
<1>1. /\ rows'[t] = r /\ field_count'[t] = n /\ current_row'[t] = -1
      /\ \A u \in Tables \ {t} : /\ rows'[u] = rows[u] /\ field_count'[u] = field_count[u]
                                 /\ current_row'[u] = current_row[u]
  BY DEF Refilled, TypeOK
<1>2. \A u \in Tables : Kept(u)
  BY <1>1 DEF Kept
<1>3. /\ rows' \in [Tables -> Seq(Nat)] /\ field_count' \in [Tables -> Nat]
      /\ current_row' \in [Tables -> Int] /\ replaced' \subseteq Tables
  BY DEF Refilled, TypeOK
<1>4. \A u \in Tables : current_row'[u] >= -1
  <2>1. \A u \in Tables : current_row[u] >= -1
    BY DEF TypeOK
  <2>. QED BY <1>1, <2>1
<1>5. \A u \in Tables : \A k \in DOMAIN rows'[u] : rows'[u][k] <= field_count'[u]
  <2>1. \A u \in Tables : \A k \in DOMAIN rows[u] : rows[u][k] <= field_count[u]
    BY DEF TypeOK
  <2>2. \A k \in DOMAIN rows'[t] : rows'[t][k] <= field_count'[t]
    BY <1>1, Zenon
  <2>3. \A u \in Tables \ {t} : \A k \in DOMAIN rows'[u] : rows'[u][k] <= field_count'[u]
    BY <1>1, <2>1, Zenon
  <2>. QED BY <2>2, <2>3
<1>. QED BY <1>2, <1>3, <1>4, <1>5

-----------------------------------------------------------------------------
(* The initial state *)

LEMMA InitIInv == Init => IInv
<1> SUFFICES ASSUME Init PROVE IInv
  OBVIOUS
<1>1. DOMAIN stack = {} /\ stack = <<>> /\ undefined = "none" /\ known = DOMAIN Loaded
  BY DEF Init
<1>2. TypeOK
  <2>1. \A t \in Tables : rows[t] \in Seq(Nat) /\ field_count[t] \in Nat
    <3> SUFFICES ASSUME NEW t \in Tables PROVE rows[t] \in Seq(Nat) /\ field_count[t] \in Nat
      OBVIOUS
    <3>1. CASE t \in known
      BY <1>1, <3>1, ConstantAssumption DEF Init
    <3>2. CASE t \notin known
      <4>1. rows[t] = <<>> /\ field_count[t] = 0
        BY <3>2 DEF Init
      <4>. QED BY <4>1
    <3>. QED BY <3>1, <3>2
  <2>2. \A t \in Tables : \A k \in DOMAIN rows[t] : rows[t][k] <= field_count[t]
    BY ConstantAssumption DEF Init
  <2>3. rows \in [Tables -> Seq(Nat)] /\ field_count \in [Tables -> Nat]
    BY <2>1 DEF Init
  <2>4. stack \in Seq(Frame)
    BY <1>1
  <2>. QED BY <1>1, <2>2, <2>3, <2>4, ConstantAssumption DEF Init, TypeOK
<1>3. Cursors
  BY <1>1 DEF Init, Cursors, CursorOwned, OnRows, SavedOuter, Looping
<1>. QED BY <1>1, <1>2, <1>3 DEF IInv, Frames, Created

-----------------------------------------------------------------------------
(* The actions *)

LEMMA StartIInv == ASSUME IInv, NEW p \in Seq(Actions), Start(p) PROVE IInv'
<1> DEFINE f == [tbl |-> NoTable, saved |-> -1, body |-> <<>>, rest |-> p, at |-> -1, live |-> TRUE]
<1>1. f \in Frame
  BY DEF Frame
<1>2. stack = <<>> /\ stack' = <<f>> /\ UNCHANGED <<tables, undefined, replaced>> /\ undefined = "none"
  BY DEF Start
<1>3. TypeOK'
  <2>1. <<f>> \in Seq(Frame)
    BY <1>1
  <2>2. events' \in 0 .. MaxEvents
    BY ConstantAssumption DEF Start, IInv, TypeOK
  <2>. QED BY <1>2, <2>1, <2>2 DEF IInv, TypeOK, tables
<1>4. DOMAIN stack' = {1} /\ stack'[1] = f
  BY <1>2
<1>5. f.tbl = NoTable /\ f.live
  OBVIOUS
<1> HIDE DEF f
<1>6. \A t \in Tables : ~Looping(t) /\ ~Looping(t)'
  BY <1>2, <1>4, <1>5, ConstantAssumption DEF Looping
<1>7. Cursors'
  <2>1. \A t \in Tables : \A m \in DOMAIN stack' : stack'[m].tbl # t
    BY <1>6 DEF Looping
  <2>2. \A t \in Tables : current_row'[t] \in {-1, 0}
    BY <1>2, <1>6 DEF IInv, Cursors, CursorOwned, Innermost, Looping, tables
  <2>. QED BY <1>6, <2>1, <2>2 DEF Cursors, CursorOwned, OnRows, SavedOuter
<1>8. Frames'
  BY <1>2, <1>4, <1>5 DEF IInv, Frames, Created, tables
<1>. QED BY <1>2, <1>3, <1>7, <1>8 DEF IInv

LEMMA EndTriggerIInv == ASSUME IInv, EndTrigger PROVE IInv'
<1>1. /\ stack' = <<>> /\ UNCHANGED <<tables, undefined, replaced, events>>
      /\ undefined = "none" /\ stack # <<>> /\ Len(stack) = 1
  BY DEF EndTrigger, Running
<1>2. DOMAIN stack' = {}
  BY <1>1
<1>3. DOMAIN stack = {1} /\ stack[1].tbl = NoTable
  BY <1>1 DEF IInv, Frames, TypeOK
<1>4. \A t \in Tables : ~Looping(t) /\ ~Looping(t)'
  BY <1>2, <1>3, ConstantAssumption DEF Looping
<1>5. TypeOK'
  <2>1. stack' \in Seq(Frame)
    BY <1>1
  <2>. QED BY <1>1, <2>1 DEF IInv, TypeOK, tables
<1>6. Cursors'
  <2>1. \A t \in Tables : current_row'[t] \in {-1, 0}
    BY <1>1, <1>4 DEF IInv, Cursors, CursorOwned, Innermost, Looping, tables
  <2>. QED BY <1>2, <1>4, <2>1 DEF Cursors, CursorOwned, OnRows, SavedOuter
<1>7. Frames'
  BY <1>1, <1>2 DEF IInv, Frames, Created, tables
<1>. QED BY <1>1, <1>5, <1>6, <1>7 DEF IInv

(* An action leaves the loops as they are but for the part that is to do.  *)
LEMMA PassedIInv ==
    ASSUME IInv, Running, Top.rest # <<>>, stack' = Passed, events' = events,
           known' = known, replaced' = replaced,
           \A t \in Tables : Kept(t)
    PROVE  Cursors' /\ Frames' /\ stack' \in Seq(Frame)
<1>1. stack # <<>>
  BY DEF Running
<1>2. /\ Passed \in Seq(Frame) /\ DOMAIN Passed = DOMAIN stack
      /\ \A k \in DOMAIN stack :
            /\ Passed[k].tbl = stack[k].tbl /\ Passed[k].saved = stack[k].saved
            /\ Passed[k].at = stack[k].at /\ Passed[k].live = stack[k].live
  BY <1>1, PassedFrames DEF IInv
<1>3. Cursors'
  BY <1>2, SameLoops DEF IInv
<1>4. 1 \in DOMAIN stack
  BY <1>1 DEF IInv, TypeOK
<1>5. Frames'
  BY <1>1, <1>2, <1>4 DEF IInv, Frames, Created
<1>. QED BY <1>2, <1>3, <1>5

LEMMA SkipIInv == ASSUME IInv, Skip PROVE IInv'
<1>1. /\ Running /\ Top.rest # <<>> /\ stack' = Passed
      /\ UNCHANGED <<tables, undefined, replaced, events>>
  BY DEF Skip
<1>2. \A t \in Tables : Kept(t)
  BY <1>1 DEF Kept, tables
<1>3. Cursors' /\ Frames' /\ stack' \in Seq(Frame)
  BY <1>1, <1>2, PassedIInv DEF tables
<1>4. TypeOK'
  BY <1>1, <1>3 DEF IInv, TypeOK, tables
<1>. QED BY <1>1, <1>3, <1>4 DEF IInv, Running

LEMMA ReadIInv == ASSUME IInv, Read PROVE IInv'
<1> DEFINE t == Args.tbl
<1>1. /\ Running /\ Top.rest # <<>> /\ stack' = Passed /\ undefined = "none" /\ stack # <<>>
      /\ UNCHANGED <<known, rows, field_count, replaced, events>>
  BY DEF Read, Current, Running
<1>2. /\ current_row' \in [Tables -> Int] /\ \A u \in Tables : current_row'[u] >= -1 /\ Kept(u)
      /\ undefined' \in {"none", "outside"}
  <2>1. CASE t = NoTable \/ t \notin known \/ rows[t] = <<>>
    BY <1>1, <2>1 DEF Read, IInv, TypeOK, Kept
  <2>2. CASE ~(t = NoTable \/ t \notin known \/ rows[t] = <<>>)
    <3>1. /\ current_row' = [current_row EXCEPT ![t] = CheckedCursor(t)]
          /\ undefined' = IF CheckedCursor(t) < Len(rows[t]) THEN "none" ELSE "outside"
          /\ rows[t] # <<>>
      BY <2>2 DEF Read
    <3>2. t \in Tables
      BY <2>2 DEF IInv, TypeOK
    <3> HIDE DEF t
    <3>3. /\ \A u \in Tables : Kept(u)
          /\ CheckedCursor(t) \in Int /\ CheckedCursor(t) >= -1
          /\ t \notin replaced /\ rows[t] # <<>> => CheckedCursor(t) \in 0 .. Len(rows[t]) - 1
      BY <1>1, <3>1, <3>2, CheckedStays DEF IInv
    <3>4. current_row' \in [Tables -> Int] /\ \A u \in Tables : current_row'[u] >= -1
      BY <3>1, <3>2, <3>3 DEF IInv, TypeOK
    <3>. QED BY <3>1, <3>3, <3>4
  <2>. QED BY <2>1, <2>2
<1>3. Cursors' /\ Frames' /\ stack' \in Seq(Frame)
  BY <1>1, <1>2, PassedIInv
<1>4. TypeOK'
  BY <1>1, <1>2, <1>3 DEF IInv, TypeOK
<1>. QED BY <1>3, <1>4 DEF IInv


LEMMA BeginLoopIInv == ASSUME IInv, BeginLoop PROVE IInv'
<1> DEFINE t == Args.tbl
           n == Len(stack)
           f == [tbl |-> t, saved |-> current_row[t], body |-> Args.body,
                 rest |-> Args.body, at |-> 0, live |-> TRUE]
<1>1. /\ Running /\ Top.rest # <<>> /\ undefined = "none" /\ stack # <<>>
      /\ UNCHANGED <<known, rows, field_count, undefined, replaced, events>>
  BY DEF BeginLoop, Current, Running
<1>2. t \in Tables /\ Args.body \in Seq(Actions)
  <2>1. Args \in Action /\ Args.op \in {"iterate", "foreach"}
    BY <1>1, ArgsAreActions DEF BeginLoop, Current, IInv
  <2>. QED BY <2>1 DEF Action
<1>3. CASE stack' = Passed /\ UNCHANGED current_row
  <2>1. \A u \in Tables : Kept(u)
    BY <1>1, <1>3 DEF Kept
  <2>2. Cursors' /\ Frames' /\ stack' \in Seq(Frame)
    BY <1>1, <1>3, <2>1, PassedIInv
  <2>3. TypeOK'
    BY <1>1, <1>3, <2>2 DEF IInv, TypeOK
  <2>. QED BY <1>1, <2>2, <2>3 DEF IInv
<1>4. CASE /\ rows[t] # <<>> /\ stack' = Append(Passed, f)
           /\ current_row' = [current_row EXCEPT ![t] = 0]
  <2>1. f \in Frame /\ f.tbl = t /\ f.saved = current_row[t] /\ f.at = 0 /\ f.live
    BY <1>2 DEF Frame, IInv, TypeOK
  <2>2. /\ Passed \in Seq(Frame) /\ Len(Passed) = n /\ n \in Nat \ {0} /\ DOMAIN stack = 1 .. n
        /\ \A k \in 1 .. n :
              /\ Passed[k].tbl = stack[k].tbl /\ Passed[k].saved = stack[k].saved
              /\ Passed[k].at = stack[k].at /\ Passed[k].live = stack[k].live
    BY <1>1, PassedFrames, TopIsFrame DEF IInv, TypeOK
  <2> HIDE DEF t, n, f
  <2>3. /\ stack' \in Seq(Frame) /\ DOMAIN stack' = 1 .. n + 1
        /\ stack'[n + 1] = f /\ \A k \in 1 .. n : stack'[k] = Passed[k]
    <3>1. Append(Passed, f) \in Seq(Frame) /\ Len(Append(Passed, f)) = n + 1
      BY <2>1, <2>2
    <3>. QED BY <1>4, <2>1, <2>2, <3>1
  <2>4. /\ \A k \in 1 .. n :
              /\ stack'[k].tbl = stack[k].tbl /\ stack'[k].saved = stack[k].saved
              /\ stack'[k].at = stack[k].at /\ stack'[k].live = stack[k].live
        /\ \A k \in 1 .. n + 1 : k \in 1 .. n \/ k = n + 1
        /\ \A k \in 1 .. n : k \in 1 .. n + 1 /\ k < n + 1
        /\ n + 1 \in 1 .. n + 1 /\ \A k \in 1 .. n + 1 : ~(k > n + 1)
    BY <2>2, <2>3
  <2>5. current_row'[t] = 0 /\ \A u \in Tables \ {t} : current_row'[u] = current_row[u]
    BY <1>2, <1>4 DEF IInv, TypeOK
  <2>6. TypeOK'
    <3>1. current_row' \in [Tables -> Int] /\ \A u \in Tables : current_row'[u] >= -1
      BY <1>2, <1>4, <2>5 DEF IInv, TypeOK
    <3>. QED BY <1>1, <2>3, <3>1 DEF IInv, TypeOK
  <2>7. Frames'
    <3>1. 1 \in 1 .. n /\ stack'[1].tbl = NoTable
      BY <1>1, <2>2, <2>4 DEF IInv, Frames, Created
    <3>2. \A k \in 1 .. n + 1 : ~stack'[k].live => Created'
      <4>1. Created' <=> Created
        BY <1>1 DEF Created
      <4>2. \A k \in 1 .. n : ~stack[k].live => Created
        BY <2>2 DEF IInv, Frames
      <4>. QED BY <2>1, <2>3, <2>4, <4>1, <4>2
    <3>. QED BY <1>1, <2>3, <3>1, <3>2 DEF IInv, Frames, Created
  <2>8. CursorOwned'
    <3> SUFFICES ASSUME NEW u \in Tables
                 PROVE  \/ ~Looping(u)' /\ current_row'[u] \in {-1, 0}
                        \/ \E k \in DOMAIN stack' :
                              Innermost(u, k)' /\ (u \notin replaced' => current_row'[u] = stack'[k].at)
      BY DEF CursorOwned
    <3>1. CASE u = t
      BY <2>1, <2>3, <2>4, <2>5, <3>1 DEF Innermost
    <3>2. CASE u # t
      <4>1. \A k \in 1 .. n : Innermost(u, k) => Innermost(u, k)'
        BY <2>1, <2>2, <2>3, <2>4, <3>2 DEF Innermost
      <4>2. Looping(u)' <=> Looping(u)
        BY <2>1, <2>2, <2>3, <2>4, <3>2 DEF Looping
      <4>3. CASE ~Looping(u) /\ current_row[u] \in {-1, 0}
        BY <2>5, <3>2, <4>2, <4>3
      <4>4. CASE \E k \in DOMAIN stack : Innermost(u, k) /\ (u \notin replaced => current_row[u] = stack[k].at)
        <5>1. PICK k \in 1 .. n : Innermost(u, k) /\ (u \notin replaced => current_row[u] = stack[k].at)
          BY <2>2, <4>4
        <5>. QED BY <1>1, <2>3, <2>4, <2>5, <3>2, <4>1, <5>1
      <4>. QED BY <4>3, <4>4 DEF IInv, Cursors, CursorOwned
    <3>. QED BY <3>1, <3>2
  <2>9. OnRows'
    <3>1. 0 \in 0 .. Len(rows[t]) - 1
      BY <1>2, <1>4 DEF IInv, TypeOK
    <3>2. \A u \in Tables \ replaced : \A m \in 1 .. n : stack'[m].tbl = u => stack'[m].at \in 0 .. Len(rows[u]) - 1
      BY <2>2, <2>4 DEF IInv, Cursors, OnRows
    <3>. QED BY <1>1, <2>1, <2>3, <2>4, <3>1, <3>2 DEF OnRows
  <2>10. SavedOuter'
    <3> SUFFICES ASSUME NEW u \in Tables, NEW m \in 1 .. n + 1, stack'[m].tbl = u
                 PROVE  \/ stack'[m].saved \in {-1, 0} /\ \A k \in 1 .. n + 1 : k < m => stack'[k].tbl # u
                        \/ \E k \in 1 .. n + 1 :
                              Around(u, k, m)' /\ (u \notin replaced' => stack'[m].saved = stack'[k].at)
      BY <2>3 DEF SavedOuter
    <3>1. CASE m = n + 1
      <4>1. u = t /\ stack'[m].saved = current_row[t]
        BY <2>1, <2>3, <3>1
      <4>2. CASE ~Looping(t) /\ current_row[t] \in {-1, 0}
        BY <2>2, <2>4, <3>1, <4>1, <4>2 DEF Looping
      <4>3. CASE \E k \in DOMAIN stack : Innermost(t, k) /\ (t \notin replaced => current_row[t] = stack[k].at)
        <5>1. PICK k \in 1 .. n : Innermost(t, k) /\ (t \notin replaced => current_row[t] = stack[k].at)
          BY <2>2, <4>3
        <5>2. Around(u, k, m)'
          BY <2>2, <2>3, <2>4, <3>1, <4>1, <5>1 DEF Around, Innermost
        <5>. QED BY <1>1, <2>4, <4>1, <5>1, <5>2
      <4>. QED BY <1>2, <4>2, <4>3 DEF IInv, Cursors, CursorOwned
    <3>2. CASE m \in 1 .. n
      <4>1. \A k \in 1 .. n : Around(u, k, m) => Around(u, k, m)'
        BY <2>2, <2>3, <2>4, <3>2 DEF Around
      <4>2. CASE stack[m].saved \in {-1, 0} /\ \A k \in DOMAIN stack : k < m => stack[k].tbl # u
        <5>1. \A k \in 1 .. n + 1 : k < m => k \in 1 .. n
          BY <2>2, <3>2
        <5>. QED BY <2>2, <2>4, <3>2, <4>2, <5>1
      <4>3. CASE \E k \in DOMAIN stack : Around(u, k, m) /\ (u \notin replaced => stack[m].saved = stack[k].at)
        <5>1. PICK k \in 1 .. n : Around(u, k, m) /\ (u \notin replaced => stack[m].saved = stack[k].at)
          BY <2>2, <4>3
        <5>2. stack'[m].saved = stack[m].saved /\ stack'[k].at = stack[k].at
          BY <2>4, <3>2, <5>1
        <5>3. Around(u, k, m)' /\ k \in 1 .. n + 1
          BY <2>4, <4>1, <5>1
        <5>. QED BY <1>1, <5>1, <5>2, <5>3
      <4>. QED BY <2>2, <2>4, <3>2, <4>2, <4>3 DEF IInv, Cursors, SavedOuter
    <3>. QED BY <2>4, <3>1, <3>2
  <2>. QED BY <1>1, <2>6, <2>7, <2>8, <2>9, <2>10 DEF IInv, Cursors
<1>. QED BY <1>3, <1>4 DEF BeginLoop


LEMMA UpdateIInv == ASSUME IInv, Update PROVE IInv'
<1> DEFINE t == Args.tbl
           index == IF Args.index = New THEN field_count[t] + 1 ELSE Args.index
<1>1. /\ Running /\ Top.rest # <<>> /\ stack' = Passed /\ undefined = "none" /\ stack # <<>>
      /\ UNCHANGED <<known, rows, replaced, events>>
  BY DEF Update, Current, Running
<1>2. t \in Tables /\ Args.index \in Nat \cup {New}
  <2>1. Args \in Action /\ Args.op \in {"update"}
    BY <1>1, ArgsAreActions DEF Update, Current, IInv
  <2>. QED BY <2>1 DEF Action
<1>3. field_count[t] \in Nat /\ index \in Nat /\ rows[t] \in Seq(Nat)
  BY <1>2 DEF IInv, TypeOK
<1>4. /\ current_row' \in [Tables -> Int] /\ \A u \in Tables : current_row'[u] >= -1 /\ Kept(u)
      /\ field_count' \in [Tables -> Nat] /\ \A u \in Tables : field_count'[u] >= field_count[u]
      /\ undefined' \in {"none", "outside", "field"}
  <2>1. CASE t \notin known
    BY <1>1, <2>1 DEF Update, IInv, TypeOK, Kept
  <2>2. CASE t \in known
    <3>1. /\ field_count' = [field_count EXCEPT ![t] = IF Args.index = New THEN index ELSE @]
          /\ current_row' = [current_row EXCEPT ![t] = CheckedCursor(t)]
          /\ undefined' = IF index \notin 1 .. field_count'[t] THEN "none"
                          ELSE IF CheckedCursor(t) \notin 0 .. (Len(rows[t]) - 1) THEN "outside"
                          ELSE IF index > rows[t][CheckedCursor(t) + 1] THEN "field"
                          ELSE "none"
      BY <2>2 DEF Update
    <3>2. index >= field_count[t] \/ Args.index # New
      BY <1>3
    <3> HIDE DEF t, index
    <3>3. /\ \A u \in Tables : Kept(u)
          /\ CheckedCursor(t) \in Int /\ CheckedCursor(t) >= -1
          /\ t \notin replaced /\ rows[t] # <<>> => CheckedCursor(t) \in 0 .. Len(rows[t]) - 1
      BY <1>1, <1>2, <3>1, CheckedStays DEF IInv
    <3>4. current_row' \in [Tables -> Int] /\ \A u \in Tables : current_row'[u] >= -1
      BY <1>2, <3>1, <3>3 DEF IInv, TypeOK
    <3>5. field_count' \in [Tables -> Nat] /\ \A u \in Tables : field_count'[u] >= field_count[u]
      BY <1>2, <1>3, <3>1, <3>2 DEF IInv, TypeOK
    <3>. QED BY <3>1, <3>3, <3>4, <3>5
  <2>. QED BY <2>1, <2>2
<1>5. Cursors' /\ Frames' /\ stack' \in Seq(Frame)
  BY <1>1, <1>4, PassedIInv
<1>6. \A u \in Tables : \A k \in DOMAIN rows[u] : rows[u][k] <= field_count'[u]
  <2>1. \A u \in Tables : \A k \in DOMAIN rows[u] :
            rows[u][k] \in Nat /\ rows[u][k] <= field_count[u] /\ field_count[u] \in Nat
    BY DEF IInv, TypeOK
  <2>2. \A u \in Tables : field_count'[u] \in Nat
    BY <1>4
  <2>. QED BY <1>4, <2>1, <2>2
<1>7. TypeOK'
  BY <1>1, <1>4, <1>5, <1>6 DEF IInv, TypeOK
<1>. QED BY <1>5, <1>7 DEF IInv

LEMMA CopyIInv == ASSUME IInv, Copy PROVE IInv'
<1> DEFINE s == Args.src
           d == Args.dst
<1>1. /\ Running /\ Top.rest # <<>> /\ undefined = "none" /\ stack # <<>>
      /\ known' = known \cup {d} /\ UNCHANGED <<undefined, events>>
      /\ stack' \in IF d \in known THEN {Passed} ELSE MovedFrames(Passed)
  BY DEF Copy, Current, Running
<1>2. s \in Tables /\ d \in Tables
  <2>1. Args \in Action /\ Args.op \in {"copy"}
    BY <1>1, ArgsAreActions DEF Copy, Current, IInv
  <2>. QED BY <2>1 DEF Action
<1>3. /\ Passed \in Seq(Frame) /\ DOMAIN Passed = DOMAIN stack
      /\ \A k \in DOMAIN stack :
            /\ Passed[k].tbl = stack[k].tbl /\ Passed[k].saved = stack[k].saved
            /\ Passed[k].at = stack[k].at /\ Passed[k].live = stack[k].live
  BY <1>1, PassedFrames DEF IInv
<1>4. /\ stack' \in Seq(Frame) /\ DOMAIN stack' = DOMAIN stack
      /\ \A k \in DOMAIN stack :
            /\ stack'[k].tbl = stack[k].tbl /\ stack'[k].saved = stack[k].saved
            /\ stack'[k].at = stack[k].at
            /\ d \in known => stack'[k].live = stack[k].live
  <2>1. CASE d \in known
    BY <1>1, <1>3, <2>1
  <2>2. CASE d \notin known
    <3>1. stack' \in MovedFrames(Passed)
      BY <1>1, <2>2
    <3>. QED BY <1>3, <2>2, <3>1, MovedAlike
  <2>. QED BY <2>1, <2>2
<1>5. /\ \A u \in Tables : Kept(u)
      /\ rows' \in [Tables -> Seq(Nat)] /\ field_count' \in [Tables -> Nat]
      /\ current_row' \in [Tables -> Int] /\ \A u \in Tables : current_row'[u] >= -1
      /\ \A u \in Tables : \A k \in DOMAIN rows'[u] : rows'[u][k] <= field_count'[u]
      /\ replaced' \subseteq Tables
  <2>1. CASE s \notin known'
    <3>1. UNCHANGED <<rows, field_count, current_row, replaced>>
      BY <2>1 DEF Copy
    <3>. QED BY <3>1 DEF IInv, TypeOK, Kept
  <2>2. CASE s \in known'
    <3>1. /\ IF s = d THEN Refilled(d, <<>>, 0) ELSE Refilled(d, rows[s], field_count[s])
          /\ replaced' = IF Looping(d) THEN replaced \cup {d} ELSE replaced \ {d}
      BY <2>2 DEF Copy
    <3>2. /\ rows[s] \in Seq(Nat) /\ field_count[s] \in Nat
          /\ \A k \in DOMAIN rows[s] : rows[s][k] <= field_count[s]
      BY <1>2 DEF IInv, TypeOK
    <3>3. <<>> \in Seq(Nat) /\ 0 \in Nat /\ DOMAIN <<>> = {}
      OBVIOUS
    <3> HIDE DEF s, d
    <3>4. CASE s = d
      <4>1. \A k \in DOMAIN <<>> : <<>>[k] <= 0
        BY <3>3
      <4>. QED BY <1>2, <3>1, <3>3, <3>4, <4>1, RefilledKept DEF IInv
    <3>5. CASE s # d
      BY <1>2, <3>1, <3>2, <3>5, RefilledKept DEF IInv
    <3>. QED BY <3>4, <3>5
  <2>. QED BY <2>1, <2>2
<1>6. Cursors'
  BY <1>4, <1>5, SameLoops DEF IInv
<1>7. Frames'
  <2>1. 1 \in DOMAIN stack
    BY <1>1 DEF IInv, TypeOK
  <2>2. stack' # <<>> => stack'[1].tbl = NoTable
    BY <1>1, <1>4, <2>1 DEF IInv, Frames, Created
  <2>3. ASSUME NEW k \in DOMAIN stack', ~stack'[k].live PROVE Created'
    <3>1. CASE d \in known
      BY <1>1, <1>4, <2>3, <3>1 DEF IInv, Frames, Created
    <3>2. CASE d \notin known
      <4>1. Args \in Actions /\ Args.op = "copy"
        BY <1>1, ArgsAreActions DEF Copy, Current, IInv
      <4>2. d \in known' \ DOMAIN Loaded
        BY <1>1, <3>2 DEF IInv, Frames, Created
      <4>. QED BY <4>1, <4>2 DEF Created
    <3>. QED BY <3>1, <3>2
  <2>. QED BY <1>1, <2>2, <2>3 DEF IInv, Frames, Created
<1>8. TypeOK'
  BY <1>1, <1>2, <1>4, <1>5 DEF IInv, TypeOK
<1>. QED BY <1>1, <1>6, <1>7, <1>8 DEF IInv

LEMMA LoopTurnIInv == ASSUME IInv, LoopTurn PROVE IInv'
<1> DEFINE t == Top.tbl
           n == Len(stack)
           f == [Top EXCEPT !.rest = Top.body, !.at = current_row[t] + 1]
<1>1. /\ undefined = "none" /\ stack # <<>> /\ t # NoTable
      /\ current_row[t] + 1 < Len(rows[t])
      /\ current_row' = [current_row EXCEPT ![t] = @ + 1]
      /\ UNCHANGED <<known, rows, field_count, undefined, replaced, events>>
  BY DEF LoopTurn, Running
<1>2. n \in Nat \ {0} /\ n \in DOMAIN stack /\ DOMAIN stack = 1 .. n /\ Top \in Frame /\ Top = stack[n]
  BY <1>1, TopIsFrame DEF IInv, TypeOK, Top
<1>3. t \in Tables
  BY <1>1, <1>2 DEF Frame
<1>4. /\ current_row[t] \in Int /\ current_row[t] >= -1
      /\ current_row'[t] = current_row[t] + 1
      /\ \A u \in Tables \ {t} : current_row'[u] = current_row[u]
  BY <1>1, <1>3 DEF IInv, TypeOK
<1>5. /\ f \in Frame /\ f.tbl = t /\ f.saved = Top.saved /\ f.live = Top.live
      /\ f.at = current_row[t] + 1
  <2> DEFINE g == [Top EXCEPT !.rest = Top.body]
  <2>1. g \in Frame /\ g.tbl = Top.tbl /\ g.saved = Top.saved /\ g.live = Top.live
    BY <1>2 DEF Frame
  <2>2. f = [g EXCEPT !.at = current_row[t] + 1]
    BY <1>2 DEF Frame
  <2>3. current_row[t] + 1 \in Int
    BY <1>4
  <2> HIDE DEF f, g
  <2>. QED BY <2>1, <2>2, <2>3 DEF Frame
<1>6. stack' = [stack EXCEPT ![n] = f]
  BY <1>2 DEF LoopTurn, Top
<1> HIDE DEF f
<1>7. /\ stack' \in Seq(Frame) /\ DOMAIN stack' = DOMAIN stack /\ stack'[n] = f
      /\ \A k \in DOMAIN stack : k # n => stack'[k] = stack[k]
  BY <1>1, <1>5, <1>6, NewTop DEF IInv
<1> HIDE DEF t, n
<1>8. /\ \A k \in DOMAIN stack : /\ stack'[k].tbl = stack[k].tbl /\ stack'[k].saved = stack[k].saved
                                 /\ stack'[k].live = stack[k].live
      /\ \A k \in DOMAIN stack : ~(k > n) /\ (stack[k].tbl # t => k # n)
      /\ stack[n].tbl = t
  BY <1>2, <1>5, <1>7 DEF t
<1>9. TypeOK'
  <2>1. current_row' \in [Tables -> Int] /\ \A u \in Tables : current_row'[u] >= -1
    BY <1>1, <1>3, <1>4 DEF IInv, TypeOK
  <2>. QED BY <1>1, <1>7, <2>1 DEF IInv, TypeOK
<1>10. Frames'
  BY <1>1, <1>2, <1>7, <1>8 DEF IInv, Frames, Created
<1>11. CursorOwned'
  <2> SUFFICES ASSUME NEW u \in Tables
               PROVE  \/ ~Looping(u)' /\ current_row'[u] \in {-1, 0}
                      \/ \E k \in DOMAIN stack' :
                            Innermost(u, k)' /\ (u \notin replaced' => current_row'[u] = stack'[k].at)
    BY DEF CursorOwned
  <2>1. CASE u = t
    BY <1>2, <1>4, <1>5, <1>7, <1>8, <2>1 DEF Innermost
  <2>2. CASE u # t
    <3>1. (Looping(u)' <=> Looping(u)) /\ \A k \in DOMAIN stack : Innermost(u, k) => Innermost(u, k)'
      BY <1>7, <1>8 DEF Looping, Innermost
    <3>2. CASE ~Looping(u) /\ current_row[u] \in {-1, 0}
      BY <1>4, <2>2, <3>1, <3>2
    <3>3. CASE \E k \in DOMAIN stack : Innermost(u, k) /\ (u \notin replaced => current_row[u] = stack[k].at)
      <4>1. PICK k \in DOMAIN stack : Innermost(u, k) /\ (u \notin replaced => current_row[u] = stack[k].at)
        BY <3>3
      <4>2. k # n
        BY <1>8, <2>2, <4>1 DEF Innermost
      <4>. QED BY <1>1, <1>4, <1>7, <2>2, <3>1, <4>1, <4>2
    <3>. QED BY <3>2, <3>3 DEF IInv, Cursors, CursorOwned
  <2>. QED BY <2>1, <2>2
<1>12. OnRows'
  <2>1. f.at \in 0 .. Len(rows[t]) - 1
    BY <1>1, <1>3, <1>4, <1>5 DEF IInv, TypeOK, t
  <2>. QED BY <1>1, <1>5, <1>7, <1>8, <2>1 DEF IInv, Cursors, OnRows
<1>13. SavedOuter'
  <2> SUFFICES ASSUME NEW u \in Tables, NEW m \in DOMAIN stack, stack[m].tbl = u
               PROVE  \/ stack'[m].saved \in {-1, 0} /\ \A k \in DOMAIN stack' : k < m => stack'[k].tbl # u
                      \/ \E k \in DOMAIN stack' :
                            Around(u, k, m)' /\ (u \notin replaced' => stack'[m].saved = stack'[k].at)
    BY <1>7, <1>8 DEF SavedOuter
  <2>1. CASE stack[m].saved \in {-1, 0} /\ \A k \in DOMAIN stack : k < m => stack[k].tbl # u
    BY <1>7, <1>8, <2>1
  <2>2. CASE \E k \in DOMAIN stack : Around(u, k, m) /\ (u \notin replaced => stack[m].saved = stack[k].at)
    <3>1. PICK k \in DOMAIN stack : Around(u, k, m) /\ (u \notin replaced => stack[m].saved = stack[k].at)
      BY <2>2
    <3>2. Around(u, k, m)'
      BY <1>7, <1>8, <3>1 DEF Around
    <3>3. k # n
      BY <1>2, <3>1 DEF Around
    <3>. QED BY <1>1, <1>7, <1>8, <3>1, <3>2, <3>3
  <2>. QED BY <2>1, <2>2 DEF IInv, Cursors, SavedOuter
<1>. QED BY <1>1, <1>9, <1>10, <1>11, <1>12, <1>13 DEF IInv, Cursors


LEMMA LoopEndIInv == ASSUME IInv, LoopEnd PROVE IInv'
<1> DEFINE t == Top.tbl
           n == Len(stack)
<1>1. /\ undefined = "none" /\ stack # <<>> /\ t # NoTable
      /\ current_row' = [current_row EXCEPT ![t] = Top.saved]
      /\ stack' = SubSeq(stack, 1, n - 1)
      /\ UNCHANGED <<known, rows, field_count, undefined, replaced, events>>
  BY DEF LoopEnd, Running, Popped
<1>2. /\ n \in Nat \ {0} /\ n \in DOMAIN stack /\ DOMAIN stack = 1 .. n
      /\ Top \in Frame /\ Top = stack[n] /\ stack \in Seq(Frame)
  BY <1>1, TopIsFrame DEF IInv, TypeOK, Top
<1>3. t \in Tables /\ Top.saved \in Int
  BY <1>1, <1>2 DEF Frame
<1>4. n # 1
  BY <1>1, <1>2 DEF IInv, Frames, Created
<1> HIDE DEF t, n
<1>5. /\ stack' \in Seq(Frame) /\ Len(stack') = n - 1 /\ DOMAIN stack' = 1 .. n - 1
      /\ \A k \in 1 .. n - 1 : stack'[k] = stack[k]
  BY <1>1, <1>2, <1>4
<1>6. /\ \A k \in 1 .. n - 1 : k \in 1 .. n /\ k < n
      /\ \A k \in 1 .. n : k < n => k \in 1 .. n - 1
      /\ \A k \in 1 .. n : k \in 1 .. n - 1 \/ k = n
      /\ 1 \in 1 .. n - 1 /\ stack[n].tbl = t
  BY <1>2, <1>4 DEF t
<1>7. current_row'[t] = Top.saved /\ \A u \in Tables \ {t} : current_row'[u] = current_row[u]
  BY <1>1, <1>3 DEF IInv, TypeOK
<1>8. \/ Top.saved \in {-1, 0} /\ \A k \in DOMAIN stack : k < n => stack[k].tbl # t
      \/ \E k \in DOMAIN stack : Around(t, k, n) /\ (t \notin replaced => Top.saved = stack[k].at)
  BY <1>2, <1>3, <1>6 DEF IInv, Cursors, SavedOuter
<1>9. CursorOwned'
  <2> SUFFICES ASSUME NEW u \in Tables
               PROVE  \/ ~Looping(u)' /\ current_row'[u] \in {-1, 0}
                      \/ \E k \in 1 .. n - 1 :
                            Innermost(u, k)' /\ (u \notin replaced' => current_row'[u] = stack'[k].at)
    BY <1>5 DEF CursorOwned
  <2>1. CASE u = t
    <3>1. CASE Top.saved \in {-1, 0} /\ \A k \in DOMAIN stack : k < n => stack[k].tbl # t
      <4>1. ~Looping(u)'
        BY <1>2, <1>5, <1>6, <2>1, <3>1 DEF Looping
      <4>. QED BY <1>7, <2>1, <3>1, <4>1
    <3>2. CASE \E k \in DOMAIN stack : Around(t, k, n) /\ (t \notin replaced => Top.saved = stack[k].at)
      <4>1. PICK k \in 1 .. n : Around(t, k, n) /\ (t \notin replaced => Top.saved = stack[k].at)
        BY <1>2, <3>2
      <4>2. k \in 1 .. n - 1
        BY <1>6, <4>1 DEF Around
      <4>3. Innermost(u, k)'
        BY <1>2, <1>5, <1>6, <2>1, <4>1, <4>2 DEF Around, Innermost
      <4>. QED BY <1>1, <1>5, <1>7, <2>1, <4>1, <4>2, <4>3
    <3>. QED BY <1>8, <3>1, <3>2
  <2>2. CASE u # t
    <3>1. CASE ~Looping(u) /\ current_row[u] \in {-1, 0}
      BY <1>2, <1>5, <1>6, <1>7, <2>2, <3>1 DEF Looping
    <3>2. CASE \E k \in DOMAIN stack : Innermost(u, k) /\ (u \notin replaced => current_row[u] = stack[k].at)
      <4>1. PICK k \in 1 .. n : Innermost(u, k) /\ (u \notin replaced => current_row[u] = stack[k].at)
        BY <1>2, <3>2
      <4>2. k \in 1 .. n - 1
        BY <1>6, <2>2, <4>1 DEF Innermost
      <4>3. Innermost(u, k)'
        BY <1>2, <1>5, <1>6, <4>1, <4>2 DEF Innermost
      <4>. QED BY <1>1, <1>5, <1>7, <2>2, <4>1, <4>2, <4>3
    <3>. QED BY <3>1, <3>2 DEF IInv, Cursors, CursorOwned
  <2>. QED BY <2>1, <2>2
<1>10. OnRows'
  BY <1>1, <1>2, <1>5, <1>6 DEF IInv, Cursors, OnRows
<1>11. SavedOuter'
  <2> SUFFICES ASSUME NEW u \in Tables, NEW m \in DOMAIN stack', stack'[m].tbl = u
               PROVE  \/ stack'[m].saved \in {-1, 0} /\ \A k \in DOMAIN stack' : k < m => stack'[k].tbl # u
                      \/ \E k \in DOMAIN stack' :
                            Around(u, k, m)' /\ (u \notin replaced' => stack'[m].saved = stack'[k].at)
    BY DEF SavedOuter
  <2>1. m \in DOMAIN stack /\ m < n /\ stack'[m] = stack[m] /\ stack[m].tbl = u
    BY <1>2, <1>5, <1>6
  <2>2. CASE stack[m].saved \in {-1, 0} /\ \A k \in DOMAIN stack : k < m => stack[k].tbl # u
    BY <1>2, <1>5, <1>6, <2>1, <2>2
  <2>3. CASE \E k \in DOMAIN stack : Around(u, k, m) /\ (u \notin replaced => stack[m].saved = stack[k].at)
    <3>1. PICK k \in 1 .. n : Around(u, k, m) /\ (u \notin replaced => stack[m].saved = stack[k].at)
      BY <1>2, <2>3
    <3>2. k \in DOMAIN stack' /\ stack'[k] = stack[k]
      BY <1>2, <1>5, <1>6, <2>1, <3>1 DEF Around
    <3>3. Around(u, k, m)'
      BY <1>2, <1>5, <1>6, <3>1, <3>2 DEF Around
    <3>. QED BY <1>1, <2>1, <3>1, <3>2, <3>3
  <2>. QED BY <2>1, <2>2, <2>3 DEF IInv, Cursors, SavedOuter
<1>12. TypeOK'
  <2>1. current_row' \in [Tables -> Int]
    BY <1>1, <1>3 DEF IInv, TypeOK
  <2>2. Top.saved >= -1
    BY <1>2 DEF Frame
  <2>3. \A u \in Tables : current_row'[u] >= -1
    BY <1>7, <2>2 DEF IInv, TypeOK
  <2>. QED BY <1>1, <1>5, <2>1, <2>3 DEF IInv, TypeOK
<1>13. Frames'
  BY <1>1, <1>2, <1>5, <1>6 DEF IInv, Frames, Created
<1>. QED BY <1>1, <1>9, <1>10, <1>11, <1>12, <1>13 DEF IInv, Cursors


LEMMA LoopDanglesIInv == ASSUME IInv, LoopDangles PROVE IInv'
<1>1. /\ stack # <<>> /\ ~Top.live /\ undefined' = "dangling"
      /\ UNCHANGED <<tables, stack, replaced, events>>
  BY DEF LoopDangles, Running
<1>3. TypeOK' /\ Frames'
  BY <1>1 DEF IInv, TypeOK, Frames, Created, tables
<1>4. \A t \in Tables : Kept(t)
  BY <1>1 DEF Kept, tables
<1>5. Cursors'
  BY <1>1, <1>4, SameLoops DEF IInv
<1>. QED BY <1>3, <1>5 DEF IInv

(* What happens to the tables between two triggers. *)
LEMMA ChangeIInv ==
    ASSUME IInv, Change, known \subseteq known', known' \subseteq Tables,
           rows' \in [Tables -> Seq(Nat)], field_count' \in [Tables -> Nat],
           current_row' \in [Tables -> Int], \A t \in Tables : current_row'[t] >= -1,
           \A t \in Tables : \A k \in DOMAIN rows'[t] : rows'[t][k] <= field_count'[t],
           replaced' \subseteq Tables,
           \A t \in Tables : Kept(t)
    PROVE  IInv'
<1>1. stack = <<>> /\ stack' = stack /\ undefined = "none" /\ undefined' = undefined
  BY DEF Change
<1>2. events' \in 0 .. MaxEvents
  BY ConstantAssumption DEF Change, IInv, TypeOK
<1>3. TypeOK'
  BY <1>1, <1>2 DEF IInv, TypeOK
<1>4. Cursors'
  BY <1>1, SameLoops DEF IInv
<1>5. DOMAIN stack = {}
  BY <1>1
<1>6. Frames'
  BY <1>1, <1>5 DEF IInv, Frames, Created
<1>. QED BY <1>1, <1>3, <1>4, <1>6 DEF IInv

LEMMA ClearTableIInv == ASSUME IInv, ClearTable PROVE IInv'
<1>1. PICK t \in known : Refilled(t, <<>>, 0) /\ replaced' = replaced \ {t}
  BY DEF ClearTable
<1>2. Change /\ known' = known /\ t \in Tables
  BY DEF ClearTable, IInv, TypeOK
<1>3. ~Looping(t)
  BY <1>2 DEF Change, Looping
<1>4. <<>> \in Seq(Nat) /\ 0 \in Nat /\ \A k \in DOMAIN <<>> : <<>>[k] <= 0
  OBVIOUS
<1>5. /\ \A u \in Tables : Kept(u)
      /\ rows' \in [Tables -> Seq(Nat)] /\ field_count' \in [Tables -> Nat]
      /\ current_row' \in [Tables -> Int] /\ \A u \in Tables : current_row'[u] >= -1
      /\ \A u \in Tables : \A k \in DOMAIN rows'[u] : rows'[u][k] <= field_count'[u]
      /\ replaced' \subseteq Tables
  BY <1>1, <1>2, <1>3, <1>4, RefilledKept DEF IInv
<1>. QED BY <1>2, <1>5, ChangeIInv DEF IInv, TypeOK

LEMMA AddRowIInv == ASSUME IInv, AddRow PROVE IInv'
<1>1. PICK t \in Tables, n \in Widths :
          /\ known' = known \cup {t}
          /\ rows' = [rows EXCEPT ![t] = Append(@, n)]
          /\ field_count' = [field_count EXCEPT ![t] = IF @ < n THEN n ELSE @]
  BY DEF AddRow
<1>2. Change /\ UNCHANGED <<current_row, replaced>> /\ n \in Nat
  BY ConstantAssumption DEF AddRow
<1>3. rows[t] \in Seq(Nat) /\ field_count[t] \in Nat /\ \A k \in DOMAIN rows[t] : rows[t][k] <= field_count[t]
  BY DEF IInv, TypeOK
<1>4. /\ Append(rows[t], n) \in Seq(Nat) /\ DOMAIN Append(rows[t], n) = 1 .. Len(rows[t]) + 1
      /\ \A k \in 1 .. Len(rows[t]) + 1 :
            Append(rows[t], n)[k] = n \/ (k \in DOMAIN rows[t] /\ Append(rows[t], n)[k] = rows[t][k])
  <2>1. Append(rows[t], n) \in Seq(Nat) /\ Len(Append(rows[t], n)) = Len(rows[t]) + 1
    BY <1>2, <1>3
  <2>2. \A k \in 1 .. Len(rows[t]) + 1 : k \in DOMAIN rows[t] \/ k = Len(rows[t]) + 1
    BY <1>3
  <2>. QED BY <1>2, <1>3, <2>1, <2>2
<1>5. /\ rows'[t] = Append(rows[t], n)
      /\ field_count'[t] = IF field_count[t] < n THEN n ELSE field_count[t]
      /\ \A u \in Tables \ {t} : rows'[u] = rows[u] /\ field_count'[u] = field_count[u]
  BY <1>1 DEF IInv, TypeOK
<1>6. rows' \in [Tables -> Seq(Nat)] /\ field_count' \in [Tables -> Nat]
  BY <1>1, <1>2, <1>4 DEF IInv, TypeOK
<1>7. \A k \in DOMAIN rows'[t] : rows'[t][k] <= field_count'[t]
  <2>1. \A k \in DOMAIN rows[t] : rows[t][k] \in Nat
    BY <1>3
  <2>. QED BY <1>2, <1>3, <1>4, <1>5, <2>1
<1>8. \A u \in Tables : \A k \in DOMAIN rows'[u] : rows'[u][k] <= field_count'[u]
  <2>1. \A u \in Tables : \A k \in DOMAIN rows[u] : rows[u][k] <= field_count[u]
    BY DEF IInv, TypeOK
  <2>2. \A u \in Tables \ {t} : \A k \in DOMAIN rows'[u] : rows'[u][k] <= field_count'[u]
    BY <1>5, <2>1, Zenon
  <2>. QED BY <1>7, <2>2
<1>9. \A u \in Tables : ~Looping(u) /\ current_row[u] \in {-1, 0}
  BY <1>2 DEF Change, Looping, IInv, Cursors, CursorOwned
<1>10. \A u \in Tables : Kept(u)
  BY <1>2, <1>9 DEF Kept
<1>. QED BY <1>1, <1>2, <1>6, <1>8, <1>10, ChangeIInv DEF IInv, TypeOK

LEMMA NextIInv == IInv /\ [Next]_vars => IInv'
<1> SUFFICES ASSUME IInv, [Next]_vars PROVE IInv'
  OBVIOUS
<1>1. CASE Trigger
  BY <1>1, StartIInv, ConstantAssumption DEF Trigger
<1>2. CASE TimerTrigger
  <2>1. PICK p \in Programs : p # <<>> /\ Start(IF Head(p).op = "iterate" THEN <<>> ELSE <<Head(p)>>)
    BY <1>2 DEF TimerTrigger
  <2>2. p \in Seq(Actions)
    BY ConstantAssumption
  <2>3. <<>> \in Seq(Actions) /\ <<Head(p)>> \in Seq(Actions)
    BY <2>1, <2>2
  <2>. QED BY <2>1, <2>3, StartIInv
<1>3. CASE Perform
  BY <1>3, EndTriggerIInv, SkipIInv, ReadIInv, BeginLoopIInv, UpdateIInv, CopyIInv, LoopTurnIInv,
     LoopEndIInv, LoopDanglesIInv DEF Perform
<1>4. CASE ClearTable
  BY <1>4, ClearTableIInv
<1>5. CASE AddRow
  BY <1>5, AddRowIInv
<1>6. CASE UNCHANGED vars
  <2>1. /\ UNCHANGED <<known, rows, field_count, current_row>>
        /\ UNCHANGED <<stack, undefined, replaced, events>>
    BY <1>6 DEF vars, tables
  <2>2. \A t \in Tables : Kept(t)
    BY <2>1 DEF Kept
  <2>3. Cursors'
    BY <2>1, <2>2, SameLoops DEF IInv
  <2>. QED BY <2>1, <2>3 DEF IInv, TypeOK, Frames, Created
<1>. QED BY <1>1, <1>2, <1>3, <1>4, <1>5, <1>6 DEF Next

LEMMA Invariance == Spec => []IInv
BY InitIInv, NextIInv, PTL DEF Spec

-----------------------------------------------------------------------------
(* How the program leaves its memory *)

Explained ==
    /\ undefined' = "outside" => Args.tbl \in replaced \/ (Args.op = "update" /\ rows[Args.tbl] = <<>>)
    /\ undefined' = "field" => rows[Args.tbl][CheckedCursor(Args.tbl) + 1] < field_count'[Args.tbl]
    /\ undefined' = "dangling" => Created

LEMMA ReadExplained == ASSUME IInv, Read PROVE Explained
<1>1. PICK t : t = Args.tbl
  OBVIOUS
<1>2. /\ undefined = "none" /\ rows' = rows /\ replaced' = replaced
      /\ \/ undefined' = undefined
         \/ /\ t \in known /\ rows[t] # <<>> /\ current_row' = [current_row EXCEPT ![t] = CheckedCursor(t)]
            /\ undefined' = IF CheckedCursor(t) < Len(rows[t]) THEN "none" ELSE "outside"
  BY <1>1 DEF Read, Current, Running
<1>3. ASSUME undefined' = "outside" PROVE t \in replaced
  <2>1. /\ t \in Tables /\ rows[t] # <<>> /\ ~(CheckedCursor(t) < Len(rows[t]))
        /\ current_row' = [current_row EXCEPT ![t] = CheckedCursor(t)]
    BY <1>2, <1>3 DEF IInv, TypeOK
  <2>2. t \notin replaced => CheckedCursor(t) \in 0 .. Len(rows[t]) - 1
    BY <1>2, <2>1, CheckedStays DEF IInv
  <2>3. Len(rows[t]) \in Nat
    BY <2>1 DEF IInv, TypeOK
  <2>. QED BY <2>1, <2>2, <2>3
<1>. QED BY <1>1, <1>2, <1>3 DEF Explained

LEMMA UpdateExplained == ASSUME IInv, Update PROVE Explained
<1>1. PICK t, index : t = Args.tbl /\ index = IF Args.index = New THEN field_count[t] + 1 ELSE Args.index
  OBVIOUS
<1>2. /\ undefined = "none" /\ rows' = rows /\ replaced' = replaced /\ Args.op = "update"
      /\ \/ undefined' = undefined
         \/ /\ t \in known /\ current_row' = [current_row EXCEPT ![t] = CheckedCursor(t)]
            /\ field_count' = [field_count EXCEPT ![t] = IF Args.index = New THEN index ELSE @]
            /\ undefined' = IF index \notin 1 .. field_count'[t] THEN "none"
                            ELSE IF CheckedCursor(t) \notin 0 .. (Len(rows[t]) - 1) THEN "outside"
                            ELSE IF index > rows[t][CheckedCursor(t) + 1] THEN "field"
                            ELSE "none"
  BY <1>1 DEF Update, Current, Running
<1>3. ASSUME undefined' = "outside" PROVE t \in replaced \/ rows[t] = <<>>
  <2>1. t \in Tables /\ CheckedCursor(t) \notin 0 .. (Len(rows[t]) - 1)
        /\ current_row' = [current_row EXCEPT ![t] = CheckedCursor(t)]
    BY <1>2, <1>3 DEF IInv, TypeOK
  <2>2. t \notin replaced /\ rows[t] # <<>> => CheckedCursor(t) \in 0 .. Len(rows[t]) - 1
    BY <1>2, <2>1, CheckedStays DEF IInv
  <2>. QED BY <2>1, <2>2
<1>4. ASSUME undefined' = "field" PROVE rows[t][CheckedCursor(t) + 1] < field_count'[t]
  <2>1. /\ t \in Tables /\ index \in 1 .. field_count'[t] /\ CheckedCursor(t) \in 0 .. (Len(rows[t]) - 1)
        /\ index > rows[t][CheckedCursor(t) + 1]
        /\ field_count' = [field_count EXCEPT ![t] = IF Args.index = New THEN index ELSE @]
    BY <1>2, <1>4 DEF IInv, TypeOK
  <2>2. rows[t] \in Seq(Nat) /\ field_count[t] \in Nat /\ field_count'[t] \in {field_count[t], index}
    BY <2>1 DEF IInv, TypeOK
  <2>3. index \in Int /\ (field_count'[t] = index \/ field_count'[t] \in Nat) /\ index <= field_count'[t]
    <3>1. index \in Nat
      <4>1. Args \in Action /\ Args.op = "update"
        BY <1>2, ArgsAreActions DEF IInv, Update, Current, Running
      <4>2. Args.index \in Nat \cup {New}
        BY <4>1 DEF Action
      <4>. QED BY <1>1, <2>2, <4>2
    <3>. QED BY <2>1, <2>2, <3>1
  <2>4. CheckedCursor(t) + 1 \in DOMAIN rows[t] /\ rows[t][CheckedCursor(t) + 1] \in Nat
    BY <2>1, <2>2
  <2>. QED BY <2>1, <2>2, <2>3, <2>4
<1>. QED BY <1>1, <1>2, <1>3, <1>4 DEF Explained

LEMMA DanglesExplained == ASSUME IInv, LoopDangles PROVE Explained
<1>1. stack # <<>> /\ ~Top.live /\ undefined' = "dangling"
  BY DEF LoopDangles, Running
<1>2. Created
  BY <1>1, TopIsFrame DEF IInv, Frames, Top
<1>. QED BY <1>1, <1>2 DEF Explained

LEMMA NextExplained == IInv /\ [Next]_vars => [Explained]_vars
<1> SUFFICES ASSUME IInv, [Next]_vars PROVE [Explained]_vars
  OBVIOUS
<1>1. CASE Trigger \/ TimerTrigger
  BY <1>1 DEF Trigger, TimerTrigger, Start, Explained
<1>2. CASE EndTrigger \/ Skip \/ BeginLoop \/ Copy \/ LoopTurn \/ LoopEnd
  <2>1. undefined' = undefined /\ undefined = "none"
    BY <1>2 DEF EndTrigger, Skip, BeginLoop, Copy, LoopTurn, LoopEnd, Current, Running
  <2>. QED BY <2>1 DEF Explained
<1>3. CASE Read \/ Update \/ LoopDangles
  BY <1>3, ReadExplained, UpdateExplained, DanglesExplained
<1>4. CASE ClearTable \/ AddRow
  BY <1>4 DEF ClearTable, AddRow, Change, Explained
<1>5. CASE UNCHANGED vars
  BY <1>5
<1>. QED BY <1>1, <1>2, <1>3, <1>4, <1>5 DEF Next, Perform

-----------------------------------------------------------------------------
(* The theorems *)

(* The state of tables and loops has its type; no row is wider than its     *)
(* table.                                                                   *)
THEOREM TypeCorrect == Spec => []TypeOK
<1>1. IInv => TypeOK
  BY DEF IInv
<1>. QED BY <1>1, Invariance, PTL

(* Every row once: at the end of a body the cursor is on the row the body   *)
(* began with, however deep loops over the same table nest.                 *)
THEOREM EveryRowOnce == Spec => []BodyKeepsRow
<1>1. IInv => BodyKeepsRow
  <2> SUFFICES ASSUME IInv, stack # <<>>, Top.tbl # NoTable, Top.tbl \notin replaced
               PROVE  current_row[Top.tbl] = Top.at
    BY DEF BodyKeepsRow, Running
  <2>1. Len(stack) \in DOMAIN stack /\ Top = stack[Len(stack)] /\ \A k \in DOMAIN stack : ~(k > Len(stack))
    BY TopIsFrame DEF IInv, TypeOK, Top
  <2>2. Top.tbl \in Tables /\ Looping(Top.tbl)
    BY <2>1, TopIsFrame DEF IInv, Frame, Looping
  <2>3. PICK k \in DOMAIN stack : Innermost(Top.tbl, k) /\ current_row[Top.tbl] = stack[k].at
    BY <2>2 DEF IInv, Cursors, CursorOwned
  <2>4. ~(Len(stack) > k)
    BY <2>1, <2>3 DEF Innermost
  <2>5. k = Len(stack)
    BY <2>1, <2>4 DEF IInv, TypeOK
  <2>. QED BY <2>1, <2>3, <2>5
<1>. QED BY <1>1, Invariance, PTL

(* A table no loop runs over has its cursor on the first row or nowhere.    *)
THEOREM CursorsReturn == Spec => []CursorsComeBack
<1>1. IInv => CursorsComeBack
  BY DEF IInv, Cursors, CursorOwned, CursorsComeBack, Innermost, Looping
<1>. QED BY <1>1, Invariance, PTL

(* The program leaves its memory for the four named reasons only, each in    *)
(* the table that the action at fault works on.                             *)
THEOREM FourReasons == Spec => UndefinedExplained
<1>1. IInv /\ [Next]_vars => [Explained]_vars
  BY NextExplained
<1>2. [Explained]_vars =>
        [/\ undefined' = "outside" => \/ Args.tbl \in replaced
                                      \/ Args.op = "update" /\ rows[Args.tbl] = <<>>
         /\ undefined' = "field" => rows[Args.tbl][CheckedCursor(Args.tbl) + 1] < field_count'[Args.tbl]
         /\ undefined' = "dangling" => \E x \in Actions : x.op = "copy" /\ x.dst \in known \ DOMAIN Loaded]_vars
  BY DEF Explained, Created
<1>. QED BY <1>1, <1>2, Invariance, PTL DEF Spec, UndefinedExplained

=============================================================================
