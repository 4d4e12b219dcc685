----------------------------- MODULE Expressions -----------------------------
(***************************************************************************)
(* The expressions of the configuration, evaluated by                      *)
(* src/src/grammars/oris_interpret_tools.c: values are cells of a memory    *)
(* pool, taken and given back by hand, and a cell is not cleared in between. *)
(*                                                                         *)
(* The tree walker visits operands before operators, so an expression is    *)
(* the sequence of its nodes in that order and the results not used yet are *)
(* a stack.  A text is the sequence of its characters (their codes).        *)
(***************************************************************************)
EXTENDS Integers, Sequences, SequencesExt, FiniteSetsExt

CONSTANTS
    Half,           \* the ints are -Half..(Half - 1)
    Expressions,    \* sequences of nodes: what the configuration holds
    Tables,         \* the tables by their names: names of fields, and rows
    Cells,          \* bound: cells of the pool
    MaxExpressions  \* bound: expressions evaluated

MinInt == -Half
MaxInt == Half - 1

Characters == 1..255
Texts == Seq(Characters)

Arithmetic == {"MINUS", "MUL", "DIV", "MOD", "OR", "AND"}
Comparison == {"EQUAL", "NOT_EQUAL", "LTH", "LE", "GE", "GT"}
Functions == {"LENGTH", "QUOTE", "TOKEN", "LPAD", "RPAD", "LOOKUP", "unknown"}

(* A record without a row is "" by number, and no text at all by name.      *)
Node ==
    [op : {"INTEGER"}, num : Nat] \cup [op : {"STRING", "RECORD"}, text : Texts]
        \cup [op : {"NORECORD", "PLUS"} \cup Arithmetic \cup Comparison]
        \cup [op : Functions, args : Nat \ {0}]

ASSUME IntAssumption == Half \in Nat /\ Half > 1

ASSUME TablesAssumption ==
    \A name \in DOMAIN Tables :
        Tables[name] \in [fields : Seq(Texts), rows : Seq(Seq(Texts))]

ASSUME PoolAssumption == Cells \in Nat /\ MaxExpressions \in Nat

VARIABLES
    pool,       \* cells, the list of the free ones, live strings, and how it was broken
    expression, \* what is evaluated; <<>>: nothing
    done,       \* how many of its nodes have been visited
    stack,      \* cells of the results not used yet; Null for NULL
    meaning,    \* history: what these results mean, whatever the pool held
    sound,      \* history: all expressions so far were sound
    lost,       \* history: cells nobody will give back
    leftover,   \* strings in no cell that nobody will give back, how many
    tokens,     \* history: TOKENs in the expressions so far
    evaluated   \* expressions so far

interpreter == <<pool, expression, done, stack, meaning, sound, lost, leftover, tokens, evaluated>>

Cell == 1..Cells
Null == 0

-----------------------------------------------------------------------------
(* Values *)

Nothing == [type |-> "nothing", num |-> 0, text |-> <<>>]   \* NULL
Unset == [type |-> "unset", num |-> 0, text |-> <<>>]       \* a result never assigned
IntValue(n) == [type |-> "int", num |-> n, text |-> <<>>]
TextValue(t) == [type |-> "string", num |-> 0, text |-> t]

NaN == MaxInt + 1
Minus == 45
Signs == {43, Minus}
Digits == 48..57
Spaces == {32} \cup 9..13

Absolute(n) == IF n < 0 THEN -n ELSE n

(* The number these digits stand for. *)
Amount(digits) ==
    LET upTo[k \in 0..Len(digits)] == IF k = 0 THEN 0 ELSE 10 * upTo[k - 1] + digits[k] - 48
    IN  upTo[Len(digits)]

(* oris_strtoint: strtol to the end of the text; an empty text is 0.        *)
Parsed(t) ==
    LET word == SubSeq(t, Min({k \in DOMAIN t : t[k] \notin Spaces} \cup {Len(t) + 1}), Len(t))
        digits == IF word # <<>> /\ Head(word) \in Signs THEN Tail(word) ELSE word
        n == IF word # <<>> /\ Head(word) = Minus THEN -Amount(digits) ELSE Amount(digits)
    IN  IF t = <<>> THEN 0
        ELSE IF digits = <<>> \/ ~(ToSet(digits) \subseteq Digits) \/ n \notin MinInt..MaxInt THEN NaN
        ELSE n

Numeral[n \in Nat] == IF n < 10 THEN <<48 + n>> ELSE Append(Numeral[n \div 10], 48 + (n % 10))

(* oris_expr_as_int, and the text of oris_expr_cast_to_str *)
Number(x) == CASE x.type = "int" -> x.num [] x.type = "string" -> Parsed(x.text) [] OTHER -> NaN

Text(x) ==
    IF x.type # "int" THEN x.text
    ELSE IF x.num < 0 THEN <<Minus>> \o Numeral[-x.num] ELSE Numeral[x.num]

Numbers(x, y) == Number(x) # NaN /\ Number(y) # NaN

Wrapped(n) == ((n - MinInt) % (2 * Half)) + MinInt
Truth(b) == IF b THEN 1 ELSE 0

(* Division of C rounds towards zero. *)
Quotient(a, b) ==
    LET q == Absolute(a) \div Absolute(b) IN IF (a < 0) = (b < 0) THEN q ELSE -q

(* Division by zero, and the quotient that is no int. *)
Traps(op, a, b) == op \in {"DIV", "MOD"} /\ (b = 0 \/ (a = MinInt /\ b = -1))

(* oris_grammar_eval_plus *)
Sum(x, y) ==
    IF Numbers(x, y) THEN IntValue(Wrapped(Number(x) + Number(y)))
    ELSE TextValue(Text(x) \o Text(y))

(* oris_grammar_eval_arith_op2 *)
Computed(op, a, b) ==
    CASE op = "MINUS" -> Wrapped(a - b)
      [] op = "MUL" -> Wrapped(a * b)
      [] op = "DIV" -> Quotient(a, b)
      [] op = "MOD" -> a - b * Quotient(a, b)
      [] op = "OR" -> Truth(a # 0 \/ b # 0)
      [] op = "AND" -> Truth(a # 0 /\ b # 0)

(* strcmp *)
Before(s, t) ==
    \E k \in 0..Len(s) : /\ k < Len(t) /\ SubSeq(s, 1, k) = SubSeq(t, 1, k)
                         /\ k = Len(s) \/ s[k + 1] < t[k + 1]

(* oris_expr_eval_log_op2: numbers are compared as such, also in texts.     *)
Compared(op, x, y) ==
    LET less == IF Numbers(x, y) THEN Number(x) < Number(y) ELSE Before(Text(x), Text(y))
        equal == IF Numbers(x, y) THEN Number(x) = Number(y) ELSE Text(x) = Text(y)
    IN  IntValue(Truth(
            CASE op = "EQUAL" -> equal
              [] op = "NOT_EQUAL" -> ~equal
              [] op = "LTH" -> less
              [] op = "LE" -> less \/ equal
              [] op = "GE" -> ~less
              [] op = "GT" -> ~less /\ ~equal))

(* What a binary operator gives; arithmetic gives nothing for texts that    *)
(* are no numbers.                                                          *)
Result(op, x, y) ==
    IF Unset \in {x, y} THEN Unset
    ELSE IF op = "PLUS" THEN Sum(x, y)
    ELSE IF op \in Comparison THEN Compared(op, x, y)
    ELSE IF Numbers(x, y) /\ ~Traps(op, Number(x), Number(y))
         THEN IntValue(Computed(op, Number(x), Number(y))) ELSE Unset

(* oris_built_in_token: behind the delimiter number n - 1 of the text; the   *)
(* search for the end starts behind the first character of the token, be it *)
(* a delimiter or not.                                                      *)
TokenOf(t, n, delimiter) ==
    LET ends == {k \in DOMAIN t : t[k] = delimiter}
        start == IF n = 1 THEN 0
                 ELSE Min({k \in ends : Cardinality({j \in ends : j <= k}) >= n - 1} \cup {Len(t)})
        end == Min({k \in ends : k >= start + 2} \cup {Len(t) + 1})
    IN  SubSeq(t, start + 1, end - 1)

(* The fill text is put in as often as it takes to reach the length.        *)
Filling(t, n, fill) ==
    LET times == (n - Len(t) + Len(fill) - 1) \div Len(fill)
    IN  IF n <= Len(t) THEN <<>>
        ELSE [k \in 1..(times * Len(fill)) |-> fill[((k - 1) % Len(fill)) + 1]]

(* The number of a field, given as such or by its name. *)
Field(t, y) ==
    IF Number(y) # NaN THEN Number(y) ELSE Min({k \in DOMAIN t.fields : t.fields[k] = Text(y)} \cup {NaN})

(* oris_built_in_lookup: field g of the first row with value v in field f;   *)
(* letters have one case only.                                               *)
Looked(v, name, f, g) ==
    LET t == Tables[Text(name)]
        hits == {k \in DOMAIN t.rows :
                    Field(t, f) \in DOMAIN t.rows[k] /\ t.rows[k][Field(t, f)] = Text(v)}
        first == t.rows[Min(hits)]
    IN  IF hits = {} \/ Field(t, g) \notin DOMAIN first THEN <<>> ELSE first[Field(t, g)]

-----------------------------------------------------------------------------
(* The pool: mem_pool_alloc takes the first free cell, with what it held.  *)
(* broken tells how the program left its memory, "none" as long as it did   *)
(* not; strings are numbered.                                               *)

Garbage == [type |-> "none", num |-> 0, text |-> <<>>, string |-> 0]

Broken(p, how) == [p EXCEPT !.broken = IF @ = "none" THEN how ELSE @]
Taken(p) == [p EXCEPT !.free = Tail(@)]

Dead(p, c) == p.cell[c].type = "none" \/ (p.cell[c].type = "string" /\ p.cell[c].string \notin p.strings)

NewString(p) ==
    CHOOSE s \in 1..(Cells + 1) : s \notin p.strings /\ \A c \in Cell : p.cell[c].string # s

(* Put value x in cell c; a text is a new string. *)
Put(p, c, x) ==
    IF x.type = "string"
    THEN [p EXCEPT !.cell[c] = [type |-> "string", num |-> 0, text |-> x.text, string |-> NewString(p)],
                   !.strings = @ \cup {NewString(p)}]
    ELSE [p EXCEPT !.cell[c] = [type |-> "int", num |-> x.num, text |-> <<>>, string |-> 0]]

(* What cell c says. *)
Value(p, c) ==
    IF c = Null THEN Nothing ELSE [type |-> p.cell[c].type, num |-> p.cell[c].num, text |-> p.cell[c].text]

(* Cells that are read must not be left over from another value. *)
Checked(p, read) == IF \E c \in read \ {Null} : Dead(p, c) THEN Broken(p, "stale") ELSE p

(* oris_expr_cast_to_str, in place. *)
Cast(p, c) ==
    IF c = Null THEN Broken(p, "null")
    ELSE IF p.cell[c].type = "int" THEN Put(p, c, TextValue(Text(Value(p, c)))) ELSE p

(* oris_free_expr_value: the string, and the cell as it is. *)
Released(p, c) ==
    IF c = Null THEN p
    ELSE IF p.cell[c].type = "string" /\ p.cell[c].string \notin p.strings THEN Broken(p, "freed twice")
    ELSE [p EXCEPT !.strings = IF p.cell[c].type = "string" THEN @ \ {p.cell[c].string} ELSE @,
                   !.free = <<c>> \o @]

ReleasedAll(p, list) ==
    LET upTo[k \in 0..Len(list)] == IF k = 0 THEN p ELSE Released(upTo[k - 1], list[k])
    IN  upTo[Len(list)]

-----------------------------------------------------------------------------
(* What the configuration tells of an expression before it is evaluated: of *)
(* each result that there is one ("set"), that it is a number, a positive   *)
(* one, that its text is not empty; "never" of what cannot be relied on.    *)

AnInt == {"set", "number", "filled"}

(* What is known of a node's result if as much is known of its operands.    *)
Known(node, of) ==
    LET Is(n, fact) == Len(of) >= n /\ fact \in of[n]
        All(n) == \A k \in 1..n : Is(k, "set")
        If(fact, condition) == IF condition THEN {fact} ELSE {}
        op == node.op
    IN  CASE op = "INTEGER" /\ node.num <= MaxInt -> AnInt \cup If("positive", node.num > 0)
          [] op = "STRING" -> {"set"} \cup If("filled", node.text # <<>>) \cup If("number", Parsed(node.text) # NaN)
          [] op = "RECORD" -> {"set"}
          [] op = "PLUS" /\ All(2) ->
                 IF Is(1, "number") /\ Is(2, "number") THEN AnInt
                 ELSE {"set"} \cup If("filled", Is(1, "filled") \/ Is(2, "filled"))
          [] op \in Arithmetic /\ Is(1, "number") /\ Is(2, "number")
                 /\ (op \in {"DIV", "MOD"} => Is(2, "positive")) -> AnInt
          [] op \in Comparison /\ All(2) -> AnInt
          [] op = "LENGTH" /\ All(1) -> AnInt
          [] op = "TOKEN" /\ All(3) /\ Is(2, "number") -> {"set"}
          [] op \in {"LPAD", "RPAD"} /\ All(3) /\ Is(3, "filled") -> {"set"} \cup If("filled", Is(1, "filled"))
          [] op = "LOOKUP" /\ All(4) -> {"set"}
          [] OTHER -> {"never"}

Operands(node) ==
    IF node.op \in {"PLUS"} \cup Arithmetic \cup Comparison THEN 2
    ELSE IF node.op \in Functions THEN node.args ELSE 0

(* What is known of the results when one more node has been visited.        *)
KnownAfter(known, node) ==
    LET below == Len(known) - Operands(node)
        of == SubSeq(known, below + 1, Len(known))
    IN  Append(SubSeq(known, 1, below),
               IF \E k \in DOMAIN of : "never" \in of[k] THEN {"never"} ELSE Known(node, of))

(* The same for the first nodes of an expression, by their number. *)
Facts(nodes) ==
    LET upTo[k \in 0..Len(nodes)] == IF k = 0 THEN <<>> ELSE KnownAfter(upTo[k - 1], nodes[k])
    IN  upTo

(* All of its operators and functions get what they rely on. *)
Sound(nodes) == "never" \notin Facts(nodes)[Len(nodes)][1]

(* The grammar: operands come before their operator, and one result is left. *)
WellFormed(nodes) ==
    /\ \A k \in DOMAIN nodes : Operands(nodes[k]) <= Len(Facts(nodes)[k - 1])
    /\ Len(Facts(nodes)[Len(nodes)]) = 1

ASSUME ExpressionsAssumption ==
    Expressions \subseteq Seq(Node) /\ \A nodes \in Expressions : WellFormed(nodes)

-----------------------------------------------------------------------------
(* The nodes of an expression (configTree.g) *)

Running == pool.broken = "none"
Current == expression[done + 1]

(* No node takes more than two cells; the bound on them is here.            *)
At(ops) ==
    /\ Running /\ done < Len(expression) /\ Len(pool.free) >= 2
    /\ Current.op \in ops

(* The last n results, and the ones below them. *)
Args(n) == SubSeq(stack, Len(stack) - n + 1, Len(stack))
Meanings(n) == SubSeq(meaning, Len(meaning) - n + 1, Len(meaning))

(* A node takes n results; it gives what the cell c holds, which means x.   *)
Reduce(n, p, c, x) ==
    /\ pool' = p
    /\ done' = done + 1
    /\ stack' = Append(SubSeq(stack, 1, Len(stack) - n), c)
    /\ meaning' = Append(SubSeq(meaning, 1, Len(meaning) - n), x)
    /\ UNCHANGED <<expression, sound, tokens, evaluated>>

New == Head(pool.free)

(* oris_alloc_int_value_from_str: a number that is no int is given back.    *)
Integer ==
    /\ At({"INTEGER"})
    /\ LET n == Current.num
       IN  IF n <= MaxInt
           THEN Reduce(0, Put(Taken(pool), New, IntValue(n)), New, IntValue(n))
           ELSE Reduce(0, Released(Put(Taken(pool), New, IntValue(0)), New), Null, Nothing)
    /\ UNCHANGED <<lost, leftover>>

(* oris_alloc_string_value, oris_alloc_value_from_rec_i *)
String ==
    /\ At({"STRING", "RECORD"})
    /\ LET x == TextValue(Current.text) IN Reduce(0, Put(Taken(pool), New, x), New, x)
    /\ UNCHANGED <<lost, leftover>>

(* oris_alloc_value_from_rec_s makes a string of NULL. *)
NoRecord ==
    /\ At({"NORECORD"})
    /\ Reduce(0, Broken(Taken(pool), "null"), Null, Nothing)
    /\ UNCHANGED <<lost, leftover>>

(* Faulty: the second operand is not given back. *)
BinaryKeepingOperand ==
    /\ At({"PLUS"} \cup Arithmetic \cup Comparison)
    /\ LET a == Args(2)[1]
           b == Args(2)[2]
           x == Value(pool, a)
           y == Value(pool, b)
           op == Current.op
           p == Put(Checked(Taken(pool), {a, b}), New, Result(op, x, y))
       IN  /\ Null \notin {a, b} /\ (op \in Arithmetic => Numbers(x, y) /\ ~Traps(op, Number(x), Number(y)))
           /\ Reduce(2, Released(p, a), New, Result(op, Meanings(2)[1], Meanings(2)[2]))
    /\ UNCHANGED <<lost, leftover>>

(* Faulty: the operands are given back before the result is taken and set.  *)
BinaryReleasingFirst ==
    /\ At({"PLUS"} \cup Arithmetic \cup Comparison)
    /\ LET a == Args(2)[1]
           b == Args(2)[2]
           op == Current.op
           p == ReleasedAll(pool, <<a, b>>)
           c == Head(p.free)
           q == Put(Taken(p), c, IntValue(0))
       IN  /\ Null \notin {a, b}
           /\ Reduce(2, Put(Taken(p), c, Result(op, Value(q, a), Value(q, b))), c,
                     Result(op, Meanings(2)[1], Meanings(2)[2]))
    /\ UNCHANGED <<lost, leftover>>

(* oris_expr_eval_binary_op: the result is taken first, the operands are    *)
(* given back last; as texts they are cast in place.                         *)
Binary ==
    /\ At({"PLUS"} \cup Arithmetic \cup Comparison)
    /\ LET a == Args(2)[1]
           b == Args(2)[2]
           x == Value(pool, a)
           y == Value(pool, b)
           op == Current.op
           p == Checked(Taken(pool), {a, b})
           q == IF Numbers(x, y)
                THEN IF Traps(op, Number(x), Number(y)) THEN Broken(p, "division")
                     ELSE Put(p, New, Result(op, x, y))
                ELSE IF op \in Arithmetic THEN p
                ELSE LET r == Cast(Cast(p, a), b)
                     IN  IF r.broken = "none" THEN Put(r, New, Result(op, x, y)) ELSE r
       IN  Reduce(2, ReleasedAll(q, <<a, b>>), New, Result(op, Meanings(2)[1], Meanings(2)[2]))
    /\ UNCHANGED <<lost, leftover>>

-----------------------------------------------------------------------------
(* oris_expr_eval_function: too few arguments are reported, not refused;     *)
(* all are given back at the end.                                           *)

Argument(k) == IF k <= Current.args THEN Args(Current.args)[k] ELSE Null
Meant(k) == IF k <= Current.args THEN Meanings(Current.args)[k] ELSE Nothing

(* Faulty: functions give back their arguments, too. *)
ReturnReleasingTwice(p, c, x) ==
    LET n == Current.args
    IN  Reduce(n, ReleasedAll(p, Args(n) \o Args(n)), c, IF Unset \in ToSet(Meanings(n)) THEN Unset ELSE x)

Return(p, c, x) ==
    LET n == Current.args
    IN  Reduce(n, ReleasedAll(p, Args(n)), c, IF Unset \in ToSet(Meanings(n)) THEN Unset ELSE x)

(* Faulty: the first argument is changed in place and returned. *)
GivenInPlace(p, result, meant) ==
    IF p.broken # "none" THEN Return(p, Null, Nothing)
    ELSE Return(Put(p, Argument(1), result), Argument(1), meant)

(* The result of a function, in a cell taken after the casts.               *)
Given(p, result, meant) ==
    IF p.broken # "none" THEN Return(p, Null, Nothing)
    ELSE Return(Put(Taken(p), New, result), New, meant)

Length ==
    /\ At({"LENGTH"})
    /\ Given(Cast(Checked(pool, {Argument(1)}), Argument(1)),
             IntValue(Wrapped(Len(Text(Value(pool, Argument(1)))))), IntValue(Wrapped(Len(Text(Meant(1))))))
    /\ UNCHANGED <<lost, leftover>>

(* The argument, an expression, is taken for a string; NULL is an empty one. *)
Quote ==
    /\ At({"QUOTE"})
    /\ Given(IF Argument(1) = Null THEN pool ELSE Broken(Taken(pool), "no string"),
             TextValue(<<34, 34>>), TextValue(<<34, 34>>))
    /\ UNCHANGED <<lost, leftover>>

(* The token is cut out as a string of its own, the result is a copy of it,  *)
(* and nobody gives back the string.                                        *)
Token ==
    /\ At({"TOKEN"})
    /\ LET p == Cast(Cast(Checked(pool, {Argument(k) : k \in 1..3}), Argument(1)), Argument(3))
           Tokens(x, n, d) ==
               TextValue(IF n <= 0 THEN <<>>
                         ELSE TokenOf(Text(x), n, IF Text(d) = <<>> THEN 0 ELSE Head(Text(d))))
           n == Number(Value(pool, Argument(2)))
           cut == n # NaN /\ n > 0 /\ p.broken = "none"
       IN  /\ IF n = NaN
              THEN Return(p, Null, Nothing)
              ELSE Given(p, Tokens(Value(pool, Argument(1)), n, Value(pool, Argument(3))),
                         Tokens(Meant(1), Number(Meant(2)), Meant(3)))
           /\ leftover' = IF cut THEN leftover + 1 ELSE leftover
    /\ UNCHANGED lost

(* oris_built_in_lpad and oris_built_in_rpad; without an int the text stays *)
(* as it is, and filling with nothing does not end.                          *)
Pad ==
    /\ At({"LPAD", "RPAD"})
    /\ LET p == Cast(Cast(Checked(pool, {Argument(k) : k \in 1..3}), Argument(1)), Argument(3))
           Padded(x, n, f) ==
               LET fill == IF n = NaN \/ Text(f) = <<>> THEN <<>> ELSE Filling(Text(x), n, Text(f))
               IN  TextValue(IF Current.op = "LPAD" THEN fill \o Text(x) ELSE Text(x) \o fill)
           x == Value(pool, Argument(1))
           n == Number(Value(pool, Argument(2)))
           f == Value(pool, Argument(3))
           endless == n # NaN /\ Len(Text(x)) < n /\ Text(f) = <<>>
       IN  Given(IF endless THEN Broken(p, "endless") ELSE p,
                 Padded(x, n, f), Padded(Meant(1), Number(Meant(2)), Meant(3)))
    /\ UNCHANGED <<lost, leftover>>

(* The result is taken first; for an unknown table or field another one is  *)
(* returned, and nobody gives back the first.                               *)
LookUp ==
    /\ At({"LOOKUP"})
    /\ LET p == Cast(Cast(Put(Taken(Checked(pool, {Argument(k) : k \in 1..4})), New, TextValue(<<>>)),
                          Argument(1)), Argument(2))
           known == Text(Value(pool, Argument(2))) \in DOMAIN Tables
           No(k) == Argument(k) = Null
           In(k) == Field(Tables[Text(Value(pool, Argument(2)))], Value(pool, Argument(k))) # NaN
           invalid == ~known \/ (~No(3) /\ (~In(3) \/ (~No(4) /\ ~In(4))))
           Here(k) == Value(pool, Argument(k))
           second == Head(p.free)
       IN  CASE p.broken # "none" -> Return(p, Null, Nothing) /\ UNCHANGED <<lost, leftover>>
             [] p.broken = "none" /\ invalid ->
                   /\ Return(Put(Taken(p), second, TextValue(<<>>)), second, TextValue(<<>>))
                   /\ lost' = lost \cup {New}
                   /\ UNCHANGED leftover
             [] p.broken = "none" /\ ~invalid /\ (No(3) \/ No(4)) ->
                   Return(Broken(p, "null"), Null, Nothing) /\ UNCHANGED <<lost, leftover>>
             [] OTHER ->
                   /\ Return([p EXCEPT !.cell[New].text = Looked(Here(1), Here(2), Here(3), Here(4))], New,
                             TextValue(Looked(Meant(1), Meant(2), Meant(3), Meant(4))))
                   /\ UNCHANGED <<lost, leftover>>

Unknown ==
    /\ At({"unknown"})
    /\ Return(pool, Null, Nothing)
    /\ UNCHANGED <<lost, leftover>>

-----------------------------------------------------------------------------
(* Those who want the value of an expression *)

(* How many TOKENs there are behind the first n nodes. *)
TokensIn(nodes, n) == Cardinality({k \in DOMAIN nodes : k > n /\ nodes[k].op = "TOKEN"})

Start ==
    /\ Running /\ expression = <<>> /\ evaluated < MaxExpressions
    /\ expression' \in Expressions
    /\ sound' = (sound /\ Sound(expression'))
    /\ tokens' = tokens + TokensIn(expression', 0)
    /\ evaluated' = evaluated + 1
    /\ UNCHANGED <<pool, done, stack, meaning, lost, leftover>>

Done(p) ==
    /\ Running /\ expression # <<>> /\ done = Len(expression)
    /\ pool' = p
    /\ expression' = <<>> /\ done' = 0
    /\ stack' = <<>> /\ meaning' = <<>>
    /\ UNCHANGED <<sound, tokens, evaluated>>

(* oris_expr_as_string, or oris_expr_as_bool_and_free: NULL is no text, and *)
(* no truth.                                                                *)
Use == Done(Released(Checked(pool, {stack[1]}), stack[1])) /\ UNCHANGED <<lost, leftover>>

(* oris_add_expr_to_buf, for a template *)
UseInTemplate ==
    /\ Done(Released(IF stack[1] = Null THEN Broken(pool, "null") ELSE Checked(pool, {stack[1]}), stack[1]))
    /\ UNCHANGED <<lost, leftover>>

(* The value of an http action, or a name of a copy action, the condition of *)
(* which does not hold: it was evaluated all the same.                       *)
Abandon ==
    /\ Done(pool)
    /\ lost' = lost \cup ({stack[1]} \ {Null})
    /\ UNCHANGED leftover

(* The rule of the targets, and oris_create_connection for a connection:     *)
(* they read the value, but do not give it back.                            *)
UseInConfiguration ==
    /\ Done(Checked(pool, {stack[1]}))
    /\ lost' = lost \cup ({stack[1]} \ {Null})
    /\ UNCHANGED leftover

-----------------------------------------------------------------------------
InterpreterInit ==
    /\ pool = [cell |-> [c \in Cell |-> Garbage], free |-> [c \in Cell |-> c],
               strings |-> {}, broken |-> "none"]
    /\ expression = <<>> /\ done = 0 /\ stack = <<>> /\ meaning = <<>>
    /\ sound = TRUE /\ lost = {} /\ leftover = 0 /\ tokens = 0 /\ evaluated = 0

Interpret ==
    \/ Start
    \/ Integer \/ String \/ NoRecord \/ Binary
    \/ Length \/ Quote \/ Token \/ Pad \/ LookUp \/ Unknown
    \/ Use \/ UseInTemplate \/ UseInConfiguration \/ Abandon

Interpreter == InterpreterInit /\ [][Interpret]_interpreter

-----------------------------------------------------------------------------
(* Properties *)

Broke == {"stale", "null", "freed twice", "division", "no string", "endless"}

InterpreterTypeOK ==
    /\ pool \in [cell : [Cell -> [type : {"none", "int", "string"}, num : MinInt..MaxInt, text : Texts,
                                  string : 0..(Cells + 1)]],
                 free : Seq(Cell), strings : SUBSET (1..(Cells + 1)), broken : {"none"} \cup Broke]
    /\ \A i, j \in DOMAIN pool.free : pool.free[i] = pool.free[j] => i = j
    /\ expression \in Expressions \cup {<<>>} /\ done \in 0..Len(expression)
    /\ stack \in Seq(Cell \cup {Null}) /\ Len(stack) = Len(meaning)
    /\ sound \in BOOLEAN
    /\ lost \subseteq Cell /\ leftover \in Nat /\ tokens \in Nat /\ evaluated \in 0..MaxExpressions

(* What an expression gives does not depend on what the pool held before it *)
(* or on what its operands became: every result that was set is what the     *)
(* expression means.                                                        *)
ValueIsMeaning ==
    Running => \A k \in DOMAIN stack : meaning[k] # Unset => Value(pool, stack[k]) = meaning[k]

(* When an expression has been used all cells are free again, and no string *)
(* is left in a cell, but for those of lookups in unknown tables or fields, *)
(* of skipped actions and of connections and targets; outside the cells an  *)
(* expression leaves at most one string for each TOKEN in it.               *)
CellsComeBack ==
    Running /\ expression = <<>> =>
        /\ ToSet(pool.free) = Cell \ lost
        /\ \A s \in pool.strings : \E c \in lost : pool.cell[c].string = s
        /\ leftover <= tokens

(* As long as all expressions are sound the program keeps its memory in      *)
(* order and comes to an end, whatever texts the records hold and whatever   *)
(* the expressions before have left in the cells.                            *)
SoundIsSafe == sound => Running

=============================================================================
