------------------------------ MODULE Templates ------------------------------
(***************************************************************************)
(* The templates of formatter fields, internal/resolver/finalizeItems.go   *)
(* from applyFormatter on: tokens with slices, ternaries, conditions.      *)
(*                                                                         *)
(* A template is given parsed, as a sequence of parts; a string is a       *)
(* sequence of characters, so that concatenation and slices are those of   *)
(* the program.  A map with all that is in it is a function on paths of    *)
(* keys, in which a map has the value Object: the program finds its values *)
(* by paths too.                                                           *)
(***************************************************************************)
EXTENDS Integers, Sequences, SequencesExt, Functions, TLC

CONSTANT
    MaxNesting      \* BOUND: how deep ternaries stand in ternaries

ASSUME NestingAssumption == MaxNesting \in Nat

(* Values are tagged, as Go's interface values are. *)
Nil == <<"nil">>
Object == <<"map">>
Num(n) == <<"num", n>>
Bool(b) == <<"bool", b>>
Str(s) == <<"str", s>>
List(s) == <<"list", s>>

IsObject(m, path) == path \in DOMAIN m /\ m[path] = Object
IsScalar(v) == v[1] \notin {"nil", "map", "list"}

(* Characters in their order, the digits first; two words are never cut. *)
Alphabet == <<"0", "1", "2", "a", "b", "c", "false", "true", "x">>
Rank(c) == CHOOSE i \in DOMAIN Alphabet : Alphabet[i] = c
DigitsOf(n) == <<Alphabet[n + 1]>>

(* Sprintf("%v") of a value; null gives nothing.  (That of a map or a list  *)
(* is not modelled, no template here prints one.)                           *)
toString(v) ==
    CASE v[1] = "str"  -> v[2]
      [] v[1] = "num"  -> DigitsOf(v[2])
      [] v[1] = "bool" -> IF v[2] THEN <<"true">> ELSE <<"false">>
      [] OTHER         -> <<>>

(* The value at a path from a context, Nil if there is none. *)
getNested(m, ctx, path) == IF ctx \o path \in DOMAIN m THEN m[ctx \o path] ELSE Nil
-----------------------------------------------------------------------------
(* Conditions. *)

IsNumber(v) == v[1] = "num" \/ (v[1] = "str" /\ Len(v[2]) = 1 /\ Rank(v[2][1]) <= 3)
toNumber(v) == IF v[1] = "num" THEN v[2] ELSE Rank(v[2][1]) - 1

isTruthy(v) ==
    CASE v[1] = "nil"  -> FALSE
      [] v[1] = "bool" -> v[2]
      [] v[1] = "str"  -> v[2] # <<>>
      [] v[1] = "num"  -> v[2] # 0
      [] OTHER         -> TRUE

(* The first difference decides; a beginning comes before the whole. *)
LexLess(s, t) ==
    \/ IsStrictPrefix(s, t)
    \/ \E i \in DOMAIN s \cap DOMAIN t :
          /\ SubSeq(s, 1, i - 1) = SubSeq(t, 1, i - 1)
          /\ Rank(s[i]) < Rank(t[i])

(* Mutant: a bound counts as passed only when it is exceeded. *)
OrderedStrictly(op, less, equal) ==
    CASE op = "==" -> equal
      [] op = "!=" -> ~equal
      [] op \in {"<", "<="} -> less
      [] op \in {">", ">="} -> ~less /\ ~equal

Ordered(op, less, equal) ==
    CASE op = "==" -> equal
      [] op = "!=" -> ~equal
      [] op = "<"  -> less
      [] op = "<=" -> less \/ equal
      [] op = ">"  -> ~less /\ ~equal
      [] op = ">=" -> ~less

(* Numbers as numbers when both sides are, booleans by equality only, and  *)
(* all else, null included, as text.                                       *)
compareValues(v, op, w) ==
    IF IsNumber(v) /\ IsNumber(w)
    THEN Ordered(op, toNumber(v) < toNumber(w), toNumber(v) = toNumber(w))
    ELSE IF v[1] = "bool" /\ w[1] = "bool"
         THEN op \in {"==", "!="} /\ Ordered(op, FALSE, v[2] = w[2])
         ELSE Ordered(op, LexLess(toString(v), toString(w)), toString(v) = toString(w))

evalCondition(cond, m, ctx) ==
    LET v == getNested(m, ctx, cond.path)
    IN  IF cond.op = "" THEN isTruthy(v) ELSE compareValues(v, cond.op, cond.literal)
-----------------------------------------------------------------------------
(* Templates.  A token names a path and, with from >= 0, one character or   *)
(* the characters from..to-1 of its value; a ternary has two templates; a   *)
(* text stands for itself.                                                  *)
Text(s) == [kind |-> "text", text |-> s]
Token(path) == [kind |-> "token", path |-> path, from |-> -1, to |-> -1]
Slice(path, from, to) == [Token(path) EXCEPT !.from = from, !.to = to]
Condition(path, op, literal) == [path |-> path, op |-> op, literal |-> literal]
Ternary(cond, then, else) ==
    [kind |-> "ternary", cond |-> cond, then |-> then, else |-> else]

Min2(a, b) == IF a < b THEN a ELSE b
SliceOf(s, from, to) ==
    IF from = -1 THEN s
    ELSE SubSeq(s, from + 1, Min2(IF to = -1 THEN from + 1 ELSE to, Len(s)))

(* The branch a ternary takes is a template again, so templates are         *)
(* unfolded from the outside in until only texts and tokens are left.       *)
Chosen(part, m, ctx) ==
    IF part.kind # "ternary" THEN <<part>>
    ELSE IF evalCondition(part.cond, m, ctx) THEN part.then ELSE part.else

replaceTernaries(template, m, ctx) ==
    LET after[n \in 0..MaxNesting] ==
            IF n = 0 THEN template
            ELSE FlattenSeq([i \in DOMAIN after[n - 1] |-> Chosen(after[n - 1][i], m, ctx)])
    IN  after[MaxNesting]

applyFormatter(template, m, ctx) ==
    LET Render(part) ==
            IF part.kind = "text" THEN part.text
            ELSE SliceOf(toString(getNested(m, ctx, part.path)), part.from, part.to)
        parts == replaceTernaries(template, m, ctx)
    IN  FlattenSeq([i \in DOMAIN parts |-> Render(parts[i])])

(* The parts of a template: its own, those of its ternaries' branches, and  *)
(* so on; and the names in them.                                            *)
PartsAt(template) ==
    LET parts[n \in 0..MaxNesting] ==
            IF n = 0 THEN ToSet(template)
            ELSE UNION {ToSet(part.then \o part.else) :
                          part \in {q \in parts[n - 1] : q.kind = "ternary"}}
    IN  parts
PartsIn(template) == UNION {PartsAt(template)[n] : n \in 0..MaxNesting}
NamesIn(template) ==
    LET Names(part) ==
            CASE part.kind = "text"    -> {}
              [] part.kind = "token"   -> ToSet(part.path)
              [] part.kind = "ternary" -> ToSet(part.cond.path)
    IN  UNION {Names(part) : part \in PartsIn(template)}
=============================================================================
