-------------------------------- MODULE Filter --------------------------------
(* The filter language (filter.rs): bytes become tokens, tokens a tree, and    *)
(* the tree is evaluated on a subject whose fields may be missing.             *)
(*                                                                             *)
(* A text is a sequence of characters, each a sequence of bytes.  The lexer    *)
(* looks at one byte at a time and takes it for a character (`b[i] as char`),  *)
(* so a class is given to every byte.  "C3" stands for the bytes that open a    *)
(* longer character and read so are letters, "BC" for those that go on and are *)
(* digits, "A9" for those that go on and are neither.                          *)
(* Letter case is left out.  The parser is the code's own recursive descent;   *)
(* `Meaning` is what it is checked against.                                    *)
EXTENDS Integers, Sequences, FiniteSets, SequencesExt

CONSTANTS
    Texts,       \* texts to lex and parse
    TokenSeqs,   \* what the lexer leaves of longer ones
    Subjects,    \* functions from the names of fields a subject has to values
    Number(_),   \* the value of the text of a number, its suffix applied
    Format(_),   \* the text of a number
    Before(_, _) \* the order of texts

VARIABLES
    text,    \* the characters of the filter
    at,      \* the lexer's `i`: bytes consumed
    tokens,  \* what it has found
    stage    \* "lex", "parse", "parsed", "rejected" or "panicked"

filterVars == <<text, at, tokens, stage>>

Bytes == FlattenSeq(text)
Spaces == {" "}   Quotes == {"'", "\""}   Digits == {"5"}
Letters == {"a", "m", "s", "C3"}
WordBytes == Letters \union Digits \union {"BC", "_", ".", "-"}
Units == {<<"m">>, <<"s">>, <<"m", "s">>}
Operators == {<<"=", "=">>, <<"!", "=">>, <<">", "=">>, <<"<", "=">>,
              <<">">>, <<"<">>, <<"~">>, <<"=">>}

Token(kind, txt, from, to) == [kind |-> kind, text |-> txt, from |-> from, to |-> to]

(* A word's, string's or number's text is a slice of the input, and slicing    *)
(* inside a character panics.                                                  *)
Boundaries == {Len(FlattenSeq(SubSeq(text, 1, n))) : n \in 0..Len(text)}

-----------------------------------------------------------------------------
GiveText == /\ text' \in Texts /\ tokens' = << >> /\ at' = 0 /\ stage' = "lex"
GiveTokens == /\ text' = << >> /\ tokens' \in TokenSeqs /\ at' = 0 /\ stage' = "parse"

Byte == Bytes[at + 1]
Lexing == stage = "lex" /\ at < Len(Bytes)

(* The next n bytes, if there are as many.                                     *)
Ahead(from, n) == IF from + n > Len(Bytes) THEN << >> ELSE SubSeq(Bytes, from + 1, from + n)

(* The end of the longest run of bytes of a set, from the next one on.         *)
RunEnd(from, set) ==
    CHOOSE to \in from..Len(Bytes) :
        /\ \A i \in from + 1..to : Bytes[i] \in set
        /\ to = Len(Bytes) \/ Bytes[to + 1] \notin set

Take(kind, to) ==
    /\ tokens' = Append(tokens, Token(kind, SubSeq(Bytes, at + 1, to), at, to))
    /\ at' = to
    /\ UNCHANGED <<text, stage>>

Stop(s) == stage' = s /\ UNCHANGED <<text, at, tokens>>

SkipSpace ==
    /\ Lexing /\ Byte \in Spaces
    /\ at' = at + 1
    /\ UNCHANGED <<text, tokens, stage>>

LexString ==
    /\ Lexing /\ Byte \in Quotes
    /\ LET to == RunEnd(at + 1, {Bytes[i] : i \in DOMAIN Bytes} \ {Byte}) IN
       IF to = Len(Bytes) THEN Stop("rejected")
       ELSE /\ tokens' = Append(tokens, Token("str", SubSeq(Bytes, at + 2, to), at, to + 1))
            /\ at' = to + 1
            /\ UNCHANGED <<text, stage>>

(* Two characters before one.                                                  *)
LexOperator ==
    /\ Lexing
    /\ \E n \in 1..2 :
          /\ Ahead(at, n) \in Operators
          /\ n = 1 => Ahead(at, 2) \notin Operators
          /\ Take("op", at + n)

LexParen ==
    /\ Lexing /\ Byte \in {"(", ")"}
    /\ Take(Byte, at + 1)

(* Digits and dots that make a number, with the longest suffix that follows.   *)
LexNumber ==
    /\ Lexing /\ Byte \in Digits
    /\ LET digits == RunEnd(at, Digits \union {"."})
           ends == {digits + Len(s) : s \in {x \in Units :
                        Ahead(digits, Len(x)) = x}} \union {digits}
       IN  IF Cardinality({i \in at + 1..digits : Bytes[i] = "."}) > 1
           THEN Stop("rejected")
           ELSE Take("num", CHOOSE e \in ends : \A f \in ends : f <= e)

LexWord ==
    /\ Lexing /\ Byte \in Letters \union {"_"}
    /\ LET to == RunEnd(at, WordBytes) IN
       IF to \notin Boundaries THEN Stop("panicked") ELSE Take("word", to)

Starts == Spaces \union Quotes \union Digits \union Letters \union {"_", "(", ")"}

LexNothing ==
    /\ Lexing /\ Byte \notin Starts
    /\ \A n \in 1..2 : Ahead(at, n) \notin Operators
    /\ Stop("rejected")

EndOfText == stage = "lex" /\ at = Len(Bytes) /\ Stop("parse")

-----------------------------------------------------------------------------
(* The parser.  Every operator is given the tokens and a position and returns  *)
(* a node and the position after it, or Fail.                                  *)
Or == <<"o", "r">>   And == <<"a", "n", "d">>   Not == <<"n", "o", "t">>
Fail == [ok |-> FALSE]
Got(node, pos) == [ok |-> TRUE, node |-> node, pos |-> pos]
Kind(ts, p) == IF p \in DOMAIN ts THEN ts[p].kind ELSE "end"
IsWord(ts, p, w) == Kind(ts, p) = "word" /\ ts[p].text = w

Truthy(f) == [is |-> "truthy", field |-> f]
Compare(f, op, value) == [is |-> "compare", field |-> f, op |-> op, value |-> value]
Join(is, l, r) == [is |-> is, left |-> l, right |-> r]

RECURSIVE ParseOr(_, _), ParseAnd(_, _), ParseNot(_, _), OrTail(_, _), AndTail(_, _)

ParsePrimary(ts, p) ==
    IF Kind(ts, p) = "(" THEN
        LET inner == ParseOr(ts, p + 1) IN
        IF inner.ok /\ Kind(ts, inner.pos) = ")" THEN Got(inner.node, inner.pos + 1) ELSE Fail
    ELSE IF Kind(ts, p) # "word" THEN Fail
    ELSE IF Kind(ts, p + 1) # "op" THEN Got(Truthy(ts[p].text), p + 1)
    ELSE IF Kind(ts, p + 2) \in {"num", "str", "word"}
         THEN Got(Compare(ts[p].text, ts[p + 1].text, ts[p + 2]), p + 3)
         ELSE Fail

ParseNot(ts, p) ==
    IF ~IsWord(ts, p, Not) THEN ParsePrimary(ts, p)
    ELSE LET inner == ParseNot(ts, p + 1) IN
         IF inner.ok THEN Got([is |-> "not", of |-> inner.node], inner.pos) ELSE Fail

AndTail(ts, left) ==
    IF ~left.ok \/ ~IsWord(ts, left.pos, And) THEN left
    ELSE LET right == ParseNot(ts, left.pos + 1) IN
         IF right.ok THEN AndTail(ts, Got(Join("and", left.node, right.node), right.pos)) ELSE Fail

ParseAnd(ts, p) == AndTail(ts, ParseNot(ts, p))

(* Mutant: both connectives bind alike, from the left.                         *)
OrTailAtOnce(ts, left) ==
    IF ~left.ok \/ ~IsWord(ts, left.pos, Or) THEN left
    ELSE LET right == ParseNot(ts, left.pos + 1) IN
         IF right.ok THEN OrTail(ts, AndTail(ts, Got(Join("or", left.node, right.node), right.pos)))
                     ELSE Fail

OrTail(ts, left) ==
    IF ~left.ok \/ ~IsWord(ts, left.pos, Or) THEN left
    ELSE LET right == ParseAnd(ts, left.pos + 1) IN
         IF right.ok THEN OrTail(ts, Got(Join("or", left.node, right.node), right.pos)) ELSE Fail

ParseOr(ts, p) == OrTail(ts, ParseAnd(ts, p))

(* Filter::parse: a whole expression and nothing after it.                     *)
ParseAll(ts) ==
    LET r == ParseOr(ts, 1) IN IF r.ok /\ r.pos = Len(ts) + 1 THEN r ELSE Fail

Parse ==
    /\ stage = "parse"
    /\ Stop(IF ParseAll(tokens).ok THEN "parsed" ELSE "rejected")

FilterDone == stage \in {"parsed", "rejected", "panicked"} /\ UNCHANGED filterVars

FilterNext ==
    \/ SkipSpace \/ LexString \/ LexOperator \/ LexParen \/ LexNumber \/ LexWord
    \/ LexNothing \/ EndOfText \/ Parse \/ FilterDone

-----------------------------------------------------------------------------
(* The evaluator.  A field is a number, a text or a boolean: [is, v].          *)
Has(s, f, is) == f \in DOMAIN s /\ s[f].is = is

IsTruthy(s, f) ==
    \/ Has(s, f, "bool") /\ s[f].v
    \/ Has(s, f, "num") /\ s[f].v # 0
    \/ Has(s, f, "text") /\ s[f].v # << >>

Ordered(op, lt, eq) ==
    CASE op = <<"=", "=">> \/ op = <<"=">> -> eq
      [] op = <<"!", "=">> -> ~eq
      [] op = <<"<">> -> lt
      [] op = <<"<", "=">> -> lt \/ eq
      [] op = <<">">> -> ~lt /\ ~eq
      [] op = <<">", "=">> -> ~lt

Within(needle, hay) ==
    \E i \in 0..Len(hay) - Len(needle) : SubSeq(hay, i + 1, i + Len(needle)) = needle

Trimmed(v) ==
    LET solid == {k \in DOMAIN v : v[k] \notin Spaces}
    IN  IF solid = {} THEN << >> ELSE SubSeq(v, Min(solid), Max(solid))

(* The pieces between bars that are not empty, then trimmed: one of blanks     *)
(* stays, as the empty text that every text contains.                          *)
Alternatives(v) ==
    {Trimmed(SubSeq(v, e[1], e[2])) : e \in {x \in (DOMAIN v) \X (DOMAIN v) :
        /\ x[1] <= x[2] /\ \A k \in x[1]..x[2] : v[k] # "|"
        /\ x[1] = 1 \/ v[x[1] - 1] = "|"
        /\ x[2] = Len(v) \/ v[x[2] + 1] = "|"}}

NumbersCompare(l, op, r) ==
    IF op = <<"~">> THEN Within(Format(r), Format(l)) ELSE Ordered(op, l < r, l = r)

TextsCompare(l, op, r) ==
    IF op = <<"~">> THEN \E p \in Alternatives(r) : Within(p, l)
    ELSE Ordered(op, Before(l, r), l = r)

AsText(value) == IF value.kind = "num" THEN Format(Number(value.text)) ELSE value.text

(* Mutant: `!=` holds of a field the subject does not have.                    *)
ComparedOrMissing(s, f, op, value) ==
    IF Has(s, f, "num") /\ value.kind = "num"
    THEN NumbersCompare(s[f].v, op, Number(value.text))
    ELSE IF Has(s, f, "text") THEN TextsCompare(s[f].v, op, AsText(value))
    ELSE op = <<"!", "=">>

(* Two numbers as numbers; else as texts; a field that is neither, or missing, *)
(* compares false.                                                             *)
Compared(s, f, op, value) ==
    IF Has(s, f, "num") /\ value.kind = "num"
    THEN NumbersCompare(s[f].v, op, Number(value.text))
    ELSE Has(s, f, "text") /\ TextsCompare(s[f].v, op, AsText(value))

(* The value of a tree on a subject.                                           *)
RECURSIVE Eval(_, _)
Eval(n, s) ==
    CASE n.is = "and" -> Eval(n.left, s) /\ Eval(n.right, s)
      [] n.is = "or" -> Eval(n.left, s) \/ Eval(n.right, s)
      [] n.is = "not" -> ~Eval(n.of, s)
      [] n.is = "truthy" -> IsTruthy(s, n.field)
      [] n.is = "compare" -> Compared(s, n.field, n.op, n.value)

Matching(ts) == {s \in Subjects : Eval(ParseAll(ts).node, s)}

-----------------------------------------------------------------------------
(* What the comments of the parser say (filter.rs:378, 388, 405), as a grammar *)
(* over the tokens from `lo` to `hi`: the sets of subjects a derivation of     *)
(* each kind may stand for.                                                    *)
RECURSIVE OrMeans(_, _, _), AndMeans(_, _, _), NotMeans(_, _, _)

TermMeans(ts, lo, hi) ==
    LET field == Kind(ts, lo) = "word" /\ ~IsWord(ts, lo, Not) IN
    CASE field /\ hi = lo ->
             {{x \in Subjects : IsTruthy(x, ts[lo].text)}}
      [] /\ field /\ hi = lo + 2
         /\ Kind(ts, lo + 1) = "op" /\ Kind(ts, hi) \in {"num", "str", "word"} ->
             {{x \in Subjects : Compared(x, ts[lo].text, ts[lo + 1].text, ts[hi])}}
      [] Kind(ts, lo) = "(" /\ Kind(ts, hi) = ")" -> OrMeans(ts, lo + 1, hi - 1)
      [] OTHER -> {}

NotMeans(ts, lo, hi) ==
    IF lo > hi THEN {}
    ELSE IF IsWord(ts, lo, Not) THEN {Subjects \ m : m \in NotMeans(ts, lo + 1, hi)}
    ELSE TermMeans(ts, lo, hi)

AndMeans(ts, lo, hi) ==
    NotMeans(ts, lo, hi) \union
    UNION {{l \intersect r : l \in AndMeans(ts, lo, k - 1), r \in NotMeans(ts, k + 1, hi)} :
              k \in {i \in lo..hi : IsWord(ts, i, And)}}

OrMeans(ts, lo, hi) ==
    AndMeans(ts, lo, hi) \union
    UNION {{l \union r : l \in OrMeans(ts, lo, k - 1), r \in AndMeans(ts, k + 1, hi)} :
              k \in {i \in lo..hi : IsWord(ts, i, Or)}}

(* A filter is accepted exactly if the grammar derives it, in one way, and     *)
(* then it matches what the derivation says: `not` binds tighter than `and`,   *)
(* `and` tighter than `or`, parentheses regroup, and words that are operators  *)
(* elsewhere may be fields and values.                                         *)
GrammarMeaning ==
    /\ stage = "parsed" => OrMeans(tokens, 1, Len(tokens)) = {Matching(tokens)}
    /\ stage = "rejected" /\ (text = << >> \/ at = Len(Bytes)) =>
           OrMeans(tokens, 1, Len(tokens)) = {}

(* The sets of fields of which a subject has to have one in full for n to hold *)
(* of it: the fields of each alternative of n; a negation asks for none.       *)
RECURSIVE Needs(_)
Needs(n) ==
    CASE n.is = "and" -> {l \union r : l \in Needs(n.left), r \in Needs(n.right)}
      [] n.is = "or" -> Needs(n.left) \union Needs(n.right)
      [] n.is = "not" -> {{}}
      [] OTHER -> {{n.field}}

(* "Unknown field never matches" (filter.rs:495): a comparison, `!=` included, *)
(* holds of no subject without its field, so a filter matches only a subject   *)
(* that has every field some alternative of it compares outside a `not`.       *)
AbsentNeverMatches ==
    stage = "parsed" =>
        \A s \in Matching(tokens) :
            \E fields \in Needs(ParseAll(tokens).node) : fields \subseteq DOMAIN s

(* `garbage_never_panics` (filter.rs:724).                                     *)
NeverPanics == stage # "panicked"
=============================================================================
