------------------------------ MODULE MCStartup -------------------------------
(* Lines that reach every branch of parse_toml and apply_toml: numbers below,  *)
(* inside and above each range, a value of the wrong kind, a key of no table,  *)
(* a filter that parses and one that does not.                                 *)
(*                                                                             *)
(* Texts of a few characters over every class of byte, the two-byte letters of *)
(* which the second byte read alone is a letter or is not included; and token  *)
(* sequences long enough for two connectives, a negation and a parenthesis.    *)
EXTENDS Startup

CONSTANTS MaxChars, MaxTokens

Key(k, kind, v) == [kind |-> "key", key |-> k, val |-> [kind |-> kind, v |-> v]]

MCLines ==
    {[kind |-> "rule"], [kind |-> "junk"]}
    \union {[kind |-> "table", name |-> t] : t \in {"capture", "notify", "rules"}}
    \union {Key("threshold_ms", "int", v) : v \in {-1, 2000}}
    \union {Key("threshold_ms", "str", 1), Key("min_peak", "int", 101),
            Key("resources", "arr", 1), Key("threshold", "int", 5)}
    \union {Key("when", "str", v) : v \in {1, 2}} \union {Key("when", "int", 1)}
    \union {Key("notify", "bool", 1)}

MCEnvTexts == {{}, {0}, {700}}
MCFlagTexts == {{}, {0}, {30}}

Alphabet == {<<c>> : c \in {" ", "'", "=", ">", "!", "(", "5", ".", "a", "m", "s", "-"}}
            \union {<<"C3", "A9">>, <<"C3", "BC">>}
UpTo(S, n) == UNION {[1..k -> S] : k \in 1..n}
MCTexts == UpTo(Alphabet, MaxChars)

Names == <<<<"a">>, <<"b">>, <<"c">>>>
IsField(k) == k = "field"

(* Every field is a name of its own, up to three, so that regrouping shows.    *)
Tok(ks, i) ==
    LET kind == ks[i]  n == Len(SelectSeq(SubSeq(ks, 1, i), IsField)) IN
    CASE kind = "field" -> Token("word", Names[((n - 1) % 3) + 1], 0, 0)
      [] kind = "value" -> Token("num", <<"5">>, 0, 0)
      [] kind = "either" -> Token("str", <<"m", "|", " ">>, 0, 0)
      [] kind = "differs" -> Token("op", <<"!", "=">>, 0, 0)
      [] kind = "has" -> Token("op", <<"~">>, 0, 0)
      [] kind \in {"(", ")"} -> Token(kind, <<kind>>, 0, 0)
      [] kind = "and" -> Token("word", And, 0, 0)
      [] kind = "or" -> Token("word", Or, 0, 0)
      [] kind = "not" -> Token("word", Not, 0, 0)

Toks(ks) == [i \in DOMAIN ks |-> Tok(ks, i)]
MCTokenSeqs ==
    {Toks(ks) : ks \in UpTo({"field", "value", "either", "differs", "has", "(", ")",
                                          "and", "or", "not"}, 4)
                       \union UpTo({"field", "and", "or", "(", ")"}, MaxTokens)
                       \union UpTo({"field", "differs", "value", "or", "not"}, MaxTokens - 1)}

(* A number, a text and a boolean, each there, there and false, or missing.    *)
Value(name, there) ==
    CASE name = Names[1] -> [is |-> "num", v |-> IF there THEN 7 ELSE 0]
      [] name = Names[2] -> [is |-> "text", v |-> IF there THEN <<"m", "5">> ELSE << >>]
      [] name = Names[3] -> [is |-> "bool", v |-> there]
MCSubjects ==
    {[n \in DOMAIN pick |-> Value(n, pick[n])] :
        pick \in UNION {[N -> BOOLEAN] : N \in SUBSET Range(Names)}}
MCNumber(t) == 5
MCFormat(n) == <<"5">>
MCBefore(l, r) == Len(l) < Len(r)
=============================================================================
