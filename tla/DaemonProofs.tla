----------------------------- MODULE DaemonProofs -----------------------------
(* Proofs about what a program is told and what a daemon answers.  For any      *)
(* lines in the files, whatever is set elsewhere, a program that starts has     *)
(* every rule it was given, runs with what the most specific layer says, and    *)
(* names that layer when it is asked.  For any clients, in whatever pieces they *)
(* write and wherever they stop, replies answer the requests in their order,    *)
(* and a client that behaves is not left before it has them.                    *)
EXTENDS Settings, Wire, SequenceTheorems, Counting

(* Startup takes these steps, or leaves the settings alone.                    *)
SettingsSpec == SettingsInit /\ [][SettingsNext]_settingsVars

(* What may be read, and made of it.                                           *)
KeyLines == {l \in Lines : l.kind = "key"}
Values == {l.val : l \in KeyLines}
Keys == {l.key : l \in KeyLines}
Table == UNION {[S -> Values] : S \in SUBSET Keys}
Texts == {e.v : e \in Values}
Rule == [when : GoodFilters, run : SUBSET Texts, log : SUBSET Texts, notify : BOOLEAN]

SettingsTypes ==
    /\ doc \in [tables : [Tables -> Table], rules : Seq(Table)]
    /\ rules \in Seq(Rule)
    /\ written \in Seq(Seq(Values))

(* A block's table holds the last filter written in the block, or none.        *)
Holds(t, w) ==
    /\ "when" \in DOMAIN t => w # << >> /\ t["when"] = Last(w)
    /\ "when" \notin DOMAIN t => w = << >>

Applied(r, w) == Last(w) = [kind |-> "str", v |-> r.when] /\ r.when \in GoodFilters

(* The rules pushed are the first blocks; those of the file being read follow, *)
(* and while keys go to a rule there is one.                                   *)
RulesInv ==
    /\ \A i \in 1 .. Len(rules) : Applied(rules[i], written[i])
    /\ phase = "read" =>
          /\ Len(written) = Len(rules) + Len(doc.rules)
          /\ \A i \in 1 .. Len(doc.rules) : Holds(doc.rules[i], written[Len(rules) + i])
          /\ current = "rule" => doc.rules # << >>
    /\ phase \notin {"read", "refused"} => Len(written) = Len(rules)

RInv == SettingsTypes /\ RulesInv
-----------------------------------------------------------------------------
LEMMA ValuesArePairs ==
    ASSUME NEW e \in Values
    PROVE  e = [kind |-> e.kind, v |-> e.v] /\ (e.kind = "int" => e.v \in Int)
<1>1. PICK l \in Lines : l.kind = "key" /\ e = l.val
  BY DEF Values, KeyLines
<1>2. QED
  BY <1>1, SettingsAssumption

LEMMA EmptyTableFacts == EmptyTable \in Table /\ DOMAIN EmptyTable = {}
<1>1. EmptyTable \in [{} -> Values] /\ {} \in SUBSET Keys
  BY DEF EmptyTable
<1>2. QED
  BY <1>1 DEF Table, EmptyTable

LEMMA WithFacts ==
    ASSUME NEW t \in Table, NEW k \in Keys, NEW v \in Values
    PROVE  /\ With(t, k, v) \in Table
           /\ DOMAIN With(t, k, v) = DOMAIN t \union {k}
           /\ With(t, k, v)[k] = v
           /\ \A x \in DOMAIN t : x # k => With(t, k, v)[x] = t[x]
<1>1. PICK S \in SUBSET Keys : t \in [S -> Values]
  BY DEF Table
<1>2. With(t, k, v) \in [S \union {k} -> Values]
  BY <1>1 DEF With
<1>3. QED
  BY <1>1, <1>2 DEF Table, With

LEMMA DocFacts ==
    ASSUME NEW d \in [tables : [Tables -> Table], rules : Seq(Table)], NEW rs \in Seq(Table)
    PROVE  /\ [d EXCEPT !.rules = rs] \in [tables : [Tables -> Table], rules : Seq(Table)]
           /\ [d EXCEPT !.rules = rs].rules = rs
  OBVIOUS

LEMMA AppendFacts ==
    ASSUME NEW S, NEW s \in Seq(S), NEW x \in S
    PROVE  /\ Append(s, x) \in Seq(S) /\ Len(Append(s, x)) = Len(s) + 1
           /\ \A i \in 1 .. Len(s) : Append(s, x)[i] = s[i]
           /\ Append(s, x)[Len(s) + 1] = x /\ Append(s, x) # << >>
  BY AppendProperties

LEMMA NothingHeld == Holds(EmptyTable, << >>)
  BY EmptyTableFacts DEF Holds

LEMMA TheOnly == ASSUME NEW x PROVE The({x}) = x
  BY DEF The

(* A rule that is accepted has the filter of its table, which parses.          *)
LEMMA RuleFacts ==
    ASSUME NEW t \in Table, RuleOk(t)
    PROVE  /\ RuleOf(t) \in Rule
           /\ "when" \in DOMAIN t
           /\ t["when"] = [kind |-> "str", v |-> RuleOf(t).when]
<1>1. PICK S \in SUBSET Keys : t \in [S -> Values]
  BY DEF Table
<1>2. \A k : Strings(t, k) \in SUBSET Texts
  BY <1>1 DEF Strings, Entry, Texts
<1>3. PICK x \in DOMAIN t : x = "when" /\ t[x].kind = "str"
  BY DEF RuleOk, Strings, Entry
<1>4. Strings(t, "when") = {t["when"].v}
  BY <1>3 DEF Strings, Entry
<1>5. RuleOf(t).when = t["when"].v /\ RuleOf(t).when \in GoodFilters
  BY <1>4, TheOnly DEF RuleOf, RuleOk
<1>6. RuleOf(t) \in Rule
  <2> DEFINE told == \E e \in Entry(t, "notify", "bool") : e.v = 1
  <2>1. told \in BOOLEAN
    OBVIOUS
  <2>2. RuleOf(t) = [when |-> RuleOf(t).when, run |-> Strings(t, "run"), log |-> Strings(t, "log"),
                     notify |-> told]
    BY DEF RuleOf
  <2> HIDE DEF told
  <2>3. QED
    BY <1>2, <1>5, <2>1, <2>2 DEF Rule
<1>7. t["when"] \in Values
  BY <1>1, <1>3
<1>8. t["when"] = [kind |-> "str", v |-> RuleOf(t).when]
  BY <1>3, <1>5, <1>7, ValuesArePairs
<1>9. QED
  BY <1>3, <1>6, <1>8

LEMMA Initially == SettingsInit => RInv
<1> SUFFICES ASSUME SettingsInit PROVE RInv
  OBVIOUS
<1>1. EmptyDoc \in [tables : [Tables -> Table], rules : Seq(Table)]
  BY EmptyTableFacts DEF EmptyDoc
<1>2. QED
  BY <1>1 DEF SettingsInit, RInv, SettingsTypes, RulesInv

(* Steps that leave the rules and the phase of reading alone.                  *)
LEMMA Elsewhere ==
    ASSUME RInv, UNCHANGED <<doc, rules, written>>,
           \/ phase' = phase /\ current' = current
           \/ phase' = "refused"
           \/ phase \notin {"read", "refused"} /\ phase' # "read"
    PROVE  RInv'
  BY DEF RInv, SettingsTypes, RulesInv

LEMMA OpenFileKeeps == RInv /\ OpenFile => RInv'
<1> SUFFICES ASSUME RInv, OpenFile PROVE RInv'
  OBVIOUS
<1>1. /\ EmptyDoc \in [tables : [Tables -> Table], rules : Seq(Table)]
      /\ EmptyDoc.rules = << >>
  BY EmptyTableFacts DEF EmptyDoc
<1>2. current' # "rule"
  BY DEF OpenFile, NoTable
<1>3. QED
  BY <1>1, <1>2 DEF OpenFile, RInv, SettingsTypes, RulesInv

LEMMA OpenRuleKeeps == RInv /\ OpenRule => RInv'
<1> SUFFICES ASSUME RInv, OpenRule PROVE RInv'
  OBVIOUS
<1> DEFINE n == Len(doc.rules)
<1>1. /\ doc.rules \in Seq(Table) /\ rules \in Seq(Rule) /\ written \in Seq(Seq(Values))
      /\ phase = "read" /\ UNCHANGED <<phase, rules>> /\ EmptyTable \in Table /\ << >> \in Seq(Values)
      /\ written' = Append(written, << >>)
      /\ doc' = [doc EXCEPT !.rules = Append(@, EmptyTable)]
  BY EmptyTableFacts DEF RInv, SettingsTypes, OpenRule, NextLine
<1>2. /\ doc' \in [tables : [Tables -> Table], rules : Seq(Table)]
      /\ doc'.rules = Append(doc.rules, EmptyTable)
  <2> DEFINE rs == Append(doc.rules, EmptyTable)
  <2>1. doc \in [tables : [Tables -> Table], rules : Seq(Table)]
    BY DEF RInv, SettingsTypes
  <2>2. rs \in Seq(Table) /\ doc' = [doc EXCEPT !.rules = rs]
    BY <1>1
  <2> HIDE DEF rs
  <2>3. QED
    BY <2>1, <2>2, DocFacts DEF rs
<1> DEFINE blank == << >>
<1> HIDE DEF blank
<1>3. blank \in Seq(Values) /\ written' = Append(written, blank)
  BY <1>1 DEF blank
<1>4. /\ written' \in Seq(Seq(Values)) /\ Len(written') = Len(written) + 1
      /\ \A i \in 1 .. Len(written) : written'[i] = written[i]
      /\ written'[Len(written) + 1] = blank
  BY <1>1, <1>3, AppendFacts
<1>5. /\ doc'.rules # << >> /\ Len(doc'.rules) = n + 1 /\ n \in Nat /\ Len(rules) \in Nat
      /\ \A i \in 1 .. n : doc'.rules[i] = doc.rules[i]
      /\ doc'.rules[n + 1] = EmptyTable
  BY <1>1, <1>2, AppendFacts
<1>6. SettingsTypes'
  BY <1>1, <1>2, <1>4 DEF SettingsTypes
<1>7. /\ Len(written) = Len(rules) + n
      /\ \A i \in 1 .. n : Holds(doc.rules[i], written[Len(rules) + i])
  BY <1>1 DEF RInv, RulesInv
<1>8. ASSUME NEW i \in 1 .. Len(rules)
      PROVE  Applied(rules'[i], written'[i])
  <2>1. Applied(rules[i], written[i])
    BY DEF RInv, RulesInv
  <2>2. rules'[i] = rules[i] /\ written'[i] = written[i]
    BY <1>1, <1>7, <1>4, <1>5
  <2>3. QED
    BY <2>1, <2>2
<1>9. ASSUME NEW i \in 1 .. n + 1
      PROVE  Holds(doc'.rules[i], written'[Len(rules) + i])
  <2>1. CASE i \in 1 .. n
    <3>1. Len(rules) + i \in 1 .. Len(written)
      BY <1>7, <1>5, <2>1
    <3>2. doc'.rules[i] = doc.rules[i] /\ written'[Len(rules) + i] = written[Len(rules) + i]
      BY <1>4, <1>5, <2>1, <3>1
    <3>3. QED
      BY <1>7, <2>1, <3>2
  <2>2. CASE i = n + 1
    <3>1. doc'.rules[i] = EmptyTable /\ written'[Len(rules) + i] = blank
      BY <1>7, <1>4, <1>5, <2>2
    <3>2. QED
      BY <3>1, NothingHeld DEF blank
  <2>3. QED
    BY <1>5, <2>1, <2>2
<1>10. Len(written') = Len(rules') + Len(doc'.rules) /\ doc'.rules # << >>
  BY <1>1, <1>2, <1>7, <1>4, <1>5
<1>11. QED
  BY <1>1, <1>6, <1>8, <1>9, <1>10, <1>5 DEF RInv, RulesInv

LEMMA KeyInTableKeeps ==
    ASSUME RInv, NEW l \in KeyLines, KeyInTable(l.key, l.val)
    PROVE  RInv'
<1>1. l.val \in Values /\ l.key \in Keys
  BY DEF Values, Keys
<1>2. /\ current \in Tables /\ UNCHANGED <<phase, current, rules, written>>
      /\ doc' = [doc EXCEPT !.tables[current] = With(@, l.key, l.val)]
  BY DEF KeyInTable
<1>3. doc.tables \in [Tables -> Table] /\ doc.rules \in Seq(Table)
  BY DEF RInv, SettingsTypes
<1>4. With(doc.tables[current], l.key, l.val) \in Table
  BY <1>1, <1>2, <1>3, WithFacts
<1>5. doc'.rules = doc.rules /\ doc' \in [tables : [Tables -> Table], rules : Seq(Table)]
  BY <1>2, <1>3, <1>4 DEF RInv, SettingsTypes
<1>6. QED
  BY <1>2, <1>5 DEF RInv, SettingsTypes, RulesInv

LEMMA KeyInRuleKeeps ==
    ASSUME RInv, NEW l \in KeyLines, KeyInRule(l.key, l.val)
    PROVE  RInv'
<1> DEFINE n == Len(doc.rules)
           m == Len(written)
           t == With(doc.rules[n], l.key, l.val)
<1>1. l.val \in Values /\ l.key \in Keys
  BY DEF Values, Keys
<1>2. /\ doc.rules \in Seq(Table) /\ rules \in Seq(Rule) /\ written \in Seq(Seq(Values))
      /\ phase = "read" /\ current = "rule" /\ UNCHANGED <<phase, current, rules>>
      /\ doc' = [doc EXCEPT !.rules[n] = With(@, l.key, l.val)]
      /\ written' = IF l.key = "when" THEN [written EXCEPT ![m] = Append(@, l.val)] ELSE written
  BY DEF RInv, SettingsTypes, KeyInRule, NextLine
<1>3. /\ m = Len(rules) + n
      /\ \A i \in 1 .. n : Holds(doc.rules[i], written[Len(rules) + i])
      /\ n \in 1 .. n /\ m \in 1 .. m
  BY <1>2 DEF RInv, RulesInv
<1>4. doc.rules[n] \in Table /\ written[m] \in Seq(Values)
  BY <1>2, <1>3
<1>5. /\ t \in Table /\ DOMAIN t = DOMAIN doc.rules[n] \union {l.key} /\ t[l.key] = l.val
      /\ \A x \in DOMAIN doc.rules[n] : x # l.key => t[x] = doc.rules[n][x]
  <2> DEFINE u == doc.rules[n]
             k == l.key
             v == l.val
             w == With(u, k, v)
  <2>1. u \in Table /\ k \in Keys /\ v \in Values
    BY <1>1, <1>4
  <2>2. t = w
    OBVIOUS
  <2> HIDE DEF t, u, k, v
  <2>3. w \in Table /\ DOMAIN w = DOMAIN u \union {k} /\ w[k] = v
    BY <2>1, WithFacts
  <2>4. \A x \in DOMAIN u : x # k => w[x] = u[x]
    BY <2>1, WithFacts
  <2> HIDE DEF w
  <2>5. QED
    BY <2>2, <2>3, <2>4 DEF u, k, v
<1>6. /\ doc' \in [tables : [Tables -> Table], rules : Seq(Table)]
      /\ doc'.rules = [doc.rules EXCEPT ![n] = t]
  <2> DEFINE rs == [doc.rules EXCEPT ![n] = t]
  <2>1. doc \in [tables : [Tables -> Table], rules : Seq(Table)]
    BY DEF RInv, SettingsTypes
  <2>2. doc' = [doc EXCEPT !.rules = rs]
    BY <1>2
  <2> HIDE DEF t
  <2>3. rs \in Seq(Table)
    BY <1>2, <1>3, <1>5, ExceptSeq
  <2> HIDE DEF rs
  <2>4. QED
    BY <2>1, <2>2, <2>3, DocFacts DEF rs
<1> HIDE DEF t
<1>7. written' \in Seq(Seq(Values)) /\ Len(written') = m /\ Len(doc'.rules) = n
  BY <1>1, <1>2, <1>3, <1>4, <1>6
<1>8. SettingsTypes'
  BY <1>2, <1>6, <1>7 DEF SettingsTypes
<1>9. \A i \in 1 .. m - 1 : written'[i] = written[i]
  BY SMTT(20), <1>2, <1>3
<1>10. ASSUME NEW i \in 1 .. Len(rules)
       PROVE  Applied(rules'[i], written'[i])
  <2>1. Applied(rules[i], written[i])
    BY DEF RInv, RulesInv
  <2>2. rules'[i] = rules[i] /\ written'[i] = written[i]
    BY SMTT(20), <1>2, <1>3, <1>9
  <2>3. QED
    BY <2>1, <2>2
<1>11. Holds(t, written'[m])
  <2>1. Holds(doc.rules[n], written[m])
    BY <1>3
  <2>2. CASE l.key = "when"
    <3>1. written'[m] = Append(written[m], l.val)
      BY <1>2, <1>3, <2>2
    <3>2. written'[m] # << >> /\ Last(written'[m]) = l.val
      BY <1>1, <1>4, <3>1 DEF Last
    <3>3. "when" \in DOMAIN t /\ t["when"] = l.val
      BY <1>5, <2>2
    <3>4. QED
      BY <3>2, <3>3 DEF Holds
  <2>3. CASE l.key # "when"
    <3>1. "when" \in DOMAIN t <=> "when" \in DOMAIN doc.rules[n]
      BY <1>5, <2>3
    <3>2. "when" \in DOMAIN doc.rules[n] => t["when"] = doc.rules[n]["when"]
      BY <1>5, <2>3
    <3>3. written'[m] = written[m]
      BY <1>2, <2>3
    <3>4. QED
      BY <2>1, <3>1, <3>2, <3>3 DEF Holds
  <2>4. QED
    BY <2>2, <2>3
<1>12. ASSUME NEW i \in 1 .. n
       PROVE  Holds(doc'.rules[i], written'[Len(rules) + i])
  <2>1. CASE i = n
    BY <1>2, <1>3, <1>6, <1>11, <2>1
  <2>2. CASE i # n
    <3>1. doc'.rules[i] = doc.rules[i] /\ written'[Len(rules) + i] = written[Len(rules) + i]
      BY <1>2, <1>3, <1>6, <1>9, <2>2, SMTT(20)
    <3>2. QED
      BY <1>3, <3>1
  <2>3. QED
    BY <2>1, <2>2
<1>13. doc'.rules # << >>
  BY <1>3, <1>6, <1>7
<1>14. QED
  BY <1>2, <1>3, <1>7, <1>8, <1>10, <1>12, <1>13 DEF RInv, RulesInv

LEMMA ApplyTomlKeeps == RInv /\ ApplyToml => RInv'
<1> SUFFICES ASSUME RInv, ApplyToml PROVE RInv'
  OBVIOUS
<1> DEFINE n == Len(doc.rules)
           pushed == [i \in DOMAIN doc.rules |-> RuleOf(doc.rules[i])]
<1>1. /\ doc.rules \in Seq(Table) /\ rules \in Seq(Rule) /\ written \in Seq(Seq(Values))
      /\ phase = "read" /\ phase' \in {"env", "open"} /\ UNCHANGED <<doc, written>>
      /\ rules' = rules \o pushed
      /\ \A i \in DOMAIN doc.rules : RuleOk(doc.rules[i])
  BY DEF RInv, SettingsTypes, ApplyToml, PushRules, NextPhase
<1>2. ASSUME NEW i \in 1 .. n
      PROVE  /\ RuleOf(doc.rules[i]) \in Rule
             /\ "when" \in DOMAIN doc.rules[i]
             /\ doc.rules[i]["when"] = [kind |-> "str", v |-> RuleOf(doc.rules[i]).when]
  <2>1. doc.rules[i] \in Table /\ RuleOk(doc.rules[i])
    BY <1>1
  <2>2. QED
    BY <2>1, RuleFacts
<1>3. pushed \in Seq(Rule) /\ Len(pushed) = n /\ \A i \in 1 .. n : pushed[i] = RuleOf(doc.rules[i])
  <2>1. n \in Nat /\ DOMAIN doc.rules = 1 .. n
    BY <1>1
  <2>2. pushed \in [1 .. n -> Rule]
    BY <1>2, <2>1
  <2>3. pushed \in Seq(Rule) /\ Len(pushed) = n
    BY <2>1, <2>2, SeqDef
  <2>4. QED
    BY <2>1, <2>3
<1> HIDE DEF pushed
<1>4. /\ rules' \in Seq(Rule) /\ Len(rules') = Len(rules) + n
      /\ \A i \in 1 .. Len(rules) : rules'[i] = rules[i]
      /\ \A i \in 1 .. n : rules'[Len(rules) + i] = pushed[i]
  BY <1>1, <1>3
<1>5. /\ Len(written) = Len(rules) + n
      /\ \A i \in 1 .. n : Holds(doc.rules[i], written[Len(rules) + i])
      /\ \A i \in 1 .. Len(rules) : Applied(rules[i], written[i])
  BY <1>1 DEF RInv, RulesInv
<1>6. ASSUME NEW i \in 1 .. n
      PROVE  Applied(rules'[Len(rules) + i], written[Len(rules) + i])
  <2>1. /\ RuleOf(doc.rules[i]) \in Rule /\ "when" \in DOMAIN doc.rules[i]
        /\ doc.rules[i]["when"] = [kind |-> "str", v |-> RuleOf(doc.rules[i]).when]
    BY <1>2
  <2>2. Last(written[Len(rules) + i]) = doc.rules[i]["when"]
    BY <1>5, <2>1 DEF Holds
  <2>3. RuleOf(doc.rules[i]).when \in GoodFilters
    BY <2>1 DEF Rule
  <2>4. QED
    BY <1>3, <1>4, <2>1, <2>2, <2>3 DEF Applied
<1>7. ASSUME NEW i \in 1 .. Len(rules')
      PROVE  Applied(rules'[i], written'[i])
  <2>1. CASE i \in 1 .. Len(rules)
    BY <1>1, <1>4, <1>5, <2>1
  <2>2. CASE i \notin 1 .. Len(rules)
    <3>1. i - Len(rules) \in 1 .. n /\ Len(rules) + (i - Len(rules)) = i
      BY <1>1, <1>4, <2>2
    <3>2. QED
      BY <1>1, <1>6, <3>1
  <2>3. QED
    BY <2>1, <2>2
<1>8. SettingsTypes'
  BY <1>1, <1>4 DEF RInv, SettingsTypes
<1>9. QED
  BY <1>1, <1>4, <1>5, <1>7, <1>8 DEF RInv, RulesInv

LEMMA Inductive == RInv /\ [SettingsNext]_settingsVars => RInv'
<1> SUFFICES ASSUME RInv, [SettingsNext]_settingsVars PROVE RInv'
  OBVIOUS
<1>1. CASE OpenFile
  BY <1>1, OpenFileKeeps
<1>2. CASE SkipFile
  BY <1>2, Elsewhere DEF SkipFile, NextPhase
<1>3. CASE OpenRule
  BY <1>3, OpenRuleKeeps
<1>4. CASE ApplyToml
  BY <1>4, ApplyTomlKeeps
<1>5. CASE RefuseRules
  BY <1>5, Elsewhere DEF RefuseRules, Refuse
<1>6. ASSUME NEW t \in Tables, OpenTable(t)
      PROVE  RInv'
  <2>1. /\ t # "rule" /\ current' = t
        /\ UNCHANGED <<phase, doc, rules, written>>
    BY <1>6 DEF OpenTable, Tables
  <2>2. QED
    BY <2>1 DEF RInv, SettingsTypes, RulesInv
<1>7. ASSUME NEW l \in {x \in Lines : x.kind = "key"},
             KeyInTable(l.key, l.val) \/ KeyInRule(l.key, l.val)
      PROVE  RInv'
  BY <1>7, KeyInTableKeeps, KeyInRuleKeeps DEF KeyLines
<1>8. ASSUME NEW l \in Lines, BadLine(l)
      PROVE  RInv'
  BY <1>8, Elsewhere DEF BadLine, Refuse
<1>9. CASE ApplyEnv \/ StartDaemon \/ NoPsi \/ Explain
  <2>1. /\ UNCHANGED <<doc, rules, written>>
        /\ phase \in {"env", "config"} /\ phase' # "read"
    BY <1>9 DEF ApplyEnv, StartDaemon, NoPsi, Explain, Refuse
  <2>2. QED
    BY <2>1, Elsewhere
<1>10. CASE SettingsDone \/ UNCHANGED settingsVars
  BY <1>10, Elsewhere DEF SettingsDone, settingsVars
<1>11. QED
  BY <1>1, <1>2, <1>3, <1>4, <1>5, <1>6, <1>7, <1>8, <1>9, <1>10 DEF SettingsNext

(* A program that got past its files has every [[rule]] block of every file it *)
(* read, in order, each with the last filter written in it, and one that does  *)
(* parse: for any files, however often a table or a key is repeated.           *)
THEOREM RulesAreKept == SettingsSpec => []NoRuleDropped
<1>1. SettingsInit => RInv
  BY Initially
<1>2. RInv /\ [SettingsNext]_settingsVars => RInv'
  BY Inductive
<1>3. RInv => NoRuleDropped
  <2> SUFFICES ASSUME RInv, phase \in {"config", "running", "explained"}
               PROVE  /\ Len(rules) = Len(written)
                      /\ \A i \in DOMAIN rules :
                            /\ Last(written[i]) = [kind |-> "str", v |-> rules[i].when]
                            /\ rules[i].when \in GoodFilters
    BY DEF NoRuleDropped
  <2>1. rules \in Seq(Rule)
    BY DEF RInv, SettingsTypes
  <2>2. QED
    BY <2>1 DEF RInv, RulesInv, Applied
<1>4. QED
  BY <1>1, <1>2, <1>3, PTL DEF SettingsSpec

-----------------------------------------------------------------------------
(* Which layer wins.  What every layer said of a setting is kept in order; the *)
(* program keeps only a value and where it came from.                          *)
LayerNames == {"etc", "home", "env", "flag"}
Said == Values \union [kind : {"int"}, v : Nat]
Entries == [layer : LayerNames, val : Said]

(* What one layer makes of a setting it speaks of, and what the first n make.  *)
Word(s, l) ==
    [value |-> Clamped(s, The(LastOf(s, l))), origin |-> Layers[l]]
Speaks(s, n) == {l \in 1 .. n : LastOf(s, l) # {}}
Says(s, n) ==
    IF Speaks(s, n) = {} THEN [value |-> Schema[s].default, origin |-> "default"]
    ELSE Word(s, Max(Speaks(s, n)))

(* The layers heard, and those whose word is in cfg already.                   *)
Settled == IF phase \in {"open", "read", "env"} THEN path - 1 ELSE 3
Heard == IF phase = "read" THEN path ELSE Settled

(* What the file being read has said of a setting is the last thing said of it.*)
InFile(s) ==
    LET t == doc.tables[Schema[s].table]
    IN  IF s \in DOMAIN t
        THEN stated[s] # << >> /\ Last(stated[s]) = [layer |-> Layers[path], val |-> t[s]]
        ELSE \A i \in 1 .. Len(stated[s]) : stated[s][i].layer # Layers[path]

Live == phase \notin {"refused", "running"}

LayersInv ==
    /\ stated \in [Settings -> Seq(Entries)]
    /\ phase \in {"open", "read"} => path \in 1 .. 2
    /\ phase = "env" => path = 3
    /\ DOMAIN cfg = Settings
    /\ Live => \A s \in Settings :
                  /\ \A i \in 1 .. Len(stated[s]) : \E l \in 1 .. Heard : stated[s][i].layer = Layers[l]
                  /\ cfg[s] = Says(s, Settled)
    /\ phase = "read" => \A s \in Settings : InFile(s)

LInv == RInv /\ LayersInv /\ MostSpecificWins
-----------------------------------------------------------------------------
LEMMA LayersFacts ==
    /\ Layers[1] = "etc" /\ Layers[2] = "home" /\ Layers[3] = "env" /\ Layers[4] = "flag"
    /\ \A l \in 1 .. 4 : Layers[l] \in LayerNames
    /\ \A l, m \in 1 .. 4 : Layers[l] = Layers[m] => l = m
    /\ \A p \in 1 .. 2 : Paths[p] = Layers[p]
  BY DEF Layers, LayerNames, Paths

LEMMA SchemaFacts ==
    /\ \A s \in Settings : Schema[s].table \in Tables
    /\ \A s \in Settings : Clamped(s, Schema[s].default) = Schema[s].default
    /\ FromEnv \subseteq Settings
    /\ \A s \in FromEnv :
          /\ Schema[s].kind = "int" /\ Schema[s].default \in Nat
          /\ Schema[s].lo \in Nat /\ Schema[s].hi \in Nat /\ DaemonMax[s] \in Nat
          /\ Schema[s].lo <= DaemonMax[s] /\ DaemonMax[s] <= Schema[s].hi
<1>1. Settings = {"threshold_ms", "capture_ms", "history_secs", "resources", "enabled",
                  "min_peak", "cooldown_secs"}
  BY DEF Settings, Schema
<1>2. Unbounded \in Nat /\ Unbounded >= 5000
  BY SettingsAssumption
<1>3. \A s \in Settings : Schema[s].table \in Tables
  BY <1>1 DEF Schema, Section, Tables
<1>4. \A s \in Settings : Clamped(s, Schema[s].default) = Schema[s].default
  BY <1>1, <1>2 DEF Schema, Section, Clamped, Clamp
<1>5. FromEnv \subseteq Settings
  BY <1>1 DEF FromEnv
<1>6. \A s \in FromEnv :
          /\ Schema[s].kind = "int" /\ Schema[s].default \in Nat
          /\ Schema[s].lo \in Nat /\ Schema[s].hi \in Nat /\ DaemonMax[s] \in Nat
          /\ Schema[s].lo <= DaemonMax[s] /\ DaemonMax[s] <= Schema[s].hi
  BY <1>2 DEF FromEnv, Schema, Section, DaemonMax
<1>7. QED
  BY <1>3, <1>4, <1>5, <1>6

LEMMA MaxFacts ==
    ASSUME NEW n \in 0 .. 4, NEW S \in SUBSET (1 .. n), S # {}
    PROVE  Max(S) \in S /\ \A x \in S : x <= Max(S)
<1>1. \E x \in S : \A y \in S : x >= y
  <2>1. \A x \in S : x \in {1, 2, 3, 4}
    OBVIOUS
  <2>2. CASE 4 \in S
    BY <2>1, <2>2
  <2>3. CASE 4 \notin S /\ 3 \in S
    BY <2>1, <2>3
  <2>4. CASE 4 \notin S /\ 3 \notin S /\ 2 \in S
    BY <2>1, <2>4
  <2>5. CASE 4 \notin S /\ 3 \notin S /\ 2 \notin S
    <3>1. PICK x \in S : x = 1
      BY <2>1, <2>5
    <3>2. \A y \in S : x >= y
      BY <2>1, <2>5, <3>1
    <3>3. QED
      BY <3>2
  <2>6. QED
    BY <2>2, <2>3, <2>4, <2>5
<1>2. QED
  BY <1>1 DEF Max

(* The last word of a layer when one thing more is said.                       *)
LEMMA LastWordAfter ==
    ASSUME NEW S, NEW q \in Seq(S), NEW e \in S, NEW layer, NEW kind
    PROVE  LastWord(Append(q, e), layer, kind) =
               IF e.layer = layer THEN IF e.val.kind = kind THEN {e.val.v} ELSE {}
               ELSE LastWord(q, layer, kind)
<1> DEFINE r == Append(q, e)
           n == Len(q)
           before == {i \in DOMAIN q : q[i].layer = layer}
           after == {i \in DOMAIN r : r[i].layer = layer}
<1>1. /\ n \in Nat /\ DOMAIN q = 1 .. n /\ DOMAIN r = 1 .. n + 1
      /\ r[n + 1] = e /\ \A i \in 1 .. n : r[i] = q[i]
  BY AppendFacts
<1> HIDE DEF r, n
<1>2. CASE e.layer = layer
  <2>1. n + 1 \in after /\ \A k \in after : k <= n + 1
    BY <1>1, <1>2
  <2>2. \A j \in after : (\A k \in after : k <= j) <=> j = n + 1
    BY <1>1, <2>1
  <2>3. {j \in after : r[j].val.kind = kind /\ \A k \in after : k <= j} =
            IF e.val.kind = kind THEN {n + 1} ELSE {}
    <3> HIDE DEF after
    <3>1. QED
      BY <1>1, <2>1, <2>2
  <2>4. QED
    BY <1>1, <1>2, <2>3 DEF LastWord, r
<1>3. CASE e.layer # layer
  <2>1. after = before
    BY <1>1, <1>3
  <2>2. \A i \in before : r[i] = q[i]
    BY <1>1
  <2>3. {j \in after : r[j].val.kind = kind /\ \A k \in after : k <= j} =
        {j \in before : q[j].val.kind = kind /\ \A k \in before : k <= j}
    <3> HIDE DEF before, after
    <3>1. QED
      BY <2>1, <2>2
  <2>4. QED
    BY <1>3, <2>1, <2>2, <2>3 DEF LastWord, r
<1>4. QED
  BY <1>2, <1>3

(* The last thing said is the last word of the layer that said it.             *)
LEMMA LastWordIsLast ==
    ASSUME NEW S, NEW q \in Seq(S), q # << >>, NEW kind
    PROVE  LastWord(q, Last(q).layer, kind) =
               IF Last(q).val.kind = kind THEN {Last(q).val.v} ELSE {}
<1> DEFINE n == Len(q)
           said == {i \in DOMAIN q : q[i].layer = q[n].layer}
<1>1. n \in Nat /\ DOMAIN q = 1 .. n /\ n \in 1 .. n
  OBVIOUS
<1>2. n \in said /\ \A j \in said : (\A k \in said : k <= j) <=> j = n
  BY <1>1
<1>3. {j \in said : q[j].val.kind = kind /\ \A k \in said : k <= j} =
          IF q[n].val.kind = kind THEN {n} ELSE {}
  <2> HIDE DEF said, n
  <2>1. QED
    BY <1>2
<1>4. QED
  BY <1>3 DEF LastWord, Last

LEMMA NoWord ==
    ASSUME NEW S, NEW q \in Seq(S), NEW layer, NEW kind,
           \A i \in 1 .. Len(q) : q[i].layer # layer
    PROVE  LastWord(q, layer, kind) = {}
  BY DEF LastWord

LEMMA SaysNothing ==
    ASSUME NEW s
    PROVE  Says(s, 0) = [value |-> Schema[s].default, origin |-> "default"]
  BY DEF Says, Speaks

(* One layer more either says something, or changes nothing.                   *)
OneLayerMore(s, n) ==
    Says(s, n + 1) = IF LastOf(s, n + 1) = {} THEN Says(s, n) ELSE Word(s, n + 1)

LEMMA SaysNext ==
    ASSUME NEW s, NEW n \in 0 .. 3
    PROVE  OneLayerMore(s, n)
<1> USE DEF OneLayerMore
<1>1. CASE LastOf(s, n + 1) = {}
  <2>1. Speaks(s, n + 1) = Speaks(s, n)
    BY <1>1 DEF Speaks
  <2>2. QED
    BY <1>1, <2>1 DEF Says
<1>2. CASE LastOf(s, n + 1) # {}
  <2>1. Speaks(s, n + 1) \in SUBSET (1 .. n + 1) /\ n + 1 \in Speaks(s, n + 1) /\ n + 1 \in 0 .. 4
    BY <1>2 DEF Speaks
  <2>2. Max(Speaks(s, n + 1)) = n + 1
    <3>1. Max(Speaks(s, n + 1)) \in Speaks(s, n + 1) /\ n + 1 <= Max(Speaks(s, n + 1))
      BY <2>1, MaxFacts
    <3>2. QED
      BY <2>1, <3>1
  <2>3. QED
    BY <1>2, <2>1, <2>2 DEF Says
<1>3. QED
  BY <1>1, <1>2

LEMMA SaysTheSame ==
    ASSUME NEW s, NEW n \in 0 .. 4, \A l \in 1 .. n : LastOf(s, l)' = LastOf(s, l)
    PROVE  Says(s, n)' = Says(s, n)
<1>1. Speaks(s, n)' = Speaks(s, n)
  BY DEF Speaks
<1>2. CASE Speaks(s, n) = {}
  BY <1>1, <1>2 DEF Says
<1>3. CASE Speaks(s, n) # {}
  <2>1. Speaks(s, n) \in SUBSET (1 .. n)
    BY DEF Speaks
  <2>2. Max(Speaks(s, n)) \in 1 .. n
    BY <1>3, <2>1, MaxFacts
  <2>3. LastOf(s, Max(Speaks(s, n)))' = LastOf(s, Max(Speaks(s, n)))
    BY <1>1, <2>2
  <2>4. QED
    BY <1>1, <1>3, <2>3 DEF Says, Word
<1>4. QED
  BY <1>2, <1>3

LEMMA WinnerTheSame ==
    ASSUME NEW s, \A l \in 1 .. 4 : LastOf(s, l)' = LastOf(s, l)
    PROVE  Winner(s)' = Winner(s)
<1> DEFINE speaks == {l \in 1 .. 4 : LastOf(s, l) # {}}
<1>1. {l \in 1 .. 4 : LastOf(s, l)' # {}} = speaks
  OBVIOUS
<1>2. CASE speaks = {}
  BY <1>1, <1>2 DEF Winner
<1>3. CASE speaks # {}
  <2>1. speaks \in SUBSET (1 .. 4) /\ 4 \in 0 .. 4
    OBVIOUS
  <2>2. Max(speaks) \in 1 .. 4
    <3> HIDE DEF speaks
    <3>1. QED
      BY <1>3, <2>1, MaxFacts
  <2>3. LastOf(s, Max(speaks))' = LastOf(s, Max(speaks))
    BY <2>2
  <2>4. QED
    BY <1>1, <1>3, <2>3 DEF Winner
<1>4. QED
  BY <1>2, <1>3

(* All four layers together are the winner, forced into the setting's range.   *)
LEMMA SaysWinner ==
    ASSUME NEW s \in Settings
    PROVE  Says(s, 4) = [value |-> Clamped(s, Winner(s).value), origin |-> Winner(s).origin]
  BY SchemaFacts DEF Says, Speaks, Word, Winner

-----------------------------------------------------------------------------
LEMMA SaidFacts ==
    ASSUME NEW e \in Said
    PROVE  e = [kind |-> e.kind, v |-> e.v] /\ (e.kind = "int" => e.v \in Int)
  BY ValuesArePairs DEF Said

(* A layer nobody has heard has no last word.                                  *)
LEMMA Unheard ==
    ASSUME LayersInv, Live, NEW s \in Settings, NEW l \in 1 .. 4, l \notin 1 .. Heard,
           Heard \in 0 .. 3
    PROVE  LastOf(s, l) = {}
<1>1. stated[s] \in Seq(Entries)
  BY DEF LayersInv
<1>2. \A i \in 1 .. Len(stated[s]) : stated[s][i].layer # Layers[l]
  BY LayersFacts DEF LayersInv
<1>3. QED
  BY <1>1, <1>2, NoWord DEF LastOf

(* What the file has said of a setting is the entry of its table, if the entry *)
(* is of the right kind.                                                       *)
LEMMA FileWord ==
    ASSUME LayersInv, phase = "read", NEW s \in Settings
    PROVE  LET t == doc.tables[Schema[s].table]
           IN  LastOf(s, path) = IF s \in DOMAIN t /\ t[s].kind = Schema[s].kind THEN {t[s].v} ELSE {}
<1> DEFINE t == doc.tables[Schema[s].table]
<1>1. stated[s] \in Seq(Entries) /\ InFile(s)
  BY DEF LayersInv
<1>2. CASE s \in DOMAIN t
  <2>1. stated[s] # << >> /\ Last(stated[s]).layer = Layers[path] /\ Last(stated[s]).val = t[s]
    BY <1>1, <1>2 DEF InFile
  <2>2. QED
    BY <1>1, <1>2, <2>1, LastWordIsLast DEF LastOf
<1>3. CASE s \notin DOMAIN t
  <2>1. \A i \in 1 .. Len(stated[s]) : stated[s][i].layer # Layers[path]
    BY <1>1, <1>3 DEF InFile
  <2>2. QED
    BY <1>1, <1>3, <2>1, NoWord DEF LastOf
<1>4. QED
  BY <1>2, <1>3

LEMMA WordsStart == SettingsInit => LInv
<1> SUFFICES ASSUME SettingsInit PROVE LInv
  OBVIOUS
<1>1. RInv
  BY Initially
<1>2. stated = [s \in Settings |-> << >>] /\ path = 1 /\ phase = "open" /\ Settled = 0 /\ Heard = 0
  BY DEF SettingsInit, Settled, Heard
<1>3. \A s \in Settings : stated[s] = << >> /\ cfg[s] = Says(s, 0)
  BY <1>2, SaysNothing DEF SettingsInit
<1>4. DOMAIN cfg = Settings
  BY DEF SettingsInit
<1>5. LayersInv
  BY <1>2, <1>3, <1>4 DEF LayersInv
<1>6. QED
  BY <1>1, <1>2, <1>5 DEF LInv, MostSpecificWins

(* Steps that say nothing: as many layers have been heard, and settled.        *)
LEMMA SameWords ==
    ASSUME LayersInv, UNCHANGED <<stated, cfg>>,
           \/ ~Live'
           \/ /\ Live /\ Settled' = Settled /\ Settled \in 0 .. 3
              /\ Heard' = Heard \/ (Heard' = Heard + 1 /\ Heard \in 0 .. 2),
           phase' \in {"open", "read"} => path' \in 1 .. 2,
           phase' = "env" => path' = 3,
           phase' = "read" => \A s \in Settings : InFile(s)'
    PROVE  LayersInv'
<1>1. ASSUME NEW s \in Settings, NEW n \in 0 .. 3
      PROVE  Says(s, n)' = Says(s, n)
  <2>1. \A l \in 1 .. n : LastOf(s, l)' = LastOf(s, l)
    BY DEF LastOf
  <2>2. QED
    BY <2>1, SaysTheSame
<1>2. ASSUME Live', NEW s \in Settings
      PROVE  /\ \A i \in 1 .. Len(stated'[s]) : \E l \in 1 .. Heard' : stated'[s][i].layer = Layers[l]
             /\ cfg'[s] = Says(s, Settled)'
  <2>1. Live /\ Settled' = Settled /\ Settled \in 0 .. 3
    BY <1>2
  <2>2. 1 .. Heard \subseteq 1 .. Heard'
    BY <1>2
  <2>3. \A i \in 1 .. Len(stated[s]) : \E l \in 1 .. Heard : stated[s][i].layer = Layers[l]
    BY <2>1 DEF LayersInv
  <2>4. cfg[s] = Says(s, Settled)
    BY <2>1 DEF LayersInv
  <2>5. Says(s, Settled)' = Says(s, Settled)
    <3>1. PICK n \in 0 .. 3 : n = Settled
      BY <2>1
    <3>2. Settled' = n
      BY <2>1, <3>1
    <3>3. QED
      BY <1>1, <3>1, <3>2 DEF Says, Speaks
  <2>6. QED
    BY <2>2, <2>3, <2>4, <2>5
<1>3. QED
  BY <1>2 DEF LayersInv

LEMMA StillHeard ==
    ASSUME LayersInv, UNCHANGED <<stated, cfg, path, phase>>, doc'.tables = doc.tables
    PROVE  LayersInv'
<1>1. Settled \in 0 .. 3 /\ Settled' = Settled /\ Heard' = Heard /\ (Live \/ ~Live')
  BY DEF LayersInv, Settled, Heard, Live
<1>2. phase' = "read" => \A s \in Settings : InFile(s)'
  BY DEF LayersInv, InFile
<1>3. /\ phase' \in {"open", "read"} => path' \in 1 .. 2
      /\ phase' = "env" => path' = 3
  BY DEF LayersInv
<1>4. QED
  BY <1>1, <1>2, <1>3, SameWords

LEMMA SaysNextLater ==
    ASSUME NEW CONSTANT s, NEW CONSTANT n \in 0 .. 3
    PROVE  OneLayerMore(s, n)'
<1>1. OneLayerMore(s, n)
  BY SaysNext
<1>2. QED
  BY <1>1, PTL

(* A layer is done with when cfg has taken over its last word, where it has one.*)
LEMMA LayerDone ==
    ASSUME LayersInv, Live, NEW CONSTANT n \in 0 .. 2, Settled = n, Settled' = n + 1, Heard' = n + 1,
           stated' \in [Settings -> Seq(Entries)],
           \A s \in Settings : \A l \in 1 .. n : LastOf(s, l)' = LastOf(s, l),
           \A s \in Settings : \A i \in 1 .. Len(stated'[s]) :
               \E l \in 1 .. n + 1 : stated'[s][i].layer = Layers[l],
           DOMAIN cfg' = Settings,
           \A s \in Settings : cfg'[s] =
               IF LastOf(s, n + 1)' = {} THEN cfg[s] ELSE Word(s, n + 1)',
           phase' # "read", phase' = "open" => path' \in 1 .. 2, phase' = "env" => path' = 3
    PROVE  LayersInv'
<1>1. ASSUME NEW CONSTANT s \in Settings
      PROVE  cfg'[s] = Says(s, n + 1)'
  <2>1. Says(s, n)' = Says(s, n)
    BY SaysTheSame
  <2>2. cfg[s] = Says(s, n)
    BY DEF LayersInv
  <2>3. Says(s, n + 1)' =
               IF LastOf(s, n + 1)' = {} THEN Says(s, n)' ELSE Word(s, n + 1)'
    BY SaysNextLater DEF OneLayerMore
  <2>4. QED
    BY <2>1, <2>2, <2>3
<1>2. \A s \in Settings : cfg'[s] = Says(s, n + 1)'
  BY <1>1
<1>3. \A s \in Settings : cfg'[s] = Says(s, Settled)'
  BY <1>2 DEF Says, Speaks
<1>4. QED
  BY <1>3 DEF LayersInv

LEMMA OpenFileHears == LInv /\ OpenFile => LayersInv'
<1> SUFFICES ASSUME LInv, OpenFile PROVE LayersInv'
  OBVIOUS
<1>1. /\ phase = "open" /\ phase' = "read" /\ path' = path /\ path \in 1 .. 2 /\ LayersInv /\ Live
      /\ doc' = EmptyDoc /\ UNCHANGED <<stated, cfg>>
  BY DEF LInv, OpenFile, LayersInv, Live
<1>2. Settled = path - 1 /\ Settled' = path - 1 /\ Heard = path - 1 /\ Heard' = path
  BY <1>1 DEF Settled, Heard
<1>3. ASSUME NEW s \in Settings
      PROVE  InFile(s)'
  <2>1. s \notin DOMAIN doc'.tables[Schema[s].table]
    BY <1>1, SchemaFacts, EmptyTableFacts DEF EmptyDoc
  <2>2. \A i \in 1 .. Len(stated[s]) : \E l \in 1 .. path - 1 : stated[s][i].layer = Layers[l]
    BY <1>1, <1>2 DEF LayersInv
  <2>3. \A i \in 1 .. Len(stated[s]) : stated[s][i].layer # Layers[path]
    BY <1>1, <2>2, LayersFacts
  <2>4. QED
    BY <1>1, <2>1, <2>3 DEF InFile
<1>4. QED
  BY <1>1, <1>2, <1>3, SameWords

LEMMA SkipFileHears == LInv /\ SkipFile => LayersInv'
<1> SUFFICES ASSUME LInv, SkipFile PROVE LayersInv'
  OBVIOUS
<1>1. /\ phase = "open" /\ path \in 1 .. 2 /\ LayersInv /\ Live /\ path' = path + 1
      /\ phase' = (IF path = 2 THEN "env" ELSE "open") /\ UNCHANGED <<stated, cfg>>
  BY DEF LInv, SkipFile, NextPhase, Paths, LayersInv, Live
<1>2. Settled = path - 1 /\ Settled' = path /\ Heard = path - 1 /\ Heard' = path
  BY <1>1 DEF Settled, Heard
<1>3. PICK n \in 0 .. 2 : n = path - 1
  BY <1>1
<1>4. stated' \in [Settings -> Seq(Entries)] /\ DOMAIN cfg' = Settings
  BY <1>1 DEF LayersInv
<1>5. \A s \in Settings, l \in 1 .. 4 : LastOf(s, l)' = LastOf(s, l)
  BY <1>1 DEF LastOf
<1>6. \A s \in Settings : LastOf(s, n + 1) = {}
  BY <1>1, <1>2, <1>3, Unheard
<1>7. \A s \in Settings : \A i \in 1 .. Len(stated'[s]) :
               \E l \in 1 .. n + 1 : stated'[s][i].layer = Layers[l]
  <2>1. \A s \in Settings : \A i \in 1 .. Len(stated[s]) :
               \E l \in 1 .. n : stated[s][i].layer = Layers[l]
    BY <1>1, <1>2, <1>3 DEF LayersInv
  <2>2. QED
    BY <1>1, <1>3, <2>1
<1>8. \A s \in Settings : LastOf(s, n + 1)' = {} /\ cfg'[s] = cfg[s]
  BY <1>1, <1>3, <1>5, <1>6
<1>9. QED
  BY <1>1, <1>2, <1>3, <1>4, <1>5, <1>7, <1>8, LayerDone

LEMMA KeyInTableHears ==
    ASSUME LInv, NEW l \in KeyLines, KeyInTable(l.key, l.val)
    PROVE  LayersInv'
<1> DEFINE k == l.key
           val == l.val
           e == [layer |-> Layers[path], val |-> val]
           ours(s) == s = k /\ Schema[s].table = current
<1>1. /\ phase = "read" /\ current \in Tables /\ UNCHANGED <<phase, path, cfg>>
      /\ path \in 1 .. 2 /\ LayersInv /\ Live /\ Live' /\ val \in Values /\ k \in Keys
      /\ doc' = [doc EXCEPT !.tables[current] = With(@, k, val)]
      /\ doc \in [tables : [Tables -> Table], rules : Seq(Table)]
      /\ stated \in [Settings -> Seq(Entries)]
  BY DEF LInv, KeyInTable, NextLine, LayersInv, Live, RInv, SettingsTypes, Values, Keys
<1>2. e \in Entries /\ Paths[path] = Layers[path] /\ Layers[path] \in LayerNames
  BY <1>1, LayersFacts DEF Entries, Said
<1>3. stated' = IF k \in Settings /\ Schema[k].table = current
                THEN [stated EXCEPT ![k] = Append(@, e)] ELSE stated
  BY <1>2 DEF KeyInTable
<1> HIDE DEF k, val, e
<1>4. ASSUME NEW s \in Settings
      PROVE  stated'[s] = IF ours(s) THEN Append(stated[s], e) ELSE stated[s]
  BY <1>1, <1>3
<1>5. stated' \in [Settings -> Seq(Entries)]
  BY <1>1, <1>2, <1>3
<1>6. Settled = path - 1 /\ Settled' = path - 1 /\ Heard = path /\ Heard' = path
  BY <1>1 DEF Settled, Heard
<1>7. ASSUME NEW s \in Settings
      PROVE  cfg'[s] = Says(s, Settled)'
  <2>1. PICK n \in 0 .. 1 : n = path - 1
    BY <1>1
  <2>2. ASSUME NEW m \in 1 .. n
        PROVE  LastOf(s, m)' = LastOf(s, m)
    <3>1. e.layer # Layers[m]
      BY <1>1, <2>1, LayersFacts DEF e
    <3>2. stated[s] \in Seq(Entries)
      BY <1>1
    <3>3. CASE ours(s)
      <4>1. LastWord(Append(stated[s], e), Layers[m], Schema[s].kind) =
            LastWord(stated[s], Layers[m], Schema[s].kind)
        BY <1>2, <3>1, <3>2, LastWordAfter
      <4>2. QED
        BY <1>4, <3>3, <4>1 DEF LastOf
    <3>4. CASE ~ours(s)
      BY <1>4, <3>4 DEF LastOf
    <3>5. QED
      BY <3>3, <3>4
  <2>3. Says(s, n)' = Says(s, n)
    BY <2>2, SaysTheSame
  <2>4. cfg[s] = Says(s, n) /\ cfg'[s] = cfg[s]
    BY <1>1, <1>6, <2>1 DEF LayersInv
  <2>5. QED
    BY <1>6, <2>1, <2>3, <2>4 DEF Says, Speaks
<1>8. ASSUME NEW s \in Settings, NEW i \in 1 .. Len(stated'[s])
      PROVE  \E m \in 1 .. Heard' : stated'[s][i].layer = Layers[m]
  <2>1. \A j \in 1 .. Len(stated[s]) : \E m \in 1 .. path : stated[s][j].layer = Layers[m]
    BY <1>1, <1>6 DEF LayersInv
  <2>2. stated[s] \in Seq(Entries) /\ path \in 1 .. path /\ e.layer = Layers[path]
    BY <1>1 DEF e
  <2>3. CASE ours(s)
    <3>1. stated'[s][i] = e \/ (i \in 1 .. Len(stated[s]) /\ stated'[s][i] = stated[s][i])
      <4>1. stated'[s] = Append(stated[s], e)
        BY <1>4, <2>3
      <4>2. /\ Len(Append(stated[s], e)) = Len(stated[s]) + 1
            /\ \A j \in 1 .. Len(stated[s]) : Append(stated[s], e)[j] = stated[s][j]
            /\ Append(stated[s], e)[Len(stated[s]) + 1] = e
        BY <1>2, <2>2, AppendFacts
      <4>3. Len(stated[s]) \in Nat
        BY <2>2
      <4>4. QED
        BY <4>1, <4>2, <4>3
    <3>2. QED
      BY <1>6, <2>1, <2>2, <3>1
  <2>4. CASE ~ours(s)
    BY <1>4, <1>6, <2>1, <2>4
  <2>5. QED
    BY <2>3, <2>4
<1>9. ASSUME NEW s \in Settings
      PROVE  InFile(s)'
  <2> DEFINE T == Schema[s].table
             t == doc.tables[T]
             u == doc'.tables[T]
  <2>1. InFile(s) /\ T \in Tables /\ stated[s] \in Seq(Entries)
    BY <1>1, SchemaFacts DEF LayersInv
  <2>2. u = IF T = current THEN With(t, k, val) ELSE t
    BY <1>1, <2>1
  <2>3. t \in Table
    BY <1>1, <2>1
  <2> DEFINE w == With(t, k, val)
  <2>10. u = IF T = current THEN w ELSE t
    BY <2>2
  <2> HIDE DEF t, u, T
  <2>11. /\ DOMAIN w = DOMAIN t \union {k} /\ w[k] = val
         /\ \A x \in DOMAIN t : x # k => w[x] = t[x]
    BY <1>1, <2>3, WithFacts
  <2> HIDE DEF w
  <2>4. CASE ours(s)
    <3>1. s \in DOMAIN u /\ u[s] = val
      BY <2>10, <2>11, <2>4 DEF T
    <3>2. stated'[s] = Append(stated[s], e)
      BY <1>4, <2>4
    <3>3. stated'[s] # << >> /\ Last(stated'[s]) = e
      BY <1>2, <2>1, <3>2 DEF Last
    <3>4. QED
      BY <1>1, <3>1, <3>3 DEF InFile, T, u, e
  <2>5. CASE ~ours(s)
    <3>1. s \in DOMAIN u <=> s \in DOMAIN t
      BY <2>10, <2>11, <2>5 DEF T
    <3>2. s \in DOMAIN t => u[s] = t[s]
      <4>1. CASE T = current
        <5>1. s # k
          BY <2>5, <4>1 DEF T
        <5>2. QED
          BY <2>10, <2>11, <4>1, <5>1
      <4>2. CASE T # current
        BY <2>10, <4>2
      <4>3. QED
        BY <4>1, <4>2
    <3>3. stated'[s] = stated[s] /\ path' = path
      BY <1>1, <1>4, <2>5
    <3>4. QED
      BY <2>1, <3>1, <3>2, <3>3 DEF InFile, T, t, u
  <2>6. QED
    BY <2>4, <2>5
<1>10. QED
  BY <1>1, <1>5, <1>7, <1>8, <1>9 DEF LayersInv

LEMMA ApplyTomlHears == LInv /\ ApplyToml => LayersInv'
<1> SUFFICES ASSUME LInv, ApplyToml PROVE LayersInv'
  OBVIOUS
<1>1. /\ phase = "read" /\ path \in 1 .. 2 /\ LayersInv /\ Live /\ path' = path + 1
      /\ phase' = (IF path = 2 THEN "env" ELSE "open") /\ UNCHANGED <<stated, doc>>
      /\ cfg' = FromTables(cfg) /\ Paths[path] = Layers[path]
      /\ stated \in [Settings -> Seq(Entries)]
  BY LayersFacts DEF LInv, ApplyToml, NextPhase, Paths, LayersInv, Live
<1>2. Settled = path - 1 /\ Settled' = path /\ Heard = path /\ Heard' = path
  BY <1>1 DEF Settled, Heard
<1>3. PICK n \in 0 .. 2 : n = path - 1
  BY <1>1
<1>4. stated' \in [Settings -> Seq(Entries)] /\ DOMAIN cfg' = Settings
  BY <1>1 DEF FromTables
<1>5. \A s \in Settings, l \in 1 .. 4 : LastOf(s, l)' = LastOf(s, l) /\ Word(s, l)' = Word(s, l)
  BY <1>1 DEF LastOf, Word
<1>6. \A s \in Settings : \A i \in 1 .. Len(stated'[s]) :
               \E l \in 1 .. n + 1 : stated'[s][i].layer = Layers[l]
  BY <1>1, <1>2, <1>3 DEF LayersInv
<1>7. ASSUME NEW s \in Settings
      PROVE  cfg'[s] = IF LastOf(s, n + 1)' = {} THEN cfg[s] ELSE Word(s, n + 1)'
  <2> DEFINE t == doc.tables[Schema[s].table]
             good == s \in DOMAIN t /\ t[s].kind = Schema[s].kind
             said == Entry(t, s, Schema[s].kind)
  <2>1. LastOf(s, path) = IF good THEN {t[s].v} ELSE {}
    BY <1>1, FileWord
  <2>2. said = IF good THEN {t[s]} ELSE {}
    BY DEF Entry
  <2>3. cfg'[s] = IF said = {} THEN cfg[s]
                  ELSE [value |-> Clamped(s, The(said).v), origin |-> Layers[path]]
    BY <1>1 DEF FromTables
  <2> HIDE DEF t, said
  <2>4. CASE good
    <3>1. The(said) = t[s] /\ said # {}
      BY <2>2, <2>4, TheOnly
    <3>2. LastOf(s, path) # {} /\ The(LastOf(s, path)) = t[s].v
      BY <2>1, <2>4, TheOnly
    <3>3. cfg'[s] = Word(s, path)
      BY <2>3, <3>1, <3>2 DEF Word
    <3>4. n + 1 = path /\ path \in 1 .. 4
      BY <1>1, <1>3
    <3>5. QED
      BY <1>5, <3>2, <3>3, <3>4
  <2>5. CASE ~good
    <3>1. said = {} /\ LastOf(s, path) = {} /\ n + 1 = path /\ path \in 1 .. 4
      BY <1>1, <1>3, <2>1, <2>2, <2>5
    <3>2. QED
      BY <1>5, <2>3, <3>1
  <2>6. QED
    BY <2>4, <2>5
<1>8. /\ phase' # "read"
      /\ phase' = "open" => path' \in 1 .. 2
      /\ phase' = "env" => path' = 3
      /\ Settled = n /\ Settled' = n + 1 /\ Heard' = n + 1
  BY <1>1, <1>2, <1>3
<1>9. \A s \in Settings : \A l \in 1 .. n : LastOf(s, l)' = LastOf(s, l)
  BY <1>5
<1>10. LayersInv /\ Live /\ \A s \in Settings : cfg'[s] =
                                 IF LastOf(s, n + 1)' = {} THEN cfg[s] ELSE Word(s, n + 1)'
  BY <1>1, <1>7
<1>11. QED
  BY <1>4, <1>6, <1>8, <1>9, <1>10, LayerDone

Spoken(l, s, text) ==
    \A x \in Settings : \A m \in 1 .. 4 : LastOf(x, m)' =
        IF m = l /\ x = s /\ text # {} THEN {The(text)} ELSE LastOf(x, m)

(* A variable or a flag that holds a number is one thing more that is said.    *)
LEMMA StateFacts ==
    ASSUME stated \in [Settings -> Seq(Entries)], NEW s \in FromEnv, NEW l \in 1 .. 4,
           NEW text \in EnvTexts \union FlagTexts, stated' = State(stated, Layers[l], s, text)
    PROVE  /\ stated' \in [Settings -> Seq(Entries)]
           /\ Spoken(l, s, text)
           /\ \A x \in Settings : \A i \in 1 .. Len(stated'[x]) :
                  \/ stated'[x][i].layer = Layers[l]
                  \/ i \in 1 .. Len(stated[x]) /\ stated'[x][i] = stated[x][i]
<1>1. s \in Settings /\ Schema[s].kind = "int"
  BY SchemaFacts
<1>2. CASE text = {}
  <2>1. stated' = stated
    BY <1>2 DEF State
  <2>2. \A x \in Settings : \A m \in 1 .. 4 : LastOf(x, m)' = LastOf(x, m)
    BY <2>1 DEF LastOf
  <2>3. QED
    BY <1>2, <2>1, <2>2 DEF Spoken
<1>3. CASE text # {}
  <2> DEFINE v == The(text)
             e == [layer |-> Layers[l], val |-> [kind |-> "int", v |-> v]]
  <2>1. v \in Nat
    <3>1. PICK n \in 0 .. Unbounded : text = {n}
      BY <1>3, SettingsAssumption
    <3>2. n \in Nat
      BY SettingsAssumption
    <3>3. The({n}) = n
      BY TheOnly
    <3>4. QED
      BY <3>1, <3>2, <3>3
  <2>2. e \in Entries /\ e.layer = Layers[l] /\ e.val.kind = "int" /\ e.val.v = v
    <3> HIDE DEF v
    <3>1. QED
      BY <2>1, LayersFacts DEF Entries, Said
  <2>3. stated' = [stated EXCEPT ![s] = Append(@, e)]
    BY <1>3 DEF State
  <2> HIDE DEF v, e
  <2>4. stated[s] \in Seq(Entries)
    BY <1>1
  <2>5. /\ Append(stated[s], e) \in Seq(Entries)
        /\ Len(Append(stated[s], e)) = Len(stated[s]) + 1 /\ Len(stated[s]) \in Nat
        /\ \A j \in 1 .. Len(stated[s]) : Append(stated[s], e)[j] = stated[s][j]
        /\ Append(stated[s], e)[Len(stated[s]) + 1] = e
    BY <2>2, <2>4, AppendFacts
  <2>6. /\ stated' \in [Settings -> Seq(Entries)] /\ stated'[s] = Append(stated[s], e)
        /\ \A x \in Settings : x # s => stated'[x] = stated[x]
    BY <1>1, <2>3, <2>5
  <2>7. ASSUME NEW x \in Settings, NEW m \in 1 .. 4
        PROVE  LastOf(x, m)' = IF m = l /\ x = s THEN {v} ELSE LastOf(x, m)
    <3>1. CASE x # s
      BY <2>6, <3>1 DEF LastOf
    <3>2. CASE x = s
      <4>1. LastWord(Append(stated[s], e), Layers[m], "int") =
               IF e.layer = Layers[m] THEN IF e.val.kind = "int" THEN {e.val.v} ELSE {}
               ELSE LastWord(stated[s], Layers[m], "int")
        <5> DEFINE q == stated[s]
                   layer == Layers[m]
        <5>1. q \in Seq(Entries) /\ e \in Entries
          BY <2>2, <2>4
        <5> HIDE DEF q, layer
        <5>2. LastWord(Append(q, e), layer, "int") =
                  IF e.layer = layer THEN IF e.val.kind = "int" THEN {e.val.v} ELSE {}
                  ELSE LastWord(q, layer, "int")
          BY <5>1, LastWordAfter
        <5>3. QED
          BY <5>2 DEF q, layer
      <4>2. e.layer = Layers[m] <=> m = l
        BY <2>2, LayersFacts
      <4>3. QED
        BY <1>1, <2>2, <2>6, <3>2, <4>1, <4>2 DEF LastOf
    <3>3. QED
      BY <3>1, <3>2
  <2>8. ASSUME NEW x \in Settings, NEW i \in 1 .. Len(stated'[x])
        PROVE  \/ stated'[x][i].layer = Layers[l]
               \/ i \in 1 .. Len(stated[x]) /\ stated'[x][i] = stated[x][i]
    <3>1. CASE x # s
      BY <2>6, <3>1
    <3>2. CASE x = s
      <4>1. stated'[x] = Append(stated[s], e) /\ i \in 1 .. Len(stated[s]) + 1
        BY <2>5, <2>6, <3>2
      <4>2. i = Len(stated[s]) + 1 \/ i \in 1 .. Len(stated[s])
        BY <2>5, <4>1
      <4>3. QED
        BY <2>2, <2>5, <3>2, <4>1, <4>2
    <3>3. QED
      BY <3>1, <3>2
  <2>9. QED
    BY <1>3, <2>6, <2>7, <2>8 DEF v, Spoken
<1>4. QED
  BY <1>2, <1>3

LEMMA ApplyEnvHears == LInv /\ ApplyEnv => LayersInv'
<1> SUFFICES ASSUME LInv, ApplyEnv PROVE LayersInv'
  OBVIOUS
<1>1. /\ phase = "env" /\ phase' = "config" /\ path = 3 /\ path' = 3 /\ LayersInv /\ Live
      /\ stated \in [Settings -> Seq(Entries)] /\ DOMAIN cfg = Settings
  BY DEF LInv, ApplyEnv, LayersInv, Live
<1>2. Settled = 2 /\ Settled' = 3 /\ Heard = 2 /\ Heard' = 3
  BY <1>1 DEF Settled, Heard
<1>3. PICK s \in FromEnv, text \in EnvTexts :
          cfg' = ValueFromEnv(cfg, s, text) /\ stated' = State(stated, "env", s, text)
  BY DEF ApplyEnv
<1> DEFINE v == The(text)
           said(x) == x = s /\ text # {}
<1>4. s \in Settings /\ Layers[3] = "env" /\ text \in EnvTexts \union FlagTexts /\ 3 \in 1 .. 4
  BY LayersFacts, SchemaFacts
<1>5. /\ stated' \in [Settings -> Seq(Entries)]
      /\ \A x \in Settings : \A m \in 1 .. 4 : LastOf(x, m)' =
                  IF m = 3 /\ said(x) THEN {v} ELSE LastOf(x, m)
      /\ \A x \in Settings : \A i \in 1 .. Len(stated'[x]) :
                  \/ stated'[x][i].layer = Layers[3]
                  \/ i \in 1 .. Len(stated[x]) /\ stated'[x][i] = stated[x][i]
  <2>1. PICK l \in 1 .. 4 : l = 3
    OBVIOUS
  <2>2. stated' = State(stated, Layers[l], s, text) /\ stated \in [Settings -> Seq(Entries)]
    BY <1>1, <1>3, <1>4, <2>1
  <2>3. stated' \in [Settings -> Seq(Entries)]
    BY <1>4, <2>2, StateFacts
  <2>4. Spoken(l, s, text)
    BY <1>4, <2>2, StateFacts
  <2>5. \A x \in Settings : \A i \in 1 .. Len(stated'[x]) :
                  \/ stated'[x][i].layer = Layers[l]
                  \/ i \in 1 .. Len(stated[x]) /\ stated'[x][i] = stated[x][i]
    BY <1>4, <2>2, StateFacts
  <2>6. QED
    BY <2>1, <2>3, <2>4, <2>5 DEF Spoken
<1>6. \A x \in Settings : LastOf(x, 3) = {}
  BY <1>1, <1>2, Unheard
<1> HIDE DEF v
<1>7. \A x \in Settings : cfg'[x] =
         IF said(x) THEN [value |-> Clamped(x, v), origin |-> "env"] ELSE cfg[x]
  BY <1>1, <1>3 DEF ValueFromEnv, Set, v
<1>8. DOMAIN cfg' = Settings
  BY <1>1, <1>3 DEF ValueFromEnv, Set
<1>9. ASSUME NEW x \in Settings
      PROVE  cfg'[x] = IF LastOf(x, 3)' = {} THEN cfg[x] ELSE Word(x, 3)'
  <2>1. CASE said(x)
    <3>1. LastOf(x, 3)' = {v}
      BY <1>5, <2>1
    <3>2. The(LastOf(x, 3)') = v
      BY <3>1, TheOnly
    <3>3. Word(x, 3)' = [value |-> Clamped(x, v), origin |-> "env"]
      BY <1>4, <3>2 DEF Word
    <3>4. QED
      BY <1>7, <2>1, <3>1, <3>3
  <2>2. CASE ~said(x)
    <3>1. LastOf(x, 3)' = {}
      BY <1>4, <1>5, <1>6, <2>2
    <3>2. cfg'[x] = cfg[x]
      BY <1>7, <2>2
    <3>3. QED
      BY <3>1, <3>2
  <2>3. QED
    BY <2>1, <2>2
<1>10. ASSUME NEW x \in Settings, NEW i \in 1 .. Len(stated'[x])
       PROVE  \E l \in 1 .. 3 : stated'[x][i].layer = Layers[l]
  <2>1. \A j \in 1 .. Len(stated[x]) : \E l \in 1 .. 2 : stated[x][j].layer = Layers[l]
    BY <1>1, <1>2 DEF LayersInv
  <2>2. CASE stated'[x][i].layer = Layers[3]
    BY <2>2
  <2>3. CASE i \in 1 .. Len(stated[x]) /\ stated'[x][i] = stated[x][i]
    <3>1. PICK l \in 1 .. 2 : stated[x][i].layer = Layers[l]
      BY <2>1, <2>3
    <3>2. QED
      BY <2>3, <3>1
  <2>4. QED
    BY <1>5, <2>2, <2>3
<1>11. PICK n \in 0 .. 2 : n = 2
  OBVIOUS
<1>12. \A x \in Settings : \A l \in 1 .. n : LastOf(x, l)' = LastOf(x, l)
  BY <1>5, <1>11
<1>13. /\ Settled = n /\ Settled' = n + 1 /\ Heard' = n + 1 /\ n + 1 = 3
       /\ phase' # "read" /\ phase' # "open" /\ phase' # "env" /\ LayersInv /\ Live
  BY <1>1, <1>2, <1>11
<1>14. \A x \in Settings : cfg'[x] = IF LastOf(x, n + 1)' = {} THEN cfg[x] ELSE Word(x, n + 1)'
  BY <1>9, <1>13 DEF Word, LastOf
<1>15. \A x \in Settings : \A i \in 1 .. Len(stated'[x]) :
           \E l \in 1 .. n + 1 : stated'[x][i].layer = Layers[l]
  BY <1>10, <1>13
<1>16. stated' \in [Settings -> Seq(Entries)]
  BY <1>5
<1>17. QED
  BY <1>8, <1>12, <1>13, <1>14, <1>15, <1>16, LayerDone

(* Forcing a number into a range, then into a narrower one.                    *)
LEMMA ClampedTwice ==
    ASSUME NEW s \in FromEnv, NEW v \in Int
    PROVE  Clamp(Clamped(s, v), Schema[s].lo, DaemonMax[s]) = Clamp(v, Schema[s].lo, DaemonMax[s])
<1>1. /\ Schema[s].lo \in Nat /\ Schema[s].hi \in Nat /\ DaemonMax[s] \in Nat
      /\ Schema[s].lo <= DaemonMax[s] /\ DaemonMax[s] <= Schema[s].hi
  BY SchemaFacts
<1>2. QED
  BY <1>1 DEF Clamped, Clamp

(* The winner of a setting that is a number is a number.                       *)
LEMMA WinnerCounts ==
    ASSUME stated \in [Settings -> Seq(Entries)], NEW s \in FromEnv
    PROVE  Winner(s).value \in Int
<1>1. s \in Settings /\ Schema[s].kind = "int" /\ Schema[s].default \in Int
  BY SchemaFacts
<1>2. ASSUME NEW l \in 1 .. 4
      PROVE  LastOf(s, l) \in SUBSET Int
  <2>1. stated[s] \in Seq(Entries)
    BY <1>1
  <2>2. ASSUME NEW i \in DOMAIN stated[s], stated[s][i].val.kind = "int"
        PROVE  stated[s][i].val.v \in Int
    <3>1. stated[s][i] \in Entries
      BY <2>1
    <3>2. stated[s][i].val \in Said
      BY <3>1 DEF Entries
    <3>3. QED
      BY <2>2, <3>2, SaidFacts
  <2>3. QED
    BY <1>1, <2>2 DEF LastOf, LastWord
<1> DEFINE speaks == {l \in 1 .. 4 : LastOf(s, l) # {}}
<1>3. CASE speaks = {}
  BY <1>1, <1>3 DEF Winner
<1>4. CASE speaks # {}
  <2>1. speaks \in SUBSET (1 .. 4) /\ 4 \in 0 .. 4
    OBVIOUS
  <2>2. Max(speaks) \in speaks
    <3> HIDE DEF speaks
    <3>1. QED
      BY <1>4, <2>1, MaxFacts
  <2>3. LastOf(s, Max(speaks)) \in SUBSET Int /\ LastOf(s, Max(speaks)) # {}
    BY <1>2, <2>2
  <2>4. Winner(s).value = The(LastOf(s, Max(speaks)))
    BY <1>4 DEF Winner
  <2>5. QED
    BY <2>3, <2>4 DEF The
<1>5. QED
  BY <1>3, <1>4

(* A daemon that starts runs with what the most specific layer says, and what  *)
(* a flag says stands above what the layers before it settled on.              *)
LEMMA StartDaemonHears == LInv /\ StartDaemon => LayersInv' /\ MostSpecificWins'
<1> SUFFICES ASSUME LInv, StartDaemon PROVE LayersInv' /\ MostSpecificWins'
  OBVIOUS
<1>1. /\ phase = "config" /\ phase' = "running" /\ LayersInv /\ Live
      /\ stated \in [Settings -> Seq(Entries)] /\ DOMAIN cfg = Settings
  BY DEF LInv, StartDaemon, LayersInv, Live
<1>2. Settled = 3 /\ Heard = 3
  BY <1>1 DEF Settled, Heard
<1>3. PICK s \in FromEnv, args \in UNION {[1 .. n -> FlagTexts] : n \in 0 .. MaxFlags} :
          /\ cfg' = IF args = << >> THEN cfg ELSE [cfg EXCEPT ![s].origin = "flag"]
          /\ active' = [x \in FromEnv |->
                 Clamp(IF x = s THEN FlagOr(args, cfg[x].value) ELSE cfg[x].value,
                       Schema[x].lo, DaemonMax[x])]
          /\ stated' = IF args = << >> THEN stated ELSE State(stated, "flag", s, Head(args))
  BY DEF StartDaemon
<1> DEFINE text == IF args = << >> THEN {} ELSE Head(args)
<1>4. s \in Settings /\ FromEnv \subseteq Settings /\ Layers[4] = "flag"
  BY LayersFacts, SchemaFacts
<1>5. args = << >> \/ Head(args) \in FlagTexts
  <2>1. PICK n \in 0 .. MaxFlags : args \in [1 .. n -> FlagTexts]
    BY <1>3
  <2>2. n \in Nat
    BY SettingsAssumption
  <2>3. args \in Seq(FlagTexts)
    BY <2>1, <2>2, SeqDef
  <2>4. QED
    BY <2>3
<1>6. /\ stated' \in [Settings -> Seq(Entries)]
      /\ Spoken(4, s, text)
  <2>1. CASE args = << >>
    <3>1. stated' = stated /\ text = {}
      BY <1>3, <2>1
    <3>2. QED
      BY <1>1, <3>1 DEF LastOf, Spoken
  <2>2. CASE args # << >>
    <3>1. PICK l \in 1 .. 4 : l = 4
      OBVIOUS
    <3>2. /\ stated' = State(stated, Layers[l], s, text) /\ text \in EnvTexts \union FlagTexts
          /\ stated \in [Settings -> Seq(Entries)]
      BY <1>1, <1>3, <1>4, <1>5, <2>2, <3>1
    <3> HIDE DEF text
    <3>3. stated' \in [Settings -> Seq(Entries)]
      BY <3>2, StateFacts
    <3>4. Spoken(l, s, text)
      BY <3>2, StateFacts
    <3>5. QED
      BY <3>1, <3>3, <3>4
  <2>3. QED
    BY <2>1, <2>2
<1>7. LayersInv'
  <2>1. DOMAIN cfg' = Settings
    BY <1>1, <1>3
  <2>2. QED
    BY <1>1, <1>6, <2>1 DEF LayersInv, Live
<1>8. FlagOr(args, cfg[s].value) = IF text = {} THEN cfg[s].value ELSE The(text)
  BY DEF FlagOr
<1> HIDE DEF text
<1>9. ASSUME NEW x \in FromEnv
      PROVE  active'[x] = Clamp(Winner(x)'.value, Schema[x].lo, DaemonMax[x])
  <2>1. x \in Settings
    BY <1>4
  <2>2. CASE x = s /\ text # {}
    <3>1. LastOf(x, 4)' = {The(text)}
      BY <1>6, <2>1, <2>2 DEF Spoken
    <3>2. Winner(x)'.value = The(text)
      <4> DEFINE speaks == {l \in 1 .. 4 : LastOf(x, l)' # {}}
      <4>1. speaks \in SUBSET (1 .. 4) /\ 4 \in speaks /\ 4 \in 0 .. 4
        BY <3>1
      <4>2. Max(speaks) = 4
        <5> HIDE DEF speaks
        <5>1. Max(speaks) \in speaks /\ 4 <= Max(speaks)
          BY <4>1, MaxFacts
        <5>2. Max(speaks) \in 1 .. 4
          BY <4>1, <5>1
        <5>3. \A m \in 1 .. 4 : 4 <= m => m = 4
          OBVIOUS
        <5>4. QED
          BY <5>1, <5>2, <5>3
      <4>3. The(LastOf(x, 4)') = The(text)
        BY <3>1, TheOnly
      <4>4. QED
        BY <4>1, <4>2, <4>3 DEF Winner
    <3>3. QED
      BY <1>3, <1>8, <2>2, <3>2
  <2>3. CASE ~(x = s /\ text # {})
    <3>1. \A l \in 1 .. 4 : LastOf(x, l)' = LastOf(x, l)
      BY <1>6, <2>1, <2>3 DEF Spoken
    <3>2. Winner(x)' = Winner(x)
      BY <3>1, WinnerTheSame
    <3>3. active'[x] = Clamp(cfg[x].value, Schema[x].lo, DaemonMax[x])
      BY <1>3, <1>8, <2>3
    <3>4. cfg[x] = Says(x, 3)
      BY <1>1, <1>2, <2>1 DEF LayersInv
    <3>5. Says(x, 4) = Says(x, 3)
      BY <1>1, <1>2, <2>1, Unheard, SaysNext DEF OneLayerMore
    <3>6. cfg[x].value = Clamped(x, Winner(x).value)
      BY <2>1, <3>4, <3>5, SaysWinner
    <3>7. QED
      BY <1>1, <3>2, <3>3, <3>6, WinnerCounts, ClampedTwice
  <2>4. QED
    BY <2>2, <2>3
<1>10. QED
  BY <1>7, <1>9 DEF MostSpecificWins

LEMMA WordsKept == LInv /\ [SettingsNext]_settingsVars => LayersInv' /\ MostSpecificWins'
<1> SUFFICES ASSUME LInv, [SettingsNext]_settingsVars PROVE LayersInv' /\ MostSpecificWins'
  OBVIOUS
<1>1. CASE StartDaemon
  BY <1>1, StartDaemonHears
<1>2. ASSUME phase' # "running" PROVE MostSpecificWins'
  BY <1>2 DEF MostSpecificWins
<1>3. CASE OpenFile \/ SkipFile \/ ApplyToml \/ ApplyEnv
  BY <1>2, <1>3, OpenFileHears, SkipFileHears, ApplyTomlHears, ApplyEnvHears
     DEF OpenFile, SkipFile, ApplyToml, ApplyEnv, NextPhase
<1>4. ASSUME NEW l \in {x \in Lines : x.kind = "key"}, KeyInTable(l.key, l.val)
      PROVE  LayersInv' /\ MostSpecificWins'
  <2>1. phase' # "running"
    BY <1>4 DEF KeyInTable, NextLine
  <2>2. QED
    BY <1>2, <1>4, <2>1, KeyInTableHears DEF KeyLines
<1>5. ASSUME UNCHANGED <<stated, cfg, path, phase, doc>>, UNCHANGED active
      PROVE  LayersInv' /\ MostSpecificWins'
  <2>1. LayersInv'
    BY <1>5, StillHeard DEF LInv
  <2>2. QED
    BY <1>5, <2>1 DEF LInv, MostSpecificWins, Winner, LastOf
<1>6. ASSUME UNCHANGED <<stated, cfg, path>>, phase' = "refused"
      PROVE  LayersInv' /\ MostSpecificWins'
  BY <1>2, <1>6 DEF LInv, LayersInv, Live
<1>7. ASSUME phase = "read", UNCHANGED <<stated, cfg, path, phase>>, doc'.tables = doc.tables
      PROVE  LayersInv' /\ MostSpecificWins'
  <2>1. LayersInv'
    BY <1>7, StillHeard DEF LInv
  <2>2. QED
    BY <1>2, <1>7, <2>1
<1>8. CASE Explain
  <2>1. /\ phase = "config" /\ phase' = "explained" /\ UNCHANGED <<stated, cfg>>
        /\ Settled = 3 /\ Settled' = 3 /\ Heard = 3 /\ Heard' = 3 /\ Live
    BY <1>8 DEF Explain, Settled, Heard, Live
  <2>2. QED
    BY <1>2, <2>1, SameWords DEF LInv
<1>9. CASE OpenRule
  BY <1>7, <1>9 DEF OpenRule, NextLine, LInv, RInv, SettingsTypes
<1>10. ASSUME NEW l \in {x \in Lines : x.kind = "key"}, KeyInRule(l.key, l.val)
       PROVE  LayersInv' /\ MostSpecificWins'
  BY <1>7, <1>10 DEF KeyInRule, NextLine, LInv, RInv, SettingsTypes
<1>11. ASSUME NEW t \in Tables, OpenTable(t)
       PROVE  LayersInv' /\ MostSpecificWins'
  BY <1>5, <1>11 DEF OpenTable
<1>12. CASE RefuseRules \/ NoPsi
  BY <1>6, <1>12 DEF RefuseRules, NoPsi, Refuse
<1>13. ASSUME NEW l \in Lines, BadLine(l)
       PROVE  LayersInv' /\ MostSpecificWins'
  BY <1>6, <1>13 DEF BadLine, Refuse
<1>14. CASE SettingsDone \/ UNCHANGED settingsVars
  BY <1>5, <1>14 DEF SettingsDone, settingsVars
<1>15. QED
  BY <1>1, <1>3, <1>4, <1>8, <1>9, <1>10, <1>11, <1>12, <1>13, <1>14 DEF SettingsNext

LEMMA WordsHold == SettingsSpec => []LInv
<1>1. SettingsInit => LInv
  BY WordsStart
<1>2. LInv /\ [SettingsNext]_settingsVars => LInv'
  BY Inductive, WordsKept DEF LInv
<1>3. QED
  BY <1>1, <1>2, PTL DEF SettingsSpec

(* "Later wins" (config.rs:13): a daemon runs with what the most specific      *)
(* layer that says anything of a setting says, forced into its range, whatever *)
(* other layers hold, however often a key is repeated, and whatever of the     *)
(* wrong kind hides behind it; with the default when no layer says anything.   *)
THEOREM TheMostSpecificWins == SettingsSpec => []MostSpecificWins
<1>1. LInv => MostSpecificWins
  BY DEF LInv
<1>2. QED
  BY <1>1, WordsHold, PTL

(* "Every resolved value remembers where it came from" (config.rs:16): the     *)
(* source `stallwatch config` prints of a setting is the layer whose value it  *)
(* prints, for every setting and any files.                                    *)
THEOREM TheSourceIsNamed == SettingsSpec => []ExplainTruthful
<1>1. LInv => ExplainTruthful
  <2> SUFFICES ASSUME LInv, phase = "explained", NEW s \in Settings
               PROVE  cfg[s] = [value |-> Clamped(s, Winner(s).value), origin |-> Winner(s).origin]
    BY DEF ExplainTruthful
  <2>1. LayersInv /\ Live /\ Settled = 3 /\ Heard = 3
    BY DEF LInv, Live, Settled, Heard
  <2>2. cfg[s] = Says(s, 3) /\ LastOf(s, 4) = {}
    <3>1. cfg[s] = Says(s, 3)
      BY <2>1 DEF LayersInv
    <3>2. 4 \in 1 .. 4 /\ 4 \notin 1 .. Heard /\ Heard \in 0 .. 3
      BY <2>1
    <3>3. LastOf(s, 4) = {}
      BY <2>1, <3>2, Unheard
    <3>4. QED
      BY <3>1, <3>3
  <2>3. Says(s, 4) = Says(s, 3)
    BY <2>2, SaysNext DEF OneLayerMore
  <2>4. QED
    BY <2>2, <2>3, SaysWinner
<1>2. QED
  BY <1>1, WordsHold, PTL

-----------------------------------------------------------------------------
(* What a daemon answers.  A request is written in two pieces, so the pieces   *)
(* taken from the wire tell which request the thread is at and how much of it  *)
(* it has; all before it have been answered.                                   *)
Asked == UNION {UNION {Sends[c][p] : p \in Protocols} : c \in Clients}
Frames == Asked \union {None, "", "other", "not JSON"}
Told == UNION {{Request(f), Call(f), Page(f)} : f \in Frames}
Stages == {"none", "queued", "reading", "parse", "lock", "locked", "writing", "done"}

WireTypes ==
    /\ proto \in [Clients -> Protocols]
    /\ sent \in [Clients -> Seq(Asked)]
    /\ half \in [Clients -> BOOLEAN]
    /\ \A c \in Clients : half[c] => sent[c] # << >>
    /\ wire \in [Clients -> Seq([request : Asked, whole : BOOLEAN])]
    /\ end \in [Clients -> {"open", "shut", "gone"}]
    /\ thread \in [Clients -> Stages]
    /\ frame \in [Clients -> Frames]
    /\ answer \in [Clients -> Told \union {None}]
    /\ got \in [Clients -> Seq(Told)]

Written(c) == 2 * Len(sent[c]) - (IF half[c] THEN 1 ELSE 0)
Taken(c) == Written(c) - Len(wire[c])

(* What is on the wire are the last pieces written.                            *)
Wired(c) ==
    \A i \in DOMAIN wire[c] : \E k \in DOMAIN sent[c] :
        /\ wire[c][i].request = sent[c][k]
        /\ Taken(c) + i = IF wire[c][i].whole THEN 2 * k ELSE 2 * k - 1

Final(c, request) == proto[c] # "varlink" \/ request = "not UTF-8"

(* The first m replies are the right ones.                                     *)
Right(c, m) ==
    /\ m <= Len(sent[c])
    /\ \A i \in 1 .. m : got[c][i] = Reply(c, sent[c][i]) /\ Reply(c, sent[c][i]) # None
    /\ \A i \in 1 .. (m - 1) : ~Final(c, sent[c][i])

(* All are, and the conversation goes on.                                      *)
GoesOn(c) == Right(c, Len(got[c])) /\ \A i \in 1 .. Len(got[c]) : ~Final(c, sent[c][i])

(* The n-th request, and the last, is half there, or the only one is nothing:  *)
(* the client has ended.                                                       *)
Severed(c, n) ==
    /\ end[c] # "open"
    /\ \/ half[c] /\ Len(sent[c]) = n
       \/ sent[c] = << >> /\ proto[c] # "varlink" /\ n = 1

Waiting(c) ==
    /\ thread[c] \in {"none", "queued", "reading"}
    /\ frame[c] = None /\ GoesOn(c) /\ Taken(c) = 2 * Len(got[c])
    /\ thread[c] = "none" => sent[c] = << >>

Halfway(c) ==
    /\ thread[c] = "reading" /\ GoesOn(c) /\ Taken(c) = 2 * Len(got[c]) + 1
    /\ frame[c] = sent[c][Len(got[c]) + 1]

(* A request cut short has been answered, and no other can come.               *)
CutShort(c) ==
    /\ thread[c] = "reading" /\ frame[c] = None /\ proto[c] = "varlink" /\ wire[c] = << >>
    /\ Len(got[c]) > 0 /\ Severed(c, Len(got[c])) /\ Right(c, Len(got[c]) - 1)

Answering(c) ==
    /\ thread[c] \in {"parse", "lock", "locked", "writing"} /\ GoesOn(c)
    /\ \/ /\ Len(got[c]) + 1 <= Len(sent[c]) /\ frame[c] = sent[c][Len(got[c]) + 1]
          /\ Taken(c) = 2 * Len(got[c]) + 2 \/ proto[c] # "varlink"
       \/ Severed(c, Len(got[c]) + 1) /\ wire[c] = << >>
    /\ thread[c] # "parse" => answer[c] = Reply(c, frame[c]) /\ answer[c] # None

Over(c) ==
    /\ thread[c] = "done"
    /\ \/ Right(c, Len(got[c]))
       \/ Len(got[c]) > 0 /\ Severed(c, Len(got[c])) /\ Right(c, Len(got[c]) - 1)

AtStage(c) == Waiting(c) \/ Halfway(c) \/ CutShort(c) \/ Answering(c) \/ Over(c)

ClientInv(c) == (thread[c] # "done" => Wired(c)) /\ AtStage(c)

WireInv == WireTypes /\ \A c \in Clients : ClientInv(c)

LEMMA AskedFacts ==
    /\ None \notin Asked
    /\ \A c \in Clients, p \in Protocols : Sends[c][p] \subseteq Asked
  BY WireAssumption DEF Asked

LEMMA ReplyFacts ==
    ASSUME WireTypes, NEW c \in Clients, NEW f \in Frames
    PROVE  Reply(c, f) \in Told
<1>1. proto[c] \in Protocols
  BY DEF WireTypes
<1>2. Request(f) \in Told /\ Call(f) \in Told /\ Page(f) \in Told
  BY DEF Told
<1>3. QED
  BY <1>1, <1>2, Zenon DEF Reply, Protocols

(* One client's state as it was.                                               *)
Still(c) ==
    /\ proto'[c] = proto[c] /\ sent'[c] = sent[c] /\ half'[c] = half[c] /\ wire'[c] = wire[c]
    /\ end'[c] = end[c] /\ thread'[c] = thread[c] /\ frame'[c] = frame[c]
    /\ answer'[c] = answer[c] /\ got'[c] = got[c]

LEMMA StillHolds ==
    ASSUME NEW c, Still(c), ClientInv(c)
    PROVE  ClientInv(c)'
<1> USE DEF Still
<1>1. \A r : Reply(c, r)' = Reply(c, r) /\ Final(c, r)' = Final(c, r)
  BY DEF Reply, Final
<1>2. Taken(c)' = Taken(c)
  BY DEF Taken, Written
<1>3. \A m : Right(c, m)' <=> Right(c, m)
  BY <1>1 DEF Right
<1>4. GoesOn(c)' <=> GoesOn(c)
  BY <1>1, <1>3 DEF GoesOn
<1>5. \A n : Severed(c, n)' <=> Severed(c, n)
  BY DEF Severed
<1>6. Wired(c)' <=> Wired(c)
  BY <1>2 DEF Wired
<1>7. AtStage(c)' <=> AtStage(c)
  BY <1>1, <1>2, <1>3, <1>4, <1>5 DEF AtStage, Waiting, Halfway, CutShort, Answering, Over
<1>8. QED
  BY <1>6, <1>7 DEF ClientInv

(* A step of one client or its thread is judged by itself.                     *)
LEMMA OneAtATime ==
    ASSUME WireInv, NEW c \in Clients, WireTypes', ClientInv(c)',
           \A d \in Clients : d # c => Still(d)
    PROVE  WireInv'
<1>1. ASSUME NEW d \in Clients, d # c PROVE ClientInv(d)'
  BY <1>1, StillHolds DEF WireInv
<1>2. QED
  BY <1>1 DEF WireInv

LEMMA PiecesCounted ==
    ASSUME NEW s \in Nat, NEW w \in Nat, NEW h \in BOOLEAN, h => s > 0,
           NEW v, v = 2 * s - (IF h THEN 1 ELSE 0), NEW t, t = v - w
    PROVE  /\ v = IF h THEN 2 * s - 1 ELSE 2 * s
           /\ v \in Nat /\ t \in Int /\ t <= v /\ t <= 2 * s
<1>1. CASE h
  BY <1>1
<1>2. CASE ~h
  BY <1>2
<1>3. QED
  BY <1>1, <1>2

LEMMA EntryFacts ==
    ASSUME WireTypes, NEW c \in Clients
    PROVE  /\ proto[c] \in Protocols /\ half[c] \in BOOLEAN
           /\ sent[c] \in Seq(Asked) /\ Len(sent[c]) \in Nat
           /\ wire[c] \in Seq([request : Asked, whole : BOOLEAN]) /\ Len(wire[c]) \in Nat
           /\ got[c] \in Seq(Told) /\ Len(got[c]) \in Nat
           /\ frame[c] \in Frames /\ end[c] \in {"open", "shut", "gone"}
           /\ half[c] => Len(sent[c]) > 0
           /\ Written(c) = IF half[c] THEN 2 * Len(sent[c]) - 1 ELSE 2 * Len(sent[c])
           /\ Written(c) \in Nat /\ Taken(c) = Written(c) - Len(wire[c])
           /\ Taken(c) \in Int /\ Taken(c) <= 2 * Len(sent[c])
           /\ wire[c] = << >> <=> Len(wire[c]) = 0
           /\ sent[c] = << >> <=> Len(sent[c]) = 0
<1>1. /\ proto[c] \in Protocols /\ half[c] \in BOOLEAN
      /\ sent[c] \in Seq(Asked) /\ wire[c] \in Seq([request : Asked, whole : BOOLEAN])
      /\ got[c] \in Seq(Told) /\ frame[c] \in Frames /\ end[c] \in {"open", "shut", "gone"}
      /\ half[c] => sent[c] # << >>
  BY DEF WireTypes
<1>2. Len(sent[c]) \in Nat /\ Len(wire[c]) \in Nat /\ Len(got[c]) \in Nat
  BY <1>1
<1>3. /\ wire[c] = << >> <=> Len(wire[c]) = 0
      /\ sent[c] = << >> <=> Len(sent[c]) = 0
  BY <1>1, EmptySeq
<1>4. half[c] => Len(sent[c]) > 0
  BY <1>1, <1>2, <1>3
<1>5. Written(c) = 2 * Len(sent[c]) - (IF half[c] THEN 1 ELSE 0) /\ Taken(c) = Written(c) - Len(wire[c])
  BY DEF Written, Taken
<1>6. /\ Written(c) = IF half[c] THEN 2 * Len(sent[c]) - 1 ELSE 2 * Len(sent[c])
      /\ Written(c) \in Nat /\ Taken(c) \in Int /\ Taken(c) <= 2 * Len(sent[c])
  <2> DEFINE l == Len(sent[c])
             w == Len(wire[c])
             h == half[c]
             v == Written(c)
             t == Taken(c)
  <2>1. l \in Nat /\ w \in Nat /\ h \in BOOLEAN /\ (h => l > 0)
    BY <1>1, <1>2, <1>4
  <2>2. v = 2 * l - (IF h THEN 1 ELSE 0) /\ t = v - w
    BY <1>5
  <2> HIDE DEF l, w, h, v, t
  <2>3. /\ v = IF h THEN 2 * l - 1 ELSE 2 * l
        /\ v \in Nat /\ t \in Int /\ t <= v /\ t <= 2 * l
    BY <2>1, <2>2, PiecesCounted
  <2>4. QED
    BY <2>3 DEF l, w, h, v, t
<1>7. QED
  BY <1>1, <1>2, <1>3, <1>4, <1>5, <1>6

LEMMA WireBegins == Init => WireInv
<1> SUFFICES ASSUME Init PROVE WireInv
  OBVIOUS
<1>1. WireTypes
  BY DEF Init, WireTypes, Frames, Stages
<1>2. ASSUME NEW c \in Clients PROVE ClientInv(c)
  <2>1. /\ sent[c] = << >> /\ wire[c] = << >> /\ got[c] = << >> /\ frame[c] = None
        /\ thread[c] = "none" /\ half[c] = FALSE
    BY DEF Init
  <2>2. Taken(c) = 0
    BY <2>1 DEF Taken, Written
  <2>3. GoesOn(c)
    BY <2>1 DEF GoesOn, Right
  <2>4. Waiting(c) /\ Wired(c)
    BY <2>1, <2>2, <2>3 DEF Waiting, Wired
  <2>5. QED
    BY <2>4 DEF ClientInv, AtStage
<1>3. QED
  BY <1>1, <1>2 DEF WireInv

(* What is said of the replies is kept while they and the requests answered    *)
(* stay.                                                                       *)
LEMMA RightStays ==
    ASSUME NEW CONSTANT c, NEW CONSTANT m \in Int, Right(c, m), proto'[c] = proto[c], m <= Len(sent'[c]),
           \A i \in 1 .. m : sent'[c][i] = sent[c][i] /\ got'[c][i] = got[c][i]
    PROVE  Right(c, m)'
<1>1. ASSUME NEW i \in 1 .. m
      PROVE  /\ Reply(c, sent[c][i])' = Reply(c, sent[c][i])
             /\ Final(c, sent[c][i])' = Final(c, sent[c][i])
  BY DEF Reply, Final
<1>2. \A i \in 1 .. m : got'[c][i] = Reply(c, sent[c][i])' /\ Reply(c, sent[c][i])' # None
  BY <1>1 DEF Right
<1>3. \A i \in 1 .. (m - 1) : ~Final(c, sent[c][i])'
  <2>1. ASSUME NEW i \in 1 .. (m - 1) PROVE i \in 1 .. m
    OBVIOUS
  <2>2. QED
    BY <1>1, <2>1 DEF Right, Final
<1>4. QED
  BY <1>2, <1>3 DEF Right

LEMMA GoesOnStays ==
    ASSUME NEW CONSTANT c, NEW CONSTANT m \in Nat, m = Len(got[c]), GoesOn(c),
           proto'[c] = proto[c], got'[c] = got[c], m <= Len(sent'[c]),
           \A i \in 1 .. m : sent'[c][i] = sent[c][i]
    PROVE  GoesOn(c)'
<1>1. Right(c, m) /\ \A i \in 1 .. m : ~Final(c, sent[c][i])
  BY DEF GoesOn
<1>2. Right(c, m)'
  BY <1>1, RightStays
<1>3. \A i \in 1 .. m : ~Final(c, sent[c][i])'
  BY <1>1 DEF Final
<1>4. QED
  BY <1>2, <1>3 DEF GoesOn

-----------------------------------------------------------------------------
(* A connection, and its end.                                                  *)
LEMMA ConnectKeeps ==
    ASSUME WireInv, NEW c \in Clients, Connect(c) \/ Accept(c)
    PROVE  WireInv'
<1>1. \/ thread[c] = "none" /\ thread' = [thread EXCEPT ![c] = "queued"]
      \/ thread[c] = "queued" /\ thread' = [thread EXCEPT ![c] = "reading"]
  BY DEF Connect, Accept
<1>2. UNCHANGED <<proto, sent, half, end, wire, frame, answer, got>>
  BY DEF Connect, Accept, clientVars
<1>3. WireTypes'
  BY <1>1, <1>2 DEF WireInv, WireTypes, Stages
<1>4. \A d \in Clients : d # c => Still(d)
  BY <1>1, <1>2 DEF Still, WireInv, WireTypes
<1>5. Wired(c) /\ Waiting(c)
  BY <1>1 DEF WireInv, ClientInv, AtStage, Waiting, Halfway, CutShort, Answering, Over
<1>6. Wired(c)' /\ GoesOn(c)' /\ Taken(c)' = Taken(c)
  BY <1>2, <1>5 DEF Wired, Taken, Written, Waiting, GoesOn, Right, Reply, Final
<1>7. thread'[c] \in {"queued", "reading"}
  BY <1>1 DEF WireInv, WireTypes
<1>8. Waiting(c)'
  BY <1>2, <1>5, <1>6, <1>7 DEF Waiting
<1>9. QED
  BY <1>3, <1>4, <1>6, <1>8, OneAtATime DEF ClientInv, AtStage

LEMMA StopKeeps ==
    ASSUME WireInv, NEW c \in Clients, Stop(c)
    PROVE  WireInv'
<1>1. thread[c] # "none"
  BY DEF Stop
<1>2. PICK e \in {"shut", "gone"} : end' = [end EXCEPT ![c] = e]
  BY DEF Stop
<1>3. UNCHANGED <<proto, sent, half, thread, wire, frame, answer, got>>
  BY DEF Stop
<1>4. WireTypes'
  BY <1>2, <1>3 DEF WireInv, WireTypes
<1>5. \A d \in Clients : d # c => Still(d)
  BY <1>2, <1>3 DEF Still, WireInv, WireTypes
<1>6. /\ Wired(c)' <=> Wired(c)
      /\ GoesOn(c)' <=> GoesOn(c)
      /\ Taken(c)' = Taken(c)
      /\ \A m : Right(c, m)' <=> Right(c, m)
      /\ \A r : Reply(c, r)' = Reply(c, r)
  BY <1>3 DEF Wired, Taken, Written, GoesOn, Right, Reply, Final
<1>7. \A n : Severed(c, n) => Severed(c, n)'
  <2>1. end'[c] = e /\ e # "open"
    BY <1>2 DEF WireInv, WireTypes
  <2>2. QED
    BY <1>3, <2>1 DEF Severed
<1>8. AtStage(c)'
  <2>1. CASE Waiting(c)
    BY <1>3, <1>6, <2>1 DEF Waiting, AtStage
  <2>2. CASE Halfway(c)
    BY <1>3, <1>6, <2>2 DEF Halfway, AtStage
  <2>3. CASE CutShort(c)
    BY <1>3, <1>6, <1>7, <2>3 DEF CutShort, AtStage
  <2>4. CASE Answering(c)
    BY <1>3, <1>6, <1>7, <2>4 DEF Answering, AtStage
  <2>5. CASE Over(c)
    BY <1>3, <1>6, <1>7, <2>5 DEF Over, AtStage
  <2>6. QED
    BY <2>1, <2>2, <2>3, <2>4, <2>5 DEF WireInv, ClientInv, AtStage
<1>9. ClientInv(c)'
  BY <1>3, <1>6, <1>8 DEF WireInv, ClientInv
<1>10. QED
  BY <1>4, <1>5, <1>9, OneAtATime

-----------------------------------------------------------------------------
(* A client writes.                                                            *)
LEMMA AppendedTo ==
    ASSUME NEW S, NEW s \in Seq(S), NEW x \in S
    PROVE  /\ Append(s, x) \in Seq(S) /\ Len(Append(s, x)) = Len(s) + 1
           /\ Append(s, x) # << >>
           /\ DOMAIN Append(s, x) = 1 .. (Len(s) + 1) /\ DOMAIN s = 1 .. Len(s)
           /\ \A i \in 1 .. Len(s) : Append(s, x)[i] = s[i]
           /\ Append(s, x)[Len(s) + 1] = x
  BY AppendProperties

(* A piece was put: the k-th request's, the last.                              *)
LEMMA PutWired ==
    ASSUME WireTypes, NEW c \in Clients, Wired(c), NEW x \in [request : Asked, whole : BOOLEAN],
           NEW CONSTANT k, k = Len(sent'[c]), k > 0, k \in Nat, x.request = sent'[c][k],
           wire'[c] = Append(wire[c], x),
           Len(sent[c]) <= k, sent'[c] \in Seq(Asked),
           \A i \in 1 .. Len(sent[c]) : sent'[c][i] = sent[c][i],
           Written(c)' = Written(c) + 1, Written(c)' = IF x.whole THEN 2 * k ELSE 2 * k - 1
    PROVE  Wired(c)' /\ Taken(c)' = Taken(c)
<1>1. /\ sent[c] \in Seq(Asked) /\ wire[c] \in Seq([request : Asked, whole : BOOLEAN])
      /\ Len(sent[c]) \in Nat /\ Len(wire[c]) \in Nat
      /\ Written(c) \in Nat /\ Taken(c) = Written(c) - Len(wire[c])
  BY EntryFacts
<1> DEFINE n == Len(wire[c])
<1>2. /\ Len(wire'[c]) = n + 1 /\ DOMAIN (wire'[c]) = 1 .. (n + 1) /\ DOMAIN (wire[c]) = 1 .. n
      /\ \A i \in 1 .. n : wire'[c][i] = wire[c][i]
      /\ wire'[c][n + 1] = x
  BY <1>1, AppendedTo
<1>3. Taken(c)' = Taken(c)
  BY <1>1, <1>2 DEF Taken
<1>4. DOMAIN (sent[c]) = 1 .. Len(sent[c]) /\ DOMAIN (sent'[c]) = 1 .. k
  BY <1>1
<1>5. n \in Nat
  BY <1>1
<1> HIDE DEF n
<1>6. ASSUME NEW CONSTANT i \in 1 .. (n + 1)
      PROVE  \E j \in DOMAIN (sent'[c]) :
                /\ wire'[c][i].request = sent'[c][j]
                /\ Taken(c)' + i = IF wire'[c][i].whole THEN 2 * j ELSE 2 * j - 1
  <2>1. CASE i = n + 1
    <3>1. Taken(c)' + i = Written(c)'
      BY <1>1, <1>3, <1>5, <2>1 DEF n
    <3>2. k \in DOMAIN (sent'[c])
      BY <1>4
    <3>3. QED
      BY <1>2, <2>1, <3>1, <3>2
  <2>2. CASE i # n + 1
    <3>1. i \in 1 .. n
      BY <1>5, <2>2
    <3>2. PICK j \in DOMAIN (sent[c]) :
            /\ wire[c][i].request = sent[c][j]
            /\ Taken(c) + i = IF wire[c][i].whole THEN 2 * j ELSE 2 * j - 1
      BY <1>2, <3>1 DEF Wired
    <3>3. j \in DOMAIN (sent'[c]) /\ sent'[c][j] = sent[c][j]
      BY <1>1, <1>4
    <3>4. QED
      BY <1>2, <1>3, <3>1, <3>2, <3>3
  <2>3. QED
    BY <2>1, <2>2
<1>7. QED
  BY <1>2, <1>3, <1>6 DEF Wired

(* A client that goes on writing disturbs no stage.                            *)
LEMMA StageOnWriting ==
    ASSUME WireTypes, NEW CONSTANT c \in Clients, AtStage(c), Talking(c),
           UNCHANGED <<proto, thread, frame, answer, got, end>>, Taken(c)' = Taken(c),
           Len(wire[c]) >= 0,
           sent'[c] \in Seq(Asked), Len(sent[c]) <= Len(sent'[c]),
           \A i \in 1 .. Len(sent[c]) : sent'[c][i] = sent[c][i]
    PROVE  AtStage(c)'
<1>1. thread[c] \notin {"none", "done"} /\ end[c] = "open"
  BY DEF Talking
<1>2. PICK m \in Nat : m = Len(got[c])
  BY EntryFacts
<1>3. /\ Len(sent[c]) \in Nat /\ Len(wire[c]) \in Nat /\ Taken(c) = Written(c) - Len(wire[c])
      /\ Written(c) = IF half[c] THEN 2 * Len(sent[c]) - 1 ELSE 2 * Len(sent[c])
      /\ half[c] \in BOOLEAN
  BY EntryFacts
<1>4. GoesOn(c)
  BY <1>1 DEF AtStage, Waiting, Halfway, CutShort, Answering, Over, Severed
<1>5. m <= Len(sent[c])
  BY <1>2, <1>4 DEF GoesOn, Right
<1>6. Len(sent'[c]) \in Nat
  OBVIOUS
<1>7. m <= Len(sent'[c]) /\ \A i \in 1 .. m : sent'[c][i] = sent[c][i]
  BY <1>3, <1>5, <1>6
<1>8. GoesOn(c)'
  BY <1>2, <1>4, <1>7, GoesOnStays
<1>9. CASE Waiting(c)
  BY <1>1, <1>8, <1>9 DEF Waiting, AtStage
<1>10. CASE Halfway(c)
  <2>1. Taken(c) = 2 * m + 1 /\ frame[c] = sent[c][m + 1]
    BY <1>2, <1>10 DEF Halfway
  <2>2. m + 1 \in 1 .. Len(sent[c])
    <3> DEFINE l == Len(sent[c])
    <3>1. 2 * m + 1 <= 2 * l /\ l \in Nat
      BY <2>1, EntryFacts
    <3> HIDE DEF l
    <3>2. m + 1 \in 1 .. l
      BY <3>1
    <3>3. QED
      BY <3>2 DEF l
  <2>3. sent'[c][m + 1] = sent[c][m + 1]
    BY <2>2
  <2>4. QED
    BY <1>2, <1>8, <1>10, <2>1, <2>3 DEF Halfway, AtStage
<1>11. CASE Answering(c)
  <2>1. /\ m + 1 <= Len(sent[c]) /\ frame[c] = sent[c][m + 1]
        /\ Taken(c) = 2 * m + 2 \/ proto[c] # "varlink"
    BY <1>1, <1>2, <1>11 DEF Answering, Severed
  <2>2. m + 1 <= Len(sent'[c]) /\ sent'[c][m + 1] = sent[c][m + 1]
    BY <1>3, <1>6, <2>1
  <2>3. Reply(c, frame[c])' = Reply(c, frame[c])
    BY DEF Reply
  <2>4. QED
    BY <1>2, <1>8, <1>11, <2>1, <2>2, <2>3 DEF Answering, AtStage
<1>12. QED
  BY <1>1, <1>9, <1>10, <1>11 DEF AtStage, CutShort, Over, Severed

LEMMA SendPartKeeps ==
    ASSUME WireInv, NEW CONSTANT c \in Clients, SendPart(c)
    PROVE  WireInv'
<1>1. Talking(c) /\ half[c] = FALSE /\ half' = [half EXCEPT ![c] = TRUE]
  <2>1. Talking(c) /\ ~half[c] /\ half' = [half EXCEPT ![c] = TRUE]
    BY DEF SendPart
  <2>2. QED
    BY <2>1 DEF WireInv, WireTypes
<1>2. PICK r \in Sends[c][proto[c]] : sent' = [sent EXCEPT ![c] = Append(@, r)]
  BY DEF SendPart
<1>3. UNCHANGED <<proto, end, thread, frame, answer, got>>
  BY DEF SendPart
<1>4. r \in Asked /\ WireTypes /\ ClientInv(c)
  BY AskedFacts DEF WireInv, WireTypes
<1>5. sent[c] \in Seq(Asked) /\ Len(sent[c]) \in Nat /\ Len(wire[c]) \in Nat
      /\ wire[c] \in Seq([request : Asked, whole : BOOLEAN])
      /\ Written(c) = 2 * Len(sent[c])
  BY <1>1, <1>4, EntryFacts
<1>6. PICK k \in Nat : k = Len(sent[c]) + 1
  BY <1>5
<1>7. /\ sent'[c] \in Seq(Asked) /\ Len(sent'[c]) = k /\ sent'[c] # << >> /\ sent'[c][k] = r
      /\ \A i \in 1 .. Len(sent[c]) : sent'[c][i] = sent[c][i]
  <2>1. sent'[c] = Append(sent[c], r)
    BY <1>2, <1>4 DEF WireTypes
  <2>2. QED
    BY <1>4, <1>5, <1>6, <2>1, AppendedTo
<1> DEFINE x == [request |-> r, whole |-> FALSE]
<1>8. x \in [request : Asked, whole : BOOLEAN] /\ x.request = r /\ x.whole = FALSE
  BY <1>4
<1>9. wire' = [wire EXCEPT ![c] = Append(@, x)]
  <2>1. Last(sent'[c]) = r
    BY <1>7 DEF Last
  <2>2. QED
    BY <2>1 DEF SendPart, Put
<1> HIDE DEF x
<1>10. wire'[c] = Append(wire[c], x)
  BY <1>4, <1>9 DEF WireTypes
<1>11. WireTypes'
  <2>1. sent' \in [Clients -> Seq(Asked)] /\ half' \in [Clients -> BOOLEAN]
    BY <1>1, <1>2, <1>4, <1>7 DEF WireTypes
  <2>2. \A d \in Clients : half'[d] => sent'[d] # << >>
    BY <1>1, <1>2, <1>4, <1>7 DEF WireTypes
  <2>3. wire' \in [Clients -> Seq([request : Asked, whole : BOOLEAN])]
    BY <1>4, <1>5, <1>8, <1>9, <1>10, AppendedTo DEF WireTypes
  <2>4. QED
    BY <1>3, <1>4, <2>1, <2>2, <2>3 DEF WireTypes
<1>12. \A d \in Clients : d # c => Still(d)
  BY <1>1, <1>2, <1>3, <1>4, <1>9 DEF WireTypes, Still
<1>13. half'[c] = TRUE
  BY <1>1, <1>4 DEF WireTypes
<1>14. Written(c)' = 2 * k - 1
  BY <1>6, <1>7, <1>13 DEF Written
<1>15. Written(c)' = Written(c) + 1 /\ k > 0 /\ Len(sent[c]) <= k
  BY <1>5, <1>6, <1>14
<1>16. thread[c] # "done"
  BY <1>1 DEF Talking
<1>17. Wired(c)' /\ Taken(c)' = Taken(c)
  BY <1>4, <1>7, <1>8, <1>10, <1>14, <1>15, <1>16, PutWired DEF ClientInv
<1>18. AtStage(c)'
  BY <1>1, <1>3, <1>4, <1>5, <1>7, <1>15, <1>17, StageOnWriting DEF ClientInv
<1>19. QED
  BY <1>11, <1>12, <1>17, <1>18, OneAtATime DEF ClientInv

LEMMA SendRestKeeps ==
    ASSUME WireInv, NEW CONSTANT c \in Clients, SendRest(c)
    PROVE  WireInv'
<1>1. Talking(c) /\ half[c] /\ half' = [half EXCEPT ![c] = FALSE]
  BY DEF SendRest
<1>2. UNCHANGED <<sent, proto, end, thread, frame, answer, got>>
  BY DEF SendRest
<1>3. WireTypes /\ ClientInv(c)
  BY DEF WireInv
<1>4. /\ sent[c] \in Seq(Asked) /\ Len(sent[c]) \in Nat /\ Len(wire[c]) \in Nat
      /\ wire[c] \in Seq([request : Asked, whole : BOOLEAN])
      /\ Len(sent[c]) > 0 /\ Written(c) = 2 * Len(sent[c]) - 1
  BY <1>1, <1>3, EntryFacts
<1>5. PICK k \in Nat : k = Len(sent[c]) /\ k > 0
  BY <1>4
<1> DEFINE x == [request |-> sent[c][k], whole |-> TRUE]
<1>6. x \in [request : Asked, whole : BOOLEAN] /\ x.request = sent[c][k] /\ x.whole = TRUE
  <2>1. sent[c][k] \in Asked
    BY <1>4, <1>5
  <2>2. QED
    BY <2>1
<1>7. wire' = [wire EXCEPT ![c] = Append(@, x)]
  BY <1>2, <1>5 DEF SendRest, Put, Last
<1> HIDE DEF x
<1>8. wire'[c] = Append(wire[c], x)
  BY <1>3, <1>7 DEF WireTypes
<1>9. WireTypes'
  <2>1. wire' \in [Clients -> Seq([request : Asked, whole : BOOLEAN])]
    BY <1>3, <1>4, <1>6, <1>7, <1>8, AppendedTo DEF WireTypes
  <2>2. QED
    BY <1>1, <1>2, <1>3, <2>1 DEF WireTypes
<1>10. \A d \in Clients : d # c => Still(d)
  BY <1>1, <1>2, <1>3, <1>7 DEF WireTypes, Still
<1>11. half'[c] = FALSE
  BY <1>1, <1>3 DEF WireTypes
<1>12. Written(c)' = 2 * k
  <2>1. Written(c)' = 2 * Len(sent'[c]) - 0 /\ Len(sent'[c]) = k
    BY <1>2, <1>5, <1>11 DEF Written
  <2>2. QED
    BY <1>5, <2>1
<1>13. Written(c)' = Written(c) + 1
  BY <1>4, <1>5, <1>12
<1>14. thread[c] # "done"
  BY <1>1 DEF Talking
<1>15. Wired(c)' /\ Taken(c)' = Taken(c)
  <2>1. k = Len(sent'[c]) /\ x.request = sent'[c][k] /\ sent'[c] \in Seq(Asked) /\ Len(sent[c]) <= k
        /\ \A i \in 1 .. Len(sent[c]) : sent'[c][i] = sent[c][i]
    BY <1>2, <1>4, <1>5, <1>6
  <2>2. QED
    BY <1>3, <1>5, <1>6, <1>8, <1>12, <1>13, <1>14, <2>1, PutWired DEF ClientInv
<1>16. AtStage(c)'
  <2>1. sent'[c] \in Seq(Asked) /\ Len(sent[c]) <= Len(sent'[c])
        /\ \A i \in 1 .. Len(sent[c]) : sent'[c][i] = sent[c][i]
    BY <1>2, <1>4
  <2>2. QED
    BY <1>1, <1>2, <1>3, <1>4, <1>15, <2>1, StageOnWriting DEF ClientInv
<1>17. QED
  BY <1>9, <1>10, <1>15, <1>16, OneAtATime DEF ClientInv

-----------------------------------------------------------------------------
(* The thread reads, up to the end of a request or of the client.              *)
LEMMA TakenFrom ==
    ASSUME NEW S, NEW s \in Seq(S), s # << >>
    PROVE  /\ Head(s) \in S /\ Head(s) = s[1] /\ Tail(s) \in Seq(S)
           /\ Len(Tail(s)) = Len(s) - 1
           /\ \A i \in 1 .. Len(Tail(s)) : Tail(s)[i] = s[i + 1]
  BY HeadTailProperties

LEMMA NextPiece ==
    ASSUME WireTypes, NEW CONSTANT c \in Clients, Wired(c), wire[c] # << >>
    PROVE  /\ Head(wire[c]) \in [request : Asked, whole : BOOLEAN]
           /\ Tail(wire[c]) \in Seq([request : Asked, whole : BOOLEAN])
           /\ Len(Tail(wire[c])) = Len(wire[c]) - 1
           /\ \E k \in 1 .. Len(sent[c]) :
                 /\ Head(wire[c]).request = sent[c][k]
                 /\ Taken(c) + 1 = IF Head(wire[c]).whole THEN 2 * k ELSE 2 * k - 1
           /\ \A i \in 1 .. Len(Tail(wire[c])) : Tail(wire[c])[i] = wire[c][i + 1]
<1>1. wire[c] \in Seq([request : Asked, whole : BOOLEAN]) /\ sent[c] \in Seq(Asked)
      /\ Len(wire[c]) \in Nat /\ Len(wire[c]) # 0
  BY EntryFacts
<1>2. /\ Head(wire[c]) \in [request : Asked, whole : BOOLEAN]
      /\ Tail(wire[c]) \in Seq([request : Asked, whole : BOOLEAN])
      /\ Len(Tail(wire[c])) = Len(wire[c]) - 1
      /\ \A i \in 1 .. Len(Tail(wire[c])) : Tail(wire[c])[i] = wire[c][i + 1]
      /\ Head(wire[c]) = wire[c][1]
  BY <1>1, TakenFrom
<1>3. 1 \in DOMAIN (wire[c]) /\ DOMAIN (sent[c]) = 1 .. Len(sent[c])
  BY <1>1
<1>4. QED
  BY <1>2, <1>3 DEF Wired

LEMMA ReadKeeps ==
    ASSUME WireInv, NEW CONSTANT c \in Clients, Read(c)
    PROVE  WireInv'
<1>1. WireTypes /\ ClientInv(c) /\ thread[c] = "reading" /\ wire[c] # << >>
  BY DEF Read, WireInv
<1>2. Wired(c)
  BY <1>1 DEF ClientInv
<1> DEFINE x == Head(wire[c])
           n == Len(wire[c])
<1>3. PICK k \in 1 .. Len(sent[c]) :
        x.request = sent[c][k] /\ Taken(c) + 1 = IF x.whole THEN 2 * k ELSE 2 * k - 1
  BY <1>1, <1>2, NextPiece
<1>4. x \in [request : Asked, whole : BOOLEAN]
  BY <1>1, <1>2, NextPiece
<1>5. /\ frame' = [frame EXCEPT ![c] = x.request]
      /\ wire' = [wire EXCEPT ![c] = Tail(@)]
      /\ thread' = [thread EXCEPT ![c] = IF x.whole THEN "parse" ELSE "reading"]
      /\ UNCHANGED <<proto, sent, half, end, answer, got>>
  BY DEF Read, Fresh, clientVars
<1>6. x.request \in Asked /\ x.whole \in BOOLEAN
  BY <1>4
<1>7. /\ frame'[c] = x.request /\ wire'[c] = Tail(wire[c])
      /\ thread'[c] = IF x.whole THEN "parse" ELSE "reading"
  BY <1>1, <1>5 DEF WireTypes
<1>8. /\ wire'[c] \in Seq([request : Asked, whole : BOOLEAN]) /\ Len(wire'[c]) = n - 1 /\ n \in Nat
      /\ \A i \in 1 .. (n - 1) : wire'[c][i] = wire[c][i + 1]
      /\ DOMAIN (wire'[c]) = 1 .. (n - 1) /\ DOMAIN (wire[c]) = 1 .. n
  <2>1. /\ wire'[c] \in Seq([request : Asked, whole : BOOLEAN]) /\ Len(wire'[c]) = n - 1
        /\ \A i \in 1 .. Len(wire'[c]) : wire'[c][i] = wire[c][i + 1]
    BY <1>1, <1>2, <1>7, NextPiece
  <2>2. n \in Nat /\ wire[c] \in Seq([request : Asked, whole : BOOLEAN])
    BY <1>1, EntryFacts
  <2>3. DOMAIN (wire'[c]) = 1 .. Len(wire'[c]) /\ DOMAIN (wire[c]) = 1 .. n
    BY <2>1, <2>2
  <2> HIDE DEF n
  <2>4. QED
    BY <2>1, <2>2, <2>3
<1>9. WireTypes'
  <2>1. frame' \in [Clients -> Frames]
    BY <1>1, <1>5, <1>6 DEF WireTypes, Frames
  <2>2. thread' \in [Clients -> Stages]
    BY <1>1, <1>5 DEF WireTypes, Stages
  <2>3. wire' \in [Clients -> Seq([request : Asked, whole : BOOLEAN])]
    BY <1>1, <1>5, <1>7, <1>8 DEF WireTypes
  <2> HIDE DEF x, n
  <2>4. QED
    BY <1>1, <1>5, <2>1, <2>2, <2>3 DEF WireTypes
<1>10. \A d \in Clients : d # c => Still(d)
  BY <1>1, <1>5 DEF WireTypes, Still
<1>11. Taken(c) \in Int /\ Taken(c)' = Taken(c) + 1 /\ Written(c)' = Written(c)
  <2>1. Written(c) \in Nat /\ Taken(c) = Written(c) - n /\ Taken(c) \in Int
    BY <1>1, EntryFacts
  <2>2. Written(c)' = Written(c)
    BY <1>5 DEF Written
  <2>3. Taken(c)' = Written(c) - (n - 1)
    BY <1>8, <2>2 DEF Taken
  <2> DEFINE w == Written(c)
  <2>4. w - (n - 1) = (w - n) + 1
    BY <1>8, <2>1
  <2>5. QED
    BY <2>1, <2>2, <2>3, <2>4
<1> HIDE DEF x, n
<1>12. Wired(c)'
  <2>1. ASSUME NEW CONSTANT i \in 1 .. (n - 1)
        PROVE  \E j \in DOMAIN (sent'[c]) :
                 /\ wire'[c][i].request = sent'[c][j]
                 /\ Taken(c)' + i = IF wire'[c][i].whole THEN 2 * j ELSE 2 * j - 1
    <3>1. i + 1 \in 1 .. n /\ i \in Int
      BY <1>8
    <3>2. PICK j \in DOMAIN (sent[c]) :
            /\ wire[c][i + 1].request = sent[c][j]
            /\ Taken(c) + (i + 1) = IF wire[c][i + 1].whole THEN 2 * j ELSE 2 * j - 1
      BY <1>2, <1>8, <3>1 DEF Wired
    <3>3. Taken(c)' + i = Taken(c) + (i + 1)
      BY <1>11, <3>1
    <3>4. QED
      BY <1>5, <1>8, <3>2, <3>3
  <2>2. QED
    BY <1>8, <2>1 DEF Wired
<1>13. PICK m \in Nat : m = Len(got[c])
  BY <1>1, EntryFacts
<1>14. GoesOn(c)' <=> GoesOn(c)
  BY <1>5 DEF GoesOn, Right, Reply, Final
<1>15. k \in Nat /\ k <= Len(sent[c]) /\ Len(sent[c]) \in Nat
  BY <1>1, <1>3, EntryFacts
<1>16. AtStage(c)'
  <2>1. CASE Waiting(c)
    <3>1. Taken(c) = 2 * m /\ GoesOn(c)
      BY <1>13, <2>1 DEF Waiting
    <3>2. ~x.whole /\ k = m + 1
      BY <1>3, <1>6, <1>13, <1>15, <3>1
    <3>3. Taken(c)' = 2 * m + 1
      BY <1>11, <1>13, <3>1
    <3>4. Halfway(c)'
      BY <1>3, <1>5, <1>7, <1>13, <1>14, <3>1, <3>2, <3>3 DEF Halfway
    <3>5. QED
      BY <3>4 DEF AtStage
  <2>2. CASE Halfway(c)
    <3>1. Taken(c) = 2 * m + 1 /\ GoesOn(c)
      BY <1>13, <2>2 DEF Halfway
    <3>2. x.whole /\ k = m + 1
      BY <1>3, <1>6, <1>13, <1>15, <3>1
    <3>3. Taken(c)' = 2 * m + 2
      BY <1>11, <1>13, <3>1
    <3>4. m + 1 <= Len(sent[c])
      BY <1>15, <3>2
    <3>5. Answering(c)'
      BY <1>3, <1>5, <1>7, <1>13, <1>14, <3>1, <3>2, <3>3, <3>4 DEF Answering
    <3>6. QED
      BY <3>5 DEF AtStage
  <2>3. QED
    BY <1>1, <2>1, <2>2 DEF ClientInv, AtStage, CutShort, Answering, Over
<1>17. QED
  BY <1>9, <1>10, <1>12, <1>16, OneAtATime DEF ClientInv

(* What is left alone when only the thread moves, and what it holds.           *)
LEMMA ThreadMoves ==
    ASSUME WireInv, NEW CONSTANT c \in Clients, thread[c] # "done",
           UNCHANGED <<proto, sent, half, end, wire, got>>,
           NEW CONSTANT t \in Stages, thread' = [thread EXCEPT ![c] = t],
           NEW CONSTANT f \in Frames, frame' = [frame EXCEPT ![c] = f],
           NEW CONSTANT a \in Told \union {None}, answer' = [answer EXCEPT ![c] = a],
           (thread'[c] = t /\ frame'[c] = f /\ answer'[c] = a /\ Wired(c)') => AtStage(c)'
    PROVE  WireInv'
<1>1. WireTypes /\ ClientInv(c)
  BY DEF WireInv
<1>2. WireTypes'
  BY <1>1 DEF WireTypes
<1>3. \A d \in Clients : d # c => Still(d)
  BY <1>1 DEF WireTypes, Still
<1>4. Wired(c)'
  BY <1>1 DEF ClientInv, Wired, Taken, Written
<1>5. thread'[c] = t /\ frame'[c] = f /\ answer'[c] = a
  BY <1>1 DEF WireTypes
<1>6. QED
  BY <1>2, <1>3, <1>4, <1>5, OneAtATime DEF ClientInv

LEMMA EndKeeps ==
    ASSUME WireInv, NEW CONSTANT c \in Clients, End(c), thread[c] # "done",
           \/ GoesOn(c)
           \/ Len(got[c]) > 0 /\ Severed(c, Len(got[c])) /\ Right(c, Len(got[c]) - 1)
    PROVE  WireInv'
<1>1. /\ thread' = [thread EXCEPT ![c] = "done"]
      /\ UNCHANGED <<proto, sent, half, end, wire, frame, answer, got>>
  BY DEF End, clientVars
<1>2. PICK f \in Frames : f = frame[c]
  BY DEF WireInv, WireTypes
<1>3. PICK a \in Told \union {None} : a = answer[c]
  BY DEF WireInv, WireTypes
<1>4. frame' = [frame EXCEPT ![c] = f] /\ answer' = [answer EXCEPT ![c] = a]
  BY <1>1, <1>2, <1>3 DEF WireInv, WireTypes
<1>5. ASSUME thread'[c] = "done" PROVE AtStage(c)'
  <2>1. UNCHANGED <<proto, sent, half, end, wire, got>>
    BY <1>1
  <2>2. CASE GoesOn(c)
    <3>1. Right(c, Len(got[c]))'
      BY <2>1, <2>2 DEF GoesOn, Right, Reply, Final
    <3>2. QED
      BY <1>5, <3>1 DEF AtStage, Over
  <2>3. CASE Len(got[c]) > 0 /\ Severed(c, Len(got[c])) /\ Right(c, Len(got[c]) - 1)
    <3>1. (Len(got[c]) > 0 /\ Severed(c, Len(got[c])) /\ Right(c, Len(got[c]) - 1))'
      BY <2>1, <2>3 DEF Severed, Right, Reply, Final
    <3>2. QED
      BY <1>5, <3>1 DEF AtStage, Over
  <2>4. QED
    BY <2>2, <2>3
<1> DEFINE t == "done"
<1>6. t \in Stages /\ thread' = [thread EXCEPT ![c] = t]
  BY <1>1 DEF Stages
<1>7. (thread'[c] = t /\ frame'[c] = f /\ answer'[c] = a /\ Wired(c)') => AtStage(c)'
  BY <1>5
<1>8. UNCHANGED <<proto, sent, half, end, wire, got>>
  BY <1>1
<1> HIDE DEF t
<1>9. QED
  BY <1>4, <1>6, <1>7, <1>8, ThreadMoves

LEMMA HalfwayFacts ==
    ASSUME WireTypes, NEW CONSTANT c \in Clients, Halfway(c)
    PROVE  /\ frame[c] # None /\ frame[c] \in Asked
           /\ Len(got[c]) + 1 <= Len(sent[c])
           /\ wire[c] = << >> => half[c] /\ Len(sent[c]) = Len(got[c]) + 1
<1> DEFINE m == Len(got[c])
           l == Len(sent[c])
           w == Len(wire[c])
           h == half[c]
           v == Written(c)
           t == Taken(c)
<1>1. /\ m \in Nat /\ l \in Nat /\ w \in Nat /\ h \in BOOLEAN
      /\ v = (IF h THEN 2 * l - 1 ELSE 2 * l) /\ t = v - w /\ t = 2 * m + 1
      /\ sent[c] \in Seq(Asked) /\ (wire[c] = << >> <=> w = 0) /\ t <= 2 * l
  BY EntryFacts DEF Halfway
<1>2. frame[c] = sent[c][m + 1]
  BY DEF Halfway
<1> HIDE DEF m, l, w, h, v, t
<1>3. m + 1 \in 1 .. l
  BY <1>1
<1>4. w = 0 => h /\ l = m + 1
  <2>1. CASE h
    BY <1>1, <2>1
  <2>2. CASE ~h
    BY <1>1, <2>2
  <2>3. QED
    BY <2>1, <2>2
<1>5. frame[c] \in Asked
  BY <1>1, <1>2, <1>3 DEF l
<1>6. QED
  BY <1>1, <1>3, <1>4, <1>5, AskedFacts DEF m, l, h

LEMMA WaitingFacts ==
    ASSUME WireTypes, NEW CONSTANT c \in Clients, Waiting(c), proto[c] # "varlink", wire[c] = << >>
    PROVE  sent[c] = << >> /\ Len(got[c]) + 1 = 1
<1> DEFINE m == Len(got[c])
           l == Len(sent[c])
           h == half[c]
           v == Written(c)
           t == Taken(c)
<1>1. /\ m \in Nat /\ l \in Nat /\ h \in BOOLEAN
      /\ v = (IF h THEN 2 * l - 1 ELSE 2 * l) /\ t = v - 0 /\ v \in Nat /\ t = 2 * m
      /\ (sent[c] = << >> <=> l = 0)
  BY EntryFacts DEF Waiting
<1>2. \A i \in 1 .. m : FALSE
  BY DEF Waiting, GoesOn, Final
<1> HIDE DEF m, l, h, v, t
<1>3. m = 0
  <2>1. ASSUME m # 0 PROVE FALSE
    <3>1. 1 \in 1 .. m
      BY <1>1, <2>1
    <3>2. QED
      BY <1>2, <3>1
  <2>2. QED
    BY <2>1
<1>4. v = 0
  BY <1>1, <1>3
<1>5. l = 0
  <2>1. CASE h
    BY <1>1, <1>4, <2>1
  <2>2. CASE ~h
    BY <1>1, <1>4, <2>2
  <2>3. QED
    BY <1>1, <2>1, <2>2
<1>6. m + 1 = 1
  BY <1>3
<1>7. QED
  BY <1>1, <1>5, <1>6 DEF m

LEMMA ReadEndKeeps ==
    ASSUME WireInv, NEW CONSTANT c \in Clients, ReadEnd(c)
    PROVE  WireInv'
<1>1. WireTypes /\ ClientInv(c) /\ thread[c] = "reading" /\ wire[c] = << >> /\ end[c] # "open"
  BY DEF ReadEnd, Unread, WireInv
<1>2. Waiting(c) \/ Halfway(c) \/ CutShort(c)
  BY <1>1 DEF ClientInv, AtStage, Answering, Over
<1>3. CASE frame[c] = None /\ proto[c] = "varlink"
  <2>1. End(c)
    BY <1>3 DEF ReadEnd
  <2>2. Waiting(c) \/ CutShort(c)
    BY <1>1, <1>2, <1>3, HalfwayFacts
  <2>3. QED
    BY <1>1, <2>1, <2>2, EndKeeps DEF Waiting, CutShort
<1>4. CASE ~(frame[c] = None /\ proto[c] = "varlink")
  <2>1. PICK f \in IF frame[c] = None THEN {""} ELSE Cut(c) : frame' = [frame EXCEPT ![c] = f]
    BY <1>4 DEF ReadEnd
  <2>2. /\ thread' = [thread EXCEPT ![c] = "parse"]
        /\ UNCHANGED <<proto, sent, half, end, wire, answer, got>>
    BY <1>4 DEF ReadEnd, clientVars
  <2>3. f \in Frames
    <3>1. proto[c] \in Protocols /\ frame[c] \in Frames
      BY <1>1 DEF WireTypes
    <3>2. QED
      BY <2>1, <3>1 DEF Frames, Cut, Protocols
  <2>4. GoesOn(c) /\ Severed(c, Len(got[c]) + 1)
    <3>1. CASE Halfway(c)
      BY <1>1, <3>1, HalfwayFacts DEF Severed, Halfway
    <3>2. CASE Waiting(c)
      <4>1. proto[c] # "varlink"
        BY <1>4, <3>2 DEF Waiting
      <4>2. sent[c] = << >> /\ Len(got[c]) + 1 = 1 /\ GoesOn(c)
        BY <1>1, <3>2, <4>1, WaitingFacts DEF Waiting
      <4>3. QED
        BY <1>1, <4>1, <4>2, Zenon DEF Severed
    <3>3. ~CutShort(c)
      BY <1>4 DEF CutShort
    <3>4. QED
      BY <1>2, <3>1, <3>2, <3>3
  <2>5. PICK a \in Told \union {None} : a = answer[c]
    BY <1>1 DEF WireTypes
  <2>6. answer' = [answer EXCEPT ![c] = a]
    BY <1>1, <2>2, <2>5 DEF WireTypes
  <2>7. ASSUME thread'[c] = "parse" PROVE AtStage(c)'
    <3>1. GoesOn(c)' /\ Severed(c, Len(got[c]) + 1)' /\ wire'[c] = << >>
      BY <1>1, <2>2, <2>4 DEF GoesOn, Right, Reply, Final, Severed
    <3>2. QED
      BY <2>7, <3>1 DEF AtStage, Answering
  <2> DEFINE t == "parse"
  <2>8. t \in Stages /\ thread' = [thread EXCEPT ![c] = t]
    BY <2>2 DEF Stages
  <2>9. (thread'[c] = t /\ frame'[c] = f /\ answer'[c] = a /\ Wired(c)') => AtStage(c)'
    BY <2>7
  <2>10. UNCHANGED <<proto, sent, half, end, wire, got>> /\ thread[c] # "done"
    BY <1>1, <2>2
  <2> HIDE DEF t
  <2>11. QED
    BY <2>1, <2>3, <2>6, <2>8, <2>9, <2>10, ThreadMoves
<1>5. QED
  BY <1>3, <1>4

(* Only the stage of the thread, or the reply it is to write, changes.         *)
LEMMA StageMoves ==
    ASSUME WireInv, NEW CONSTANT c \in Clients, thread[c] # "done",
           UNCHANGED <<proto, sent, half, end, wire, got, frame>>,
           NEW CONSTANT t \in Stages, thread' = [thread EXCEPT ![c] = t],
           NEW CONSTANT a \in Told \union {None}, answer' = [answer EXCEPT ![c] = a],
           (thread'[c] = t /\ answer'[c] = a) => AtStage(c)'
    PROVE  WireInv'
<1>1. PICK f \in Frames : f = frame[c]
  BY DEF WireInv, WireTypes
<1>2. frame' = [frame EXCEPT ![c] = f]
  BY <1>1 DEF WireInv, WireTypes
<1>3. (thread'[c] = t /\ frame'[c] = f /\ answer'[c] = a /\ Wired(c)') => AtStage(c)'
  OBVIOUS
<1>4. QED
  BY <1>2, <1>3, ThreadMoves

LEMMA TimeoutKeeps ==
    ASSUME WireInv, NEW CONSTANT c \in Clients, Timeout(c)
    PROVE  WireInv'
<1>1. WireTypes /\ ClientInv(c) /\ thread[c] = "reading" /\ end[c] = "open"
  BY DEF Timeout, WireInv
<1>2. Waiting(c) \/ Halfway(c)
  BY <1>1 DEF ClientInv, AtStage, CutShort, Answering, Over, Severed
<1>3. GoesOn(c)
  BY <1>2 DEF Waiting, Halfway
<1>4. CASE ~(proto[c] = "http" /\ frame[c] # None)
  <2>1. End(c)
    BY <1>4 DEF Timeout
  <2>2. QED
    BY <1>1, <1>3, <2>1, EndKeeps
<1>5. CASE proto[c] = "http" /\ frame[c] # None
  <2>1. /\ thread' = [thread EXCEPT ![c] = "parse"]
        /\ UNCHANGED <<proto, sent, half, end, wire, got, frame, answer>>
    BY <1>5 DEF Timeout, clientVars
  <2>2. /\ frame[c] = sent[c][Len(got[c]) + 1] /\ Len(got[c]) + 1 <= Len(sent[c])
        /\ proto[c] # "varlink"
    BY <1>1, <1>2, <1>5, HalfwayFacts DEF Waiting, Halfway
  <2>3. PICK a \in Told \union {None} : a = answer[c]
    BY <1>1 DEF WireTypes
  <2>4. answer' = [answer EXCEPT ![c] = a]
    BY <1>1, <2>1, <2>3 DEF WireTypes
  <2>5. ASSUME thread'[c] = "parse" PROVE AtStage(c)'
    <3>1. GoesOn(c)'
      BY <1>3, <2>1 DEF GoesOn, Right, Reply, Final
    <3>2. Answering(c)'
      BY <2>1, <2>2, <2>5, <3>1 DEF Answering
    <3>3. QED
      BY <3>2 DEF AtStage
  <2> DEFINE t == "parse"
  <2>6. t \in Stages /\ thread' = [thread EXCEPT ![c] = t]
    BY <2>1 DEF Stages
  <2>7. (thread'[c] = t /\ answer'[c] = a) => AtStage(c)'
    BY <2>5
  <2>8. UNCHANGED <<proto, sent, half, end, wire, got, frame>> /\ thread[c] # "done"
    BY <1>1, <2>1
  <2> HIDE DEF t
  <2>9. QED
    BY <2>4, <2>6, <2>7, <2>8, StageMoves
<1>6. QED
  BY <1>4, <1>5

(* A request is answered.                                                      *)
LEMMA ParseKeeps ==
    ASSUME WireInv, NEW CONSTANT c \in Clients, Parse(c)
    PROVE  WireInv'
<1>1. WireTypes /\ ClientInv(c) /\ thread[c] = "parse" /\ frame[c] \in Frames
  BY DEF Parse, WireInv, WireTypes
<1>2. Answering(c) /\ GoesOn(c)
  BY <1>1 DEF ClientInv, AtStage, Waiting, Halfway, CutShort, Answering, Over
<1>3. CASE Reply(c, frame[c]) = None
  <2>1. End(c)
    BY <1>3 DEF Parse
  <2>2. QED
    BY <1>1, <1>2, <2>1, EndKeeps
<1>4. CASE Reply(c, frame[c]) # None
  <2>1. PICK a \in Told \union {None} : a = Reply(c, frame[c])
    BY <1>1, ReplyFacts
  <2>2. /\ answer' = [answer EXCEPT ![c] = a]
        /\ UNCHANGED <<proto, sent, half, end, wire, got, frame>>
    BY <1>4, <2>1 DEF Parse, clientVars
  <2>3. PICK t \in {"lock", "writing"} : thread' = [thread EXCEPT ![c] = t]
    BY <1>4, Zenon DEF Parse
  <2>4. ASSUME thread'[c] = t, answer'[c] = a PROVE AtStage(c)'
    <3>1. GoesOn(c)' /\ \A m : Severed(c, m)' <=> Severed(c, m)
      BY <1>2, <2>2 DEF GoesOn, Right, Reply, Final, Severed
    <3>2. Reply(c, frame[c])' = Reply(c, frame[c]) /\ Taken(c)' = Taken(c)
      BY <2>2 DEF Reply, Taken, Written
    <3>3. thread[c]' \in {"lock", "writing"} /\ answer[c]' = Reply(c, frame[c])' /\ answer[c]' # None
      BY <1>4, <2>1, <2>4, <3>2
    <3>4. Answering(c)'
      BY <1>2, <2>2, <3>1, <3>2, <3>3 DEF Answering
    <3>5. QED
      BY <3>4 DEF AtStage
  <2>5. t \in Stages /\ thread[c] # "done"
    BY <1>1 DEF Stages
  <2>6. QED
    BY <2>2, <2>3, <2>4, <2>5, StageMoves
<1>5. QED
  BY <1>3, <1>4

LEMMA LockKeeps ==
    ASSUME WireInv, NEW CONSTANT c \in Clients, Lock(c) \/ Unlock(c)
    PROVE  WireInv'
<1>1. WireTypes /\ ClientInv(c) /\ thread[c] \in {"lock", "locked"}
  BY DEF Lock, Unlock, WireInv
<1>2. UNCHANGED <<proto, sent, half, end, wire, got, frame, answer>>
  BY DEF Lock, Unlock, clientVars
<1>3. PICK t \in {"locked", "writing"} : thread' = [thread EXCEPT ![c] = t]
  BY DEF Lock, Unlock
<1>4. Answering(c)
  BY <1>1 DEF ClientInv, AtStage, Waiting, Halfway, CutShort, Answering, Over
<1>5. PICK a \in Told \union {None} : a = answer[c]
  BY <1>1 DEF WireTypes
<1>6. answer' = [answer EXCEPT ![c] = a]
  BY <1>1, <1>2, <1>5 DEF WireTypes
<1>7. ASSUME thread'[c] = t PROVE AtStage(c)'
  <2>1. GoesOn(c)' /\ \A m : Severed(c, m)' <=> Severed(c, m)
    BY <1>2, <1>4 DEF GoesOn, Right, Reply, Final, Severed, Answering
  <2>2. Reply(c, frame[c])' = Reply(c, frame[c]) /\ Taken(c)' = Taken(c)
    BY <1>2 DEF Reply, Taken, Written
  <2>3. thread[c]' \in {"locked", "writing"} /\ thread[c] # "parse"
    BY <1>1, <1>7
  <2>4. Answering(c)'
    BY <1>2, <1>4, <2>1, <2>2, <2>3 DEF Answering
  <2>5. QED
    BY <2>4 DEF AtStage
<1>8. t \in Stages /\ thread[c] # "done"
  BY <1>1 DEF Stages
<1>9. QED
  BY <1>2, <1>3, <1>6, <1>7, <1>8, StageMoves

LEMMA WriteReplyKeeps ==
    ASSUME WireInv, NEW CONSTANT c \in Clients, WriteReply(c)
    PROVE  WireInv'
<1>1. WireTypes /\ ClientInv(c) /\ thread[c] = "writing"
  BY DEF WriteReply, WireInv
<1>2. Answering(c)
  BY <1>1 DEF ClientInv, AtStage, Waiting, Halfway, CutShort, Answering, Over
<1>3. /\ got' = [got EXCEPT ![c] = Append(@, answer[c])]
      /\ frame' = [frame EXCEPT ![c] = None]
      /\ thread' = [thread EXCEPT ![c] = IF LastReply(c) THEN "done" ELSE "reading"]
      /\ UNCHANGED <<proto, sent, half, end, wire, answer>>
  BY DEF WriteReply, clientVars
<1>4. PICK m \in Nat : m = Len(got[c])
  BY <1>1, EntryFacts
<1>5. got[c] \in Seq(Told) /\ answer[c] \in Told /\ answer[c] = Reply(c, frame[c]) /\ answer[c] # None
  BY <1>1, <1>2 DEF WireTypes, Answering
<1>6. /\ got'[c] = Append(got[c], answer[c]) /\ frame'[c] = None
      /\ thread'[c] = IF LastReply(c) THEN "done" ELSE "reading"
  BY <1>1, <1>3 DEF WireTypes
<1>7. /\ got'[c] \in Seq(Told) /\ Len(got'[c]) = m + 1
      /\ \A i \in 1 .. m : got'[c][i] = got[c][i]
      /\ got'[c][m + 1] = answer[c]
  BY <1>4, <1>5, <1>6, AppendedTo
<1>8. WireTypes'
  <2>1. got' \in [Clients -> Seq(Told)]
    BY <1>1, <1>3, <1>6, <1>7 DEF WireTypes
  <2>2. frame' \in [Clients -> Frames] /\ thread' \in [Clients -> Stages]
    BY <1>1, <1>3 DEF WireTypes, Frames, Stages
  <2>3. QED
    BY <1>1, <1>3, <2>1, <2>2 DEF WireTypes
<1>9. \A d \in Clients : d # c => Still(d)
  BY <1>1, <1>3 DEF WireTypes, Still
<1>10. Wired(c)'
  BY <1>1, <1>3 DEF ClientInv, Wired, Taken, Written
<1>11. LastReply(c) <=> Final(c, frame[c])
  BY DEF LastReply, Final
<1>12. Right(c, m) /\ \A i \in 1 .. m : ~Final(c, sent[c][i])
  BY <1>2, <1>4 DEF Answering, GoesOn
<1>13. Taken(c)' = Taken(c) /\ (\A n : Severed(c, n)' <=> Severed(c, n))
       /\ (\A r : Reply(c, r)' = Reply(c, r) /\ Final(c, r)' = Final(c, r))
  BY <1>3 DEF Taken, Written, Severed, Reply, Final
<1>14. CASE /\ m + 1 <= Len(sent[c]) /\ frame[c] = sent[c][m + 1]
            /\ Taken(c) = 2 * m + 2 \/ proto[c] # "varlink"
  <2>1. ASSUME NEW i \in 1 .. (m + 1)
        PROVE  got'[c][i] = Reply(c, sent[c][i])' /\ Reply(c, sent[c][i])' # None
    <3>1. Reply(c, sent[c][i])' = Reply(c, sent[c][i])
      BY <1>3 DEF Reply
    <3>2. CASE i = m + 1
      BY <1>5, <1>7, <1>14, <3>1, <3>2
    <3>3. CASE i # m + 1
      <4>1. i \in 1 .. m
        BY <3>3
      <4>2. QED
        BY <1>7, <1>12, <3>1, <4>1 DEF Right
    <3>4. QED
      BY <3>2, <3>3
  <2>2. \A i \in 1 .. m : ~Final(c, sent[c][i])'
    BY <1>3, <1>12 DEF Final
  <2>3. (m + 1) - 1 = m
    OBVIOUS
  <2>4. Right(c, m + 1)'
    BY <1>3, <1>14, <2>1, <2>2, <2>3 DEF Right
  <2>5. ASSUME LastReply(c) PROVE AtStage(c)'
    <3>1. thread'[c] = "done"
      BY <1>6, <2>5
    <3>2. QED
      BY <1>7, <2>4, <3>1 DEF AtStage, Over
  <2>6. ASSUME ~LastReply(c) PROVE AtStage(c)'
    <3>1. thread'[c] = "reading" /\ Taken(c) = 2 * m + 2
      BY <1>6, <1>14, <2>6 DEF LastReply
    <3>2. ASSUME NEW i \in 1 .. (m + 1) PROVE ~Final(c, sent[c][i])'
      <4>1. CASE i = m + 1
        BY <1>3, <1>11, <1>14, <2>6, <4>1 DEF Final
      <4>2. CASE i # m + 1
        BY <2>2, <4>2
      <4>3. QED
        BY <4>1, <4>2
    <3>3. GoesOn(c)'
      BY <1>7, <2>4, <3>2 DEF GoesOn
    <3>4. Taken(c)' = 2 * Len(got'[c])
      BY <1>7, <1>13, <3>1
    <3>5. Waiting(c)'
      BY <1>6, <3>1, <3>3, <3>4 DEF Waiting
    <3>6. QED
      BY <3>5 DEF AtStage
  <2>7. AtStage(c)'
    BY <2>5, <2>6
  <2>8. QED
    BY <1>8, <1>9, <1>10, <2>7, OneAtATime DEF ClientInv
<1>15. CASE Severed(c, m + 1) /\ wire[c] = << >>
  <2>1. Right(c, m)'
    <3>1. m <= Len(sent'[c]) /\ \A i \in 1 .. m : sent'[c][i] = sent[c][i] /\ got'[c][i] = got[c][i]
      BY <1>3, <1>7, <1>12 DEF Right
    <3>2. proto'[c] = proto[c]
      BY <1>3
    <3>3. QED
      BY <1>12, <3>1, <3>2, RightStays
  <2>2. Len(got'[c]) > 0 /\ Len(got'[c]) - 1 = m
    BY <1>7
  <2>3. Severed(c, m + 1)'
    BY <1>3, <1>15 DEF Severed
  <2>4. Len(got[c])' > 0 /\ Severed(c, Len(got[c]))' /\ Right(c, Len(got[c]) - 1)'
    <3>1. Severed(c, Len(got[c]))'
      BY <1>7, <2>3 DEF Severed
    <3>2. Right(c, Len(got[c]) - 1)'
      BY <2>1, <2>2 DEF Right
    <3>3. QED
      BY <2>2, <3>1, <3>2
  <2>5. ASSUME LastReply(c) PROVE AtStage(c)'
    <3>1. thread'[c] = "done"
      BY <1>6, <2>5
    <3>2. QED
      BY <2>4, <3>1 DEF AtStage, Over
  <2>6. ASSUME ~LastReply(c) PROVE AtStage(c)'
    <3>1. thread'[c] = "reading" /\ proto'[c] = "varlink" /\ wire'[c] = << >>
      BY <1>3, <1>6, <1>15, <2>6 DEF LastReply
    <3>2. CutShort(c)'
      BY <1>6, <2>4, <3>1 DEF CutShort
    <3>3. QED
      BY <3>2 DEF AtStage
  <2>7. AtStage(c)'
    BY <2>5, <2>6
  <2>8. QED
    BY <1>8, <1>9, <1>10, <2>7, OneAtATime DEF ClientInv
<1>16. QED
  BY <1>2, <1>4, <1>14, <1>15 DEF Answering

LEMMA WriteFailsKeeps ==
    ASSUME WireInv, NEW CONSTANT c \in Clients, WriteFails(c)
    PROVE  WireInv'
<1>1. thread[c] = "writing" /\ End(c) /\ AtStage(c)
  BY DEF WriteFails, WireInv, ClientInv
<1>2. GoesOn(c)
  BY <1>1 DEF AtStage, Waiting, Halfway, CutShort, Answering, Over
<1>3. QED
  BY <1>1, <1>2, EndKeeps

LEMMA WireKeeps == WireInv /\ [Next]_vars => WireInv'
<1> SUFFICES ASSUME WireInv, [Next]_vars PROVE WireInv'
  OBVIOUS
<1>1. CASE UNCHANGED vars \/ \E c \in Clients : Drip(c) \/ ReadMore(c)
  <2>1. UNCHANGED <<proto, sent, half, end, wire, thread, frame, answer, got>>
    BY <1>1 DEF vars, clientVars, Drip, ReadMore
  <2>2. WireTypes'
    BY <2>1 DEF WireInv, WireTypes
  <2>3. \A c \in Clients : Still(c)
    BY <2>1 DEF Still
  <2>4. ASSUME NEW c \in Clients PROVE ClientInv(c)'
    BY <2>3, StillHolds DEF WireInv
  <2>5. QED
    BY <2>2, <2>4 DEF WireInv
<1>2. ASSUME NEW CONSTANT c \in Clients, Serve(c), ~ReadMore(c) PROVE WireInv'
  BY <1>2, ReadKeeps, ReadEndKeeps, TimeoutKeeps, ParseKeeps, LockKeeps, WriteFailsKeeps DEF Serve
<1>3. ASSUME NEW CONSTANT c \in Clients,
             \/ Connect(c) \/ SendPart(c) \/ SendRest(c) \/ Stop(c)
             \/ Accept(c) \/ WriteReply(c)
      PROVE  WireInv'
  BY <1>3, ConnectKeeps, SendPartKeeps, SendRestKeeps, StopKeeps, WriteReplyKeeps
<1>4. QED
  BY <1>1, <1>2, <1>3 DEF Next

-----------------------------------------------------------------------------
(* Replies that are right one by one are the beginning of the conversation.    *)
LEMMA ConversationIs ==
    ASSUME NEW c, NEW S, NEW s \in Seq(S)
    PROVE  \E m \in 0 .. Len(s) :
             /\ Conversation(c, s) = [i \in 1 .. m |-> Reply(c, s[i])]
             /\ \A i \in 1 .. Len(s) :
                   /\ \A j \in 1 .. i : Reply(c, s[j]) # None
                   /\ \A j \in 1 .. (i - 1) : ~Final(c, s[j])
                   <=> i <= m
<1> DEFINE Heeded(i) == /\ \A j \in 1 .. i : Reply(c, s[j]) # None
                      /\ \A j \in 1 .. (i - 1) : ~Final(c, s[j])
           A == {i \in DOMAIN s : Heeded(i)}
           l == Len(s)
           B == {i \in Nat : i + 1 > l \/ i + 1 \notin A}
<1>1. l \in Nat /\ DOMAIN s = 1 .. l
  OBVIOUS
<1>2. PICK m \in B : \A i \in B : m <= i
  <2>1. l \in B
    BY <1>1
  <2>2. B \in SUBSET Nat /\ B # {}
    BY <2>1
  <2> HIDE DEF B
  <2>3. QED
    BY <2>2, LeastNat
<1>3. m \in Nat /\ m <= l
  <2>1. l \in B
    BY <1>1
  <2> HIDE DEF l
  <2>2. QED
    BY <1>2, <2>1
<1>4. A = 1 .. m
  <2>1. ASSUME NEW i \in 1 .. m PROVE i \in A
    <3>1. i - 1 \in Nat /\ ~(m <= i - 1) /\ (i - 1) + 1 = i
      BY <1>3
    <3>2. i - 1 \notin B
      BY <1>2, <3>1
    <3> HIDE DEF A, l
    <3>3. QED
      BY <3>1, <3>2
  <2>2. ASSUME NEW i \in A, i \notin 1 .. m PROVE FALSE
    <3>1. i \in 1 .. l /\ m + 1 <= i
      BY <1>1, <1>3, <2>2
    <3>2. m + 1 \in 1 .. l /\ m + 1 \notin A
      <4>1. m + 1 \in 1 .. l
        BY <1>1, <1>3, <3>1
      <4> HIDE DEF A, l
      <4>2. QED
        BY <1>1, <1>2, <4>1
    <3>3. Heeded(i)
      OBVIOUS
    <3>4. Heeded(m + 1)
      <4>1. \A j \in 1 .. (m + 1) : j \in 1 .. i
        BY <1>3, <3>1
      <4>2. \A j \in 1 .. ((m + 1) - 1) : j \in 1 .. (i - 1)
        BY <1>3, <3>1
      <4>3. QED
        BY <3>3, <4>1, <4>2
    <3> HIDE DEF Heeded
    <3>5. QED
      BY <1>1, <3>2, <3>4
  <2> HIDE DEF A
  <2>3. QED
    BY <2>1, <2>2
<1>5. Conversation(c, s) = [i \in A |-> Reply(c, s[i])]
  BY DEF Conversation, Final
<1>6. \A i \in 1 .. l : Heeded(i) <=> i <= m
  <2> HIDE DEF Heeded, l
  <2>1. QED
    BY <1>1, <1>3, <1>4
<1>7. QED
  BY <1>3, <1>4, <1>5, <1>6

LEMMA RightIsPrefix ==
    ASSUME NEW c, NEW S, NEW s \in Seq(S), NEW T, NEW g \in Seq(T), Len(g) <= Len(s),
           \A i \in 1 .. Len(g) : g[i] = Reply(c, s[i]) /\ Reply(c, s[i]) # None,
           \A i \in 1 .. (Len(g) - 1) : ~Final(c, s[i])
    PROVE  IsPrefix(g, Conversation(c, s))
<1>1. PICK m \in 0 .. Len(s) :
        /\ Conversation(c, s) = [i \in 1 .. m |-> Reply(c, s[i])]
        /\ \A i \in 1 .. Len(s) :
              /\ \A j \in 1 .. i : Reply(c, s[j]) # None
              /\ \A j \in 1 .. (i - 1) : ~Final(c, s[j])
              <=> i <= m
  BY ConversationIs
<1>2. PICK n \in Nat : n = Len(g)
  OBVIOUS
<1>3. Len(s) \in Nat /\ m \in Nat
  OBVIOUS
<1>4. n <= m
  <2>1. CASE n = 0
    BY <1>3, <2>1
  <2>2. CASE n # 0
    <3>1. n \in 1 .. Len(s)
      BY <1>2, <1>3, <2>2
    <3>2. (\A j \in 1 .. n : Reply(c, s[j]) # None) /\ \A j \in 1 .. (n - 1) : ~Final(c, s[j])
      BY <1>2
    <3>3. QED
      BY <1>1, <3>1, <3>2
  <2>3. QED
    BY <2>1, <2>2
<1> DEFINE v == [i \in 1 .. m |-> Reply(c, s[i])]
<1>5. Len(v) = m
  BY <1>3
<1>6. SubSeq(g, 1, n) = [i \in 1 .. n |-> g[i]]
  BY <1>2
<1>7. SubSeq(v, 1, n) = [i \in 1 .. n |-> v[i]]
  <2>1. n \in 1 .. m \/ n = 0
    BY <1>3, <1>4
  <2>2. QED
    BY <1>3, <1>4, <2>1
<1>8. \A i \in 1 .. n : v[i] = g[i]
  <2>1. \A i \in 1 .. n : i \in 1 .. m
    BY <1>3, <1>4
  <2>2. QED
    BY <1>2, <2>1
<1> HIDE DEF v
<1>9. SubSeq(g, 1, n) = SubSeq(v, 1, n)
  BY <1>6, <1>7, <1>8
<1>10. QED
  BY <1>1, <1>2, <1>4, <1>5, <1>9 DEF IsPrefix, v

LEMMA FrontFacts ==
    ASSUME NEW S, NEW s \in Seq(S), NEW n \in Nat, Len(s) = n + 1
    PROVE  /\ Front(s) \in Seq(S) /\ Len(Front(s)) = n
           /\ \A i \in 1 .. n : Front(s)[i] = s[i]
<1>1. Len(s) - 1 = n
  OBVIOUS
<1>2. Front(s) = SubSeq(s, 1, n)
  BY <1>1 DEF Front
<1>3. SubSeq(s, 1, n) = [i \in 1 .. n |-> s[i]]
  OBVIOUS
<1>4. \A i \in 1 .. n : s[i] \in S
  OBVIOUS
<1> DEFINE f == [i \in 1 .. n |-> s[i]]
<1>5. f \in [1 .. n -> S]
  BY <1>4
<1>6. f \in Seq(S) /\ Len(f) = n
  BY <1>5
<1>7. QED
  BY <1>2, <1>3, <1>6

LEMMA StageAnswers ==
    ASSUME WireTypes, NEW CONSTANT c \in Clients, AtStage(c)
    PROVE  \/ IsPrefix(got[c], Conversation(c, sent[c]))
           \/ /\ end[c] # "open" /\ IsPrefix(Front(got[c]), Conversation(c, Whole(c)))
              /\ half[c] \/ sent[c] = << >>
<1>1. sent[c] \in Seq(Asked) /\ got[c] \in Seq(Told) /\ Len(sent[c]) \in Nat
      /\ (half[c] => Len(sent[c]) > 0) /\ (sent[c] = << >> <=> Len(sent[c]) = 0)
  BY EntryFacts
<1>2. PICK m \in Nat : m = Len(got[c])
  BY EntryFacts
<1>3. CASE Right(c, Len(got[c]))
  <2> DEFINE s == sent[c]
             g == got[c]
  <2>1. /\ s \in Seq(Asked) /\ g \in Seq(Told) /\ Len(g) <= Len(s)
        /\ \A i \in 1 .. Len(g) : g[i] = Reply(c, s[i]) /\ Reply(c, s[i]) # None
        /\ \A i \in 1 .. (Len(g) - 1) : ~Final(c, s[i])
    BY <1>1, <1>3 DEF Right
  <2> HIDE DEF s, g
  <2>2. IsPrefix(g, Conversation(c, s))
    BY <2>1, RightIsPrefix
  <2>3. QED
    BY <2>2 DEF s, g
<1>4. CASE m > 0 /\ Severed(c, Len(got[c])) /\ Right(c, Len(got[c]) - 1)
  <2>1. PICK k \in Nat : k = m - 1 /\ k + 1 = m
    BY <1>4
  <2> DEFINE s == Whole(c)
             g == Front(got[c])
  <2>2. /\ g \in Seq(Told) /\ Len(g) = k /\ \A i \in 1 .. k : g[i] = got[c][i]
    <3>1. got[c] \in Seq(Told) /\ Len(got[c]) = k + 1
      BY <1>1, <1>2, <2>1
    <3>2. QED
      BY <2>1, <3>1, FrontFacts
  <2>3. Right(c, k) /\ end[c] # "open"
    BY <1>2, <1>4, <2>1 DEF Severed
  <2>4. \/ half[c] /\ Len(sent[c]) = k + 1
        \/ sent[c] = << >> /\ k = 0
    BY <1>2, <1>4, <2>1 DEF Severed
  <2>5. /\ s \in Seq(Asked) /\ k <= Len(s) /\ \A i \in 1 .. k : s[i] = sent[c][i]
    <3>1. CASE half[c]
      <4>1. s = Front(sent[c])
        BY <3>1 DEF Whole
      <4>2. sent[c] \in Seq(Asked) /\ Len(sent[c]) = k + 1
        BY <1>1, <2>4, <3>1
      <4>3. PICK q \in Seq(Asked) : q = sent[c]
        BY <1>1
      <4> HIDE DEF s, g
      <4>4. k \in Nat /\ Len(q) = k + 1
        BY <2>1, <4>2, <4>3
      <4>5. /\ Front(q) \in Seq(Asked) /\ Len(Front(q)) = k
            /\ \A i \in 1 .. k : Front(q)[i] = q[i]
        BY <4>4, FrontFacts
      <4>6. QED
        BY <2>1, <4>1, <4>3, <4>5
    <3>2. CASE ~half[c]
      <4>1. s = sent[c] /\ sent[c] = << >> /\ k = 0
        BY <2>4, <3>2 DEF Whole
      <4>2. QED
        BY <1>1, <4>1
    <3>3. QED
      BY <3>1, <3>2
  <2>6. /\ \A i \in 1 .. Len(g) : g[i] = Reply(c, s[i]) /\ Reply(c, s[i]) # None
        /\ \A i \in 1 .. (Len(g) - 1) : ~Final(c, s[i])
    <3>1. \A i \in 1 .. (k - 1) : i \in 1 .. k
      BY <2>1
    <3> HIDE DEF s, g
    <3>2. QED
      BY <2>2, <2>3, <2>5, <3>1 DEF Right
  <2> HIDE DEF s, g
  <2>7. IsPrefix(g, Conversation(c, s))
    BY <2>2, <2>5, <2>6, RightIsPrefix
  <2>8. half[c] \/ sent[c] = << >>
    BY <2>4
  <2>9. QED
    BY <2>3, <2>7, <2>8 DEF s, g
<1>5. QED
  BY <1>2, <1>3, <1>4 DEF AtStage, Waiting, Halfway, CutShort, Answering, Over, GoesOn

-----------------------------------------------------------------------------
(* What a thread that leaves a client has done for it: all it sent is answered,*)
(* or all up to the reply that is the last, or up to a request that gets none. *)
Finished(c) ==
    LET m == Len(got[c]) IN
    /\ Right(c, m)
    /\ \/ m = Len(sent[c])
       \/ m > 0 /\ Final(c, sent[c][m])
       \/ m < Len(sent[c]) /\ Reply(c, sent[c][m + 1]) = None

HonestInv == \A c \in Honest : end[c] = "open" /\ (thread[c] = "done" => Finished(c))

LEMMA FinishedStays ==
    ASSUME NEW CONSTANT c, UNCHANGED <<proto[c], sent[c], got[c]>>, Finished(c)
    PROVE  Finished(c)'
<1>1. PICK m : m = Len(got[c]) /\ m = Len(got'[c])
  OBVIOUS
<1>2. /\ Right(c, m)
      /\ \/ m = Len(sent[c])
         \/ m > 0 /\ Final(c, sent[c][m])
         \/ m < Len(sent[c]) /\ Reply(c, sent[c][m + 1]) = None
  BY <1>1 DEF Finished
<1>3. Right(c, m)'
  BY <1>2 DEF Right, Reply, Final
<1>4. \/ m = Len(sent'[c])
      \/ m > 0 /\ Final(c, sent[c][m])'
      \/ m < Len(sent'[c]) /\ Reply(c, sent[c][m + 1])' = None
  BY <1>2 DEF Reply, Final
<1>5. QED
  BY <1>1, <1>3, <1>4 DEF Finished, Right, Reply, Final

(* With an open end no request is cut short.                                   *)
LEMMA OpenAnswering ==
    ASSUME NEW c, AtStage(c), end[c] = "open", thread[c] \in {"parse", "lock", "locked", "writing"}
    PROVE  /\ GoesOn(c) /\ Len(got[c]) + 1 <= Len(sent[c])
           /\ frame[c] = sent[c][Len(got[c]) + 1]
  BY DEF AtStage, Waiting, Halfway, CutShort, Answering, Over, Severed

(* A client that behaves is left in the middle of nothing.                     *)
LEMMA NothingLeft ==
    ASSUME WireTypes, NEW CONSTANT c \in Clients, Waiting(c), wire[c] = << >>, ~half[c]
    PROVE  Len(got[c]) = Len(sent[c])
<1> DEFINE m == Len(got[c])
           l == Len(sent[c])
           v == Written(c)
           t == Taken(c)
<1>1. m \in Nat /\ l \in Nat /\ v = 2 * l /\ t = v - 0 /\ t = 2 * m
  BY EntryFacts DEF Waiting
<1> HIDE DEF m, l, v, t
<1>2. m = l
  BY <1>1
<1>3. QED
  BY <1>2 DEF m, l

LEMMA TimeoutHeard ==
    ASSUME WireInv, NEW CONSTANT c \in Honest, Timeout(c), thread'[c] = "done"
    PROVE  Finished(c)'
<1>1. /\ WireTypes /\ c \in Clients /\ AtStage(c) /\ thread[c] = "reading"
      /\ wire[c] = << >> /\ end[c] = "open" /\ ~half[c]
  BY WireAssumption DEF Timeout, TimesOut, Unread, WireInv, ClientInv
<1>2. Waiting(c)
  BY <1>1, HalfwayFacts DEF AtStage, CutShort, Answering, Over, Severed
<1>3. Len(got[c]) = Len(sent[c])
  BY <1>1, <1>2, NothingLeft
<1>4. Finished(c)
  BY <1>2, <1>3 DEF Finished, Waiting, GoesOn
<1>5. UNCHANGED <<proto[c], sent[c], got[c]>>
  BY DEF Timeout, End, clientVars
<1>6. QED
  BY <1>4, <1>5, FinishedStays

LEMMA ParseHeard ==
    ASSUME WireInv, NEW CONSTANT c \in Clients, end[c] = "open", Parse(c), thread'[c] = "done"
    PROVE  Finished(c)'
<1>1. WireTypes /\ AtStage(c) /\ thread[c] = "parse"
  BY DEF Parse, WireInv, ClientInv
<1>2. PICK m \in Nat : m = Len(got[c])
  BY <1>1, EntryFacts
<1>3. Right(c, m) /\ m + 1 <= Len(sent[c]) /\ frame[c] = sent[c][m + 1]
  BY <1>1, <1>2, OpenAnswering DEF GoesOn
<1>4. Reply(c, frame[c]) = None
  <2>1. ASSUME Reply(c, frame[c]) # None PROVE thread'[c] \in {"lock", "writing"}
    BY <1>1, <2>1 DEF Parse, WireTypes
  <2>2. QED
    BY <2>1
<1>5. m < Len(sent[c])
  <2>1. PICK l \in Nat : l = Len(sent[c])
    BY <1>1, EntryFacts
  <2>2. QED
    BY <1>3, <2>1
<1>6. Finished(c)
  BY <1>2, <1>3, <1>4, <1>5 DEF Finished
<1>7. UNCHANGED <<proto[c], sent[c], got[c]>>
  BY <1>4 DEF Parse, End, clientVars
<1>8. QED
  BY <1>6, <1>7, FinishedStays

LEMMA WriteReplyHeard ==
    ASSUME WireInv, NEW CONSTANT c \in Clients, end[c] = "open", WriteReply(c), thread'[c] = "done"
    PROVE  Finished(c)'
<1>1. WireTypes /\ AtStage(c) /\ thread[c] = "writing"
  BY DEF WriteReply, WireInv, ClientInv
<1>2. PICK m \in Nat : m = Len(got[c])
  BY <1>1, EntryFacts
<1>3. GoesOn(c) /\ m + 1 <= Len(sent[c]) /\ frame[c] = sent[c][m + 1]
  BY <1>1, <1>2, OpenAnswering
<1>4. LastReply(c)
  BY <1>1 DEF WriteReply, WireTypes
<1>5. WireInv' /\ UNCHANGED <<proto, sent, end>>
  BY WriteReplyKeeps DEF WriteReply, clientVars
<1>6. Len(got'[c]) = m + 1
  <2>1. got[c] \in Seq(Told) /\ answer[c] \in Told
    <3>1. Answering(c)
      BY <1>1 DEF AtStage, Waiting, Halfway, CutShort, Answering, Over
    <3>2. QED
      BY <1>1, <3>1 DEF WireTypes, Answering
  <2>2. got'[c] = Append(got[c], answer[c])
    BY <1>1 DEF WriteReply, WireTypes
  <2>3. QED
    BY <1>2, <2>1, <2>2, AppendedTo
<1>7. Right(c, m + 1)'
  <2>1. AtStage(c)' /\ end'[c] = "open"
    BY <1>5 DEF WireInv, ClientInv
  <2>2. Over(c)'
    BY <2>1 DEF AtStage, Waiting, Halfway, CutShort, Answering
  <2>3. Right(c, Len(got[c]))'
    BY <2>1, <2>2 DEF Over, Severed
  <2>4. QED
    BY <1>6, <2>3 DEF Right
<1>8. Final(c, sent[c][m + 1])'
  BY <1>3, <1>4, <1>5 DEF LastReply, Final
<1>9. Len(got'[c]) > 0
  BY <1>2, <1>6
<1>10. QED
  BY <1>6, <1>7, <1>8, <1>9 DEF Finished, Right, Final

(* A step of another client or its thread.                                     *)
LEMMA OthersStep ==
    ASSUME WireTypes, NEW CONSTANT c \in Clients, NEW CONSTANT d \in Clients, d # c,
           \/ Connect(d) \/ SendPart(d) \/ SendRest(d) \/ Drip(d) \/ Stop(d)
           \/ Accept(d) \/ Serve(d) \/ WriteReply(d)
    PROVE  UNCHANGED <<proto[c], sent[c], got[c], end[c], thread[c]>>
<1> USE DEF WireTypes, clientVars
<1>1. CASE Connect(d) \/ Accept(d)
  BY <1>1 DEF Connect, Accept
<1>2. CASE SendPart(d) \/ SendRest(d)
  BY <1>2 DEF SendPart, SendRest
<1>3. CASE Stop(d)
  BY <1>3 DEF Stop
<1>4. CASE Read(d) \/ ReadMore(d) \/ Drip(d)
  BY <1>4 DEF Read, ReadMore, Drip
<1>5. CASE ReadEnd(d)
  BY <1>5 DEF ReadEnd, End
<1>6. CASE Timeout(d)
  BY <1>6 DEF Timeout, End
<1>7. CASE Parse(d)
  BY <1>7 DEF Parse, End
<1>8. CASE Lock(d) \/ Unlock(d)
  BY <1>8 DEF Lock, Unlock
<1>9. CASE WriteFails(d)
  BY <1>9 DEF WriteFails, End
<1>10. CASE WriteReply(d)
  BY <1>10 DEF WriteReply
<1>11. QED
  BY <1>1, <1>2, <1>3, <1>4, <1>5, <1>6, <1>7, <1>8, <1>9, <1>10 DEF Serve

LEMMA HonestKeeps == WireInv /\ HonestInv /\ [Next]_vars => HonestInv'
<1> SUFFICES ASSUME WireInv, HonestInv, [Next]_vars, NEW CONSTANT c \in Honest
             PROVE  end'[c] = "open" /\ (thread'[c] = "done" => Finished(c)')
  BY DEF HonestInv
<1>1. c \in Clients /\ WireTypes /\ end[c] = "open" /\ (thread[c] = "done" => Finished(c))
  BY WireAssumption DEF WireInv, HonestInv
<1>2. ASSUME UNCHANGED <<proto[c], sent[c], got[c], end[c], thread[c]>>
      PROVE  end'[c] = "open" /\ (thread'[c] = "done" => Finished(c)')
  BY <1>1, <1>2, FinishedStays
<1>3. CASE UNCHANGED vars \/ ReadMore(c)
  BY <1>2, <1>3 DEF vars, clientVars, ReadMore
<1>4. ASSUME NEW CONSTANT d \in Clients, d # c,
             \/ Connect(d) \/ SendPart(d) \/ SendRest(d) \/ Drip(d) \/ Stop(d)
             \/ Accept(d) \/ Serve(d) \/ WriteReply(d)
      PROVE  end'[c] = "open" /\ (thread'[c] = "done" => Finished(c)')
  BY <1>1, <1>2, <1>4, OthersStep
<1>5. CASE Connect(c) \/ Accept(c)
  <2>1. end'[c] = "open" /\ thread'[c] # "done"
    BY <1>1, <1>5 DEF Connect, Accept, WireTypes, clientVars
  <2>2. QED
    BY <2>1
<1>6. CASE SendPart(c) \/ SendRest(c)
  <2>1. end'[c] = "open" /\ thread'[c] # "done"
    BY <1>1, <1>6 DEF SendPart, SendRest, Talking
  <2>2. QED
    BY <2>1
<1>7. CASE Read(c)
  <2>1. end'[c] = "open" /\ thread'[c] # "done"
    BY <1>1, <1>7 DEF Read, WireTypes, clientVars
  <2>2. QED
    BY <2>1
<1>8. CASE Timeout(c)
  <2>1. end'[c] = "open"
    BY <1>1, <1>8 DEF Timeout, End, clientVars
  <2>2. QED
    BY <1>8, <2>1, TimeoutHeard
<1>9. CASE Parse(c)
  <2>1. end'[c] = "open"
    BY <1>1, <1>9 DEF Parse, End, clientVars
  <2>2. QED
    BY <1>1, <1>9, <2>1, ParseHeard
<1>10. CASE Lock(c) \/ Unlock(c)
  <2>1. end'[c] = "open" /\ thread'[c] # "done"
    BY <1>1, <1>10 DEF Lock, Unlock, WireTypes, clientVars
  <2>2. QED
    BY <2>1
<1>11. CASE WriteReply(c)
  <2>1. end'[c] = "open"
    BY <1>1, <1>11 DEF WriteReply, clientVars
  <2>2. QED
    BY <1>1, <1>11, <2>1, WriteReplyHeard
<1>12. ~Drip(c) /\ ~Stop(c) /\ ~ReadEnd(c) /\ ~WriteFails(c)
  BY <1>1 DEF Drip, Stop, ReadEnd, WriteFails, WriteTimesOut
<1>13. QED
  BY <1>3, <1>4, <1>5, <1>6, <1>7, <1>8, <1>9, <1>10, <1>11, <1>12 DEF Next, Serve

LEMMA FinishedAnswers ==
    ASSUME WireTypes, NEW CONSTANT c \in Clients, Finished(c)
    PROVE  got[c] = Conversation(c, sent[c])
<1>1. PICK s \in Seq(Asked) : s = sent[c]
  BY DEF WireTypes
<1>2. PICK m \in Nat : m = Len(got[c])
  BY EntryFacts
<1>3. PICK l \in Nat : l = Len(s)
  OBVIOUS
<1>4. PICK k \in 0 .. l :
        /\ Conversation(c, s) = [i \in 1 .. k |-> Reply(c, s[i])]
        /\ \A i \in 1 .. l :
              /\ \A j \in 1 .. i : Reply(c, s[j]) # None
              /\ \A j \in 1 .. (i - 1) : ~Final(c, s[j])
              <=> i <= k
  BY <1>3, ConversationIs
<1>5. /\ m <= l
      /\ \A i \in 1 .. m : got[c][i] = Reply(c, s[i]) /\ Reply(c, s[i]) # None
      /\ \A i \in 1 .. (m - 1) : ~Final(c, s[i])
      /\ m = l \/ (m > 0 /\ Final(c, s[m])) \/ (m < l /\ Reply(c, s[m + 1]) = None)
  BY <1>1, <1>2, <1>3 DEF Finished, Right
<1>6. m <= k
  <2>1. CASE m = 0
    BY <2>1
  <2>2. CASE m # 0
    <3>1. m \in 1 .. l
      BY <1>5, <2>2
    <3>2. QED
      BY <1>4, <1>5, <3>1
  <2>3. QED
    BY <2>1, <2>2
<1>7. ~(m < k)
  <2> SUFFICES ASSUME m < k PROVE FALSE
    OBVIOUS
  <2>1. m + 1 \in 1 .. l /\ m + 1 <= k /\ m # l /\ (m + 1) - 1 = m
    OBVIOUS
  <2>2. /\ \A j \in 1 .. (m + 1) : Reply(c, s[j]) # None
        /\ \A j \in 1 .. m : ~Final(c, s[j])
    BY <1>4, <2>1
  <2>3. CASE m > 0 /\ Final(c, s[m])
    <3>1. m \in 1 .. m
      BY <2>3
    <3>2. QED
      BY <2>2, <2>3, <3>1
  <2>4. CASE Reply(c, s[m + 1]) = None
    <3>1. m + 1 \in 1 .. (m + 1)
      OBVIOUS
    <3>2. QED
      BY <2>2, <2>4, <3>1
  <2>5. QED
    BY <1>5, <2>1, <2>3, <2>4
<1>8. k = m
  BY <1>6, <1>7
<1>9. got[c] = [i \in 1 .. m |-> got[c][i]]
  <2>1. PICK g \in Seq(Told) : g = got[c]
    BY DEF WireTypes
  <2>2. g = [i \in 1 .. Len(g) |-> g[i]]
    OBVIOUS
  <2>3. QED
    BY <1>2, <2>1, <2>2
<1>10. QED
  BY <1>1, <1>4, <1>5, <1>8, <1>9

(* The replies a client gets answer its requests in their order, one each, in  *)
(* whatever pieces they came and however many were sent ahead; only the reply  *)
(* to a request its client cut short may be about less.  A client that behaves *)
(* is left only when all it has sent is answered, up to the end of its         *)
(* conversation: no pause, piece that comes late or other client cuts it off.  *)
THEOREM RepliesAreInOrder == Spec => []AnsweredInOrder
<1>1. Init => WireInv /\ HonestInv
  <2> SUFFICES ASSUME Init PROVE WireInv /\ HonestInv
    OBVIOUS
  <2>1. HonestInv
    BY WireAssumption DEF Init, HonestInv
  <2>2. QED
    BY <2>1, WireBegins
<1>2. WireInv /\ HonestInv /\ [Next]_vars => WireInv' /\ HonestInv'
  BY WireKeeps, HonestKeeps
<1>3. WireInv /\ HonestInv => AnsweredInOrder
  <2> SUFFICES ASSUME WireInv, HonestInv PROVE AnsweredInOrder
    OBVIOUS
  <2>1. \A c \in Clients :
           \/ IsPrefix(got[c], Conversation(c, sent[c]))
           \/ /\ end[c] # "open" /\ IsPrefix(Front(got[c]), Conversation(c, Whole(c)))
              /\ half[c] \/ sent[c] = << >>
    BY StageAnswers DEF WireInv, ClientInv
  <2>2. ASSUME NEW CONSTANT c \in Honest, thread[c] = "done"
        PROVE  got[c] = Conversation(c, sent[c])
    BY <2>2, FinishedAnswers, WireAssumption DEF WireInv, HonestInv
  <2>3. QED
    BY <2>1, <2>2 DEF AnsweredInOrder
<1>4. QED
  BY <1>1, <1>2, <1>3, PTL DEF Spec
===============================================================================
