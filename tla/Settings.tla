------------------------------- MODULE Settings -------------------------------
(* How a setting gets its value (config.rs, stallwatchd.rs main): two files    *)
(* are read line by line, lowest precedence first, then the environment, then  *)
(* for the daemon the command line.  A malformed file refuses to start.        *)
(*                                                                             *)
(* A value is [kind, v]: `v` is the number, 0 or 1 for a boolean, and the name *)
(* of the text for a string or a list.  Which strings are filters that parse   *)
(* is GoodFilters.  An absent or unparsable text is {}, a value v is {v}.      *)
EXTENDS Integers, Sequences, SequencesExt, FiniteSetsExt

CONSTANTS
    Lines,        \* the lines a file may hold, comments and blanks removed
    GoodFilters,  \* the texts `Filter::parse` accepts
    EnvTexts,     \* what a STALLWATCH_* variable may hold, as a u64
    FlagTexts,    \* what may follow a flag, as a u64
    Unbounded,    \* above every number offered
    MaxLines,     \* bound on the lines of all files together
    MaxFlags      \* bound on the occurrences of one flag

ASSUME SettingsAssumption ==
    /\ \A l \in Lines : l.kind = "key" =>
          /\ l.val = [kind |-> l.val.kind, v |-> l.val.v]
          /\ l.val.kind = "int" => l.val.v \in Int /\ l.val.v <= Unbounded
    /\ \A t \in EnvTexts \union FlagTexts : t = {} \/ \E v \in 0 .. Unbounded : t = {v}
    /\ Unbounded \in Nat /\ Unbounded >= 5000
    /\ MaxFlags \in Nat

Paths == <<"etc", "home">>

Section(t, kind, default, lo, hi) ==
    [table |-> t, kind |-> kind, default |-> default, lo |-> lo, hi |-> hi]

(* Config::default and the range each table entry is forced into.             *)
Schema == [threshold_ms  |-> Section("capture", "int", 50, 1, Unbounded),
           capture_ms    |-> Section("capture", "int", 400, 50, Unbounded),
           history_secs  |-> Section("capture", "int", 300, 10, Unbounded),
           resources     |-> Section("capture", "arr", 7, 0, Unbounded),
           enabled       |-> Section("notify", "bool", 1, 0, 1),
           min_peak      |-> Section("notify", "int", 70, 0, 100),
           cooldown_secs |-> Section("notify", "int", 300, 0, Unbounded)]
Settings == DOMAIN Schema

FromEnv == {"threshold_ms", "capture_ms", "history_secs"}
DaemonMax == [threshold_ms |-> 900, capture_ms |-> 5000, history_secs |-> Unbounded]
Tables == {"capture", "notify"}
NoTable == "none"

The(S) == CHOOSE x \in S : TRUE
Clamp(v, lo, hi) == IF v < lo THEN lo ELSE IF v > hi THEN hi ELSE v
Clamped(s, v) == Clamp(v, Schema[s].lo, Schema[s].hi)

VARIABLES
    phase,    \* "open" a file, "read" it, "env", "config" | "refused", "running", "explained"
    path,     \* the file of the search path being read
    current,  \* the table lines go to: one of Tables, "rule" or NoTable
    doc,      \* what parse_toml has so far: [tables, rules]
    cfg,      \* [value, origin] of each setting
    rules,    \* the rules pushed
    active,   \* the values the daemon runs with

    lines,    \* the model's: how many lines were read
    stated,   \* the model's: what each layer said of each setting, in order
    written   \* the model's: the `when` values of each [[rule]] block, in order

settingsVars == <<phase, path, current, doc, cfg, rules, active, lines, stated, written>>

EmptyTable == [k \in {} |-> 0]
EmptyDoc == [tables |-> [t \in Tables |-> EmptyTable], rules |-> << >>]
With(t, k, v) == [x \in DOMAIN t \union {k} |-> IF x = k THEN v ELSE t[x]]

SettingsInit ==
    /\ phase = "open" /\ path = 1
    /\ current = NoTable /\ doc = EmptyDoc
    /\ cfg = [s \in Settings |-> [value |-> Schema[s].default, origin |-> "default"]]
    /\ rules = << >> /\ active = [s \in FromEnv |-> 0]
    /\ lines = 0 /\ stated = [s \in Settings |-> << >>] /\ written = << >>

NextPhase(p) == IF p = Len(Paths) THEN "env" ELSE "open"

(* The file can be read as text.                                               *)
OpenFile ==
    /\ phase = "open"
    /\ phase' = "read" /\ current' = NoTable /\ doc' = EmptyDoc
    /\ UNCHANGED <<path, cfg, rules, active, lines, stated, written>>

(* It is missing, not readable or not UTF-8; or, for the second path, neither  *)
(* XDG_CONFIG_HOME nor HOME is set.                                            *)
SkipFile ==
    /\ phase = "open"
    /\ phase' = NextPhase(path) /\ path' = path + 1
    /\ UNCHANGED <<current, doc, cfg, rules, active, lines, stated, written>>

Refuse ==
    /\ phase' = "refused"
    /\ UNCHANGED <<path, current, doc, cfg, rules, active, stated, written>>

NextLine(l) == phase = "read" /\ lines < MaxLines /\ l \in Lines /\ lines' = lines + 1

OpenRule ==
    /\ NextLine([kind |-> "rule"])
    /\ doc' = [doc EXCEPT !.rules = Append(@, EmptyTable)]
    /\ current' = "rule"
    /\ written' = Append(written, << >>)
    /\ UNCHANGED <<phase, path, cfg, rules, active, stated>>

(* A table opened twice goes on where it was.                                  *)
OpenTable(t) ==
    /\ NextLine([kind |-> "table", name |-> t])
    /\ t \in Tables
    /\ current' = t
    /\ UNCHANGED <<phase, path, doc, cfg, rules, active, stated, written>>

(* A later line of a file replaces an earlier one for the same key.            *)
KeyInTable(k, val) ==
    /\ NextLine([kind |-> "key", key |-> k, val |-> val])
    /\ current \in Tables
    /\ doc' = [doc EXCEPT !.tables[current] = With(@, k, val)]
    /\ stated' = IF k \in Settings /\ Schema[k].table = current
                 THEN [stated EXCEPT ![k] = Append(@, [layer |-> Paths[path], val |-> val])]
                 ELSE stated
    /\ UNCHANGED <<phase, path, current, cfg, rules, active, written>>

KeyInRule(k, val) ==
    /\ NextLine([kind |-> "key", key |-> k, val |-> val])
    /\ current = "rule"
    /\ doc' = [doc EXCEPT !.rules[Len(doc.rules)] = With(@, k, val)]
    /\ written' = IF k = "when" THEN [written EXCEPT ![Len(written)] = Append(@, val)]
                                ELSE written
    /\ UNCHANGED <<phase, path, current, cfg, rules, active, stated>>

(* Not a header, not `key = value`, or a value that is none of the four kinds; *)
(* a table that does not exist; a key before any table.                        *)
BadLine(l) ==
    /\ NextLine(l)
    /\ \/ l.kind = "junk"
       \/ l.kind = "table" /\ l.name \notin Tables
       \/ l.kind = "key" /\ current = NoTable
    /\ Refuse

-----------------------------------------------------------------------------
Entry(t, k, kind) == {t[x] : x \in {y \in DOMAIN t \intersect {k} : t[y].kind = kind}}
Strings(t, k) == {e.v : e \in Entry(t, k, "str")}

(* Mutant: the value without where it came from.                               *)
SetValueOnly(c, s, v, origin) == [c EXCEPT ![s].value = v]

Set(c, s, v, origin) == [c EXCEPT ![s] = [value |-> v, origin |-> origin]]

(* Mutant: what an earlier layer set is kept.                                  *)
FromTablesIfUnset(c) ==
    [s \in Settings |->
        LET said == Entry(doc.tables[Schema[s].table], s, Schema[s].kind) IN
        IF said = {} \/ c[s].origin # "default" THEN c[s]
        ELSE [value |-> Clamped(s, The(said).v), origin |-> Paths[path]]]

(* An entry of the right kind is taken, clamped; any other is passed over.     *)
FromTables(c) ==
    [s \in Settings |->
        LET said == Entry(doc.tables[Schema[s].table], s, Schema[s].kind) IN
        IF said = {} THEN c[s]
        ELSE [value |-> Clamped(s, The(said).v), origin |-> Paths[path]]]

RuleOk(t) == Strings(t, "when") # {} /\ Strings(t, "when") \subseteq GoodFilters

RuleOf(t) == [when |-> The(Strings(t, "when")),
              run |-> Strings(t, "run"), log |-> Strings(t, "log"),
              notify |-> \E e \in Entry(t, "notify", "bool") : e.v = 1]

(* Mutant: the rules of a later file replace those of an earlier one.          *)
PushOverRules(rs) ==
    IF rs = << >> THEN rules ELSE [i \in DOMAIN rs |-> RuleOf(rs[i])]

PushRules(rs) == rules \o [i \in DOMAIN rs |-> RuleOf(rs[i])]

(* The end of the file: apply_toml.                                            *)
ApplyToml ==
    /\ phase = "read"
    /\ \A i \in DOMAIN doc.rules : RuleOk(doc.rules[i])
    /\ cfg' = FromTables(cfg)
    /\ rules' = PushRules(doc.rules)
    /\ phase' = NextPhase(path) /\ path' = path + 1
    /\ UNCHANGED <<current, doc, active, lines, stated, written>>

RefuseRules ==
    /\ phase = "read"
    /\ \E i \in DOMAIN doc.rules : ~RuleOk(doc.rules[i])
    /\ Refuse
    /\ UNCHANGED lines

ValueFromEnv(c, s, text) ==
    IF text = {} THEN c
    ELSE Set(c, s, Clamped(s, The(text)), "env")

State(st, layer, s, text) ==
    IF text = {} THEN st
    ELSE [st EXCEPT ![s] =
             Append(@, [layer |-> layer, val |-> [kind |-> "int", v |-> The(text)]])]

(* One variable may be set; which one is arbitrary.                            *)
ApplyEnv ==
    /\ phase = "env"
    /\ \E s \in FromEnv, text \in EnvTexts :
          /\ cfg' = ValueFromEnv(cfg, s, text)
          /\ stated' = State(stated, "env", s, text)
    /\ phase' = "config"
    /\ UNCHANGED <<path, current, doc, rules, active, lines, written>>

(* `flag(name, default)`: the first occurrence, if what follows parses.        *)
FlagOr(args, default) ==
    IF args # << >> /\ Head(args) # {} THEN The(Head(args)) ELSE default

(* The daemon goes on to its flags, noting the origin of those that occur, and *)
(* runs with what they leave.                                                  *)
StartDaemon ==
    /\ phase = "config"
    /\ \E s \in FromEnv, args \in UNION {[1..n -> FlagTexts] : n \in 0..MaxFlags} :
          /\ cfg' = IF args = << >> THEN cfg ELSE [cfg EXCEPT ![s].origin = "flag"]
          /\ active' = [x \in FromEnv |->
                 Clamp(IF x = s THEN FlagOr(args, cfg[x].value) ELSE cfg[x].value,
                       Schema[x].lo, DaemonMax[x])]
          /\ stated' = IF args = << >> THEN stated
                       ELSE State(stated, "flag", s, Head(args))
    /\ phase' = "running"
    /\ UNCHANGED <<path, current, doc, rules, lines, written>>

(* No PSI on this kernel: the daemon does not start either.                    *)
NoPsi == phase = "config" /\ Refuse /\ UNCHANGED lines

(* `stallwatch config` prints cfg as it is.                                    *)
Explain ==
    /\ phase = "config" /\ phase' = "explained"
    /\ UNCHANGED <<path, current, doc, cfg, rules, active, lines, stated, written>>

SettingsDone == phase \in {"refused", "running", "explained"} /\ UNCHANGED settingsVars

SettingsNext ==
    \/ OpenFile \/ SkipFile \/ OpenRule \/ ApplyToml \/ RefuseRules
    \/ \E t \in Tables : OpenTable(t)
    \/ \E l \in {x \in Lines : x.kind = "key"} :
          KeyInTable(l.key, l.val) \/ KeyInRule(l.key, l.val)
    \/ \E l \in Lines : BadLine(l)
    \/ ApplyEnv \/ StartDaemon \/ NoPsi \/ Explain \/ SettingsDone

-----------------------------------------------------------------------------
(* A file's last word counts only if it is of the right kind: a later line of  *)
(* the wrong kind hides an earlier good one of the same file.                  *)
LastWord(q, layer, kind) ==
    LET said == {i \in DOMAIN q : q[i].layer = layer}
    IN  {q[i].val.v : i \in {j \in said : q[j].val.kind = kind /\ \A k \in said : k <= j}}

Layers == <<"etc", "home", "env", "flag">>
LastOf(s, l) == LastWord(stated[s], Layers[l], Schema[s].kind)

Winner(s) ==
    LET speaks == {l \in 1..4 : LastOf(s, l) # {}}
    IN  IF speaks = {} THEN [value |-> Schema[s].default, origin |-> "default"]
        ELSE [value |-> The(LastOf(s, Max(speaks))), origin |-> Layers[Max(speaks)]]

(* "Later wins" (config.rs:13): the daemon runs with what the most specific    *)
(* layer that says anything of the setting says, whatever the others hold; and *)
(* with the default when none does.                                            *)
MostSpecificWins ==
    phase = "running" =>
        \A s \in FromEnv : active[s] = Clamp(Winner(s).value, Schema[s].lo, DaemonMax[s])

(* "Every resolved value remembers where it came from" (config.rs:16): what    *)
(* `stallwatch config` prints as a setting's source is the layer whose value   *)
(* it prints.                                                                  *)
ExplainTruthful ==
    phase = "explained" =>
        \A s \in Settings :
            cfg[s] = [value |-> Clamped(s, Winner(s).value), origin |-> Winner(s).origin]

(* "Silently dropping a rule someone wrote is worse than refusing to start"    *)
(* (config.rs:46): a program that got past its files has every [[rule]] block  *)
(* of every file it read, in order, each with the last filter written in it.   *)
NoRuleDropped ==
    phase \in {"config", "running", "explained"} =>
        /\ Len(rules) = Len(written)
        /\ \A i \in DOMAIN rules :
              /\ Last(written[i]) = [kind |-> "str", v |-> rules[i].when]
              /\ rules[i].when \in GoodFilters
=============================================================================
