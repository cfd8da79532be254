------------------------------- MODULE MCHunt --------------------------------
(***************************************************************************)
(* Sequence hunts and what analysts write, each part on its own: the       *)
(* parser of hunt queries, the promotion of a hunt to a rule, imported     *)
(* Sigma rules and YARA rules.                                             *)
(***************************************************************************)
EXTENDS Naturals, Sequences, TLC

VARIABLES
    part,
    events, open, done,                 \* a sequence hunt
    tokens,                             \* the query parsed
    query,                              \* the hunt promoted to a rule
    doc, bundle, files                  \* Sigma files

chainVars == <<events, open, done>>
importVars == <<doc, bundle, files>>
vars == <<part, chainVars, tokens, query, importVars>>

-----------------------------------------------------------------------------
(* Three stages over four events; one event may fit several stages.        *)
SequenceKinds ==
    [group : {"web"}, stages : {{1}, {2}, {3}, {1, 2}, {2, 3}, {1, 2, 3}}]
    \cup [group : {"db", ""}, stages : {{1, 2, 3}}]

Chain == INSTANCE HuntSequence WITH Groups <- {"web", "db"}, Kinds <- SequenceKinds,
             NumStages <- 3, Within <- 1, Gaps <- 0..1, MaxEvents <- 4

-----------------------------------------------------------------------------
(* Every token on its own, in short queries; and longer ones out of whole  *)
(* comparisons, for the precedences.                                       *)
Words ==
    {"exec", "name", "where", "and", "or", "not", "in", "contains", "limit",
     "sequence", "by", "within", "|", "(", ")", ",", ":", ";", "==", "=~",
     "'x'", "'['", "5", "5.5", "5.5.5", "5m", "1d"}

Phrases ==
    {<<"any", "where">>, <<"name", "==", "'x'">>, <<"and">>, <<"or">>, <<"not">>,
     <<"(">>, <<")">>, <<"|", "where">>, <<"sequence", ":">>, <<";", "any">>}

Short == INSTANCE Arql WITH Phrases <- {<<w>> : w \in Words},
             Slack <- 1, MaxTokens <- 4
Long == INSTANCE Arql WITH Slack <- 1, MaxTokens <- 13

-----------------------------------------------------------------------------
(* A string field and an int field that may be absent, and a bool field.   *)
Word(n) == [form |-> "word", val |-> n]
Raw(kind, num, text) == [kind |-> kind, num |-> num, text |-> text]
Absent == Raw("absent", 0, Word(0))
String(text) == Raw("string", 0, text)
Port(n) == Raw("int64", n, Word(0))

ClassText(class) == IF class = "exec" THEN Word(1) ELSE Word(2)

RuleEvents ==
    {("event.type" :> String(ClassText(class)) @@ "name" :> name @@ "port" :> port
      @@ "socket" :> Raw("bool", socket, Word(0))) :
        class \in {"exec", "dns"},
        name \in {Absent, String(Word(3)), String(Word(4))},
        port \in {Absent, Port(80), Port(81)}, socket \in {0, 1}}

Quoted(text) == [isNum |-> FALSE, half |-> 0, str |-> text]
Number(half) == [isNum |-> TRUE, half |-> half, str |-> [form |-> "plain", val |-> half]]
Compare(field, rel, values) == [op |-> "cmp", field |-> field, rel |-> rel, values |-> values]

RuleLeaves ==
    {Compare("name", "==", <<Quoted(Word(3))>>), Compare("name", "!=", <<Quoted(Word(3))>>),
     Compare("name", "contains", <<Quoted(Word(3))>>),
     Compare("port", "in", <<Number(160), Number(8)>>), Compare("port", ">", <<Number(160)>>),
     Compare("port", "<=", <<Number(161)>>), Compare("port", "!=", <<Number(162)>>),
     Compare("port", ">=", <<Quoted(Word(3))>>),
     Compare("socket", "==", <<Quoted([form |-> "bool", val |-> 1])>>)}

SameText(op, text, pattern) == text = pattern

NestedLeaves ==
    {Compare("name", "==", <<Quoted(Word(3))>>), Compare("port", ">", <<Number(160)>>),
     Compare("socket", "==", <<Quoted([form |-> "bool", val |-> 1])>>)}

(* Every operator in queries of two comparisons, and deeper queries of     *)
(* three plain ones.                                                       *)
Rule == INSTANCE HuntRule WITH TextMatch <- SameText, Events <- RuleEvents,
            Leaves <- RuleLeaves, Classes <- {"any", "exec"}, ActionText <- ClassText,
            MaxLeaves <- 2

Nested == INSTANCE HuntRule WITH TextMatch <- SameText, Events <- RuleEvents,
              Leaves <- NestedLeaves, Classes <- {"exec"}, ActionText <- ClassText,
              MaxLeaves <- 3

-----------------------------------------------------------------------------
(* Conditions over three selections, one of them a list of maps; and every *)
(* value of up to two characters, with and without a modifier.             *)
Header(category, product, id) ==
    [title |-> "title", category |-> category, product |-> product, id |-> id]

Entry(modifiers, values) == [field |-> "Image", modifiers |-> modifiers, values |-> values]

Selected ==
    ("sel1" :> << <<Entry(<< >>, << <<"a">> >>)>>, <<Entry(<< >>, << <<"b">>, <<"a", "b">> >>)>> >>)
    @@ ("sel2" :> << <<Entry(<<"contains", "all">>, << <<"a">>, <<"b">> >>)>> >>)
    @@ ("filter" :> << <<Entry(<<"endswith">>, << <<"b">> >>), Entry(<< >>, << <<"*", "a">>, <<"b">> >>)>> >>)

Texts(chars, n) == UNION {[1..k -> chars] : k \in 0..n}

ImageEvents(actions, texts) ==
    [action : actions, fields : {"process.executable" :> text : text \in texts} \cup {<< >>}]

Conditions == INSTANCE Sigma WITH
    Words <- {"sel1", "sel2", "filter", "and", "or", "not", "(", ")",
              "all", "1", "2", "of", "them", "sel*"},
    Headers <- {Header("process_creation", "linux", "")}, Detections <- {Selected},
    Events <- ImageEvents({"exec", "connect"}, {<<"a">>, <<"b">>, <<"a", "b">>}),
    MaxTokens <- 5, MaxFiles <- 1

Values == INSTANCE Sigma WITH
    Words <- {"sel1"},
    Headers <- {Header("process_creation", "", "id1"), Header("file_event", "", ""),
                Header("process_creation", "windows", ""), Header("registry_event", "", "")},
    Detections <-
        {"sel1" :> << <<entry>> >> : entry \in
            {Entry(<< >>, <<v>>) : v \in Texts({"a", "*", "?"}, 2)}
            \cup {Entry(<<m>>, << <<"a">> >>) : m \in {"startswith", "base64"}}
            \cup {Entry(<< >>, << >>), [Entry(<< >>, << <<"a">> >>) EXCEPT !.field = "Other"]}},
    Events <- ImageEvents({"exec"}, Texts({"a", "b"}, 2)),
    MaxTokens <- 1, MaxFiles <- 2

(* A rule about DNS queries, and events of both kinds that use the network.*)
QueryEvents ==
    {[action |-> "connect",
      fields |-> ("process.executable" :> <<"a">> @@ "destination.ip" :> <<"b">>)],
     [action |-> "dns",
      fields |-> ("process.executable" :> <<"a">> @@ "destination.ip" :> <<"b">>
                  @@ "dns.question.name" :> <<"a">>)]}

Queries == INSTANCE Sigma WITH
    Words <- {"sel1", "not"}, Headers <- {Header("dns_query", "linux", "")},
    Detections <- {"sel1" :> << <<[field |-> "QueryName", modifiers |-> << >>, values |-> << <<"a">> >>]>> >>},
    Events <- QueryEvents, MaxTokens <- 2, MaxFiles <- 1

(* The conditions over two strings, and whole files.                       *)
FileContents ==
    {<< >>, <<"A">>, <<"a", "b">>, <<"A", "b">>, <<"a", "A", "a">>, <<"a", "a", "A", "b">>}

Signature == INSTANCE Yara WITH
    Start <- <<"rule", "r", "{", "strings", ":", "$a", "=", "'Ab'", "$b", "=", "{41 ??}",
               "condition", ":">>,
    Phrases <- {<<"}">>, <<"(">>, <<")">>, <<"$a">>, <<"$b">>, <<"and">>, <<"or">>, <<"not">>,
                <<"true">>, <<"0", "of", "them">>, <<"2", "of", "them">>, <<"all", "of", "them">>},
    Contents <- FileContents, MaxBytes <- 3, MaxTokens <- 18

Signatures == INSTANCE Yara WITH
    Start <- << >>,
    Phrases <- {<<"rule", "r", "{">>, <<"rule", "r", ":", "tag", "{">>, <<"}">>,
                <<"meta", ":", "key", "=", "value">>, <<"strings", ":">>,
                <<"$a", "=", "'Ab'">>, <<"nocase">>, <<"$b", "=", "{41 ??}">>, <<"$a", "=", "''">>,
                <<"condition", ":", "$a">>, <<"condition", ":", "any", "of", "them">>},
    Contents <- FileContents, MaxBytes <- 3, MaxTokens <- 17

-----------------------------------------------------------------------------
Init ==
    /\ part \in {"chains", "short", "long", "rule", "nested",
                "conditions", "values", "queries", "signature", "signatures"}
    /\ Chain!Init
    /\ IF part = "rule" THEN Rule!Init ELSE Nested!Init
    /\ CASE part = "values" -> Values!Fresh
         [] part = "queries" -> Queries!Fresh
         [] OTHER -> Conditions!Fresh
    /\ IF part = "signature" THEN Signature!Init ELSE Short!Init

Next ==
    /\ UNCHANGED part
    /\ \/ part = "chains" /\ Chain!Next /\ UNCHANGED <<tokens, query, importVars>>
       \/ /\ \/ part = "rule" /\ Rule!Next
             \/ part = "nested" /\ Nested!Next
          /\ UNCHANGED <<chainVars, tokens, importVars>>
       \/ /\ \/ part = "conditions" /\ Conditions!Next
             \/ part = "values" /\ Values!Next
             \/ part = "queries" /\ Queries!Next
             \/ /\ \/ part = "short" /\ Short!Next
                   \/ part = "long" /\ Long!Next
                   \/ part = "signature" /\ Signature!Next
                   \/ part = "signatures" /\ Signatures!Next
                /\ UNCHANGED importVars
          /\ UNCHANGED <<chainVars, query>>

Spec == Init /\ [][Next]_vars

-----------------------------------------------------------------------------
(* A sequence hunt reports true chains, and one for every event that opens *)
(* any (hunt.go matchSequences).                                           *)
OneChainPerOpening == part = "chains" => Chain!OneChainPerOpening

(* The parser accepts what the grammar derives and builds its tree         *)
(* (parse.go).                                                             *)
ParsesTheGrammar ==
    /\ part = "short" => Short!ParsesTheGrammar
    /\ part = "long" => Long!ParsesTheGrammar

(* The rule made of a well-typed hunt loads and fires on what the hunt     *)
(* finds (torule.go ToRule).                                               *)
RuleMatchesHunt ==
    /\ part = "rule" => Rule!RuleMatchesHunt
    /\ part = "nested" => Nested!RuleMatchesHunt

(* A converted Sigma rule fires on what the Sigma rule describes           *)
(* (internal/sigma).                                                       *)
ConvertedMeansSigma ==
    /\ part = "conditions" => Conditions!ConvertedMeansSigma
    /\ part = "values" => Values!ConvertedMeansSigma
    /\ part = "queries" => Queries!ConvertedMeansSigma

(* The loader accepts the bundle of converted rules (cmd/argus/sigma.go).  *)
BundleLoads == Values!BundleLoads

(* docs/SIGMA.md: "rather than emitting a rule that would never (or        *)
(* wrongly) match".                                                        *)
ConvertedCanFire == part = "queries" => Queries!ConvertedCanFire

(* A scan reports the YARA rules whose condition holds (internal/yara).    *)
ScanMeansRules ==
    /\ part = "signature" => Signature!ScanMeansRules
    /\ part = "signatures" => Signatures!ScanMeansRules

(* "The rule fires on exactly what the hunt found" (torule.go RuleMeta).   *)
RuleFiresOnFound == part = "rule" => Rule!RuleFiresOnFound
=============================================================================
