------------------------------ MODULE SiteReport ------------------------------
(***************************************************************************)
(* The report of an audit (audit-runner.ts and the checks it runs), and a  *)
(* site whose owner follows its recommendations one at a time.  A text is  *)
(* its length, robots.txt its lines, a JSON-LD block a tree.               *)
(* A definition that stands just above another and extends its name is a   *)
(* slip that definition must not make, for mutation runs.                  *)
(***************************************************************************)
EXTENDS Robots, FiniteSets

CONSTANTS
    Texts,          \* lengths of a body's text
    Titles,         \* lengths of a title
    Descriptions,   \* lengths of a meta description
    MaxScripts,     \* bound on executable scripts
    Nodes,          \* JSON values of blocks, and the values they hold
    Blocks,         \* the JSON-LD blocks a page may hold at first
    MaxLines        \* bound on the lines of robots.txt

-----------------------------------------------------------------------------
(* JSON-LD *)

IsArray(node) == node.kind = "array"
IsObject(node) == node.kind = "object"

\* Where collectTypes goes from a value: to its items, or to its @graph, but not
\* to its other properties; from a scalar, or JSON that cannot be read, nowhere.
Parts(node) ==
    IF IsArray(node) THEN node.items
    ELSE IF IsObject(node) /\ "graph" \in DOMAIN node THEN {node.graph}
    ELSE {}

\* All it comes to: what every set with the value and the parts of its values has.
Visited(node) ==
    {x \in Nodes : \A S \in SUBSET Nodes :
        (node \in S /\ \A y \in S : Parts(y) \subseteq S) => x \in S}

\* The @type names it collects.
CollectTypes ==
    [node \in Nodes |-> UNION {x.type : x \in {x \in Visited(node) : IsObject(x)}}]

Organization == [kind |-> "object", type |-> {"Organization"}]
InArray(x) == [kind |-> "array", items |-> {x}]
InGraph(x) == [kind |-> "object", type |-> {}, graph |-> InArray(x)]

\* The shapes in which an owner adds an Organization block: plain, in an array,
\* in a @graph, in a @graph in an array.
Advised == {Organization, InArray(Organization), InGraph(Organization),
            InArray(InGraph(Organization))}

\* What the constants are; the module that gives them values assumes it.
PagesOK ==
    /\ MaxScripts \in Nat /\ MaxLines \in Nat
    /\ Texts \subseteq Nat /\ Titles \subseteq Nat /\ Descriptions \subseteq Nat
    /\ \A x \in Nodes : Parts(x) \subseteq Nodes
    /\ Blocks \union Advised \subseteq Nodes

-----------------------------------------------------------------------------

VARIABLES
    robots,         \* robots.txt; no lines when there is none
    scripts,        \* executable ones
    blocks,         \* the data blocks, JSON-LD
    text, title, description, og,
    author, date,
    llms

page == <<robots, scripts, blocks, text, title, description, og, author, date, llms>>

LlmsTexts == {"missing", "blank", "present"}

Init ==
    /\ robots \in UNION {[1 .. n -> Lines] : n \in 0 .. MaxLines}
    /\ scripts \in 0 .. MaxScripts /\ text \in Texts
    /\ blocks \in {{}} \union {{b} : b \in Blocks}
    /\ title \in Titles /\ description \in Descriptions /\ og \in BOOLEAN
    /\ author \in BOOLEAN /\ date \in BOOLEAN
    /\ llms \in LlmsTexts

-----------------------------------------------------------------------------
(* The checks *)

Groups == ParseGroups(robots)

Blocked == LET groups == Groups IN {bot \in Bots : IsBlocked(groups, bot)}

ScriptsOfAnyType == scripts + Cardinality(blocks)
\* Data blocks render nothing and do not count.
Scripts == scripts

LooksClientSide == text < 30 \/ (text < 200 /\ Scripts >= 1)

ExtractTypes == UNION {CollectTypes[b] : b \in blocks}

TitleSensibleStrictly == 10 < title /\ title < 70
TitleSensible == 10 <= title /\ title <= 70
DescriptionSensible == 50 <= description /\ description <= 160
MetadataSensible == TitleSensible /\ DescriptionSensible /\ og

Attributable == author /\ date
LlmsTxtPresent == llms = "present"

Dimensions == {"ai-crawler-access", "client-rendering", "structured-data",
               "core-metadata", "basic-authority", "llms-txt"}

\* Whether the finding of a dimension has the status ok.
Passes(d) ==
    CASE d = "ai-crawler-access" -> Blocked = {}
      [] d = "client-rendering" -> ~LooksClientSide
      [] d = "structured-data" -> ExtractTypes # {}
      [] d = "core-metadata" -> MetadataSensible
      [] d = "basic-authority" -> Attributable
      [] d = "llms-txt" -> LlmsTxtPresent

Ok == {d \in Dimensions : Passes(d)}

-----------------------------------------------------------------------------
(* The recommendations of the other findings, followed to the letter *)

\* robots.txt without the lines at some positions.
Without(drop) ==
    LET kept == DOMAIN robots \ drop
        upTo(k) == {j \in kept : j <= k}
    IN  [i \in 1 .. Cardinality(kept) |->
            robots[CHOOSE k \in kept : Cardinality(upTo(k)) = i]]

\* The rules that shut a blocked bot out, in its group or in the one for all.
Shutting ==
    LET governing == UNION {Governing(Groups, bot) : bot \in Blocked}
    IN  {i \in RuleAt(robots) :
            /\ robots[i].key = "disallow" /\ robots[i].value \in RootPaths
            /\ AgentsAt(robots, i) \intersect governing # {}}

RemoveDisallow == \E drop \in {Shutting} : robots' = Without(drop)

\* The bots' agent lines, and the rules that are for bots only.
DeleteGroups ==
    robots' = Without({i \in AgentAt(robots) : robots[i].value \in Bots}
                      \union {i \in RuleAt(robots) : AgentsAt(robots, i) \subseteq Bots})

OpenToCrawlers ==
    /\ ~Passes("ai-crawler-access")
    /\ RemoveDisallow \/ DeleteGroups
    /\ UNCHANGED <<scripts, blocks, text, title, description, og, author, date, llms>>

\* The main content moves into the initial HTML, however long it is: the words of
\* the recommendation ask for no length.  Scripts may stay, come or go.
RenderOnServer ==
    /\ ~Passes("client-rendering")
    /\ text' \in {n \in Texts : n >= text}
    /\ scripts' \in 0 .. MaxScripts
    /\ UNCHANGED <<robots, blocks, title, description, og, author, date, llms>>

AddOrganization ==
    /\ ~Passes("structured-data")
    /\ \E b \in Advised : blocks' = blocks \union {b}
    /\ UNCHANGED <<robots, scripts, text, title, description, og, author, date, llms>>

\* "~10-70 chars", "~50-160 chars".
SetMetadata ==
    /\ ~Passes("core-metadata")
    /\ title' \in Titles \intersect (10 .. 70)
    /\ description' \in Descriptions \intersect (50 .. 160)
    /\ og' = TRUE
    /\ UNCHANGED <<robots, scripts, blocks, text, author, date, llms>>

Sign ==
    /\ ~Passes("basic-authority")
    /\ author' = TRUE /\ date' = TRUE
    /\ UNCHANGED <<robots, scripts, blocks, text, title, description, og, llms>>

AddLlmsTxt ==
    /\ ~Passes("llms-txt")
    /\ llms' = "present"
    /\ UNCHANGED <<robots, scripts, blocks, text, title, description, og, author, date>>

\* What is asked for can be done on the page to the letter.
OnPage == AddOrganization \/ SetMetadata \/ Sign \/ AddLlmsTxt

Next == OpenToCrawlers \/ RenderOnServer \/ OnPage

Spec == Init /\ [][Next]_page

\* An owner who works through the report, opening the site by taking out the
\* rules it names.  Whether the rendering changes is left open.
Fairness ==
    /\ WF_page(OpenToCrawlers /\ RemoveDisallow)
    /\ WF_page(AddOrganization) /\ WF_page(SetMetadata)
    /\ WF_page(Sign) /\ WF_page(AddLlmsTxt)

-----------------------------------------------------------------------------
(* Properties *)

\* "Consecutive User-agent: lines with no rule between them share the following
\* rules (per the robots spec), which a naive line-by-line parser gets wrong":
\* whatever the order of lines, however often a group is taken up again, and
\* whatever an owner took out, every agent has the rules the file gives it.
EveryAgentItsRules ==
    LET groups == Groups
    IN  \A ua \in Agents : \A key \in {"disallow", "allow"} :
            GroupFor(groups, ua)[key] = Says(robots, ua, key)

\* A recommendation of OnPage, followed at any length it names and in any shape,
\* clears its own finding at the next audit; and none, those about robots.txt and
\* rendering included, spoils what another check has passed: "counting them ...
\* would penalise adding the JSON-LD the structured-data check asks for".  The one
\* about rendering may leave its finding: a short page with a script stays a shell.
AdviceHelps == [][Ok \subseteq Ok' /\ (OnPage => Ok # Ok')]_page

\* Whatever the page was like and whatever becomes of its rendering, working
\* through the reports ends with one that finds nothing else to do: no two
\* recommendations chase each other.
ReportsRunDry == <>[](Dimensions \ Ok \subseteq {"client-rendering"})
=============================================================================
