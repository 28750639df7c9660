-------------------------------- MODULE Robots --------------------------------
(***************************************************************************)
(* robots.txt as crawler-access.check.ts reads it: parseGroups, one line   *)
(* after the other, into a Map from user agents to the rules of their      *)
(* groups; and what the lines say, read without a loop.                    *)
(* A definition that stands just above another and extends its name is a   *)
(* slip that definition must not make, for mutation runs.                  *)
(***************************************************************************)
EXTENDS Integers, Sequences

CONSTANTS
    Bots,       \* AI_BOTS
    Others,     \* user agents the check does not ask about
    Star        \* the agent '*'

Agents == Bots \union Others \union {Star}

RootPaths == {"/", "/*"}
Paths == RootPaths \union {"/page"}     \* "/page": any path but the root

AgentLines == [key: {"user-agent"}, value: Agents]
RuleLines == [key: {"disallow", "allow"}, value: Paths]
\* A comment, an empty line, one without a colon, or any other key.
OtherLine == [key |-> "other", value |-> "other"]
Lines == AgentLines \union RuleLines \union {OtherLine}

AgentAt(lines) == {i \in DOMAIN lines : lines[i] \in AgentLines}
RuleAt(lines) == {i \in DOMAIN lines : lines[i] \in RuleLines}

-----------------------------------------------------------------------------
(* parseGroups *)

StartsAlways(sawRuleSinceAgent) == TRUE
\* A user-agent line after a rule starts a fresh group.
StartsGroup(sawRuleSinceAgent) == sawRuleSinceAgent

\* sawRuleSinceAgent after n lines.
SawRule(lines) ==
    LET saw[n \in 0 .. Len(lines)] ==
            CASE n \in AgentAt(lines) -> FALSE
              [] n \in RuleAt(lines) -> TRUE
              [] OTHER -> n > 0 /\ saw[n - 1]
    IN  saw

\* pendingAgents after n lines.
Pending(lines) ==
    LET saw == SawRule(lines)
        pending[n \in 0 .. Len(lines)] ==
            CASE n = 0 -> {}
              [] n \in AgentAt(lines) ->
                    {lines[n].value}
                    \union (IF StartsGroup(saw[n - 1]) THEN {} ELSE pending[n - 1])
              [] OTHER -> pending[n - 1]
    IN  pending

\* The order of an agent's rules matters to nobody.
ParseGroups(lines) ==
    LET pending == Pending(lines)
        agents(n) == IF pending[n] = {} THEN {Star} ELSE pending[n]
        rules(ua, key) ==
            {n \in RuleAt(lines) : lines[n].key = key /\ ua \in agents(n)}
    IN  [ua \in UNION {agents(n) : n \in RuleAt(lines)} |->
            [key \in {"disallow", "allow"} |-> {lines[n].value : n \in rules(ua, key)}]]

\* The rules of an agent, none when it has no group.
GroupFor(groups, ua) ==
    IF ua \in DOMAIN groups THEN groups[ua] ELSE [disallow |-> {}, allow |-> {}]

-----------------------------------------------------------------------------
(* isBlocked *)

\* The group of a bot, or the fallback.
Governing(groups, bot) ==
    IF bot \in DOMAIN groups THEN {bot} ELSE {Star} \intersect DOMAIN groups

Closed(rules) ==
    /\ rules.disallow \intersect RootPaths # {}
    /\ rules.allow \intersect RootPaths = {}

IsBlocked(groups, bot) == \E ua \in Governing(groups, bot) : Closed(groups[ua])

-----------------------------------------------------------------------------
(* What the lines say, position by position: the grouping of the standard, with  *)
(* the parser's own reading of rules that no agent line precedes                 *)

\* The rule at i is of the group the agent line at j names: no group begins
\* between them.
Shares(lines, j, i) ==
    /\ j < i
    /\ ~\E k \in RuleAt(lines), l \in AgentAt(lines) : j < k /\ k < l /\ l < i

\* A rule before any agent line is for all, as the code has it; RFC 9309 gives
\* such rules to nobody.
AgentsAt(lines, i) ==
    LET before == {j \in AgentAt(lines) : j < i}
    IN  IF before = {} THEN {Star}
        ELSE {lines[j].value : j \in {j \in before : Shares(lines, j, i)}}

Says(lines, ua, key) ==
    {lines[i].value : i \in {i \in RuleAt(lines) :
                                lines[i].key = key /\ ua \in AgentsAt(lines, i)}}
=============================================================================
