--------------------------- MODULE SiteAudit_proofs ---------------------------
(***************************************************************************)
(* That the fetch of an audit connects where it was approved to and keeps  *)
(* to its limits; that robots.txt, whatever its lines, gives every agent   *)
(* its rules; and that no recommendation spoils what passes, and those on  *)
(* the page clear their findings.  What parseGroups has after any number of lines is said in       *)
(* closed form, and proved to be what its recursion over the lines comes   *)
(* to by looking at the first line where it would not be.                  *)
(***************************************************************************)
EXTENDS SiteAudit, FiniteSetTheorems, SequenceTheorems, TLAPS

-----------------------------------------------------------------------------
(* Induction, by a first or a last counterexample *)

\* A set of numbers has a least member.
LEMMA Least ==
  ASSUME NEW T, T \subseteq Nat, T # {}
  PROVE  \E n \in T : \A m \in T : n <= m
<1> DEFINE R == {ss \in Nat \X Nat : ss[1] < ss[2]}
<1>1. IsWellFoundedOn(R, Nat)
  BY NatLessThanWellFounded DEF OpToRel
<1> HIDE DEF R
<1>2. PICK n \in T : \A m \in T : ~(<<m, n>> \in R)
  BY <1>1, WFMin
<1>3. \A m \in T : ~(m < n)
  BY <1>2 DEF R
<1> QED
  BY <1>3

\* And, within a bound, a greatest.
LEMMA Greatest ==
  ASSUME NEW b \in Nat, NEW T, T \subseteq 0 .. b, T # {}
  PROVE  \E n \in T : \A m \in T : m <= n
<1> DEFINE U == {k \in Nat : \E n \in T : k = b - n}
<1>0. \A n \in T : n \in 0 .. b /\ b - n \in Nat
  OBVIOUS
<1>1. U \subseteq Nat /\ U # {}
  BY <1>0
<1>2. PICK k \in U : \A l \in U : k <= l
  BY <1>1, Least
<1>3. PICK n \in T : k = b - n
  OBVIOUS
<1>4. \A m \in T : b - m \in U
  OBVIOUS
<1>5. \A m \in T : m <= n
  BY <1>2, <1>3, <1>4
<1> QED
  BY <1>5

-----------------------------------------------------------------------------
(* Robots *)

\* A line is of one kind.
LEMMA KindsApart ==
  ASSUME NEW lines \in Seq(Lines)
  PROVE  /\ AgentAt(lines) \subseteq 1 .. Len(lines) /\ RuleAt(lines) \subseteq 1 .. Len(lines)
         /\ AgentAt(lines) \intersect RuleAt(lines) = {}
         /\ Len(lines) \in Nat
<1>1. Len(lines) \in Nat /\ DOMAIN lines = 1 .. Len(lines)
  BY LenProperties
<1>2. AgentLines \intersect RuleLines = {}
  BY DEF AgentLines, RuleLines
<1> QED
  BY <1>1, <1>2 DEF AgentAt, RuleAt

\* Whether a rule was seen since the last agent line, after n lines.
RuleSince(lines, n) ==
    \E k \in RuleAt(lines) : k <= n /\ \A l \in AgentAt(lines) : ~(k < l /\ l <= n)

\* The agents the next rule is for, after n lines.
Collected(lines, n) ==
    {lines[j].value : j \in {j \in AgentAt(lines) :
        j <= n /\ ~\E k \in RuleAt(lines), l \in AgentAt(lines) : j < k /\ k < l /\ l <= n}}

\* How one line more changes whether a rule was seen.
LEMMA SawClosed ==
  ASSUME NEW lines \in Seq(Lines), NEW n \in 0 .. Len(lines)
  PROVE  RuleSince(lines, n) <=>
            IF n \in AgentAt(lines) THEN FALSE
            ELSE IF n \in RuleAt(lines) THEN TRUE
            ELSE n > 0 /\ RuleSince(lines, n - 1)
BY KindsApart DEF RuleSince

\* How one line more changes the agents collected.
LEMMA PendingClosed ==
  ASSUME NEW lines \in Seq(Lines), NEW n \in 0 .. Len(lines)
  PROVE  Collected(lines, n) =
            IF n = 0 THEN {}
            ELSE IF n \in AgentAt(lines)
                 THEN {lines[n].value} \union (IF RuleSince(lines, n - 1) THEN {} ELSE Collected(lines, n - 1))
            ELSE Collected(lines, n - 1)
BY KindsApart DEF RuleSince, Collected

\* parseGroups goes line by line and gets there.
LEMMA SawIs ==
  ASSUME NEW lines \in Seq(Lines)
  PROVE  SawRule(lines) = [n \in 0 .. Len(lines) |-> RuleSince(lines, n)]
<1> DEFINE L == 0 .. Len(lines)
           Body(f) == [n \in L |-> CASE n \in AgentAt(lines) -> FALSE
                                     [] n \in RuleAt(lines) -> TRUE
                                     [] OTHER -> n > 0 /\ f[n - 1]]
           W == [n \in L |-> RuleSince(lines, n)]
<1>1. W = Body(W)
  <2>1. ASSUME NEW n \in L
        PROVE  RuleSince(lines, n) = CASE n \in AgentAt(lines) -> FALSE
                                       [] n \in RuleAt(lines) -> TRUE
                                       [] OTHER -> n > 0 /\ W[n - 1]
    <3>1. n > 0 => W[n - 1] = RuleSince(lines, n - 1)
      BY KindsApart
    <3> QED
      BY <3>1, SawClosed, KindsApart
  <2> QED
    BY <2>1
<1>2. ASSUME NEW f, f = Body(f) PROVE f = W
  <2> DEFINE T == {n \in L : f[n] # W[n]}
  <2>1. ASSUME T # {} PROVE FALSE
    <3>1. T \subseteq Nat
      BY KindsApart
    <3>2. PICK n \in T : \A m \in T : n <= m
      BY <2>1, <3>1, Least
    <3>3. n > 0 => f[n - 1] = W[n - 1]
      BY <3>2, KindsApart
    <3>4. f[n] = CASE n \in AgentAt(lines) -> FALSE
                   [] n \in RuleAt(lines) -> TRUE
                   [] OTHER -> n > 0 /\ f[n - 1]
      BY <1>2
    <3>5. W[n] = CASE n \in AgentAt(lines) -> FALSE
                   [] n \in RuleAt(lines) -> TRUE
                   [] OTHER -> n > 0 /\ W[n - 1]
      BY <1>1
    <3> HIDE DEF W
    <3>6. f[n] = W[n]
      BY <3>3, <3>4, <3>5
    <3> QED
      BY <3>6
  <2>2. f = [n \in L |-> f[n]]
    BY <1>2
  <2> QED
    BY <2>1, <2>2
<1>3. SawRule(lines) = CHOOSE f : f = Body(f)
  BY DEF SawRule
<1> QED
  BY <1>1, <1>2, <1>3

\* So does what it collects.
LEMMA PendingIs ==
  ASSUME NEW lines \in Seq(Lines)
  PROVE  Pending(lines) = [n \in 0 .. Len(lines) |-> Collected(lines, n)]
<1> DEFINE L == 0 .. Len(lines)
           saw == SawRule(lines)
           Body(f) == [n \in L |-> CASE n = 0 -> {}
                                     [] n \in AgentAt(lines) ->
                                           {lines[n].value}
                                           \union (IF StartsGroup(saw[n - 1]) THEN {} ELSE f[n - 1])
                                     [] OTHER -> f[n - 1]]
           W == [n \in L |-> Collected(lines, n)]
<1>1. W = Body(W)
  <2>1. ASSUME NEW n \in L
        PROVE  Collected(lines, n) =
                  CASE n = 0 -> {}
                    [] n \in AgentAt(lines) ->
                          {lines[n].value}
                          \union (IF StartsGroup(saw[n - 1]) THEN {} ELSE W[n - 1])
                    [] OTHER -> W[n - 1]
    <3>1. n > 0 => W[n - 1] = Collected(lines, n - 1) /\ saw[n - 1] = RuleSince(lines, n - 1)
      BY SawIs, KindsApart
    <3> HIDE DEF saw, W
    <3>2. n > 0 => (StartsGroup(saw[n - 1]) <=> RuleSince(lines, n - 1))
      BY <3>1 DEF StartsGroup
    <3> QED
      BY <3>1, <3>2, PendingClosed, KindsApart
  <2> QED
    BY <2>1
<1> HIDE DEF saw
<1>2. ASSUME NEW f, f = Body(f) PROVE f = W
  <2> DEFINE T == {n \in L : f[n] # W[n]}
  <2>1. ASSUME T # {} PROVE FALSE
    <3>1. T \subseteq Nat
      BY KindsApart
    <3>2. PICK n \in T : \A m \in T : n <= m
      BY <2>1, <3>1, Least
    <3>3. n > 0 => f[n - 1] = W[n - 1]
      BY <3>2, KindsApart
    <3>4. f[n] = CASE n = 0 -> {}
                   [] n \in AgentAt(lines) ->
                         {lines[n].value} \union (IF StartsGroup(saw[n - 1]) THEN {} ELSE f[n - 1])
                   [] OTHER -> f[n - 1]
      BY <1>2
    <3>5. W[n] = CASE n = 0 -> {}
                   [] n \in AgentAt(lines) ->
                         {lines[n].value} \union (IF StartsGroup(saw[n - 1]) THEN {} ELSE W[n - 1])
                   [] OTHER -> W[n - 1]
      BY <1>1
    <3> HIDE DEF W
    <3>6. CASE n = 0
      BY <3>4, <3>5, <3>6, KindsApart
    <3>7. CASE n > 0
      BY <3>3, <3>4, <3>5, <3>7
    <3> QED
      BY <3>2, <3>6, <3>7, KindsApart
  <2>2. f = [n \in L |-> f[n]]
    BY <1>2
  <2> QED
    BY <2>1, <2>2
<1>3. Pending(lines) = CHOOSE f : f = Body(f)
  BY DEF Pending, saw
<1> HIDE DEF Body, W
<1> QED
  BY <1>1, <1>2, <1>3

\* Before a rule, the agents collected are those whose lines share it.
LEMMA CollectedAt ==
  ASSUME NEW lines \in Seq(Lines), NEW i \in RuleAt(lines)
  PROVE  AgentsAt(lines, i) = IF Collected(lines, i) = {} THEN {Star} ELSE Collected(lines, i)
<1> DEFINE before == {j \in AgentAt(lines) : j < i}
<1>0. i \in 1 .. Len(lines) /\ AgentAt(lines) \subseteq 1 .. Len(lines) /\ i \notin AgentAt(lines)
      /\ RuleAt(lines) \subseteq 1 .. Len(lines) /\ Len(lines) \in Nat
  BY KindsApart
<1>1. {j \in AgentAt(lines) :
          j <= i /\ ~\E k \in RuleAt(lines), l \in AgentAt(lines) : j < k /\ k < l /\ l <= i}
      = {j \in before : Shares(lines, j, i)}
  BY <1>0 DEF Shares
<1>2. Collected(lines, i) = {lines[j].value : j \in {j \in before : Shares(lines, j, i)}}
  BY <1>1 DEF Collected
<1>3. ASSUME before # {} PROVE Collected(lines, i) # {}
  <2>1. before \subseteq 0 .. Len(lines)
    BY <1>0
  <2>2. PICK j \in before : \A l \in before : l <= j
    BY <1>0, <1>3, <2>1, Greatest
  <2>3. Shares(lines, j, i)
    BY <1>0, <2>2 DEF Shares
  <2> QED
    BY <1>2, <2>3
<1>4. ASSUME before = {} PROVE Collected(lines, i) = {}
  BY <1>2, <1>4
<1> QED
  BY <1>2, <1>3, <1>4 DEF AgentsAt

\* What the parser makes of any lines is what they say.
LEMMA ParsedAsSaid ==
  ASSUME NEW lines \in Seq(Lines), NEW ua, NEW key \in {"disallow", "allow"}
  PROVE  GroupFor(ParseGroups(lines), ua)[key] = Says(lines, ua, key)
<1> DEFINE agents(n) == IF Pending(lines)[n] = {} THEN {Star} ELSE Pending(lines)[n]
           dom == UNION {agents(n) : n \in RuleAt(lines)}
           rules(a, k) == {n \in RuleAt(lines) : lines[n].key = k /\ a \in agents(n)}
           G == [a \in dom |-> [k \in {"disallow", "allow"} |-> {lines[n].value : n \in rules(a, k)}]]
<1>1. ParseGroups(lines) = G
  BY DEF ParseGroups
<1>2. ASSUME NEW n \in RuleAt(lines) PROVE agents(n) = AgentsAt(lines, n)
  <2>1. Pending(lines)[n] = Collected(lines, n)
    BY PendingIs, KindsApart
  <2> QED
    BY <2>1, CollectedAt
<1>3. Says(lines, ua, key) = {lines[n].value : n \in rules(ua, key)}
  BY <1>2 DEF Says
<1>4. CASE ua \in dom
  <2>1. GroupFor(G, ua)[key] = {lines[n].value : n \in rules(ua, key)}
    <3> HIDE DEF dom, rules
    <3> QED
      BY <1>4 DEF GroupFor
  <2> QED
    BY <1>1, <1>3, <2>1
<1>5. CASE ua \notin dom
  <2>1. rules(ua, key) = {}
    BY <1>5
  <2>2. GroupFor(G, ua)[key] = {}
    <3> HIDE DEF dom, rules
    <3> QED
      BY <1>5 DEF GroupFor
  <2> QED
    BY <1>1, <1>3, <2>1, <2>2
<1> QED
  BY <1>4, <1>5

-----------------------------------------------------------------------------
(* SiteReport *)

\* Taking lines out leaves lines.
LEMMA WithoutIsLines ==
  ASSUME robots \in Seq(Lines), NEW drop
  PROVE  Without(drop) \in Seq(Lines)
<1> DEFINE kept == DOMAIN robots \ drop
           n == Cardinality(kept)
           upTo(k) == {j \in kept : j <= k}
           place == [k \in kept |-> Cardinality(upTo(k))]
<1>0. DOMAIN robots = 1 .. Len(robots) /\ Len(robots) \in Nat
  BY LenProperties
<1>1. IsFiniteSet(kept) /\ kept \subseteq Nat
  <2>1. IsFiniteSet(1 .. Len(robots))
    BY <1>0, FS_Interval
  <2> QED
    BY <1>0, <2>1, FS_Subset
<1> HIDE DEF kept
<1>2. \A k : IsFiniteSet(upTo(k))
  <2>1. \A k : upTo(k) \in SUBSET kept
    OBVIOUS
  <2> HIDE DEF upTo
  <2> QED
    BY <1>1, <2>1, FS_Subset
<1>3. n \in Nat /\ \A k : Cardinality(upTo(k)) \in Nat
  BY <1>1, <1>2, FS_CardinalityType
<1>4. ASSUME NEW k \in kept PROVE place[k] \in 1 .. n
  <2>1. upTo(k) \subseteq kept /\ k \in upTo(k)
    BY <1>1
  <2> HIDE DEF upTo
  <2>2. Cardinality(upTo(k)) <= n
    BY <1>1, <2>1, FS_Subset
  <2>3. Cardinality(upTo(k)) # 0
    BY <1>2, <2>1, FS_EmptySet
  <2> QED
    BY <1>3, <2>2, <2>3
<1>5. ASSUME NEW j \in kept, NEW k \in kept, j < k PROVE place[j] < place[k]
  <2>0. \A m \in kept : m \in Nat
    BY <1>1
  <2>1. upTo(j) \union {k} \subseteq upTo(k) /\ k \notin upTo(j)
    BY <2>0, <1>5
  <2> HIDE DEF upTo
  <2>2. Cardinality(upTo(j) \union {k}) = Cardinality(upTo(j)) + 1
    BY <1>2, <2>1, FS_AddElement
  <2>3. Cardinality(upTo(j) \union {k}) <= Cardinality(upTo(k))
    BY <1>2, <2>1, FS_Subset
  <2> QED
    BY <1>3, <2>2, <2>3
<1>6. place \in [kept -> 1 .. n]
  BY <1>4
<1> HIDE DEF place
<1>7. \A j, k \in kept : place[j] = place[k] => j = k
  <2> SUFFICES ASSUME NEW j \in kept, NEW k \in kept, j # k PROVE place[j] # place[k]
    OBVIOUS
  <2>1. place[j] < place[k] \/ place[k] < place[j]
    BY <1>1, <1>5
  <2> QED
    BY <1>3, <1>6, <2>1
<1>8. place \in Injection(kept, 1 .. n)
  BY <1>6, <1>7 DEF Injection, IsInjective
<1>9. IsFiniteSet(1 .. n) /\ Cardinality(1 .. n) = n
  BY <1>3, FS_Interval
<1>10. place \in Surjection(kept, 1 .. n)
  BY <1>8, <1>9, FS_Injection
<1>11. ASSUME NEW i \in 1 .. n PROVE robots[CHOOSE k \in kept : Cardinality(upTo(k)) = i] \in Lines
  <2>1. \E k \in kept : Cardinality(upTo(k)) = i
    BY <1>10 DEF Surjection, place
  <2> HIDE DEF upTo
  <2>2. (CHOOSE k \in kept : Cardinality(upTo(k)) = i) \in kept
    BY <2>1
  <2>3. \A k \in kept : robots[k] \in Lines
    BY <1>0, ElementOfSeq DEF kept
  <2> QED
    BY <2>2, <2>3
<1>12. Without(drop) = [i \in 1 .. n |-> robots[CHOOSE k \in kept : Cardinality(upTo(k)) = i]]
  BY DEF Without, kept
<1>13. Without(drop) \in [1 .. n -> Lines]
  BY <1>11, <1>12
<1> QED
  BY <1>3, <1>13, SeqDef

\* A robots.txt is a sequence of lines, and the corrected one is too.
RobotsAreLines == robots \in Seq(Lines)

\* It stays one.
LEMMA LinesAlways == AuditSpec => []RobotsAreLines
<1>1. AuditInit => RobotsAreLines
  <2>1. Init => RobotsAreLines
    BY SiteAuditOK, SeqDef DEF Init, RobotsAreLines, PagesOK
  <2>2. robots = <<>> => RobotsAreLines
    BY DEF RobotsAreLines
  <2> QED
    BY <2>1, <2>2 DEF AuditInit
<1>2. RobotsAreLines /\ [AuditNext]_all => RobotsAreLines'
  <2> SUFFICES ASSUME RobotsAreLines, [AuditNext]_all PROVE RobotsAreLines'
    OBVIOUS
  <2>1. CASE \E drop : robots' = Without(drop)
    BY <2>1, WithoutIsLines DEF RobotsAreLines
  <2>2. CASE UNCHANGED robots
    BY <2>2 DEF RobotsAreLines
  <2>3. Next => (\E drop : robots' = Without(drop)) \/ UNCHANGED robots
    BY DEF Next, OpenToCrawlers, RemoveDisallow, DeleteGroups, OnPage, RenderOnServer,
       AddOrganization, SetMetadata, Sign, AddLlmsTxt
  <2>4. UNCHANGED page => UNCHANGED robots
    BY DEF page
  <2> QED
    BY <2>1, <2>2, <2>3, <2>4 DEF AuditNext, all
<1> QED
  BY <1>1, <1>2, PTL DEF AuditSpec

\* Whatever the lines, every agent has the rules they give it.
THEOREM AgentsHaveTheirRules == AuditSpec => []EveryAgentItsRules
<1>1. RobotsAreLines => EveryAgentItsRules
  BY ParsedAsSaid DEF RobotsAreLines, EveryAgentItsRules, Groups
<1> QED
  BY <1>1, LinesAlways, PTL

\* From the advised shapes, the walk comes to the Organization.
LEMMA AdvisedVisits ==
  ASSUME NEW b \in Advised
  PROVE  b \in Nodes /\ Organization \in Visited(b)
<1>1. Advised \subseteq Nodes /\ Organization \in Nodes
  BY SiteAuditOK DEF PagesOK, Advised
<1>2. /\ Parts(InArray(Organization)) = {Organization}
      /\ Parts(InGraph(Organization)) = {InArray(Organization)}
      /\ Parts(InArray(InGraph(Organization))) = {InGraph(Organization)}
  BY DEF Parts, IsArray, IsObject, InArray, InGraph
<1>3. ASSUME NEW S \in SUBSET Nodes, b \in S, \A y \in S : Parts(y) \subseteq S
      PROVE  Organization \in S
  <2>1. InArray(InGraph(Organization)) \in S => InGraph(Organization) \in S
    BY <1>2, <1>3
  <2>2. InGraph(Organization) \in S => InArray(Organization) \in S
    BY <1>2, <1>3
  <2>3. InArray(Organization) \in S => Organization \in S
    BY <1>2, <1>3
  <2> QED
    BY <1>3, <2>1, <2>2, <2>3 DEF Advised
<1> QED
  BY <1>1, <1>3 DEF Visited

\* So its types are found.
LEMMA AdvisedTyped == \A b \in Advised : CollectTypes[b] # {}
<1> SUFFICES ASSUME NEW b \in Advised PROVE CollectTypes[b] # {}
  OBVIOUS
<1>1. b \in Nodes /\ Organization \in Visited(b)
  BY AdvisedVisits
<1>2. IsObject(Organization) /\ "Organization" \in Organization.type
  BY DEF IsObject, Organization
<1>3. CollectTypes[b] = UNION {x.type : x \in {x \in Visited(b) : IsObject(x)}}
  BY <1>1 DEF CollectTypes
<1>4. Organization \in {x \in Visited(b) : IsObject(x)}
  BY <1>1, <1>2
<1> QED
  BY <1>2, <1>3, <1>4

\* What each check looks at; a step that leaves it alone leaves the finding.
LEMMA FindingsKept ==
  /\ UNCHANGED robots => (Passes("ai-crawler-access")' <=> Passes("ai-crawler-access"))
  /\ UNCHANGED <<text, scripts>> => (Passes("client-rendering")' <=> Passes("client-rendering"))
  /\ UNCHANGED blocks => (Passes("structured-data")' <=> Passes("structured-data"))
  /\ UNCHANGED <<title, description, og>> => (Passes("core-metadata")' <=> Passes("core-metadata"))
  /\ UNCHANGED <<author, date>> => (Passes("basic-authority")' <=> Passes("basic-authority"))
  /\ UNCHANGED llms => (Passes("llms-txt")' <=> Passes("llms-txt"))
<1>1. UNCHANGED robots => (Passes("ai-crawler-access")' <=> Passes("ai-crawler-access"))
  BY DEF Passes, Blocked, Groups
<1>2. UNCHANGED <<text, scripts>> => (Passes("client-rendering")' <=> Passes("client-rendering"))
  BY DEF Passes, LooksClientSide, Scripts
<1>3. UNCHANGED blocks => (Passes("structured-data")' <=> Passes("structured-data"))
  BY DEF Passes, ExtractTypes
<1>4. UNCHANGED <<title, description, og>> => (Passes("core-metadata")' <=> Passes("core-metadata"))
  BY DEF Passes, MetadataSensible, TitleSensible, DescriptionSensible
<1>5. UNCHANGED <<author, date>> => (Passes("basic-authority")' <=> Passes("basic-authority"))
  BY DEF Passes, Attributable
<1>6. UNCHANGED llms => (Passes("llms-txt")' <=> Passes("llms-txt"))
  BY DEF Passes, LlmsTxtPresent
<1> QED
  BY <1>1, <1>2, <1>3, <1>4, <1>5, <1>6

\* What a recommendation clears.
LEMMA OrganizationClears == AddOrganization => Passes("structured-data")'
<1> SUFFICES ASSUME AddOrganization PROVE Passes("structured-data")'
  OBVIOUS
<1>1. PICK b \in Advised : b \in blocks'
  BY DEF AddOrganization
<1>2. ExtractTypes' # {}
  BY <1>1, AdvisedTyped DEF ExtractTypes
<1> QED
  BY <1>2 DEF Passes

LEMMA MetadataClears == SetMetadata => Passes("core-metadata")'
<1> SUFFICES ASSUME SetMetadata PROVE Passes("core-metadata")'
  OBVIOUS
<1>1. title' \in 10 .. 70 /\ description' \in 50 .. 160 /\ og' = TRUE
  BY DEF SetMetadata
<1>2. TitleSensible' /\ DescriptionSensible'
  BY <1>1 DEF TitleSensible, DescriptionSensible
<1>3. og'
  BY <1>1, Zenon
<1>4. MetadataSensible'
  BY <1>2, <1>3 DEF MetadataSensible
<1> QED
  BY <1>4 DEF Passes

LEMMA SignClears == Sign => Passes("basic-authority")'
BY DEF Sign, Passes, Attributable

LEMMA LlmsTxtClears == AddLlmsTxt => Passes("llms-txt")'
BY DEF AddLlmsTxt, Passes, LlmsTxtPresent

\* A step that is about one finding, clears it if it is on the page, and leaves
\* what the others look at.
LEMMA OneCleared ==
  ASSUME NEW d \in Dimensions, ~Passes(d), Passes(d)' \/ ~OnPage,
         \A e \in Dimensions \ {d} : Passes(e)' <=> Passes(e)
  PROVE  Ok \subseteq Ok' /\ (OnPage => Ok # Ok')
BY DEF Ok

LEMMA StepHelps == Next => Ok \subseteq Ok' /\ (OnPage => Ok # Ok')
<1> DEFINE OthersStay(d) == \A e \in Dimensions \ {d} : Passes(e)' <=> Passes(e)
<1>1. CASE OpenToCrawlers
  <2>1. ~Passes("ai-crawler-access") /\ OthersStay("ai-crawler-access")
    BY <1>1, FindingsKept DEF OpenToCrawlers, Dimensions
  <2>2. ~OnPage
    <3>1. ~AddOrganization
      BY <2>1, OrganizationClears DEF AddOrganization, Dimensions
    <3>2. ~SetMetadata
      BY <2>1, MetadataClears DEF SetMetadata, Dimensions
    <3>3. ~Sign
      BY <2>1, SignClears DEF Sign, Dimensions
    <3>4. ~AddLlmsTxt
      BY <2>1, LlmsTxtClears DEF AddLlmsTxt, Dimensions
    <3> QED
      BY <3>1, <3>2, <3>3, <3>4 DEF OnPage
  <2> QED
    BY <2>1, <2>2, OneCleared DEF Dimensions
<1>2. CASE RenderOnServer
  <2>1. ~Passes("client-rendering") /\ OthersStay("client-rendering")
    BY <1>2, FindingsKept DEF RenderOnServer, Dimensions
  <2>2. ~OnPage
    <3>1. ~AddOrganization
      BY <2>1, OrganizationClears DEF AddOrganization, Dimensions
    <3>2. ~SetMetadata
      BY <2>1, MetadataClears DEF SetMetadata, Dimensions
    <3>3. ~Sign
      BY <2>1, SignClears DEF Sign, Dimensions
    <3>4. ~AddLlmsTxt
      BY <2>1, LlmsTxtClears DEF AddLlmsTxt, Dimensions
    <3> QED
      BY <3>1, <3>2, <3>3, <3>4 DEF OnPage
  <2> QED
    BY <2>1, <2>2, OneCleared DEF Dimensions
<1>3. CASE AddOrganization
  BY <1>3, FindingsKept, OrganizationClears, OneCleared DEF AddOrganization, Dimensions
<1>4. CASE SetMetadata
  BY <1>4, FindingsKept, MetadataClears, OneCleared DEF SetMetadata, Dimensions
<1>5. CASE Sign
  BY <1>5, FindingsKept, SignClears, OneCleared DEF Sign, Dimensions
<1>6. CASE AddLlmsTxt
  BY <1>6, FindingsKept, LlmsTxtClears, OneCleared DEF AddLlmsTxt, Dimensions
<1>7. QED
  BY <1>1, <1>2, <1>3, <1>4, <1>5, <1>6 DEF Next, OnPage

\* None of the recommendations spoils what passes, and each of those that can be
\* followed to the letter on the page clears its finding.
THEOREM AdviceClears == AuditSpec => AdviceHelps
<1>1. [AuditNext]_all => [Ok \subseteq Ok' /\ (OnPage => Ok # Ok')]_page
  <2> SUFFICES ASSUME [AuditNext]_all PROVE [Next]_page
    BY StepHelps
  <2> QED
    BY DEF AuditNext, all
<1> QED
  BY <1>1, PTL DEF AuditSpec, AdviceHelps

-----------------------------------------------------------------------------
(* PageFetcher *)

\* The limit of a hop, and of a round of hops.
H == Fetcher!HopLimit
Round == (MaxRedirects + 1) * H

\* What a target has used up of its round of hops.
Used(f) == hop[f] * H + spent[f]

\* Of one target: a body is within the cap while it is read, and whole when it is
\* kept; a hop takes its limit at most; and with the guard, what is pinned, and
\* what was connected to, was approved.
TargetInv(f) ==
    /\ at[f] \notin {"body", "found", "null"} => total[f] = 0
    /\ at[f] = "body" => total[f] <= size[f] /\ total[f] <= MaxBytes
    /\ at[f] = "found" => total[f] = size[f] /\ size[f] <= MaxBytes
    /\ spent[f] <= H
    /\ ~allowPrivate =>
        /\ connected[f] \notin Refused /\ pinned[f] \notin Refused
        /\ at[f] = "request" => pinned[f] \in Addresses

\* Of the time: the homepage's round, and then what each of the two that follow
\* has used, for as long as it runs.
ClockInv ==
    /\ at["homepage"] # "waiting"
    /\ at["robots"] = "waiting" <=> at["llms"] = "waiting"
    /\ at["robots"] = "waiting" => elapsed <= Used("homepage")
    /\ at["robots"] # "waiting" => at["homepage"] = "found"
    /\ \A f \in {"robots", "llms"} : Fetcher!Running(f) => elapsed <= Round + Used(f)
    /\ elapsed <= 2 * Round

\* The inductive invariant of the fetch.
FetchInv ==
    /\ Fetcher!TypeOK
    /\ \A f \in Fetcher!Targets : TargetInv(f)
    /\ ClockInv

\* What the constants are.
LEMMA Limits ==
    /\ Refused \subseteq Addresses /\ NoAddress \notin Addresses
    /\ TimeoutMs \in Nat \ {0} /\ LookupLimit \in Nat \ {0}
    /\ MaxRedirects \in Nat /\ MaxBytes \in Nat /\ MaxSize \in Nat
    /\ H \in Nat \ {0} /\ TimeoutMs <= H /\ LookupLimit <= H
<1>1. /\ Refused \subseteq Addresses /\ NoAddress \notin Addresses
      /\ TimeoutMs \in Nat \ {0} /\ LookupLimit \in Nat \ {0}
      /\ MaxRedirects \in Nat /\ MaxBytes \in Nat /\ MaxSize \in Nat
  BY SiteAuditOK DEF Fetcher!ConstantsOK
<1> QED
  BY <1>1 DEF H, Fetcher!HopLimit

\* A fetch may take two rounds of hops, and a hop fits into its round.
LEMMA Rounds ==
    /\ Round \in Nat /\ Fetcher!FetchLimit = 2 * Round
    /\ \A h \in 0 .. MaxRedirects : h * H \in Nat /\ (h + 1) * H = h * H + H /\ h * H + H <= Round
<1>1. MaxRedirects \in Nat /\ H \in Nat
  BY Limits
<1>2. Round \in Nat
  BY <1>1 DEF Round
<1>3. Fetcher!FetchLimit = 2 * Round
  BY <1>1 DEF Fetcher!FetchLimit, Round, H
<1>4. ASSUME NEW h \in 0 .. MaxRedirects
      PROVE  h * H \in Nat /\ (h + 1) * H = h * H + H /\ h * H + H <= Round
  <2>1. h * H \in Nat /\ (h + 1) * H = h * H + H
    BY <1>1
  <2>2. (MaxRedirects - h) * H \in Nat
    BY <1>1
  <2>3. Round = (h + 1) * H + (MaxRedirects - h) * H
    BY <1>1 DEF Round
  <2> QED
    BY <1>1, <1>2, <2>1, <2>2, <2>3
<1> QED
  BY <1>2, <1>3, <1>4

\* The types, one by one; a target uses no more than a round.
LEMMA TypesNow ==
  ASSUME Fetcher!TypeOK
  PROVE  /\ at \in [Fetcher!Targets -> Fetcher!Places]
         /\ hop \in [Fetcher!Targets -> 0 .. MaxRedirects]
         /\ spent \in [Fetcher!Targets -> Nat]
         /\ pinned \in [Fetcher!Targets -> Addresses \union {NoAddress}]
         /\ size \in [Fetcher!Targets -> 0 .. MaxSize]
         /\ total \in [Fetcher!Targets -> 0 .. MaxSize]
         /\ connected \in [Fetcher!Targets -> Addresses \union {NoAddress}]
         /\ elapsed \in Nat
         /\ \A f \in Fetcher!Targets : Used(f) \in Nat /\ (spent[f] <= H => Used(f) <= Round)
<1>1. ASSUME NEW f \in Fetcher!Targets
      PROVE  Used(f) \in Nat /\ (spent[f] <= H => Used(f) <= Round)
  <2>1. hop[f] \in 0 .. MaxRedirects /\ spent[f] \in Nat
    BY DEF Fetcher!TypeOK
  <2>2. hop[f] * H \in Nat /\ hop[f] * H + H <= Round
    BY <2>1, Rounds
  <2> DEFINE u == hop[f] * H
  <2> HIDE DEF u
  <2>3. u \in Nat /\ u + H <= Round /\ Used(f) = u + spent[f]
    BY <2>2 DEF u, Used
  <2> QED
    BY <2>1, <2>3, Limits, Rounds
<1> QED
  BY <1>1 DEF Fetcher!TypeOK

\* One target moves on, and the clock stands.
LEMMA TargetMoves ==
  ASSUME FetchInv, NEW f \in Fetcher!Targets, Fetcher!Running(f),
         UNCHANGED <<allowPrivate, elapsed>>,
         at' \in [Fetcher!Targets -> Fetcher!Places],
         hop' \in [Fetcher!Targets -> 0 .. MaxRedirects],
         spent' \in [Fetcher!Targets -> Nat],
         pinned' \in [Fetcher!Targets -> Addresses \union {NoAddress}],
         size' \in [Fetcher!Targets -> 0 .. MaxSize],
         total' \in [Fetcher!Targets -> 0 .. MaxSize],
         connected' \in [Fetcher!Targets -> Addresses \union {NoAddress}],
         \A g \in Fetcher!Targets \ {f} :
            /\ at'[g] = at[g] /\ hop'[g] = hop[g] /\ spent'[g] = spent[g]
            /\ pinned'[g] = pinned[g] /\ size'[g] = size[g] /\ total'[g] = total[g]
            /\ connected'[g] = connected[g],
         at'[f] # "waiting", TargetInv(f)', Used(f)' >= Used(f)
  PROVE  FetchInv'
<1>1. Fetcher!TypeOK'
  <2>1. allowPrivate' \in BOOLEAN
    BY Zenon DEF FetchInv, Fetcher!TypeOK
  <2>2. elapsed' \in Nat
    BY Zenon DEF FetchInv, Fetcher!TypeOK
  <2> QED
    BY <2>1, <2>2, Zenon DEF Fetcher!TypeOK
<1>2. ASSUME NEW g \in Fetcher!Targets \ {f} PROVE TargetInv(g)' /\ Used(g)' = Used(g)
  BY <1>2, Zenon DEF FetchInv, TargetInv, Used
<1>3. ClockInv'
  <2>1. /\ {"homepage", "robots", "llms"} = Fetcher!Targets
        /\ \A g \in Fetcher!Targets : Used(g) \in Nat /\ Used(g)' \in Nat
        /\ elapsed \in Nat /\ Round \in Nat /\ ClockInv
    <3>1. ASSUME NEW g \in Fetcher!Targets PROVE Used(g)' \in Nat
      <4>1. hop'[g] * H \in Nat /\ spent'[g] \in Nat
        BY Rounds
      <4> QED
        BY <4>1 DEF Used
    <3> QED
      BY <3>1, TypesNow, Rounds DEF FetchInv, Fetcher!Targets
  <2>2. \A g \in Fetcher!Targets : Used(g)' >= Used(g)
    BY <1>2, <2>1
  <2>3. \A g \in Fetcher!Targets : /\ at'[g] = "waiting" <=> at[g] = "waiting"
                                   /\ Fetcher!Running(g)' => Fetcher!Running(g)
                                   /\ at[g] = "found" => at'[g] = at[g]
    BY DEF Fetcher!Running
  <2> QED
    BY <2>1, <2>2, <2>3 DEF ClockInv
<1> QED
  BY <1>1, <1>2, <1>3 DEF FetchInv

\* It holds at the start, and where the fetch was refused.
LEMMA FetchStarts == Fetcher!Init \/ FetchOver => FetchInv
<1> SUFFICES ASSUME Fetcher!Init \/ FetchOver PROVE FetchInv
  OBVIOUS
<1>1. /\ at \in [Fetcher!Targets -> {"guard", "waiting", "null"}]
      /\ at["homepage"] # "waiting" /\ at["robots"] = "waiting" /\ at["llms"] = "waiting"
      /\ hop = [f \in Fetcher!Targets |-> 0] /\ spent = [f \in Fetcher!Targets |-> 0]
      /\ size = [f \in Fetcher!Targets |-> 0] /\ total = [f \in Fetcher!Targets |-> 0]
      /\ pinned = [f \in Fetcher!Targets |-> NoAddress]
      /\ connected = [f \in Fetcher!Targets |-> NoAddress]
      /\ elapsed = 0
  BY DEF Fetcher!Init, FetchOver, Fetcher!Targets
<1>2. allowPrivate \in BOOLEAN
  BY Zenon DEF Fetcher!Init, FetchOver
<1>3. Fetcher!TypeOK
  <2>1. /\ at \in [Fetcher!Targets -> Fetcher!Places]
        /\ hop \in [Fetcher!Targets -> 0 .. MaxRedirects] /\ spent \in [Fetcher!Targets -> Nat]
        /\ pinned \in [Fetcher!Targets -> Addresses \union {NoAddress}]
        /\ size \in [Fetcher!Targets -> 0 .. MaxSize]
        /\ total \in [Fetcher!Targets -> 0 .. MaxSize]
        /\ connected \in [Fetcher!Targets -> Addresses \union {NoAddress}]
        /\ elapsed \in Nat
    BY <1>1, Limits DEF Fetcher!Places
  <2> QED
    BY <1>2, <2>1, Zenon DEF Fetcher!TypeOK
<1>4. ASSUME NEW f \in Fetcher!Targets PROVE TargetInv(f)
  <2>1. /\ at[f] \in {"guard", "waiting", "null"} /\ total[f] = 0 /\ spent[f] = 0
        /\ connected[f] = NoAddress /\ pinned[f] = NoAddress
    BY <1>1
  <2> QED
    BY <2>1, Limits DEF TargetInv
<1>5. ClockInv
  <2>1. "homepage" \in Fetcher!Targets /\ Used("homepage") \in Nat /\ Round \in Nat
    BY <1>3, TypesNow, Rounds DEF Fetcher!Targets
  <2> QED
    BY <1>1, <2>1 DEF ClockInv, Fetcher!Running
<1> QED
  BY <1>3, <1>4, <1>5 DEF FetchInv

\* The get() of a target goes on; Further and Tick are not of one target.
LEMMA TargetSteps ==
  ASSUME FetchInv, NEW f \in Fetcher!Targets,
         \/ Fetcher!Validate(f) \/ Fetcher!SkipValidation(f) \/ Fetcher!Refuse(f) \/ Fetcher!Redirect(f)
         \/ \E n \in 0 .. MaxSize, declared \in BOOLEAN : Fetcher!Respond(f, n, declared)
         \/ \E n \in 1 .. MaxSize : Fetcher!Read(f, n)
         \/ Fetcher!End(f) \/ Fetcher!Fail(f) \/ Fetcher!Abort(f) \/ Fetcher!LookupFails(f)
  PROVE  FetchInv'
<1>0. /\ at \in [Fetcher!Targets -> Fetcher!Places]
      /\ hop \in [Fetcher!Targets -> 0 .. MaxRedirects]
      /\ spent \in [Fetcher!Targets -> Nat]
      /\ pinned \in [Fetcher!Targets -> Addresses \union {NoAddress}]
      /\ size \in [Fetcher!Targets -> 0 .. MaxSize]
      /\ total \in [Fetcher!Targets -> 0 .. MaxSize]
      /\ connected \in [Fetcher!Targets -> Addresses \union {NoAddress}]
      /\ TargetInv(f) /\ Used(f) \in Nat
  BY TypesNow DEF FetchInv
<1>1. CASE Fetcher!Validate(f)
  <2>1. PICK a \in Addresses \ Refused : pinned' = [pinned EXCEPT ![f] = a]
    BY <1>1 DEF Fetcher!Validate, Fetcher!Approves
  <2>2. /\ at[f] = "guard" /\ at' = [at EXCEPT ![f] = "request"]
        /\ UNCHANGED <<allowPrivate, hop, spent, size, total, connected, elapsed>>
    BY <1>1 DEF Fetcher!Validate, Fetcher!Goto
  <2>3. TargetInv(f)' /\ Used(f)' = Used(f)
    BY <1>0, <2>1, <2>2 DEF TargetInv, Used
  <2>4. at' \in [Fetcher!Targets -> Fetcher!Places]
    BY <1>0, <2>2 DEF Fetcher!Places
  <2> QED
    BY <1>0, <2>1, <2>2, <2>3, <2>4, TargetMoves DEF Fetcher!Running
<1>2. CASE Fetcher!SkipValidation(f)
  <2>1. /\ at[f] = "guard" /\ at' = [at EXCEPT ![f] = "request"] /\ allowPrivate
        /\ pinned' = [pinned EXCEPT ![f] = NoAddress]
        /\ UNCHANGED <<allowPrivate, hop, spent, size, total, connected, elapsed>>
    BY <1>2 DEF Fetcher!SkipValidation, Fetcher!Goto
  <2>2. TargetInv(f)' /\ Used(f)' = Used(f)
    BY <1>0, <2>1 DEF TargetInv, Used
  <2>3. at' \in [Fetcher!Targets -> Fetcher!Places]
    BY <1>0, <2>1 DEF Fetcher!Places
  <2> QED
    BY <1>0, <2>1, <2>2, <2>3, TargetMoves DEF Fetcher!Running
<1>3. ASSUME NEW l \in {"found", "null"}, Fetcher!Return(f, l), Fetcher!Running(f),
             l = "found" => at[f] = "body" /\ total[f] = size[f]
      PROVE  FetchInv'
  <2>1. /\ at' = [at EXCEPT ![f] = l]
        /\ UNCHANGED <<allowPrivate, hop, spent, pinned, size, total, connected, elapsed>>
    BY <1>3 DEF Fetcher!Return, Fetcher!Goto
  <2>2. TargetInv(f)' /\ Used(f)' = Used(f)
    BY <1>0, <1>3, <2>1 DEF TargetInv, Used
  <2>3. at' \in [Fetcher!Targets -> Fetcher!Places]
    BY <1>0, <2>1 DEF Fetcher!Places
  <2> QED
    BY <1>0, <1>3, <2>1, <2>2, <2>3, TargetMoves
<1>4. CASE Fetcher!Refuse(f) \/ Fetcher!End(f) \/ Fetcher!Fail(f) \/ Fetcher!Abort(f) \/ Fetcher!LookupFails(f)
  BY <1>3, <1>4 DEF Fetcher!Refuse, Fetcher!End, Fetcher!Fail, Fetcher!Abort, Fetcher!TimedOut,
     Fetcher!LookupFails, Fetcher!Running
<1>5. ASSUME at[f] = "request", NEW a \in Fetcher!Reachable(f)
      PROVE  a \in Addresses /\ (~allowPrivate => a \notin Refused)
  BY <1>0, <1>5, Limits DEF Fetcher!Reachable, TargetInv
<1>6. CASE Fetcher!Redirect(f)
  <2>1. at[f] = "request" /\ UNCHANGED <<allowPrivate, pinned, size, total, elapsed>>
    BY <1>6 DEF Fetcher!Redirect
  <2>2. PICK a \in Fetcher!Reachable(f) : connected' = [connected EXCEPT ![f] = a]
    BY <1>6 DEF Fetcher!Redirect
  <2>3. a \in Addresses /\ (~allowPrivate => a \notin Refused)
    BY <1>5, <2>1
  <2>4. CASE hop[f] < MaxRedirects
    <3>1. /\ at' = [at EXCEPT ![f] = "guard"]
          /\ hop' = [hop EXCEPT ![f] = @ + 1] /\ spent' = [spent EXCEPT ![f] = 0]
      BY <1>6, <2>4 DEF Fetcher!Redirect, Fetcher!RedirectsLeft, Fetcher!Goto
    <3>2. hop' \in [Fetcher!Targets -> 0 .. MaxRedirects] /\ at' \in [Fetcher!Targets -> Fetcher!Places]
      BY <1>0, <2>4, <3>1, Limits DEF Fetcher!Places
    <3>3. TargetInv(f)'
      BY <1>0, <2>1, <2>2, <2>3, <3>1, Limits DEF TargetInv
    <3>4. Used(f)' >= Used(f)
      <4> DEFINE u == hop[f] * H
      <4>1. u \in Nat /\ (hop[f] + 1) * H = u + H
        BY <1>0, Rounds
      <4>2. hop'[f] = hop[f] + 1 /\ spent'[f] = 0
        BY <1>0, <3>1
      <4>3. Used(f)' = (hop[f] + 1) * H + 0
        BY <4>2 DEF Used
      <4>4. Used(f) = u + spent[f] /\ spent[f] <= H /\ spent[f] \in Nat
        BY <1>0 DEF Used, TargetInv
      <4> HIDE DEF u
      <4> QED
        BY <4>1, <4>3, <4>4, Limits
    <3> QED
      BY <1>0, <2>1, <2>2, <2>3, <3>1, <3>2, <3>3, <3>4, TargetMoves DEF Fetcher!Running
  <2>5. CASE ~(hop[f] < MaxRedirects)
    <3>1. at' = [at EXCEPT ![f] = "null"] /\ UNCHANGED <<hop, spent>>
      BY <1>6, <2>5 DEF Fetcher!Redirect, Fetcher!RedirectsLeft, Fetcher!Goto
    <3>2. at' \in [Fetcher!Targets -> Fetcher!Places]
      BY <1>0, <3>1 DEF Fetcher!Places
    <3>3. TargetInv(f)' /\ Used(f)' = Used(f)
      BY <1>0, <2>1, <2>2, <2>3, <3>1 DEF TargetInv, Used
    <3> QED
      BY <1>0, <2>1, <2>2, <2>3, <3>1, <3>2, <3>3, TargetMoves DEF Fetcher!Running
  <2> QED
    BY <2>4, <2>5
<1>7. ASSUME NEW n \in 0 .. MaxSize, NEW declared \in BOOLEAN, Fetcher!Respond(f, n, declared)
      PROVE  FetchInv'
  <2>1. /\ at[f] = "request" /\ size' = [size EXCEPT ![f] = n]
        /\ UNCHANGED <<allowPrivate, hop, spent, pinned, total, elapsed>>
    BY <1>7 DEF Fetcher!Respond
  <2>2. PICK a \in Fetcher!Reachable(f) : connected' = [connected EXCEPT ![f] = a]
    BY <1>7 DEF Fetcher!Respond
  <2>3. a \in Addresses /\ (~allowPrivate => a \notin Refused)
    BY <1>5, <2>1
  <2>4. PICK l \in {"null", "body"} : at' = [at EXCEPT ![f] = l]
    BY <1>7 DEF Fetcher!Respond, Fetcher!Goto
  <2>5. at' \in [Fetcher!Targets -> Fetcher!Places]
    BY <1>0, <2>4 DEF Fetcher!Places
  <2>6. TargetInv(f)' /\ Used(f)' = Used(f)
    BY <1>0, <2>1, <2>2, <2>3, <2>4, Limits DEF TargetInv, Used
  <2> QED
    BY <1>0, <2>1, <2>2, <2>3, <2>4, <2>5, <2>6, TargetMoves DEF Fetcher!Running
<1>8. ASSUME NEW n \in 1 .. MaxSize, Fetcher!Read(f, n) PROVE FetchInv'
  <2>1. /\ at[f] = "body" /\ total[f] + n <= size[f] /\ total' = [total EXCEPT ![f] = @ + n]
        /\ at' = [at EXCEPT ![f] = IF total[f] + n > MaxBytes THEN "null" ELSE "body"]
        /\ UNCHANGED <<allowPrivate, hop, spent, pinned, size, connected, elapsed>>
    BY <1>8 DEF Fetcher!Read, Fetcher!Goto, Fetcher!OverCap
  <2>2. at' \in [Fetcher!Targets -> Fetcher!Places] /\ at'[f] # "waiting"
    BY <1>0, <2>1 DEF Fetcher!Places
  <2>3. total' \in [Fetcher!Targets -> 0 .. MaxSize]
    BY <1>0, <2>1, Limits
  <2>4. TargetInv(f)' /\ Used(f)' = Used(f)
    BY <1>0, <2>1, Limits DEF TargetInv, Used
  <2> QED
    BY <1>0, <2>1, <2>2, <2>3, <2>4, TargetMoves DEF Fetcher!Running
<1> QED
  BY <1>1, <1>2, <1>4, <1>6, <1>7, <1>8
\* The two files begin when the homepage has used its round, at most.
LEMMA FurtherBegins == FetchInv /\ Fetcher!Further => FetchInv'
<1> SUFFICES ASSUME FetchInv, Fetcher!Further PROVE FetchInv'
  OBVIOUS
<1>1. /\ at["homepage"] = "found" /\ at["robots"] = "waiting" /\ at["llms"] = "waiting"
      /\ at \in [Fetcher!Targets -> Fetcher!Places]
      /\ at' = [at EXCEPT !["robots"] = "guard", !["llms"] = "guard"]
  BY TypesNow DEF Fetcher!Further, Fetcher!HomepageIn, FetchInv, ClockInv
<1>2. UNCHANGED <<allowPrivate, hop, spent, pinned, size, total, connected, elapsed>>
  BY DEF Fetcher!Further
<1>3. at' \in [Fetcher!Targets -> Fetcher!Places]
  BY <1>1 DEF Fetcher!Places
<1>4. Fetcher!TypeOK'
  BY <1>2, <1>3, Zenon DEF FetchInv, Fetcher!TypeOK
<1>5. /\ at'["robots"] = "guard" /\ at'["llms"] = "guard"
      /\ \A g \in Fetcher!Targets \ {"robots", "llms"} : at'[g] = at[g]
  BY <1>1 DEF Fetcher!Targets
<1>6. ASSUME NEW f \in Fetcher!Targets PROVE TargetInv(f)' /\ Used(f)' = Used(f)
  <2>1. TargetInv(f)
    BY DEF FetchInv
  <2>2. Used(f)' = Used(f)
    BY <1>2, Zenon DEF Used
  <2>3. CASE f \in {"robots", "llms"}
    BY <1>1, <1>2, <1>5, <2>1, <2>2, <2>3 DEF TargetInv
  <2>4. CASE f \notin {"robots", "llms"}
    BY <1>2, <1>5, <2>1, <2>2, <2>4, Zenon DEF TargetInv
  <2> QED
    BY <2>3, <2>4
<1>7. ClockInv'
  <2>1. /\ {"homepage", "robots", "llms"} = Fetcher!Targets
        /\ \A f \in Fetcher!Targets : Used(f) \in Nat /\ Used(f) <= Round
        /\ elapsed \in Nat /\ Round \in Nat /\ ClockInv
    BY TypesNow, Rounds DEF FetchInv, TargetInv, Fetcher!Targets
  <2>2. elapsed <= Round
    BY <1>1, <2>1 DEF ClockInv
  <2>3. /\ \A f \in {"robots", "llms"} : elapsed' <= Round + Used(f)'
        /\ elapsed' <= 2 * Round
    BY <1>2, <1>6, <2>1, <2>2
  <2> QED
    BY <1>1, <1>5, <2>1, <2>3 DEF ClockInv
<1> QED
  BY <1>4, <1>6, <1>7 DEF FetchInv

\* Time moves no target on, and none that runs is due: so each of them uses up of
\* its round what time uses up.
LEMMA Ticks == FetchInv /\ Fetcher!Tick => FetchInv'
<1> SUFFICES ASSUME FetchInv, Fetcher!Tick PROVE FetchInv'
  OBVIOUS
<1>0. /\ {"homepage", "robots", "llms"} = Fetcher!Targets
      /\ hop \in [Fetcher!Targets -> 0 .. MaxRedirects]
      /\ spent \in [Fetcher!Targets -> Nat]
      /\ at \in [Fetcher!Targets -> Fetcher!Places]
      /\ elapsed \in Nat /\ Round \in Nat /\ Fetcher!FetchLimit = 2 * Round
      /\ H \in Nat /\ Fetcher!HopLimit = H
      /\ \A f \in Fetcher!Targets : TargetInv(f) /\ Used(f) \in Nat
  BY TypesNow, Rounds, Limits DEF FetchInv, Fetcher!Targets, H
<1>1. /\ ~Fetcher!Ended /\ ~Fetcher!HomepageIn
      /\ UNCHANGED <<allowPrivate, at, hop, pinned, size, total, connected>>
      /\ elapsed' = Fetcher!Shortest(elapsed + 1, Fetcher!FetchLimit + 1)
      /\ spent' = [f \in Fetcher!Targets |->
                      IF Fetcher!Running(f) THEN Fetcher!Shortest(spent[f] + 1, Fetcher!HopLimit)
                      ELSE spent[f]]
  BY DEF Fetcher!Tick
<1>2. ASSUME NEW f \in Fetcher!Targets, Fetcher!Running(f)
      PROVE  spent'[f] = spent[f] + 1 /\ spent[f] < H
  <2>1. spent[f] < H
    BY <1>0, <1>2, Limits DEF Fetcher!Tick, Fetcher!TimedOut, Fetcher!Running
  <2> QED
    BY <1>0, <1>1, <1>2, <2>1 DEF Fetcher!Shortest
<1>3. ASSUME NEW f \in Fetcher!Targets, ~Fetcher!Running(f) PROVE spent'[f] = spent[f]
  BY <1>1, <1>3
<1>4. elapsed' \in Nat /\ elapsed' <= elapsed + 1
  BY <1>0, <1>1 DEF Fetcher!Shortest
<1>5. spent' \in [Fetcher!Targets -> Nat] /\ \A f \in Fetcher!Targets : spent'[f] <= H
  <2>1. \A f \in Fetcher!Targets : spent'[f] \in Nat /\ spent'[f] <= H
    BY <1>0, <1>2, <1>3 DEF TargetInv
  <2>2. \E v : spent' = [f \in Fetcher!Targets |-> v[f]]
    <3> DEFINE v == [f \in Fetcher!Targets |-> IF Fetcher!Running(f)
                        THEN Fetcher!Shortest(spent[f] + 1, Fetcher!HopLimit) ELSE spent[f]]
    <3>1. spent' = [f \in Fetcher!Targets |-> v[f]]
      BY <1>1
    <3> QED
      BY <3>1
  <2> QED
    BY <2>1, <2>2
<1>6. Fetcher!TypeOK'
  BY <1>1, <1>4, <1>5, Zenon DEF FetchInv, Fetcher!TypeOK
<1>7. ASSUME NEW f \in Fetcher!Targets PROVE TargetInv(f)'
  BY <1>0, <1>1, <1>5 DEF TargetInv
<1>8. ASSUME NEW f \in Fetcher!Targets, Fetcher!Running(f)
      PROVE  Used(f)' = Used(f) + 1 /\ Used(f)' <= Round
  <2> DEFINE u == hop[f] * H
  <2>1. u \in Nat /\ u + H <= Round
    BY <1>0, Rounds
  <2>2. hop'[f] = hop[f] /\ spent[f] \in Nat
    BY <1>0, <1>1
  <2>3. Used(f) = u + spent[f] /\ Used(f)' = u + spent'[f]
    BY <2>2 DEF Used
  <2> HIDE DEF u
  <2> QED
    BY <1>0, <1>2, <1>8, <2>1, <2>2, <2>3
<1>9. ASSUME NEW f \in Fetcher!Targets PROVE Fetcher!Running(f)' <=> Fetcher!Running(f)
  BY <1>1 DEF Fetcher!Running
<1>10. ClockInv'
  <2>1. ClockInv
    BY DEF FetchInv
  <2>2. CASE at["robots"] = "waiting"
    <3>1. Fetcher!Running("homepage") /\ at["llms"] = "waiting"
      BY <1>0, <1>1, <2>1, <2>2 DEF ClockInv, Fetcher!Ended, Fetcher!HomepageIn, Fetcher!Running, Fetcher!Places
    <3>2. elapsed' <= Used("homepage")' /\ elapsed' <= 2 * Round
      <4>1. /\ Used("homepage")' = Used("homepage") + 1 /\ Used("homepage")' <= Round
            /\ Used("homepage") \in Nat
        BY <1>0, <1>8, <3>1
      <4>2. elapsed <= Used("homepage")
        BY <2>1, <2>2 DEF ClockInv
      <4> QED
        BY <1>0, <1>4, <4>1, <4>2
    <3>3. at'["robots"] = "waiting" /\ at'["llms"] = "waiting" /\ at'["homepage"] # "waiting"
      BY <1>1, <2>1, <2>2, <3>1 DEF ClockInv
    <3>4. ~Fetcher!Running("robots")' /\ ~Fetcher!Running("llms")'
      BY <3>3 DEF Fetcher!Running
    <3> QED
      BY <3>2, <3>3, <3>4 DEF ClockInv
  <2>3. CASE at["robots"] # "waiting"
    <3>1. /\ at'["homepage"] = "found" /\ at'["robots"] # "waiting" /\ at'["llms"] # "waiting"
      BY <1>1, <2>1, <2>3 DEF ClockInv
    <3>2. ASSUME NEW f \in {"robots", "llms"}, Fetcher!Running(f)
          PROVE  elapsed' <= Round + Used(f)' /\ elapsed' <= 2 * Round
      <4>1. f \in Fetcher!Targets /\ elapsed <= Round + Used(f)
        BY <1>0, <2>1, <3>2 DEF ClockInv
      <4>2. Used(f)' = Used(f) + 1 /\ Used(f)' <= Round /\ Used(f) \in Nat
        BY <1>0, <1>8, <3>2, <4>1
      <4> QED
        BY <1>0, <1>4, <4>1, <4>2
    <3>3. \E f \in {"robots", "llms"} : Fetcher!Running(f)
      BY <1>0, <1>1, <2>1, <2>3 DEF ClockInv, Fetcher!Ended, Fetcher!Running, Fetcher!Places
    <3>4. \A f \in {"robots", "llms"} : Fetcher!Running(f)' => Fetcher!Running(f)
      BY <1>0, <1>9
    <3> QED
      BY <3>1, <3>2, <3>3, <3>4 DEF ClockInv
  <2> QED
    BY <2>2, <2>3
<1> QED
  BY <1>6, <1>7, <1>10 DEF FetchInv

\* A step of the other half changes nothing here.
LEMMA FetchStays == FetchInv /\ UNCHANGED fetch => FetchInv'
<1> SUFFICES ASSUME FetchInv, UNCHANGED fetch PROVE FetchInv'
  OBVIOUS
<1>1. UNCHANGED <<allowPrivate, at, hop, spent, pinned, size, total, connected, elapsed>>
  BY DEF fetch
<1> QED
  BY <1>1, Zenon DEF FetchInv, TargetInv, ClockInv, Used, Fetcher!TypeOK, Fetcher!Running

\* It holds throughout.
LEMMA FetchAlways == AuditSpec => []FetchInv
<1>1. AuditInit => FetchInv
  BY FetchStarts DEF AuditInit
<1>2. FetchInv /\ [AuditNext]_all => FetchInv'
  <2> SUFFICES ASSUME FetchInv, [AuditNext]_all PROVE FetchInv'
    OBVIOUS
  <2>1. CASE UNCHANGED fetch
    BY <2>1, FetchStays
  <2>2. CASE Fetcher!Next
    <3>1. \/ Fetcher!Further \/ Fetcher!Tick
          \/ \E f \in Fetcher!Targets :
                \/ Fetcher!Validate(f) \/ Fetcher!SkipValidation(f) \/ Fetcher!Refuse(f)
                \/ Fetcher!Redirect(f)
                \/ \E n \in 0 .. MaxSize, declared \in BOOLEAN : Fetcher!Respond(f, n, declared)
                \/ \E n \in 1 .. MaxSize : Fetcher!Read(f, n)
                \/ Fetcher!End(f) \/ Fetcher!Fail(f) \/ Fetcher!Abort(f) \/ Fetcher!LookupFails(f)
      BY <2>2, Zenon DEF Fetcher!Next
    <3> QED
      BY <3>1, TargetSteps, FurtherBegins, Ticks
  <2> QED
    BY <2>1, <2>2, Zenon DEF AuditNext, all
<1> QED
  BY <1>1, <1>2, PTL DEF AuditSpec

\* With the guard on, no connection of any hop of any file goes to an address
\* that isBlockedAddress refuses, whatever the name resolves to meanwhile.
THEOREM PinnedIsApproved == AuditSpec => []ConnectsWhereApproved
<1>1. FetchInv => ConnectsWhereApproved
  BY DEF FetchInv, TargetInv, ConnectsWhereApproved, Fetcher!ConnectsWhereApproved
<1> QED
  BY <1>1, FetchAlways, PTL

\* A fetch takes at most the two rounds of hops, each of its own limit, and what
\* it keeps of a file is the whole of it and within the cap.
THEOREM FetchKeepsToItsLimits == AuditSpec => []FetchIsBounded
<1>1. FetchInv => FetchIsBounded
  <2> SUFFICES ASSUME FetchInv PROVE FetchIsBounded
    OBVIOUS
  <2>1. elapsed <= Fetcher!FetchLimit
    BY Rounds DEF FetchInv, ClockInv
  <2>2. \A f \in Fetcher!Targets : at[f] = "found" => total[f] = size[f] /\ size[f] <= MaxBytes
    BY DEF FetchInv, TargetInv
  <2> QED
    BY <2>1, <2>2, Zenon DEF FetchInv, FetchIsBounded, Fetcher!FetchIsBounded
<1> QED
  BY <1>1, FetchAlways, PTL
=============================================================================
