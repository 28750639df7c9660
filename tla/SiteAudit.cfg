\* Every robots.txt of up to four lines, every length at and beside a limit of the
\* checks, and fetches with one redirect and bodies about the cap.
SPECIFICATION FairSpec
CONSTANTS
    GPTBot = GPTBot  ClaudeBot = ClaudeBot  CCBot = CCBot  any = any
    Bots = {GPTBot, ClaudeBot}  Others = {CCBot}  Star = any  MaxLines = 4
    Texts = {29, 30, 199, 200}  Titles = {9, 10, 70, 71}  Descriptions = {49, 50, 160, 161}
    MaxScripts = 1  Nodes <- JSON  Blocks <- FirstBlocks
    public = public  private = private  NoAddress = NoAddress
    Addresses = {public, private}  Refused = {private}
    TimeoutMs = 1  LookupLimit = 2  MaxRedirects = 1  MaxBytes = 1  MaxSize = 2
INVARIANTS ConnectsWhereApproved FetchIsBounded EveryAgentItsRules
PROPERTIES FetchEnds AdviceHelps ReportsRunDry
\* A fetch ends, and a clean report asks for nothing.
CHECK_DEADLOCK FALSE
