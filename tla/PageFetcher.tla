----------------------------- MODULE PageFetcher -----------------------------
(***************************************************************************)
(* One audit's fetch (page-fetcher.ts): the homepage, then robots.txt and  *)
(* llms.txt of its origin side by side; redirects followed by hand, each   *)
(* target looked up and checked (url-guard.ts) and the connection pinned   *)
(* to what was checked; a timer per hop, a cap on the body.  Servers and   *)
(* name servers answer what and when they like.  A tick is a share of the  *)
(* timer; a lookup is not covered by the timer, and ends by the resolver's *)
(* own limit.                                                              *)
(* A definition that stands just above another and extends its name is a   *)
(* slip that definition must not make, for mutation runs.                  *)
(***************************************************************************)
EXTENDS Integers

CONSTANTS
    Addresses,
    Blocked,        \* those isBlockedAddress refuses
    TimeoutMs,      \* TIMEOUT_MS, in ticks
    LookupLimit,    \* the resolver's limit, in ticks
    MaxRedirects,
    MaxBytes,
    MaxSize,        \* bound on the size of a body
    NoAddress

\* What the constants are; the module that gives them values assumes it.
ConstantsOK ==
    /\ Blocked \subseteq Addresses /\ NoAddress \notin Addresses
    /\ TimeoutMs \in Nat \ {0} /\ LookupLimit \in Nat \ {0}
    /\ MaxRedirects \in Nat /\ MaxBytes \in Nat /\ MaxSize \in Nat

Targets == {"homepage", "robots", "llms"}

VARIABLES
    allowPrivate,   \* GEO_ALLOW_PRIVATE_URLS, read at the start
    at,         \* where the get() of a target stands
    hop,        \* 0 .. MaxRedirects
    spent,      \* since this hop began
    pinned,     \* the address the guard returned, NoAddress for null
    size,       \* of the body the server sends
    total,      \* bytes read of it
    \* History, read by the properties only:
    connected,  \* the address of the hop's connection
    elapsed     \* since fetch() began

vars == <<allowPrivate, at, hop, spent, pinned, size, total, connected, elapsed>>

Places == {"waiting", "guard", "request", "body", "found", "null"}

TypeOK ==
    /\ allowPrivate \in BOOLEAN
    /\ at \in [Targets -> Places]
    /\ hop \in [Targets -> 0 .. MaxRedirects]
    /\ spent \in [Targets -> Nat]
    /\ pinned \in [Targets -> Addresses \union {NoAddress}]
    /\ size \in [Targets -> 0 .. MaxSize]
    /\ total \in [Targets -> 0 .. MaxSize]
    /\ connected \in [Targets -> Addresses \union {NoAddress}]
    /\ elapsed \in Nat

Init ==
    /\ allowPrivate \in BOOLEAN
    /\ at = [f \in Targets |-> IF f = "homepage" THEN "guard" ELSE "waiting"]
    /\ hop = [f \in Targets |-> 0]
    /\ spent = [f \in Targets |-> 0]
    /\ pinned = [f \in Targets |-> NoAddress]
    /\ size = [f \in Targets |-> 0]
    /\ total = [f \in Targets |-> 0]
    /\ connected = [f \in Targets |-> NoAddress]
    /\ elapsed = 0

Running(f) == at[f] \in {"guard", "request", "body"}

Goto(f, l) == at' = [at EXCEPT ![f] = l]

\* get() returns: null on any failure, never an exception.
Return(f, l) ==
    /\ Goto(f, l)
    /\ UNCHANGED <<allowPrivate, hop, spent, pinned, size, total, connected, elapsed>>

-----------------------------------------------------------------------------
(* One hop *)

ApprovesFirst(found) == \E a \in found : a \notin Blocked
Approves(found) == found # {} /\ found \intersect Blocked = {}

\* assertFetchableUrl: the lookup's answers, of which the first is returned.
Validate(f) ==
    /\ at[f] = "guard" /\ ~allowPrivate
    /\ \E found \in SUBSET Addresses :
          /\ Approves(found)
          /\ \E a \in found : pinned' = [pinned EXCEPT ![f] = a]
    /\ Goto(f, "request")
    /\ UNCHANGED <<allowPrivate, hop, spent, size, total, connected, elapsed>>

SkipValidation(f) ==
    /\ at[f] = "guard" /\ allowPrivate
    /\ pinned' = [pinned EXCEPT ![f] = NoAddress]
    /\ Goto(f, "request")
    /\ UNCHANGED <<allowPrivate, hop, spent, size, total, connected, elapsed>>

\* Not a URL, not http(s), unresolved or not approved; allowed addresses leave
\* the first two.
Refuse(f) == at[f] = "guard" /\ Return(f, "null")

Reachable(f) == IF pinned[f] = NoAddress THEN Addresses ELSE {pinned[f]}

RedirectsLeft(f) == hop[f] < MaxRedirects

\* A 3xx with a location: the next hop begins, with a timer of its own.
Redirect(f) ==
    /\ at[f] = "request" /\ spent[f] < TimeoutMs
    /\ \E a \in Reachable(f) : connected' = [connected EXCEPT ![f] = a]
    /\ IF RedirectsLeft(f)
       THEN /\ Goto(f, "guard")
            /\ hop' = [hop EXCEPT ![f] = @ + 1]
            /\ spent' = [spent EXCEPT ![f] = 0]
       ELSE /\ Goto(f, "null")
            /\ UNCHANGED <<hop, spent>>
    /\ UNCHANGED <<allowPrivate, pinned, size, total, elapsed>>

\* A good answer (of the homepage: of type text/html), with a body of n bytes
\* that it declares or not; one declared too long is not read.
Respond(f, n, declared) ==
    /\ at[f] = "request" /\ spent[f] < TimeoutMs
    /\ \E a \in Reachable(f) : connected' = [connected EXCEPT ![f] = a]
    /\ Goto(f, IF declared /\ n > MaxBytes THEN "null" ELSE "body")
    /\ size' = [size EXCEPT ![f] = n]
    /\ UNCHANGED <<allowPrivate, hop, spent, pinned, total, elapsed>>

OverCapKept(f) == "found"
OverCap(f) == "null"

\* readCapped: a chunk of n bytes.
Read(f, n) ==
    /\ at[f] = "body"
    /\ total[f] + n <= size[f]
    /\ total' = [total EXCEPT ![f] = @ + n]
    /\ Goto(f, IF total[f] + n > MaxBytes THEN OverCap(f) ELSE "body")
    /\ UNCHANGED <<allowPrivate, hop, spent, pinned, size, connected, elapsed>>

End(f) == at[f] = "body" /\ total[f] = size[f] /\ Return(f, "found")

\* Any other answer, or an error of the connection or the body.
Fail(f) == at[f] \in {"request", "body"} /\ Return(f, "null")

TimedOutBeforeBody(f) == at[f] = "request" /\ spent[f] >= TimeoutMs
TimedOut(f) == at[f] \in {"request", "body"} /\ spent[f] >= TimeoutMs

\* The timer aborts the request, or the body; or the lookup outlasted it.
Abort(f) == TimedOut(f) /\ Return(f, "null")

\* The resolver gives up.
LookupFails(f) == at[f] = "guard" /\ spent[f] >= LookupLimit /\ Return(f, "null")

-----------------------------------------------------------------------------

\* fetch(): the two further files, once the homepage is there.
HomepageIn == at["homepage"] = "found" /\ at["robots"] = "waiting"

Further ==
    /\ HomepageIn
    /\ at' = [at EXCEPT !["robots"] = "guard", !["llms"] = "guard"]
    /\ UNCHANGED <<allowPrivate, hop, spent, pinned, size, total, connected, elapsed>>

Ended ==
    \/ at["homepage"] = "null"
    \/ at["robots"] \in {"found", "null"} /\ at["llms"] \in {"found", "null"}

Shortest(a, b) == IF a <= b THEN a ELSE b
HopLimit == IF LookupLimit >= TimeoutMs THEN LookupLimit ELSE TimeoutMs
FetchLimit == 2 * (MaxRedirects + 1) * HopLimit

\* Time passes; what is due is done on time.  The two counts stop where nothing
\* more depends on them.
Tick ==
    /\ ~Ended /\ ~HomepageIn
    /\ \A f \in Targets : ~TimedOut(f) /\ (at[f] = "guard" => spent[f] < LookupLimit)
    /\ spent' = [f \in Targets |->
                    IF Running(f) THEN Shortest(spent[f] + 1, HopLimit) ELSE spent[f]]
    /\ elapsed' = Shortest(elapsed + 1, FetchLimit + 1)
    /\ UNCHANGED <<allowPrivate, at, hop, pinned, size, total, connected>>

Next ==
    \/ \E f \in Targets :
          \/ Validate(f) \/ SkipValidation(f) \/ Refuse(f) \/ Redirect(f)
          \/ \E n \in 0 .. MaxSize, declared \in BOOLEAN : Respond(f, n, declared)
          \/ \E n \in 1 .. MaxSize : Read(f, n)
          \/ End(f) \/ Fail(f) \/ Abort(f) \/ LookupFails(f)
    \/ Further
    \/ Tick

Spec == Init /\ [][Next]_vars

\* Only what is the process's own is fair: its timers, its continuations, the
\* resolver's limit and the clock.  No server need ever answer.
Fairness ==
    /\ WF_vars(Tick) /\ WF_vars(Further)
    /\ \A f \in Targets : WF_vars(Abort(f)) /\ WF_vars(LookupFails(f))

-----------------------------------------------------------------------------
(* Properties *)

\* Every connection, of every hop of every file, goes to an address that was
\* checked, however the name resolves meanwhile.
ConnectsWhereApproved ==
    ~allowPrivate => \A f \in Targets : connected[f] \notin Blocked

\* A fetch is bounded: though each hop has a timer of its own, and two files
\* follow the first, in time, to two rounds of hops; and in bytes, where a body
\* is taken whole or not at all, since "a truncated page would be scored as if
\* complete".
FetchIsBounded ==
    /\ elapsed <= FetchLimit
    /\ \A f \in Targets : at[f] = "found" => total[f] = size[f] /\ size[f] <= MaxBytes

\* Whatever the servers do or leave undone, the fetch ends.
FetchEnds == <>Ended
=============================================================================
