-------------------------------- MODULE Pages -------------------------------
(***************************************************************************)
(* A walk through a paginated endpoint (ESPNClient.paginate,                *)
(* src/backend/src/providers/espn/client.py), and the walk that resumes     *)
(* after the pages a failed one yielded (discovery.py).                     *)
(*                                                                          *)
(* A page is asked for and answered while the list behind the endpoint may  *)
(* change.  The server is one of these: "paged" answers the page asked for, *)
(* with its number and the number of pages; "bare" answers it without       *)
(* them; "stuck" answers its first page, numbered 1, to every request;      *)
(* "echoing" answers it under the number asked for.  The items of a list    *)
(* of $refs have no id.  limit, which no caller passes, is not modelled.    *)
(***************************************************************************)
EXTENDS Integers, Sequences, FiniteSets, SequencesExt

CONSTANTS
    Items,        \* what the endpoint lists at first
    Newcomer,     \* an item that may be listed later
    PageSize,     \* config.page_limit
    MaxPages,     \* the pagination cap
    MaxChanges,   \* bound on the changes of the list
    MaxFailures   \* bound on failed requests

VARIABLES
    server,       \* the kind of server
    named,        \* do the items have ids?
    listing,      \* the list behind the endpoint
    page,         \* params["page"]: the page to ask for
    yielded,      \* pages_yielded
    seenIds,      \* seen_item_ids
    got,          \* items the walk and those it resumes have yielded
    walk,         \* "walking", "failed", or why it ended
    changes, failures

answerVars == <<server, named, listing, changes>>
vars == <<answerVars, page, yielded, seenIds, got, walk, failures>>

Init ==
    /\ server \in {"paged", "bare", "stuck", "echoing"} /\ named \in BOOLEAN
    /\ listing = Items
    /\ page = 1 /\ yielded = 0 /\ seenIds = {} /\ got = {} /\ walk = "walking"
    /\ changes = 0 /\ failures = 0

\* An answer: the items, pageIndex or the page asked for, pageCount or 0.
PageCount == (Len(listing) + PageSize - 1) \div PageSize
Slice(n) ==
    {listing[i] : i \in {i \in DOMAIN listing : i > (n - 1) * PageSize /\ i <= n * PageSize}}
Answer ==
    [items |-> Slice(IF server \in {"stuck", "echoing"} THEN 1 ELSE page),
     index |-> IF server = "stuck" THEN 1 ELSE page,
     count |-> IF server \in {"paged", "stuck"} THEN PageCount ELSE 0]

IdsOf(a)     == IF named THEN a.items ELSE {}
CapReached   == yielded + 1 >= MaxPages
Duplicate(a) == IdsOf(a) # {} /\ IdsOf(a) \subseteq seenIds

\* Mutant: pages counted from 0.
LastPageFromZero(a) == a.count # 0 /\ a.index + 1 >= a.count

LastPage(a)  == a.count # 0 /\ a.index >= a.count
Advances(a)  == a.index + 1 > page

\* What the walk does after this answer.
Verdict(a) ==
    IF CapReached THEN "capped"
    ELSE IF ~Duplicate(a) /\ LastPage(a) THEN "last"
    ELSE IF Duplicate(a) \/ ~Advances(a) THEN "stalled"
    ELSE "walking"

\* A page without items ends the walk, and is not yielded.
EmptyPage ==
    /\ walk = "walking" /\ Answer.items = {}
    /\ walk' = "last"
    /\ UNCHANGED <<answerVars, page, yielded, seenIds, got, failures>>

YieldPage ==
    /\ walk = "walking" /\ Answer.items # {}
    /\ yielded' = yielded + 1
    /\ got' = got \cup Answer.items
    /\ walk' = Verdict(Answer)
    /\ IF CapReached \/ Duplicate(Answer)
       THEN UNCHANGED seenIds
       ELSE seenIds' = seenIds \cup IdsOf(Answer)
    /\ page' = IF walk' = "walking" THEN Answer.index + 1 ELSE page
    /\ UNCHANGED <<answerVars, failures>>

\* get_json raises, and so does the generator.
FailPage ==
    /\ walk = "walking" /\ failures < MaxFailures
    /\ failures' = failures + 1
    /\ walk' = "failed"
    /\ UNCHANGED <<answerVars, page, yielded, seenIds, got>>

\* A walk that starts behind the pages that were processed, and knows nothing
\* of their items.
Resume ==
    /\ walk = "failed"
    /\ walk' = "walking"
    /\ yielded' = 0 /\ seenIds' = {}
    /\ UNCHANGED <<answerVars, page, got, failures>>

\* The first item goes, or one is put before it.
Change ==
    /\ changes < MaxChanges /\ changes' = changes + 1
    /\ \/ listing # <<>> /\ listing' = Tail(listing)
       \/ Newcomer \notin Range(listing) /\ listing' = <<Newcomer>> \o listing
    /\ UNCHANGED <<server, named, page, yielded, seenIds, got, walk, failures>>

Next == EmptyPage \/ YieldPage \/ FailPage \/ Resume \/ Change

Spec == Init /\ [][Next]_vars

----------------------------------------------------------------------------
TypeOK ==
    /\ server \in {"paged", "bare", "stuck", "echoing"} /\ named \in BOOLEAN
    /\ listing \in Seq(Range(Items) \cup {Newcomer})
    /\ page \in Nat \ {0} /\ yielded \in 0..MaxPages
    /\ seenIds \subseteq got /\ got \subseteq Range(Items) \cup {Newcomer}
    /\ walk \in {"walking", "failed", "last", "stalled", "capped"}
    /\ changes \in 0..MaxChanges /\ failures \in 0..MaxFailures

Whole == Range(listing) \subseteq got

\* A walk over a list that rests, by a server that pages, ends with the whole
\* list unless the cap cut it off, through failures and resumptions and with
\* or without page numbers; and a server that repeats itself is noticed at
\* its second page, by the ids or by the page number.
WalksEndWhole ==
    /\ server \in {"paged", "bare"} /\ changes = 0 /\ walk \in {"last", "stalled"} => Whole
    /\ server = "stuck" \/ (server = "echoing" /\ named) =>
          yielded <= 2 + changes

\* "A full page of already-seen item IDs means the server is re-serving data":
\* refuted for the lists of $refs, whose items have no id.
RepeatsAreNoticed == server = "echoing" => yielded <= 2 + changes

\* A walk that ends by itself has every item that was there all along: refuted
\* when an item on an earlier page goes and one moves there.
NoItemIsMissed == walk = "last" /\ server = "paged" => Range(listing) \subseteq got \cup {Newcomer}
=============================================================================
