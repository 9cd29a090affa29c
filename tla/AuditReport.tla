---------------------------- MODULE AuditReport ----------------------------
(***************************************************************************)
(* The audit report (ListAudit in store/audit.go), as handleAudit and the  *)
(* audit page ask for it (httpapi/audit.go): one page of the events of a   *)
(* window that ends at the time of the request, their number and a         *)
(* histogram, from queries that follow one another while events are        *)
(* recorded.  A client that reads on asks again with a larger offset.  The *)
(* filters on columns choose the events and are left out.                  *)
(* A definition marked "Mutant" is a bug that could have been made in the  *)
(* next one; no specification uses it.                                     *)
(***************************************************************************)
EXTENDS Integers, Sequences, FiniteSets, SequencesExt

CONSTANTS
    EventIds,           \* identifiers of events, drawn at random
    Spans,              \* lengths of the window, None for all events
    PageSize,           \* limit
    BucketCount,        \* auditBucketCount
    DefaultSpan,        \* 24 hours, of a histogram without events
    MaxNow, MaxPages,   \* bounds
    None

VARIABLES
    time,
    recorded,           \* the events, [at, id]
    report,             \* where the request stands, and what it has read
    span,               \* the window that this client asks for
    pages,              \* the items of its pages so far
    first               \* the events that were in the window of its first page (history)

vars == <<time, recorded, report, span, pages, first>>

Fresh == [phase |-> "none", until |-> 0, offset |-> 0, total |-> 0, start |-> 0, counts |-> <<>>, before |-> {}]

Init ==
    /\ time = 1 /\ recorded = {}
    /\ report = Fresh /\ span \in Spans
    /\ pages = <<>> /\ first = {}

-----------------------------------------------------------------------------
(* auditWhere and the order of the items. *)

Matching(until) == {e \in recorded : e.at <= until /\ (span # None => e.at >= until - span)}

\* Mutant: the oldest come first.
ComesBeforeAscending(a, b) == a.at < b.at \/ (a.at = b.at /\ a.id > b.id)
ComesBefore(a, b) == a.at > b.at \/ (a.at = b.at /\ a.id > b.id)

Ordered(events) == SetToSortSeq(events, ComesBefore)

MinOf(a, b) == IF a < b THEN a ELSE b
Page(events, offset) ==
    SubSeq(Ordered(events), offset + 1, MinOf(offset + PageSize, Cardinality(events)))

-----------------------------------------------------------------------------
(* auditHistogram. *)

Earliest(events) == CHOOSE t \in {e.at : e \in events} : \A e \in events : t <= e.at

Start(until) ==
    CASE span # None -> until - span
      [] span = None /\ Matching(until) # {} -> Earliest(Matching(until))
      [] span = None /\ Matching(until) = {} -> until - DefaultSpan

\* A span is never shorter than the number of the buckets.
SpanMillis == LET s == report.until - report.start IN IF s < BucketCount THEN BucketCount ELSE s
\* Mutant: the width is rounded down.
WidthDown == SpanMillis \div BucketCount
Width == (SpanMillis + BucketCount - 1) \div BucketCount

\* An event at the very end belongs to the last bucket.
\* Mutant: it would fall behind it.
BucketBehind(e) == (e.at - report.start) \div Width + 1
Bucket(e) == MinOf((e.at - report.start) \div Width, BucketCount - 1) + 1

Histogram(events) == [b \in 1..BucketCount |-> Cardinality({e \in events : Bucket(e) = b})]

-----------------------------------------------------------------------------
(* The queries of one report, one after the other. *)

\* Nothing is followed after the last page (a bound).
Open == report.phase # "done" \/ Len(pages) < MaxPages

RecordEvent(id) ==
    /\ Open
    /\ id \notin {e.id : e \in recorded}
    /\ recorded' = recorded \cup {[at |-> time, id |-> id]}
    /\ UNCHANGED <<time, report, span, pages, first>>

TimePasses ==
    /\ Open
    /\ time < MaxNow /\ time' = time + 1
    /\ UNCHANGED <<recorded, report, span, pages, first>>

\* The window ends when the request comes; its events are counted first.
CountEvents ==
    /\ report.phase \in {"none", "done"} /\ Len(pages) < MaxPages
    /\ report' = [Fresh EXCEPT !.phase = "items", !.until = time, !.offset = Len(pages) * PageSize,
                               !.total = Cardinality(Matching(time)), !.before = Matching(time)]
    /\ UNCHANGED <<time, recorded, span, pages, first>>

ListItems ==
    /\ report.phase = "items"
    /\ pages' = Append(pages, Page(Matching(report.until), report.offset))
    /\ first' = IF pages = <<>> THEN Matching(report.until) ELSE first
    /\ report' = [report EXCEPT !.phase = "start"]
    /\ UNCHANGED <<time, recorded, span>>

FindStart ==
    /\ report.phase = "start"
    /\ report' = [report EXCEPT !.phase = "histogram", !.start = Start(report.until)]
    /\ UNCHANGED <<time, recorded, span, pages, first>>

\* No query is made for a window that was empty when it was counted.
CountBuckets ==
    /\ report.phase = "histogram"
    /\ report' = [report EXCEPT !.phase = "done",
                                !.counts = Histogram(IF report.total = 0 THEN {} ELSE Matching(report.until))]
    /\ UNCHANGED <<time, recorded, span, pages, first>>

Next ==
    \/ TimePasses
    \/ \E id \in EventIds : RecordEvent(id)
    \/ CountEvents \/ ListItems \/ FindStart \/ CountBuckets

Spec == Init /\ [][Next]_vars

-----------------------------------------------------------------------------
(* Types and properties. *)

ReportTypeOK ==
    /\ report.until <= time /\ report.start <= report.until
    /\ \A e \in recorded : e.at <= time

\* Reading on page by page skips no event of the first window that is still in the last one,
\* although the window moves and new events push the others on (ORDER BY created_at DESC, OFFSET).
PagesSkipNothing ==
    LET Read == UNION {{pages[i][j] : j \in DOMAIN pages[i]} : i \in DOMAIN pages}
        Kept == {e \in first : span # None => e.at >= report.until - span}
    IN report.phase = "done" /\ Len(pages[Len(pages)]) < PageSize => Kept \subseteq Read

\* Each bar counts the events between its ends, the last one those at its end too, and no event
\* of the window lies outside of them (auditHistogram).
BarsCountWhatTheySpan ==
    LET From(b) == report.start + (b - 1) * Width
        Of(b) == {e \in Matching(report.until) :
                    e.at >= From(b) /\ (e.at < From(b + 1) \/ (b = BucketCount /\ e.at = From(b + 1)))}
    IN report.phase = "done" /\ Matching(report.until) = report.before =>
        /\ \A b \in 1..BucketCount : report.counts[b] = Cardinality(Of(b))
        /\ report.before = UNION {Of(b) : b \in 1..BucketCount}

\* The number that is shown is the sum of the bars, unless events were recorded in between, and
\* then it is smaller or both are zero.
TotalsAgree ==
    report.phase = "done" =>
        LET Sum == FoldLeft(+, 0, report.counts) IN
        /\ report.total <= Sum
        /\ Matching(report.until) = report.before => Sum = report.total
=============================================================================
