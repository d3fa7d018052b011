------------------------------ MODULE CostFetch ------------------------------
(* One fetch of an account's costs for the days from Start to before End:  *)
(* Cost Explorer and Azure page by page, BigQuery in one query after a dry *)
(* run.  The service answers what it likes; its pages hold raw rows        *)
(* [day, service, charge, amount, currency].                               *)
EXTENDS Integers, Sequences

CONSTANTS
    Served,           \* what a service may have: sequences of pages, sets of raw rows
    None,               \* no service, no currency, no hint how long to wait
    Start, End,
    MaxPages, MaxRequests, MaxWait,     \* of the Azure adapter
    MaxScanned          \* of the BigQuery adapter

(* A service has one page at least.  The queries ask it to group by day,   *)
(* service and charge, and an account is billed in one currency: no two    *)
(* raw rows, on one page or on two, agree in the three.                    *)
ASSUME FetchConstants ==
    /\ MaxRequests \in Nat
    /\ \A bill \in Served :
        /\ Len(bill) \in Nat \ {0} /\ DOMAIN bill = 1 .. Len(bill)
        /\ \A i, j \in DOMAIN bill : \A raw \in bill[i], other \in bill[j] :
            <<raw.day, raw.service, raw.charge>> = <<other.day, other.service, other.charge>> => i = j /\ raw = other

VARIABLES
    fetch,      \* the adapter: where it is, its counters and its list of rows: <<answer, row>>
    link,       \* the page asked for next
    followed,       \* next links followed (Azure)
    result,     \* CostFetchResult, or none yet
    pages       \* what the service has

fetchVars == <<fetch, link, followed, result, pages>>

Unfinished == [error |-> "none", partial |-> TRUE, rows |-> {}, calls |-> 0, basis |-> "none"]

FetchInit ==
    /\ fetch \in [provider : {"aws", "azure", "gcp"}, at : {"new"}, pages : {0}, attempts : {0},
                  calls : {0}, rows : {{}}]
    /\ pages \in Served /\ link = 1 /\ followed = {} /\ result = Unfinished

-----------------------------------------------------------------------------
(* A raw row as a CostRow.  A charge type outside the adapter's table is   *)
(* other; BigQuery's credits are rows of their own.                        *)
AwsCategory(charge) ==
    CASE charge \in {"Usage", "DiscountedUsage", "SavingsPlanCoveredUsage"} -> "usage"
      [] charge \in {"Credit", "SavingsPlanNegation"} -> "credit"
      [] charge = "Refund" -> "refund" [] charge = "Tax" -> "tax" [] OTHER -> "other"
AzureCategory(charge) ==
    CASE charge = "Usage" -> "usage" [] charge = "Refund" -> "refund" [] OTHER -> "other"
GcpCategory(charge) ==
    CASE charge = "regular" -> "usage" [] charge = "tax" -> "tax" [] charge = "Credit" -> "credit"
      [] OTHER -> "other"
Category(provider, charge) ==
    CASE provider = "aws" -> AwsCategory(charge) [] provider = "azure" -> AzureCategory(charge)
      [] provider = "gcp" -> GcpCategory(charge)

(* The idempotency key tells the charge for AWS and Azure, but only the    *)
(* category for BigQuery.                                                  *)
Key(provider, raw) ==
    <<raw.day, raw.service, IF provider = "gcp" THEN GcpCategory(raw.charge) ELSE raw.charge>>

CostRow(provider, raw) ==
    [day |-> raw.day, service |-> raw.service, category |-> Category(provider, raw.charge),
     amount |-> raw.amount,
     currency |-> IF raw.currency = None /\ provider = "aws" THEN "USD" ELSE raw.currency,
     key |-> Key(provider, raw)]

InRange(raw) == Start <= raw.day /\ raw.day < End

(* AWS takes every group it can read; the others drop rows of other days   *)
(* and refuse a page with an amount in no currency.  BigQuery writes no    *)
(* row for nothing.                                                        *)
Readable(provider, raws) ==
    CASE provider = "aws" -> {CostRow("aws", raw) : raw \in {r \in raws : r.amount # None}}
      [] provider = "azure" -> {CostRow("azure", raw) : raw \in {r \in raws : InRange(r)}}
      [] provider = "gcp" -> {CostRow("gcp", raw) : raw \in {r \in raws : InRange(r) /\ r.amount \notin {0, None}}}
Malformed(provider, raws) ==
    CASE provider = "aws" -> FALSE
      [] provider = "azure" -> \E raw \in raws : InRange(raw) /\ (raw.amount = None \/ raw.currency = None)
      [] provider = "gcp" -> \E raw \in raws : InRange(raw) /\ raw.currency = None /\ raw.amount \notin {0, None}

(* The adapters extend a list: what is read again stands in it again, and  *)
(* is told from the first by the number of the answer it came with.        *)
Extended(f, answer, rows) == [f EXCEPT !.rows = @ \union ({answer} \X rows)]

(* Only AWS answers for every day of the range.                            *)
Complete(f) ==
    /\ fetch' = [f EXCEPT !.at = "done"]
    /\ result' = [error |-> "none", partial |-> FALSE, rows |-> f.rows, calls |-> f.calls,
                  basis |-> IF f.provider = "aws" THEN "complete_range" ELSE "observed_only"]

Fail(f, error) ==
    /\ fetch' = [f EXCEPT !.at = "done"]
    /\ result' = [error |-> error, partial |-> TRUE, rows |-> IF f.provider = "gcp" THEN {} ELSE f.rows,
                  calls |-> f.calls, basis |-> "observed_only"]

CannotStart ==
    /\ fetch.at = "new" /\ Fail(fetch, "PROVIDER_AUTHENTICATION_FAILED") /\ UNCHANGED <<link, followed>>

-----------------------------------------------------------------------------
(* Azure.  The page limit is looked at before a page, the request limit    *)
(* before anything is sent, by the transport: whatever resends a request   *)
(* is counted and stopped, too.                                            *)
NextPage ==
    /\ fetch.provider = "azure" /\ fetch.at \in {"new", "turning"}
    /\ LET f == [fetch EXCEPT !.pages = @ + 1, !.attempts = 0]
       IN  IF f.pages > MaxPages THEN Fail(f, "PROVIDER_API_ERROR")
           ELSE fetch' = [f EXCEPT !.at = "asking"] /\ result' = result
    /\ UNCHANGED <<link, followed>>

TransportUncapped(f) ==     \* changed: the transport counts and does not stop
    fetch' = [f EXCEPT !.at = "sent", !.calls = @ + 1] /\ result' = result

Transport(f) ==
    IF f.calls >= MaxRequests THEN Fail(f, "PROVIDER_API_ERROR")
    ELSE fetch' = [f EXCEPT !.at = "sent", !.calls = @ + 1] /\ result' = result

AskAzure ==
    /\ fetch.provider = "azure" /\ fetch.at = "asking"
    /\ LET f == [fetch EXCEPT !.attempts = @ + 1]
       IN  IF f.attempts > MaxRequests THEN Fail(f, "PROVIDER_API_ERROR") ELSE Transport(f)
    /\ UNCHANGED <<link, followed>>

(* An authentication challenge makes the pipeline send the request again.  *)
Challenged ==
    /\ fetch.provider = "azure" /\ fetch.at = "sent"
    /\ Transport(fetch) /\ UNCHANGED <<link, followed>>

RateLimited ==
    /\ fetch.provider = "azure" /\ fetch.at = "sent"
    /\ \E wait \in {None} \union 0 .. MaxWait + 1 :
        \/ /\ wait = None \/ (wait # None /\ wait > MaxWait)
           /\ Fail(fetch, "PROVIDER_RATE_LIMITED")
        \/ /\ wait # None /\ wait <= MaxWait
           /\ IF fetch.calls >= MaxRequests THEN Fail(fetch, "PROVIDER_API_ERROR")
              ELSE fetch' = [fetch EXCEPT !.at = "asking"] /\ result' = result
    /\ UNCHANGED <<link, followed>>

(* A page arrives, with a link to the next or back to one before.  The     *)
(* links that were followed are remembered, and one that repeats ends the  *)
(* fetch; the first page was asked for without a link.                     *)
PageReceivedTrusting ==     \* changed: a link that repeats is the end of the data
    /\ fetch.provider = "azure" /\ fetch.at = "sent"
    /\ LET f == Extended(fetch, fetch.pages, Readable("azure", pages[link]))
       IN  IF Malformed("azure", pages[link]) THEN Fail(fetch, "PROVIDER_API_ERROR") /\ UNCHANGED <<link, followed>>
           ELSE IF link = Len(pages) THEN Complete(f) /\ UNCHANGED <<link, followed>>
           ELSE \E next \in 1 .. link + 1 :
                    IF next \in followed THEN Complete(f) /\ UNCHANGED <<link, followed>>
                    ELSE /\ followed' = followed \union {next} /\ link' = next
                         /\ fetch' = [f EXCEPT !.at = "turning"] /\ result' = result

PageReceived ==
    /\ fetch.provider = "azure" /\ fetch.at = "sent"
    /\ LET f == Extended(fetch, fetch.pages, Readable("azure", pages[link]))
       IN  IF Malformed("azure", pages[link]) THEN Fail(fetch, "PROVIDER_API_ERROR") /\ UNCHANGED <<link, followed>>
           ELSE IF link = Len(pages) THEN Complete(f) /\ UNCHANGED <<link, followed>>
           ELSE \E next \in 1 .. link + 1 :
                    IF next \in followed THEN Fail(f, "PROVIDER_API_ERROR") /\ UNCHANGED <<link, followed>>
                    ELSE /\ followed' = followed \union {next} /\ link' = next
                         /\ fetch' = [f EXCEPT !.at = "turning"] /\ result' = result

(* 204: a service with nothing to tell has no body.                        *)
NoContent ==
    /\ fetch.provider = "azure" /\ fetch.at = "sent" /\ pages[link] = {} /\ link = Len(pages)
    /\ Complete(fetch) /\ UNCHANGED <<link, followed>>

-----------------------------------------------------------------------------
(* AWS counts the calls that were answered, and follows the token it gets. *)
AskAws ==
    /\ fetch.provider = "aws" /\ fetch.at \in {"new", "turning"}
    /\ LET f == [Extended(fetch, fetch.calls, Readable("aws", pages[link])) EXCEPT !.calls = @ + 1]
       IN  IF link = Len(pages) THEN Complete(f) /\ link' = link
           ELSE fetch' = [f EXCEPT !.at = "turning"] /\ link' = link + 1 /\ result' = result
    /\ followed' = followed

(* A call of either fails in a way that is not tried again.                *)
ProviderFails ==
    /\ \/ fetch.provider = "aws" /\ fetch.at \in {"new", "turning"}
       \/ fetch.provider = "azure" /\ fetch.at = "sent"
    /\ \E error \in {"CLOUD_PERMISSION_DENIED", "PROVIDER_API_ERROR",
                     IF fetch.provider = "aws" THEN "PROVIDER_RATE_LIMITED" ELSE "PROVIDER_AUTHENTICATION_FAILED"} :
        Fail(fetch, error)
    /\ UNCHANGED <<link, followed>>

-----------------------------------------------------------------------------
(* BigQuery.  The dry run tells what the query would scan; above the limit *)
(* it is not sent.                                                         *)
NotConfigured ==
    /\ fetch.provider = "gcp" /\ fetch.at = "new"
    /\ Fail(fetch, "COST_SETUP_REQUIRED") /\ UNCHANGED <<link, followed>>

DryRun ==
    /\ fetch.provider = "gcp" /\ fetch.at = "new"
    /\ LET f == [fetch EXCEPT !.calls = @ + 1]
       IN  \E scanned \in 0 .. MaxScanned + 1 :
            IF scanned > MaxScanned THEN Fail(f, "PROVIDER_API_ERROR")
            ELSE fetch' = [f EXCEPT !.at = "measured"] /\ result' = result
    /\ UNCHANGED <<link, followed>>

RunQuery ==
    /\ fetch.provider = "gcp" /\ fetch.at = "measured"
    /\ LET raws == UNION {pages[i] : i \in DOMAIN pages}
           f == [Extended(fetch, 1, Readable("gcp", raws)) EXCEPT !.calls = @ + 1]
       IN  IF Malformed("gcp", raws) THEN Fail(f, "PROVIDER_API_ERROR") ELSE Complete(f)
    /\ UNCHANGED <<link, followed>>

QueryFails ==
    /\ fetch.provider = "gcp" /\ fetch.at \in {"new", "measured"}
    /\ \E error \in {"CLOUD_PERMISSION_DENIED", "COST_SETUP_REQUIRED", "PROVIDER_API_ERROR"} :
        Fail([fetch EXCEPT !.calls = @ + 1], error)
    /\ UNCHANGED <<link, followed>>

Step ==
    \/ CannotStart \/ NextPage \/ AskAzure \/ Challenged \/ RateLimited \/ PageReceived \/ NoContent
    \/ AskAws \/ ProviderFails \/ NotConfigured \/ DryRun \/ RunQuery \/ QueryFails

FetchNext == Step /\ pages' = pages

FetchSpec == FetchInit /\ [][FetchNext]_fetchVars

-----------------------------------------------------------------------------
(* No more is sent than the limits allow, however the service answers, and *)
(* what was sent is what the result tells (azure_cost.py 131-160, 366-400).*)
BudgetHeld ==
    /\ fetch.provider = "azure" => fetch.calls <= MaxRequests
    /\ fetch.at = "done" => result.calls = fetch.calls

(* A result that is not partial holds every row of every page that the     *)
(* adapter can read, and no other.  No result, partial or not, holds two   *)
(* rows with one key, which the table of the costs would refuse with all   *)
(* the others (models.py 604) - but for the first page's of Azure, which   *)
(* are there twice when a link leads back to it (azure_cost.py 295-325).   *)
RowsTold == {entry[2] : entry \in result.rows}
FirstPageAgain == fetch.provider = "azure" /\ 1 \in followed

EveryRowOnce ==
    fetch.at = "done" =>
        /\ ~result.partial => RowsTold = UNION {Readable(fetch.provider, pages[i]) : i \in DOMAIN pages}
        /\ fetch.provider \in {"aws", "azure"} =>
            \A entry, other \in result.rows :
                entry[2].key = other[2].key =>
                    entry = other \/ (FirstPageAgain /\ entry[2] = other[2] /\ entry[2] \in Readable("azure", pages[1]))

FetchTypeOK ==
    /\ link \in DOMAIN pages /\ followed \subseteq DOMAIN pages
    /\ result.rows \subseteq fetch.rows /\ (result.error # "none" => result.partial)
=============================================================================
