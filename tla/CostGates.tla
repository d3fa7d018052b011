----------------------------- MODULE CostGates ------------------------------
(* The accounts whose costs are read, which of them may be collected       *)
(* (settings), and what the service says of an account's collection.  A    *)
(* ledger is what a session reads at one moment:                           *)
(*   rows   set of [account, day, service, category, currency, amount,     *)
(*          asOf] (cloud_account_costs)                                    *)
(*   runs   sequence of [account, window, status, basis, trigger, error]   *)
(*          in the order they were asked for, which is also the order they *)
(*          ended in (cost_ingestion_runs)                                 *)
(*   keys   accounts with a credential left                                *)
(*   verified  those of them with one that the provider accepted           *)
(*   today  the UTC date                                                   *)
EXTENDS Coverage, TLC

CONSTANTS
    Accounts,           \* ids, which order them
    Provider,           \* [Accounts -> CloudAccount.provider]
    TeamOf,             \* [Accounts -> team or NoTeam]
    NoTeam,
    ManualProviders,    \* COST_INGEST_PROVIDERS, unknown names dropped
    AutoProviders,      \* COST_AUTO_INGEST_PROVIDERS, likewise
    AllowedAccounts,    \* COST_INGEST_ACCOUNT_IDS, malformed entries dropped
    SetupMissing        \* accounts whose export table is not configured

ASSUME AccountAssumption ==
    /\ Accounts \subseteq Nat /\ IsFiniteSet(Accounts)
    /\ DOMAIN Provider = Accounts /\ DOMAIN TeamOf = Accounts
    /\ AllowedAccounts \subseteq Accounts /\ SetupMissing \subseteq Accounts

None == "none"      \* Python's None among names and codes

KnownProviders == {"aws", "azure", "gcp"}
AccountScopedProviders == {"azure", "gcp"}
CostAdapters == {"aws", "azure", "gcp"}

IsCostSupported(provider) == provider \in CostAdapters

(* A listed provider, and for those collected account by account a listed  *)
(* account as well.                                                        *)
Denial(a, enabled) ==
    IF Provider[a] \notin enabled \intersect KnownProviders THEN "INGEST_DISABLED"
    ELSE IF Provider[a] \in AccountScopedProviders /\ a \notin AllowedAccounts
         THEN "ACCOUNT_NOT_ENABLED" ELSE None

ManualIngestDenial(a) == Denial(a, ManualProviders)
AutoIngestAllowed(a) == Denial(a, AutoProviders) = None
IngestEnabled(a) == ManualIngestDenial(a) = None \/ AutoIngestAllowed(a)

-----------------------------------------------------------------------------
(* The runs of an account that have such a status, in their order.         *)
RunsOf(ledger, a, statuses) ==
    LET mine == {i \in DOMAIN ledger.runs :
                    ledger.runs[i].account = a /\ ledger.runs[i].status \in statuses}
        nth(k) == CHOOSE i \in mine : Cardinality({j \in mine : j < i}) = k - 1
    IN  [k \in 1 .. Cardinality(mine) |-> ledger.runs[nth(k)]]

LastSuccess(ledger, a) == RunsOf(ledger, a, {"success"})

(* Currency of the row stored last.                                        *)
AccountCurrency(ledger, a) ==
    LET mine == {row \in ledger.rows : row.account = a}
    IN  IF mine = {} THEN None
        ELSE (CHOOSE row \in mine : \A other \in mine : other.asOf <= row.asOf).currency

ErrorStatus(code) ==
    CASE code = "CLOUD_PERMISSION_DENIED" -> "PERMISSION_DENIED"
      [] code = "COST_SETUP_REQUIRED" -> "SETUP_REQUIRED"
      [] OTHER -> "COLLECT_FAILED"

(* What the last run that ended says; the settings speak only before it.   *)
ConnectedStatus(ledger, a) ==
    LET ended == RunsOf(ledger, a, {"success", "partial_success", "failed"})
        last == Last(ended)
    IN  IF ended = <<>> THEN (IF a \in SetupMissing THEN "SETUP_REQUIRED" ELSE "PENDING")
        ELSE CASE last.status = "success" ->
                      IF \E row \in ledger.rows : row.account = a /\ row.asOf = last.id
                      THEN "CONNECTED_OK" ELSE "CONNECTED_EMPTY"
               [] last.status = "partial_success" -> "CONNECTED_PARTIAL"
               [] last.status = "failed" -> ErrorStatus(last.error)

(* A key the provider did not accept connects nothing.                     *)
AccountCapability(ledger, a) ==
    LET supported == IsCostSupported(Provider[a])
        connected == supported /\ a \in ledger.verified
        done == LastSuccess(ledger, a)
    IN  [status |-> IF ~supported THEN "UNSUPPORTED"
                    ELSE IF ~connected THEN "NOT_CONNECTED"
                    ELSE ConnectedStatus(ledger, a),
         asOf |-> IF supported /\ done # <<>> THEN Last(done).id ELSE 0,
         currency |-> IF connected THEN AccountCurrency(ledger, a) ELSE None]
=============================================================================
