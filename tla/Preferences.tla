---------------------------- MODULE Preferences ----------------------------
(***************************************************************************)
(* The user's domain preferences and what the Gmail side makes of them:    *)
(* services/domain_preference_service.py over its table, the queries of    *)
(* gmail/query_builder.py, the candidates gmail/candidate_fetcher.py gets  *)
(* for them, and the trust level gmail/sender_trust.py gives a sender.     *)
(***************************************************************************)
EXTENDS Naturals

CONSTANTS
  Domains,         \* sender domains, normalised
  Addresses,       \* sender addresses, normalised
  Covers,          \* per domain: itself and its subdomains
  DefaultExcluded, \* default_exclude_domains
  DomainClass,     \* the fixed list a domain is on, or "corporate"
  From,            \* per mail: its sender address,
  FromDomain,      \* the domain of that,
  Terms            \* and the queries whose words it contains

PreferenceType == {"allow", "block", "exclude_sender"}
Key == Domains \cup Addresses
Mails == DOMAIN From

ASSUME PreferencesAssumption ==
  /\ Covers \in [Domains -> SUBSET Domains]
  /\ \A d \in Domains : d \in Covers[d]
  /\ DefaultExcluded \subseteq Domains
  /\ DomainClass \in [Domains -> {"shipping", "ecommerce", "free", "corporate"}]
  /\ From \in [Mails -> Addresses]
  /\ FromDomain \in [Mails -> Domains]
  /\ Terms \in [Mails -> SUBSET {"strong_shipping", "order_lifecycle",
                                 "weak_phrases", "allowlisted_domains"}]

-----------------------------------------------------------------------------
(* The table: one row per domain or address, with its preference type. *)

\* add_allowlist, add_blocklist, add_exclude_sender: an entry moves between lists.
Upsert(table, k, type) ==
  [j \in DOMAIN table \cup {k} |-> IF j = k THEN type ELSE table[j]]

\* remove_allowlist and its likes: the row goes, whatever list it is on.
RemoveRow(table, k) == [j \in DOMAIN table \ {k} |-> table[j]]

Listed(table, type) == {k \in DOMAIN table : table[k] = type}

\* get_preferences
DomainPreferences(table) ==
  [ allowlist       |-> Listed(table, "allow"),
    blocklist       |-> Listed(table, "block"),
    exclude_senders |-> Listed(table, "exclude_sender") ]

-----------------------------------------------------------------------------
(* Queries.  A query matches a mail that contains one of its words, comes from    *)
(* one of the domains it is restricted to, if any, and from none it excludes.     *)

CoveredBy(d, S) == \E e \in S \cap Domains : d \in Covers[e]

Query(name, prefs, restrict) ==
  [ name            |-> name,
    restrict        |-> restrict,
    exclude_domains |-> DefaultExcluded \cup prefs.blocklist,
    exclude_senders |-> prefs.exclude_senders ]

build_queries(prefs) ==
  { Query(n, prefs, {}) : n \in {"strong_shipping", "order_lifecycle",
                                 "weak_phrases"} }
    \cup IF prefs.allowlist = {} THEN {}
         ELSE {Query("allowlisted_domains", prefs, prefs.allowlist)}

\* What Gmail finds for a query.
Matches(q, m) ==
  /\ q.name \in Terms[m]
  /\ q.restrict # {} => CoveredBy(FromDomain[m], q.restrict)
  /\ ~CoveredBy(FromDomain[m], q.exclude_domains)
  /\ From[m] \notin q.exclude_senders

\* fetch: every message of the mailbox some query found.
Candidates(prefs) ==
  {m \in Mails : \E q \in build_queries(prefs) : Matches(q, m)}

-----------------------------------------------------------------------------
(* SenderTrustScorer.score: the user's blocklist first, then the fixed lists. *)

TrustLevel == {"high", "medium", "low", "blocked"}

score(d, blocklist) ==
  CASE CoveredBy(d, blocklist)                         -> "blocked"
    [] ~CoveredBy(d, blocklist)
         /\ DomainClass[d] \in {"shipping", "ecommerce"} -> "high"
    [] ~CoveredBy(d, blocklist) /\ DomainClass[d] = "corporate" -> "medium"
    [] OTHER                                           -> "low"

=============================================================================
