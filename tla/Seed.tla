-------------------------------- MODULE Seed --------------------------------
(***************************************************************************)
(* prisma/seed.ts: the script that fills a database with fixtures.  A run   *)
(* is given a scope (SEED_ENV) and may first empty the database             *)
(* (SEED_RESET).  Every statement is a step of its own and the process may  *)
(* end between two of them.  Of the database the model keeps which tables   *)
(* hold rows, how often the fixtures were inserted into each, and which     *)
(* scopes have a marker user.  A row of a table with a required reference   *)
(* may refer to any table the schema lets it refer to.                      *)
(***************************************************************************)
EXTENDS Integers, Sequences, FiniteSets

CONSTANTS Envs,      \* values of SEED_ENV
          MaxSeeds   \* bound on the number of runs

ASSUME SeedAssumption == MaxSeeds \in Nat

VARIABLES
    sdRows,      \* tables that hold rows
    sdFixtures,  \* [FixtureTables -> Nat]: times the fixtures were inserted
    sdMarkers,   \* scopes whose marker user exists
    sdRun,       \* the scope of the run under way, "none" between runs
    sdAt,        \* its position in the list of statements, 0 between runs
    sdSeeds,     \* runs started so far
    sdOutcome    \* how the last run ended

sdVars == <<sdRows, sdFixtures, sdMarkers, sdRun, sdAt, sdSeeds, sdOutcome>>

-----------------------------------------------------------------------------
(* The schema: which rows refer to which, and what a deletion does to them. *)

\* Mutant of DeletionOrder: the listings before the transactions about them.
DeletionOrder_PropertyFirst ==
    <<"OpenHouse", "Property", "Document", "Transaction", "Neighborhood", "User">>

\* Mutant of DeletionOrder: only the tables that cascades do not reach are thought of.
DeletionOrder_Cascading ==
    <<"OpenHouse", "Document", "Transaction", "Neighborhood", "Property", "User">>

\* The deleteMany calls of main, in their order.
DeletionOrder ==
    <<"OpenHouseRsvp", "OpenHouse", "TransactionNote", "TransactionMilestone",
      "TransactionHistory", "TransactionTaxStrategy", "Dispute", "Commission", "PropertyAgent",
      "PropertyFavorite", "PropertyView", "PropertyAmenity", "PropertyDuplicate", "PropertyImage",
      "DocumentVersion", "Document", "Transaction", "NeighborhoodSchool", "NeighborhoodAmenity",
      "Neighborhood", "Property", "Notification", "FraudInvestigationNote", "FraudAlert",
      "Session", "LoginHistory", "LoginAttempt", "PasswordResetToken", "BlacklistedToken",
      "PasswordHistory", "ApiKey", "ActivityLog", "UserPreferences", "SavedFilter",
      "SearchAnalytics", "SearchHistory", "PopularSearch", "SearchSuggestion", "EmailEngagement",
      "EmailBounce", "DigestPreference", "LinkClick", "VerificationDocument", "ExportJob", "User",
      "DatabaseBackup", "BackupScheduleConfig">>

\* Tables whose rows go with the row of `t` they refer to (onDelete: Cascade).
\* BlacklistedToken, whose reference to a user may be null, need not be emptied so.
Cascades(t) ==
    CASE t = "User" -> {"ApiKey", "PasswordHistory", "PasswordResetToken", "LoginHistory",
                        "Property", "PropertyFavorite", "Document", "UserPreferences",
                        "ActivityLog", "Session", "TrustedDevice", "VerificationDocument",
                        "SavedFilter", "SearchHistory", "Notification", "EmailEngagement",
                        "EmailBounce", "DigestPreference", "PropertyAgent", "Commission",
                        "OpenHouseRsvp", "Webhook", "TourRequest", "AgentAvailability",
                        "SupportTicket", "SupportTicketNote"}
      [] t = "Property" -> {"PropertyImage", "PropertyFavorite", "PropertyPriceHistory",
                            "PropertyView", "PropertyAgent", "Commission", "PropertyAmenity",
                            "PropertyDuplicate", "OpenHouse", "TourRequest"}
      [] t = "Neighborhood" -> {"NeighborhoodSchool", "NeighborhoodAmenity"}
      [] t = "Transaction" -> {"TransactionTaxStrategy", "Dispute", "TransactionMilestone",
                               "TransactionHistory", "Commission", "TransactionNote"}
      [] t = "Document" -> {"DocumentVersion"}
      [] t = "FraudAlert" -> {"FraudInvestigationNote"}
      [] t = "OpenHouse" -> {"OpenHouseRsvp"}
      [] t = "ApiKey" -> {"ApiKeyUsageDaily"}
      [] t = "Webhook" -> {"WebhookDeliveryLog"}
      [] t = "SupportTicket" -> {"SupportTicketNote"}
      [] OTHER -> {}

\* Tables whose rows keep the row of `t` they refer to from being deleted.
Restricts(t) ==
    CASE t = "User" -> {"Transaction", "Dispute", "TransactionNote"}
      [] t = "Property" -> {"Transaction"}
      [] OTHER -> {}

\* Tables that a reset neither names nor reaches through a cascade.
Survivors == {"AccountDeletionAudit", "ComparisonShare", "RequestLog"}

Parents == {"User", "Property", "Neighborhood", "Transaction", "Document", "FraudAlert",
            "OpenHouse", "ApiKey", "Webhook", "SupportTicket"}

Tables ==
    Survivors \cup Parents \cup (UNION {Cascades(t) : t \in Parents})
      \cup {"LoginAttempt", "BlacklistedToken", "SearchAnalytics", "PopularSearch", "LinkClick",
            "SearchSuggestion", "ExportJob", "DatabaseBackup", "BackupScheduleConfig"}

Reached(S) == S \cup UNION {Cascades(t) : t \in S}

\* Everything a deletion of the rows of `t` deletes: no chain of cascades is longer than 3.
Closure(t) == Reached(Reached(Reached({t})))

Blocked(t) ==
    \E x \in Closure(t) : \E r \in Restricts(x) : r \in sdRows /\ r \notin Closure(t)

-----------------------------------------------------------------------------
(* The fixtures: what each block of main inserts.                           *)

\* The roles of USERS_DATA.
USERS_DATA == [ADMIN |-> 1, AGENT |-> 5, USER |-> 18]

NEIGHBORHOODS == 10

PROPERTY_TEMPLATES == 51

\* A block: the table, what its rows refer to, whether it upserts on a unique key,
\* whether a second set of rows for the same users violates one, and the rows drawn
\* from (an empty choice would end the run).
Block(t, refs, mode, drawn) == [table |-> t, refs |-> refs, mode |-> mode, drawn |-> drawn]

UserBlock == Block("User", {}, "upsert", 1)

NeighborhoodBlocks ==
    <<Block("Neighborhood", {}, "upsert", NEIGHBORHOODS),
      Block("NeighborhoodSchool", {"Neighborhood"}, "create", NEIGHBORHOODS),
      Block("NeighborhoodAmenity", {"Neighborhood"}, "create", NEIGHBORHOODS)>>

PropertyBlocks ==
    <<Block("Property", {"User", "Neighborhood"}, "create", USERS_DATA.AGENT + USERS_DATA.USER),
      Block("PropertyAgent", {"Property", "User"}, "create", USERS_DATA.AGENT),
      Block("PropertyImage", {"Property"}, "create", PROPERTY_TEMPLATES),
      Block("PropertyAmenity", {"Property"}, "create", PROPERTY_TEMPLATES)>>

TransactionBlocks ==
    <<Block("Transaction", {"Property", "User"}, "create", PROPERTY_TEMPLATES),
      Block("TransactionHistory", {"Transaction"}, "create", PROPERTY_TEMPLATES),
      Block("TransactionMilestone", {"Transaction"}, "create", PROPERTY_TEMPLATES)>>

DocumentBlocks ==
    <<Block("Document", {"Property", "User"}, "create", PROPERTY_TEMPLATES),
      Block("Notification", {"User"}, "create", 15)>>

OpenHouseBlocks ==
    <<Block("OpenHouse", {"Property"}, "create", 15),
      Block("OpenHouseRsvp", {"OpenHouse", "User"}, "create", USERS_DATA.USER)>>

\* userPreferences.create and not upsert: the column user_id is unique.
AccountBlocks ==
    <<Block("UserPreferences", {"User"}, "unique", 1),
      Block("PropertyFavorite", {"User", "Property"}, "create", USERS_DATA.USER),
      Block("ApiKey", {"User"}, "create", 1)>>

Blocks ==
    <<UserBlock>> \o NeighborhoodBlocks \o PropertyBlocks \o TransactionBlocks \o DocumentBlocks
      \o OpenHouseBlocks \o AccountBlocks

FixtureTables == {Blocks[i].table : i \in DOMAIN Blocks}

MarkerAt == Len(DeletionOrder) + 1

SdTypeOK ==
    /\ sdRows \subseteq Tables
    /\ sdFixtures \in [FixtureTables -> 0..MaxSeeds]
    /\ sdMarkers \subseteq Envs
    /\ sdRun \in Envs \cup {"none"}
    /\ sdAt \in 0..(MarkerAt + Len(Blocks))
    /\ sdSeeds \in 0..MaxSeeds
    /\ sdOutcome \in {"none", "skipped", "done", "died", "restrict", "unique", "reference"}

\* A new database, or one the application has filled.
SdInit ==
    /\ sdRows \in {{}, Tables}
    /\ sdFixtures = [t \in FixtureTables |-> 0]
    /\ sdMarkers = {} /\ sdRun = "none" /\ sdAt = 0 /\ sdSeeds = 0 /\ sdOutcome = "none"

Stop(how) == sdAt' = 0 /\ sdRun' = "none" /\ sdOutcome' = how

-----------------------------------------------------------------------------
(* A run.                                                                    *)

\* NODE_ENV is production, SEED_ALLOW_IN_PRODUCTION is set.
assertSeedingAllowed(production, override) == production => override

main(e, reset) ==
    /\ sdAt = 0 /\ sdSeeds < MaxSeeds
    /\ \E production, override \in BOOLEAN : assertSeedingAllowed(production, override)
    /\ sdSeeds' = sdSeeds + 1
    /\ IF e \in sdMarkers /\ ~reset
       THEN Stop("skipped")
       ELSE /\ sdRun' = e
            /\ sdAt' = IF reset THEN 1 ELSE MarkerAt
            /\ sdOutcome' = "none"
    /\ UNCHANGED <<sdRows, sdFixtures, sdMarkers>>

deleteMany ==
    /\ sdAt \in DOMAIN DeletionOrder
    /\ LET t == DeletionOrder[sdAt]
           gone == Closure(t)
       IN  IF Blocked(t)
           THEN Stop("restrict") /\ UNCHANGED <<sdRows, sdFixtures, sdMarkers>>
           ELSE /\ sdRows' = sdRows \ gone
                /\ sdFixtures' = [x \in FixtureTables |-> IF x \in gone THEN 0 ELSE sdFixtures[x]]
                /\ sdMarkers' = IF "User" \in gone THEN {} ELSE sdMarkers
                /\ sdAt' = sdAt + 1
                /\ UNCHANGED <<sdRun, sdOutcome>>
    /\ UNCHANGED sdSeeds

\* Mutant of createMarker: the marker is only written when the run has completed.
createMarker_Late ==
    /\ sdAt = MarkerAt
    /\ sdAt' = sdAt + 1
    /\ UNCHANGED <<sdRows, sdFixtures, sdMarkers, sdRun, sdSeeds, sdOutcome>>

\* The marker comes before the fixtures; its e-mail address is unique.
createMarker ==
    /\ sdAt = MarkerAt
    /\ IF sdRun \in sdMarkers
       THEN Stop("unique") /\ UNCHANGED <<sdRows, sdMarkers>>
       ELSE /\ sdMarkers' = sdMarkers \cup {sdRun}
            /\ sdRows' = sdRows \cup {"User"}
            /\ sdAt' = sdAt + 1
            /\ UNCHANGED <<sdRun, sdOutcome>>
    /\ UNCHANGED <<sdFixtures, sdSeeds>>

insertBlock ==
    /\ sdAt > MarkerAt
    /\ LET b == Blocks[sdAt - MarkerAt]
           n == sdFixtures[b.table]
       IN  IF b.drawn = 0 \/ ~(b.refs \subseteq sdRows)
           THEN Stop("reference") /\ UNCHANGED <<sdRows, sdFixtures>>
           ELSE IF b.mode = "unique" /\ n > 0
           THEN Stop("unique") /\ UNCHANGED <<sdRows, sdFixtures>>
           ELSE /\ sdRows' = sdRows \cup {b.table}
                /\ sdFixtures' = [sdFixtures EXCEPT ![b.table] = IF b.mode = "upsert" THEN 1
                                                                 ELSE @ + 1]
                /\ IF sdAt = MarkerAt + Len(Blocks)
                   THEN Stop("done")
                   ELSE sdAt' = sdAt + 1 /\ UNCHANGED <<sdRun, sdOutcome>>
    /\ UNCHANGED <<sdMarkers, sdSeeds>>

\* The process is stopped, or a statement fails for a reason outside the script.
dies ==
    /\ sdAt > 0
    /\ Stop("died")
    /\ UNCHANGED <<sdRows, sdFixtures, sdMarkers, sdSeeds>>

SdNext ==
    \/ \E e \in Envs, reset \in BOOLEAN : main(e, reset)
    \/ deleteMany \/ createMarker \/ insertBlock \/ dies

SdSpec == SdInit /\ [][SdNext]_sdVars

-----------------------------------------------------------------------------
(* Properties.                                                               *)

\* No statement of a run is refused for a foreign key: the deletions empty every table
\* before the tables its rows restrict, whatever the application stored, and the
\* insertions come after the rows they refer to (seed.ts:748-794, 809-1295).
ForeignKeysKept == sdOutcome \notin {"restrict", "reference"}

\* When a reset is through, nothing of a user is left, neither named nor forgotten in the
\* list of deletions: only audit entries and shares, whose reference to a user becomes
\* null, and the request log, which has no foreign key.  New fixtures do not mix with old data.
ResetEmpties ==
    [][sdAt = Len(DeletionOrder) /\ sdAt' = MarkerAt => sdRows' \subseteq Survivors]_sdVars

\* The fixtures are in the database twice only when two scopes were seeded into it: a
\* run that died half-way is never repeated on top of its own rows.
FixturesOncePerScope ==
    (\E t \in FixtureTables : sdFixtures[t] > 1) => Cardinality(sdMarkers) > 1
=============================================================================
