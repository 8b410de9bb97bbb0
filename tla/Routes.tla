------------------------------- MODULE Routes -------------------------------
(***************************************************************************)
(* One HTTP request through the application: the router picks the first     *)
(* registered route that matches, the global RateLimitGuard runs, then the  *)
(* guards of the class and of the method in their order, then the handler,  *)
(* which reads the identity the guards attached to the request.             *)
(*                                                                           *)
(* A caller presents a valid bearer token, a valid API key, both or none;   *)
(* `role` is the role of its account.  Limits, the fresh second factor and  *)
(* the metrics rules may refuse whatever the request (their counters are     *)
(* modelled in RateLimits and TwoFactor).  The bodies of the handlers are    *)
(* in the modules of their services.                                        *)
(***************************************************************************)
EXTENDS Sequences, Integers, FiniteSets

-----------------------------------------------------------------------------
(***************************************************************************)
(* The HTTP endpoints the controllers declare, as data: one sequence of     *)
(* routes per controller, in the order of its methods.  A route has the     *)
(* method and path of its decorator (":" stands for a path parameter), the  *)
(* guards in the order Nest runs them (those of the class, then those of    *)
(* the method; two stacked @UseGuards run the lower one first), the roles   *)
(* of @Roles, the scope of @RequireScopes, and which identity its handler   *)
(* reads from the request: "sub" the CurrentUser parameter (authUser.sub),  *)
(* "id" a field `id` of it, "user" request.user, "none" no identity.        *)
(***************************************************************************)


Route(m, p) == [method |-> m, path |-> p, guards |-> <<>>, roles |-> {}, scope |-> "none",
                reads |-> "none"]

GET(p) == Route("GET", p)
POST(p) == Route("POST", p)
PUT(p) == Route("PUT", p)
PATCH(p) == Route("PATCH", p)
DELETE(p) == Route("DELETE", p)

Own(r) == [r EXCEPT !.reads = "sub"]
ById(r) == [r EXCEPT !.reads = "id"]
ByUser(r) == [r EXCEPT !.reads = "user"]
Scope(s, r) == [r EXCEPT !.scope = s]
With(guards, roles, r) == [r EXCEPT !.guards = guards, !.roles = roles]
Jwt(r) == With(<<"jwt">>, {}, r)
Adm(r) == With(<<"jwt", "roles">>, {"ADMIN"}, r)

\* A controller: the prefix and guards of the class, and its roles where the handler
\* declares none (Reflector.getAllAndOverride over the handler and the class).
At(prefix, guards, roles, routes) ==
    [i \in DOMAIN routes |->
       [routes[i] EXCEPT !.path = prefix \o @, !.guards = guards \o @,
                         !.roles = IF @ = {} THEN roles ELSE @]]

-----------------------------------------------------------------------------
(* The controllers that a module of AppModule's tree registers.             *)

AppController == At(<<>>, <<>>, {}, <<
    GET(<<>>), GET(<<"health">>), GET(<<"version">>), GET(<<"deprecated-endpoint">>)>>)

CacheStatsController == At(<<"cache">>, <<"jwt", "roles">>, {"ADMIN"}, <<
    GET(<<"stats">>), GET(<<"health">>), DELETE(<<"clear">>)>>)

AnalyticsController == At(<<"analytics">>, <<"jwt", "roles">>, {"ADMIN"}, <<
    GET(<<>>), GET(<<"endpoints">>), GET(<<"slow-endpoints">>), GET(<<"errors">>),
    GET(<<"users">>), GET(<<"users", ":">>), DELETE(<<"reset">>)>>)

AuthController_Session == At(<<"auth">>, <<>>, {}, <<
    With(<<"clientLimit">>, {}, POST(<<"register">>)), With(<<"google">>, {}, GET(<<"google">>)),
    With(<<"google">>, {}, ByUser(GET(<<"google", "callback">>))), POST(<<"login">>),
    With(<<"clientLimit">>, {}, POST(<<"refresh">>)), Jwt(Own(POST(<<"logout">>))),
    Jwt(Own(POST(<<"logout-all">>))), Jwt(Own(GET(<<"me">>))),
    With(<<"jwt", "fresh">>, {}, Own(POST(<<"change-password">>))),
    Jwt(Own(POST(<<"2fa", "setup">>))), Jwt(Own(POST(<<"2fa", "verify">>))),
    With(<<"jwt", "fresh">>, {}, Own(POST(<<"2fa", "disable">>))),
    With(<<"jwt", "fresh">>, {}, Own(POST(<<"2fa", "recovery-codes">>))),
    Jwt(Own(GET(<<"2fa", "devices">>))), Jwt(Own(DELETE(<<"2fa", "devices", ":">>)))>>)

AuthController_Keys == At(<<"auth">>, <<>>, {}, <<
    Adm(Own(POST(<<"2fa", "admin", "force-disable">>))),
    With(<<"key">>, {}, Own(GET(<<"api-keys", "validate">>))), Jwt(Own(POST(<<"api-keys">>))),
    Jwt(Own(GET(<<"api-keys">>))), Jwt(Own(POST(<<"api-keys", ":", "rotate">>))),
    Jwt(Own(POST(<<"api-keys", ":", "revoke">>))),
    Jwt(Own(PATCH(<<"api-keys", ":", "permissions">>))),
    Jwt(Own(GET(<<"api-keys", ":", "usage">>))),
    With(<<"clientLimit">>, {}, POST(<<"password-reset", "request">>)),
    With(<<"clientLimit">>, {}, POST(<<"password-reset", "reset">>)),
    Adm(POST(<<"unlock-account">>)), POST(<<"login-status">>),
    With(<<"clientLimit">>, {}, POST(<<"verify-email">>)),
    With(<<"clientLimit">>, {}, POST(<<"email", "resend">>))>>)

RateLimitAdminController == At(<<"admin", "rate-limits">>, <<"jwt", "roles">>, {"ADMIN"}, <<
    GET(<<"user", ":">>), GET(<<"endpoint", ":">>), DELETE(<<"user", ":", "reset">>),
    DELETE(<<"ip", ":", "reset">>), DELETE(<<"endpoint", ":", "reset">>),
    DELETE(<<"api-key", ":", "reset">>), GET(<<"summary">>)>>)

AuthHealthController == At(<<"auth", "health">>, <<>>, {}, <<
    GET(<<>>)>>)

UsersHealthController == At(<<"users", "health">>, <<>>, {}, <<
    GET(<<>>)>>)

UsersController_Manage == At(<<"users">>, <<>>, {}, <<
    Jwt(Own(POST(<<"me", "request-deletion">>))), Jwt(Own(POST(<<"me", "cancel-deletion">>))),
    Jwt(Own(POST(<<"me", "request-export">>))), Jwt(GET(<<"me", "exports", ":", "stream">>)),
    With(<<"jwt", "roles", "callerLimit">>, {"ADMIN"}, POST(<<>>)), Adm(GET(<<>>)),
    With(<<"jwt", "roles", "callerLimit">>, {"ADMIN"}, GET(<<"search">>)),
    With(<<"jwt", "callerLimit">>, {}, Own(GET(<<"me", "statistics">>))), Adm(GET(<<":">>)),
    Adm(PUT(<<":">>))>>)

UsersController_Profile == At(<<"users">>, <<>>, {}, <<
    Adm(POST(<<":", "block">>)), Adm(POST(<<":", "unblock">>)), Adm(DELETE(<<":">>)),
    Jwt(Own(GET(<<"me", "profile">>))), Jwt(Own(PUT(<<"me", "profile">>))),
    Jwt(Own(POST(<<":", "export">>))), Jwt(Own(GET(<<"export", "download", ":">>))),
    Jwt(Own(POST(<<"me", "deactivate">>)))>>)

UsersController_Account == At(<<"users">>, <<>>, {}, <<
    Jwt(Own(POST(<<"me", "request-reactivation">>))), Jwt(Own(POST(<<"me", "reactivate">>))),
    Adm(POST(<<":", "verify">>)), Adm(POST(<<":", "unverify">>)),
    Adm(POST(<<":", "deactivate">>)), Adm(POST(<<":", "reactivate">>)),
    Jwt(Own(PUT(<<"me", "preferences">>))), Jwt(Own(GET(<<"me", "referral-stats">>))),
    Jwt(Own(GET(<<"me", "referrals">>))),
    With(<<"jwt", "callerLimit">>, {}, Own(GET(<<"me", "login-history">>))),
    Adm(GET(<<"scheduled-deletion">>)), Adm(POST(<<"delete-scheduled">>))>>)

UserPreferencesController == At(<<"users", "preferences">>, <<"jwt">>, {}, <<
    ById(GET(<<>>)), ById(POST(<<>>)), ById(PUT(<<>>)), ById(DELETE(<<>>)),
    ById(GET(<<"notifications">>)), ById(PATCH(<<"notifications">>))>>)

ActivityLogController == At(<<"users", "activity-logs">>, <<"jwt">>, {}, <<
    Own(GET(<<>>))>>)

AdminActivityLogController == At(<<"admin", "activity-logs">>, <<"jwt">>, {}, <<
    GET(<<>>)>>)

EmailVerificationController == At(<<"users", "email">>, <<"jwt">>, {}, <<
    ById(POST(<<"change">>)), ById(POST(<<"verify">>)), ById(POST(<<"resend">>)),
    ById(POST(<<"cancel-change">>))>>)

UserImportController == At(<<"users", "import">>, <<>>, {}, <<
    Adm(Own(POST(<<"csv">>)))>>)

SessionsController == At(<<"sessions">>, <<"jwt">>, {}, <<
    Own(GET(<<>>)), GET(<<":">>), Own(PATCH(<<":">>)), Own(DELETE(<<":">>)), Own(DELETE(<<>>))>>)

EmailWebhookController == At(<<"webhooks", "email">>, <<>>, {}, <<
    POST(<<"webhook", "bounce">>), POST(<<"webhook", "complaint">>), Adm(GET(<<"reputation">>))>>)

TrackingController == At(<<"track">>, <<>>, {}, <<
    GET(<<"click">>), GET(<<"open", ":">>), GET(<<"stats">>)>>)

NotificationsController == At(<<"notifications">>, <<"jwt">>, {}, <<
    Own(POST(<<"ws-ticket">>)), ByUser(GET(<<>>)), ByUser(GET(<<"unread-count">>)),
    ByUser(PATCH(<<":", "read">>)), ByUser(PATCH(<<"read-all">>)), ByUser(DELETE(<<":">>))>>)

QueueController == At(<<"admin", "queues">>, <<"jwt", "roles">>, {"ADMIN"}, <<
    GET(<<>>), GET(<<"metrics">>), GET(<<":", "failed">>), POST(<<":", "jobs", ":", "retry">>),
    POST(<<":", "failed", "retry-all">>), DELETE(<<":", "jobs", ":">>)>>)

ApiDocsController == At(<<"api">>, <<>>, {}, <<
    GET(<<"openapi.json">>), GET(<<"info">>), GET(<<"changelog">>), GET(<<"health">>),
    GET(<<"endpoints">>), GET(<<"examples">>), GET(<<"rate-limits">>)>>)

DashboardController == At(<<"dashboard">>, <<"jwt">>, {}, <<
    Own(GET(<<>>))>>)

TrustScoreController == At(<<"trust-score">>, <<"jwt", "key", "scopes">>, {}, <<
    Scope("read", ById(GET(<<"me">>))), Scope("read", ById(GET(<<"me", "summary">>))),
    Scope("read", ById(GET(<<"me", "breakdown">>))), Scope("read", GET(<<":">>)),
    Scope("read", GET(<<":", "summary">>)), Scope("read", GET(<<":", "breakdown">>)),
    Scope("write", ById(POST(<<"me", "calculate">>))), Scope("write", POST(<<":", "calculate">>)),
    Scope("write", POST(<<"batch-update">>))>>)

PropertiesHealthController == At(<<"properties", "health">>, <<>>, {}, <<
    GET(<<>>)>>)

PropertiesController_List == At(<<"properties">>, <<>>, {}, <<
    With(<<"jwt", "callerLimit">>, {}, Own(POST(<<>>))), GET(<<>>)>>)

PropertiesController_One == At(<<"properties">>, <<>>, {}, <<
    GET(<<"search">>), GET(<<":">>),
    With(<<"jwt", "roles">>, {"AGENT", "ADMIN"}, Own(PUT(<<":">>))), Adm(Own(DELETE(<<":">>))),
    Adm(Own(PATCH(<<":", "restore">>))),
    With(<<"jwt", "callerLimit">>, {}, GET(<<":", "report">>))>>)

PropertiesController_Moderate == At(<<"properties">>, <<>>, {}, <<
    Jwt(Own(PATCH(<<":", "status">>))), Adm(Own(PATCH(<<":", "approve">>))),
    Adm(Own(PATCH(<<":", "reject">>))),
    With(<<"callerLimit", "jwt", "roles">>, {"ADMIN"}, Own(POST(<<"bulk", "status">>))),
    With(<<"callerLimit", "jwt", "roles">>, {"ADMIN"}, Own(POST(<<"bulk", "delete">>))),
    With(<<"callerLimit", "jwt", "roles">>, {"ADMIN"}, Own(POST(<<"bulk", "export">>)))>>)

PropertiesController_Relations == At(<<"properties">>, <<>>, {}, <<
    Jwt(Own(POST(<<":", "agents">>))), Jwt(Own(PUT(<<":", "agents", ":">>))),
    Jwt(Own(DELETE(<<":", "agents", ":">>))), GET(<<":", "agents">>),
    Jwt(POST(<<":", "amenities">>)), GET(<<":", "amenities">>),
    Jwt(PATCH(<<":", "amenities", ":">>)), Jwt(DELETE(<<":", "amenities", ":">>))>>)

PropertyImagesController == At(<<"properties", ":", "images">>, <<>>, {}, <<
    Jwt(Own(POST(<<>>))), GET(<<>>), Jwt(Own(PATCH(<<"reorder">>))),
    Jwt(Own(PATCH(<<":", "primary">>))), GET(<<"stats">>), Jwt(Own(DELETE(<<":">>)))>>)

DocumentsController == At(<<"documents">>, <<"jwt">>, {}, <<
    Own(POST(<<>>)), Own(GET(<<>>)), Own(GET(<<":">>)), Own(PUT(<<":">>)), Own(DELETE(<<":">>)),
    Own(GET(<<":", "versions">>)), Own(GET(<<":", "versions", ":">>)),
    With(<<"roles">>, {"ADMIN"}, GET(<<"expiration", "expiring">>)),
    With(<<"roles">>, {"ADMIN"}, POST(<<"expiration", "mark-expired">>)),
    With(<<"roles">>, {"ADMIN"}, DELETE(<<"expiration", "delete-expired">>)),
    Own(PUT(<<":", "expiration", "notified">>)), Own(POST(<<":", "sign">>)),
    Own(GET(<<":", "verify">>)), Own(POST(<<"bulk-download">>))>>)

DocumentsDownloadController == At(<<"documents">>, <<"jwt">>, {}, <<
    Own(GET(<<":", "download">>)), Own(POST(<<"signed-upload-url">>)),
    Own(POST(<<"upload-url">>)), Own(POST(<<"metadata">>))>>)

AdminController_Operations == At(<<"admin">>, <<"jwt", "roles">>, {"ADMIN"}, <<
    GET(<<"dashboard">>), GET(<<"backups">>), GET(<<"backups", "status">>),
    GET(<<"backups", "schedule">>), PUT(<<"backups", "schedule">>),
    Own(POST(<<"backups", "run">>)), Own(POST(<<"backups", ":", "restore">>)),
    GET(<<"backups", ":", "download">>), GET(<<"users">>), PATCH(<<"users", ":">>),
    POST(<<"users", ":", "block">>), POST(<<"users", ":", "unblock">>),
    GET(<<"properties", "moderation", "queue">>), POST(<<"properties", ":", "approve">>),
    POST(<<"properties", ":", "reject">>), POST(<<"properties", ":", "flag">>),
    POST(<<"properties", "moderation", "bulk">>), GET(<<"transactions", "monitoring">>),
    GET(<<"transactions", "monitoring", "summary">>),
    Own(PATCH(<<"transactions", ":", "status">>)), GET(<<"fraud", "alerts">>)>>)

AdminController_Fraud == At(<<"admin">>, <<"jwt", "roles">>, {"ADMIN"}, <<
    GET(<<"fraud", "alerts", "summary">>), GET(<<"fraud", "alerts", ":">>),
    Own(PATCH(<<"fraud", "alerts", ":">>)), Own(POST(<<"fraud", "alerts", ":", "notes">>)),
    Own(POST(<<"fraud", "alerts", ":", "block-user">>)),
    Own(POST(<<"fraud", "users", ":", "scan">>)),
    Own(POST(<<"fraud", "properties", ":", "scan">>)), GET(<<"email", "preview", ":">>),
    DELETE(<<"exports", ":">>), GET(<<"archive", "files">>), GET(<<"archive", "status">>)>>)

AdminController_Jobs == At(<<"admin">>, <<"jwt", "roles">>, {"ADMIN"}, <<
    POST(<<"archive", "run">>), POST(<<"archive", "restore">>), GET(<<"cleanup", "status">>),
    POST(<<"cleanup", "run">>), GET(<<"api-keys">>), POST(<<"api-keys", ":", "revoke">>),
    POST(<<"api-keys", ":", "rotate">>), GET(<<"i18n", "missing-keys">>)>>)

TransactionsController_Main == At(<<"transactions">>, <<"jwt">>, {}, <<
    With(<<"roles">>, {"AGENT", "ADMIN"}, POST(<<>>)), GET(<<>>), GET(<<"analytics", "summary">>),
    GET(<<":">>), With(<<"roles">>, {"AGENT", "ADMIN"}, PUT(<<":">>))>>)

TransactionsController_Chain == At(<<"transactions">>, <<"jwt">>, {}, <<
    With(<<"roles">>, {"AGENT", "ADMIN"}, POST(<<":", "record-on-blockchain">>)),
    GET(<<":", "verify-blockchain">>), GET(<<"blockchain", "stats">>),
    Own(POST(<<":", "notes">>)), Own(GET(<<":", "notes">>)), Own(DELETE(<<":", "notes", ":">>)),
    With(<<"roles">>, {"ADMIN"}, POST(<<"reminders", "send">>)), Own(PATCH(<<":", "escrow">>))>>)

TransactionsController_Audit == At(<<"transactions">>, <<"jwt">>, {}, <<
    GET(<<":", "audit">>)>>)

\* Mutant of DisputesController: @Roles on the methods, RolesGuard forgotten on the class.
DisputesController_NoRolesGuard == At(<<"disputes">>, <<"jwt">>, {}, <<
    ByUser(POST(<<>>)), ByUser(POST(<<":", "evidence", ":">>)),
    With(<<>>, {"ADMIN"}, ByUser(PATCH(<<":", "resolve">>))),
    With(<<>>, {"ADMIN"}, ByUser(PATCH(<<":", "status">>))), GET(<<":">>),
    GET(<<"transaction", ":">>)>>)

DisputesController == At(<<"disputes">>, <<"jwt", "roles">>, {}, <<
    ByUser(POST(<<>>)), ByUser(POST(<<":", "evidence", ":">>)),
    With(<<>>, {"ADMIN"}, ByUser(PATCH(<<":", "resolve">>))),
    With(<<>>, {"ADMIN"}, ByUser(PATCH(<<":", "status">>))), GET(<<":">>),
    GET(<<"transaction", ":">>)>>)

BlockchainController == At(<<"blockchain">>, <<"jwt">>, {}, <<
    Own(POST(<<"record-transaction">>)), POST(<<"verify-transaction">>),
    GET(<<"explorer-link", ":">>), GET(<<"stats">>), GET(<<"status">>), GET(<<"rpc", "health">>),
    POST(<<"rpc", "health", "check">>), GET(<<"rpc", "gas-price">>)>>)

CommissionsController == At(<<"commissions">>, <<"jwt">>, {}, <<
    Own(GET(<<>>)), Own(GET(<<"stats">>)), Own(GET(<<":">>))>>)

IntegrationsController == At(<<"integrations">>, <<"jwt">>, {}, <<
    GET(<<"mls", "listings">>), GET(<<"mls", "listings", ":">>), POST(<<"payments", "process">>),
    POST(<<"payments", ":", "refund">>), POST(<<"crm", "contacts">>),
    GET(<<"crm", "contacts", ":">>)>>)

SearchController == At(<<"search">>, <<"jwt">>, {}, <<
    ByUser(POST(<<"properties">>)), GET(<<"suggestions">>), GET(<<"autocomplete">>),
    ByUser(GET(<<"filters", "saved">>)), ByUser(POST(<<"filters", "save">>)),
    ByUser(GET(<<"analytics">>)), GET(<<"analytics", "popular">>)>>)

FavoritesController == At(<<"favorites">>, <<>>, {}, <<
    Jwt(Own(POST(<<":">>))), Jwt(Own(DELETE(<<":">>))), Jwt(Own(GET(<<>>))),
    Jwt(Own(GET(<<"count">>))), Jwt(Own(GET(<<":", "status">>))),
    GET(<<"property", ":", "count">>)>>)

PropertyViewsController == At(<<"property-views">>, <<>>, {}, <<
    With(<<"optional">>, {}, POST(<<":">>)), GET(<<":", "count">>), GET(<<":", "unique">>),
    Jwt(GET(<<":", "history">>)), GET(<<"popular">>), GET(<<"leaderboard">>)>>)

PropertyComparisonController == At(<<"property-comparison">>, <<>>, {}, <<
    GET(<<>>), POST(<<>>), POST(<<"score">>), POST(<<"share">>), GET(<<"shares", ":">>),
    GET(<<"shared", ":">>), Jwt(Own(POST(<<"shares", ":", "revoke">>))), POST(<<"export">>)>>)

OpenHouseController == At(<<"open-house">>, <<>>, {}, <<
    POST(<<>>), GET(<<":">>), PATCH(<<":", "cancel">>), POST(<<":", "rsvp">>),
    Jwt(ById(POST(<<"tours">>))), GET(<<"tours", ":">>), Jwt(PATCH(<<"tours", ":", "status">>)),
    Jwt(ById(GET(<<"tours", "my", "list">>))), Jwt(ById(GET(<<"tours", "agent", "list">>))),
    Jwt(ById(POST(<<"availability">>))), GET(<<"availability", ":">>),
    Jwt(DELETE(<<"availability", ":">>)), Jwt(ById(GET(<<"tours", "calendar", "export">>)))>>)

MortgageCalculatorController == At(<<"mortgage-calculator">>, <<>>, {}, <<
    POST(<<>>), POST(<<"amortization">>), POST(<<"compare">>), POST(<<"export">>)>>)

InvestmentsController == At(<<"investments">>, <<>>, {}, <<
    GET(<<"health">>), GET(<<":", "metrics">>)>>)

SupportTicketsController == At(<<"support-tickets">>, <<"jwt">>, {}, <<
    ById(POST(<<>>)), Own(GET(<<>>)), ById(GET(<<"my">>)), ById(GET(<<"assigned">>)),
    GET(<<"unassigned">>), ById(GET(<<"metrics">>)), GET(<<":">>), ById(PATCH(<<":", "status">>)),
    PATCH(<<":", "assign">>), ById(POST(<<":", "notes">>)), GET(<<":", "sla">>)>>)

MetricsController == At(<<>>, <<"metrics">>, {}, <<
    GET(<<"metrics">>)>>)

PropertyTaxController == At(<<"properties">>, <<>>, {}, <<
    Jwt(GET(<<":", "tax-history">>)), Jwt(GET(<<":", "tax-summary">>)),
    Jwt(POST(<<"tax", "compare">>))>>)

HealthController == At(<<>>, <<>>, {}, <<
    GET(<<"healthz">>), GET(<<"readyz">>), GET(<<"startupz">>)>>)

PaymentController == At(<<"payments">>, <<>>, {}, <<
    POST(<<>>), GET(<<>>), GET(<<":">>)>>)

InvestmentController == At(<<"investments">>, <<>>, {}, <<
    GET(<<>>)>>)

-----------------------------------------------------------------------------
(* Controllers that no module registers: their endpoints are declared in    *)
(* the source and answered with 404.                                        *)

ContentController == At(<<"content">>, <<>>, {}, <<
    POST(<<"pages", ":">>), GET(<<"pages", ":">>), POST(<<"banners">>), GET(<<"banners">>),
    POST(<<"faqs">>), GET(<<"faqs">>), POST(<<"legal", ":">>), GET(<<"legal", ":">>)>>)

DuplicateDetectionController == At(<<"properties", "duplicates">>, <<>>, {}, <<
    Jwt(Own(POST(<<"check">>))), Jwt(Own(PATCH(<<"merge">>))), Jwt(POST(<<":", "flag">>)),
    Jwt(GET(<<"flags">>)), Jwt(PATCH(<<":", "resolve">>)), Jwt(POST(<<"batch">>)),
    Jwt(GET(<<"stats">>)), Jwt(GET(<<":", "nearby">>))>>)

EmailDigestController == At(<<"email-digest">>, <<>>, {}, <<
    Jwt(ById(GET(<<"preference">>))), Jwt(ById(PATCH(<<"preference">>))),
    GET(<<"unsubscribe">>)>>)

ListingsController == At(<<"listings">>, <<>>, {}, <<
    GET(<<>>), GET(<<"health">>)>>)

NeighborhoodsController == At(<<"neighborhoods">>, <<>>, {}, <<
    Adm(POST(<<>>)), GET(<<>>), GET(<<":">>), Adm(PUT(<<":">>)), Adm(DELETE(<<":">>)),
    GET(<<":", "schools">>), Adm(POST(<<":", "schools">>)), Adm(DELETE(<<":", "schools", ":">>)),
    GET(<<":", "amenities">>), Adm(POST(<<":", "amenities">>)),
    Adm(DELETE(<<":", "amenities", ":">>)), GET(<<"property", ":">>),
    With(<<"jwt", "roles">>, {"ADMIN", "AGENT"}, PATCH(<<"property", ":">>)),
    With(<<"jwt", "roles">>, {"ADMIN", "AGENT"}, DELETE(<<"property", ":">>))>>)

TimelineController == At(<<"transactions">>, <<"jwt">>, {}, <<
    POST(<<":", "timeline">>), PATCH(<<"timeline", ":">>), GET(<<":", "timeline">>)>>)

TransactionDocumentsController == At(<<"transactions", ":", "documents">>, <<"jwt">>, {}, <<
    Own(POST(<<>>)), Own(GET(<<>>)), Own(GET(<<":">>)), Own(DELETE(<<":">>)),
    Own(GET(<<":", "versions">>)), Own(POST(<<":", "versions">>))>>)

AvatarUploadController == At(<<"users", "avatar">>, <<"jwt">>, {}, <<
    ByUser(POST(<<"upload">>)), ByUser(DELETE(<<"delete">>)), ByUser(GET(<<":">>)),
    ByUser(GET(<<"current">>))>>)

VerificationDocumentsController == At(<<"users", "verification-documents">>, <<"jwt">>, {}, <<
    ById(POST(<<>>)), ById(GET(<<>>)), ById(GET(<<":">>)), ById(PUT(<<":">>)),
    ById(DELETE(<<":">>))>>)

AdminVerificationDocumentsController == At(<<"admin", "verification-documents">>, <<"jwt">>, {}, <<
    GET(<<>>), GET(<<":">>), ById(PUT(<<":", "review">>))>>)

WebhooksController == At(<<"webhooks">>, <<"jwt">>, {}, <<
    ById(POST(<<>>)), ById(GET(<<>>)), ById(GET(<<":">>)), ById(PATCH(<<":">>)),
    ById(DELETE(<<":">>)), ById(GET(<<":", "deliveries">>)),
    ById(POST(<<":", "deliveries", ":", "replay">>)), ById(POST(<<":", "rotate-secret">>)),
    ById(POST(<<":", "verify">>))>>)

-----------------------------------------------------------------------------
(* The order of registration: Express serves a request with the first route *)
(* that matches, and Nest registers the modules in the order of a preorder  *)
(* walk over the imports of AppModule.                                      *)

\* Mutant of UsersModule: the health controller after the one with `:id`.
UsersModule_HealthLast ==
    UsersController_Manage \o UsersController_Profile \o UsersController_Account
    \o UsersHealthController \o UserPreferencesController \o ActivityLogController
    \o AdminActivityLogController \o EmailVerificationController \o UserImportController

UsersModule ==
    UsersHealthController \o UsersController_Manage \o UsersController_Profile
    \o UsersController_Account \o UserPreferencesController \o ActivityLogController
    \o AdminActivityLogController \o EmailVerificationController \o UserImportController

PropertiesModule ==
    PropertiesHealthController \o PropertiesController_List \o PropertiesController_One
    \o PropertiesController_Moderate \o PropertiesController_Relations \o PropertyImagesController

Router ==
    AppController \o CacheStatsController \o AnalyticsController \o AuthController_Session
    \o AuthController_Keys \o RateLimitAdminController \o AuthHealthController
    \o UsersModule
    \o SessionsController \o EmailWebhookController \o TrackingController \o NotificationsController
    \o QueueController \o ApiDocsController \o DashboardController \o TrustScoreController
    \o PropertiesModule
    \o DocumentsController \o DocumentsDownloadController \o AdminController_Operations
    \o AdminController_Fraud \o AdminController_Jobs \o TransactionsController_Main
    \o TransactionsController_Chain \o TransactionsController_Audit \o DisputesController
    \o BlockchainController \o CommissionsController \o IntegrationsController \o SearchController
    \o FavoritesController \o PropertyViewsController \o PropertyComparisonController
    \o OpenHouseController \o MortgageCalculatorController \o InvestmentsController
    \o SupportTicketsController \o MetricsController \o PropertyTaxController \o HealthController
    \o PaymentController \o InvestmentController

Unregistered ==
    ContentController \o DuplicateDetectionController \o EmailDigestController
    \o ListingsController \o NeighborhoodsController \o TimelineController
    \o TransactionDocumentsController \o AvatarUploadController \o VerificationDocumentsController
    \o AdminVerificationDocumentsController \o WebhooksController

\* Every endpoint the source declares: first the registered ones, then the others.
Declared == Router \o Unregistered

Matches(r, q) ==
    /\ r.method = q.method
    /\ Len(r.path) = Len(q.path)
    /\ \A i \in DOMAIN r.path : r.path[i] \in {":", q.path[i]}

\* The registered route that serves a request for the declared endpoint e, 0 if none does.
Served[e \in DOMAIN Declared] ==
    LET fits == {i \in DOMAIN Router : Matches(Router[i], Declared[e])}
    IN  IF fits = {} THEN 0 ELSE CHOOSE i \in fits : \A j \in fits : i <= j

-----------------------------------------------------------------------------
(* The request and the guards.                                             *)


VARIABLES
    rtEndpoint,  \* the declared endpoint the request is meant for, 0 before it arrives
    rtServed,    \* the registered route that answers it, 0 if none does
    rtCaller,    \* what the caller presents
    rtTodo,      \* the guards still to run
    rtAuth,      \* request.authUser: "none", or set from a "token" or an API "key"
    rtUser,      \* request.user is set (passport only)
    rtLimitKey,  \* what the per-route limit counted by: "none", "caller" or "address"
    rtAt         \* "idle", "guards", "handled", "failed", "refused", "missing"

rtVars == <<rtEndpoint, rtServed, rtCaller, rtTodo, rtAuth, rtUser, rtLimitKey, rtAt>>

Credentials == [bearer : BOOLEAN, key : {"none", "read", "write"}, role : {"USER", "AGENT", "ADMIN"}]

Signed(c) == c.bearer \/ c.key # "none"

ServingRoute == Router[rtServed]

RtTypeOK ==
    /\ rtEndpoint \in 0..Len(Declared)
    /\ rtServed \in 0..Len(Router)
    /\ rtCaller \in Credentials
    /\ \A i \in DOMAIN rtTodo : rtTodo[i] \in {"jwt", "key", "roles", "scopes", "fresh", "optional",
                                               "google", "clientLimit", "callerLimit", "metrics",
                                               "globalLimit"}
    /\ rtAuth \in {"none", "token", "key"}
    /\ rtUser \in BOOLEAN
    /\ rtLimitKey \in {"none", "caller", "address"}
    /\ rtAt \in {"idle", "guards", "handled", "failed", "refused", "missing"}

RtInit ==
    /\ rtEndpoint = 0 /\ rtServed = 0
    /\ rtCaller = [bearer |-> FALSE, key |-> "none", role |-> "USER"]
    /\ rtTodo = <<>> /\ rtAuth = "none" /\ rtUser = FALSE /\ rtLimitKey = "none" /\ rtAt = "idle"

-----------------------------------------------------------------------------
(* The router, and the guards app.useGlobalGuards adds in front.            *)

GlobalGuards == <<"globalLimit">>

Receive(e) ==
    /\ rtAt = "idle"
    /\ rtEndpoint' = e
    /\ rtServed' = Served[e]
    /\ rtAt' = IF rtServed' = 0 THEN "missing" ELSE "guards"
    /\ rtTodo' = IF rtServed' = 0 THEN <<>> ELSE GlobalGuards \o Router[rtServed'].guards
    /\ rtCaller' \in {c \in Credentials : Signed(c) \/ c.role = "USER"}
    /\ UNCHANGED <<rtAuth, rtUser, rtLimitKey>>

\* The next guard to run.
Guard(g) == rtAt = "guards" /\ rtTodo # <<>> /\ Head(rtTodo) = g

Passes == rtTodo' = Tail(rtTodo) /\ rtAt' = "guards" /\ UNCHANGED <<rtEndpoint, rtServed, rtCaller>>

Refuses ==
    /\ rtAt' = "refused" /\ rtTodo' = <<>>
    /\ UNCHANGED <<rtEndpoint, rtServed, rtCaller, rtAuth, rtUser, rtLimitKey>>

PassIf(ok) == IF ok THEN Passes /\ UNCHANGED <<rtAuth, rtUser, rtLimitKey>> ELSE Refuses

\* Mutant of JwtAuthGuard: the payload goes to request.user instead of request.authUser.
JwtAuthGuard_User ==
    /\ Guard("jwt")
    /\ IF rtCaller.bearer
       THEN Passes /\ rtUser' = TRUE /\ UNCHANGED <<rtAuth, rtLimitKey>>
       ELSE Refuses

JwtAuthGuard ==
    /\ Guard("jwt")
    /\ IF rtCaller.bearer
       THEN Passes /\ rtAuth' = "token" /\ UNCHANGED <<rtUser, rtLimitKey>>
       ELSE Refuses

OptionalJwtAuthGuard ==
    /\ Guard("optional")
    /\ Passes
    /\ rtAuth' = IF rtCaller.bearer THEN "token" ELSE rtAuth
    /\ UNCHANGED <<rtUser, rtLimitKey>>

ApiKeyAuthGuard ==
    /\ Guard("key")
    /\ IF rtCaller.key # "none"
       THEN Passes /\ rtAuth' = "key" /\ UNCHANGED <<rtUser, rtLimitKey>>
       ELSE Refuses

\* resolveApiKeyScopes: a key that may write may read.
GrantedScopes(key) == IF key = "write" THEN {"read", "write"} ELSE {key}

KeyPermissionsGuard ==
    /\ Guard("scopes")
    /\ PassIf(\/ ServingRoute.scope = "none"
              \/ rtAuth = "token"
              \/ rtAuth = "key" /\ ServingRoute.scope \in GrantedScopes(rtCaller.key))

RolesGuard ==
    /\ Guard("roles")
    /\ PassIf(\/ ServingRoute.roles = {}
              \/ rtAuth # "none" /\ rtCaller.role \in ServingRoute.roles)

\* Passes when the account has no second factor or the request carries a valid code.
FreshTwoFactorGuard ==
    /\ Guard("fresh")
    /\ \E valid \in BOOLEAN : PassIf(rtAuth # "none" /\ valid)

GoogleAuthGuard ==
    /\ Guard("google")
    /\ \/ Passes /\ rtUser' = TRUE /\ UNCHANGED <<rtAuth, rtLimitKey>>
       \/ Refuses

\* The global limiter, before any authentication, and the one per client address.
LimitGuard ==
    /\ Guard("globalLimit") \/ Guard("clientLimit")
    /\ \E ok \in BOOLEAN : PassIf(ok)

\* Mutant of CallerLimitGuard: reads the caller from request.user only.
CallerLimitGuard_User ==
    /\ Guard("callerLimit")
    /\ \/ Passes /\ rtLimitKey' = (IF rtUser THEN "caller" ELSE "address")
                 /\ UNCHANGED <<rtAuth, rtUser>>
       \/ Refuses

\* UsersRouteRateLimitGuard and PropertiesRouteRateLimitGuard: counted by authUser.sub,
\* by the client address when there is none.
CallerLimitGuard ==
    /\ Guard("callerLimit")
    /\ \/ Passes /\ rtLimitKey' = (IF rtAuth = "none" THEN "address" ELSE "caller")
                 /\ UNCHANGED <<rtAuth, rtUser>>
       \/ Refuses

MetricsAuthGuard ==
    /\ Guard("metrics")
    /\ \E ok \in BOOLEAN : PassIf(ok)

\* The identity the handler reads is there; AuthUserPayload has `sub` and no `id`.
IdentityAvailable(r) ==
    CASE r.reads = "none" -> TRUE
      [] r.reads = "sub" -> rtAuth # "none"
      [] r.reads = "id" -> FALSE
      [] r.reads = "user" -> rtUser

Handle ==
    /\ rtAt = "guards" /\ rtTodo = <<>>
    /\ rtAt' = IF IdentityAvailable(ServingRoute) THEN "handled" ELSE "failed"
    /\ UNCHANGED <<rtEndpoint, rtServed, rtCaller, rtTodo, rtAuth, rtUser, rtLimitKey>>

RtNext ==
    \/ \E e \in DOMAIN Declared : Receive(e)
    \/ JwtAuthGuard \/ OptionalJwtAuthGuard \/ ApiKeyAuthGuard
    \/ KeyPermissionsGuard \/ RolesGuard \/ FreshTwoFactorGuard \/ GoogleAuthGuard
    \/ LimitGuard \/ CallerLimitGuard \/ MetricsAuthGuard
    \/ Handle

RtSpec == RtInit /\ [][RtNext]_rtVars

-----------------------------------------------------------------------------
(* Properties.                                                               *)

\* The endpoints whose requests another route answers.
HiddenEndpoints ==
    {<<"GET", <<"users", "scheduled-deletion">> >>, <<"GET", <<"users", "preferences">> >>,
     <<"PUT", <<"users", "preferences">> >>, <<"DELETE", <<"users", "preferences">> >>,
     <<"GET", <<"users", "activity-logs">> >>, <<"POST", <<"users", "email", "verify">> >>}

\* A request for a registered endpoint is answered by that endpoint's handler, except for the
\* six endpoints under /users that `:id` and `:id/verify`, registered before them, answer:
\* the order of the controllers in the modules and of the methods in a controller
\* separates all other literal paths from the parameters (users.module.ts:27,
\* properties.module.ts:36 ask for it).
OnlyKnownHidden ==
    rtEndpoint \in DOMAIN Router =>
        \/ rtServed = rtEndpoint
        \/ <<Declared[rtEndpoint].method, Declared[rtEndpoint].path>> \in HiddenEndpoints

\* A handler that takes the caller from the token never runs without one: its guards
\* have set authUser before (JwtAuthGuard, ApiKeyAuthGuard), whatever the order in which
\* the decorators of the class and of the method add them.
CallerIdentified ==
    rtAt = "failed" => ServingRoute.reads # "sub"

\* A handler whose route or controller names roles runs only for a caller that is
\* authenticated and has one of them (RolesGuard with Reflector.getAllAndOverride).
RoleRoutesGated ==
    rtAt \in {"handled", "failed"} /\ ServingRoute.roles # {} =>
        rtAuth # "none" /\ rtCaller.role \in ServingRoute.roles

\* The limits per caller count by the caller and not by the address (they come after
\* JwtAuthGuard), except on the three bulk routes of the listings, where the stacked
\* @UseGuards runs the limit first.
LimitedPerCaller ==
    rtLimitKey = "address" =>
        /\ Len(ServingRoute.path) = 3
        /\ SubSeq(ServingRoute.path, 1, 2) = <<"properties", "bulk">>
=============================================================================
