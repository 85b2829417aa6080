------------------------- MODULE SocrateOperations -------------------------
(***************************************************************************)
(* The control of every operation of socrate.Client that is one request to *)
(* the Socrate server.  All of them do the same thing: find the application*)
(* ID when the path holds one, authenticate, send, read the answer and turn*)
(* its status and body into a result.  An operation is what they differ in:*)
(*   cred     "user": the JWT of the context; "service": the service token;*)
(*            "secret": the client secret, which must be configured;       *)
(*            "none": a public endpoint                                    *)
(*   app      the path holds the application ID                            *)
(*   ok       the statuses of success                                      *)
(*   decodes  the bodies the decoding of a success accepts                 *)
(*   named    the refusals that have a result of their own, nil included   *)
(*   newer    some supported servers do not have the route                 *)
(* Operations that differ in nothing else are the same record.  A body is  *)
(* a JSON object or array, an error of a Socrate handler, the error        *)
(* "email already exists", or text that is no JSON (a router, a proxy).    *)
(***************************************************************************)
EXTENDS Naturals

ErrorBody == {"error", "taken"}
AnyObject == {"object"} \cup ErrorBody
AnyBody == {"object", "array", "text"} \cup ErrorBody

\* Fault: what is read is not decoded, only its error is.
isSocrateErrorBodyAny == AnyBody

\* isSocrateErrorBody: a JSON object with an "error", unlike a router's text.
isSocrateErrorBody == ErrorBody

Named(status, bodies, result) == [status |-> status, bodies |-> bodies, is |-> result]

Request == [cred |-> "user", app |-> FALSE, ok |-> {200}, decodes |-> AnyObject,
            named |-> {}, newer |-> FALSE]

InApp(op) == [op EXCEPT !.app = TRUE]
AsService(op) == [op EXCEPT !.app = TRUE, !.cred = "service"]
Public(op) == [op EXCEPT !.cred = "none"]
WithSecret(op) == [op EXCEPT !.cred = "secret"]
Newer(op) == [op EXCEPT !.newer = TRUE]
Creates(op) == [op EXCEPT !.ok = {200, 201}]
Discards(op) == [op EXCEPT !.decodes = AnyBody]
Acts(op) == Discards([op EXCEPT !.ok = {200, 204}])
Names(op, named) == [op EXCEPT !.named = @ \cup named]
NilOn404(op) == Names(op, {Named(404, AnyBody, "absent")})
ExistsOn409(op) == Names(op, {Named(409, AnyBody, "exists")})

----------------------------------------------------------------------------
\* client.go: the users of the application, with the caller's JWT ...
ListUsers == InApp(Request)
GetUser == InApp(NilOn404(Request))
CreateUser == InApp(ExistsOn409(Creates(Request)))
UpdateUserRole == InApp(Discards(Request))
DeleteUser == InApp(Acts(Request))
ResendVerification == InApp(Acts(Request))
ForcePasswordReset == InApp(Acts(Request))
GetActivityLogs == InApp(Request)

\* ... and with the service-account token.
GetUserAsService ==
    AsService(Newer(Names(Request, {Named(404, isSocrateErrorBody, "absent")})))
UpdateUserAsService ==
    AsService(Newer(Names(Request, {Named(404, isSocrateErrorBody, "notInApp"),
                                    Named(400, ErrorBody, "invalid")})))
RegisterUser == AsService(ExistsOn409(Creates(Request)))
InviteUserAsService == AsService(ExistsOn409(Creates(Request)))
SendMagicLink ==
    AsService(Names([Request EXCEPT !.ok = {200, 202}], {Named(429, AnyBody, "limited")}))

\* client.go: the OAuth port.
GetCurrentUserProfile == Names(NilOn404(Request), {Named(401, AnyBody, "absent")})
RevokeToken == WithSecret(Acts(Request))
IntrospectToken == WithSecret(Request)

\* policy.go, signup.go, profile.go, bff.go.
Decide ==
    AsService(Names(Request, {Named(503, AnyBody, "unavailable"),
                              Named(400, AnyBody, "rejected")}))

Signup ==
    Public(Names(Creates(Request), {Named(400, {"taken"}, "exists"),
                                    Named(400, {"error"}, "rejected")}))
GetProfile == NilOn404(Request)
UpdateProfile == Request
ExchangeCode == Public(Request)
RefreshToken == Public(Request)
VerifyMagicLink ==
    Public(Names(Request, {Named(422, AnyBody, "used"), Named(401, AnyBody, "denied")}))
AdminLogin == Public(Names(Request, {Named(401, AnyBody, "denied")}))
Logout == Acts(Request)

----------------------------------------------------------------------------
\* admin.go: applications, users, superadmins, security, logs.
ListApps == Request
GetApp == NilOn404(Request)
CreateApp == Creates(Request)
UpdateApp == Request
DeleteApp == Acts(Request)
RotateSecret == Request
AdminListUsers == Request
AdminGetUser == NilOn404(Request)
AdminDeleteUser == Acts(Request)
GetUserApps == [Request EXCEPT !.decodes = {"array"}]
BlockUser == Acts(Request)
UnlockUser == Acts(Request)
RevokeUserTokens == Acts(Request)
ListSuperadmins == [Request EXCEPT !.decodes = @ \cup {"array"}]
GetSuperadmin == NilOn404(Request)
CreateSuperadmin == Creates(Request)
UpdateSuperadmin == Request
DeleteSuperadmin == Acts(Request)
GetThreatMetrics == Request
ListBlockedIPs == [Request EXCEPT !.decodes = @ \cup {"array"}]
BlockIP == Creates(Request)
UnblockIP == Acts(Request)
GetIPReputation == NilOn404(Request)
GetDashboardStats == Request
GetDashboardHealth == Request
ListAdminLogs == Request
GetAdminLog == NilOn404(Request)

\* alerts.go, dashboard.go, monitoring.go, reports.go, settings.go.
ListAlertRules == Request
CreateAlertRule == Creates(Request)
UpdateAlertRule == Request
DeleteAlertRule == Acts(Request)
GetAlertHistory == Request
AcknowledgeAlert == Acts(Request)
GetDashboardActivity == Request
GetLoginTrends == Request
GetAppUsage == Request
GetAdminProfile == Request
GetAdminStats == Request
GetAdminActivity == Request
ExportAdminLogs == Discards(Request)
GetAppLogs == InApp(Request)
ListSessions == Request
GetUserSessions == Request
GetGeoAnalytics == Request
GetTokenStats == Request
GenerateSecurityReport == Creates(Request)
GetReportStatus == NilOn404(Request)
DownloadReport == Discards(Request)
GetServerConfig == Request
TestDB == Request
TestCache == Request

AllOperations ==
    {ListUsers, GetUser, CreateUser, UpdateUserRole, DeleteUser, ResendVerification,
     ForcePasswordReset, GetActivityLogs, GetUserAsService, UpdateUserAsService,
     RegisterUser, InviteUserAsService, SendMagicLink, GetCurrentUserProfile,
     RevokeToken, IntrospectToken, Decide, Signup, GetProfile, UpdateProfile,
     ExchangeCode, RefreshToken, VerifyMagicLink, AdminLogin, Logout, ListApps,
     GetApp, CreateApp, UpdateApp, DeleteApp, RotateSecret, AdminListUsers,
     AdminGetUser, AdminDeleteUser, GetUserApps, BlockUser, UnlockUser,
     RevokeUserTokens, ListSuperadmins, GetSuperadmin, CreateSuperadmin,
     UpdateSuperadmin, DeleteSuperadmin, GetThreatMetrics, ListBlockedIPs, BlockIP,
     UnblockIP, GetIPReputation, GetDashboardStats, GetDashboardHealth,
     ListAdminLogs, GetAdminLog, ListAlertRules, CreateAlertRule, UpdateAlertRule,
     DeleteAlertRule, GetAlertHistory, AcknowledgeAlert, GetDashboardActivity,
     GetLoginTrends, GetAppUsage, GetAdminProfile, GetAdminStats, GetAdminActivity,
     ExportAdminLogs, GetAppLogs, ListSessions, GetUserSessions, GetGeoAnalytics,
     GetTokenStats, GenerateSecurityReport, GetReportStatus, DownloadReport,
     GetServerConfig, TestDB, TestCache}
=============================================================================
