------------------------ MODULE SocrateClientProofs ------------------------
(***************************************************************************)
(* Proofs about SocrateClient, for any number of callers, whichever        *)
(* operations they use, and any number of registrations.                   *)
(*                                                                         *)
(* What a result means depends on the operation: Sound goes through them   *)
(* by the refusals they name.  The rest is an invariant of each call       *)
(* (AnswerInv): it keeps the reason of an answer until it has decoded it,  *)
(* it has acted only if it is past sending, and the ID it is about to      *)
(* store is one of ours, because the place of the list it was found at has *)
(* our ClientID (Ours).                                                    *)
(***************************************************************************)
EXTENDS SocrateClient, FiniteSetTheorems, TLAPS

----------------------------------------------------------------------------
(* The operations.                                                         *)

RefusalType == [status: Nat, bodies: SUBSET AnyBody, is: Results \ {"none"}]

OperationType ==
    [cred: {"user", "service", "secret", "none"}, app: BOOLEAN,
     ok: SUBSET {200, 201, 202, 204}, decodes: SUBSET AnyBody,
     named: SUBSET RefusalType, newer: BOOLEAN]

\* The refusals that an operation names.
Shape(op) ==
    \/ op.named = {}
    \/ op.named = {Named(404, AnyBody, "absent")} /\ ~op.newer
    \/ op.named = {Named(409, AnyBody, "exists")} /\ op # Signup
    \/ op.named = {Named(404, ErrorBody, "absent")}
    \/ /\ op.named = {Named(404, ErrorBody, "notInApp"), Named(400, ErrorBody, "invalid")}
       /\ op # Signup
    \/ op.named = {Named(429, AnyBody, "limited")}
    \/ /\ op.named = {Named(404, AnyBody, "absent"), Named(401, AnyBody, "absent")}
       /\ op = GetCurrentUserProfile /\ ~op.newer
    \/ /\ op.named = {Named(503, AnyBody, "unavailable"), Named(400, AnyBody, "rejected")}
       /\ op # Signup
    \/ /\ op.named = {Named(400, {"taken"}, "exists"), Named(400, {"error"}, "rejected")}
       /\ op = Signup
    \/ op.named = {Named(422, AnyBody, "used"), Named(401, AnyBody, "denied")}
    \/ op.named = {Named(401, AnyBody, "denied")}

Proper(op) == op \in OperationType /\ Shape(op)

LEMMA RequestIsProper ==
    /\ Request \in OperationType /\ Request.named = {}
    /\ ~Request.newer /\ Request.cred = "user"
  BY DEF Request, OperationType, AnyObject, AnyBody, ErrorBody

\* What the combinators do to a record.
LEMMA Combinators ==
    ASSUME NEW op \in OperationType
    PROVE  /\ InApp(op) \in OperationType /\ InApp(op).named = op.named
           /\ InApp(op).newer = op.newer /\ InApp(op).cred = op.cred
           /\ AsService(op) \in OperationType /\ AsService(op).named = op.named
           /\ AsService(op).newer = op.newer /\ AsService(op).cred = "service"
           /\ Public(op) \in OperationType /\ Public(op).named = op.named
           /\ Public(op).newer = op.newer /\ Public(op).cred = "none"
           /\ WithSecret(op) \in OperationType /\ WithSecret(op).named = op.named
           /\ Newer(op) \in OperationType /\ Newer(op).named = op.named
           /\ Creates(op) \in OperationType /\ Creates(op).named = op.named
           /\ Creates(op).newer = op.newer /\ Creates(op).cred = op.cred
           /\ Discards(op) \in OperationType /\ Discards(op).named = op.named
           /\ Acts(op) \in OperationType /\ Acts(op).named = op.named
<1>1. InApp(op) \in OperationType /\ InApp(op).named = op.named
      /\ InApp(op).newer = op.newer /\ InApp(op).cred = op.cred
  <2>1. InApp(op) \in OperationType
    BY ZenonT(40) DEF InApp, OperationType
  <2>2. /\ InApp(op).named = op.named /\ InApp(op).newer = op.newer
        /\ InApp(op).cred = op.cred
    BY DEF InApp, OperationType
  <2> QED
    BY <2>1, <2>2
<1>2. AsService(op) \in OperationType /\ AsService(op).named = op.named
      /\ AsService(op).newer = op.newer /\ AsService(op).cred = "service"
  <2>1. AsService(op) \in OperationType
    BY ZenonT(40) DEF AsService, OperationType
  <2>2. /\ AsService(op).named = op.named /\ AsService(op).newer = op.newer
        /\ AsService(op).cred = "service"
    BY DEF AsService, OperationType
  <2> QED
    BY <2>1, <2>2
<1>3. Public(op) \in OperationType /\ Public(op).named = op.named
      /\ Public(op).newer = op.newer /\ Public(op).cred = "none"
  BY DEF Public, OperationType
<1>4. WithSecret(op) \in OperationType /\ WithSecret(op).named = op.named
  BY DEF WithSecret, OperationType
<1>5. Newer(op) \in OperationType /\ Newer(op).named = op.named
  BY ZenonT(40) DEF Newer, OperationType
<1>6. Creates(op) \in OperationType /\ Creates(op).named = op.named
      /\ Creates(op).newer = op.newer /\ Creates(op).cred = op.cred
  BY DEF Creates, OperationType
<1>7. ASSUME NEW e \in OperationType
      PROVE  Discards(e) \in OperationType /\ Discards(e).named = e.named
  BY DEF Discards, OperationType
<1>8. Acts(op) \in OperationType /\ Acts(op).named = op.named
  <2> DEFINE e == [op EXCEPT !.ok = {200, 204}]
  <2>1. e \in OperationType /\ e.named = op.named
    BY DEF OperationType
  <2> HIDE DEF e
  <2>2. Discards(e) \in OperationType /\ Discards(e).named = e.named
    BY <2>1, <1>7
  <2> QED
    BY <2>1, <2>2 DEF Acts, e
<1> QED
  BY <1>1, <1>2, <1>3, <1>4, <1>5, <1>6, <1>7, <1>8, Zenon

LEMMA NamesEffect ==
    ASSUME NEW op \in OperationType, NEW named \in SUBSET RefusalType
    PROVE  /\ Names(op, named) \in OperationType
           /\ Names(op, named).named = op.named \cup named
           /\ Names(op, named).newer = op.newer /\ Names(op, named).cred = op.cred
<1> DEFINE all == op.named \cup named
           e == [op EXCEPT !.named = all]
<1>1. Names(op, named) = e
  BY DEF Names
<1>2. all \in SUBSET RefusalType
  BY DEF OperationType
<1> HIDE DEF all
<1>3. e \in OperationType /\ e.named = all /\ e.newer = op.newer /\ e.cred = op.cred
  BY <1>2 DEF OperationType
<1> QED
  BY <1>1, <1>3, Zenon DEF all

\* The operations that name no refusal.
Unnamed ==
    {ListUsers, UpdateUserRole, DeleteUser, ResendVerification, ForcePasswordReset,
     GetActivityLogs, RevokeToken, IntrospectToken, UpdateProfile, ExchangeCode,
     RefreshToken, Logout, ListApps, CreateApp, UpdateApp, DeleteApp, RotateSecret,
     AdminListUsers, AdminDeleteUser, GetUserApps, BlockUser, UnlockUser,
     RevokeUserTokens, ListSuperadmins, CreateSuperadmin, UpdateSuperadmin,
     DeleteSuperadmin, GetThreatMetrics, ListBlockedIPs, BlockIP, UnblockIP,
     GetDashboardStats, GetDashboardHealth, ListAdminLogs, ListAlertRules,
     CreateAlertRule, UpdateAlertRule, DeleteAlertRule, GetAlertHistory,
     AcknowledgeAlert, GetDashboardActivity, GetLoginTrends, GetAppUsage,
     GetAdminProfile, GetAdminStats, GetAdminActivity, ExportAdminLogs, GetAppLogs,
     ListSessions, GetUserSessions, GetGeoAnalytics, GetTokenStats,
     GenerateSecurityReport, DownloadReport, GetServerConfig, TestDB, TestCache}

LEMMA UnnamedAreProper == \A op \in Unnamed : Proper(op)
<1> DEFINE Quiet(op) == op \in OperationType /\ op.named = {}
<1>1. Quiet(Request)
  BY RequestIsProper, Zenon
<1>2. ASSUME NEW op, Quiet(op)
      PROVE  /\ Quiet(InApp(op)) /\ Quiet(Public(op)) /\ Quiet(WithSecret(op))
             /\ Quiet(Creates(op)) /\ Quiet(Discards(op)) /\ Quiet(Acts(op))
  BY <1>2, Combinators, Zenon
<1>3. /\ Quiet([Request EXCEPT !.decodes = {"array"}])
      /\ Quiet([Request EXCEPT !.decodes = @ \cup {"array"}])
  BY Zenon DEF Request, OperationType, AnyObject, AnyBody, ErrorBody
<1> HIDE DEF Quiet
<1>4. \A op \in Unnamed :
        op \in {Request, InApp(Request), Public(Request), WithSecret(Request),
                Creates(Request), Discards(Request), Acts(Request),
                InApp(Discards(Request)), InApp(Acts(Request)), WithSecret(Acts(Request)),
                [Request EXCEPT !.decodes = {"array"}],
                [Request EXCEPT !.decodes = @ \cup {"array"}]}
  BY Zenon DEF Unnamed, ListUsers, UpdateUserRole, DeleteUser, ResendVerification,
     ForcePasswordReset, GetActivityLogs, RevokeToken, IntrospectToken, UpdateProfile,
     ExchangeCode, RefreshToken, Logout, ListApps, CreateApp, UpdateApp, DeleteApp,
     RotateSecret, AdminListUsers, AdminDeleteUser, GetUserApps, BlockUser, UnlockUser,
     RevokeUserTokens, ListSuperadmins, CreateSuperadmin, UpdateSuperadmin,
     DeleteSuperadmin, GetThreatMetrics, ListBlockedIPs, BlockIP, UnblockIP,
     GetDashboardStats, GetDashboardHealth, ListAdminLogs, ListAlertRules,
     CreateAlertRule, UpdateAlertRule, DeleteAlertRule, GetAlertHistory,
     AcknowledgeAlert, GetDashboardActivity, GetLoginTrends, GetAppUsage,
     GetAdminProfile, GetAdminStats, GetAdminActivity, ExportAdminLogs, GetAppLogs,
     ListSessions, GetUserSessions, GetGeoAnalytics, GetTokenStats,
     GenerateSecurityReport, DownloadReport, GetServerConfig, TestDB, TestCache
<1>5. \A op \in Unnamed : Quiet(op)
  BY <1>1, <1>2, <1>3, <1>4, Zenon
<1> QED
  BY <1>5, ZenonT(40) DEF Quiet, Proper, Shape

\* The refusals that some operation names.
NamedRefusals ==
    {Named(404, AnyBody, "absent"), Named(409, AnyBody, "exists"),
     Named(404, ErrorBody, "absent"), Named(429, AnyBody, "limited"),
     Named(404, ErrorBody, "notInApp"), Named(400, ErrorBody, "invalid"),
     Named(401, AnyBody, "absent"), Named(503, AnyBody, "unavailable"),
     Named(400, AnyBody, "rejected"), Named(400, {"taken"}, "exists"),
     Named(400, {"error"}, "rejected"), Named(422, AnyBody, "used"),
     Named(401, AnyBody, "denied")}

LEMMA RefusalsTyped == NamedRefusals \subseteq RefusalType
<1>1. ASSUME NEW status \in Nat, NEW bodies \in SUBSET AnyBody,
             NEW result \in Results \ {"none"}
      PROVE  Named(status, bodies, result) \in RefusalType
  BY DEF Named, RefusalType
<1>2. /\ ErrorBody \in SUBSET AnyBody /\ {"taken"} \in SUBSET AnyBody
      /\ {"error"} \in SUBSET AnyBody /\ AnyBody \in SUBSET AnyBody
  BY DEF ErrorBody, AnyBody
<1>3. \A r \in {"absent", "exists", "limited", "notInApp", "invalid", "unavailable",
                "rejected", "used", "denied"} : r \in Results \ {"none"}
  BY DEF Results
<1>4. \A s \in {400, 401, 404, 409, 422, 429, 503} : s \in Nat
  OBVIOUS
<1>5. \A s \in {400, 401, 404, 409, 422, 429, 503},
         b \in {ErrorBody, {"taken"}, {"error"}, AnyBody},
         r \in {"absent", "exists", "limited", "notInApp", "invalid", "unavailable",
               "rejected", "used", "denied"} : Named(s, b, r) \in RefusalType
  BY <1>1, <1>2, <1>3, <1>4
<1>6. /\ Named(404, AnyBody, "absent") \in RefusalType
      /\ Named(409, AnyBody, "exists") \in RefusalType
      /\ Named(404, ErrorBody, "absent") \in RefusalType
      /\ Named(429, AnyBody, "limited") \in RefusalType
      /\ Named(404, ErrorBody, "notInApp") \in RefusalType
      /\ Named(400, ErrorBody, "invalid") \in RefusalType
      /\ Named(401, AnyBody, "absent") \in RefusalType
  BY <1>5
<1>7. /\ Named(503, AnyBody, "unavailable") \in RefusalType
      /\ Named(400, AnyBody, "rejected") \in RefusalType
      /\ Named(400, {"taken"}, "exists") \in RefusalType
      /\ Named(400, {"error"}, "rejected") \in RefusalType
      /\ Named(422, AnyBody, "used") \in RefusalType
      /\ Named(401, AnyBody, "denied") \in RefusalType
  BY <1>5
<1> QED
  BY <1>6, <1>7 DEF NamedRefusals

\* An operation that names no refusal is given some.
LEMMA NowNames ==
    ASSUME NEW op \in OperationType, op.named = {}, NEW N \in SUBSET NamedRefusals
    PROVE  /\ Names(op, N) \in OperationType /\ Names(op, N).named = N
           /\ Names(op, N).newer = op.newer /\ Names(op, N).cred = op.cred
<1>1. N \in SUBSET RefusalType
  BY RefusalsTyped
<1>2. {} \cup N = N
  OBVIOUS
<1> QED
  BY <1>1, <1>2, NamesEffect, Zenon

LEMMA SignupIsProper ==
    /\ Signup \in OperationType /\ Signup.cred = "none"
    /\ Signup.named = {Named(400, {"taken"}, "exists"), Named(400, {"error"}, "rejected")}
<1> DEFINE N == {Named(400, {"taken"}, "exists"), Named(400, {"error"}, "rejected")}
           c == Creates(Request)
           e == Names(c, N)
<1>1. N \in SUBSET NamedRefusals
  BY DEF NamedRefusals
<1>2. c \in OperationType /\ c.named = {}
  BY RequestIsProper, Combinators, Zenon
<1> HIDE DEF c, N
<1>3. e \in OperationType /\ e.named = N
  BY <1>1, <1>2, NowNames, Zenon
<1>4. Signup = Public(e)
  BY DEF Signup, c, N
<1> HIDE DEF e
<1>5. Public(e) \in OperationType /\ Public(e).named = N /\ Public(e).cred = "none"
  BY <1>3, Combinators, Zenon
<1> QED
  BY <1>4, <1>5, Zenon DEF N

\* The operations that name a refusal.
LEMMA NilOn404AreProper ==
    \A op \in {GetUser, GetProfile, GetApp, AdminGetUser, GetSuperadmin,
               GetIPReputation, GetAdminLog, GetReportStatus} : Proper(op)
<1> DEFINE e == NilOn404(Request)
           N == {Named(404, AnyBody, "absent")}
<1>1. N \in SUBSET NamedRefusals /\ e = Names(Request, N)
  BY DEF NamedRefusals, NilOn404
<1> HIDE DEF e, N
<1>2. e \in OperationType /\ e.named = N /\ ~e.newer
  BY <1>1, RequestIsProper, NowNames, Zenon
<1>3. ASSUME NEW op \in OperationType, op.named = N, ~op.newer PROVE Proper(op)
  BY <1>3, Zenon DEF Proper, Shape, N
<1>4. InApp(e) \in OperationType /\ InApp(e).named = N /\ ~InApp(e).newer
  BY <1>2, Combinators, Zenon
<1>5. Proper(e) /\ Proper(InApp(e))
  BY <1>2, <1>3, <1>4, Zenon
<1> QED
  BY <1>5, Zenon DEF e, GetUser, GetProfile, GetApp, AdminGetUser, GetSuperadmin,
     GetIPReputation, GetAdminLog, GetReportStatus

LEMMA ExistsOn409AreProper ==
    Proper(CreateUser) /\ Proper(RegisterUser) /\ Proper(InviteUserAsService)
<1> DEFINE e == ExistsOn409(Creates(Request))
           N == {Named(409, AnyBody, "exists")}
<1>1. N \in SUBSET NamedRefusals /\ e = Names(Creates(Request), N)
  BY DEF NamedRefusals, ExistsOn409
<1>2. /\ Creates(Request) \in OperationType /\ Creates(Request).named = {}
      /\ Creates(Request).cred = "user"
  BY RequestIsProper, Combinators, Zenon
<1> HIDE DEF e, N
<1>3. e \in OperationType /\ e.named = N /\ e.cred = "user"
  BY <1>1, <1>2, NowNames, Zenon
<1>4. InApp(e) # Signup /\ AsService(e) # Signup
  <2>1. InApp(e).cred = "user" /\ AsService(e).cred = "service" /\ Signup.cred = "none"
    BY <1>3, Combinators, SignupIsProper, ZenonT(40)
  <2> QED
    BY <2>1
<1>5. ASSUME NEW op \in OperationType, op.named = N, op # Signup PROVE Proper(op)
  BY <1>5, Zenon DEF Proper, Shape, N
<1>6. /\ InApp(e) \in OperationType /\ InApp(e).named = N
      /\ AsService(e) \in OperationType /\ AsService(e).named = N
  BY <1>3, Combinators, Zenon
<1>7. Proper(InApp(e)) /\ Proper(AsService(e))
  BY <1>4, <1>5, <1>6, Zenon
<1> QED
  BY <1>7, Zenon DEF e, CreateUser, RegisterUser, InviteUserAsService

LEMMA ServiceOperationsAreProper ==
    /\ Proper(GetUserAsService) /\ Proper(UpdateUserAsService)
    /\ Proper(SendMagicLink) /\ Proper(Decide)
<1>1. ASSUME NEW c \in OperationType, c.named = {}, NEW N \in SUBSET NamedRefusals
      PROVE  LET e == Names(c, N) IN
             /\ AsService(e) \in OperationType /\ AsService(e).named = N
             /\ AsService(Newer(e)) \in OperationType /\ AsService(Newer(e)).named = N
             /\ AsService(e) # Signup /\ AsService(Newer(e)) # Signup
  <2> DEFINE e == Names(c, N)
  <2>1. e \in OperationType /\ e.named = N
    BY <1>1, NowNames, Zenon
  <2> HIDE DEF e
  <2>2. Newer(e) \in OperationType /\ Newer(e).named = N
    BY <2>1, Combinators, Zenon
  <2>3. /\ AsService(e) \in OperationType /\ AsService(e).named = N
        /\ AsService(e).cred = "service"
        /\ AsService(Newer(e)) \in OperationType /\ AsService(Newer(e)).named = N
        /\ AsService(Newer(e)).cred = "service" /\ Signup.cred = "none"
    BY <2>1, <2>2, Combinators, SignupIsProper, ZenonT(40)
  <2> QED
    BY <2>3 DEF e
<1>2. Request \in OperationType /\ Request.named = {}
  BY RequestIsProper, Zenon
<1>3. Proper(GetUserAsService)
  <2> DEFINE N == {Named(404, ErrorBody, "absent")}
  <2>1. N \in SUBSET NamedRefusals
    BY DEF NamedRefusals
  <2>2. GetUserAsService = AsService(Newer(Names(Request, N)))
    BY Zenon DEF GetUserAsService, isSocrateErrorBody
  <2> HIDE DEF N
  <2>3. GetUserAsService \in OperationType /\ GetUserAsService.named = N
    BY <1>1, <1>2, <2>1, <2>2, Zenon
  <2> QED
    BY <2>3, Zenon DEF Proper, Shape, N
<1>4. Proper(UpdateUserAsService)
  <2> DEFINE N == {Named(404, ErrorBody, "notInApp"), Named(400, ErrorBody, "invalid")}
  <2>1. N \in SUBSET NamedRefusals
    BY DEF NamedRefusals
  <2>2. UpdateUserAsService = AsService(Newer(Names(Request, N)))
    BY Zenon DEF UpdateUserAsService, isSocrateErrorBody
  <2> HIDE DEF N
  <2>3. /\ UpdateUserAsService \in OperationType /\ UpdateUserAsService.named = N
        /\ UpdateUserAsService # Signup
    BY <1>1, <1>2, <2>1, <2>2, Zenon
  <2> QED
    BY <2>3, Zenon DEF Proper, Shape, N
<1>5. Proper(SendMagicLink)
  <2> DEFINE N == {Named(429, AnyBody, "limited")}
             c == [Request EXCEPT !.ok = {200, 202}]
  <2>1. N \in SUBSET NamedRefusals
    BY DEF NamedRefusals
  <2>2. ASSUME NEW op \in OperationType
        PROVE  LET x == [op EXCEPT !.ok = {200, 202}]
               IN  x \in OperationType /\ x.named = op.named
    BY DEF OperationType
  <2>3. c \in OperationType /\ c.named = {}
    BY <1>2, <2>2, Zenon
  <2>4. SendMagicLink = AsService(Names(c, N))
    BY Zenon DEF SendMagicLink
  <2> HIDE DEF N, c
  <2>5. SendMagicLink \in OperationType /\ SendMagicLink.named = N
    BY <1>1, <2>1, <2>3, <2>4, Zenon
  <2> QED
    BY <2>5, Zenon DEF Proper, Shape, N
<1>6. Proper(Decide)
  <2> DEFINE N == {Named(503, AnyBody, "unavailable"), Named(400, AnyBody, "rejected")}
  <2>1. N \in SUBSET NamedRefusals
    BY DEF NamedRefusals
  <2>2. Decide = AsService(Names(Request, N))
    BY Zenon DEF Decide
  <2> HIDE DEF N
  <2>3. Decide \in OperationType /\ Decide.named = N /\ Decide # Signup
    BY <1>1, <1>2, <2>1, <2>2, Zenon
  <2> QED
    BY <2>3, Zenon DEF Proper, Shape, N
<1> QED
  BY <1>3, <1>4, <1>5, <1>6, Zenon

LEMMA SignInOperationsAreProper ==
    /\ Proper(GetCurrentUserProfile) /\ Proper(Signup)
    /\ Proper(VerifyMagicLink) /\ Proper(AdminLogin)
<1>1. Proper(GetCurrentUserProfile)
  <2> DEFINE N == {Named(404, AnyBody, "absent")}
             M == {Named(401, AnyBody, "absent")}
             e == Names(Request, N)
  <2>1. N \in SUBSET NamedRefusals /\ M \in SUBSET RefusalType
    BY RefusalsTyped DEF NamedRefusals
  <2>2. N \cup M = {Named(404, AnyBody, "absent"), Named(401, AnyBody, "absent")}
    OBVIOUS
  <2> HIDE DEF N, M
  <2>3. e \in OperationType /\ e.named = N /\ ~e.newer
    <3>1. e \in OperationType /\ e.named = N /\ e.newer = Request.newer
      BY <2>1, RequestIsProper, NowNames, Zenon
    <3> HIDE DEF e
    <3> QED
      BY <3>1, RequestIsProper
  <2>4. GetCurrentUserProfile = Names(e, M)
    BY DEF GetCurrentUserProfile, NilOn404, N, M
  <2> HIDE DEF e
  <2>5. Names(e, M) \in OperationType /\ Names(e, M).named = N \cup M /\ ~Names(e, M).newer
    BY <2>1, <2>3, NamesEffect, Zenon
  <2>6. /\ GetCurrentUserProfile \in OperationType
        /\ GetCurrentUserProfile.named =
             {Named(404, AnyBody, "absent"), Named(401, AnyBody, "absent")}
        /\ ~GetCurrentUserProfile.newer
    BY <2>2, <2>4, <2>5, Zenon
  <2> QED
    BY <2>6, Zenon DEF Proper, Shape
<1>2. Proper(Signup)
  BY SignupIsProper, ZenonT(40) DEF Proper, Shape
<1>3. ASSUME NEW N \in SUBSET NamedRefusals
      PROVE  /\ Public(Names(Request, N)) \in OperationType
             /\ Public(Names(Request, N)).named = N
  <2>1. Names(Request, N) \in OperationType /\ Names(Request, N).named = N
    BY <1>3, RequestIsProper, NowNames, Zenon
  <2> QED
    BY <2>1, Combinators, Zenon
<1>4. Proper(VerifyMagicLink)
  <2> DEFINE N == {Named(422, AnyBody, "used"), Named(401, AnyBody, "denied")}
  <2>1. N \in SUBSET NamedRefusals
    BY DEF NamedRefusals
  <2>2. VerifyMagicLink \in OperationType /\ VerifyMagicLink.named = N
    BY <1>3, <2>1, ZenonT(40) DEF VerifyMagicLink
  <2> QED
    BY <2>2, Zenon DEF Proper, Shape
<1>5. Proper(AdminLogin)
  <2> DEFINE N == {Named(401, AnyBody, "denied")}
  <2>1. N \in SUBSET NamedRefusals
    BY DEF NamedRefusals
  <2>2. AdminLogin \in OperationType /\ AdminLogin.named = N
    BY <1>3, <2>1, Zenon DEF AdminLogin
  <2> QED
    BY <2>2, Zenon DEF Proper, Shape
<1> QED
  BY <1>1, <1>2, <1>4, <1>5, Zenon

LEMMA AllAreProper == \A op \in AllOperations : Proper(op)
<1>1. AllOperations =
        Unnamed \cup {GetUser, GetProfile, GetApp, AdminGetUser, GetSuperadmin,
                      GetIPReputation, GetAdminLog, GetReportStatus}
                \cup {CreateUser, RegisterUser, InviteUserAsService, GetUserAsService,
                      UpdateUserAsService, SendMagicLink, Decide,
                      GetCurrentUserProfile, Signup, VerifyMagicLink, AdminLogin}
  BY DEF AllOperations, Unnamed
<1> QED
  BY <1>1, UnnamedAreProper, NilOn404AreProper, ExistsOn409AreProper,
     ServiceOperationsAreProper, SignInOperationsAreProper, Zenon

----------------------------------------------------------------------------
(* What the results mean.                                                  *)

\* why, status and body are an answer to op.
Answer(op, why, status, body) ==
    \/ why = "done" /\ status \in op.ok
    \/ <<why, status, body>> \in Refusals(op)

\* What the status of a refusal tells.
Telling(op, why, status, body) ==
    /\ status = 404 => why = "absent" \/ (op.newer /\ body = "text")
    /\ status = 409 => why = "exists"
    /\ status = 400 => \/ why = "invalid" /\ body = "error"
                       \/ op = Signup /\ why = "exists" /\ body = "taken"
    /\ status = 401 => why = "unauthorised"
    /\ status = 429 => why = "limited"
    /\ status = 422 => why = "used"
    /\ status = 503 => why = "unavailable"

LEMMA RefusalMeans ==
    ASSUME NEW op, NEW why, NEW status, NEW body, <<why, status, body>> \in Refusals(op)
    PROVE  /\ why \in Reasons /\ body \in AnyBody /\ status \in Nat
           /\ status \notin {200, 201, 202, 204}
           /\ Telling(op, why, status, body)
<1> USE DEF Telling
<1> USE DEF Reasons, AnyBody, ErrorBody
<1>1. CASE <<why, status, body>> \in
             {<<"unauthorised", 401, "error">>, <<"absent", 404, "error">>,
              <<"invalid", 400, "error">>, <<"limited", 429, "error">>,
              <<"used", 422, "error">>, <<"unavailable", 503, "object">>,
              <<"failed", 502, "text">>}
  BY <1>1
<1>2. CASE <<why, status, body>> =
             IF op = Signup THEN <<"exists", 400, "taken">> ELSE <<"exists", 409, "error">>
  BY <1>2
<1>3. CASE op.newer /\ \E s \in {404, 405} : <<why, status, body>> = <<"noRoute", s, "text">>
  BY <1>3
<1> QED
  BY <1>1, <1>2, <1>3 DEF Refusals

LEMMA Sound ==
    ASSUME NEW op \in AllOperations, NEW why, NEW status, NEW body,
           Answer(op, why, status, body), Outcome(op, status, body) # "error"
    PROVE  why \in Meaning(op, Outcome(op, status, body))
<1>1. op \in OperationType /\ Shape(op)
  BY AllAreProper, Zenon DEF Proper
<1>2. CASE status \in op.ok
  <2>1. Outcome(op, status, body) = "value"
    BY <1>2 DEF Outcome
  <2>2. why = "done"
    <3>1. status \in {200, 201, 202, 204}
      BY <1>1, <1>2 DEF OperationType
    <3>2. <<why, status, body>> \notin Refusals(op)
      BY <3>1, RefusalMeans, Zenon
    <3> QED
      BY <3>2, Zenon DEF Answer
  <2> QED
    BY <2>1, <2>2 DEF Meaning
<1>3. CASE status \notin op.ok
  <2>1. <<why, status, body>> \in Refusals(op)
    BY <1>3, Zenon DEF Answer
  <2>2. PICK n \in op.named : /\ n.status = status /\ body \in n.bodies
                              /\ Outcome(op, status, body) = n.is
    <3> DEFINE P(n) == n.status = status /\ body \in n.bodies
    <3>1. \E n \in op.named : P(n)
      BY <1>3 DEF Outcome
    <3>2. Outcome(op, status, body) = (CHOOSE n \in op.named : P(n)).is
      BY <1>3, <3>1, Zenon DEF Outcome
    <3> HIDE DEF P
    <3>3. (CHOOSE n \in op.named : P(n)) \in op.named /\ P(CHOOSE n \in op.named : P(n))
      BY <3>1, Zenon
    <3> QED
      BY <3>2, <3>3, Zenon DEF P
  <2>3. Telling(op, why, status, body)
    BY <2>1, RefusalMeans, Zenon
  <2>4. ASSUME NEW s, NEW b, NEW r, n = Named(s, b, r)
        PROVE  status = s /\ body \in b /\ Outcome(op, status, body) = r
    BY <2>2, <2>4 DEF Named
  <2>5. \/ n = Named(404, AnyBody, "absent") /\ ~op.newer
        \/ n = Named(409, AnyBody, "exists")
        \/ n = Named(404, ErrorBody, "absent")
        \/ n = Named(404, ErrorBody, "notInApp")
        \/ n = Named(400, ErrorBody, "invalid") /\ op # Signup
        \/ n = Named(429, AnyBody, "limited")
        \/ n = Named(401, AnyBody, "absent") /\ op = GetCurrentUserProfile
        \/ n = Named(503, AnyBody, "unavailable")
        \/ n = Named(400, AnyBody, "rejected") /\ op # Signup
        \/ n = Named(400, {"taken"}, "exists")
        \/ n = Named(400, {"error"}, "rejected")
        \/ n = Named(422, AnyBody, "used")
        \/ n = Named(401, AnyBody, "denied")
    BY <1>1, <2>2 DEF Shape
  <2>6. CASE n = Named(404, AnyBody, "absent") /\ ~op.newer
    BY <2>3, <2>4, <2>6 DEF Telling, Meaning
  <2>7. CASE \/ n = Named(404, ErrorBody, "absent") \/ n = Named(404, ErrorBody, "notInApp")
    BY <2>3, <2>4, <2>7 DEF Telling, Meaning, ErrorBody
  <2>8. CASE \/ n = Named(400, ErrorBody, "invalid") /\ op # Signup
             \/ n = Named(400, AnyBody, "rejected") /\ op # Signup
             \/ n = Named(400, {"taken"}, "exists")
             \/ n = Named(400, {"error"}, "rejected")
    BY <2>3, <2>4, <2>8 DEF Telling, Meaning
  <2>9. CASE \/ n = Named(401, AnyBody, "absent") /\ op = GetCurrentUserProfile
             \/ n = Named(401, AnyBody, "denied")
    BY <2>3, <2>4, <2>9 DEF Telling, Meaning
  <2>10. CASE \/ n = Named(409, AnyBody, "exists") \/ n = Named(429, AnyBody, "limited")
              \/ n = Named(503, AnyBody, "unavailable") \/ n = Named(422, AnyBody, "used")
    BY <2>3, <2>4, <2>10 DEF Telling, Meaning
  <2> QED
    BY <2>5, <2>6, <2>7, <2>8, <2>9, <2>10
<1> QED
  BY <1>2, <1>3

----------------------------------------------------------------------------
(* The inductive invariant.                                                *)

CallType ==
    [pc: {"idle", "appID", "lookup", "listed", "store", "send", "sent",
          "answered", "done"},
     op: AllOperations, jwt: BOOLEAN, path: IDs \cup {Unset, Other, Torn},
     status: Nat, body: AnyBody, apps: AppLists, why: Reasons,
     effects: 0 .. 1, open: 0 .. 1, result: Results]

\* The places of a list that have our ClientID have an ID of ours.
Ours(apps) == \A i \in Found(apps) : apps[i].ID \in IDs

\* What holds of a call, whether or not the ID is configured (fixed).
AnswerInv(e, fixed) ==
    /\ e.pc = "answered" => Answer(e.op, e.why, e.status, e.body)
    /\ e.pc = "done" /\ e.result # "error" => e.why \in Meaning(e.op, e.result)
    /\ e.effects = 1 => e.pc \in {"answered", "done"}
    /\ e.path # Other
    /\ e.pc = "store" => e.path \in IDs
    /\ e.pc = "listed" => Ours(e.apps)
    /\ fixed => e.pc \notin {"lookup", "listed", "store"}
    /\ e.pc = "done" /\ e.open > 0 => e.op.cred = "service" /\ e.status = 401 /\ ~fixed

Fine(e, fixed) == e \in CallType /\ AnswerInv(e, fixed)

Inv ==
    /\ configured \in BOOLEAN /\ hasSecret \in BOOLEAN /\ app \in IDs
    /\ resolvedAppID \in IDs \cup {Unset}
    /\ configured => resolvedAppID \in IDs
    /\ call \in [Callers -> CallType]
    /\ \A c \in Callers : Fine(call[c], configured)

\* The IDs and the values that are none are different.
LEMMA Distinct == Unset # Other /\ Torn # Other /\ {Unset, Other, Torn} \cap IDs = {}
<1>1. {Unset, Other, Torn} \cap IDs = {}
  BY SocrateClientAssumption DEF IDs
<1>2. ASSUME NEW x, NEW y PROVE Cardinality({x, y}) \in 0 .. 2
  <2>1. IsFiniteSet({y}) /\ Cardinality({y}) = 1
    BY FS_Singleton, Zenon
  <2>2. {x, y} = {y} \cup {x}
    OBVIOUS
  <2>3. Cardinality({y} \cup {x}) = IF x \in {y} THEN Cardinality({y}) ELSE Cardinality({y}) + 1
    BY <2>1, FS_AddElement, Zenon
  <2> QED
    BY <2>1, <2>2, <2>3
<1>3. Unset # Other
  <2>1. SUFFICES ASSUME Unset = Other PROVE FALSE
    OBVIOUS
  <2>2. {Unset, Other, Torn} = {Other, Torn}
    BY <2>1
  <2>3. Cardinality({Other, Torn}) \in 0 .. 2
    BY <1>2, Zenon
  <2> QED
    BY <2>2, <2>3, SocrateClientAssumption
<1>4. Torn # Other
  <2>1. SUFFICES ASSUME Torn = Other PROVE FALSE
    OBVIOUS
  <2>2. {Unset, Other, Torn} = {Unset, Other}
    BY <2>1
  <2>3. Cardinality({Unset, Other}) \in 0 .. 2
    BY <1>2, Zenon
  <2> QED
    BY <2>2, <2>3, SocrateClientAssumption
<1> QED
  BY <1>1, <1>3, <1>4

\* A step of one call keeps the invariant if it leaves that call in order.
LEMMA OneCall ==
    ASSUME Inv, NEW c \in Callers, NEW e, Fine(e, configured),
           call' = [call EXCEPT ![c] = e], UNCHANGED <<config, app>>,
           resolvedAppID' \in IDs \cup {Unset}, configured => resolvedAppID' \in IDs
    PROVE  Inv'
<1>1. call' \in [Callers -> CallType]
  BY DEF Inv, Fine
<1>2. ASSUME NEW d \in Callers PROVE Fine(call'[d], configured)
  <2>1. CASE d = c
    BY <2>1 DEF Inv
  <2>2. CASE d # c
    <3>1. call'[d] = call[d]
      BY <2>2 DEF Inv
    <3> QED
      BY <3>1 DEF Inv
  <2> QED
    BY <2>1, <2>2
<1>3. configured' = configured /\ hasSecret' = hasSecret /\ app' = app
  BY DEF config
<1>4. CallType' = CallType /\ IDs' = IDs
  OBVIOUS
<1>5. \A d \in Callers : Fine(call'[d], configured')
  BY <1>2, <1>3
<1> QED
  BY <1>1, <1>3, <1>5 DEF Inv

LEMMA CallKeeps ==
    ASSUME Inv, NEW c \in Callers, NEW e, Fine(e, configured),
           call' = [call EXCEPT ![c] = e], UNCHANGED <<config, app, resolvedAppID>>
    PROVE  Inv'
<1>1. resolvedAppID' \in IDs \cup {Unset} /\ (configured => resolvedAppID' \in IDs)
  BY DEF Inv
<1> QED
  BY <1>1, OneCall, Zenon

\* What a read of the cached ID can give.
LEMMA ReadableIs ==
    ASSUME Inv, NEW c \in Callers, NEW id \in IDs \cup {Unset},
           NEW read \in Readable(c, id)
    PROVE  /\ read \in IDs \cup {Unset, Torn} /\ read # Other
           /\ configured => read = id
<1>1. \A w \in Writing(c) : w \in IDs
  BY DEF Writing, Inv, Fine, AnswerInv
<1>2. configured => Writing(c) = {}
  BY DEF Writing, Inv, Fine, AnswerInv
<1> QED
  BY <1>1, <1>2, Distinct DEF Readable


LEMMA Bits == 0 \in 0 .. 1 /\ 1 \in 0 .. 1
  OBVIOUS

LEMMA IdleIsFine == ASSUME NEW fixed PROVE Fine(Idle, fixed)
<1>1. ListApps \in AllOperations
  BY DEF AllOperations
<1>2. Idle \in CallType
  <2>1. <<>> \in AppLists
    BY DEF AppLists
  <2>2. "text" \in AnyBody /\ "none" \in Reasons /\ "none" \in Results
    BY DEF AnyBody, Reasons, Results, ErrorBody
  <2>3. 0 \in Nat
    OBVIOUS
  <2> QED
    BY <1>1, <2>1, <2>2, <2>3, Bits, Zenon DEF Idle, CallType
<1>3. Idle.pc = "idle" /\ Idle.effects = 0 /\ Idle.path = Unset
  BY DEF Idle
<1> QED
  BY <1>2, <1>3, Distinct DEF Fine, AnswerInv

----------------------------------------------------------------------------
(* The steps.                                                              *)

LEMMA BeginKeeps == ASSUME Inv, NEW c \in Callers, Begin(c) PROVE Inv'
<1>1. PICK op \in OperationsOf[c], jwt \in BOOLEAN :
        call' = [call EXCEPT ![c] = [Idle EXCEPT !.op = op, !.jwt = jwt,
                   !.pc = IF op.app THEN "appID" ELSE "send"]]
  BY Zenon DEF Begin
<1> DEFINE e == [Idle EXCEPT !.op = op, !.jwt = jwt,
                   !.pc = IF op.app THEN "appID" ELSE "send"]
<1>2. op \in AllOperations
  BY SocrateClientAssumption
<1>3. Idle \in CallType /\ Idle.effects = 0 /\ Idle.path = Unset
  BY IdleIsFine, Zenon DEF Fine, Idle
<1>4. e \in CallType
  BY <1>2, <1>3, ZenonT(40) DEF CallType
<1>5. e.pc \in {"appID", "send"} /\ e.effects = 0 /\ e.path = Unset
  BY <1>3 DEF CallType
<1> HIDE DEF e
<1>6. Fine(e, configured)
  BY <1>4, <1>5, Distinct DEF Fine, AnswerInv
<1>7. call' = [call EXCEPT ![c] = e]
  BY <1>1 DEF e
<1>8. UNCHANGED <<config, app, resolvedAppID>>
  BY Zenon DEF Begin
<1> QED
  BY <1>6, <1>7, <1>8, CallKeeps, Zenon

LEMMA ReturnKeeps ==
    ASSUME Inv, NEW c \in Callers, NEW result \in Results, Return(c, result),
           result # "error" => call[c].why \in Meaning(call[c].op, result),
           UNCHANGED <<config, app, resolvedAppID>>
    PROVE  Inv'
<1> DEFINE e == [call[c] EXCEPT !.pc = "done", !.result = result, !.open = 0]
<1>1. call[c] \in CallType /\ AnswerInv(call[c], configured)
  BY DEF Inv, Fine
<1>2. e \in CallType
  BY <1>1, Bits, Zenon DEF CallType
<1>3. /\ e.pc = "done" /\ e.result = result /\ e.open = 0 /\ e.why = call[c].why
      /\ e.op = call[c].op /\ e.path = call[c].path
  BY <1>1 DEF CallType
<1>4. call' = [call EXCEPT ![c] = e]
  BY DEF Return
<1> HIDE DEF e
<1>5. Fine(e, configured)
  BY <1>1, <1>2, <1>3 DEF Fine, AnswerInv
<1> QED
  BY <1>4, <1>5, CallKeeps, Zenon

\* The steps that end in an error.
LEMMA ErrorsKeep ==
    ASSUME Inv, NEW c \in Callers, NotSent(c) \/ ListRefused(c) \/ Lose(c) PROVE Inv'
<1>1. Return(c, "error") /\ UNCHANGED <<config, app, resolvedAppID>>
  BY DEF NotSent, ListRefused, Lose
<1>2. "error" \in Results
  BY DEF Results
<1> QED
  BY <1>1, <1>2, ReturnKeeps, Zenon

LEMMA GetAppIDKeeps == ASSUME Inv, NEW c \in Callers, getAppID(c) PROVE Inv'
<1>1. PICK id \in Readable(c, resolvedAppID) :
        call' = [call EXCEPT ![c].path = id,
                             ![c].pc = IF id = Unset THEN "lookup" ELSE "send"]
  BY Zenon DEF getAppID
<1> DEFINE e == [call[c] EXCEPT !.path = id, !.pc = IF id = Unset THEN "lookup" ELSE "send"]
<1>2. /\ call[c] \in CallType /\ AnswerInv(call[c], configured)
      /\ call \in [Callers -> CallType]
  BY DEF Inv, Fine
<1>3. id \in IDs \cup {Unset, Torn} /\ id # Other /\ (configured => id # Unset)
  BY <1>1, ReadableIs, Distinct DEF Inv
<1>4. call[c].effects = 0
  BY <1>2 DEF getAppID, AnswerInv, CallType
<1>5. e \in CallType
  BY <1>2, <1>3, Zenon DEF CallType
<1>6. /\ e.pc = (IF id = Unset THEN "lookup" ELSE "send") /\ e.path = id
      /\ e.effects = call[c].effects
  BY <1>2 DEF CallType
<1>7. call' = [call EXCEPT ![c] = e]
  BY <1>1, <1>2, Zenon DEF CallType
<1> HIDE DEF e
<1>8. Fine(e, configured)
  BY <1>3, <1>4, <1>5, <1>6 DEF Fine, AnswerInv
<1>9. UNCHANGED <<config, app, resolvedAppID>>
  BY Zenon DEF getAppID
<1> QED
  BY <1>7, <1>8, <1>9, CallKeeps, Zenon


\* What the server lists is well-formed, and under our ClientID it has our ID.
LEMMA ListsAreOurs ==
    ASSUME app \in IDs, NEW apps \in Lists \cup {<<>>}
    PROVE  apps \in AppLists /\ Ours(apps)
<1> DEFINE ours == [ID |-> app, ClientID |-> "ours"]
           theirs == [ID |-> Other, ClientID |-> "theirs"]
           T == [ID: IDs \cup {Other}, ClientID: {"ours", "theirs"}]
<1>1. ours \in T /\ theirs \in T
  OBVIOUS
<1>2. ours.ClientID = "ours" /\ ours.ID \in IDs /\ theirs.ClientID # "ours"
  OBVIOUS
<1>3. apps \in {<<>>, <<ours>>, <<theirs>>, <<ours, theirs>>, <<theirs, ours>>}
  BY Zenon DEF Lists
<1> HIDE DEF ours, theirs, T
<1>4. apps \in Seq(T)
  <2>1. <<>> \in Seq(T)
    OBVIOUS
  <2>2. \A x \in T : <<x>> \in Seq(T)
    OBVIOUS
  <2>3. \A x, y \in T : <<x, y>> \in Seq(T)
    OBVIOUS
  <2> QED
    BY <1>1, <1>3, <2>1, <2>2, <2>3, Zenon
<1>5. \A i \in DOMAIN apps : apps[i] \in {ours, theirs}
  BY <1>3
<1>6. Ours(apps)
  BY <1>2, <1>5, Zenon DEF Ours, Found
<1> QED
  BY <1>4, <1>6, Zenon DEF AppLists, T

LEMMA ListAnsweredKeeps == ASSUME Inv, NEW c \in Callers, ListAnswered(c) PROVE Inv'
<1>1. PICK answer \in {<<200, "object", apps>> : apps \in Lists}
             \cup {<<200, "text", <<>>>>, <<401, "error", <<>>>>, <<500, "text", <<>>>>} :
        call' = [call EXCEPT ![c] = [@ EXCEPT !.pc = "listed", !.open = 1,
                   !.status = answer[1], !.body = answer[2], !.apps = answer[3]]]
  BY Zenon DEF ListAnswered
<1> DEFINE status == answer[1]
           body == answer[2]
           apps == answer[3]
           e == [call[c] EXCEPT !.pc = "listed", !.open = 1, !.status = status,
                                !.body = body, !.apps = apps]
<1>2. /\ call[c] \in CallType /\ AnswerInv(call[c], configured)
      /\ call \in [Callers -> CallType] /\ app \in IDs
  BY Zenon DEF Inv, Fine
<1>3. status \in Nat /\ body \in {"object", "text", "error"} /\ apps \in Lists \cup {<<>>}
  <2>1. CASE answer \in {<<200, "object", list>> : list \in Lists}
    <3>1. PICK list \in Lists : answer = <<200, "object", list>>
      BY <2>1
    <3> QED
      BY <3>1
  <2>2. CASE answer = <<200, "text", <<>>>>
    BY <2>2
  <2>3. CASE answer = <<401, "error", <<>>>>
    BY <2>3
  <2>4. CASE answer = <<500, "text", <<>>>>
    BY <2>4
  <2> QED
    BY <1>1, <2>1, <2>2, <2>3, <2>4, Zenon
<1>4. body \in AnyBody
  BY <1>3 DEF AnyBody, ErrorBody
<1>5. call[c].effects = 0 /\ ~configured /\ call[c].path # Other
  BY <1>2 DEF ListAnswered, AnswerInv, CallType
<1>6. call' = [call EXCEPT ![c] = e]
  BY <1>1, <1>2, Zenon
<1> HIDE DEF status, body, apps
<1>7. apps \in AppLists /\ Ours(apps)
  BY <1>2, <1>3, ListsAreOurs, Zenon
<1>8. e \in CallType
  BY <1>2, <1>3, <1>4, <1>7, Bits, Zenon DEF CallType
<1>9. /\ e.pc = "listed" /\ e.path = call[c].path /\ e.effects = call[c].effects
      /\ e.apps = apps
  BY <1>2 DEF CallType
<1> HIDE DEF e
<1>10. Fine(e, configured)
  BY <1>5, <1>7, <1>8, <1>9 DEF Fine, AnswerInv
<1>11. UNCHANGED <<config, app, resolvedAppID>>
  BY ZenonT(40) DEF ListAnswered
<1> QED
  BY <1>6, <1>10, <1>11, CallKeeps, Zenon

LEMMA ParseAppIDKeeps == ASSUME Inv, NEW c \in Callers, parseAppID(c) PROVE Inv'
<1>1. PICK i \in Found(call[c].apps) :
        call' = [call EXCEPT ![c] = [@ EXCEPT !.pc = "store", !.open = 0,
                   !.path = call[c].apps[i].ID, !.apps = <<>>]]
  BY Zenon DEF parseAppID
<1> DEFINE id == call[c].apps[i].ID
           e == [call[c] EXCEPT !.pc = "store", !.open = 0, !.path = id, !.apps = <<>>]
<1>2. /\ call[c] \in CallType /\ AnswerInv(call[c], configured)
      /\ call \in [Callers -> CallType]
  BY Zenon DEF Inv, Fine
<1>3. call[c].effects = 0 /\ ~configured
  BY <1>2 DEF parseAppID, AnswerInv, CallType
<1>4. id \in IDs
  BY <1>1, <1>2, Zenon DEF parseAppID, AnswerInv, Ours
<1>5. <<>> \in AppLists
  BY DEF AppLists
<1>6. call' = [call EXCEPT ![c] = e]
  BY <1>1, <1>2, Zenon
<1> HIDE DEF id
<1>7. e \in CallType
  BY <1>2, <1>4, <1>5, Bits, Zenon DEF CallType
<1>8. e.pc = "store" /\ e.path = id /\ e.effects = call[c].effects
  BY <1>2 DEF CallType
<1> HIDE DEF e
<1>9. Fine(e, configured)
  BY <1>3, <1>4, <1>7, <1>8, Distinct DEF Fine, AnswerInv
<1>10. UNCHANGED <<config, app, resolvedAppID>>
  BY Zenon DEF parseAppID
<1> QED
  BY <1>6, <1>9, <1>10, CallKeeps, Zenon

LEMMA ListUnauthorisedKeeps ==
    ASSUME Inv, NEW c \in Callers, ListUnauthorised(c) PROVE Inv'
<1> DEFINE e == [call[c] EXCEPT !.pc = "done", !.result = "error"]
<1>1. /\ call[c] \in CallType /\ AnswerInv(call[c], configured)
      /\ call \in [Callers -> CallType]
  BY Zenon DEF Inv, Fine
<1>2. /\ ~configured /\ call[c].path # Other
      /\ call[c].op.cred = "service" /\ call[c].status = 401
  BY <1>1 DEF ListUnauthorised, AnswerInv
<1>3. call' = [call EXCEPT ![c] = e]
  BY <1>1, Zenon DEF ListUnauthorised
<1>4. "error" \in Results
  BY DEF Results
<1>5. e \in CallType
  BY <1>1, <1>4, Zenon DEF CallType
<1>6. /\ e.pc = "done" /\ e.result = "error" /\ e.path = call[c].path
      /\ e.op = call[c].op /\ e.status = call[c].status
  BY <1>1 DEF CallType
<1> HIDE DEF e
<1>7. Fine(e, configured)
  BY <1>2, <1>5, <1>6 DEF Fine, AnswerInv
<1>8. UNCHANGED <<config, app, resolvedAppID>>
  BY Zenon DEF ListUnauthorised
<1> QED
  BY <1>3, <1>7, <1>8, CallKeeps, Zenon

LEMMA StoreAppIDKeeps == ASSUME Inv, NEW c \in Callers, StoreAppID(c) PROVE Inv'
<1>1. PICK id \in Readable(c, resolvedAppID') :
        call' = [call EXCEPT ![c].pc = "send", ![c].path = id]
  BY Zenon DEF StoreAppID
<1> DEFINE e == [call[c] EXCEPT !.pc = "send", !.path = id]
<1>2. /\ call[c] \in CallType /\ AnswerInv(call[c], configured)
      /\ call \in [Callers -> CallType]
  BY Zenon DEF Inv, Fine
<1>3. resolvedAppID' \in IDs /\ call[c].effects = 0
  BY <1>2 DEF StoreAppID, AnswerInv, CallType
<1>4. id \in IDs \cup {Unset, Torn} /\ id # Other
  BY <1>1, <1>3, ReadableIs
<1>5. e \in CallType
  BY <1>2, <1>4, Zenon DEF CallType
<1>6. e.pc = "send" /\ e.path = id /\ e.effects = call[c].effects
  BY <1>2 DEF CallType
<1>7. call' = [call EXCEPT ![c] = e]
  BY <1>1, <1>2, Zenon DEF CallType
<1> HIDE DEF e
<1>8. Fine(e, configured)
  BY <1>3, <1>4, <1>5, <1>6 DEF Fine, AnswerInv
<1> QED
  BY <1>3, <1>7, <1>8, OneCall, Zenon DEF StoreAppID


LEMMA SendKeeps == ASSUME Inv, NEW c \in Callers, Send(c) PROVE Inv'
<1> DEFINE e == [call[c] EXCEPT !.pc = "sent"]
<1>1. /\ call[c] \in CallType /\ AnswerInv(call[c], configured)
      /\ call \in [Callers -> CallType]
  BY Zenon DEF Inv, Fine
<1>2. call[c].effects = 0 /\ call[c].path # Other
  BY <1>1 DEF Send, AnswerInv, CallType
<1>3. call' = [call EXCEPT ![c] = e]
  BY <1>1, Zenon DEF Send
<1>4. e \in CallType
  BY <1>1, Zenon DEF CallType
<1>5. e.pc = "sent" /\ e.path = call[c].path /\ e.effects = call[c].effects
  BY <1>1 DEF CallType
<1> HIDE DEF e
<1>6. Fine(e, configured)
  BY <1>2, <1>4, <1>5 DEF Fine, AnswerInv
<1>7. UNCHANGED <<config, app, resolvedAppID>>
  BY Zenon DEF Send
<1> QED
  BY <1>3, <1>6, <1>7, CallKeeps, Zenon

\* A call that is given an answer is in order.
LEMMA AnsweredIsFine ==
    ASSUME Inv, NEW c \in Callers, NEW why \in Reasons, NEW status \in Nat,
           NEW body \in AnyBody, NEW effects \in 0 .. 1,
           Answer(call[c].op, why, status, body)
    PROVE  Fine([call[c] EXCEPT !.pc = "answered", !.why = why, !.status = status,
                                !.body = body, !.effects = effects, !.open = 1], configured)
<1> DEFINE e == [call[c] EXCEPT !.pc = "answered", !.why = why, !.status = status,
                                !.body = body, !.effects = effects, !.open = 1]
<1>1. call[c] \in CallType /\ AnswerInv(call[c], configured)
  BY Zenon DEF Inv, Fine
<1>2. e \in CallType
  BY <1>1, Bits, Zenon DEF CallType
<1>3. /\ e.pc = "answered" /\ e.path = call[c].path /\ e.op = call[c].op
      /\ e.why = why /\ e.status = status /\ e.body = body
  BY <1>1 DEF CallType
<1>4. call[c].path # Other
  BY <1>1, Zenon DEF AnswerInv
<1> HIDE DEF e
<1>5. Fine(e, configured)
  BY <1>2, <1>3, <1>4 DEF Fine, AnswerInv
<1> QED
  BY <1>5, Zenon DEF e

LEMMA HandleKeeps == ASSUME Inv, NEW c \in Callers, Handle(c) PROVE Inv'
<1>1. /\ call[c] \in CallType /\ call[c].op \in AllOperations
      /\ call \in [Callers -> CallType]
  BY DEF Inv, CallType
<1>2. call[c].effects = 0
  BY Zenon DEF Handle
<1>3. UNCHANGED <<config, app, resolvedAppID>>
  BY Zenon DEF Handle
<1> DEFINE Given(why, status, body, effects) ==
        [call[c] EXCEPT !.pc = "answered", !.why = why, !.status = status,
                        !.body = body, !.effects = effects, !.open = 1]
<1>4. CASE \E s \in call[c].op.ok, b \in {"object", "array", "text"} :
             call' = [call EXCEPT ![c] = [@ EXCEPT !.pc = "answered", !.why = "done",
                        !.status = s, !.body = b, !.effects = call[c].effects + 1, !.open = 1]]
  <2>1. PICK s \in call[c].op.ok, b \in {"object", "array", "text"} :
          call' = [call EXCEPT ![c] = [@ EXCEPT !.pc = "answered", !.why = "done",
                     !.status = s, !.body = b, !.effects = call[c].effects + 1, !.open = 1]]
    BY <1>4, Zenon
  <2>2. call[c].effects + 1 = 1
    BY <1>2
  <2>3. call' = [call EXCEPT ![c] = Given("done", s, b, 1)]
    <3>1. [call[c] EXCEPT !.pc = "answered", !.why = "done", !.status = s,
                          !.body = b, !.effects = call[c].effects + 1, !.open = 1]
            = Given("done", s, b, 1)
      BY <1>1, <2>2, Zenon DEF CallType
    <3> QED
      BY <1>1, <2>1, <3>1, Zenon
  <2>4. s \in Nat
    <3>1. call[c].op \in OperationType
      BY <1>1, AllAreProper, Zenon DEF Proper
    <3> QED
      BY <3>1 DEF OperationType
  <2>5. b \in AnyBody /\ "done" \in Reasons
    BY DEF AnyBody, Reasons, ErrorBody
  <2>6. Answer(call[c].op, "done", s, b)
    BY Zenon DEF Answer
  <2>7. Fine(Given("done", s, b, 1), configured)
    BY <2>4, <2>5, <2>6, Bits, AnsweredIsFine, Zenon
  <2> QED
    BY <1>3, <2>3, <2>7, CallKeeps, Zenon
<1>5. CASE \E r \in Refusals(call[c].op) :
             call' = [call EXCEPT ![c] = [@ EXCEPT !.pc = "answered", !.why = r[1],
                        !.status = r[2], !.body = r[3], !.open = 1]]
  <2>1. PICK r \in Refusals(call[c].op) :
          call' = [call EXCEPT ![c] = [@ EXCEPT !.pc = "answered", !.why = r[1],
                     !.status = r[2], !.body = r[3], !.open = 1]]
    BY <1>5, Zenon
  <2> DEFINE why == r[1]
             status == r[2]
             body == r[3]
  <2>2. r = <<why, status, body>>
    BY <2>1 DEF Refusals
  <2>3. call' = [call EXCEPT ![c] = [call[c] EXCEPT !.pc = "answered", !.why = why,
                   !.status = status, !.body = body, !.open = 1]]
    BY <1>1, <2>1, Zenon
  <2> HIDE DEF why, status, body
  <2>4. <<why, status, body>> \in Refusals(call[c].op)
    BY <2>1, <2>2, Zenon
  <2>5. why \in Reasons /\ status \in Nat /\ body \in AnyBody
    BY <2>4, RefusalMeans
  <2>6. Answer(call[c].op, why, status, body)
    BY <2>4, Zenon DEF Answer
  <2>7. [call[c] EXCEPT !.pc = "answered", !.why = why, !.status = status,
                        !.body = body, !.open = 1] = Given(why, status, body, 0)
    BY <1>1, <1>2, Zenon DEF CallType
  <2>8. Fine(Given(why, status, body, 0), configured)
    BY <2>5, <2>6, Bits, AnsweredIsFine, Zenon
  <2> HIDE DEF Given
  <2> QED
    BY <1>3, <2>3, <2>7, <2>8, CallKeeps, Zenon
<1> QED
  BY <1>4, <1>5, Zenon DEF Handle


LEMMA OutcomeTyped ==
    ASSUME NEW op \in AllOperations, NEW status, NEW body
    PROVE  Outcome(op, status, body) \in Results
<1> DEFINE P(n) == n.status = status /\ body \in n.bodies
<1>1. op \in OperationType
  BY AllAreProper, Zenon DEF Proper
<1>2. ASSUME \E n \in op.named : P(n)
      PROVE  (CHOOSE n \in op.named : P(n)).is \in Results
  <2> HIDE DEF P
  <2>1. (CHOOSE n \in op.named : P(n)) \in op.named
    BY <1>2, Zenon
  <2>2. \A n \in op.named : n.is \in Results
    BY <1>1 DEF OperationType, RefusalType
  <2> QED
    BY <2>1, <2>2, Zenon
<1>3. "value" \in Results /\ "error" \in Results
  BY DEF Results
<1> QED
  BY <1>2, <1>3, Zenon DEF Outcome

LEMMA DecodeKeeps == ASSUME Inv, NEW c \in Callers, Decode(c) PROVE Inv'
<1> DEFINE result == Outcome(call[c].op, call[c].status, call[c].body)
<1>1. call[c] \in CallType /\ AnswerInv(call[c], configured)
  BY Zenon DEF Inv, Fine
<1>2. call[c].op \in AllOperations
  BY <1>1 DEF CallType
<1>3. Answer(call[c].op, call[c].why, call[c].status, call[c].body)
  BY <1>1, Zenon DEF Decode, AnswerInv
<1>4. result \in Results
  BY <1>2, OutcomeTyped, Zenon
<1>5. result # "error" => call[c].why \in Meaning(call[c].op, result)
  BY <1>2, <1>3, Sound, Zenon
<1>6. Return(c, result) /\ UNCHANGED <<config, app, resolvedAppID>>
  BY Zenon DEF Decode
<1> HIDE DEF result
<1> QED
  BY <1>4, <1>5, <1>6, ReturnKeeps, Zenon

LEMMA AgainKeeps == ASSUME Inv, NEW c \in Callers, Again(c) PROVE Inv'
<1>1. Fine(Idle, configured)
  BY IdleIsFine, Zenon
<1>2. call' = [call EXCEPT ![c] = Idle] /\ UNCHANGED <<config, app, resolvedAppID>>
  BY Zenon DEF Again
<1> QED
  BY <1>1, <1>2, CallKeeps, Zenon

LEMMA ReregisterKeeps == ASSUME Inv, Reregister PROVE Inv'
<1>1. app' \in IDs
  BY SocrateClientAssumption DEF Inv, Reregister, IDs
<1>2. /\ configured' = configured /\ hasSecret' = hasSecret
      /\ resolvedAppID' = resolvedAppID /\ call' = call
  BY DEF Reregister, config
<1> QED
  BY <1>1, <1>2 DEF Inv

LEMMA StepKeeps == Inv /\ [Next]_vars => Inv'
<1>1. SUFFICES ASSUME Inv, [Next]_vars PROVE Inv'
  OBVIOUS
<1>2. CASE UNCHANGED vars
  <2>1. /\ configured' = configured /\ hasSecret' = hasSecret /\ app' = app
        /\ resolvedAppID' = resolvedAppID /\ call' = call
    BY <1>2 DEF vars
  <2> QED
    BY <1>1, <2>1 DEF Inv
<1>3. CASE Reregister
  BY <1>1, <1>3, ReregisterKeeps
<1>4. ASSUME NEW c \in Callers,
             \/ Begin(c) \/ getAppID(c) \/ NotSent(c) \/ ListAnswered(c) \/ parseAppID(c)
             \/ ListRefused(c) \/ ListUnauthorised(c) \/ StoreAppID(c) \/ Send(c)
             \/ Handle(c) \/ Lose(c) \/ Decode(c) \/ Again(c)
      PROVE  Inv'
  BY <1>1, <1>4, BeginKeeps, GetAppIDKeeps, ErrorsKeep, ListAnsweredKeeps,
     ParseAppIDKeeps, ListUnauthorisedKeeps, StoreAppIDKeeps, SendKeeps, HandleKeeps,
     DecodeKeeps, AgainKeeps, Zenon
<1> QED
  BY <1>1, <1>2, <1>3, <1>4, Zenon DEF Next

LEMMA InitHolds == NewClient => Inv
<1> SUFFICES ASSUME NewClient PROVE Inv
  OBVIOUS
<1>1. 1 \in IDs
  BY SocrateClientAssumption DEF IDs
<1>2. Idle \in CallType /\ Fine(Idle, configured)
  BY IdleIsFine, Zenon DEF Fine
<1>3. \A c \in Callers : call[c] = Idle
  BY DEF NewClient
<1>4. call \in [Callers -> CallType]
  BY <1>2 DEF NewClient
<1> QED
  BY <1>1, <1>2, <1>3, <1>4 DEF NewClient, Inv

----------------------------------------------------------------------------
(* What the client promises.                                               *)

LEMMA InvHolds == Spec => []Inv
  BY InitHolds, StepKeeps, PTL DEF Spec

\* No operation misreports the server: every result that is not a plain error
\* says what the server said.
THEOREM NoOperationMisreports == Spec => []ResultsAreTrue
<1>1. Inv => ResultsAreTrue
  BY Zenon DEF Inv, Fine, AnswerInv, ResultsAreTrue
<1> QED
  BY <1>1, InvHolds, PTL

\* What calls leave behind is in order: the state is well-formed, every body is
\* closed but the one of BodiesClosed, no ID is another application's, and one
\* that is configured is never looked up.
THEOREM ClientIsConsistent ==
    Spec => [](TypeOK /\ BodiesClosed /\ NeverAnotherApp /\ NoLookupWhenConfigured)
<1>1. Inv => TypeOK
  BY Zenon DEF Inv, TypeOK, CallType
<1>2. Inv => BodiesClosed /\ NoLookupWhenConfigured
  BY Zenon DEF Inv, Fine, AnswerInv, BodiesClosed, NoLookupWhenConfigured
<1>3. Inv => NeverAnotherApp
  BY Distinct DEF Inv, Fine, AnswerInv, NeverAnotherApp
<1> QED
  BY <1>1, <1>2, <1>3, InvHolds, PTL


\* No call acts twice: once the server has acted, the call is never on its way
\* to the server again.
THEOREM NoCallActsTwice == Spec => ActsAtMostOnce
<1> DEFINE Once == \A c \in Callers : call[c].effects = 1 => call'[c].pc \notin {"send", "sent"}
<1>1. ASSUME Inv, Next PROVE Once
  <2>1. SUFFICES ASSUME NEW c \in Callers, call[c].effects = 1
                 PROVE  call'[c].pc \notin {"send", "sent"}
    BY Zenon
  <2>2. /\ call \in [Callers -> CallType] /\ call[c].pc \in {"answered", "done"}
    BY <1>1, <2>1, Zenon DEF Inv, Fine, AnswerInv
  <2>3. CASE Reregister
    BY <2>2, <2>3 DEF Reregister
  <2>4. ASSUME NEW d \in Callers, d # c,
               \/ Begin(d) \/ getAppID(d) \/ NotSent(d) \/ ListAnswered(d) \/ parseAppID(d)
               \/ ListRefused(d) \/ ListUnauthorised(d) \/ StoreAppID(d) \/ Send(d)
               \/ Handle(d) \/ Lose(d) \/ Decode(d) \/ Again(d)
        PROVE  call'[c] = call[c]
    <3>1. CASE Begin(d) \/ getAppID(d) \/ ListAnswered(d) \/ parseAppID(d)
      BY ZenonT(40), <2>2, <2>4, <3>1 DEF Begin, getAppID, ListAnswered, parseAppID
    <3>2. CASE NotSent(d) \/ ListRefused(d) \/ Lose(d) \/ Decode(d) \/ Again(d)
      BY <2>2, <2>4, <3>2 DEF NotSent, ListRefused, Lose, Decode, Again, Return
    <3>3. CASE ListUnauthorised(d) \/ StoreAppID(d) \/ Send(d) \/ Handle(d)
      BY ZenonT(40), <2>2, <2>4, <3>3 DEF ListUnauthorised, StoreAppID, Send, Handle
    <3> QED
      BY <2>4, <3>1, <3>2, <3>3, ZenonT(40)
  <2>5. CASE Lose(c) \/ Decode(c)
    <3>1. PICK result : Return(c, result)
      BY <2>5, Zenon DEF Lose, Decode
    <3>2. call'[c].pc = "done"
      BY <2>2, <3>1 DEF Return, CallType
    <3> QED
      BY <3>2
  <2>6. CASE Again(c)
    BY <2>2, <2>6 DEF Again, Idle
  <2>7. ~(\/ Begin(c) \/ getAppID(c) \/ NotSent(c) \/ ListAnswered(c) \/ parseAppID(c)
          \/ ListRefused(c) \/ ListUnauthorised(c) \/ StoreAppID(c) \/ Send(c) \/ Handle(c))
    BY Zenon, <2>2 DEF Begin, getAppID, NotSent, ListAnswered, parseAppID, ListRefused,
                ListUnauthorised, StoreAppID, Send, Handle
  <2>8. CASE \E d \in Callers : d # c /\ call'[c] = call[c]
    BY <2>2, <2>8
  <2> QED
    BY <1>1, <2>3, <2>4, <2>5, <2>6, <2>7, <2>8, Zenon DEF Next
<1>2. Inv /\ [Next]_vars => [Once]_vars
  BY <1>1, Zenon
<1> QED
  BY <1>2, InvHolds, PTL DEF Spec, ActsAtMostOnce
=============================================================================
