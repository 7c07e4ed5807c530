---------------------------- MODULE AuthSessions ----------------------------
(* How one account stays signed in: its refresh tokens and the access token  *)
(* each was issued with, the links mailed to it, and the version all of them *)
(* are bound to (auth_service, user_service, api/deps).                      *)
(*                                                                           *)
(* invalidate_sessions is what a new password does: it adds one to the       *)
(* version it has read and revokes the refresh tokens it has listed.  Both   *)
(* are unlocked reads, so tokens come in beside it, and what it has written  *)
(* may be lost.  Whether the account is let in at all is AdvisorAccount's    *)
(* business: here it is a standing that changes at any time.                 *)
EXTENDS Naturals, FiniteSets, UnitOfWork

CONSTANTS
    Tokens,     \* refresh tokens that may be issued
    Links,      \* links that may be mailed
    None,       \* no token, no link
    Callers,    \* requests that may be in progress at once
    MaxVersion  \* bound: token_version does not pass it

ASSUME NoneAssumption    == None \notin Tokens \cup Links
ASSUME DisjointAssumption == Tokens \cap Links = {}
ASSUME VersionAssumption == MaxVersion \in Nat

VARIABLES
    account,  \* the row of the user
    refresh,  \* the refresh_tokens rows
    link,     \* the user_tokens rows
    call,     \* what each request in progress has read
    since,    \* history: tokens and links issued since the sessions were last killed
    crossed,  \* history: tokens of sign-ins that a killing of the sessions missed
    line,     \* history: the sign-in a token goes back to, named by its first token
    forked,   \* history: sign-ins one of whose tokens was rotated after it was revoked
    parallel, \* history: purposes for which two links were issued side by side
    lost      \* history: whether a version was written from an outdated copy

history == <<since, crossed, line, forked, parallel, lost>>
authVars == <<account, refresh, link, call, since, crossed, line, forked, parallel, lost>>

-----------------------------------------------------------------------------
Version      == 0 .. MaxVersion
TokenPurpose == {"email_verification", "password_reset"}

\* get_current_principal and refresh let in all but "out", a new sign-in only "good".
Standing == {"good", "kept", "out"}

Account == [version : Version, verified : BOOLEAN, google : BOOLEAN, standing : Standing]

\* A token is "out" after a logout, and "over" when it was rotated, killed or lapsed.
RefreshToken == [state : {"absent", "live", "over", "out"}, version : Version]

\* Using or superseding a link sets used_at and expires_at: either way it is "over".
UserToken == [state : {"absent", "open", "over"}, purpose : TokenPurpose, version : Version]

SignIns == {"login", "google", "refresh"}
Issues  == {"resend", "forgot"}
Kills   == {"password", "reset"}
AuthOp  == SignIns \cup Issues \cup Kills \cup {"verify", "idle"}

\* chosen: the rows listed to be revoked.  missed: issued since, so not among them.
\* overtaken: the sessions were killed since the account was read.
Call == [op : AuthOp, step : {"idle", "choose", "write"}, seen : Account,
         token : Tokens \cup {None}, link : Links \cup {None},
         chosen : SUBSET (Tokens \cup Links), missed : SUBSET (Tokens \cup Links),
         overtaken : BOOLEAN]

NewAccount == [version |-> 0, verified |-> FALSE, google |-> FALSE, standing |-> "good"]

NoCall == [op |-> "idle", step |-> "idle", seen |-> NewAccount, token |-> None, link |-> None,
           chosen |-> {}, missed |-> {}, overtaken |-> FALSE]

AuthTypeOK ==
    /\ account \in Account
    /\ refresh \in [Tokens -> RefreshToken]
    /\ link \in [Links -> UserToken]
    /\ call \in [Callers -> Call]
    /\ since \subseteq Tokens \cup Links
    /\ crossed \subseteq Tokens
    /\ line \in [Tokens -> Tokens]
    /\ forked \subseteq Tokens
    /\ parallel \subseteq TokenPurpose
    /\ lost \in BOOLEAN

\* An account registered with a password, or created by a Google sign-in.
AuthInit ==
    /\ account \in {NewAccount, [NewAccount EXCEPT !.verified = TRUE, !.google = TRUE]}
    /\ refresh = [t \in Tokens |-> [state |-> "absent", version |-> 0]]
    /\ link = [l \in Links |-> [state |-> "absent", purpose |-> "password_reset", version |-> 0]]
    /\ call = [p \in Callers |-> NoCall]
    /\ since = {} /\ crossed = {} /\ forked = {} /\ parallel = {}
    /\ line = [t \in Tokens |-> t]
    /\ lost = FALSE

-----------------------------------------------------------------------------
Live(t) == refresh[t].state = "live"
Open(l) == link[l].state = "open"

\* What get_current_principal makes of the access token issued together with t.
AccessWorks(t) == refresh[t].state # "absent" /\ refresh[t].version = account.version

SignedIn == account.standing # "out" /\ \E t \in Tokens : AccessWorks(t)

\* _assert_bound_token_version, after the checks of expiry and use.
LinkWorks(l) == Open(l) /\ link[l].version = account.version

Begin(p, c) ==
    /\ call[p] = NoCall
    /\ call' = [call EXCEPT ![p] = c]
    /\ UNCHANGED <<account, refresh, link, history>>

Request(op, step) == [NoCall EXCEPT !.op = op, !.step = step, !.seen = account]

\* The calls after p has committed: those that have listed rows have missed x, and some
\* are overtaken.
CallsAfter(p, x, over) ==
    [q \in Callers |->
        IF q = p \/ call[q] = NoCall THEN IF q = p THEN NoCall ELSE call[q]
        ELSE [call[q] EXCEPT
                !.missed    = IF call[q].step = "write" THEN @ \cup x ELSE @,
                !.overtaken = @ \/ q \in over]]

\* authenticate
Login(p) ==
    /\ account.standing = "good" /\ account.verified
    /\ Begin(p, Request("login", "write"))

\* google_callback and google_complete, as far as get_or_create_google_user
GoogleLogin(p) ==
    /\ account.standing = "good"
    /\ Begin(p, Request("google", "write"))

\* rotate_refresh_token
Refresh(p, t) ==
    /\ Live(t) /\ account.standing # "out"
    /\ Begin(p, [Request("refresh", "write") EXCEPT !.token = t])

\* Mutation: the token that was presented stays valid.
RefreshCommitReusable(p, new) ==
    /\ call[p].op = "refresh"
    /\ refresh[new].state = "absent"
    /\ refresh' = [refresh EXCEPT ![new] = [state |-> "live", version |-> call[p].seen.version]]
    /\ line' = [line EXCEPT ![new] = line[call[p].token]]
    /\ forked' = IF Live(call[p].token) THEN forked ELSE forked \cup {line[call[p].token]}
    /\ crossed' = IF call[p].overtaken \/ call[p].token \in crossed
                  THEN crossed \cup {new} ELSE crossed
    /\ since' = IF new \in crossed' THEN since ELSE since \cup {new}
    /\ call' = CallsAfter(p, {new}, {})
    /\ UNCHANGED <<account, link, parallel, lost>>

\* The presented token is revoked and the new pair inserted by one flush.
RefreshCommit(p, new) ==
    LET old == call[p].token IN
    /\ call[p].op = "refresh"
    /\ refresh[new].state = "absent"
    /\ refresh' = [refresh EXCEPT ![old].state = IF @ = "live" THEN "over" ELSE @,
                                  ![new] = [state |-> "live", version |-> call[p].seen.version]]
    /\ line' = [line EXCEPT ![new] = line[old]]
    /\ forked' = IF Live(old) THEN forked ELSE forked \cup {line[old]}
    /\ crossed' = IF call[p].overtaken \/ old \in crossed THEN crossed \cup {new} ELSE crossed
    /\ since' = IF new \in crossed' THEN since ELSE since \cup {new}
    /\ call' = CallsAfter(p, {new}, {})
    /\ UNCHANGED <<account, link, parallel, lost>>

\* create_token_pair at the end of a sign-in.  _link_google_identity has marked the
\* e-mail verified and the account Google's, without touching the links.
SignInCommit(p, new) ==
    LET linked == [call[p].seen EXCEPT !.verified = TRUE, !.google = TRUE] IN
    /\ call[p].op \in {"login", "google"}
    /\ refresh[new].state = "absent"
    /\ refresh' = [refresh EXCEPT ![new] = [state |-> "live", version |-> call[p].seen.version]]
    /\ account' = IF call[p].op = "google" THEN Flush(account, call[p].seen, linked) ELSE account
    /\ line' = [line EXCEPT ![new] = new]
    /\ IF call[p].overtaken
       THEN crossed' = crossed \cup {new} /\ UNCHANGED since
       ELSE since' = since \cup {new} /\ UNCHANGED crossed
    /\ call' = CallsAfter(p, {new}, {})
    /\ UNCHANGED <<link, forked, parallel, lost>>

\* A token that is not live is left alone, so reading and revoking it are one step.
Logout(t) ==
    /\ SignedIn /\ Live(t)
    /\ refresh' = [refresh EXCEPT ![t].state = "out"]
    /\ UNCHANGED <<account, link, call, history>>

-----------------------------------------------------------------------------
(* Mailed links                                                            *)

IssuePurpose(op) == IF op = "resend" THEN "email_verification" ELSE "password_reset"

\* resend_verification
ResendVerification(p) ==
    /\ ~account.verified
    /\ Begin(p, Request("resend", "choose"))

\* forgot_password, and the administrator's trigger_password_reset
ForgotPassword(p) ==
    /\ ~account.google
    /\ Begin(p, Request("forgot", "choose"))

Unused(purpose) == {l \in Links : Open(l) /\ link[l].purpose = purpose}

\* The rows a request lists before it revokes them: superseded links, the live refresh
\* tokens of a killing, and the verification links a first reset makes useless.
Listed(p) ==
    CASE call[p].op \in Issues -> Unused(IssuePurpose(call[p].op))
      [] call[p].op = "password" -> {t \in Tokens : Live(t)}
      [] call[p].op = "reset" ->
           {t \in Tokens : Live(t)} \cup
               (IF call[p].seen.verified THEN {} ELSE Unused("email_verification"))

Choose(p) ==
    /\ call[p].step = "choose"
    /\ call' = [call EXCEPT ![p].step = "write", ![p].chosen = Listed(p)]
    /\ UNCHANGED <<account, refresh, link, history>>

\* create_email_verification_token, _issue_password_reset_token
IssueCommit(p, new) ==
    LET purpose == IssuePurpose(call[p].op)
        beside  == {l \in call[p].missed \cap Links : link[l].purpose = purpose}
    IN  /\ call[p].op \in Issues /\ call[p].step = "write"
        /\ link[new].state = "absent"
        /\ link' = [l \in Links |->
                       IF l = new THEN [state |-> "open", purpose |-> purpose,
                                        version |-> call[p].seen.version]
                       ELSE IF l \in call[p].chosen THEN [link[l] EXCEPT !.state = "over"]
                       ELSE link[l]]
        /\ parallel' = IF beside = {} THEN parallel \ {purpose} ELSE parallel \cup {purpose}
        /\ since' = IF call[p].overtaken THEN since ELSE since \cup {new}
        /\ call' = CallsAfter(p, {new}, {})
        /\ UNCHANGED <<account, refresh, crossed, line, forked, lost>>

\* verify_email of an account that is verified already burns the link.
VerifyEmail(p, l) ==
    /\ LinkWorks(l) /\ link[l].purpose = "email_verification"
    /\ IF account.verified
       THEN /\ link' = [link EXCEPT ![l].state = "over"]
            /\ UNCHANGED <<account, refresh, call, history>>
       ELSE Begin(p, [Request("verify", "write") EXCEPT !.link = l])

VerifyCommit(p) ==
    /\ call[p].op = "verify"
    /\ account' = Flush(account, call[p].seen, [call[p].seen EXCEPT !.verified = TRUE])
    /\ link' = [link EXCEPT ![call[p].link].state = "over"]
    /\ call' = CallsAfter(p, {}, {})
    /\ UNCHANGED <<refresh, history>>

-----------------------------------------------------------------------------
(* New passwords                                                           *)

\* update_user with a password
ChangePassword(p) ==
    /\ SignedIn
    /\ Begin(p, Request("password", "choose"))

\* reset_password, up to the new password
ResetPassword(p, l) ==
    /\ LinkWorks(l) /\ link[l].purpose = "password_reset" /\ ~account.google
    /\ Begin(p, [Request("reset", "choose") EXCEPT !.link = l])

\* Mutation: the version is left as it is.
KilledAccountKeepsVersion(seen, op) ==
    [seen EXCEPT !.verified = @ \/ op = "reset"]

\* Mutation: verifying the e-mail ends the sessions a second time.
KilledAccountTwice(seen, op) ==
    [seen EXCEPT !.version = seen.version + (IF op = "reset" THEN 2 ELSE 1),
                 !.verified = @ \/ op = "reset"]

KilledAccount(seen, op) ==
    [seen EXCEPT !.version = seen.version + 1, !.verified = @ \/ op = "reset"]

KilledTokens(p) ==
    [t \in Tokens |-> IF t \in call[p].chosen THEN [refresh[t] EXCEPT !.state =
                                                     IF @ = "live" THEN "over" ELSE @]
                      ELSE refresh[t]]

\* invalidate_sessions, and for a reset the end of its link.
KillCommit(p) ==
    /\ call[p].op \in Kills /\ call[p].step = "write"
    /\ call[p].seen.version < MaxVersion
    /\ account' = Flush(account, call[p].seen, KilledAccount(call[p].seen, call[p].op))
    /\ refresh' = KilledTokens(p)
    /\ link' = [l \in Links |-> IF l = call[p].link \/ l \in call[p].chosen
                                THEN [link[l] EXCEPT !.state = "over"] ELSE link[l]]
    /\ since' = {}
    /\ crossed' = call[p].missed \cap Tokens
    /\ lost' = (lost \/ call[p].overtaken)
    /\ call' = CallsAfter(p, {}, Callers)
    /\ UNCHANGED <<line, forked, parallel>>

-----------------------------------------------------------------------------
\* An error, or a wait that ends with the connection: nothing is committed.
AuthRollBack(p) ==
    /\ call[p] # NoCall
    /\ call' = [call EXCEPT ![p] = NoCall]
    /\ UNCHANGED <<account, refresh, link, history>>

\* REFRESH_TOKEN_EXPIRE_DAYS, EMAIL_VERIFY_TOKEN_EXPIRE_HOURS and so on.
Lapse ==
    /\ \/ \E t \in Tokens : Live(t) /\ refresh' = [refresh EXCEPT ![t].state = "over"]
                                    /\ UNCHANGED link
       \/ \E l \in Links : Open(l) /\ link' = [link EXCEPT ![l].state = "over"]
                                   /\ UNCHANGED refresh
    /\ UNCHANGED <<account, call, history>>

\* Suspension, reactivation, verdicts on advisors, verify_account and
\* unverify_account: blind writes of attributes no request above decides on.
AccountChanges ==
    /\ \/ \E s \in Standing : account' = [account EXCEPT !.standing = s]
       \/ account' = [account EXCEPT !.verified = ~@]
    /\ account' # account
    /\ UNCHANGED <<refresh, link, call, history>>

AuthCall(p) ==
    \/ Login(p) \/ GoogleLogin(p) \/ ChangePassword(p)
    \/ ResendVerification(p) \/ ForgotPassword(p)
    \/ \E t \in Tokens : Refresh(p, t)
    \/ \E l \in Links : VerifyEmail(p, l) \/ ResetPassword(p, l)

AuthAdvance(p) ==
    \/ Choose(p) \/ VerifyCommit(p) \/ KillCommit(p) \/ AuthRollBack(p)
    \/ \E t \in Tokens : SignInCommit(p, t) \/ RefreshCommit(p, t)
    \/ \E l \in Links : IssueCommit(p, l)

AuthNext ==
    \/ \E p \in Callers : AuthCall(p) \/ AuthAdvance(p)
    \/ \E t \in Tokens : Logout(t)
    \/ Lapse
    \/ AccountChanges

AuthSpec == AuthInit /\ [][AuthNext]_authVars

-----------------------------------------------------------------------------
\* invalidate_sessions leaves nobody signed in: a refresh token that is live, or an
\* access token that still works, is of a sign-in since then, or of one that was under
\* way beside it.  Access tokens rest on the version, which may be lost.
SessionsKilled ==
    /\ \A t \in Tokens : Live(t) => t \in since \cup crossed
    /\ \A t \in Tokens : AccessWorks(t) => lost \/ t \in since \cup crossed

\* A link that works was mailed since the sessions were last killed, even when its
\* request was under way beside the killing: it is bound to the version it has read.
LinksKilled == \A l \in Links : LinkWorks(l) => lost \/ l \in since

\* What invalidate_sessions promises to whoever sets a new password: neither a session nor
\* a link from before it works afterwards.
KilledForGood == SessionsKilled /\ LinksKilled

\* A sign-in has one live refresh token at a time, and none after a logout, however
\* rotations, logouts and new passwords interleave, unless a token was rotated by a
\* request that had read it before it was revoked.
OneLiveToken ==
    \A f \in Tokens \ forked :
        LET own == {t \in Tokens : line[t] = f /\ refresh[t].state # "absent"} IN
        /\ Cardinality({t \in own : Live(t)}) <= 1
        /\ (\E t \in own : refresh[t].state = "out") => \A t \in own : ~Live(t)

\* Of the links for one purpose only the latest works, unless two were issued by
\* requests neither of which saw the other's.
LatestLinkOnly ==
    \A purpose \in TokenPurpose \ parallel : Cardinality(Unused(purpose)) <= 1

\* What is rotated or issued again replaces what was there before: one live refresh token of
\* a sign-in, one link of a purpose.
OneLive == OneLiveToken /\ LatestLinkOnly

=============================================================================
