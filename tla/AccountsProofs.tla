--------------------------- MODULE AccountsProofs ---------------------------
(* What holds of the accounts and of the figures made of them, for every set  *)
(* of tokens, links, credentials and requests, and however many people there  *)
(* are: the sessions of an account, the standing of an advisor, who is shown  *)
(* to whom, the devices of an account, and the administrators' dashboards.    *)
EXTENDS AuthSessions, Directory, DeviceTokens, PlatformFigures, FiniteSums, SequenceTheorems, TLAPS

USE NoneAssumption, DisjointAssumption, VersionAssumption, CredentialAssumption

-----------------------------------------------------------------------------
(* Sessions, tokens and links                                                 *)

\* A flush of a well-typed account is one, attribute by attribute.
LEMMA FlushAccount ==
    ASSUME NEW row \in Account, NEW seen \in Account, NEW new \in Account
    PROVE  /\ Flush(row, seen, new) \in Account
           /\ Flush(row, seen, new).version = IF new.version = seen.version
                                              THEN row.version ELSE new.version
BY DEF Flush, Account

\* A request that has not begun is well typed.
LEMMA AuthTyping == NewAccount \in Account /\ NoCall \in Call
BY DEF NewAccount, Account, Version, Standing, NoCall, Call, AuthOp

\* The step of a request is one of three, and its operation one of eight.
LEMMA Operations ==
    /\ SignIns \cup Issues \cup Kills \cup {"verify"} \subseteq AuthOp
    /\ "idle" \notin SignIns \cup Issues \cup Kills \cup {"verify"}
    /\ SignIns \cap Kills = {} /\ SignIns \cap Issues = {} /\ Issues \cap Kills = {}
    /\ "verify" \notin SignIns \cup Issues \cup Kills
BY DEF SignIns, Issues, Kills, AuthOp

-----------------------------------------------------------------------------
(* The inductive invariant                                                   *)

\* A request in progress is about rows that are there.
CallsFit ==
    \A p \in Callers :
        /\ call[p].op = "idle" <=> call[p] = NoCall
        /\ call[p].op = "refresh" =>
               call[p].token \in Tokens /\ refresh[call[p].token].state # "absent"
        /\ call[p].op = "verify" => call[p].link \in Links
        /\ call[p].step = "choose" => call[p].op \in Issues \cup Kills

\* A request no killing has overtaken has read the version of the account.
InStep ==
    \A p \in Callers : call[p].op # "idle" /\ ~call[p].overtaken
                          => call[p].seen.version = account.version

\* Unless a version was lost, nothing is bound to a version that is still to come, and
\* what was overtaken is bound to one that is over.
Bounded ==
    ~lost => /\ \A t \in Tokens : refresh[t].version <= account.version
             /\ \A l \in Links : link[l].version <= account.version
             /\ \A p \in Callers : call[p].op # "idle" =>
                    /\ call[p].seen.version <= account.version
                    /\ call[p].overtaken => call[p].seen.version < account.version

\* What a request that revokes has not listed was issued beside it.
ListedOrMissed ==
    \A p \in Callers : call[p].step = "write" =>
        /\ call[p].op \in Kills => \A t \in Tokens : Live(t) => t \in call[p].chosen \cup call[p].missed
        /\ call[p].op \in Issues => \A l \in Links :
               Open(l) /\ link[l].purpose = IssuePurpose(call[p].op)
                   => l \in call[p].chosen \cup call[p].missed

\* A sign-in is named by a token that was issued.
LinesReal ==
    \A t \in Tokens : IF refresh[t].state = "absent" THEN line[t] = t
                      ELSE refresh[line[t]].state # "absent"

\* OneLiveToken without its cardinality.
OneInLine ==
    \A t, u \in Tokens :
        line[t] = line[u] /\ line[t] \notin forked /\ Live(t) =>
            /\ Live(u) => t = u
            /\ refresh[u].state # "out"

\* LatestLinkOnly without its cardinality.
OneUnused ==
    \A purpose \in TokenPurpose \ parallel :
        \A k, l \in Links : k \in Unused(purpose) /\ l \in Unused(purpose) => k = l

SessionInv ==
    /\ AuthTypeOK /\ CallsFit /\ InStep /\ Bounded /\ ListedOrMissed
    /\ LinesReal /\ OneInLine /\ OneUnused /\ SessionsKilled /\ LinksKilled

\* Before the first sign-in the inductive invariant holds.
LEMMA InitInv == AuthInit => SessionInv
<1> SUFFICES ASSUME AuthInit PROVE SessionInv
  OBVIOUS
<1>1. account \in Account /\ account.version = 0
  <2>1. NewAccount \in Account /\ NewAccount.version = 0
    BY AuthTyping DEF NewAccount
  <2> DEFINE google == [NewAccount EXCEPT !.verified = TRUE, !.google = TRUE]
  <2>2. google \in Account /\ google.version = 0
    BY <2>1 DEF Account
  <2> QED BY <2>1, <2>2 DEF AuthInit
<1>2. \A p \in Callers : call[p] = NoCall /\ call[p].op = "idle" /\ call[p].step = "idle"
  BY DEF AuthInit, NoCall
<1>3. \A t \in Tokens : refresh[t].state = "absent" /\ refresh[t].version = 0 /\ line[t] = t
  BY DEF AuthInit
<1>4. \A l \in Links : link[l].state = "absent" /\ link[l].version = 0
  BY DEF AuthInit
<1>5. AuthTypeOK
  <2>1. [state |-> "absent", version |-> 0] \in RefreshToken
    BY DEF RefreshToken, Version
  <2>2. [state |-> "absent", purpose |-> "password_reset", version |-> 0] \in UserToken
    BY DEF UserToken, Version, TokenPurpose
  <2> QED BY <1>1, <2>1, <2>2, AuthTyping DEF AuthInit, AuthTypeOK
<1>6. CallsFit /\ InStep /\ ListedOrMissed
  BY <1>2 DEF CallsFit, InStep, ListedOrMissed
<1>7. Bounded
  BY <1>1, <1>2, <1>3, <1>4 DEF Bounded
<1>8. LinesReal /\ OneInLine /\ SessionsKilled
  BY <1>3 DEF LinesReal, OneInLine, SessionsKilled, Live, AccessWorks
<1>9. OneUnused /\ LinksKilled
  BY <1>4 DEF OneUnused, Unused, Open, LinksKilled, LinkWorks
<1> QED BY <1>5, <1>6, <1>7, <1>8, <1>9 DEF SessionInv

-----------------------------------------------------------------------------
(* Requests                                                                  *)

\* The calls that are left when one has committed keep what they are about; those that
\* have listed rows have missed what was issued.
CallsLeft(p, x, over) ==
    /\ call' \in [Callers -> Call]
    /\ call'[p] = NoCall
    /\ \A q \in Callers \ {p} :
          /\ call[q] = NoCall => call'[q] = NoCall
          /\ call[q] # NoCall =>
                /\ call'[q].op = call[q].op /\ call'[q].step = call[q].step
                /\ call'[q].seen = call[q].seen /\ call'[q].token = call[q].token
                /\ call'[q].link = call[q].link /\ call'[q].chosen = call[q].chosen
                /\ call'[q].missed = IF call[q].step = "write" THEN call[q].missed \cup x
                                     ELSE call[q].missed
                /\ q \in over => call'[q].overtaken
                /\ q \notin over => (call'[q].overtaken <=> call[q].overtaken)

\* What CallsAfter makes of the calls.
LEMMA CallsAfterTyped ==
    ASSUME AuthTypeOK, NEW p \in Callers, NEW x \in SUBSET (Tokens \cup Links),
           NEW over \in SUBSET Callers, call' = CallsAfter(p, x, over)
    PROVE  CallsLeft(p, x, over)
<1> DEFINE after(q) == [call[q] EXCEPT
                          !.missed    = IF call[q].step = "write" THEN @ \cup x ELSE @,
                          !.overtaken = @ \/ q \in over]
<1>1. ASSUME NEW q \in Callers
      PROVE  /\ after(q) \in Call
             /\ after(q).op = call[q].op /\ after(q).step = call[q].step
             /\ after(q).seen = call[q].seen /\ after(q).token = call[q].token
             /\ after(q).link = call[q].link /\ after(q).chosen = call[q].chosen
             /\ after(q).missed = IF call[q].step = "write" THEN call[q].missed \cup x
                                  ELSE call[q].missed
             /\ q \in over => after(q).overtaken
             /\ q \notin over => (after(q).overtaken <=> call[q].overtaken)
  <2>1. call[q] \in Call
    BY DEF AuthTypeOK
  <2>2. CASE call[q].step = "write"
    <3>1. after(q) = [call[q] EXCEPT !.missed = call[q].missed \cup x,
                                     !.overtaken = call[q].overtaken \/ q \in over]
      BY <2>1, <2>2 DEF Call
    <3> QED BY <2>1, <2>2, <3>1 DEF Call
  <2>3. CASE call[q].step # "write"
    <3>1. after(q) = [call[q] EXCEPT !.overtaken = call[q].overtaken \/ q \in over]
      BY <2>1, <2>3 DEF Call
    <3> QED BY <2>1, <2>3, <3>1 DEF Call
  <2> QED BY <2>2, <2>3
<1> DEFINE left(q) == IF q = p \/ call[q] = NoCall THEN IF q = p THEN NoCall ELSE call[q]
                      ELSE after(q)
<1>2. call' = [q \in Callers |-> left(q)]
  BY DEF CallsAfter
<1> HIDE DEF after
<1>3. left(p) = NoCall /\ \A q \in Callers \ {p} :
         left(q) = IF call[q] = NoCall THEN NoCall ELSE after(q)
  OBVIOUS
<1>4. \A q \in Callers : left(q) \in Call
  BY <1>1, <1>3, AuthTyping
<1> HIDE DEF left
<1>5. call' \in [Callers -> Call] /\ \A q \in Callers : call'[q] = left(q)
  BY <1>2, <1>4
<1>6. ASSUME NEW q \in Callers \ {p}, call[q] = NoCall PROVE call'[q] = NoCall
  BY <1>3, <1>5, <1>6
<1>7. ASSUME NEW q \in Callers \ {p}, call[q] # NoCall PROVE call'[q] = after(q)
  BY <1>3, <1>5, <1>7
<1> QED BY <1>1, <1>3, <1>5, <1>6, <1>7 DEF CallsLeft

\* A request that has only read changes nothing it could break.
LEMMA AuthBeginInv ==
    ASSUME SessionInv, NEW p \in Callers, NEW c \in Call, Begin(p, c),
           c.op \in AuthOp \ {"idle"}, c.seen = account, c.overtaken = FALSE,
           c.step = "write" => c.op \notin Kills \cup Issues,
           c.step = "choose" => c.op \in Kills \cup Issues,
           c.op = "refresh" => c.token \in Tokens /\ refresh[c.token].state # "absent",
           c.op = "verify" => c.link \in Links
    PROVE  SessionInv'
<1>1. /\ call' \in [Callers -> Call] /\ call'[p] = c
      /\ \A q \in Callers \ {p} : call'[q] = call[q]
      /\ UNCHANGED <<account, refresh, link, history>>
  BY DEF Begin, SessionInv, AuthTypeOK
<1>2. UNCHANGED <<since, crossed, line, forked, parallel, lost>>
  BY <1>1 DEF history
<1>3. AuthTypeOK'
  BY <1>1, <1>2 DEF SessionInv, AuthTypeOK
<1>4. c # NoCall
  BY DEF NoCall
<1>5. CallsFit'
  BY <1>1, <1>4 DEF SessionInv, CallsFit
<1>6. InStep'
  BY <1>1 DEF SessionInv, InStep
<1>7. Bounded'
  BY <1>1, <1>2 DEF SessionInv, Bounded, AuthTypeOK, Account, Version
<1>8. ListedOrMissed'
  BY <1>1 DEF SessionInv, ListedOrMissed, Live, Open
<1>9. LinesReal' /\ OneInLine' /\ OneUnused' /\ SessionsKilled' /\ LinksKilled'
  BY <1>1, <1>2 DEF SessionInv, LinesReal, OneInLine, OneUnused, SessionsKilled, LinksKilled,
                    Live, Unused, Open, AccessWorks, LinkWorks
<1> QED BY <1>3, <1>5, <1>6, <1>7, <1>8, <1>9 DEF SessionInv

\* What a request that begins is made of.
LEMMA RequestTyped ==
    ASSUME AuthTypeOK, NEW op \in AuthOp, NEW step \in {"choose", "write"}
    PROVE  LET c == Request(op, step) IN
           c \in Call /\ c.op = op /\ c.step = step /\ c.seen = account /\ c.overtaken = FALSE
BY AuthTyping DEF Request, NoCall, AuthTypeOK, Call

\* The requests begin with what the row says.
LEMMA CallInv ==
    ASSUME SessionInv, NEW p \in Callers,
           \/ Login(p) \/ GoogleLogin(p) \/ ChangePassword(p)
           \/ ResendVerification(p) \/ ForgotPassword(p)
    PROVE  SessionInv'
<1>1. PICK op \in AuthOp \ {"idle", "refresh", "verify"}, step \in {"choose", "write"} :
         /\ Begin(p, Request(op, step))
         /\ step = "write" <=> op \notin Kills \cup Issues
  BY DEF Login, GoogleLogin, ChangePassword, ResendVerification, ForgotPassword, AuthOp,
         SignIns, Issues, Kills
<1> DEFINE c == Request(op, step)
<1>2. c \in Call /\ c.op = op /\ c.step = step /\ c.seen = account /\ c.overtaken = FALSE
  BY RequestTyped DEF SessionInv
<1>3. Begin(p, c)
  BY <1>1
<1> HIDE DEF c
<1> QED BY <1>1, <1>2, <1>3, AuthBeginInv

\* A rotation begins with a token that is live.
LEMMA RefreshInv ==
    ASSUME SessionInv, NEW p \in Callers, NEW t \in Tokens, Refresh(p, t) PROVE SessionInv'
<1> DEFINE r == Request("refresh", "write")
           c == [r EXCEPT !.token = t]
<1>1. Begin(p, c) /\ refresh[t].state # "absent"
  BY DEF Refresh, Live
<1>2. "refresh" \in AuthOp \ {"idle"} /\ "refresh" \notin Kills \cup Issues /\ "refresh" # "verify"
  BY DEF AuthOp, SignIns, Kills, Issues
<1>3. r \in Call /\ r.op = "refresh" /\ r.step = "write" /\ r.seen = account /\ r.overtaken = FALSE
  BY <1>2, RequestTyped DEF SessionInv
<1> HIDE DEF r
<1>4. /\ c \in Call /\ c.op = "refresh" /\ c.step = "write" /\ c.seen = account
      /\ c.overtaken = FALSE /\ c.token = t
  BY <1>3 DEF Call
<1> HIDE DEF c
<1> QED BY <1>1, <1>2, <1>4, AuthBeginInv

\* A reset begins with a link that works.
LEMMA ResetInv ==
    ASSUME SessionInv, NEW p \in Callers, NEW l \in Links, ResetPassword(p, l) PROVE SessionInv'
<1> DEFINE r == Request("reset", "choose")
           c == [r EXCEPT !.link = l]
<1>1. Begin(p, c)
  BY DEF ResetPassword
<1>2. "reset" \in AuthOp \ {"idle"} /\ "reset" \in Kills /\ "reset" # "verify" /\ "reset" # "refresh"
  BY DEF AuthOp, Kills
<1>3. r \in Call /\ r.op = "reset" /\ r.step = "choose" /\ r.seen = account /\ r.overtaken = FALSE
  BY <1>2, RequestTyped DEF SessionInv
<1> HIDE DEF r
<1>4. /\ c \in Call /\ c.op = "reset" /\ c.step = "choose" /\ c.seen = account
      /\ c.overtaken = FALSE
  BY <1>3 DEF Call
<1> HIDE DEF c
<1> QED BY <1>1, <1>2, <1>4, AuthBeginInv

\* A row that is revoked, or lapses, breaks nothing.
LEMMA GoneInv ==
    ASSUME SessionInv, UNCHANGED <<account, call, history>>,
           refresh' \in [Tokens -> RefreshToken], link' \in [Links -> UserToken],
           \A t \in Tokens :
               /\ refresh'[t].version = refresh[t].version
               /\ refresh'[t].state # refresh[t].state => Live(t) /\ refresh'[t].state \in {"over", "out"},
           \A l \in Links :
               /\ link'[l].version = link[l].version /\ link'[l].purpose = link[l].purpose
               /\ link'[l].state # link[l].state => link'[l].state = "over"
    PROVE  SessionInv'
<1>1. UNCHANGED <<since, crossed, line, forked, parallel, lost>>
  BY DEF history
<1>2. \A t \in Tokens : /\ Live(t)' => Live(t)
                        /\ refresh'[t].state = "absent" <=> refresh[t].state = "absent"
  BY DEF Live
<1>3. \A l \in Links : Open(l)' => Open(l)
  BY DEF Open
<1>4. AuthTypeOK'
  BY <1>1 DEF SessionInv, AuthTypeOK
<1>5. CallsFit' /\ InStep'
  BY <1>2 DEF SessionInv, CallsFit, InStep
<1>6. Bounded'
  BY <1>1 DEF SessionInv, Bounded
<1>7. \A purpose \in TokenPurpose : Unused(purpose)' \subseteq Unused(purpose)
  BY <1>3 DEF Unused
<1>8. ListedOrMissed'
  BY <1>2, <1>3 DEF SessionInv, ListedOrMissed
<1>9. LinesReal'
  BY <1>1, <1>2 DEF SessionInv, LinesReal, AuthTypeOK
<1>10. OneInLine'
  BY <1>1, <1>2 DEF SessionInv, OneInLine, Live
<1>11. OneUnused'
  BY <1>1, <1>7 DEF SessionInv, OneUnused
<1>12. SessionsKilled' /\ LinksKilled'
  BY <1>1, <1>2, <1>3 DEF SessionInv, SessionsKilled, LinksKilled, AccessWorks, LinkWorks
<1> QED BY <1>4, <1>5, <1>6, <1>8, <1>9, <1>10, <1>11, <1>12 DEF SessionInv

\* A logout, a lapse and a link that is burnt only end rows.
LEMMA LogoutInv == ASSUME SessionInv, NEW t \in Tokens, Logout(t) PROVE SessionInv'
<1>1. /\ Live(t) /\ refresh' = [refresh EXCEPT ![t].state = "out"]
      /\ UNCHANGED <<account, link, call, history>>
  BY DEF Logout
<1> QED BY <1>1, GoneInv DEF SessionInv, AuthTypeOK, RefreshToken

LEMMA LapseInv == ASSUME SessionInv, Lapse PROVE SessionInv'
<1>1. CASE \E t \in Tokens : Live(t) /\ refresh' = [refresh EXCEPT ![t].state = "over"]
                             /\ UNCHANGED link
  BY <1>1, GoneInv DEF Lapse, SessionInv, AuthTypeOK, RefreshToken
<1>2. CASE \E l \in Links : Open(l) /\ link' = [link EXCEPT ![l].state = "over"]
                            /\ UNCHANGED refresh
  BY <1>2, GoneInv DEF Lapse, SessionInv, AuthTypeOK, UserToken
<1> QED BY <1>1, <1>2 DEF Lapse

LEMMA VerifyInv ==
    ASSUME SessionInv, NEW p \in Callers, NEW l \in Links, VerifyEmail(p, l) PROVE SessionInv'
<1>1. CASE account.verified
  <2>1. /\ link' = [link EXCEPT ![l].state = "over"]
        /\ UNCHANGED <<account, refresh, call, history>>
    BY <1>1 DEF VerifyEmail
  <2> QED BY <2>1, GoneInv DEF SessionInv, AuthTypeOK, UserToken
<1>2. CASE ~account.verified
  <2> DEFINE r == Request("verify", "write")
             c == [r EXCEPT !.link = l]
  <2>1. Begin(p, c)
    BY <1>2 DEF VerifyEmail
  <2>2. "verify" \in AuthOp \ {"idle"} /\ "verify" \notin Kills \cup Issues /\ "verify" # "refresh"
    BY DEF AuthOp, Kills, Issues
  <2>3. /\ r \in Call /\ r.op = "verify" /\ r.step = "write" /\ r.seen = account
        /\ r.overtaken = FALSE
    BY <2>2, RequestTyped DEF SessionInv
  <2> HIDE DEF r
  <2>4. /\ c \in Call /\ c.op = "verify" /\ c.step = "write" /\ c.seen = account
        /\ c.overtaken = FALSE /\ c.link = l
    BY <2>3 DEF Call
  <2> HIDE DEF c
  <2> QED BY <2>1, <2>2, <2>4, AuthBeginInv
<1> QED BY <1>1, <1>2

\* Nothing that is checked rests on the standing of the account or its e-mail.
LEMMA AccountChangesInv == ASSUME SessionInv, AccountChanges PROVE SessionInv'
<1>1. account' \in Account /\ account'.version = account.version
  BY DEF AccountChanges, SessionInv, AuthTypeOK, Account
<1>2. UNCHANGED <<refresh, link, call, since, crossed, line, forked, parallel, lost>>
  BY DEF AccountChanges, history
<1>3. AuthTypeOK'
  BY <1>1, <1>2 DEF SessionInv, AuthTypeOK
<1> QED BY <1>1, <1>2, <1>3 DEF SessionInv, CallsFit, InStep, Bounded, ListedOrMissed, LinesReal,
           OneInLine, OneUnused, SessionsKilled, LinksKilled, Live, Open, Unused, AccessWorks, LinkWorks

\* A request that lists what it will revoke has missed nothing yet.
LEMMA ChooseInv == ASSUME SessionInv, NEW p \in Callers, Choose(p) PROVE SessionInv'
<1> DEFINE c == [call[p] EXCEPT !.step = "write", !.chosen = Listed(p)]
<1>1. /\ call[p].step = "choose" /\ call[p] \in Call
      /\ call' = [call EXCEPT ![p] = c]
      /\ UNCHANGED <<account, refresh, link, since, crossed, line, forked, parallel, lost>>
  BY DEF Choose, SessionInv, AuthTypeOK, history
<1>2. call[p].op # "idle" /\ call[p].op \in AuthOp
  BY <1>1 DEF SessionInv, CallsFit, NoCall, Call
<1>3. call[p].op \in Issues \cup Kills
  BY <1>1 DEF SessionInv, CallsFit
<1>4. SessionInv'
  <2>1. /\ Listed(p) \subseteq Tokens \cup Links
        /\ call[p].op \in Kills => \A t \in Tokens : Live(t) => t \in Listed(p)
        /\ call[p].op \in Issues => Unused(IssuePurpose(call[p].op)) \subseteq Listed(p)
    BY <1>3, Operations DEF Listed, Kills, Issues, Unused
  <2>2. /\ c \in Call /\ c.op = call[p].op /\ c.seen = call[p].seen /\ c.token = call[p].token
        /\ c.link = call[p].link /\ c.chosen = Listed(p) /\ c.step = "write"
        /\ c.overtaken = call[p].overtaken
    BY <1>1, <2>1 DEF Call
  <2> HIDE DEF c
  <2>3. /\ call' \in [Callers -> Call] /\ call'[p] = c
        /\ \A q \in Callers \ {p} : call'[q] = call[q]
    BY <1>1, <2>2 DEF SessionInv, AuthTypeOK
  <2>4. AuthTypeOK'
    BY <1>1, <2>3 DEF SessionInv, AuthTypeOK
  <2>9. c # NoCall /\ c.op \in AuthOp \ {"idle"}
    BY <1>2, <2>2 DEF NoCall
  <2>5. CallsFit' /\ InStep'
    BY <1>1, <2>2, <2>3, <2>9 DEF SessionInv, CallsFit, InStep
  <2>6. Bounded'
    BY <1>1, <2>2, <2>3 DEF SessionInv, Bounded
  <2>7. ListedOrMissed'
    BY <1>1, <2>1, <2>2, <2>3 DEF SessionInv, ListedOrMissed, Live, Open, Unused
  <2>8. LinesReal' /\ OneInLine' /\ OneUnused' /\ SessionsKilled' /\ LinksKilled'
    BY <1>1 DEF SessionInv, LinesReal, OneInLine, OneUnused, SessionsKilled, LinksKilled,
                Live, Open, Unused, AccessWorks, LinkWorks
  <2> QED BY <2>4, <2>5, <2>6, <2>7, <2>8 DEF SessionInv
<1> QED BY <1>4

\* A request that is undone leaves nothing behind.
LEMMA AuthRollBackInv == ASSUME SessionInv, NEW p \in Callers, AuthRollBack(p) PROVE SessionInv'
<1>1. /\ call' \in [Callers -> Call] /\ call'[p] = NoCall
      /\ \A q \in Callers \ {p} : call'[q] = call[q]
      /\ UNCHANGED <<account, refresh, link, since, crossed, line, forked, parallel, lost>>
  BY AuthTyping DEF AuthRollBack, SessionInv, AuthTypeOK, history
<1>2. NoCall.op = "idle" /\ NoCall.step = "idle"
  BY DEF NoCall
<1>3. AuthTypeOK'
  BY <1>1 DEF SessionInv, AuthTypeOK
<1>4. CallsFit' /\ InStep' /\ Bounded'
  BY <1>1, <1>2 DEF SessionInv, CallsFit, InStep, Bounded
<1>5. ListedOrMissed'
  BY <1>1, <1>2 DEF SessionInv, ListedOrMissed, Live, Open, Unused
<1>6. LinesReal' /\ OneInLine' /\ OneUnused' /\ SessionsKilled' /\ LinksKilled'
  BY <1>1 DEF SessionInv, LinesReal, OneInLine, OneUnused, SessionsKilled, LinksKilled,
              Live, Open, Unused, AccessWorks, LinkWorks
<1> QED BY <1>3, <1>4, <1>5, <1>6 DEF SessionInv

-----------------------------------------------------------------------------
(* Commits                                                                   *)

\* A commit leaves calls.
LEMMA CallsStay ==
    ASSUME SessionInv, NEW p \in Callers, NEW x \in SUBSET (Tokens \cup Links),
           NEW over \in SUBSET Callers, call' = CallsAfter(p, x, over)
    PROVE  call' \in [Callers -> Call]
<1>1. AuthTypeOK
  BY DEF SessionInv
<1>2. CallsLeft(p, x, over)
  BY <1>1, CallsAfterTyped
<1> QED BY <1>2 DEF CallsLeft

\* Beside a commit the other requests stay about rows that are there.
LEMMA OthersFit ==
    ASSUME SessionInv, NEW p \in Callers, NEW x \in SUBSET (Tokens \cup Links),
           NEW over \in SUBSET Callers, call' = CallsAfter(p, x, over),
           \A t \in Tokens : refresh[t].state # "absent" => refresh'[t].state # "absent"
    PROVE  /\ CallsFit'
           /\ \A q \in Callers : call'[q].op # "idle" =>
                 /\ q # p /\ call[q].op # "idle" /\ call'[q].seen = call[q].seen
                 /\ q \in over => call'[q].overtaken
                 /\ q \notin over => (call'[q].overtaken <=> call[q].overtaken)
<1>1. /\ call'[p] = NoCall
      /\ \A q \in Callers \ {p} :
            /\ call[q] = NoCall => call'[q] = NoCall
            /\ call[q] # NoCall =>
                  /\ call'[q].op = call[q].op /\ call'[q].step = call[q].step
                  /\ call'[q].seen = call[q].seen /\ call'[q].token = call[q].token
                  /\ call'[q].link = call[q].link
                  /\ q \in over => call'[q].overtaken
                  /\ q \notin over => (call'[q].overtaken <=> call[q].overtaken)
  <2>1. AuthTypeOK
    BY DEF SessionInv
  <2>2. CallsLeft(p, x, over)
    BY <2>1, CallsAfterTyped
  <2> QED BY <2>2 DEF CallsLeft
<1>2. NoCall.op = "idle" /\ NoCall.step = "idle"
  BY DEF NoCall
<1> QED BY <1>1, <1>2 DEF SessionInv, CallsFit

\* A commit that kills nothing leaves the requests in step with the account.
LEMMA OthersInStep ==
    ASSUME SessionInv, NEW p \in Callers, NEW x \in SUBSET (Tokens \cup Links),
           call' = CallsAfter(p, x, {}), account'.version = account.version, lost' = lost,
           \A t \in Tokens : refresh[t].state # "absent" => refresh'[t].state # "absent",
           ~lost => /\ \A t \in Tokens : refresh'[t].version <= account.version
                    /\ \A l \in Links : link'[l].version <= account.version
    PROVE  InStep' /\ Bounded'
<1>1. \A q \in Callers : call'[q].op # "idle" =>
          /\ q # p /\ call[q].op # "idle" /\ call'[q].seen = call[q].seen
          /\ (call'[q].overtaken <=> call[q].overtaken)
  BY OthersFit
<1>2. InStep'
  BY <1>1 DEF SessionInv, InStep
<1>3. Bounded'
  BY <1>1 DEF SessionInv, Bounded
<1> QED BY <1>2, <1>3

\* Beside a commit a request that revokes has listed or missed what is there: x is all
\* that was issued.
LEMMA OthersListed ==
    ASSUME SessionInv, NEW p \in Callers, NEW x \in SUBSET (Tokens \cup Links),
           NEW over \in SUBSET Callers, call' = CallsAfter(p, x, over),
           \A t \in Tokens : Live(t)' => Live(t) \/ t \in x,
           \A l \in Links : Open(l)' => l \in x \/ (Open(l) /\ link'[l].purpose = link[l].purpose)
    PROVE  ListedOrMissed'
<1>1. /\ call'[p] = NoCall
      /\ \A q \in Callers \ {p} :
            /\ call[q] = NoCall => call'[q] = NoCall
            /\ call[q] # NoCall =>
                  /\ call'[q].op = call[q].op /\ call'[q].step = call[q].step
                  /\ call'[q].chosen = call[q].chosen
                  /\ call'[q].missed = IF call[q].step = "write" THEN call[q].missed \cup x
                                       ELSE call[q].missed
  <2>1. AuthTypeOK
    BY DEF SessionInv
  <2>2. CallsLeft(p, x, over)
    BY <2>1, CallsAfterTyped
  <2> QED BY <2>2 DEF CallsLeft
<1>2. \A q \in Callers : call'[q].step = "write" =>
         /\ call'[q].op = call[q].op /\ call[q].step = "write"
         /\ call'[q].chosen = call[q].chosen /\ call'[q].missed = call[q].missed \cup x
  <2>1. NoCall.step = "idle"
    BY DEF NoCall
  <2> QED BY <1>1, <2>1
<1> QED BY <1>2 DEF SessionInv, ListedOrMissed, IssuePurpose

\* What is bound to the account holds while its version and its rows stay.
LEMMA VerifyCommitInv == ASSUME SessionInv, NEW p \in Callers, VerifyCommit(p) PROVE SessionInv'
<1> DEFINE seen == call[p].seen
           row == [seen EXCEPT !.verified = TRUE]
<1>1. /\ call[p].op = "verify" /\ call[p] \in Call /\ seen \in Account /\ call[p].link \in Links
      /\ account' = Flush(account, seen, row)
      /\ link' = [link EXCEPT ![call[p].link].state = "over"]
      /\ call' = CallsAfter(p, {}, {})
      /\ UNCHANGED <<refresh, since, crossed, line, forked, parallel, lost>>
  BY DEF VerifyCommit, SessionInv, AuthTypeOK, CallsFit, Call, history
<1>2. row \in Account /\ row.version = seen.version
  BY <1>1 DEF Account
<1> HIDE DEF seen, row
<1>3. account' \in Account /\ account'.version = account.version
  <2>1. account \in Account
    BY DEF SessionInv, AuthTypeOK
  <2> QED BY <1>1, <1>2, <2>1, FlushAccount
<1>4. /\ link' \in [Links -> UserToken]
      /\ \A l \in Links : /\ link'[l].version = link[l].version /\ link'[l].purpose = link[l].purpose
                          /\ Open(l)' => Open(l)
  BY <1>1 DEF SessionInv, AuthTypeOK, UserToken, Open
<1>5. call' \in [Callers -> Call]
  BY <1>1, CallsStay
<1>6. AuthTypeOK'
  BY <1>1, <1>3, <1>4, <1>5 DEF SessionInv, AuthTypeOK
<1>7. CallsFit'
  BY <1>1, OthersFit
<1>8. InStep' /\ Bounded'
  <2>1. ~lost => /\ \A t \in Tokens : refresh'[t].version <= account.version
                 /\ \A l \in Links : link'[l].version <= account.version
    BY <1>1, <1>4 DEF SessionInv, Bounded
  <2> QED BY <1>1, <1>3, <2>1, OthersInStep
<1>9. ListedOrMissed'
  <2>1. \A t \in Tokens : Live(t)' => Live(t)
    BY <1>1 DEF Live
  <2> QED BY <1>1, <1>4, <2>1, OthersListed
<1>10. LinesReal' /\ OneInLine'
  BY <1>1 DEF SessionInv, LinesReal, OneInLine, Live
<1>11. OneUnused'
  BY <1>1, <1>4 DEF SessionInv, OneUnused, Unused
<1>12. SessionsKilled' /\ LinksKilled'
  BY <1>1, <1>3, <1>4 DEF SessionInv, SessionsKilled, LinksKilled, Live, AccessWorks, LinkWorks
<1> QED BY <1>6, <1>7, <1>8, <1>9, <1>10, <1>11, <1>12 DEF SessionInv

\* A pair of tokens that is issued is bound to what its request has read, and every
\* revocation under way misses it.
LEMMA SignInInv ==
    ASSUME SessionInv, NEW p \in Callers, NEW new \in Tokens, SignInCommit(p, new)
    PROVE  SessionInv'
<1> DEFINE seen == call[p].seen
           row == [seen EXCEPT !.verified = TRUE, !.google = TRUE]
           token == [state |-> "live", version |-> seen.version]
<1>1. /\ call[p].op \in {"login", "google"} /\ refresh[new].state = "absent"
      /\ refresh' = [refresh EXCEPT ![new] = token]
      /\ account' = IF call[p].op = "google" THEN Flush(account, seen, row) ELSE account
      /\ line' = [line EXCEPT ![new] = new]
      /\ IF call[p].overtaken THEN crossed' = crossed \cup {new} /\ UNCHANGED since
         ELSE since' = since \cup {new} /\ UNCHANGED crossed
      /\ call' = CallsAfter(p, {new}, {})
      /\ UNCHANGED <<link, forked, parallel, lost>>
  BY DEF SignInCommit
<1>2. seen \in Account /\ account \in Account
  BY DEF SessionInv, AuthTypeOK, Call
<1>3. row \in Account /\ row.version = seen.version /\ token \in RefreshToken
      /\ token.state = "live" /\ token.version = seen.version
  BY <1>2 DEF Account, RefreshToken
<1> HIDE DEF row, token
<1>4. account' \in Account /\ account'.version = account.version
  BY <1>1, <1>2, <1>3, FlushAccount
<1>5. /\ refresh' \in [Tokens -> RefreshToken] /\ refresh'[new] = token
      /\ \A t \in Tokens \ {new} : refresh'[t] = refresh[t]
  BY <1>1, <1>3 DEF SessionInv, AuthTypeOK
<1>6. /\ line' \in [Tokens -> Tokens] /\ line'[new] = new
      /\ \A t \in Tokens \ {new} : line'[t] = line[t]
  BY <1>1 DEF SessionInv, AuthTypeOK
<1>7. /\ since' \cup crossed' = since \cup crossed \cup {new}
      /\ since' \subseteq Tokens \cup Links /\ crossed' \subseteq Tokens
      /\ since \subseteq since'
  BY <1>1 DEF SessionInv, AuthTypeOK
<1>8. AuthTypeOK'
  BY <1>1, <1>4, <1>5, <1>6, <1>7, CallsStay DEF SessionInv, AuthTypeOK
<1>9. \A t \in Tokens : refresh[t].state # "absent" => refresh'[t].state # "absent"
  BY <1>3, <1>5
<1>10. CallsFit'
  BY <1>1, <1>9, OthersFit
<1>11. InStep' /\ Bounded'
  <2>1. call[p].op # "idle"
    BY <1>1
  <2>2. ~lost => /\ \A t \in Tokens : refresh'[t].version <= account.version
                 /\ \A l \in Links : link'[l].version <= account.version
    BY <1>1, <1>3, <1>5, <2>1 DEF SessionInv, Bounded
  <2> QED BY <1>1, <1>4, <1>9, <2>2, OthersInStep
<1>12. ListedOrMissed'
  <2>1. \A t \in Tokens : Live(t)' => Live(t) \/ t \in {new}
    BY <1>5 DEF Live
  <2>2. \A l \in Links : Open(l)' => Open(l) /\ link'[l].purpose = link[l].purpose
    BY <1>1 DEF Open
  <2> QED BY <1>1, <2>1, <2>2, OthersListed
<1>13. \A t \in Tokens \ {new} : line[t] # new
  BY <1>1 DEF SessionInv, LinesReal
<1>14. LinesReal'
  BY <1>3, <1>5, <1>6, <1>9, <1>13 DEF SessionInv, LinesReal, AuthTypeOK
<1>15. OneInLine'
  BY <1>1, <1>3, <1>5, <1>6, <1>13 DEF SessionInv, OneInLine, Live
<1>16. OneUnused'
  BY <1>1 DEF SessionInv, OneUnused, Unused, Open
<1>17. SessionsKilled'
  BY <1>1, <1>4, <1>5, <1>7 DEF SessionInv, SessionsKilled, Live, AccessWorks
<1>18. LinksKilled'
  BY <1>1, <1>4, <1>7 DEF SessionInv, LinksKilled, LinkWorks, Open
<1> QED BY <1>8, <1>10, <1>11, <1>12, <1>14, <1>15, <1>16, <1>17, <1>18 DEF SessionInv

\* A rotation moves the life of a sign-in from one token to the next, unless the token was
\* revoked beside it.
LEMMA RotateInv ==
    ASSUME SessionInv, NEW p \in Callers, NEW new \in Tokens, RefreshCommit(p, new)
    PROVE  SessionInv'
<1> DEFINE old == call[p].token
           token == [state |-> "live", version |-> call[p].seen.version]
           gone == [refresh[old] EXCEPT !.state = IF @ = "live" THEN "over" ELSE @]
<1>1. /\ call[p].op = "refresh" /\ refresh[new].state = "absent"
      /\ refresh' = [refresh EXCEPT ![old] = gone, ![new] = token]
      /\ line' = [line EXCEPT ![new] = line[old]]
      /\ forked' = IF Live(old) THEN forked ELSE forked \cup {line[old]}
      /\ crossed' = IF call[p].overtaken \/ old \in crossed THEN crossed \cup {new} ELSE crossed
      /\ since' = IF new \in crossed' THEN since ELSE since \cup {new}
      /\ call' = CallsAfter(p, {new}, {})
      /\ UNCHANGED <<account, link, parallel, lost>>
  BY DEF RefreshCommit, SessionInv, AuthTypeOK, RefreshToken
<1>2. /\ old \in Tokens /\ refresh[old].state # "absent" /\ old # new
      /\ call[p].seen \in Account /\ refresh[old] \in RefreshToken
  BY <1>1 DEF SessionInv, CallsFit, AuthTypeOK, Call
<1>3. token \in RefreshToken /\ token.state = "live" /\ token.version = call[p].seen.version
  BY <1>2 DEF RefreshToken, Account
<1>4. /\ gone \in RefreshToken /\ gone.version = refresh[old].version
      /\ gone.state = IF Live(old) THEN "over" ELSE refresh[old].state
  <2>1. CASE Live(old)
    <3>1. gone = [refresh[old] EXCEPT !.state = "over"]
      BY <1>2, <2>1 DEF Live, RefreshToken
    <3> QED BY <1>2, <2>1, <3>1 DEF RefreshToken
  <2>2. CASE ~Live(old)
    <3>1. gone = [refresh[old] EXCEPT !.state = refresh[old].state]
      BY <1>2, <2>2 DEF Live, RefreshToken
    <3> QED BY <1>2, <2>2, <3>1 DEF RefreshToken
  <2> QED BY <2>1, <2>2
<1> HIDE DEF token, gone, old
<1>5. /\ refresh' \in [Tokens -> RefreshToken] /\ refresh'[new] = token /\ refresh'[old] = gone
      /\ \A t \in Tokens \ {new, old} : refresh'[t] = refresh[t]
  BY <1>1, <1>2, <1>3, <1>4 DEF SessionInv, AuthTypeOK
<1>6. /\ line' \in [Tokens -> Tokens] /\ line'[new] = line[old]
      /\ \A t \in Tokens \ {new} : line'[t] = line[t]
  BY <1>1, <1>2 DEF SessionInv, AuthTypeOK
<1>7. /\ since' \cup crossed' = since \cup crossed \cup {new}
      /\ since' \subseteq Tokens \cup Links /\ crossed' \subseteq Tokens
      /\ since \subseteq since'
  BY <1>1 DEF SessionInv, AuthTypeOK
<1>8. forked' \subseteq Tokens /\ forked \subseteq forked'
  BY <1>1, <1>2 DEF SessionInv, AuthTypeOK
<1>9. AuthTypeOK'
  BY <1>1, <1>5, <1>6, <1>7, <1>8, CallsStay DEF SessionInv, AuthTypeOK
<1>10. \A t \in Tokens : refresh[t].state # "absent" => refresh'[t].state # "absent"
  BY <1>3, <1>4, <1>5
<1>11. CallsFit'
  BY <1>1, <1>10, OthersFit
<1>12. InStep' /\ Bounded'
  <2>1. call[p].op # "idle"
    BY <1>1
  <2>2. ~lost => /\ \A t \in Tokens : refresh'[t].version <= account.version
                 /\ \A l \in Links : link'[l].version <= account.version
    BY <1>1, <1>2, <1>3, <1>4, <1>5, <2>1 DEF SessionInv, Bounded
  <2> QED BY <1>1, <1>10, <2>2, OthersInStep
<1>13. ListedOrMissed'
  <2>1. \A t \in Tokens : Live(t)' => Live(t) \/ t \in {new}
    BY <1>4, <1>5 DEF Live
  <2>2. \A l \in Links : Open(l)' => Open(l) /\ link'[l].purpose = link[l].purpose
    BY <1>1 DEF Open
  <2> QED BY <1>1, <2>1, <2>2, OthersListed
<1>14. LinesReal'
  <2>1. refresh[line[old]].state # "absent" /\ line[old] \in Tokens
    BY <1>2 DEF SessionInv, LinesReal, AuthTypeOK
  <2> QED BY <1>2, <1>3, <1>4, <1>5, <1>6, <1>10, <2>1 DEF SessionInv, LinesReal, AuthTypeOK
<1>15. OneInLine'
  <2> SUFFICES ASSUME NEW t \in Tokens, NEW u \in Tokens,
                      line'[t] = line'[u], line'[t] \notin forked', Live(t)'
               PROVE  (Live(u)' => t = u) /\ refresh'[u].state # "out"
    BY DEF OneInLine
  <2>1. line'[t] \notin forked
    BY <1>8
  <2>2. t # old
    BY <1>4, <1>5 DEF Live
  <2>3. CASE line'[t] = line[old]
    <3>1. Live(old)
      BY <1>1, <2>3
    <3>2. \A v \in Tokens : line[v] = line[old] =>
             /\ Live(v) => v = old
             /\ refresh[v].state # "out"
      BY <1>2, <2>1, <2>3, <3>1 DEF SessionInv, OneInLine
    <3>3. t = new
      BY <1>5, <1>6, <2>2, <2>3, <3>2 DEF Live
    <3>4. CASE u = new
      BY <1>3, <1>5, <3>3, <3>4
    <3>5. CASE u = old
      BY <1>4, <1>5, <3>1, <3>5 DEF Live
    <3>6. CASE u \notin {new, old}
      BY <1>5, <1>6, <2>3, <3>2, <3>6 DEF Live
    <3> QED BY <3>4, <3>5, <3>6
  <2>4. CASE line'[t] # line[old]
    BY <1>2, <1>5, <1>6, <2>1, <2>4 DEF SessionInv, OneInLine, Live
  <2> QED BY <2>3, <2>4
<1>16. OneUnused'
  BY <1>1 DEF SessionInv, OneUnused, Unused, Open
<1>17. SessionsKilled'
  BY <1>1, <1>4, <1>5, <1>7 DEF SessionInv, SessionsKilled, Live, AccessWorks
<1>18. LinksKilled'
  BY <1>1, <1>7 DEF SessionInv, LinksKilled, LinkWorks, Open
<1> QED BY <1>9, <1>11, <1>12, <1>13, <1>14, <1>15, <1>16, <1>17, <1>18 DEF SessionInv

\* A link that is mailed is bound to what its request has read; the others for its purpose
\* are over, but for those that were issued beside it.
LEMMA IssueInv ==
    ASSUME SessionInv, NEW p \in Callers, NEW new \in Links, IssueCommit(p, new)
    PROVE  SessionInv'
<1> DEFINE purpose == IssuePurpose(call[p].op)
           beside == {l \in call[p].missed \cap Links : link[l].purpose = purpose}
           row == [state |-> "open", purpose |-> purpose, version |-> call[p].seen.version]
           after(l) == IF l = new THEN row
                       ELSE IF l \in call[p].chosen THEN [link[l] EXCEPT !.state = "over"]
                       ELSE link[l]
<1>1. /\ call[p].op \in Issues /\ call[p].step = "write" /\ link[new].state = "absent"
      /\ link' = [l \in Links |-> after(l)]
      /\ parallel' = IF beside = {} THEN parallel \ {purpose} ELSE parallel \cup {purpose}
      /\ since' = IF call[p].overtaken THEN since ELSE since \cup {new}
      /\ call' = CallsAfter(p, {new}, {})
      /\ UNCHANGED <<account, refresh, crossed, line, forked, lost>>
  BY DEF IssueCommit
<1>2. call[p].seen \in Account /\ purpose \in TokenPurpose /\ call[p].op # "idle"
  BY <1>1, Operations DEF SessionInv, AuthTypeOK, Call, IssuePurpose, TokenPurpose
<1>3. /\ row \in UserToken /\ row.purpose = purpose /\ row.version = call[p].seen.version
  BY <1>2 DEF UserToken, Account
<1> HIDE DEF row
<1>4. ASSUME NEW l \in Links
      PROVE  /\ after(l) \in UserToken
             /\ l # new => /\ after(l).version = link[l].version /\ after(l).purpose = link[l].purpose
                           /\ after(l).state = IF l \in call[p].chosen THEN "over" ELSE link[l].state
  BY <1>3 DEF SessionInv, AuthTypeOK, UserToken
<1>5. after(new) = row
  OBVIOUS
<1> HIDE DEF after, purpose
<1>6. /\ link' \in [Links -> UserToken] /\ link'[new] = row
      /\ \A l \in Links \ {new} :
            /\ link'[l].version = link[l].version /\ link'[l].purpose = link[l].purpose
            /\ link'[l].state = IF l \in call[p].chosen THEN "over" ELSE link[l].state
  BY <1>1, <1>4, <1>5
<1>7. since' \subseteq Tokens \cup Links /\ since \subseteq since' /\ parallel' \subseteq TokenPurpose
  BY <1>1, <1>2 DEF SessionInv, AuthTypeOK
<1>8. AuthTypeOK'
  BY <1>1, <1>6, <1>7, CallsStay DEF SessionInv, AuthTypeOK
<1>9. CallsFit'
  BY <1>1, OthersFit
<1>10. InStep' /\ Bounded'
  <2>1. ~lost => /\ \A t \in Tokens : refresh'[t].version <= account.version
                 /\ \A l \in Links : link'[l].version <= account.version
    BY <1>1, <1>2, <1>3, <1>6 DEF SessionInv, Bounded
  <2> QED BY <1>1, <2>1, OthersInStep
<1>11. ListedOrMissed'
  <2>1. \A t \in Tokens : Live(t)' => Live(t)
    BY <1>1 DEF Live
  <2>2. \A l \in Links : Open(l)' => l \in {new} \/ (Open(l) /\ link'[l].purpose = link[l].purpose)
    BY <1>6 DEF Open
  <2> QED BY <1>1, <2>1, <2>2, OthersListed
<1>12. LinesReal' /\ OneInLine'
  BY <1>1 DEF SessionInv, LinesReal, OneInLine, Live
<1>13. OneUnused'
  <2> SUFFICES ASSUME NEW other \in TokenPurpose, other \notin parallel',
                      NEW k \in Links, NEW l \in Links,
                      k \in Unused(other)', l \in Unused(other)'
               PROVE  k = l
    BY DEF OneUnused
  <2>1. CASE other = purpose
    <3>1. beside = {}
      BY <1>1, <2>1
    <3>2. \A m \in Links \ {new} : ~(Open(m)' /\ link'[m].purpose = purpose)
      <4> SUFFICES ASSUME NEW m \in Links \ {new}, Open(m)', link'[m].purpose = purpose
                   PROVE  FALSE
        OBVIOUS
      <4>1. Open(m) /\ link[m].purpose = purpose /\ m \notin call[p].chosen
        BY <1>6 DEF Open
      <4>2. m \in call[p].missed
        BY <1>1, <4>1 DEF SessionInv, ListedOrMissed, purpose
      <4> QED BY <3>1, <4>1, <4>2
    <3> QED BY <2>1, <3>2 DEF Unused
  <2>2. CASE other # purpose
    <3>1. \A m \in Unused(other)' : m \in Unused(other) /\ m # new
      BY <1>3, <1>6, <2>2 DEF Unused, Open
    <3>2. other \notin parallel
      BY <1>1, <2>2
    <3> QED BY <3>1, <3>2 DEF SessionInv, OneUnused
  <2> QED BY <2>1, <2>2
<1>14. SessionsKilled'
  BY <1>1, <1>7 DEF SessionInv, SessionsKilled, Live, AccessWorks
<1>15. LinksKilled'
  <2> SUFFICES ASSUME NEW l \in Links, LinkWorks(l)', ~lost PROVE l \in since'
    BY <1>1 DEF LinksKilled
  <2>1. CASE l = new
    <3>1. row.version = account.version
      BY <1>1, <1>6, <2>1 DEF LinkWorks
    <3>2. ~call[p].overtaken
      <4>1. call[p].overtaken => call[p].seen.version < account.version
        BY <1>2 DEF SessionInv, Bounded
      <4>2. account.version \in Nat
        BY DEF SessionInv, AuthTypeOK, Account, Version
      <4> QED BY <1>3, <3>1, <4>1, <4>2
    <3> QED BY <1>1, <2>1, <3>2
  <2>2. CASE l # new
    <3>1. LinkWorks(l)
      BY <1>1, <1>6, <2>2 DEF LinkWorks, Open
    <3> QED BY <1>7, <3>1 DEF SessionInv, LinksKilled
  <2> QED BY <2>1, <2>2
<1> QED BY <1>8, <1>9, <1>10, <1>11, <1>12, <1>13, <1>14, <1>15 DEF SessionInv

\* A killing leaves only what was issued beside it; unless it was overtaken itself, nothing
\* is bound to the version it writes.
LEMMA KillInv == ASSUME SessionInv, NEW p \in Callers, KillCommit(p) PROVE SessionInv'
<1> DEFINE seen == call[p].seen
           row == KilledAccount(seen, call[p].op)
<1>1. /\ call[p].op \in Kills /\ call[p].step = "write" /\ seen.version < MaxVersion
      /\ account' = Flush(account, seen, row)
      /\ refresh' = KilledTokens(p)
      /\ link' = [l \in Links |-> IF l = call[p].link \/ l \in call[p].chosen
                                  THEN [link[l] EXCEPT !.state = "over"] ELSE link[l]]
      /\ since' = {} /\ crossed' = call[p].missed \cap Tokens
      /\ lost' = (lost \/ call[p].overtaken)
      /\ call' = CallsAfter(p, {}, Callers)
      /\ UNCHANGED <<line, forked, parallel>>
  BY DEF KillCommit
<1>2. call[p] \in Call /\ seen \in Account /\ account \in Account /\ call[p].op # "idle"
  BY <1>1, Operations DEF SessionInv, AuthTypeOK, Call
<1>3. row \in Account /\ row.version = seen.version + 1 /\ seen.version \in Nat
  <2>1. seen.version + 1 \in Version /\ seen.version \in Nat
    BY <1>1, <1>2 DEF Account, Version
  <2> DEFINE next == seen.version + 1
  <2>2. row = [seen EXCEPT !.version = next, !.verified = @ \/ call[p].op = "reset"]
    BY DEF KilledAccount
  <2> HIDE DEF next
  <2>3. row \in Account /\ row.version = next
    BY <1>2, <2>1, <2>2 DEF Account, next
  <2> QED BY <2>1, <2>3 DEF next
<1> HIDE DEF seen, row
<1>4. account' \in Account /\ account'.version = seen.version + 1
  BY <1>1, <1>2, <1>3, FlushAccount
<1>5. ASSUME NEW t \in Tokens
      PROVE  /\ refresh'[t] \in RefreshToken /\ refresh'[t].version = refresh[t].version
             /\ refresh'[t].state = IF t \in call[p].chosen /\ Live(t) THEN "over" ELSE refresh[t].state
  <2>1. refresh[t] \in RefreshToken
    BY DEF SessionInv, AuthTypeOK
  <2>2. CASE t \in call[p].chosen /\ Live(t)
    <3>1. refresh'[t] = [refresh[t] EXCEPT !.state = "over"]
      BY <1>1, <2>1, <2>2 DEF KilledTokens, Live, RefreshToken
    <3> QED BY <2>1, <2>2, <3>1 DEF RefreshToken
  <2>3. CASE ~(t \in call[p].chosen /\ Live(t))
    <3>1. refresh'[t] = refresh[t]
      BY <1>1, <2>1, <2>3 DEF KilledTokens, Live, RefreshToken
    <3> QED BY <2>1, <2>3, <3>1
  <2> QED BY <2>2, <2>3
<1>6. refresh' \in [Tokens -> RefreshToken]
  BY <1>1, <1>5 DEF KilledTokens
<1>7. /\ link' \in [Links -> UserToken]
      /\ \A l \in Links : /\ link'[l].version = link[l].version /\ link'[l].purpose = link[l].purpose
                          /\ Open(l)' => Open(l)
  BY <1>1 DEF SessionInv, AuthTypeOK, UserToken, Open
<1>8. AuthTypeOK'
  BY <1>1, <1>4, <1>6, <1>7, CallsStay DEF SessionInv, AuthTypeOK
<1>9. \A t \in Tokens : refresh[t].state # "absent" <=> refresh'[t].state # "absent"
  BY <1>5 DEF Live
<1>10. /\ CallsFit'
       /\ \A q \in Callers : call'[q].op # "idle" =>
             /\ q # p /\ call[q].op # "idle" /\ call'[q].seen = call[q].seen
             /\ q \in Callers => call'[q].overtaken
  BY <1>1, <1>9, OthersFit
<1>11. InStep'
  BY <1>10 DEF InStep
<1>12. ~lost' => /\ ~lost /\ ~call[p].overtaken /\ seen.version = account.version
  BY <1>1, <1>2 DEF SessionInv, InStep, seen
<1>13. Bounded'
  <2> SUFFICES ASSUME ~lost' PROVE Bounded'
    BY DEF Bounded
  <2>1. account'.version = account.version + 1 /\ account.version \in Nat
    BY <1>3, <1>4, <1>12
  <2>2. \A t \in Tokens : refresh[t].version \in Nat /\ refresh[t].version <= account.version
    BY <1>12 DEF SessionInv, Bounded, AuthTypeOK, RefreshToken, Version
  <2>3. \A l \in Links : link[l].version \in Nat /\ link[l].version <= account.version
    BY <1>12 DEF SessionInv, Bounded, AuthTypeOK, UserToken, Version
  <2>4. \A q \in Callers : call[q].seen.version \in Nat
    BY DEF SessionInv, AuthTypeOK, Call, Account, Version
  <2>5. \A q \in Callers : call[q].op # "idle" => call[q].seen.version <= account.version
    BY <1>12 DEF SessionInv, Bounded
  <2> QED BY <1>5, <1>7, <1>10, <2>1, <2>2, <2>3, <2>4, <2>5 DEF Bounded
<1>14. ListedOrMissed'
  <2>1. \A t \in Tokens : Live(t)' => Live(t)
    BY <1>5 DEF Live
  <2> QED BY <1>1, <1>7, <2>1, OthersListed
<1>15. LinesReal'
  BY <1>1, <1>9 DEF SessionInv, LinesReal, AuthTypeOK
<1>16. OneInLine'
  BY <1>1, <1>5 DEF SessionInv, OneInLine, Live
<1>17. OneUnused'
  BY <1>1, <1>7 DEF SessionInv, OneUnused, Unused
<1>18. SessionsKilled'
  <2>1. \A t \in Tokens : Live(t)' => t \in crossed'
    BY <1>1, <1>5 DEF SessionInv, ListedOrMissed, Live
  <2>2. \A t \in Tokens : AccessWorks(t)' => lost'
    <3> SUFFICES ASSUME NEW t \in Tokens, ~lost' PROVE ~AccessWorks(t)'
      OBVIOUS
    <3>1. refresh[t].version \in Nat /\ refresh[t].version <= account.version
      BY <1>12 DEF SessionInv, Bounded, AuthTypeOK, RefreshToken, Version
    <3>2. refresh'[t].version # account'.version
      BY <1>3, <1>4, <1>5, <1>12, <3>1
    <3> QED BY <3>2 DEF AccessWorks
  <2> QED BY <2>1, <2>2 DEF SessionsKilled
<1>19. LinksKilled'
  <2> SUFFICES ASSUME NEW l \in Links, ~lost' PROVE ~LinkWorks(l)'
    BY DEF LinksKilled
  <2>1. link[l].version \in Nat /\ link[l].version <= account.version
    BY <1>12 DEF SessionInv, Bounded, AuthTypeOK, UserToken, Version
  <2>2. link'[l].version # account'.version
    BY <1>3, <1>4, <1>7, <1>12, <2>1
  <2> QED BY <2>2 DEF LinkWorks
<1> QED BY <1>8, <1>10, <1>11, <1>13, <1>14, <1>15, <1>16, <1>17, <1>18, <1>19 DEF SessionInv

-----------------------------------------------------------------------------
(* The theorems                                                              *)

\* Every step keeps the inductive invariant.
LEMMA NextInv == SessionInv /\ [AuthNext]_authVars => SessionInv'
<1> SUFFICES ASSUME SessionInv, [AuthNext]_authVars PROVE SessionInv'
  OBVIOUS
<1>1. ASSUME NEW p \in Callers, AuthCall(p) PROVE SessionInv'
  BY <1>1, CallInv, RefreshInv, VerifyInv, ResetInv DEF AuthCall
<1>2. ASSUME NEW p \in Callers, AuthAdvance(p) PROVE SessionInv'
  BY <1>2, ChooseInv, VerifyCommitInv, KillInv, AuthRollBackInv, SignInInv, RotateInv, IssueInv
  DEF AuthAdvance
<1>3. ASSUME NEW t \in Tokens, Logout(t) PROVE SessionInv'
  BY <1>3, LogoutInv
<1>4. CASE Lapse \/ AccountChanges
  BY <1>4, LapseInv, AccountChangesInv
<1>5. CASE UNCHANGED authVars
  BY <1>5 DEF authVars, SessionInv, AuthTypeOK, CallsFit, InStep, Bounded, ListedOrMissed,
              LinesReal, OneInLine, OneUnused, SessionsKilled, LinksKilled, Live, Open, Unused,
              AccessWorks, LinkWorks
<1> QED BY <1>1, <1>2, <1>3, <1>4, <1>5 DEF AuthNext

\* The inductive invariant holds of every behaviour.
LEMMA SpecInv == AuthSpec => []SessionInv
BY InitInv, NextInv, PTL DEF AuthSpec

\* Type correctness of the account, its tokens, its links and what the requests have read.
THEOREM AuthTypes == AuthSpec => []AuthTypeOK
<1>1. SessionInv => AuthTypeOK
  BY DEF SessionInv
<1> QED BY <1>1, SpecInv, PTL

\* A new password ends every session but those that were signed in beside it, however the
\* requests interleave, unless the version it writes is lost.
THEOREM SessionsAreKilled == AuthSpec => []SessionsKilled
<1>1. SessionInv => SessionsKilled
  BY DEF SessionInv
<1> QED BY <1>1, SpecInv, PTL

\* A new password ends every link that was mailed before it, even of a request that was
\* under way beside it, unless the version it writes is lost.
THEOREM LinksAreKilled == AuthSpec => []LinksKilled
<1>1. SessionInv => LinksKilled
  BY DEF SessionInv
<1> QED BY <1>1, SpecInv, PTL

\* A set no two elements of which differ has at most one.
LEMMA NeverTwo ==
    ASSUME NEW S, \A x, y \in S : x = y
    PROVE  Cardinality(S) <= 1
<1>1. CASE S = {}
  BY <1>1, FS_EmptySet
<1>2. CASE S # {}
  <2>1. PICK x : x \in S
    BY <1>2
  <2>2. S = {x}
    BY <2>1
  <2>3. Cardinality({x}) = 1
    BY FS_Singleton
  <2> QED BY <2>2, <2>3
<1> QED BY <1>1, <1>2

\* A sign-in has one live refresh token, and none after a logout, however rotations,
\* logouts and new passwords interleave, unless a revoked token was rotated.
THEOREM OneTokenLives == AuthSpec => []OneLiveToken
<1>1. SessionInv => OneLiveToken
  <2> SUFFICES ASSUME SessionInv, NEW f \in Tokens \ forked
               PROVE  LET own == {t \in Tokens : line[t] = f /\ refresh[t].state # "absent"} IN
                      /\ Cardinality({t \in own : Live(t)}) <= 1
                      /\ (\E t \in own : refresh[t].state = "out") => \A t \in own : ~Live(t)
    BY DEF OneLiveToken
  <2> DEFINE own == {t \in Tokens : line[t] = f /\ refresh[t].state # "absent"}
             live == {t \in own : Live(t)}
  <2>1. \A t, u \in live : t = u
    BY DEF SessionInv, OneInLine
  <2>2. Cardinality(live) <= 1
    BY <2>1, NeverTwo
  <2>3. (\E t \in own : refresh[t].state = "out") => \A t \in own : ~Live(t)
    BY DEF SessionInv, OneInLine
  <2> QED BY <2>2, <2>3
<1> QED BY <1>1, SpecInv, PTL

\* Of the links for one purpose only the latest works, unless two were issued by requests
\* neither of which saw the other's.
THEOREM OneLinkWorks == AuthSpec => []LatestLinkOnly
<1>1. SessionInv => LatestLinkOnly
  <2> SUFFICES ASSUME SessionInv, NEW purpose \in TokenPurpose \ parallel
               PROVE  Cardinality(Unused(purpose)) <= 1
    BY DEF LatestLinkOnly
  <2>1. \A k, l \in Unused(purpose) : k = l
    BY DEF SessionInv, OneUnused, Unused
  <2> QED BY <2>1, NeverTwo
<1> QED BY <1>1, SpecInv, PTL

\* After a new password nothing works that was handed out before it, sessions and links
\* alike, but what was under way beside it.
THEOREM NewPasswordKills == AuthSpec => []KilledForGood
<1>1. SessionInv => KilledForGood
  BY DEF SessionInv, KilledForGood
<1> QED BY <1>1, SpecInv, PTL

\* What replaces a token or a link leaves it without use.
THEOREM OnlyTheLatestLives == AuthSpec => []OneLive
<1>1. OneLiveToken /\ LatestLinkOnly => OneLive
  BY DEF OneLive
<1> QED BY <1>1, OneTokenLives, OneLinkWorks, PTL

-----------------------------------------------------------------------------
(* The advisor's account                                                      *)


\* What a variable starts from, or returns to, is well typed.
LEMMA Typing == NewAdvisor \in Advisor /\ NoTask \in Task
BY DEF NewAdvisor, Advisor, VerificationStatus, NoTask, Task, TaskOp, CredentialStatus

\* The operations that leave an account otherwise than they found it
Changes == Verdicts \cup AccountOps \cup {"onboard"}

\* The account after the operations that write all of it
LEMMA AfterForms ==
    ASSUME NEW u
    PROVE  /\ AccountAfter("suspend", u) =
                 [status |-> "suspended", pre |-> Kept(u), active |-> FALSE, suspended |-> TRUE]
           /\ AccountAfter("reactivate", u) =
                 [status |-> Restored(u), pre |-> "none", active |-> Restored(u) = "approved",
                  suspended |-> FALSE]
           /\ \A op \in {"verify", "approved"} : AccountAfter(op, u) =
                 [status |-> "approved", pre |-> "none", active |-> TRUE, suspended |-> FALSE]
<1> DEFINE susp == [status |-> "suspended", pre |-> Kept(u), active |-> FALSE, suspended |-> TRUE]
           react == [status |-> Restored(u), pre |-> "none", active |-> Restored(u) = "approved",
                     suspended |-> FALSE]
           appr == [status |-> "approved", pre |-> "none", active |-> TRUE, suspended |-> FALSE]
           rej == [u EXCEPT !.status = "rejected", !.active = TRUE]
           reop(op) == [u EXCEPT !.status = op, !.active = FALSE]
           onb == IF u.status \in {"pending", "rejected"}
                  THEN [u EXCEPT !.status = "under_review", !.active = TRUE] ELSE u
<1>1. \A op : AccountAfter(op, u) =
          CASE op = "suspend" -> susp
            [] op = "reactivate" -> react
            [] op \in {"verify", "approved"} -> appr
            [] op = "rejected" -> rej
            [] op \in Reopens -> reop(op)
            [] op = "onboard" -> onb
  BY Zenon DEF AccountAfter
<1> HIDE DEF susp, react, appr, rej, reop, onb
<1>2. /\ AccountAfter("suspend", u) = susp
      /\ AccountAfter("reactivate", u) = react
      /\ \A op \in {"verify", "approved"} : AccountAfter(op, u) = appr
  BY <1>1 DEF Reopens
<1> QED BY <1>2, Zenon DEF susp, react, appr

\* An operation turns a well-typed account into one.
LEMMA AfterType ==
    ASSUME NEW op \in Changes, NEW u \in Advisor
    PROVE  AccountAfter(op, u) \in Advisor
<1>1. Kept(u) \in VerificationStatus \cup {"none"} /\ Restored(u) \in VerificationStatus
  BY DEF Kept, Restored, Advisor, VerificationStatus
<1>2. (Restored(u) = "approved") \in BOOLEAN
  OBVIOUS
<1>3. CASE op = "suspend"
  <2> DEFINE pre == Kept(u)
  <2>1. AccountAfter(op, u) =
            [status |-> "suspended", pre |-> pre, active |-> FALSE, suspended |-> TRUE]
    BY <1>3, AfterForms, Zenon
  <2>2. pre \in VerificationStatus \cup {"none"}
    BY <1>1
  <2> HIDE DEF pre
  <2> QED BY <2>1, <2>2 DEF Advisor, VerificationStatus
<1>4. CASE op = "reactivate"
  <2> DEFINE on == Restored(u) = "approved"
             pre == Restored(u)
  <2>1. on \in BOOLEAN /\ pre \in VerificationStatus
    BY <1>1
  <2>2. AccountAfter(op, u) = [status |-> pre, pre |-> "none", active |-> on, suspended |-> FALSE]
    BY <1>4, AfterForms, Zenon
  <2> HIDE DEF on, pre
  <2> QED BY <2>1, <2>2 DEF Advisor
<1>5. CASE op \in {"verify", "approved"}
  <2>1. AccountAfter(op, u) =
            [status |-> "approved", pre |-> "none", active |-> TRUE, suspended |-> FALSE]
    BY <1>5, AfterForms, Zenon
  <2> QED BY <2>1 DEF Advisor, VerificationStatus
<1>6. CASE op \in {"rejected", "pending", "under_review", "onboard"}
  BY <1>6 DEF AccountAfter, Advisor, VerificationStatus, Reopens
<1> QED BY <1>3, <1>4, <1>5, <1>6 DEF Changes, Verdicts, AccountOps

\* A flush of a well-typed account is one, and leaves the object as it is if the row is as
\* it was read.
LEMMA FlushAdvisor ==
    ASSUME NEW row \in Advisor, NEW seen \in Advisor, NEW new \in Advisor
    PROVE  Flush(row, seen, new) \in Advisor /\ (row = seen => Flush(row, seen, new) = new)
BY DEF Flush, Advisor

-----------------------------------------------------------------------------
(* The inductive invariant                                                    *)

\* A request that does not review documents has listed none.  One that opens them again
\* has listed all that are not pending, unless documents have changed since.
TasksFit ==
    \A p \in Clerks :
        /\ task[p].op \in AccountOps => task[p].listed = {} /\ task[p].step # "list"
        /\ task[p].step = "list" => task[p].op \in Verdicts \cup BulkOps
        /\ task[p].listed # {} => task[p].op \in Verdicts \cup BulkOps
        /\ task[p].op \in Reopens /\ task[p].step = "write" /\ ~task[p].outdated =>
               \A d \in Credentials : credential[d] \in {"absent", "pending"} \/ d \in task[p].listed

\* Unless the row is a mixture, its columns are those of the last verdict or of a suspension,
\* and a suspension on which no verdict was given keeps what the last verdict was.
StandingFits ==
    ~blurred =>
        /\ advisor.status # "suspended" => (advisor.status = "approved" <=> verdict = "approved")
        /\ advisor.status = "approved" => advisor.active /\ ~advisor.suspended
        /\ advisor.status = "suspended" => advisor.suspended
        /\ ~judged => /\ advisor.status = "suspended"
                      /\ Restored(advisor) = "approved" <=> verdict = "approved"

\* Who waits has handed in a document that is still to be reviewed.
Awaited == awaiting => \E d \in Credentials : credential[d] = "pending"

AccountInv == AccountTypeOK /\ TasksFit /\ StandingFits /\ Awaited

\* Before the first request the inductive invariant holds.
LEMMA AccountInitInv == AccountInit => AccountInv
<1> SUFFICES ASSUME AccountInit PROVE AccountInv
  OBVIOUS
<1>1. AccountTypeOK
  BY Typing DEF AccountInit, AccountTypeOK
<1>2. TasksFit
  BY DEF AccountInit, TasksFit, NoTask, AccountOps, Reopens
<1>3. StandingFits
  BY DEF AccountInit, StandingFits, NewAdvisor
<1> QED BY <1>1, <1>2, <1>3 DEF AccountInv, AccountInit, Awaited

-----------------------------------------------------------------------------
\* A request that takes up work, goes on with it or stops leaves everything else alone.
LEMMA TaskInv ==
    ASSUME AccountInv, UNCHANGED <<advisor, documents, remembered>>,
           NEW p \in Clerks, NEW r \in Task, task' = [task EXCEPT ![p] = r],
           r.op \in AccountOps => r.listed = {} /\ r.step # "list",
           r.step = "list" => r.op \in Verdicts \cup BulkOps,
           r.listed # {} => r.op \in Verdicts \cup BulkOps,
           r.op \in Reopens /\ r.step = "write" =>
               \A d \in Credentials : credential[d] \in {"absent", "pending"} \/ d \in r.listed
    PROVE  AccountInv'
<1>1. AccountTypeOK'
  BY DEF AccountInv, AccountTypeOK, documents, remembered
<1>2. TasksFit'
  BY DEF AccountInv, AccountTypeOK, TasksFit, documents
<1>3. StandingFits' /\ Awaited'
  BY DEF AccountInv, StandingFits, Awaited, Restored, documents, remembered
<1> QED BY <1>1, <1>2, <1>3 DEF AccountInv

\* Work that has just been taken up has nothing listed.
LEMMA WorkFits ==
    ASSUME AccountInv, NEW op \in TaskOp, NEW step \in {"list", "write"}
    PROVE  /\ Work(op, step) \in Task /\ Work(op, step).op = op /\ Work(op, step).step = step
           /\ Work(op, step).listed = {}
<1>1. advisor \in Advisor /\ NewAdvisor \in Advisor /\ NoTask \in Task
  BY Typing DEF AccountInv, AccountTypeOK
<1>2. NoTask.listed = {}
  BY DEF NoTask
<1> QED BY <1>1, <1>2 DEF Work, Task

\* suspend, reactivate, the verdicts and the bulk reviews begin.
LEMMA AdminReadsInv ==
    ASSUME AccountInv, NEW p \in Clerks, NEW op \in TaskOp, AdminReads(p, op)
    PROVE  AccountInv'
<1> DEFINE step == IF op \in AccountOps THEN "write" ELSE "list"
           r == Work(op, step)
<1>1. r \in Task /\ r.op = op /\ r.step = step /\ r.listed = {}
  BY WorkFits
<1>2. /\ op \in Verdicts \cup AccountOps \cup BulkOps
      /\ task' = [task EXCEPT ![p] = r] /\ UNCHANGED <<advisor, documents, remembered>>
  BY DEF AdminReads, Take
<1>3. op \in Reopens => step # "write"
  BY DEF Reopens, AccountOps
<1> HIDE DEF r
<1>4. r.step = "list" => op \in Verdicts \cup BulkOps
  BY <1>1, <1>2
<1> QED BY <1>1, <1>2, <1>3, <1>4, TaskInv

\* A review of one document, and the advisor's form, begin.
LEMMA OwnReadsInv ==
    ASSUME AccountInv, NEW p \in Clerks,
           \/ Onboard(p)
           \/ \E d \in Credentials, s \in CredentialStatus : ReadCredential(p, d, s)
    PROVE  AccountInv'
<1>1. {"onboard", "review"} \subseteq TaskOp
      /\ {"onboard", "review"} \cap (AccountOps \cup Reopens) = {}
  BY DEF TaskOp, AccountOps, Reopens
<1>2. CASE Onboard(p)
  <2> DEFINE r == Work("onboard", "write")
  <2>1. r \in Task /\ r.op = "onboard" /\ r.step = "write" /\ r.listed = {}
    BY <1>1, WorkFits
  <2>2. task' = [task EXCEPT ![p] = r] /\ UNCHANGED <<advisor, documents, remembered>>
    BY <1>2 DEF Onboard, Take
  <2> HIDE DEF r
  <2> QED BY <1>1, <2>1, <2>2, TaskInv
<1>3. ASSUME NEW d \in Credentials, NEW s \in CredentialStatus, ReadCredential(p, d, s)
      PROVE  AccountInv'
  <2> DEFINE w == Work("review", "write")
             r == [w EXCEPT !.document = d, !.status = s]
  <2>1. w \in Task /\ w.op = "review" /\ w.step = "write" /\ w.listed = {}
    BY <1>1, WorkFits
  <2>2. task' = [task EXCEPT ![p] = r] /\ UNCHANGED <<advisor, documents, remembered>>
    BY <1>3 DEF ReadCredential, Take
  <2> HIDE DEF w
  <2>3. r \in Task /\ r.op = "review" /\ r.step = "write" /\ r.listed = {}
    BY <2>1 DEF Task
  <2> HIDE DEF r
  <2> QED BY <1>1, <2>2, <2>3, TaskInv
<1> QED BY <1>2, <1>3

\* resolve_pending and reopen_for_review list what they will change.
LEMMA ListCredentialsInv == ASSUME AccountInv, NEW p \in Clerks, ListCredentials(p) PROVE AccountInv'
<1> DEFINE found == {d \in Credentials :
                        /\ credential[d] # "absent"
                        /\ (credential[d] = "pending") = (task[p].op \notin Reopens)}
           r == [task[p] EXCEPT !.step = "write", !.listed = found, !.outdated = FALSE]
<1>1. task[p] \in Task /\ task[p].step = "list" /\ found \subseteq Credentials
  BY DEF ListCredentials, AccountInv, AccountTypeOK
<1>2. task' = [task EXCEPT ![p] = r] /\ UNCHANGED <<advisor, documents, remembered>>
  BY <1>1 DEF ListCredentials, AccountInv, AccountTypeOK
<1>3. task[p].op \in Reopens =>
          \A d \in Credentials : credential[d] \in {"absent", "pending"} \/ d \in found
  OBVIOUS
<1> HIDE DEF found
<1>4. r \in Task /\ r.op = task[p].op /\ r.step = "write" /\ r.listed = found
  BY <1>1 DEF Task
<1>5. task[p].op \in Verdicts \cup BulkOps /\ task[p].op \notin AccountOps
  BY <1>1 DEF AccountInv, TasksFit
<1> HIDE DEF r
<1> QED BY <1>2, <1>3, <1>4, <1>5, TaskInv

\* AccountRollBack
LEMMA AccountRollBackInv == ASSUME AccountInv, NEW p \in Clerks, AccountRollBack(p) PROVE AccountInv'
<1>1. /\ NoTask \in Task /\ NoTask.listed = {} /\ NoTask.step = "idle"
      /\ NoTask.op \notin AccountOps \cup Reopens
  BY Typing DEF NoTask, AccountOps, Reopens
<1> QED BY <1>1, TaskInv DEF AccountRollBack

-----------------------------------------------------------------------------
\* When a request is done, what the others have listed is out of date if documents changed.
LEMMA AfterInv ==
    ASSUME AccountInv, NEW p \in Clerks, task' = TasksAfter(p),
           credential' \in [Credentials -> CredentialStatus \cup {"absent"}]
    PROVE  task' \in [Clerks -> Task] /\ TasksFit'
<1> DEFINE moved == credential' # credential
<1>1. \A q \in Clerks :
        \/ task'[q] = NoTask
        \/ /\ task[q] \in Task
           /\ task'[q] = [task[q] EXCEPT !.outdated = @ \/ moved]
  BY DEF TasksAfter, AccountInv, AccountTypeOK
<1>2. \A q \in Clerks : task[q] \in Task => (task[q].outdated \/ moved) \in BOOLEAN
  OBVIOUS
<1>3. \A q \in Clerks :
        \/ task'[q] = NoTask
        \/ /\ task'[q] \in Task /\ task'[q].op = task[q].op /\ task'[q].step = task[q].step
           /\ task'[q].listed = task[q].listed
           /\ ~task'[q].outdated => ~task[q].outdated /\ ~moved
  <2> SUFFICES ASSUME NEW q \in Clerks, task[q] \in Task,
                      task'[q] = [task[q] EXCEPT !.outdated = @ \/ moved]
               PROVE  /\ task'[q] \in Task /\ task'[q].op = task[q].op /\ task'[q].step = task[q].step
                      /\ task'[q].listed = task[q].listed
                      /\ ~task'[q].outdated => ~task[q].outdated /\ ~moved
    BY <1>1
  <2> DEFINE late == task[q].outdated \/ moved
  <2>1. late \in BOOLEAN /\ task'[q] = [task[q] EXCEPT !.outdated = late]
    OBVIOUS
  <2> HIDE DEF late
  <2>2. /\ task'[q] \in Task /\ task'[q].op = task[q].op /\ task'[q].step = task[q].step
        /\ task'[q].listed = task[q].listed /\ task'[q].outdated = late
    BY <2>1 DEF Task
  <2> QED BY <2>2 DEF late
<1>4. task' \in [Clerks -> Task]
  BY <1>3, Typing DEF TasksAfter
<1>5. /\ NoTask.listed = {} /\ NoTask.step = "idle"
      /\ NoTask.op \notin AccountOps \cup Reopens
  BY DEF NoTask, AccountOps, Reopens
<1>6. TasksFit'
  <2> SUFFICES ASSUME NEW q \in Clerks
               PROVE  /\ task'[q].op \in AccountOps => task'[q].listed = {} /\ task'[q].step # "list"
                      /\ task'[q].step = "list" => task'[q].op \in Verdicts \cup BulkOps
                      /\ task'[q].listed # {} => task'[q].op \in Verdicts \cup BulkOps
                      /\ task'[q].op \in Reopens /\ task'[q].step = "write" /\ ~task'[q].outdated =>
                            \A d \in Credentials : \/ credential'[d] \in {"absent", "pending"}
                                                   \/ d \in task'[q].listed
    BY DEF TasksFit
  <2>1. CASE task'[q] = NoTask
    BY <1>5, <2>1
  <2>2. CASE task'[q] # NoTask
    BY <1>3, <2>2 DEF AccountInv, TasksFit
  <2> QED BY <2>1, <2>2
<1> QED BY <1>4, <1>6

\* What a request makes of the documents
LEMMA CredentialsType ==
    ASSUME AccountInv, NEW p \in Clerks
    PROVE  /\ CredentialsAfter(p) \in [Credentials -> CredentialStatus \cup {"absent"}]
           /\ task[p].op \in AccountOps => CredentialsAfter(p) = credential
           /\ task[p].op \in Reopens /\ task[p].step = "write" /\ ~task[p].outdated =>
                 \A d \in Credentials : CredentialsAfter(p)[d] \in {"absent", "pending"}
           /\ \A d \in Credentials : credential[d] # "absent" => CredentialsAfter(p)[d] # "absent"
<1>1. task[p].listed # {} => task[p].op \in Verdicts \cup BulkOps
  BY DEF AccountInv, TasksFit
<1>2. task[p].op \in Verdicts \cup BulkOps => CredentialAfter(task[p].op) \in CredentialStatus
  BY DEF CredentialAfter, Verdicts, BulkOps, Reopens, CredentialStatus
<1>3. credential \in [Credentials -> CredentialStatus \cup {"absent"}] /\ "absent" \notin CredentialStatus
  BY DEF AccountInv, AccountTypeOK, CredentialStatus
<1>4. task[p].op \in Reopens => CredentialAfter(task[p].op) = "pending"
  BY DEF CredentialAfter, Reopens
<1>5. CredentialsAfter(p) \in [Credentials -> CredentialStatus \cup {"absent"}]
  BY <1>1, <1>2, <1>3 DEF CredentialsAfter
<1>6. task[p].op \in AccountOps => CredentialsAfter(p) = credential
  BY <1>3 DEF CredentialsAfter, AccountInv, TasksFit
<1>7. task[p].op \in Reopens /\ task[p].step = "write" /\ ~task[p].outdated =>
          \A d \in Credentials : CredentialsAfter(p)[d] \in {"absent", "pending"}
  BY <1>4 DEF CredentialsAfter, AccountInv, TasksFit
<1>8. \A d \in Credentials : credential[d] # "absent" => CredentialsAfter(p)[d] # "absent"
  BY <1>1, <1>2, <1>3 DEF CredentialsAfter
<1> QED BY <1>5, <1>6, <1>7, <1>8

\* What an account is after a request that found it as it had read it, by operation.
LEMMA AfterBy ==
    ASSUME NEW u \in Advisor
    PROVE  /\ LET a == AccountAfter("suspend", u) IN
              a.status = "suspended" /\ a.pre = Kept(u) /\ a.suspended
           /\ LET a == AccountAfter("reactivate", u) IN
              /\ a.status = Restored(u) /\ ~a.suspended
              /\ a.active <=> Restored(u) = "approved"
           /\ \A op \in {"verify", "approved"} :
                 LET a == AccountAfter(op, u) IN
                 a.status = "approved" /\ a.active /\ ~a.suspended
           /\ AccountAfter("rejected", u).status = "rejected"
           /\ \A op \in Reopens : AccountAfter(op, u).status = op
<1>1. LET a == AccountAfter("suspend", u) IN a.status = "suspended" /\ a.pre = Kept(u) /\ a.suspended
  BY AfterForms
<1>2. LET a == AccountAfter("reactivate", u) IN
      /\ a.status = Restored(u) /\ ~a.suspended
      /\ a.active <=> Restored(u) = "approved"
  <2> DEFINE on == Restored(u) = "approved"
             pre == Restored(u)
  <2>1. on \in BOOLEAN
    OBVIOUS
  <2>2. AccountAfter("reactivate", u) =
            [status |-> pre, pre |-> "none", active |-> on, suspended |-> FALSE]
    BY AfterForms
  <2> HIDE DEF on, pre
  <2>3. LET a == AccountAfter("reactivate", u) IN
        a.status = pre /\ ~a.suspended /\ (a.active <=> on)
    BY <2>1, <2>2
  <2> QED BY <2>3 DEF on, pre
<1>3. \A op \in {"verify", "approved"} :
          LET a == AccountAfter(op, u) IN a.status = "approved" /\ a.active /\ ~a.suspended
  BY AfterForms
<1>4. AccountAfter("rejected", u).status = "rejected"
  BY DEF AccountAfter, Advisor, Reopens
<1>5. \A op \in Reopens : AccountAfter(op, u).status = op
  BY DEF AccountAfter, Advisor, Reopens
<1> QED BY <1>1, <1>2, <1>3, <1>4, <1>5

\* A commit of an administrator leaves the columns as the verdict says, or keeps it.
LEMMA AdminStanding == ASSUME AccountInv, NEW p \in Clerks, AdminCommit(p) PROVE StandingFits'
<1> DEFINE op == task[p].op
           new == AccountAfter(op, advisor)
<1> SUFFICES ASSUME ~blurred'
             PROVE  /\ advisor'.status # "suspended" =>
                          (advisor'.status = "approved" <=> verdict' = "approved")
                    /\ advisor'.status = "approved" => advisor'.active /\ ~advisor'.suspended
                    /\ advisor'.status = "suspended" => advisor'.suspended
                    /\ ~judged' => /\ advisor'.status = "suspended"
                                   /\ Restored(advisor') = "approved" <=> verdict' = "approved"
  BY DEF StandingFits, Restored
<1>1. /\ op \in Verdicts \cup AccountOps /\ advisor \in Advisor /\ task[p].seen \in Advisor
  BY DEF AdminCommit, AccountInv, AccountTypeOK, Task
<1>2. /\ advisor = task[p].seen
      /\ op = "suspend" => ~blurred
      /\ op = "reactivate" => ~blurred /\ ~judged
  BY DEF AdminCommit, Blurs
<1>3. new \in Advisor
  BY <1>1, AfterType DEF Changes
<1>4. advisor' = new
  BY <1>1, <1>2, <1>3, FlushAdvisor DEF AdminCommit
<1>5. verdict' = CASE op = "verify" -> "approved" [] op \in Verdicts -> op [] OTHER -> verdict
  BY DEF AdminCommit
<1>6. judged' = IF op = "suspend" THEN judged /\ advisor.status = "suspended" ELSE TRUE
  BY <1>2 DEF AdminCommit
<1>7. StandingFits
  BY DEF AccountInv
<1> HIDE DEF new
<1>8. CASE op = "suspend"
  <2>1. new.status = "suspended" /\ new.pre = Kept(advisor) /\ new.suspended
    BY <1>1, <1>8, AfterBy DEF new
  <2>2. verdict' = verdict
    BY <1>5, <1>8 DEF Verdicts
  <2>3. ASSUME ~judged' PROVE Restored(new) = "approved" <=> verdict = "approved"
    <3>1. CASE advisor.status = "suspended"
      <4>1. ~judged /\ Restored(new) = Restored(advisor)
        BY <1>6, <1>8, <2>1, <2>3, <3>1 DEF Kept, Restored
      <4> QED BY <1>2, <1>7, <1>8, <4>1 DEF StandingFits
    <3>2. CASE advisor.status # "suspended"
      <4>1. Restored(new) = advisor.status
        BY <1>1, <2>1, <3>2 DEF Kept, Restored, Advisor, VerificationStatus
      <4> QED BY <1>2, <1>7, <1>8, <3>2, <4>1 DEF StandingFits
    <3> QED BY <3>1, <3>2
  <2> QED BY <1>4, <2>1, <2>2, <2>3
<1>9. CASE op = "reactivate"
  <2>1. new.status = Restored(advisor) /\ ~new.suspended /\ (new.active <=> Restored(advisor) = "approved")
    BY <1>1, <1>9, AfterBy DEF new
  <2>2. verdict' = verdict /\ judged'
    BY <1>5, <1>6, <1>9 DEF Verdicts
  <2>3. Restored(advisor) = "approved" <=> verdict = "approved"
    BY <1>2, <1>7, <1>9 DEF StandingFits
  <2>4. Restored(advisor) # "suspended"
    BY DEF Restored
  <2> QED BY <1>4, <2>1, <2>2, <2>3, <2>4
<1>10. CASE op \in {"verify", "approved"}
  <2>1. new.status = "approved" /\ new.active /\ ~new.suspended
    BY <1>1, <1>10, AfterBy DEF new
  <2>2. verdict' = "approved" /\ judged'
    BY <1>5, <1>6, <1>10 DEF Verdicts
  <2> QED BY <1>4, <2>1, <2>2
<1>11. CASE op \in {"rejected", "pending", "under_review"}
  <2>1. new.status = op
    BY <1>1, <1>11, AfterBy DEF new, Reopens
  <2>2. verdict' = op /\ judged'
    BY <1>5, <1>6, <1>11 DEF Verdicts
  <2> QED BY <1>4, <1>11, <2>1, <2>2
<1> QED BY <1>1, <1>8, <1>9, <1>10, <1>11 DEF Verdicts, AccountOps

\* AdminCommit
LEMMA AdminCommitInv == ASSUME AccountInv, NEW p \in Clerks, AdminCommit(p) PROVE AccountInv'
<1> DEFINE op == task[p].op
<1>1. /\ op \in Verdicts \cup AccountOps /\ task[p].step = "write"
      /\ advisor \in Advisor /\ task[p].seen \in Advisor
      /\ credential' = CredentialsAfter(p) /\ task' = TasksAfter(p)
      /\ archived' = archived /\ files' = files
  BY DEF AdminCommit, AccountInv, AccountTypeOK, Task
<1>2. advisor' \in Advisor
  BY <1>1, AfterType, FlushAdvisor DEF AdminCommit, Changes
<1>3. credential' \in [Credentials -> CredentialStatus \cup {"absent"}]
  BY <1>1, CredentialsType
<1>4. task' \in [Clerks -> Task] /\ TasksFit'
  BY <1>1, <1>3, AfterInv
<1>5. verdict' \in Verdicts \cup {"none"} /\ judged' \in BOOLEAN /\ blurred' \in BOOLEAN
  <2>1. verdict' \in Verdicts \cup {"none"}
    BY <1>1 DEF AdminCommit, AccountInv, AccountTypeOK, Verdicts
  <2>2. judged' \in BOOLEAN
    BY DEF AdminCommit, AccountInv, AccountTypeOK
  <2>3. blurred' \in BOOLEAN
    BY DEF AdminCommit, Blurs
  <2> QED BY <2>1, <2>2, <2>3
<1>6. awaiting' \in BOOLEAN
  BY DEF AdminCommit, AccountInv, AccountTypeOK
<1>7. Awaited'
  <2> SUFFICES ASSUME awaiting' PROVE \E d \in Credentials : credential'[d] = "pending"
    BY DEF Awaited
  <2>1. CASE op \in Reopens
    <3>1. ~task[p].outdated /\ \E d \in Credentials : credential[d] # "absent"
      BY <2>1 DEF AdminCommit
    <3>2. PICK d \in Credentials : credential[d] # "absent"
      BY <3>1
    <3>3. CredentialsAfter(p)[d] \in {"absent", "pending"} /\ CredentialsAfter(p)[d] # "absent"
      BY <1>1, <2>1, <3>1, <3>2, CredentialsType
    <3> QED BY <1>1, <3>3
  <2>2. CASE op \notin Reopens
    <3>1. awaiting /\ op \in AccountOps
      BY <2>2 DEF AdminCommit, AccountOps
    <3> QED BY <1>1, <3>1, CredentialsType DEF AccountInv, Awaited
  <2> QED BY <2>1, <2>2
<1>8. AccountTypeOK'
  BY <1>1, <1>2, <1>3, <1>4, <1>5, <1>6 DEF AccountInv, AccountTypeOK
<1> QED BY <1>4, <1>7, <1>8, AdminStanding DEF AccountInv

\* OnboardCommit
LEMMA OnboardInv == ASSUME AccountInv, NEW p \in Clerks, OnboardCommit(p) PROVE AccountInv'
<1> DEFINE after == AccountAfter("onboard", task[p].seen)
<1>1. advisor \in Advisor /\ task[p].seen \in Advisor /\ after \in Advisor
  BY AfterType DEF AccountInv, AccountTypeOK, Task, Changes
<1>2. /\ advisor' = Flush(advisor, task[p].seen, after) /\ advisor' \in Advisor
      /\ advisor = task[p].seen => advisor' = after
  BY <1>1, FlushAdvisor DEF OnboardCommit
<1>3. PICK new \in SUBSET {d \in Credentials : credential[d] = "absent"} :
        /\ credential' = [d \in Credentials |-> IF d \in new THEN "pending" ELSE credential[d]]
        /\ files' = files \cup new
        /\ awaiting' = (awaiting \/ new # {})
  BY DEF OnboardCommit
<1>4. credential' \in [Credentials -> CredentialStatus \cup {"absent"}]
  BY <1>3 DEF AccountInv, AccountTypeOK, CredentialStatus
<1>5. task' \in [Clerks -> Task] /\ TasksFit'
  BY <1>4, AfterInv DEF OnboardCommit
<1>6. AccountTypeOK'
  <2>1. blurred' \in BOOLEAN /\ awaiting' \in BOOLEAN
    BY <1>3 DEF OnboardCommit
  <2> QED BY <1>2, <1>3, <1>4, <1>5, <2>1 DEF AccountInv, AccountTypeOK, OnboardCommit
<1>7. Awaited'
  <2>1. \A d \in Credentials : credential[d] = "pending" => credential'[d] = "pending"
    BY <1>3
  <2>2. new # {} => \E d \in Credentials : credential'[d] = "pending"
    BY <1>3
  <2> QED BY <1>3, <2>1, <2>2 DEF AccountInv, Awaited
<1>8. StandingFits'
  <2> SUFFICES ASSUME ~blurred' PROVE StandingFits'
    BY DEF StandingFits
  <2>1. ~blurred /\ advisor' = after /\ advisor = task[p].seen /\ UNCHANGED <<verdict, judged>>
    BY <1>2 DEF OnboardCommit
  <2>2. CASE advisor.status \in {"pending", "rejected"}
    <3>1. advisor'.status = "under_review"
      BY <1>1, <2>1, <2>2 DEF AccountAfter, Advisor, Reopens
    <3>2. judged /\ verdict # "approved"
      BY <2>1, <2>2 DEF AccountInv, StandingFits
    <3> QED BY <2>1, <3>1, <3>2 DEF StandingFits
  <2>3. CASE advisor.status \notin {"pending", "rejected"}
    <3>1. advisor' = advisor
      BY <2>1, <2>3 DEF AccountAfter, Reopens
    <3> QED BY <2>1, <3>1 DEF AccountInv, StandingFits, Restored
  <2> QED BY <2>2, <2>3
<1> QED BY <1>5, <1>6, <1>7, <1>8 DEF AccountInv

\* CreateCredential
LEMMA CreateCredentialInv ==
    ASSUME AccountInv, NEW p \in Clerks, NEW d \in Credentials, CreateCredential(p, d)
    PROVE  AccountInv'
<1>1. credential' = [credential EXCEPT ![d] = "pending"]
      /\ credential' \in [Credentials -> CredentialStatus \cup {"absent"}] /\ credential'[d] = "pending"
  BY DEF CreateCredential, AccountInv, AccountTypeOK, CredentialStatus
<1>2. task' \in [Clerks -> Task] /\ TasksFit'
  BY <1>1, AfterInv DEF CreateCredential
<1>3. awaiting' \in BOOLEAN
  BY DEF CreateCredential
<1>4. AccountTypeOK'
  BY <1>1, <1>2, <1>3 DEF CreateCredential, AccountInv, AccountTypeOK
<1>5. StandingFits' /\ Awaited'
  BY <1>1 DEF CreateCredential, AccountInv, StandingFits, Restored, Awaited
<1> QED BY <1>2, <1>4, <1>5 DEF AccountInv

\* DeleteCredential
LEMMA DeleteCredentialInv == ASSUME AccountInv, NEW d \in Credentials, DeleteCredential(d) PROVE AccountInv'
<1>1. AccountTypeOK'
  BY DEF DeleteCredential, AccountInv, AccountTypeOK, remembered
<1>2. TasksFit' /\ StandingFits' /\ Awaited'
  BY DEF DeleteCredential, AccountInv, TasksFit, StandingFits, Restored, Awaited, remembered
<1> QED BY <1>1, <1>2 DEF AccountInv

\* ReviewCommit
LEMMA ReviewCredentialInv == ASSUME AccountInv, NEW p \in Clerks, ReviewCommit(p) PROVE AccountInv'
<1>1. credential' \in [Credentials -> CredentialStatus \cup {"absent"}]
  <2>1. task[p] \in Task /\ task[p].status \in CredentialStatus
    BY DEF AccountInv, AccountTypeOK, Task
  <2>2. [credential EXCEPT ![task[p].document] = task[p].status]
            \in [Credentials -> CredentialStatus \cup {"absent"}]
    BY <2>1 DEF AccountInv, AccountTypeOK
  <2> QED BY <2>2, CredentialsType DEF ReviewCommit
<1>2. task' \in [Clerks -> Task] /\ TasksFit'
  BY <1>1, AfterInv DEF ReviewCommit
<1>3. awaiting' \in BOOLEAN
  BY DEF ReviewCommit
<1>4. AccountTypeOK'
  BY <1>1, <1>2, <1>3 DEF ReviewCommit, AccountInv, AccountTypeOK
<1>5. StandingFits' /\ Awaited'
  BY DEF ReviewCommit, AccountInv, StandingFits, Restored, Awaited
<1> QED BY <1>2, <1>4, <1>5 DEF AccountInv

\* The inductive invariant is one.
LEMMA AccountNextInv == AccountInv /\ [AccountNext]_accountVars => AccountInv'
<1> SUFFICES ASSUME AccountInv, [AccountNext]_accountVars PROVE AccountInv'
  OBVIOUS
<1>1. ASSUME NEW p \in Clerks, NEW op \in TaskOp, AdminReads(p, op) PROVE AccountInv'
  BY <1>1, AdminReadsInv
<1>2. ASSUME NEW p \in Clerks, NEW d \in Credentials, NEW s \in CredentialStatus,
             ReadCredential(p, d, s)
      PROVE  AccountInv'
  BY <1>2, OwnReadsInv
<1>3. ASSUME NEW p \in Clerks, NEW d \in Credentials, CreateCredential(p, d) PROVE AccountInv'
  BY <1>3, CreateCredentialInv
<1>4. ASSUME NEW p \in Clerks, Onboard(p) PROVE AccountInv'
  BY <1>4, OwnReadsInv
<1>5. ASSUME NEW p \in Clerks, ListCredentials(p) \/ AccountRollBack(p) PROVE AccountInv'
  BY <1>5, ListCredentialsInv, AccountRollBackInv
<1>6. ASSUME NEW p \in Clerks, AdminCommit(p) \/ OnboardCommit(p) \/ ReviewCommit(p) PROVE AccountInv'
  BY <1>6, AdminCommitInv, OnboardInv, ReviewCredentialInv
<1>7. ASSUME NEW d \in Credentials, DeleteCredential(d) PROVE AccountInv'
  BY <1>7, DeleteCredentialInv
<1>8. CASE UNCHANGED accountVars
  <2>1. UNCHANGED <<advisor, task>> /\ UNCHANGED documents /\ UNCHANGED remembered
    BY <1>8 DEF accountVars
  <2> QED BY <2>1 DEF AccountInv, AccountTypeOK, TasksFit, StandingFits, Restored, Awaited,
                      documents, remembered
<1> QED BY <1>1, <1>2, <1>3, <1>4, <1>5, <1>6, <1>7, <1>8 DEF AccountNext

\* The invariant holds in every state of every behaviour.
LEMMA AccountSpecInv == AccountSpec => []AccountInv
<1> QED BY AccountInitInv, AccountNextInv, PTL DEF AccountSpec

-----------------------------------------------------------------------------
\* The rows, and what every request has read of them, keep their types.
THEOREM AccountTypes == AccountSpec => []AccountTypeOK
<1>1. AccountInv => AccountTypeOK
  BY DEF AccountInv
<1> QED BY <1>1, AccountSpecInv, PTL

\* user_admin_service: an advisor serves exactly when the last verdict approved them and no
\* suspension is in force, and who waits for a verdict is in the queue, however verdicts,
\* suspensions, reviews and forms interleave, but for rows that two requests have mixed.
THEOREM StatusIsHonest == AccountSpec => []StatusHonest
<1>1. AccountInv => StatusHonest
  <2> SUFFICES ASSUME AccountInv PROVE StatusHonest
    OBVIOUS
  <2>1. ServesByVerdict
    <3> SUFFICES ASSUME ~blurred PROVE Serves <=> verdict = "approved" /\ ~advisor.suspended
      BY DEF ServesByVerdict
    <3>1. StandingFits
      BY DEF AccountInv
    <3> QED BY <3>1 DEF StandingFits, Serves, MayCall, Onboarding
  <2>2. AwaitingInQueue
    BY DEF AccountInv, Awaited, AwaitingInQueue, InQueue
  <2> QED BY <2>1, <2>2 DEF StatusHonest
<1> QED BY <1>1, AccountSpecInv, PTL

-----------------------------------------------------------------------------
(* Who is shown to whom                                                       *)

\* A suspension and the flag of a suspended seeker are written together, and read together.
SeatFits ==
    /\ seat.suspended <=> ~seat.active
    /\ \A p \in Clerks :
          keeping[p].op \in {"suspend", "reactivate"} => (keeping[p].seat.suspended <=> ~keeping[p].seat.active)

\* As long as no verdict was given the status says that a suspension is in force.
SuspensionShown == ~blurred /\ verdict = "none" /\ advisor.suspended => advisor.status = "suspended"

DirectoryInv == AccountInv /\ DirectoryTypeOK /\ DOMAIN keeping = Clerks /\ SeatFits /\ SuspensionShown

LEMMA DirectoryInitInv == DirectoryInit => DirectoryInv
<1> SUFFICES ASSUME DirectoryInit PROVE DirectoryInv
  OBVIOUS
<1>1. AccountInv /\ AccountTypeOK
  BY AccountInitInv DEF DirectoryInit, AccountInv
<1>2. card \in Card /\ ~card.slug /\ ~card.featured /\ card.connected = {}
  BY DEF DirectoryInit, Card
<1>3. seat \in Seat /\ bookmark \in Mark /\ suggested \in BOOLEAN /\ proven = {}
  BY DEF DirectoryInit, Seat, Mark
<1>4. DOMAIN keeping = Clerks /\ \A p \in Clerks : keeping[p] = NotKeeping
  BY DEF DirectoryInit
<1>5. DirectoryTypeOK
  BY <1>1, <1>2, <1>3, <1>4 DEF DirectoryTypeOK
<1>6. SeatFits
  BY <1>4 DEF SeatFits, DirectoryInit, NotKeeping
<1>7. SuspensionShown
  BY DEF SuspensionShown, DirectoryInit, AccountInit, NewAdvisor
<1> QED BY <1>1, <1>4, <1>5, <1>6, <1>7 DEF DirectoryInv

\* What the seeker's side has read is left alone.
LEMMA SeatInv ==
    ASSUME DirectoryInv, UNCHANGED <<seat, keeping>>
    PROVE  SeatFits' /\ (\A p \in Clerks : (keeping[p] = NotKeeping \/ keeping[p] \in Keeping)')
           /\ DOMAIN keeping' = Clerks /\ seat' \in Seat
BY DEF DirectoryInv, SeatFits, DirectoryTypeOK

\* A change of the account by one of its requests
LEMMA AccountPartInv ==
    ASSUME DirectoryInv, AccountNext, UNCHANGED <<seat, bookmark, suggested, keeping>>,
           card' \in Card, ~card'.there => ~card'.slug /\ ~card'.featured /\ card'.connected = {},
           proven' \subseteq {"advisor", "seeker"}, SuspensionShown'
    PROVE  DirectoryInv'
<1>1. AccountInv'
  BY AccountNextInv DEF DirectoryInv
<1>2. AccountTypeOK' /\ UNCHANGED <<bookmark, suggested>>
  BY <1>1 DEF AccountInv
<1>3. bookmark' \in Mark /\ suggested' \in BOOLEAN
  BY <1>2 DEF DirectoryInv, DirectoryTypeOK
<1> QED BY <1>1, <1>2, <1>3, SeatInv DEF DirectoryInv, DirectoryTypeOK

\* The requests of the account keep the status that a suspension has given.
LEMMA SuspensionKept ==
    ASSUME DirectoryInv, NEW p \in Clerks, AdminCommit(p) \/ OnboardCommit(p)
    PROVE  SuspensionShown'
<1>1. task[p] \in Task /\ advisor \in Advisor /\ task[p].seen \in Advisor
  BY DEF DirectoryInv, AccountInv, AccountTypeOK, Task
<1>2. SUFFICES ASSUME ~blurred', verdict' = "none", advisor'.suspended
               PROVE  advisor'.status = "suspended"
  BY DEF SuspensionShown
<1>3. advisor = task[p].seen
  BY <1>2 DEF AdminCommit, OnboardCommit, Blurs
<1>4. CASE AdminCommit(p)
  <2> DEFINE op == task[p].op
  <2>1. op \in {"suspend", "reactivate"}
    BY <1>2, <1>4 DEF AdminCommit, Verdicts, AccountOps
  <2>2. AccountAfter(op, advisor) \in Advisor
    BY <1>1, <2>1, AfterType DEF Changes, AccountOps
  <2>3. advisor' = AccountAfter(op, advisor)
    BY <1>1, <1>3, <1>4, <2>2, FlushAdvisor DEF AdminCommit
  <2> QED BY <2>1, <2>3, <1>2, AfterForms
<1>5. CASE OnboardCommit(p)
  <2>1. AccountAfter("onboard", advisor) \in Advisor
    BY <1>1, AfterType DEF Changes
  <2>2. advisor' = AccountAfter("onboard", advisor)
    BY <1>1, <1>3, <1>5, <2>1, FlushAdvisor DEF OnboardCommit
  <2>3. ~blurred /\ verdict = "none"
    BY <1>2, <1>5 DEF OnboardCommit
  <2>4. AccountAfter("onboard", advisor) = IF advisor.status \in {"pending", "rejected"}
           THEN [advisor EXCEPT !.status = "under_review", !.active = TRUE] ELSE advisor
    BY DEF AccountAfter, Verdicts, Reopens
  <2>5. advisor.suspended /\ (advisor.status \in {"pending", "rejected"} \/ advisor' = advisor)
    BY <1>1, <1>2, <2>2, <2>4 DEF Advisor
  <2>6. advisor.status = "suspended"
    BY <2>3, <2>5 DEF DirectoryInv, SuspensionShown
  <2> QED BY <2>5, <2>6
<1> QED BY <1>4, <1>5

\* Every step of AccountWork preserves the inductive invariant.
LEMMA AccountWorkInv ==
    ASSUME DirectoryInv, AccountWork, UNCHANGED <<seat, bookmark, suggested, keeping>>
    PROVE  DirectoryInv'
<1>1. card \in Card /\ proven \subseteq {"advisor", "seeker"}
         /\ (~card.there => ~card.slug /\ ~card.featured /\ card.connected = {})
  BY DEF DirectoryInv, DirectoryTypeOK
<1>2. ASSUME NEW p \in Clerks, AdminCommit(p), UNCHANGED card,
             proven' = IF task[p].op = "verify" THEN proven \cup {"advisor"} ELSE proven
      PROVE  DirectoryInv'
  <2>1. AccountNext
    BY <1>2 DEF AccountNext
  <2> QED BY <1>1, <1>2, <2>1, SuspensionKept, AccountPartInv
<1>3. ASSUME NEW p \in Clerks, OnboardCommit(p), UNCHANGED proven,
             card' = [card EXCEPT !.there = TRUE, !.slug = TRUE]
      PROVE  DirectoryInv'
  <2>1. AccountNext
    BY <1>3 DEF AccountNext
  <2>2. card' \in Card /\ card'.there
    BY <1>1, <1>3 DEF Card
  <2> QED BY <1>1, <1>3, <2>1, <2>2, SuspensionKept, AccountPartInv
<1>4. ASSUME AccountNext, UNCHANGED <<card, proven, advisor, verdict, blurred>> PROVE DirectoryInv'
  <2>1. SuspensionShown'
    BY <1>4 DEF SuspensionShown, DirectoryInv
  <2> QED BY <1>1, <1>4, <2>1, AccountPartInv
<1>5. ASSUME UNCHANGED <<card, proven>>,
             \/ \E p \in Clerks :
                  \/ \E op \in TaskOp : AdminReads(p, op)
                  \/ \E d \in Credentials, s \in CredentialStatus : ReadCredential(p, d, s)
                  \/ \E d \in Credentials : CreateCredential(p, d)
                  \/ Onboard(p) \/ ListCredentials(p) \/ ReviewCommit(p) \/ AccountRollBack(p)
             \/ \E d \in Credentials : DeleteCredential(d)
      PROVE  DirectoryInv'
  <2>1. AccountNext
    BY <1>5 DEF AccountNext
  <2>2. UNCHANGED <<advisor, verdict, blurred>>
    BY <1>5 DEF AdminReads, ReadCredential, CreateCredential, Onboard, ListCredentials, ReviewCommit,
                AccountRollBack, DeleteCredential, Take, remembered
  <2> QED BY <1>4, <1>5, <2>1, <2>2
<1> QED BY <1>2, <1>3, <1>5 DEF AccountWork

\* What leaves the account and the seeker's side as they are
LEMMA CardsInv ==
    ASSUME DirectoryInv, UNCHANGED <<accountVars, seat, keeping>>,
           card' \in Card, ~card'.there => ~card'.slug /\ ~card'.featured /\ card'.connected = {},
           proven' \subseteq {"advisor", "seeker"}, bookmark' \in Mark, suggested' \in BOOLEAN
    PROVE  DirectoryInv'
<1>1. AccountInv'
  BY AccountNextInv DEF DirectoryInv
<1>2. AccountTypeOK' /\ SuspensionShown'
  BY <1>1 DEF AccountInv, DirectoryInv, SuspensionShown, accountVars, remembered
<1> QED BY <1>1, <1>2, SeatInv DEF DirectoryInv, DirectoryTypeOK

\* What a request on the seeker's side does to the seeker's account and to what was read of it
LEMMA KeepingInv ==
    ASSUME DirectoryInv, UNCHANGED <<accountVars, card, proven, suggested>>, NEW p \in Clerks, NEW row,
           keeping' = [keeping EXCEPT ![p] = row], row = NotKeeping \/ row \in Keeping,
           row.op \in {"suspend", "reactivate"} => (row.seat.suspended <=> ~row.seat.active),
           seat' \in Seat, seat'.suspended <=> ~seat'.active, bookmark' \in Mark
    PROVE  DirectoryInv'
<1>1. AccountInv'
  BY AccountNextInv DEF DirectoryInv
<1>2. AccountTypeOK' /\ SuspensionShown'
  BY <1>1 DEF AccountInv, DirectoryInv, SuspensionShown, accountVars, remembered
<1>3. DOMAIN keeping' = Clerks /\ keeping'[p] = row /\ \A q \in Clerks \ {p} : keeping'[q] = keeping[q]
  BY DEF DirectoryInv
<1>4. SeatFits'
  <2>1. ASSUME NEW q \in Clerks, keeping'[q].op \in {"suspend", "reactivate"}
        PROVE  keeping'[q].seat.suspended <=> ~keeping'[q].seat.active
    BY <1>3, <2>1 DEF DirectoryInv, SeatFits
  <2> QED BY <2>1 DEF SeatFits
<1>5. \A q \in Clerks : keeping'[q] = NotKeeping \/ keeping'[q] \in Keeping
  BY <1>3 DEF DirectoryInv, DirectoryTypeOK
<1>6. DirectoryTypeOK'
  BY <1>2, <1>5 DEF DirectoryInv, DirectoryTypeOK
<1> QED BY <1>1, <1>2, <1>3, <1>4, <1>6 DEF DirectoryInv

\* The inductive invariant is one.
LEMMA DirectoryNextInv == DirectoryInv /\ [DirectoryNext]_directoryVars => DirectoryInv'
<1> SUFFICES ASSUME DirectoryInv, [DirectoryNext]_directoryVars PROVE DirectoryInv'
  OBVIOUS
<1>1. /\ card \in Card /\ proven \subseteq {"advisor", "seeker"} /\ seat \in Seat
      /\ bookmark \in Mark /\ suggested \in BOOLEAN
      /\ (~card.there => ~card.slug /\ ~card.featured /\ card.connected = {})
  BY DEF DirectoryInv, DirectoryTypeOK
<1>2. ASSUME NEW new \in Card, CardTo(new),
             ~new.there => ~new.slug /\ ~new.featured /\ new.connected = {}
      PROVE  DirectoryInv'
  BY <1>1, <1>2, CardsInv DEF CardTo
<1>3. CASE EditProfile
  BY <1>1, <1>2, <1>3 DEF EditProfile, Card
<1>4. ASSUME NEW c \in Connections, Connect(c) \/ Disconnect(c) PROVE DirectoryInv'
  BY <1>1, <1>2, <1>4 DEF Connect, Disconnect, Card
<1>5. ASSUME NEW flag \in BOOLEAN, Feature(flag) PROVE DirectoryInv'
  BY <1>1, <1>2, <1>5 DEF Feature, Card
<1>6. ASSUME NEW who \in {"advisor", "seeker"}, ConfirmAddress(who) \/ Unverify(who) PROVE DirectoryInv'
  BY <1>1, <1>6, CardsInv DEF ConfirmAddress, Unverify
<1>7. CASE Suggest \/ ForgetSuggestion
  <2>1. OnMarket \in BOOLEAN
    BY DEF OnMarket, IntegrationsReady
  <2> QED BY <1>1, <1>7, <2>1, CardsInv DEF Suggest, ForgetSuggestion
<1>8. ASSUME NEW p \in Clerks, NEW op \in {"suspend", "reactivate", "mark", "unmark"}, Keep(p, op)
      PROVE  DirectoryInv'
  <2> DEFINE row == [op |-> op, seat |-> seat, found |-> bookmark]
  <2>1. row \in Keeping /\ row.seat = seat
    BY <1>1 DEF Keeping
  <2>2. seat.suspended <=> ~seat.active
    BY DEF DirectoryInv, SeatFits
  <2>3. keeping' = [keeping EXCEPT ![p] = row] /\ UNCHANGED <<accountVars, card, proven, seat, bookmark, suggested>>
    BY <1>8 DEF Keep
  <2> HIDE DEF row
  <2> QED BY <1>1, <2>1, <2>2, <2>3, KeepingInv
<1>9. ASSUME NEW p \in Clerks, SeatCommit(p) PROVE DirectoryInv'
  <2>1. keeping[p] # NotKeeping
    BY <1>9 DEF SeatCommit, NotKeeping
  <2>2. keeping[p] \in Keeping
    BY <2>1 DEF DirectoryInv, DirectoryTypeOK
  <2>3. keeping[p].seat \in Seat
    BY <2>2 DEF Keeping
  <2>4. (keeping[p].seat.suspended <=> ~keeping[p].seat.active) /\ (seat.suspended <=> ~seat.active)
    BY <1>9 DEF SeatCommit, DirectoryInv, SeatFits
  <2>5. seat' \in Seat /\ (seat'.suspended <=> ~seat'.active)
    BY <1>1, <1>9, <2>3, <2>4 DEF SeatCommit, Flush, Seat, SeatAfter
  <2>6. NotKeeping.op \notin {"suspend", "reactivate"}
    BY DEF NotKeeping
  <2> QED BY <1>1, <1>9, <2>5, <2>6, KeepingInv DEF SeatCommit
<1>10. ASSUME NEW p \in Clerks, MarkCommit(p) \/ KeepRollBack(p) PROVE DirectoryInv'
  <2>1. seat.suspended <=> ~seat.active
    BY DEF DirectoryInv, SeatFits
  <2>2. NotKeeping.op \notin {"suspend", "reactivate"}
    BY DEF NotKeeping
  <2>3. bookmark' \in Mark
    BY <1>1, <1>10 DEF MarkCommit, KeepRollBack, Mark
  <2> QED BY <1>1, <1>10, <2>1, <2>2, <2>3, KeepingInv DEF MarkCommit, KeepRollBack
<1>11. CASE UNCHANGED directoryVars
  BY <1>1, <1>11, CardsInv DEF directoryVars, shelf
<1> QED BY <1>3, <1>4, <1>5, <1>6, <1>7, <1>8, <1>9, <1>10, <1>11, AccountWorkInv DEF DirectoryNext

\* What the inductive invariant says of the lists
LEMMA DirectorySays == DirectoryInv => DirectoryTrue
<1> SUFFICES ASSUME DirectoryInv PROVE DirectoryTrue
  OBVIOUS
<1>1. StandingFits /\ Awaited /\ SuspensionShown /\ advisor \in Advisor /\ seat \in Seat
      /\ (seat.suspended <=> ~seat.active)
  BY DEF DirectoryInv, AccountInv, AccountTypeOK, DirectoryTypeOK, SeatFits
<1>2. ListedOpens
  BY DEF ListedOpens, ListedFeatured, ListedRecommended, Bookmarkable, OnMarket, ProfileOpens, SlugOpens,
         ListingCard, Serves, MayCall
<1>3. SuspendedHidden
  <2> SUFFICES ASSUME ~blurred
               PROVE  /\ advisor.suspended => ~OnMarket /\ ~Bookmarkable /\ BookmarkStatus = "inactive"
                      /\ OnMarket => BookmarkStatus = "active" /\ AccountStatus("advisor") # "suspended"
    BY DEF SuspendedHidden
  <2>1. advisor.status = "approved" => advisor.active /\ ~advisor.suspended
    BY <1>1 DEF StandingFits
  <2>2. OnMarket => AccountStatus("advisor") # "suspended"
    BY <2>1 DEF OnMarket, AccountStatus
  <2> QED BY <2>1, <2>2 DEF OnMarket, Bookmarkable, BookmarkStatus
<1>4. BookmarksTrue
  BY DEF BookmarksTrue, OnMarket, ListingCard, ListedBookmark, is_bookmarked, BookmarkStatus, ProfileOpens
<1>5. FiltersTrue
  <2>1. \A who \in {"advisor", "seeker"}, s \in {"suspended", "unverified", "verified"} :
           who \in UsersWith(s) <=> AccountStatus(who) = s
    <3>1. "advisor" \in UsersWith("suspended") <=> AccountStatus("advisor") = "suspended"
      BY DEF UsersWith, AccountStatus
    <3>2. "advisor" \in UsersWith("unverified") <=> AccountStatus("advisor") = "unverified"
      BY DEF UsersWith, AccountStatus
    <3>3. "advisor" \in UsersWith("verified") <=> AccountStatus("advisor") = "verified"
      BY DEF UsersWith, AccountStatus
    <3>4. "seeker" \in UsersWith("suspended") <=> AccountStatus("seeker") = "suspended"
      BY DEF UsersWith, AccountStatus
    <3>5. "seeker" \in UsersWith("unverified") <=> AccountStatus("seeker") = "unverified"
      BY DEF UsersWith, AccountStatus
    <3>6. "seeker" \in UsersWith("verified") <=> AccountStatus("seeker") = "verified"
      BY DEF UsersWith, AccountStatus
    <3> QED BY <3>1, <3>2, <3>3, <3>4, <3>5, <3>6
  <2>2. \A s \in {"suspended", "unverified", "verified"} : SeekersWith(s) <=> AccountStatus("seeker") = s
    BY <1>1 DEF SeekersWith, AccountStatus
  <2>3. ~blurred /\ ~AdvisorsWith(DisplayStatus) => verdict \notin {"approved", "none"}
    BY <1>1 DEF StandingFits, SuspensionShown, AdvisorsWith, DisplayStatus
  <2> QED BY <1>1, <2>1, <2>2, <2>3 DEF FiltersTrue
<1>6. QueueTrue
  <2> DEFINE waiting == {d \in Credentials : credential[d] = "pending"}
             detail  == {d \in Credentials \ archived : credential[d] = "pending"}
  <2>1. IsFiniteSet(waiting) /\ IsFiniteSet(detail) /\ detail \subseteq waiting
    BY PaperAssumption, FS_Subset
  <2>2. Cardinality(detail) <= Cardinality(waiting) /\ Cardinality(waiting) \in Nat
    BY <2>1, FS_Subset, FS_CardinalityType
  <2>3. ASSUME InQueue PROVE QueueRow > 0
    <3>1. waiting # {}
      BY <2>3 DEF InQueue
    <3>2. Cardinality(waiting) # 0
      BY <2>1, <3>1, FS_EmptySet
    <3> QED BY <2>2, <3>2 DEF QueueRow
  <2>4. archived = {} => detail = waiting
    OBVIOUS
  <2>5. DetailPending = Cardinality(detail) /\ QueueRow = Cardinality(waiting)
    BY DEF DetailPending, QueueRow
  <2>6. advisor.status # "rejected" => (MayImpersonate <=> MayCall)
    BY DEF MayImpersonate, MayCall
  <2> HIDE DEF waiting, detail
  <2> QED BY <2>2, <2>3, <2>4, <2>5, <2>6 DEF QueueTrue
<1> QED BY <1>2, <1>3, <1>4, <1>5, <1>6 DEF DirectoryTrue

\* advisor_search_service, user_admin_service: the marketplace, the bookmarks and the lists of
\* the administrators say of an account the same, however the requests on it interleave.
THEOREM DirectoryIsTrue == DirectorySpec => []DirectoryTrue
<1>1. DirectorySpec => []DirectoryInv
  BY DirectoryInitInv, DirectoryNextInv, PTL DEF DirectorySpec
<1> QED BY <1>1, DirectorySays, PTL

-----------------------------------------------------------------------------
(* Sequences of tokens                                                        *)

\* What Among leaves of the first n tokens
Left(tokens, some, m, g) ==
    g = [n \in 0 .. m |-> IF n = 0 THEN <<>>
                          ELSE IF tokens[n] \in some THEN Append(g[n - 1], tokens[n]) ELSE g[n - 1]]

\* There is such a function, however many tokens there are.
LEMMA LeftExists ==
    ASSUME NEW tokens \in Seq(Devices), NEW some
    PROVE  \E g : Left(tokens, some, Len(tokens), g)
<1> DEFINE without == {m \in Nat : m <= Len(tokens) /\ ~\E g : Left(tokens, some, m, g)}
<1> SUFFICES ASSUME without # {} PROVE FALSE
  <2>1. Len(tokens) \in Nat /\ Len(tokens) <= Len(tokens)
    OBVIOUS
  <2>2. Len(tokens) \notin without => \E g : Left(tokens, some, Len(tokens), g)
    BY <2>1
  <2> HIDE DEF without
  <2> QED BY <2>2
<1>1. without \in SUBSET Nat
  OBVIOUS
<1>2. PICK m \in without : \A k \in without : m <= k
  BY <1>1, Least
<1>3. m \in Nat /\ m <= Len(tokens) /\ ~\E g : Left(tokens, some, m, g)
  OBVIOUS
<1>4. CASE m = 0
  <2>1. Left(tokens, some, 0, [n \in 0 .. 0 |-> <<>>])
    BY DEF Left
  <2> QED BY <1>3, <1>4, <2>1
<1>5. CASE m # 0
  <2>1. m - 1 \in Nat /\ m - 1 <= Len(tokens) /\ ~(m <= m - 1)
    BY <1>3, <1>5
  <2>2. m - 1 \notin without
    BY <1>2, <2>1
  <2>3. PICK g : Left(tokens, some, m - 1, g)
    BY <2>1, <2>2
  <2> DEFINE last == IF tokens[m] \in some THEN Append(g[m - 1], tokens[m]) ELSE g[m - 1]
             h == [n \in 0 .. m |-> IF n = m THEN last ELSE g[n]]
  <2>4. \A n \in 0 .. m - 1 : h[n] = g[n] /\ n \in 0 .. m
    BY <1>3
  <2>5. ASSUME NEW n \in 0 .. m
        PROVE  h[n] = IF n = 0 THEN <<>>
                      ELSE IF tokens[n] \in some THEN Append(h[n - 1], tokens[n]) ELSE h[n - 1]
    <3>1. CASE n = m
      <4>1. h[n] = last /\ n - 1 \in 0 .. m - 1 /\ n # 0
        BY <1>3, <1>5, <3>1
      <4>2. h[n - 1] = g[m - 1]
        BY <2>4, <3>1, <4>1
      <4> HIDE DEF h
      <4> QED BY <3>1, <4>1, <4>2
    <3>2. CASE n # m
      <4>1. n \in 0 .. m - 1 /\ h[n] = g[n]
        BY <1>3, <2>4, <3>2
      <4>2. g[n] = IF n = 0 THEN <<>>
                   ELSE IF tokens[n] \in some THEN Append(g[n - 1], tokens[n]) ELSE g[n - 1]
        BY <2>3, <4>1 DEF Left
      <4>3. n # 0 => h[n - 1] = g[n - 1]
        <5>1. n # 0 => n - 1 \in 0 .. m - 1
          BY <1>3, <4>1
        <5> QED BY <2>4, <5>1
      <4> HIDE DEF h
      <4> QED BY <4>1, <4>2, <4>3
    <3> QED BY <3>1, <3>2
  <2>6. h = [n \in 0 .. m |-> h[n]]
    OBVIOUS
  <2> HIDE DEF h
  <2>7. Left(tokens, some, m, h)
    BY <2>5, <2>6 DEF Left
  <2> QED BY <1>3, <2>7
<1> QED BY <1>4, <1>5

LEMMA OneMore == ASSUME NEW k \in Nat PROVE \A l : l \in 1 .. k + 1 <=> l \in 1 .. k \/ l = k + 1
OBVIOUS

\* Among leaves the tokens that are meant, and no others, each where it was.
LEMMA AmongType ==
    ASSUME NEW tokens \in Seq(Devices), NEW some
    PROVE  /\ Among(tokens, some) \in Seq(Devices)
           /\ ToSet(Among(tokens, some)) = ToSet(tokens) \cap some
           /\ IsInjective(tokens) => IsInjective(Among(tokens, some))
<1> DEFINE g == CHOOSE f : Left(tokens, some, Len(tokens), f)
<1>1. Left(tokens, some, Len(tokens), g)
  BY LeftExists
<1>2. Among(tokens, some) = g[Len(tokens)]
  BY DEF Among, Left
<1> HIDE DEF g
<1> DEFINE said(n) == /\ g[n] \in Seq(Devices)
                      /\ \A d : (\E i \in 1 .. Len(g[n]) : g[n][i] = d) <=>
                                  d \in some /\ \E i \in 1 .. n : tokens[i] = d
                      /\ IsInjective(tokens) =>
                            \A i, j \in 1 .. Len(g[n]) : g[n][i] = g[n][j] => i = j
           wrong == {n \in Nat : n <= Len(tokens) /\ ~said(n)}
<1>3. ASSUME wrong # {} PROVE FALSE
  <2>1. wrong \in SUBSET Nat
    OBVIOUS
  <2>2. PICK m \in wrong : \A k \in wrong : m <= k
    BY <1>3, <2>1, Least
  <2>3. m \in Nat /\ m <= Len(tokens) /\ ~said(m) /\ m \in 0 .. Len(tokens)
    <3> HIDE DEF said
    <3> QED OBVIOUS
  <2>4. m # 0
    <3>1. g[0] = <<>>
      BY <1>1 DEF Left
    <3>2. said(0)
      BY <3>1
    <3> HIDE DEF said
    <3> QED BY <2>3, <3>2
  <2>5. said(m - 1) /\ m - 1 \in Nat
    <3>1. m - 1 \in Nat /\ m - 1 <= Len(tokens) /\ ~(m <= m - 1)
      BY <2>3, <2>4
    <3> HIDE DEF said
    <3> QED BY <2>2, <3>1
  <2>6. /\ m \in 1 .. Len(tokens) /\ tokens[m] \in Devices
        /\ g[m] = IF tokens[m] \in some THEN Append(g[m - 1], tokens[m]) ELSE g[m - 1]
    <3>1. m \in 1 .. Len(tokens)
      BY <2>3, <2>4
    <3>2. tokens[m] \in Devices
      BY <3>1
    <3> QED BY <1>1, <2>3, <2>4, <3>1, <3>2 DEF Left
  <2>7. \A d : (\E i \in 1 .. m : tokens[i] = d) <=> (\E i \in 1 .. m - 1 : tokens[i] = d) \/ tokens[m] = d
    BY <2>3, <2>4, <2>5
  <2>8. PICK s \in Seq(Devices) : s = g[m - 1]
    BY <2>5
  <2>9. CASE tokens[m] \in some
    <3>1. /\ Append(s, tokens[m]) \in Seq(Devices) /\ Len(Append(s, tokens[m])) = Len(s) + 1
          /\ Append(s, tokens[m])[Len(s) + 1] = tokens[m]
          /\ \A i \in 1 .. Len(s) : Append(s, tokens[m])[i] = s[i]
      BY <2>6, AppendProperties
    <3>2. PICK r : r = g[m]
      OBVIOUS
    <3>3. /\ r \in Seq(Devices) /\ Len(r) = Len(s) + 1 /\ r[Len(s) + 1] = tokens[m]
          /\ \A i \in 1 .. Len(s) : r[i] = s[i]
      <4>1. r = Append(s, tokens[m])
        BY <2>6, <2>8, <2>9, <3>2
      <4> QED BY <3>1, <4>1
    <3>4. Len(s) \in Nat
      OBVIOUS
    <3>5. \A d : (\E i \in 1 .. Len(r) : r[i] = d) <=> (\E i \in 1 .. Len(s) : s[i] = d) \/ d = tokens[m]
      <4>1. PICK k \in Nat : k = Len(s)
        BY <3>4
      <4>2. \A i : i \in 1 .. k + 1 <=> i \in 1 .. k \/ i = k + 1
        OBVIOUS
      <4>3. ASSUME NEW d
            PROVE  (\E i \in 1 .. k + 1 : r[i] = d) <=> (\E i \in 1 .. k : s[i] = d) \/ d = tokens[m]
        BY <3>3, <4>1, <4>2
      <4> QED BY <3>3, <4>1, <4>3
    <3>6. \A d : (\E i \in 1 .. Len(s) : s[i] = d) <=> d \in some /\ \E i \in 1 .. m - 1 : tokens[i] = d
      BY <2>5, <2>8
    <3>7. \A d : (\E i \in 1 .. Len(r) : r[i] = d) <=> d \in some /\ \E i \in 1 .. m : tokens[i] = d
      BY <2>7, <2>9, <3>5, <3>6
    <3>9. ASSUME IsInjective(tokens), NEW i \in 1 .. Len(r), NEW j \in 1 .. Len(r), r[i] = r[j] PROVE i = j
      <4>1. PICK k \in Nat : k = Len(s)
        BY <3>4
      <4>2. \A l : l \in 1 .. k + 1 <=> l \in 1 .. k \/ l = k + 1
        BY OneMore
      <4>3. ASSUME NEW l \in 1 .. k PROVE s[l] # tokens[m]
        <5>1. PICK n \in 1 .. m - 1 : tokens[n] = s[l]
          BY <3>6, <4>1
        <5>2. n \in DOMAIN tokens /\ m \in DOMAIN tokens /\ n # m
          <6>1. DOMAIN tokens = 1 .. Len(tokens) /\ Len(tokens) \in Nat
            OBVIOUS
          <6>2. n \in 1 .. Len(tokens) /\ n # m
            BY <2>3, <6>1
          <6> QED BY <2>6, <6>1, <6>2
        <5> QED BY <3>9, <5>1, <5>2 DEF IsInjective
      <4>4. \A l, n \in 1 .. k : s[l] = s[n] => l = n
        BY <2>5, <2>8, <3>9, <4>1
      <4>5. (i \in 1 .. k \/ i = k + 1) /\ (j \in 1 .. k \/ j = k + 1)
        BY <3>3, <4>1, <4>2
      <4> QED BY <3>3, <3>9, <4>1, <4>3, <4>4, <4>5
    <3>8. said(m)
      BY <3>2, <3>3, <3>7, <3>9
    <3> QED BY <2>3, <3>8
  <2>10. CASE tokens[m] \notin some
    <3>1. s = g[m] /\ s \in Seq(Devices)
      BY <2>6, <2>8, <2>10
    <3>2. \A d : (\E i \in 1 .. Len(s) : s[i] = d) <=> d \in some /\ \E i \in 1 .. m - 1 : tokens[i] = d
      BY <2>5, <2>8
    <3>3. \A d : (\E i \in 1 .. Len(s) : s[i] = d) <=> d \in some /\ \E i \in 1 .. m : tokens[i] = d
      BY <2>7, <2>10, <3>2
    <3>4. IsInjective(tokens) => \A i, j \in 1 .. Len(s) : s[i] = s[j] => i = j
      BY <2>5, <2>8
    <3>5. said(m)
      BY <3>1, <3>3, <3>4
    <3> QED BY <2>3, <3>5
  <2> QED BY <2>9, <2>10
<1>4. Len(tokens) \in Nat /\ Len(tokens) <= Len(tokens)
  OBVIOUS
<1>5. said(Len(tokens))
  <2> HIDE DEF said
  <2> QED BY <1>3, <1>4
<1>6. PICK s \in Seq(Devices) : s = Among(tokens, some)
  BY <1>2, <1>5
<1>7. \A d : (\E i \in 1 .. Len(s) : s[i] = d) <=> d \in some /\ \E i \in 1 .. Len(tokens) : tokens[i] = d
  BY <1>2, <1>5, <1>6
<1>8. DOMAIN s = 1 .. Len(s) /\ DOMAIN tokens = 1 .. Len(tokens)
  OBVIOUS
<1>9. ToSet(s) = ToSet(tokens) \cap some
  BY <1>7, <1>8 DEF ToSet
<1>10. IsInjective(tokens) => IsInjective(s)
  BY <1>2, <1>5, <1>6, <1>8 DEF IsInjective
<1> QED BY <1>6, <1>9, <1>10

\* A token that is appended is added.
LEMMA AppendToSet ==
    ASSUME NEW tokens \in Seq(Devices), NEW d \in Devices
    PROVE  /\ Append(tokens, d) \in Seq(Devices)
           /\ ToSet(Append(tokens, d)) = ToSet(tokens) \cup {d}
           /\ IsInjective(tokens) /\ d \notin ToSet(tokens) => IsInjective(Append(tokens, d))
<1>1. /\ Append(tokens, d) \in Seq(Devices) /\ Len(Append(tokens, d)) = Len(tokens) + 1
      /\ Append(tokens, d)[Len(tokens) + 1] = d
      /\ \A i \in 1 .. Len(tokens) : Append(tokens, d)[i] = tokens[i]
  BY AppendProperties
<1>2. PICK s \in Seq(Devices) : s = Append(tokens, d)
  BY <1>1
<1>3. DOMAIN s = 1 .. Len(s) /\ DOMAIN tokens = 1 .. Len(tokens) /\ Len(tokens) \in Nat
  OBVIOUS
<1>4. Len(s) = Len(tokens) + 1 /\ s[Len(tokens) + 1] = d /\ \A i \in 1 .. Len(tokens) : s[i] = tokens[i]
  BY <1>1, <1>2
<1>5. ToSet(s) = ToSet(tokens) \cup {d}
  BY <1>3, <1>4 DEF ToSet
<1>6. ASSUME IsInjective(tokens), d \notin ToSet(tokens), NEW i \in DOMAIN s, NEW j \in DOMAIN s, s[i] = s[j]
      PROVE  i = j
  <2>1. PICK k \in Nat : k = Len(tokens)
    BY <1>3, Zenon
  <2>2. \A l \in 1 .. k : tokens[l] # d
    BY <1>3, <1>6, <2>1 DEF ToSet
  <2>3. (i \in 1 .. k \/ i = k + 1) /\ (j \in 1 .. k \/ j = k + 1)
    BY <1>3, <1>4, <2>1
  <2>4. \A l, n \in 1 .. k : tokens[l] = tokens[n] => l = n
    BY <1>3, <1>6, <2>1 DEF IsInjective
  <2> QED BY <1>4, <1>6, <2>1, <2>2, <2>3, <2>4
<1>7. IsInjective(tokens) /\ d \notin ToSet(tokens) => IsInjective(s)
  BY <1>6 DEF IsInjective
<1> QED BY <1>1, <1>2, <1>5, <1>7

\* Reversed, the tokens are the same.
LEMMA ReverseType ==
    ASSUME NEW tokens \in Seq(Devices)
    PROVE  Reverse(tokens) \in Seq(Devices) /\ ToSet(Reverse(tokens)) = ToSet(tokens)
<1>1. /\ Len(tokens) \in Nat /\ DOMAIN tokens = 1 .. Len(tokens)
      /\ \A i \in 1 .. Len(tokens) : (Len(tokens) - i) + 1 \in 1 .. Len(tokens)
  OBVIOUS
<1> DEFINE back == [i \in 1 .. Len(tokens) |-> tokens[(Len(tokens) - i) + 1]]
<1>2. back \in Seq(Devices) /\ DOMAIN back = 1 .. Len(tokens)
  BY <1>1
<1>3. Reverse(tokens) = back
  BY DEF Reverse
<1>4. ASSUME NEW i \in 1 .. Len(tokens)
      PROVE  back[(Len(tokens) - i) + 1] = tokens[i] /\ back[i] = tokens[(Len(tokens) - i) + 1]
  <2>1. (Len(tokens) - ((Len(tokens) - i) + 1)) + 1 = i
    BY <1>1
  <2> QED BY <1>1, <2>1
<1> HIDE DEF back
<1>5. ToSet(back) = ToSet(tokens)
  BY <1>1, <1>2, <1>4 DEF ToSet
<1> QED BY <1>2, <1>3, <1>5

-----------------------------------------------------------------------------
(* The devices of an account                                                  *)

\* A registration of a new token beside no other knows all the devices that count.
ListedFit ==
    \A v \in Registrations : visit[v].op = "register" /\ ~visit[v].known /\ ~visit[v].beside =>
        DevicesOf(visit[v].user) \ spared \subseteq ToSet(visit[v].listed)

DeviceInv ==
    /\ owner \in [Devices -> Owners \cup {Nobody}]
    /\ seenLast \in Seq(Devices)
    /\ ToSet(seenLast) = {d \in Devices : owner[d] # Nobody}
    /\ DOMAIN visit = Registrations
    /\ \A v \in Registrations : visit[v] = Idle \/ visit[v] \in Visit
    /\ ListedFit /\ DeviceLimit

\* The first n tokens are at most n.
LEMMA FirstTokens ==
    ASSUME NEW tokens \in Seq(Devices), NEW n \in Nat, n <= Len(tokens)
    PROVE  /\ IsFiniteSet({tokens[i] : i \in 1 .. n})
           /\ Cardinality({tokens[i] : i \in 1 .. n}) <= n
<1> DEFINE T == {tokens[i] : i \in 1 .. n}
           f == [i \in 1 .. n |-> tokens[i]]
<1>1. f \in Surjection(1 .. n, T)
  BY DEF Surjection
<1>2. IsFiniteSet(1 .. n) /\ Cardinality(1 .. n) = n
  BY FS_Interval
<1> HIDE DEF f, T
<1>3. IsFiniteSet(T) /\ Cardinality(T) <= n
  BY <1>1, <1>2, FS_Surjection
<1> QED BY <1>3 DEF T

\* There are finitely many tokens in a sequence.
LEMMA TokensFinite == ASSUME NEW tokens \in Seq(Devices) PROVE IsFiniteSet(ToSet(tokens))
<1>1. Len(tokens) \in Nat /\ DOMAIN tokens = 1 .. Len(tokens) /\ Len(tokens) <= Len(tokens)
  OBVIOUS
<1>2. ToSet(tokens) = {tokens[i] : i \in 1 .. Len(tokens)}
  BY <1>1 DEF ToSet
<1> QED BY <1>1, <1>2, FirstTokens

\* So an account has finitely many devices, and fewer once some are taken away.
LEMMA DevicesFinite == ASSUME DeviceInv, NEW u \in Owners PROVE IsFiniteSet(DevicesOf(u))
<1>1. IsFiniteSet(ToSet(seenLast))
  BY TokensFinite DEF DeviceInv
<1>2. DevicesOf(u) \subseteq ToSet(seenLast)
  BY OwnerAssumption DEF DeviceInv, DevicesOf
<1> QED BY <1>1, <1>2, FS_Subset

LEMMA FewerDevices ==
    ASSUME DeviceInv, NEW u \in Owners, NEW D \in SUBSET (DevicesOf(u) \ spared)
    PROVE  Cardinality(D) <= MaxDevices
<1>1. IsFiniteSet(DevicesOf(u) \ spared)
  BY DevicesFinite, FS_Subset
<1>2. /\ Cardinality(D) \in Nat /\ Cardinality(DevicesOf(u) \ spared) \in Nat
      /\ Cardinality(D) <= Cardinality(DevicesOf(u) \ spared)
  BY <1>1, FS_Subset, FS_CardinalityType
<1>3. Cardinality(DevicesOf(u) \ spared) <= MaxDevices
  BY DEF DeviceInv, DeviceLimit
<1> QED BY <1>2, <1>3, DeviceAssumption

\* Before the first registration the inductive invariant holds.
LEMMA DeviceInitInv == DeviceInit => DeviceInv
<1> SUFFICES ASSUME DeviceInit PROVE DeviceInv
  OBVIOUS
<1>1. /\ owner \in [Devices -> Owners \cup {Nobody}] /\ DOMAIN visit = Registrations
      /\ \A v \in Registrations : visit[v] = Idle \/ visit[v] \in Visit
  BY DEF DeviceInit
<1>2. seenLast \in Seq(Devices) /\ ToSet(seenLast) = {d \in Devices : owner[d] # Nobody}
  BY DEF DeviceInit, ToSet
<1>3. ListedFit
  BY DEF DeviceInit, ListedFit, Idle
<1>4. DeviceLimit
  <2> SUFFICES ASSUME NEW u \in Owners PROVE Cardinality(DevicesOf(u) \ spared) <= MaxDevices
    BY DEF DeviceLimit
  <2>1. DevicesOf(u) \ spared = {}
    BY OwnerAssumption DEF DeviceInit, DevicesOf
  <2>2. Cardinality({}) = 0
    BY FS_EmptySet
  <2> QED BY <2>1, <2>2, DeviceAssumption
<1> QED BY <1>1, <1>2, <1>3, <1>4 DEF DeviceInv

\* What gives no account a device that counts, and leaves or drops registrations
LEMMA ShrinkInv ==
    ASSUME DeviceInv, owner' \in [Devices -> Owners \cup {Nobody}], seenLast' \in Seq(Devices),
           ToSet(seenLast') = {d \in Devices : owner'[d] # Nobody},
           \A u \in Owners : DevicesOf(u)' \ spared' \subseteq DevicesOf(u) \ spared,
           DOMAIN visit' = Registrations,
           \A v \in Registrations :
              \/ visit'[v] = visit[v] \/ visit'[v] = Idle
              \/ /\ visit'[v] \in Visit
                 /\ visit'[v].op = "register" /\ ~visit'[v].known /\ ~visit'[v].beside =>
                       DevicesOf(visit'[v].user) \ spared \subseteq ToSet(visit'[v].listed)
    PROVE  DeviceInv'
<1>1. DeviceLimit'
  BY FewerDevices DEF DeviceLimit
<1>2. ListedFit'
  <2> SUFFICES ASSUME NEW v \in Registrations, visit'[v].op = "register", ~visit'[v].known,
                      ~visit'[v].beside
               PROVE  {d \in Devices : owner'[d] = visit'[v].user} \ spared'
                         \subseteq ToSet(visit'[v].listed)
    BY DEF ListedFit, DevicesOf
  <2>1. visit'[v] # Idle
    BY DEF Idle
  <2>2. visit'[v].user \in Owners
    BY <2>1 DEF DeviceInv, Visit
  <2>3. DevicesOf(visit'[v].user) \ spared \subseteq ToSet(visit'[v].listed)
    BY <2>1 DEF DeviceInv, ListedFit
  <2>4. PICK u \in Owners : u = visit'[v].user
    BY <2>2
  <2>5. DevicesOf(u)' = {d \in Devices : owner'[d] = visit'[v].user}
    BY <2>4 DEF DevicesOf
  <2> QED BY <2>3, <2>4, <2>5
<1>3. \A v \in Registrations : visit'[v] = Idle \/ visit'[v] \in Visit
  BY DEF DeviceInv
<1> QED BY <1>1, <1>2, <1>3 DEF DeviceInv

\* ReadDevices, ReadForPush, LeaveVisit
LEMMA VisitsInv ==
    ASSUME DeviceInv, NEW v \in Registrations,
           \/ \E d \in Devices, u \in Owners : ReadDevices(v, d, u)
           \/ \E d \in Devices : ReadForPush(v, d)
           \/ LeaveVisit(v)
    PROVE  DeviceInv'
<1>1. /\ UNCHANGED <<owner, seenLast, spared>>
      /\ DOMAIN visit' = Registrations /\ \A w \in Registrations \ {v} : visit'[w] = visit[w]
  BY DEF ReadDevices, ReadForPush, LeaveVisit, DeviceInv
<1>2. \/ visit'[v] = Idle
      \/ /\ visit'[v] \in Visit
         /\ visit'[v].op = "register" /\ ~visit'[v].known /\ ~visit'[v].beside =>
               DevicesOf(visit'[v].user) \ spared \subseteq ToSet(visit'[v].listed)
  <2>1. ASSUME NEW d \in Devices, NEW u \in Owners, ReadDevices(v, d, u)
        PROVE  /\ visit'[v] \in Visit
               /\ DevicesOf(visit'[v].user) \ spared \subseteq ToSet(visit'[v].listed)
    <3>1. LatestFirst(u) \in Seq(Devices) /\ ToSet(LatestFirst(u)) = ToSet(seenLast) \cap DevicesOf(u)
      BY AmongType, ReverseType DEF LatestFirst, DeviceInv
    <3>2. DevicesOf(u) \subseteq ToSet(LatestFirst(u))
      BY <3>1, OwnerAssumption DEF DeviceInv, DevicesOf
    <3> DEFINE known == owner[d] # Nobody
               c == [op |-> "register", token |-> d, user |-> u, known |-> known,
                     listed |-> LatestFirst(u), beside |-> FALSE]
    <3>3. visit'[v] = c
      BY <2>1 DEF ReadDevices, DeviceInv
    <3>4. known \in BOOLEAN
      OBVIOUS
    <3> HIDE DEF known
    <3>5. c \in Visit /\ c.user = u /\ c.listed = LatestFirst(u)
      BY <3>1, <3>4 DEF Visit
    <3> HIDE DEF c
    <3> QED BY <3>2, <3>3, <3>5
  <2>2. ASSUME NEW d \in Devices, ReadForPush(v, d)
        PROVE  visit'[v] \in Visit /\ visit'[v].op = "prune"
    <3>1. owner[d] \in Owners
      BY <2>2 DEF ReadForPush, DeviceInv
    <3>2. <<>> \in Seq(Devices)
      OBVIOUS
    <3>3. visit'[v] = [op |-> "prune", token |-> d, user |-> owner[d], known |-> TRUE,
                       listed |-> <<>>, beside |-> FALSE]
      BY <2>2 DEF ReadForPush, DeviceInv
    <3> QED BY <3>1, <3>2, <3>3 DEF Visit
  <2>3. CASE LeaveVisit(v)
    BY <2>3 DEF LeaveVisit, DeviceInv
  <2> QED BY <2>1, <2>2, <2>3
<1>3. \A u \in Owners : DevicesOf(u)' \ spared' \subseteq DevicesOf(u) \ spared
  BY <1>1 DEF DevicesOf
<1>4. /\ owner' \in [Devices -> Owners \cup {Nobody}] /\ seenLast' \in Seq(Devices)
      /\ ToSet(seenLast') = {d \in Devices : owner'[d] # Nobody}
  BY <1>1 DEF DeviceInv
<1> QED BY <1>1, <1>2, <1>3, <1>4, ShrinkInv

\* Unregister, Prune
LEMMA RemovalInv ==
    ASSUME DeviceInv, (\E d \in Devices : Unregister(d)) \/ \E v \in Registrations : Prune(v)
    PROVE  DeviceInv'
<1>1. PICK d \in Devices :
        /\ owner' = [owner EXCEPT ![d] = Nobody] /\ seenLast' = Among(seenLast, Devices \ {d})
        /\ spared' = spared \ {d}
        /\ DOMAIN visit' = Registrations
        /\ \A v \in Registrations : visit'[v] = visit[v] \/ visit'[v] = Idle
  <2>1. ASSUME NEW v \in Registrations, Prune(v) PROVE visit[v].token \in Devices
    BY <2>1 DEF Prune, DeviceInv, Visit, Idle
  <2> QED BY <2>1 DEF Unregister, Prune, DeviceInv
<1>2. seenLast' \in Seq(Devices) /\ ToSet(seenLast') = ToSet(seenLast) \cap (Devices \ {d})
  BY <1>1, AmongType DEF DeviceInv
<1>3. /\ owner' \in [Devices -> Owners \cup {Nobody}] /\ owner'[d] = Nobody
      /\ \A e \in Devices \ {d} : owner'[e] = owner[e]
  BY <1>1 DEF DeviceInv
<1>4. ToSet(seenLast') = {e \in Devices : owner'[e] # Nobody}
  BY <1>2, <1>3 DEF DeviceInv
<1>5. \A u \in Owners : DevicesOf(u)' \ spared' \subseteq DevicesOf(u) \ spared
  BY <1>1, <1>3, OwnerAssumption DEF DevicesOf
<1> QED BY <1>1, <1>2, <1>3, <1>4, <1>5, ShrinkInv

\* Reassign
LEMMA ReassignInv == ASSUME DeviceInv, NEW v \in Registrations, Reassign(v) PROVE DeviceInv'
<1> DEFINE d == visit[v].token
<1>1. /\ owner[d] # Nobody /\ owner' = [owner EXCEPT ![d] = visit[v].user]
      /\ seenLast' = Append(Among(seenLast, Devices \ {d}), d)
      /\ spared' = IF owner[d] # visit[v].user THEN spared \cup {d} ELSE spared
      /\ visit' = [visit EXCEPT ![v] = Idle]
  BY DEF Reassign
<1>2. d \in Devices /\ visit[v].user \in Owners
  BY DEF Reassign, DeviceInv, Visit, Idle
<1>3. /\ owner' \in [Devices -> Owners \cup {Nobody}] /\ owner'[d] = visit[v].user
      /\ \A e \in Devices \ {d} : owner'[e] = owner[e]
  BY <1>1, <1>2 DEF DeviceInv
<1>4. PICK s \in Seq(Devices) : s = Among(seenLast, Devices \ {d}) /\ ToSet(s) = ToSet(seenLast) \ {d}
  <2>1. ToSet(seenLast) \subseteq Devices
    BY DEF DeviceInv
  <2> QED BY <2>1, AmongType DEF DeviceInv
<1>5. seenLast' \in Seq(Devices) /\ ToSet(seenLast') = ToSet(seenLast) \cup {d}
  BY <1>1, <1>2, <1>4, AppendToSet
<1>6. ToSet(seenLast') = {e \in Devices : owner'[e] # Nobody}
  BY <1>2, <1>3, <1>5, OwnerAssumption DEF DeviceInv
<1>7. \A u \in Owners : DevicesOf(u)' \ spared' \subseteq DevicesOf(u) \ spared
  BY <1>1, <1>2, <1>3 DEF DevicesOf
<1>8. DOMAIN visit' = Registrations /\ \A w \in Registrations : visit'[w] = visit[w] \/ visit'[w] = Idle
  BY <1>1 DEF DeviceInv
<1> QED BY <1>3, <1>5, <1>6, <1>7, <1>8, ShrinkInv

\* Every device but the latest MaxDevices - 1 is evicted.
LEMMA EvictedRest ==
    ASSUME NEW v \in Registrations, visit[v].listed \in Seq(Devices),
           NEW i \in MaxDevices .. Len(visit[v].listed)
    PROVE  visit[v].listed[i] \in Evicted(v)
<1>1. PICK s \in Seq(Devices) : s = visit[v].listed
  OBVIOUS
<1>2. /\ Len(s) \in Nat /\ MaxDevices \in 1 .. Len(s) + 1 /\ Len(s) \in MaxDevices - 1 .. Len(s)
      /\ i \in Int /\ MaxDevices <= i /\ i <= Len(s)
  BY <1>1, DeviceAssumption
<1>3. /\ SubSeq(s, MaxDevices, Len(s)) \in Seq(Devices)
      /\ Len(SubSeq(s, MaxDevices, Len(s))) = Len(s) - MaxDevices + 1
      /\ \A k \in 1 .. Len(s) - MaxDevices + 1 : SubSeq(s, MaxDevices, Len(s))[k] = s[MaxDevices + k - 1]
  BY <1>2, SubSeqProperties
<1>4. PICK rest \in Seq(Devices) : rest = SubSeq(s, MaxDevices, Len(s))
  BY <1>3
<1> DEFINE k == i - MaxDevices + 1
<1>5. k \in 1 .. Len(s) - MaxDevices + 1 /\ MaxDevices + k - 1 = i
  BY <1>2, DeviceAssumption
<1> HIDE DEF k
<1>6. rest[k] = s[i] /\ DOMAIN rest = 1 .. Len(s) - MaxDevices + 1
  BY <1>3, <1>4, <1>5
<1>7. s[i] \in ToSet(rest)
  BY <1>5, <1>6 DEF ToSet
<1> QED BY <1>1, <1>4, <1>7 DEF Evicted

\* Insert
LEMMA InsertInv == ASSUME DeviceInv, NEW v \in Registrations, Insert(v) PROVE DeviceInv'
<1> DEFINE d == visit[v].token
           gone == Evicted(v)
<1>1. /\ visit[v].op = "register" /\ ~visit[v].known /\ owner[d] = Nobody
      /\ owner' = [e \in Devices |-> IF e = d THEN visit[v].user
                                     ELSE IF e \in gone THEN Nobody ELSE owner[e]]
      /\ seenLast' = Append(Among(seenLast, Devices \ gone), d)
      /\ spared' = IF visit[v].beside THEN (spared \ gone) \cup {d} ELSE spared \ (gone \cup {d})
      /\ visit' = [w \in Registrations |->
                     CASE w = v -> Idle
                       [] w # v /\ visit[w] # Idle -> [visit[w] EXCEPT !.beside = TRUE]
                       [] OTHER -> Idle]
  BY DEF Insert
<1>2. visit[v] \in Visit /\ d \in Devices /\ visit[v].user \in Owners /\ visit[v].listed \in Seq(Devices)
  BY <1>1 DEF DeviceInv, Visit, Idle
<1> HIDE DEF gone
<1>3. /\ owner' \in [Devices -> Owners \cup {Nobody}] /\ owner'[d] = visit[v].user
      /\ \A e \in Devices \ {d} : owner'[e] = IF e \in gone THEN Nobody ELSE owner[e]
  BY <1>1, <1>2 DEF DeviceInv
<1>4. PICK s \in Seq(Devices) : s = Among(seenLast, Devices \ gone) /\ ToSet(s) = ToSet(seenLast) \ gone
  <2>1. ToSet(seenLast) \subseteq Devices
    BY DEF DeviceInv
  <2> QED BY <2>1, AmongType DEF DeviceInv
<1>5. seenLast' \in Seq(Devices) /\ ToSet(seenLast') = (ToSet(seenLast) \ gone) \cup {d}
  BY <1>1, <1>2, <1>4, AppendToSet
<1>6. ToSet(seenLast') = {e \in Devices : owner'[e] # Nobody}
  BY <1>1, <1>2, <1>3, <1>5, OwnerAssumption DEF DeviceInv
<1>7. /\ DOMAIN visit' = Registrations
      /\ \A w \in Registrations : \/ visit'[w] = Idle
                                  \/ visit'[w] \in Visit /\ visit'[w].beside
  <2> SUFFICES ASSUME NEW w \in Registrations, w # v, visit[w] # Idle
               PROVE  visit'[w] \in Visit /\ visit'[w].beside
    BY <1>1
  <2>1. visit'[w] = [visit[w] EXCEPT !.beside = TRUE] /\ visit[w] \in Visit
    BY <1>1 DEF DeviceInv
  <2> QED BY <2>1 DEF Visit
<1>8. \A u \in Owners, e \in Devices \ {d} : e \in DevicesOf(u)' \ spared' => e \in DevicesOf(u) \ spared /\ e \notin gone
  BY <1>1, <1>2, <1>3, OwnerAssumption DEF DevicesOf
<1>9. CASE visit[v].beside
  <2>1. \A u \in Owners : DevicesOf(u)' \ spared' \subseteq DevicesOf(u) \ spared
    BY <1>1, <1>2, <1>8, <1>9 DEF DevicesOf
  <2> QED BY <1>3, <1>5, <1>6, <1>7, <2>1, ShrinkInv
<1>10. CASE ~visit[v].beside
  <2>1. ListedFit'
    BY <1>7 DEF ListedFit, Idle
  <2>2. ASSUME NEW u \in Owners PROVE Cardinality(DevicesOf(u)' \ spared') <= MaxDevices
    <3>1. CASE u # visit[v].user
      <4>1. DevicesOf(u)' \ spared' \subseteq DevicesOf(u) \ spared
        BY <1>2, <1>3, <1>8, <3>1 DEF DevicesOf
      <4> QED BY <4>1, FewerDevices
    <3>2. CASE u = visit[v].user
      <4> DEFINE listed == visit[v].listed
                 n == IF Len(listed) < MaxDevices THEN Len(listed) ELSE MaxDevices - 1
                 kept == {listed[i] : i \in 1 .. n}
      <4>1. Len(listed) \in Nat /\ DOMAIN listed = 1 .. Len(listed)
        BY <1>2
      <4>2. n \in Nat /\ n <= Len(listed) /\ n <= MaxDevices - 1
        BY <4>1, DeviceAssumption
      <4>3. IsFiniteSet(kept) /\ Cardinality(kept) <= n
        BY <1>2, <4>2, FirstTokens
      <4>4. DevicesOf(u) \ spared \subseteq ToSet(listed)
        BY <1>1, <1>10, <3>2 DEF DeviceInv, ListedFit
      <4>5. ASSUME NEW e \in ToSet(listed), e \notin gone PROVE e \in kept
        <5>1. PICK i \in 1 .. Len(listed) : e = listed[i]
          BY <4>1 DEF ToSet
        <5>2. ~(i \in MaxDevices .. Len(listed))
          BY <1>2, <4>5, <5>1, EvictedRest DEF gone
        <5>3. i \in 1 .. n
          BY <4>1, <5>2, DeviceAssumption
        <5> QED BY <5>1, <5>3
      <4> HIDE DEF kept, n
      <4>6. DevicesOf(u)' \ spared' \subseteq kept \cup {d}
        <5> SUFFICES ASSUME NEW e \in DevicesOf(u)' \ spared', e # d PROVE e \in kept
          OBVIOUS
        <5>1. e \in Devices
          BY DEF DevicesOf
        <5>2. e \in DevicesOf(u) \ spared /\ e \notin gone
          BY <1>8, <5>1
        <5> QED BY <4>4, <4>5, <5>2
      <4>7. /\ IsFiniteSet(kept \cup {d}) /\ Cardinality(kept) \in Nat
            /\ Cardinality(kept \cup {d}) = Cardinality(kept) \/ Cardinality(kept \cup {d}) = Cardinality(kept) + 1
        BY <4>3, FS_AddElement, FS_CardinalityType
      <4>8. /\ Cardinality(DevicesOf(u)' \ spared') \in Nat
            /\ Cardinality(DevicesOf(u)' \ spared') <= Cardinality(kept \cup {d})
        BY <4>6, <4>7, FS_Subset, FS_CardinalityType
      <4> QED BY <4>2, <4>3, <4>7, <4>8, DeviceAssumption
    <3> QED BY <3>1, <3>2
  <2>3. DeviceLimit'
    BY <2>2 DEF DeviceLimit
  <2>4. \A w \in Registrations : visit'[w] = Idle \/ visit'[w] \in Visit
    BY <1>7
  <2> QED BY <1>3, <1>5, <1>6, <1>7, <2>1, <2>3, <2>4 DEF DeviceInv
<1> QED BY <1>9, <1>10

\* No step of the registrations breaks the inductive invariant.
LEMMA DeviceNextInv == DeviceInv /\ [DeviceNext]_deviceVars => DeviceInv'
<1> SUFFICES ASSUME DeviceInv, [DeviceNext]_deviceVars PROVE DeviceInv'
  OBVIOUS
<1>1. CASE UNCHANGED deviceVars
  BY <1>1 DEF deviceVars, DeviceInv, ListedFit, DeviceLimit, DevicesOf
<1>2. ASSUME NEW v \in Registrations,
             \/ \E d \in Devices, u \in Owners : ReadDevices(v, d, u)
             \/ \E d \in Devices : ReadForPush(v, d)
             \/ LeaveVisit(v)
      PROVE  DeviceInv'
  BY <1>2, VisitsInv
<1>3. CASE (\E d \in Devices : Unregister(d)) \/ \E v \in Registrations : Prune(v)
  BY <1>3, RemovalInv
<1>4. ASSUME NEW v \in Registrations, Reassign(v) \/ Insert(v) PROVE DeviceInv'
  BY <1>4, ReassignInv, InsertInv
<1> QED BY <1>1, <1>2, <1>3, <1>4 DEF DeviceNext

\* A device stands once in the order in which they were seen, and only devices are spared.
SeenOnce == IsInjective(seenLast) /\ spared \subseteq Devices

LEMMA SeenOnceInit == DeviceInit => SeenOnce
BY DEF DeviceInit, SeenOnce, IsInjective

\* What is seen again, or registered, is taken out of the order first, or was not there.
LEMMA SeenOnceNext == DeviceInv /\ SeenOnce /\ [DeviceNext]_deviceVars => SeenOnce'
<1> SUFFICES ASSUME DeviceInv, SeenOnce, [DeviceNext]_deviceVars PROVE SeenOnce'
  OBVIOUS
<1>1. /\ IsInjective(seenLast) /\ spared \subseteq Devices /\ seenLast \in Seq(Devices)
      /\ ToSet(seenLast) = {d \in Devices : owner[d] # Nobody}
      /\ \A v \in Registrations : visit[v] = Idle \/ visit[v] \in Visit
  BY DEF SeenOnce, DeviceInv
<1>2. ASSUME NEW v \in Registrations, visit[v].op \in {"register", "prune"} PROVE visit[v].token \in Devices
  BY <1>1, <1>2 DEF Visit, Idle
<1>3. ASSUME UNCHANGED <<seenLast, spared>> PROVE SeenOnce'
  BY <1>1, <1>3 DEF SeenOnce
<1>4. ASSUME NEW some, seenLast' = Among(seenLast, some), spared' \subseteq spared PROVE SeenOnce'
  BY <1>1, <1>4, AmongType DEF SeenOnce
<1>5. ASSUME NEW some, NEW d \in Devices, d \notin some \/ owner[d] = Nobody,
             seenLast' = Append(Among(seenLast, some), d), spared' \subseteq spared \cup {d}
      PROVE  SeenOnce'
  <2>1. PICK s \in Seq(Devices) : s = Among(seenLast, some) /\ ToSet(s) = ToSet(seenLast) \cap some /\ IsInjective(s)
    BY <1>1, AmongType
  <2>2. d \notin ToSet(s)
    BY <1>1, <1>5, <2>1
  <2>3. IsInjective(seenLast')
    BY <1>5, <2>1, <2>2, AppendToSet
  <2> QED BY <1>1, <1>5, <2>3 DEF SeenOnce
<1>6. ASSUME NEW v \in Registrations, Reassign(v) PROVE SeenOnce'
  <2>1. PICK d \in Devices : d = visit[v].token
    BY <1>2, <1>6 DEF Reassign
  <2>2. d \notin Devices \ {d}
    OBVIOUS
  <2>3. seenLast' = Append(Among(seenLast, Devices \ {d}), d) /\ spared' \subseteq spared \cup {d}
    BY <1>6, <2>1 DEF Reassign
  <2> QED BY <1>5, <2>2, <2>3
<1>7. ASSUME NEW v \in Registrations, Insert(v) PROVE SeenOnce'
  <2>1. PICK d \in Devices : d = visit[v].token
    BY <1>2, <1>7 DEF Insert
  <2>2. /\ owner[d] = Nobody /\ seenLast' = Append(Among(seenLast, Devices \ Evicted(v)), d)
        /\ spared' \subseteq spared \cup {d}
    BY <1>7, <2>1 DEF Insert
  <2> QED BY <1>5, <2>2
<1> QED BY <1>3, <1>4, <1>6, <1>7 DEF DeviceNext, ReadDevices, ReadForPush, LeaveVisit, Unregister, Prune,
                                      deviceVars

\* The rows of the devices, and what every registration has read of them, keep their types.
THEOREM DeviceTypes == DeviceSpec => []DeviceTypeOK
<1>1. DeviceInv /\ SeenOnce => DeviceTypeOK
  BY DEF DeviceInv, SeenOnce, DeviceTypeOK
<1> QED BY DeviceInitInv, DeviceNextInv, SeenOnceInit, SeenOnceNext, <1>1, PTL DEF DeviceSpec

\* register_device of notification_service, however many registrations, removals and prunings
\* run side by side: an account has at most max_devices_per_user devices, besides those that
\* came from another account or beside another registration.
THEOREM DevicesAreLimited == DeviceSpec => []DeviceLimit
<1>1. DeviceInv => DeviceLimit
  BY DEF DeviceInv
<1> QED BY DeviceInitInv, DeviceNextInv, <1>1, PTL DEF DeviceSpec

-----------------------------------------------------------------------------
(* The administrators' figures                                                *)

\* A row that changes leaves the others as they are.
LEMMA RowChanged ==
    ASSUME NEW S, NEW rows \in Seq(S), NEW i \in DOMAIN rows, NEW row \in S
    PROVE  LET new == [rows EXCEPT ![i] = row] IN
           /\ new \in Seq(S) /\ Len(new) = Len(rows) /\ DOMAIN new = DOMAIN rows /\ new[i] = row
           /\ \A j \in DOMAIN rows \ {i} : new[j] = rows[j]
OBVIOUS

\* A row that is added comes last.
LEMMA RowAdded ==
    ASSUME NEW S, NEW rows \in Seq(S), NEW row \in S
    PROVE  LET new == Append(rows, row) IN
           /\ new \in Seq(S) /\ Len(new) = Len(rows) + 1 /\ DOMAIN new = 1 .. Len(rows) + 1
           /\ new[Len(rows) + 1] = row
           /\ \A j \in DOMAIN rows : new[j] = rows[j]
           /\ DOMAIN rows = 1 .. Len(rows) /\ Len(rows) \in Nat
OBVIOUS

\* Nothing is from the future, and what is concluded has a tier.
RowsInTime ==
    /\ \A u \in DOMAIN people : people[u].joined <= time
    /\ \A k \in DOMAIN cases : /\ cases[k].created <= time
                               /\ cases[k].completed => cases[k].tier \in Tiers

FiguresInv == FiguresTypeOK /\ RowsInTime

LEMMA FiguresInitInv == FiguresInit => FiguresInv
<1> SUFFICES ASSUME FiguresInit PROVE FiguresInv
  OBVIOUS
<1>1. cases = <<>> /\ sessions = <<>> /\ attendance = {} /\ time = Len(people)
  BY DEF FiguresInit
<1>2. CASE people = <<>>
  BY <1>1, <1>2, RoomAssumption DEF FiguresInv, FiguresTypeOK, RowsInTime
<1>3. CASE people = Founders
  <2> DEFINE a == [role |-> "seeker", joined |-> 0, confirmed |-> TRUE, approved |-> FALSE, active |-> TRUE]
             b == [role |-> "advisor", joined |-> 1, confirmed |-> TRUE, approved |-> TRUE, active |-> TRUE]
  <2>1. a \in Person /\ b \in Person /\ a.joined = 0 /\ b.joined = 1
    BY RoomAssumption DEF Person
  <2>2. people = <<a, b>>
    BY <1>3 DEF Founders
  <2> HIDE DEF a, b
  <2>3. people \in Seq(Person) /\ Len(people) = 2 /\ DOMAIN people = 1 .. 2 /\ people[1] = a /\ people[2] = b
    BY <2>1, <2>2
  <2>4. \A u \in DOMAIN people : people[u].joined <= 2
    BY <2>1, <2>3
  <2> QED BY <1>1, <2>3, <2>4, RoomAssumption DEF FiguresInv, FiguresTypeOK, RowsInTime
<1> QED BY <1>2, <1>3 DEF FiguresInit

\* Days and months are no more than instants, and go on as time does.
LEMMA BucketIs ==
    ASSUME NEW s \in Nat, NEW t \in Nat, s <= t
    PROVE  /\ DayOf(s) \in 0 .. DayOf(t) /\ MonthOf(s) \in 0 .. MonthOf(t)
           /\ DayOf(t) \in Nat /\ MonthOf(t) \in Nat /\ DayOf(t) <= t
           /\ \A daily : Bucket(s, daily) \in 0 .. Bucket(t, daily) /\ Bucket(t, daily) \in Nat
<1>1. /\ s \div DayLength \in 0 .. (t \div DayLength) /\ s \div MonthLength \in 0 .. (t \div MonthLength)
  BY DivideGrows, LengthAssumption
<1>2. t \div DayLength \in Nat /\ t \div MonthLength \in Nat
  BY LengthAssumption
<1>3. t \div DayLength <= t
  <2>1. PICK k \in Nat, rest \in 0 .. DayLength - 1 : k = t \div DayLength /\ t = DayLength * k + rest
    BY Divides, LengthAssumption
  <2>2. PICK d \in Nat : DayLength = d + 1
    <3>1. DayLength - 1 \in Nat /\ DayLength = (DayLength - 1) + 1
      BY LengthAssumption
    <3> QED BY <3>1
  <2>3. DayLength * k = d * k + k /\ d * k \in Nat
    BY <2>2
  <2> QED BY <2>1, <2>3
<1> QED BY <1>1, <1>2, <1>3 DEF DayOf, MonthOf, Bucket

\* The steps leave the rows well typed, and nothing comes from the future.
LEMMA FiguresNextInv == FiguresInv /\ [FiguresNext]_figureVars => FiguresInv'
<1> SUFFICES ASSUME FiguresInv, [FiguresNext]_figureVars PROVE FiguresInv'
  OBVIOUS
<1>1. /\ people \in Seq(Person) /\ Len(people) <= MaxPeople /\ cases \in Seq(Case) /\ Len(cases) <= MaxCases
      /\ sessions \in Seq(Session) /\ Len(sessions) <= MaxSessions
      /\ attendance \subseteq (DOMAIN people) \X (0 .. MaxTime) /\ time \in 0 .. MaxTime
      /\ Len(people) \in Nat /\ Len(cases) \in Nat /\ Len(sessions) \in Nat
      /\ DOMAIN people = 1 .. Len(people) /\ DOMAIN cases = 1 .. Len(cases)
      /\ DOMAIN sessions = 1 .. Len(sessions)
  BY DEF FiguresInv, FiguresTypeOK
<1>2. RowsInTime
  BY DEF FiguresInv
<1>3. CASE UNCHANGED figureVars
  BY <1>1, <1>2, <1>3 DEF figureVars, FiguresInv, FiguresTypeOK, RowsInTime
<1>4. ASSUME Passes, people' \in Seq(Person), Len(people') <= MaxPeople, UNCHANGED <<cases, sessions>>,
             DOMAIN people \subseteq DOMAIN people',
             attendance' \subseteq (DOMAIN people') \X (0 .. MaxTime),
             \A u \in DOMAIN people' : people'[u].joined <= time
      PROVE  FiguresInv'
  <2>1. time' = time + 1 /\ time' \in 0 .. MaxTime
    BY <1>1, <1>4, RoomAssumption DEF Passes
  <2>2. \A u \in DOMAIN people' : people'[u].joined <= time'
    <3> SUFFICES ASSUME NEW u \in DOMAIN people' PROVE people'[u].joined <= time'
      OBVIOUS
    <3>1. people'[u] \in Person
      BY <1>4
    <3>2. people'[u].joined \in Int /\ people'[u].joined <= time
      BY <1>4, <3>1, RoomAssumption DEF Person
    <3> QED BY <1>1, <2>1, <3>2
  <2>3. \A k \in DOMAIN cases : cases[k].created <= time'
    <3> SUFFICES ASSUME NEW k \in DOMAIN cases PROVE cases[k].created <= time'
      OBVIOUS
    <3>1. cases[k] \in Case
      BY <1>1
    <3>2. cases[k].created \in Int /\ cases[k].created <= time
      BY <1>2, <3>1, RoomAssumption DEF Case, RowsInTime
    <3> QED BY <1>1, <2>1, <3>2
  <2> QED BY <1>1, <1>2, <1>4, <2>1, <2>2, <2>3 DEF FiguresInv, FiguresTypeOK, RowsInTime
<1>5. ASSUME Passes, UNCHANGED <<people, attendance>>, cases' \in Seq(Case), Len(cases') <= MaxCases,
             sessions' \in Seq(Session), Len(sessions') <= MaxSessions,
             \A k \in DOMAIN cases' : /\ cases'[k].created <= time
                                      /\ cases'[k].completed => cases'[k].tier \in Tiers
      PROVE  FiguresInv'
  <2>1. time' = time + 1 /\ time' \in 0 .. MaxTime
    BY <1>1, <1>5, RoomAssumption DEF Passes
  <2>2. \A u \in DOMAIN people : people[u].joined <= time'
    <3> SUFFICES ASSUME NEW u \in DOMAIN people PROVE people[u].joined <= time'
      OBVIOUS
    <3>1. people[u] \in Person
      BY <1>1
    <3>2. people[u].joined \in Int /\ people[u].joined <= time
      BY <1>2, <3>1, RoomAssumption DEF Person, RowsInTime
    <3> QED BY <1>1, <2>1, <3>2
  <2>3. \A k \in DOMAIN cases' : cases'[k].created <= time'
    <3> SUFFICES ASSUME NEW k \in DOMAIN cases' PROVE cases'[k].created <= time'
      OBVIOUS
    <3>1. cases'[k] \in Case
      BY <1>5
    <3>2. cases'[k].created \in Int /\ cases'[k].created <= time
      BY <1>5, <3>1, RoomAssumption DEF Case
    <3> QED BY <1>1, <2>1, <3>2
  <2> QED BY <1>1, <1>2, <1>5, <2>1, <2>2, <2>3 DEF FiguresInv, FiguresTypeOK, RowsInTime
<1>6. ASSUME NEW u \in DOMAIN people, NEW row \in Person, Passes, people' = [people EXCEPT ![u] = row],
             row.joined = people[u].joined, UNCHANGED <<cases, sessions, attendance>>
      PROVE  FiguresInv'
  <2>1. /\ people' \in Seq(Person) /\ Len(people') = Len(people) /\ DOMAIN people' = DOMAIN people
        /\ people'[u] = row /\ \A v \in DOMAIN people \ {u} : people'[v] = people[v]
    BY <1>1, <1>6, RowChanged
  <2>2. \A v \in DOMAIN people : people'[v].joined <= time
    BY <1>2, <1>6, <2>1 DEF RowsInTime
  <2> QED BY <1>1, <1>4, <1>6, <2>1, <2>2
<1>7. ASSUME NEW role \in {"seeker", "advisor", "admin"}, Register(role) PROVE FiguresInv'
  <2> DEFINE admin == role = "admin"
             row == [role |-> role, joined |-> time, confirmed |-> admin, approved |-> FALSE, active |-> TRUE]
  <2>1. admin \in BOOLEAN
    OBVIOUS
  <2>2. people' = Append(people, row) /\ Passes /\ Len(people) < MaxPeople /\ UNCHANGED <<cases, sessions, attendance>>
    BY <1>7 DEF Register
  <2> HIDE DEF admin
  <2>3. row \in Person /\ row.joined = time
    BY <1>1, <2>1 DEF Person
  <2> HIDE DEF row
  <2>4. /\ people' \in Seq(Person) /\ Len(people') = Len(people) + 1 /\ DOMAIN people' = 1 .. Len(people) + 1
        /\ people'[Len(people) + 1] = row /\ \A v \in DOMAIN people : people'[v] = people[v]
    BY <1>1, <2>2, <2>3, RowAdded
  <2>5. \A v \in DOMAIN people' : v \in DOMAIN people \/ v = Len(people) + 1
    BY <1>1, <2>4
  <2>6. \A v \in DOMAIN people' : people'[v].joined <= time
    BY <1>1, <1>2, <2>3, <2>4, <2>5 DEF RowsInTime
  <2>7. DOMAIN people \subseteq DOMAIN people' /\ Len(people') <= MaxPeople
    BY <1>1, <2>2, <2>4, RoomAssumption
  <2> QED BY <1>1, <1>4, <2>2, <2>4, <2>6, <2>7
<1>8. ASSUME NEW u \in DOMAIN people, Return(u) PROVE FiguresInv'
  <2>0. time \in Nat /\ time <= time
    BY <1>1, RoomAssumption
  <2>1. DayOf(time) \in Nat /\ DayOf(time) <= time
    BY <2>0, BucketIs
  <2>2. DayOf(time) \in 0 .. MaxTime
    BY <1>1, <2>1, RoomAssumption
  <2>3. attendance' \subseteq (DOMAIN people) \X (0 .. MaxTime)
    BY <1>1, <1>8, <2>2 DEF Return
  <2> QED BY <1>1, <1>2, <1>4, <1>8, <2>3 DEF Return, RowsInTime
<1>9. ASSUME NEW u \in DOMAIN people, Confirm(u) \/ Approve(u) \/ Suspend(u) PROVE FiguresInv'
  <2>1. people[u] \in Person
    BY <1>1
  <2>2. ASSUME Confirm(u) PROVE FiguresInv'
    <3> DEFINE row == [people[u] EXCEPT !.confirmed = TRUE]
    <3>1. row \in Person /\ row.joined = people[u].joined
      BY <2>1 DEF Person
    <3>2. Passes /\ people' = [people EXCEPT ![u] = row] /\ UNCHANGED <<cases, sessions, attendance>>
      BY <2>2 DEF Confirm
    <3> HIDE DEF row
    <3> QED BY <1>6, <3>1, <3>2
  <2>3. ASSUME Approve(u) PROVE FiguresInv'
    <3> DEFINE row == [people[u] EXCEPT !.approved = TRUE]
    <3>1. row \in Person /\ row.joined = people[u].joined
      BY <2>1 DEF Person
    <3>2. Passes /\ people' = [people EXCEPT ![u] = row] /\ UNCHANGED <<cases, sessions, attendance>>
      BY <2>3 DEF Approve
    <3> HIDE DEF row
    <3> QED BY <1>6, <3>1, <3>2
  <2>4. ASSUME Suspend(u) PROVE FiguresInv'
    <3> DEFINE row == [people[u] EXCEPT !.active = FALSE]
    <3>1. row \in Person /\ row.joined = people[u].joined
      BY <2>1 DEF Person
    <3>2. Passes /\ people' = [people EXCEPT ![u] = row] /\ UNCHANGED <<cases, sessions, attendance>>
      BY <2>4 DEF Suspend
    <3> HIDE DEF row
    <3> QED BY <1>6, <3>1, <3>2
  <2> QED BY <1>9, <2>2, <2>3, <2>4
<1>10. ASSUME NEW u \in DOMAIN people, NEW visa \in VisaTypes, Assess(u, visa) PROVE FiguresInv'
  <2> DEFINE row == [by |-> u, visa |-> visa, created |-> time, completed |-> FALSE, tier |-> "none", lead |-> FALSE]
  <2>1. row \in Case /\ row.created = time /\ ~row.completed
    BY <1>1, RoomAssumption DEF Case
  <2>2. cases' = Append(cases, row) /\ Passes /\ Len(cases) < MaxCases /\ UNCHANGED <<people, sessions, attendance>>
    BY <1>10 DEF Assess
  <2> HIDE DEF row
  <2>3. /\ cases' \in Seq(Case) /\ Len(cases') = Len(cases) + 1 /\ DOMAIN cases' = 1 .. Len(cases) + 1
        /\ cases'[Len(cases) + 1] = row /\ \A k \in DOMAIN cases : cases'[k] = cases[k]
    BY <1>1, <2>1, <2>2, RowAdded
  <2>4. \A k \in DOMAIN cases' : k \in DOMAIN cases \/ k = Len(cases) + 1
    BY <1>1, <2>3
  <2>5. \A k \in DOMAIN cases' : /\ cases'[k].created <= time
                                 /\ cases'[k].completed => cases'[k].tier \in Tiers
    BY <1>1, <1>2, <2>1, <2>3, <2>4 DEF RowsInTime
  <2>6. Len(cases') <= MaxCases
    BY <1>1, <2>2, <2>3, RoomAssumption
  <2> QED BY <1>1, <1>5, <2>2, <2>3, <2>5, <2>6
<1>11. ASSUME NEW k \in DOMAIN cases, NEW tier \in Tiers, NEW lead \in BOOLEAN, Conclude(k, tier, lead)
       PROVE  FiguresInv'
  <2> DEFINE row == [cases[k] EXCEPT !.completed = TRUE, !.tier = tier, !.lead = lead]
  <2>1. cases[k] \in Case
    BY <1>1
  <2>2. row \in Case /\ row.created = cases[k].created /\ row.tier = tier
    BY <2>1 DEF Case
  <2>3. Passes /\ cases' = [cases EXCEPT ![k] = row] /\ UNCHANGED <<people, sessions, attendance>>
    BY <1>11 DEF Conclude
  <2> HIDE DEF row
  <2>4. /\ cases' \in Seq(Case) /\ Len(cases') = Len(cases) /\ DOMAIN cases' = DOMAIN cases
        /\ cases'[k] = row /\ \A l \in DOMAIN cases \ {k} : cases'[l] = cases[l]
    BY <1>1, <2>2, <2>3, RowChanged
  <2>5. \A l \in DOMAIN cases' : /\ cases'[l].created <= time
                                 /\ cases'[l].completed => cases'[l].tier \in Tiers
    BY <1>2, <2>2, <2>4 DEF RowsInTime
  <2> QED BY <1>1, <1>5, <2>3, <2>4, <2>5
<1>12. ASSUME NEW s \in DOMAIN people, NEW a \in DOMAIN people, Reserve(s, a) PROVE FiguresInv'
  <2> DEFINE row == [seeker |-> s, advisor |-> a, created |-> time, updated |-> time, start |-> time + 1,
                     status |-> "pending"]
  <2>1. row \in Session
    BY <1>1, RoomAssumption DEF Session
  <2>2. /\ sessions' = Append(sessions, row) /\ Passes /\ Len(sessions) < MaxSessions
        /\ UNCHANGED <<people, cases, attendance>>
    BY <1>12 DEF Reserve
  <2> HIDE DEF row
  <2>3. sessions' \in Seq(Session) /\ Len(sessions') = Len(sessions) + 1
    BY <1>1, <2>1, <2>2, RowAdded
  <2>4. Len(sessions') <= MaxSessions
    BY <1>1, <2>2, <2>3, RoomAssumption
  <2> QED BY <1>1, <1>2, <1>5, <2>2, <2>3, <2>4 DEF RowsInTime
<1>13. ASSUME NEW b \in DOMAIN sessions, Proceed(b) PROVE FiguresInv'
  <2> DEFINE status == IF sessions[b].status = "pending" THEN "confirmed" ELSE "completed"
             row == [sessions[b] EXCEPT !.status = status, !.updated = time]
  <2>1. sessions[b] \in Session /\ status \in {"pending", "confirmed", "completed"}
    BY <1>1
  <2>2. Passes /\ sessions' = [sessions EXCEPT ![b] = row] /\ UNCHANGED <<people, cases, attendance>>
    BY <1>13 DEF Proceed
  <2> HIDE DEF status
  <2>3. row \in Session
    BY <1>1, <2>1 DEF Session
  <2> HIDE DEF row
  <2>4. sessions' \in Seq(Session) /\ Len(sessions') = Len(sessions)
    BY <1>1, <2>2, <2>3, RowChanged
  <2> QED BY <1>1, <1>2, <1>5, <2>2, <2>4 DEF RowsInTime
<1> QED BY <1>3, <1>7, <1>8, <1>9, <1>10, <1>11, <1>12, <1>13 DEF FiguresNext

-----------------------------------------------------------------------------
\* What is counted by buckets adds up to all that is counted, with the empty ones or without.
LEMMA PartsAddUp ==
    ASSUME NEW S, IsFiniteSet(S), NEW M, IsFiniteSet(M), NEW bucket, \A k \in S : bucket[k] \in M,
           NEW t, DOMAIN t = M, \A x \in M : t[x] = Cardinality({k \in S : bucket[k] = x})
    PROVE  AddedUp(t) = Cardinality(S)
<1> DEFINE ones == [k \in S |-> 1]
           part == [x \in M |-> {k \in S : bucket[k] = x}]
<1>1. /\ \A k \in S : ones[k] = 1 /\ ones[k] \in Int
      /\ \A x \in M : part[x] = {k \in S : bucket[k] = x} /\ part[x] \in SUBSET S
  OBVIOUS
<1> HIDE DEF ones, part
<1>2. \A x \in M : t[x] = TotalOf(ones, part[x])
  <2> SUFFICES ASSUME NEW x \in M PROVE t[x] = TotalOf(ones, part[x])
    OBVIOUS
  <2>1. PICK P : P = part[x]
    OBVIOUS
  <2>2. IsFiniteSet(P) /\ \A k \in P : ones[k] = 1
    BY <1>1, <2>1, FS_Subset
  <2>3. TotalOf(ones, P) = Cardinality(P)
    BY <2>2, TotalOfOnes
  <2> QED BY <1>1, <2>1, <2>3
<1>3. TotalOf(t, M) = TotalOf(ones, S)
  BY <1>1, <1>2, TotalParts
<1>4. TotalOf(ones, S) = Cardinality(S)
  BY <1>1, TotalOfOnes
<1>5. AddedUp(t) = TotalOf(t, M)
  BY SumOverIs DEF AddedUp
<1> QED BY <1>3, <1>4, <1>5

LEMMA CountsAddUp ==
    ASSUME NEW bucket, IsFiniteSet(DOMAIN bucket)
    PROVE  AddedUp(CountsBy(bucket)) = Cardinality(DOMAIN bucket)
<1> DEFINE S == DOMAIN bucket
           M == {bucket[k] : k \in S}
           t == CountsBy(bucket)
<1>1. \A k \in S : bucket[k] \in M
  OBVIOUS
<1>2. IsFiniteSet(M)
  <2> DEFINE f == [k \in S |-> bucket[k]]
  <2>1. f \in Surjection(S, M)
    BY DEF Surjection
  <2> HIDE DEF f, M
  <2> QED BY <2>1, FS_Surjection
<1>3. DOMAIN t = M /\ \A x \in M : t[x] = Cardinality({k \in S : bucket[k] = x})
  BY DEF CountsBy, Range, Count
<1> HIDE DEF M, t
<1>4. AddedUp(t) = Cardinality(S)
  BY <1>1, <1>2, <1>3, PartsAddUp
<1> QED BY <1>4 DEF t

LEMMA FilledAddsUp ==
    ASSUME NEW bucket, IsFiniteSet(DOMAIN bucket), NEW first \in Int, NEW last \in Int,
           \A k \in DOMAIN bucket : bucket[k] \in first .. last
    PROVE  /\ AddedUp(ZeroFilled(CountsBy(bucket), first, last)) = Cardinality(DOMAIN bucket)
           /\ DOMAIN ZeroFilled(CountsBy(bucket), first, last) = first .. last
<1> DEFINE S == DOMAIN bucket
           M == first .. last
           t == ZeroFilled(CountsBy(bucket), first, last)
<1>1. IsFiniteSet(M) /\ \A k \in S : bucket[k] \in M
  BY FS_Interval
<1>2. DOMAIN t = M
  BY DEF ZeroFilled
<1>3. ASSUME NEW x \in M PROVE t[x] = Cardinality({k \in S : bucket[k] = x})
  <2>1. t[x] = IF x \in DOMAIN CountsBy(bucket) THEN CountsBy(bucket)[x] ELSE 0
    BY DEF ZeroFilled
  <2>2. DOMAIN CountsBy(bucket) = {bucket[k] : k \in S}
    BY DEF CountsBy, Range
  <2>3. CASE x \in {bucket[k] : k \in S}
    BY <2>1, <2>2, <2>3 DEF CountsBy, Range, Count
  <2>4. CASE x \notin {bucket[k] : k \in S}
    <3>1. {k \in S : bucket[k] = x} = {}
      BY <2>4
    <3> QED BY <2>1, <2>2, <2>4, <3>1, FS_EmptySet
  <2> QED BY <2>3, <2>4
<1> HIDE DEF M, t
<1>4. AddedUp(t) = Cardinality(S)
  BY <1>1, <1>2, <1>3, PartsAddUp
<1> QED BY <1>2, <1>4 DEF t, M

\* What the rows are, for the screens that count them
LEMMA RowsTyped ==
    ASSUME FiguresInv
    PROVE  /\ IsFiniteSet(DOMAIN people) /\ IsFiniteSet(DOMAIN cases) /\ IsFiniteSet(DOMAIN sessions)
           /\ time \in Nat /\ time <= MaxTime
           /\ \A u \in DOMAIN people : /\ people[u] \in Person /\ people[u].joined \in 0 .. time
                                       /\ people[u].role \in {"seeker", "advisor", "admin"}
           /\ \A k \in DOMAIN cases : /\ cases[k] \in Case /\ cases[k].created \in 0 .. time
                                      /\ cases[k].completed => cases[k].tier \in Tiers
           /\ \A b \in DOMAIN sessions : /\ sessions[b] \in Session /\ sessions[b].start \in Nat
                                         /\ sessions[b].updated \in Nat /\ sessions[b].created \in Nat
<1>1. /\ people \in Seq(Person) /\ cases \in Seq(Case) /\ sessions \in Seq(Session) /\ time \in 0 .. MaxTime
      /\ RowsInTime
  BY DEF FiguresInv, FiguresTypeOK
<1>2. time \in Nat /\ time <= MaxTime
  BY <1>1, RoomAssumption
<1>3. /\ DOMAIN people = 1 .. Len(people) /\ DOMAIN cases = 1 .. Len(cases) /\ DOMAIN sessions = 1 .. Len(sessions)
      /\ Len(people) \in Nat /\ Len(cases) \in Nat /\ Len(sessions) \in Nat
  BY <1>1
<1>4. IsFiniteSet(DOMAIN people) /\ IsFiniteSet(DOMAIN cases) /\ IsFiniteSet(DOMAIN sessions)
  BY <1>3, FS_Interval
<1>5. ASSUME NEW u \in DOMAIN people
      PROVE  /\ people[u] \in Person /\ people[u].joined \in 0 .. time
             /\ people[u].role \in {"seeker", "advisor", "admin"}
  <2>1. people[u] \in Person
    BY <1>1
  <2>2. people[u].joined \in 0 .. MaxTime /\ people[u].role \in {"seeker", "advisor", "admin"}
    BY <2>1 DEF Person
  <2>3. people[u].joined <= time
    BY <1>1 DEF RowsInTime
  <2> QED BY <1>2, <2>1, <2>2, <2>3, RoomAssumption
<1>6. ASSUME NEW k \in DOMAIN cases
      PROVE  /\ cases[k] \in Case /\ cases[k].created \in 0 .. time
             /\ cases[k].completed => cases[k].tier \in Tiers
  <2>1. cases[k] \in Case
    BY <1>1
  <2>2. cases[k].created \in 0 .. MaxTime
    BY <2>1 DEF Case
  <2>3. cases[k].created <= time /\ (cases[k].completed => cases[k].tier \in Tiers)
    BY <1>1 DEF RowsInTime
  <2> QED BY <1>2, <2>1, <2>2, <2>3, RoomAssumption
<1>7. ASSUME NEW b \in DOMAIN sessions
      PROVE  /\ sessions[b] \in Session /\ sessions[b].start \in Nat
             /\ sessions[b].updated \in Nat /\ sessions[b].created \in Nat
  <2>1. sessions[b] \in Session
    BY <1>1
  <2> QED BY <2>1, RoomAssumption DEF Session
<1> QED BY <1>2, <1>4, <1>5, <1>6, <1>7

\* Subsets of the rows are counted by natural numbers, smaller ones by smaller.
LEMMA Counted ==
    ASSUME NEW S, IsFiniteSet(S), NEW T \in SUBSET S
    PROVE  /\ IsFiniteSet(T) /\ Count(T) \in Nat /\ Count(S) \in Nat /\ Count(T) <= Count(S)
           /\ Count(T) = 0 <=> T = {}
           /\ Count(S \ T) = Count(S) - Count(T)
<1>1. IsFiniteSet(T) /\ Cardinality(T) <= Cardinality(S)
  BY FS_Subset
<1>2. Cardinality(T) \in Nat /\ Cardinality(S) \in Nat
  BY <1>1, FS_CardinalityType
<1>3. Cardinality(T) = 0 <=> T = {}
  BY <1>1, FS_EmptySet
<1>4. Cardinality(S \ T) = Cardinality(S) - Cardinality(T)
  <2>1. S \cap T = T
    OBVIOUS
  <2>2. Cardinality(S \ T) = Cardinality(S) - Cardinality(S \cap T)
    BY <1>1, FS_Difference
  <2> QED BY <2>1, <2>2
<1> QED BY <1>1, <1>2, <1>3, <1>4 DEF Count

\* Two parts that have nothing in common are counted one after the other.
LEMMA CountedApart ==
    ASSUME NEW A, IsFiniteSet(A), NEW B, IsFiniteSet(B), A \cap B = {}, NEW S, S = A \cup B
    PROVE  IsFiniteSet(S) /\ Count(S) = Count(A) + Count(B)
<1>1. Cardinality(A \cap B) = 0
  BY FS_EmptySet
<1>2. /\ IsFiniteSet(A \cup B)
      /\ Cardinality(A \cup B) = Cardinality(A) + Cardinality(B) - Cardinality(A \cap B)
  BY FS_Union
<1>3. Cardinality(A) \in Nat /\ Cardinality(B) \in Nat
  BY FS_CardinalityType
<1> QED BY <1>1, <1>2, <1>3 DEF Count

\* A multiple is divided without rest.
LEMMA MultipleDivided ==
    ASSUME NEW b \in Nat \ {0}, NEW j \in Nat
    PROVE  (b * j) \div b = j
<1>1. b * j \in Nat
  OBVIOUS
<1>2. PICK k \in Nat, rest \in 0 .. b - 1 : k = (b * j) \div b /\ b * j = b * k + rest
  BY <1>1, Divides
<1>3. ~(j > k)
  <2> SUFFICES ASSUME j > k PROVE FALSE
    OBVIOUS
  <2>1. PICK i \in Nat : j = k + 1 + i
    <3>1. j - (k + 1) \in Nat /\ j = k + 1 + (j - (k + 1))
      OBVIOUS
    <3> QED BY <3>1
  <2>2. b * j = b * k + b + b * i /\ b * i \in Nat
    BY <2>1
  <2> QED BY <1>2, <2>2
<1>4. ~(j < k)
  <2> SUFFICES ASSUME j < k PROVE FALSE
    OBVIOUS
  <2>1. PICK i \in Nat : k = j + 1 + i
    <3>1. k - (j + 1) \in Nat /\ k = j + 1 + (k - (j + 1))
      OBVIOUS
    <3> QED BY <3>1
  <2>2. b * k = b * j + b + b * i /\ b * i \in Nat
    BY <2>1
  <2> QED BY <1>2, <2>2
<1> QED BY <1>2, <1>3, <1>4

-----------------------------------------------------------------------------
\* A window of several months begins with a month, and has that many.
LEMMA WindowIs ==
    ASSUME FiguresInv, NEW filter \in Filters
    PROVE  /\ dashboard_since(filter) \in Int /\ dashboard_since(filter) <= time
           /\ filter.months > 0 =>
                /\ dashboard_since(filter) \in Nat /\ MonthOf(dashboard_since(filter)) \in Nat
                /\ MonthOf(time) - MonthOf(dashboard_since(filter)) \in 0 .. filter.months - 1
<1>1. time \in Nat
  BY RowsTyped
<1>2. filter.days \in {0, 1, 3} /\ filter.months \in {0, 1, 2}
  BY DEF Filters
<1>3. CASE filter.months = 0
  BY <1>1, <1>2, <1>3 DEF dashboard_since
<1>4. CASE filter.months # 0
  <2>1. PICK k \in Nat, rest \in 0 .. MonthLength - 1 : k = MonthOf(time) /\ time = MonthLength * k + rest
    BY <1>1, Divides, LengthAssumption DEF MonthOf
  <2>2. PICK m \in {1, 2} : m = filter.months
    BY <1>2, <1>4
  <2>3. PICK j \in Int : j = k - (m - 1)
    BY <2>2
  <2>4. dashboard_since(filter) = IF MonthLength * j < 0 THEN 0 ELSE MonthLength * j
    BY <1>4, <2>1, <2>2, <2>3 DEF dashboard_since
  <2>5. CASE j < 0
    <3>1. PICK i \in Nat : j = -1 - i
      <4>1. -1 - j \in Nat /\ j = -1 - (-1 - j)
        BY <2>5
      <4> QED BY <4>1
    <3>2. MonthLength * j = -MonthLength - MonthLength * i /\ MonthLength * i \in Nat
      BY <3>1, LengthAssumption
    <3>3. dashboard_since(filter) = 0
      BY <2>4, <3>2, LengthAssumption
    <3>4. MonthOf(0) = 0
      <4>1. PICK q \in Nat, r \in 0 .. MonthLength - 1 : q = 0 \div MonthLength /\ 0 = MonthLength * q + r
        BY Divides, LengthAssumption
      <4>2. q = 0
        <5> SUFFICES ASSUME q # 0 PROVE FALSE
          OBVIOUS
        <5>1. PICK n \in Nat : q = 1 + n
          <6>1. q - 1 \in Nat /\ q = 1 + (q - 1)
            OBVIOUS
          <6> QED BY <6>1
        <5>2. MonthLength * q = MonthLength + MonthLength * n /\ MonthLength * n \in Nat
          BY <5>1, LengthAssumption
        <5> QED BY <4>1, <5>2, LengthAssumption
      <4> QED BY <4>1, <4>2 DEF MonthOf
    <3>5. PICK t \in Nat : t = MonthOf(time) /\ t = k
      BY <2>1
    <3>6. t - 0 \in 0 .. m - 1 /\ m > 0
      BY <2>2, <2>3, <2>5, <3>5
    <3> QED BY <1>1, <2>2, <3>3, <3>4, <3>5, <3>6
  <2>6. CASE j >= 0
    <3>1. MonthLength * j \in Nat /\ j \in Nat
      BY <2>6, LengthAssumption
    <3>2. dashboard_since(filter) = MonthLength * j
      BY <2>4, <3>1
    <3>3. MonthOf(MonthLength * j) = j
      BY <3>1, MultipleDivided, LengthAssumption DEF MonthOf
    <3>4. MonthLength * j <= MonthLength * k
      <4>1. PICK i \in Nat : k = j + i
        BY <2>2, <2>3
      <4>2. MonthLength * k = MonthLength * j + MonthLength * i /\ MonthLength * i \in Nat
        BY <3>1, <4>1, LengthAssumption
      <4> QED BY <3>1, <4>2
    <3>5. PICK p \in Nat : p = MonthLength * j
      BY <3>1
    <3>6. p <= time
      <4>1. PICK l \in Nat : l = MonthLength * k
        BY LengthAssumption
      <4> QED BY <2>1, <3>4, <3>5, <4>1
    <3>7. k - j \in 0 .. m - 1
      BY <2>2, <2>3
    <3>8. MonthOf(p) = j /\ dashboard_since(filter) = p
      BY <3>2, <3>3, <3>5
    <3> QED BY <2>1, <2>2, <3>1, <3>6, <3>7, <3>8
  <2> QED BY <2>3, <2>5, <2>6
<1> QED BY <1>3, <1>4

\* The rows of a window fall into its buckets.
LEMMA InWindow ==
    ASSUME FiguresInv, NEW opening \in Int, opening <= time, NEW daily \in BOOLEAN
    PROVE  LET first == Bucket(IF opening < 0 THEN 0 ELSE opening, daily) IN
           /\ first \in Nat /\ Bucket(time, daily) \in Nat /\ first <= Bucket(time, daily)
           /\ \A t \in 0 .. time : t >= opening => Bucket(t, daily) \in first .. Bucket(time, daily)
<1>1. PICK from \in Nat : from = (IF opening < 0 THEN 0 ELSE opening)
  OBVIOUS
<1>2. time \in Nat /\ from <= time
  BY <1>1, RowsTyped
<1>3. Bucket(from, daily) \in 0 .. Bucket(time, daily) /\ Bucket(time, daily) \in Nat
  BY <1>2, BucketIs
<1>4. ASSUME NEW t \in 0 .. time, t >= opening PROVE Bucket(t, daily) \in Bucket(from, daily) .. Bucket(time, daily)
  <2>1. t \in Nat /\ from <= t /\ t <= time
    BY <1>1, <1>2, <1>4
  <2>2. Bucket(from, daily) \in 0 .. Bucket(t, daily) /\ Bucket(t, daily) \in 0 .. Bucket(time, daily)
    BY <1>2, <2>1, BucketIs
  <2> QED BY <1>3, <2>2
<1> QED BY <1>1, <1>3, <1>4

LEMMA TrendsSay == ASSUME FiguresInv PROVE TrendsMatchCards
<1> SUFFICES ASSUME NEW filter \in Filters, NEW daily \in BOOLEAN
             PROVE  LET opening == dashboard_since(filter)
                        home == dashboard_summary(filter, daily) IN
                    /\ AddedUp(home.users) = home.stats.users
                    /\ AddedUp(home.volume) = Count({k \in DOMAIN cases : cases[k].created >= opening})
                    /\ Bucket(time, daily) \in DOMAIN home.users
                    /\ ~daily /\ filter.months > 0 => Count(DOMAIN home.users) \in 1 .. filter.months
  BY DEF TrendsMatchCards
<1>1. PICK opening \in Int : opening = dashboard_since(filter)
  BY WindowIs
<1>2. opening <= time /\ time \in Nat
  BY <1>1, WindowIs, RowsTyped
<1>3. PICK first \in Nat, last \in Nat :
         /\ first = Bucket(IF opening < 0 THEN 0 ELSE opening, daily) /\ last = Bucket(time, daily)
         /\ first <= last
         /\ \A t \in 0 .. time : t >= opening => Bucket(t, daily) \in first .. last
  BY <1>2, InWindow
<1>4. PICK home : home = dashboard_summary(filter, daily)
  OBVIOUS
<1>5. /\ home.users = registration_trend(opening, daily) /\ home.volume = assessment_volume(opening, daily)
      /\ home.stats = stat_counts(opening)
  BY <1>1, <1>4 DEF dashboard_summary
<1>6. AddedUp(home.users) = home.stats.users /\ DOMAIN home.users = first .. last
  <2> DEFINE S == {u \in JoinedSince(opening) : people[u].role # "admin"}
             bucket == [u \in S |-> Bucket(people[u].joined, daily)]
  <2>1. IsFiniteSet(S)
    BY RowsTyped, FS_Subset DEF JoinedSince
  <2>2. DOMAIN bucket = S
    OBVIOUS
  <2>3. \A u \in S : bucket[u] \in first .. last
    BY <1>3, RowsTyped DEF JoinedSince
  <2>4. home.users = ZeroFilled(CountsBy(bucket), first, last)
    BY <1>3, <1>5 DEF registration_trend
  <2>5. home.stats.users = Cardinality(S)
    BY <1>5 DEF stat_counts, Count
  <2> HIDE DEF S, bucket
  <2>6. /\ AddedUp(ZeroFilled(CountsBy(bucket), first, last)) = Cardinality(S)
        /\ DOMAIN ZeroFilled(CountsBy(bucket), first, last) = first .. last
    BY <2>1, <2>2, <2>3, FilledAddsUp
  <2> QED BY <2>4, <2>5, <2>6
<1>7. AddedUp(home.volume) = Count({k \in DOMAIN cases : cases[k].created >= opening})
  <2> DEFINE S == {k \in DOMAIN cases : cases[k].created >= opening}
             bucket == [k \in S |-> Bucket(cases[k].created, daily)]
  <2>1. IsFiniteSet(S)
    BY RowsTyped, FS_Subset
  <2>2. DOMAIN bucket = S
    OBVIOUS
  <2>3. \A k \in S : bucket[k] \in first .. last
    BY <1>3, RowsTyped
  <2>4. home.volume = ZeroFilled(CountsBy(bucket), first, last)
    BY <1>3, <1>5 DEF assessment_volume
  <2>5. Count(S) = Cardinality(S)
    BY DEF Count
  <2> HIDE DEF S, bucket
  <2>6. AddedUp(home.volume) = Count(S)
    BY <2>1, <2>2, <2>3, <2>4, <2>5, FilledAddsUp
  <2> QED BY <2>6 DEF S
<1>8. ASSUME ~daily, filter.months > 0 PROVE Count(DOMAIN home.users) \in 1 .. filter.months
  <2>1. opening \in Nat /\ MonthOf(opening) \in Nat /\ MonthOf(time) - MonthOf(opening) \in 0 .. filter.months - 1
    BY <1>1, <1>8, WindowIs
  <2>2. first = MonthOf(opening) /\ last = MonthOf(time)
    BY <1>3, <1>8, <2>1 DEF Bucket
  <2>3. Cardinality(first .. last) = last - first + 1
    BY <1>3, FS_Interval
  <2>4. filter.months \in Int
    BY DEF Filters
  <2> QED BY <1>3, <1>6, <2>1, <2>2, <2>3, <2>4 DEF Count
<1> QED BY <1>1, <1>3, <1>4, <1>6, <1>7, <1>8

LEMMA ScreensSay == ASSUME FiguresInv PROVE ScreensTellTheSame
<1> SUFFICES ASSUME NEW opening \in Int
             PROVE  LET home == stat_counts(opening)
                        tab == overview(opening) IN
                    /\ home.users = home.seekers + home.advisors
                    /\ tab.users = home.users + Count({u \in JoinedSince(opening) : people[u].role = "admin"})
                    /\ tab.advisors = home.advisors
                    /\ home.active <= home.approved /\ home.active <= tab.active
                    /\ stat_counts(0).active = tab.active
  <2>1. time \in Nat
    BY RowsTyped
  <2>2. \A days \in {1, 3} : time - days \in Int
    BY <2>1
  <2> QED BY <2>2 DEF ScreensTellTheSame
<1> DEFINE all == JoinedSince(opening)
           users == {u \in all : people[u].role # "admin"}
           seekers == {u \in all : people[u].role = "seeker"}
           admins == {u \in all : people[u].role = "admin"}
           advisors == {u \in all : people[u].role = "advisor"}
           approved == {u \in advisors : people[u].approved}
           active == {u \in advisors : people[u].approved /\ people[u].active}
           ever == {u \in DOMAIN people : people[u].role = "advisor" /\ people[u].active /\ people[u].approved}
<1>1. IsFiniteSet(all) /\ all \subseteq DOMAIN people
  BY RowsTyped, FS_Subset DEF JoinedSince
<1>2. /\ IsFiniteSet(users) /\ IsFiniteSet(seekers) /\ IsFiniteSet(admins) /\ IsFiniteSet(advisors)
      /\ IsFiniteSet(approved) /\ IsFiniteSet(ever)
  BY <1>1, RowsTyped, FS_Subset
<1>3. /\ seekers \cap advisors = {} /\ users = seekers \cup advisors
      /\ users \cap admins = {} /\ all = users \cup admins
  BY <1>1, RowsTyped
<1>4. Count(users) = Count(seekers) + Count(advisors)
  <2> HIDE DEF users, seekers, advisors
  <2> QED BY <1>2, <1>3, CountedApart
<1>5. Count(all) = Count(users) + Count(admins)
  <2> HIDE DEF users, admins, all
  <2> QED BY <1>2, <1>3, CountedApart
<1>6. active \subseteq approved /\ active \subseteq ever
  BY <1>1
<1>7. Count(active) <= Count(approved) /\ Count(active) <= Count(ever)
  <2> HIDE DEF active, approved, ever
  <2> QED BY <1>2, <1>6, Counted
<1>8. stat_counts(0).active = Count(ever)
  <2>1. \A u \in DOMAIN people : people[u].joined >= 0
    BY RowsTyped
  <2>2. {u \in {v \in JoinedSince(0) : people[v].role = "advisor"} : people[u].approved /\ people[u].active} = ever
    BY <2>1 DEF JoinedSince
  <2> HIDE DEF ever
  <2> QED BY <2>2 DEF stat_counts
<1>9. /\ stat_counts(opening).users = Count(users) /\ stat_counts(opening).seekers = Count(seekers)
      /\ stat_counts(opening).advisors = Count(advisors) /\ stat_counts(opening).approved = Count(approved)
      /\ stat_counts(opening).active = Count(active)
  BY DEF stat_counts
<1>10. /\ overview(opening).users = Count(all) /\ overview(opening).advisors = Count(advisors)
       /\ overview(opening).active = Count(ever)
  BY DEF overview
<1> HIDE DEF active, approved, ever, all, users, seekers, admins, advisors
<1>11. Count(all) = Count(users) + Count({u \in JoinedSince(opening) : people[u].role = "admin"})
  BY <1>5 DEF admins, all
<1> QED BY <1>4, <1>7, <1>8, <1>9, <1>10, <1>11

LEMMA FunnelsSay == ASSUME FiguresInv PROVE FunnelsNarrow
<1> SUFFICES ASSUME NEW from \in Int
             PROVE  LET onboarding == onboarding_funnel(from)
                        matching == match_funnel(from, time) IN
                    /\ onboarding.engaged <= onboarding.activated
                    /\ onboarding.activated <= onboarding.verified
                    /\ onboarding.verified <= onboarding.registered
                    /\ matching.shown <= matching.impressions
                    /\ matching.booked > 0 => matching.clicked > 0
                    /\ matching.clicked > 0 => matching.shown > 0
  <2>1. time \in Nat
    BY RowsTyped
  <2>2. \A days \in {1, 3, MaxTime} : time - days \in Int
    BY <2>1, RoomAssumption
  <2> QED BY <2>2 DEF FunnelsNarrow
<1>1. /\ onboarding_funnel(from).engaged <= onboarding_funnel(from).activated
      /\ onboarding_funnel(from).activated <= onboarding_funnel(from).verified
      /\ onboarding_funnel(from).verified <= onboarding_funnel(from).registered
  <2> DEFINE all == JoinedSince(from)
             verified == {u \in all : people[u].confirmed}
             assessed == {cases[k].by : k \in {c \in DOMAIN cases : cases[c].completed}}
             booked == {sessions[b].seeker : b \in DOMAIN sessions}
             served == {sessions[b].advisor : b \in {c \in DOMAIN sessions : sessions[c].status = "completed"}}
             activated == {u \in verified : \/ people[u].role = "seeker" /\ u \in assessed
                                            \/ people[u].role = "advisor" /\ people[u].approved}
             engaged == {u \in activated : \/ people[u].role = "seeker" /\ u \in booked
                                           \/ people[u].role = "advisor" /\ u \in served}
  <2>1. IsFiniteSet(all)
    BY RowsTyped, FS_Subset DEF JoinedSince
  <2>2. verified \subseteq all /\ activated \subseteq verified /\ engaged \subseteq activated
    OBVIOUS
  <2>3. /\ onboarding_funnel(from).registered = Count(all) /\ onboarding_funnel(from).verified = Count(verified)
        /\ onboarding_funnel(from).activated = Count(activated) /\ onboarding_funnel(from).engaged = Count(engaged)
    BY DEF onboarding_funnel
  <2> HIDE DEF all, verified, activated, engaged
  <2>4. IsFiniteSet(verified) /\ IsFiniteSet(activated)
    BY <2>1, <2>2, FS_Subset
  <2>5. Count(engaged) <= Count(activated)
    BY <2>2, <2>4, Counted
  <2>6. Count(activated) <= Count(verified)
    BY <2>2, <2>4, Counted
  <2>7. Count(verified) <= Count(all)
    BY <2>1, <2>2, Counted
  <2> QED BY <2>3, <2>5, <2>6, <2>7
<1>2. /\ match_funnel(from, time).shown <= match_funnel(from, time).impressions
      /\ match_funnel(from, time).booked > 0 => match_funnel(from, time).clicked > 0
      /\ match_funnel(from, time).clicked > 0 => match_funnel(from, time).shown > 0
  <2> DEFINE started == {k \in DOMAIN cases : from <= cases[k].created /\ cases[k].created < time}
             completed == {k \in started : cases[k].completed}
             matched == {k \in completed : cases[k].lead}
             seekers == {cases[k].by : k \in completed}
             booked == {b \in DOMAIN sessions : from <= sessions[b].created /\ sessions[b].created < time
                                                /\ sessions[b].seeker \in seekers}
             pairs == {<<sessions[b].seeker, sessions[b].advisor>> : b \in booked}
             real == {b \in booked : sessions[b].status \in {"confirmed", "completed"}}
  <2>1. /\ IsFiniteSet(started) /\ IsFiniteSet(booked)
        /\ completed \subseteq started /\ matched \subseteq completed /\ real \subseteq booked
    BY RowsTyped, FS_Subset
  <2>2. completed = {} => booked = {}
    OBVIOUS
  <2>3. booked = {} => pairs = {}
    OBVIOUS
  <2>4. ASSUME NEW b \in booked PROVE <<sessions[b].seeker, sessions[b].advisor>> \in pairs
    OBVIOUS
  <2>5. IsFiniteSet(pairs)
    <3> DEFINE f == [b \in booked |-> <<sessions[b].seeker, sessions[b].advisor>>]
    <3>1. f \in Surjection(booked, pairs)
      BY DEF Surjection
    <3> HIDE DEF f, booked, pairs
    <3> QED BY <2>1, <3>1, FS_Surjection
  <2>6. /\ match_funnel(from, time).impressions = Count(started)
        /\ match_funnel(from, time).shown = (IF matched # {} THEN Count(matched) ELSE Count(completed))
        /\ match_funnel(from, time).clicked = Count(pairs)
        /\ match_funnel(from, time).booked = Count(real)
    BY DEF match_funnel
  <2> HIDE DEF started, completed, matched, booked, pairs, real
  <2>7. /\ Count(matched) \in Nat /\ Count(completed) \in Nat /\ Count(pairs) \in Nat /\ Count(real) \in Nat
        /\ Count(matched) <= Count(started) /\ Count(completed) <= Count(started)
        /\ Count(matched) = 0 <=> matched = {}
    <3>1. matched \subseteq started
      BY <2>1
    <3> QED BY <2>1, <2>5, <3>1, Counted
  <2>8. Count(completed) = 0 <=> completed = {}
    BY <2>1, Counted
  <2>9. Count(pairs) = 0 <=> pairs = {}
    BY <2>5, Counted
  <2>10. Count(real) > 0 => booked # {}
    BY <2>1, Counted
  <2>11. match_funnel(from, time).shown <= match_funnel(from, time).impressions
    BY <2>6, <2>7
  <2>12. match_funnel(from, time).booked > 0 => match_funnel(from, time).clicked > 0
    <3>1. booked # {} => pairs # {}
      BY <2>4
    <3>2. Count(pairs) \in Nat
      BY <2>7
    <3> QED BY <2>6, <2>9, <2>10, <3>1, <3>2
  <2>13. match_funnel(from, time).clicked > 0 => match_funnel(from, time).shown > 0
    <3>1. Count(pairs) > 0 => completed # {}
      BY <2>2, <2>3, <2>9
    <3>2. completed # {} => Count(completed) > 0
      BY <2>7, <2>8
    <3>3. matched # {} => Count(matched) > 0
      BY <2>7
    <3> QED BY <2>6, <3>1, <3>2, <3>3
  <2> QED BY <2>11, <2>12, <2>13
<1> QED BY <1>1, <1>2

LEMMA AssessmentsSay == ASSUME FiguresInv PROVE AssessmentsMeet
<1> SUFFICES ASSUME NEW days \in {1, 2}, NEW v \in VisaTypes
             PROVE  VisaCounts(time - 2 * days, time - days)[v] + VisaCounts(time - days, time)[v]
                      = VisaCounts(time - 2 * days, time)[v]
  BY DEF AssessmentsMeet
<1> DEFINE before == {k \in DOMAIN cases : cases[k].visa = v /\ time - 2 * days <= cases[k].created
                                           /\ cases[k].created < time - days}
           after == {k \in DOMAIN cases : cases[k].visa = v /\ time - days <= cases[k].created
                                          /\ cases[k].created < time}
           both == {k \in DOMAIN cases : cases[k].visa = v /\ time - 2 * days <= cases[k].created
                                         /\ cases[k].created < time}
<1>1. IsFiniteSet(before) /\ IsFiniteSet(after)
  BY RowsTyped, FS_Subset
<1>2. before \cap after = {} /\ both = before \cup after
  <2>1. time \in Nat /\ \A k \in DOMAIN cases : cases[k].created \in Int
    BY RowsTyped
  <2> QED BY <2>1
<1>3. /\ VisaCounts(time - 2 * days, time - days)[v] = Count(before)
      /\ VisaCounts(time - days, time)[v] = Count(after)
      /\ VisaCounts(time - 2 * days, time)[v] = Count(both)
  BY DEF VisaCounts
<1> HIDE DEF before, after, both
<1> QED BY <1>1, <1>2, <1>3, CountedApart

-----------------------------------------------------------------------------
\* What is rounded is off by half of one at most.
LEMMA RoundedIs ==
    ASSUME NEW n \in Nat, NEW d \in Nat \ {0}
    PROVE  \E r \in Nat, rest \in 0 .. 2 * d - 1 :
              r = Rounded(n, d) /\ 2 * n + d = 2 * (d * r) + rest
<1> DEFINE e == 2 * d
           m == 2 * n + d
<1>1. e \in Nat /\ e > 0 /\ m \in Nat /\ Rounded(n, d) = m \div e
  BY DEF Rounded
<1> HIDE DEF e, m
<1>2. PICK k \in Nat, rest \in 0 .. e - 1 : k = m \div e /\ m = e * k + rest
  BY <1>1, Divides
<1>3. e * k = 2 * (d * k)
  <2>1. k \in Nat
    OBVIOUS
  <2> QED BY <2>1 DEF e
<1>4. k = Rounded(n, d) /\ m = 2 * (d * k) + rest /\ rest \in 0 .. 2 * d - 1
  BY <1>1, <1>2, <1>3 DEF e
<1>5. 2 * n + d = 2 * (d * k) + rest
  BY <1>4 DEF m
<1> QED BY <1>2, <1>4, <1>5

\* A part of the whole is at most all of it, and something if it is not too small.
LEMMA PartIs ==
    ASSUME NEW a \in Nat, NEW d \in Nat \ {0}, a <= d
    PROVE  /\ Rounded(Whole * a, d) \in Nat /\ Rounded(Whole * a, d) <= Whole
           /\ a = 0 => Rounded(Whole * a, d) = 0
           /\ a > 0 => Rounded(Whole * a, d) > 0 \/ d >= 2 * Whole
<1>0. PICK n \in Nat : n = Whole * a /\ n = 10000 * a
  BY DEF Whole
<1>1. PICK r \in Nat, rest \in 0 .. 2 * d - 1 : r = Rounded(n, d) /\ 2 * n + d = 2 * (d * r) + rest
  BY RoundedIs
<1>2. r = Rounded(Whole * a, d)
  BY <1>0, <1>1
<1>3. r <= Whole
  <2> SUFFICES ASSUME r > 10000 PROVE FALSE
    BY <1>1 DEF Whole
  <2>1. PICK i \in Nat : r = 10001 + i
    <3>1. r - 10001 \in Nat /\ r = 10001 + (r - 10001)
      OBVIOUS
    <3> QED BY <3>1
  <2>2. d * r = 10001 * d + d * i /\ d * i \in Nat
    BY <2>1
  <2> QED BY <1>0, <1>1, <2>2
<1>4. ASSUME a = 0 PROVE r = 0
  <2> SUFFICES ASSUME r > 0 PROVE FALSE
    BY <1>1
  <2>1. PICK i \in Nat : r = 1 + i
    <3>1. r - 1 \in Nat /\ r = 1 + (r - 1)
      OBVIOUS
    <3> QED BY <3>1
  <2>2. d * r = d + d * i /\ d * i \in Nat
    BY <2>1
  <2> QED BY <1>0, <1>1, <1>4, <2>2
<1>5. ASSUME a > 0, r = 0 PROVE d >= 2 * Whole
  <2>1. d * r = 0
    BY <1>5
  <2> QED BY <1>0, <1>1, <1>5, <2>1 DEF Whole
<1>6. a > 0 => r > 0 \/ d >= 2 * Whole
  BY <1>5
<1> QED BY <1>2, <1>3, <1>4, <1>6

LEMMA SharesSay == ASSUME FiguresInv PROVE SharesOfOne
<1> SUFFICES ASSUME NEW v \in VisaTypes, NEW opening \in Int
             PROVE  LET parts == EligibilityOf(v, opening)
                        all == parts.low + parts.medium + parts.high IN
                    all = 0 \/ all \in 999 .. 1001
  <2>1. time \in Nat
    BY RowsTyped
  <2>2. \A days \in {2, MaxTime} : time - days \in Int
    BY <2>1, RoomAssumption
  <2> QED BY <2>2 DEF SharesOfOne
<1> DEFINE group == {k \in DOMAIN cases : cases[k].visa = v /\ cases[k].completed /\ cases[k].created >= opening}
           low == {k \in group : cases[k].tier \in Low}
           medium == {k \in group : cases[k].tier \in Medium}
           high == {k \in group : cases[k].tier \in High}
           x == IF group = {} THEN 0 ELSE Rounded(1000 * Count(low), Count(group))
           y == IF group = {} THEN 0 ELSE Rounded(1000 * Count(medium), Count(group))
           z == IF group = {} THEN 0 ELSE Rounded(1000 * Count(high), Count(group))
<1>1. EligibilityOf(v, opening) = [low |-> x, medium |-> y, high |-> z]
  BY DEF EligibilityOf
<1>2. IsFiniteSet(group) /\ \A k \in group : cases[k].tier \in Tiers
  BY RowsTyped, FS_Subset
<1>3. low \cap medium = {} /\ high \cap (low \cup medium) = {} /\ group = high \cup (low \cup medium)
  BY <1>2 DEF Tiers, Low, Medium, High
<1>4. low \in SUBSET group /\ medium \in SUBSET group /\ high \in SUBSET group
  OBVIOUS
<1>5. CASE group = {}
  BY <1>1, <1>5
<1>6. CASE group # {}
  <2>0. /\ x = Rounded(1000 * Count(low), Count(group)) /\ y = Rounded(1000 * Count(medium), Count(group))
        /\ z = Rounded(1000 * Count(high), Count(group))
    BY <1>6
  <2> HIDE DEF group, low, medium, high, x, y, z
  <2>1. IsFiniteSet(low) /\ IsFiniteSet(medium) /\ IsFiniteSet(high)
    BY <1>2, <1>4, FS_Subset
  <2>2. PICK some : some = low \cup medium
    OBVIOUS
  <2>3. IsFiniteSet(some) /\ Count(some) = Count(low) + Count(medium)
    BY <1>3, <2>1, <2>2, CountedApart
  <2>4. Count(group) = Count(high) + Count(some)
    BY <1>3, <2>1, <2>2, <2>3, CountedApart
  <2>5. PICK a \in Nat, b \in Nat, c \in Nat, d \in Nat \ {0} :
           a = Count(low) /\ b = Count(medium) /\ c = Count(high) /\ d = Count(group)
    BY <1>2, <1>4, <1>6, Counted
  <2>6. a + b + c = d
    BY <2>3, <2>4, <2>5
  <2>7. PICK am \in Nat, bm \in Nat, cm \in Nat : am = 1000 * a /\ bm = 1000 * b /\ cm = 1000 * c
    OBVIOUS
  <2>0a. x = Rounded(am, d) /\ y = Rounded(bm, d) /\ z = Rounded(cm, d)
    BY <2>0, <2>5, <2>7
  <2>8. PICK p \in Nat, p1rest \in 0 .. 2 * d - 1 : p = x /\ 2 * am + d = 2 * (d * p) + p1rest
    BY <2>0a, RoundedIs
  <2>9. PICK q \in Nat, q1rest \in 0 .. 2 * d - 1 : q = y /\ 2 * bm + d = 2 * (d * q) + q1rest
    BY <2>0a, RoundedIs
  <2>10. PICK r \in Nat, r1rest \in 0 .. 2 * d - 1 : r = z /\ 2 * cm + d = 2 * (d * r) + r1rest
    BY <2>0a, RoundedIs
  <2>11. PICK s \in Nat : s = p + q + r
    OBVIOUS
  <2>12. d * s = d * p + d * q + d * r
    BY <2>11
  <2>13. PICK t \in Nat, left \in 0 .. 6 * d - 3 : t = d * s /\ 2003 * d = 2 * t + left
    <3>1. PICK i \in Nat, j \in Nat, k \in Nat : i = d * p /\ j = d * q /\ k = d * r
      OBVIOUS
    <3>2. d * s = i + j + k
      BY <2>12, <3>1
    <3>3. 2003 * d = 2 * (i + j + k) + (p1rest + q1rest + r1rest)
      BY <2>6, <2>7, <2>8, <2>9, <2>10, <3>1
    <3>4. p1rest + q1rest + r1rest \in 0 .. 6 * d - 3
      OBVIOUS
    <3>5. PICK m \in Nat, n \in 0 .. 6 * d - 3 : m = i + j + k /\ n = p1rest + q1rest + r1rest
      BY <3>4
    <3>6. m = d * s /\ 2003 * d = 2 * m + n
      BY <3>2, <3>3, <3>5
    <3> QED BY <3>6
  <2>14. s <= 1001
    <3> SUFFICES ASSUME s > 1001 PROVE FALSE
      OBVIOUS
    <3>1. PICK i \in Nat : s = 1002 + i
      <4>1. s - 1002 \in Nat /\ s = 1002 + (s - 1002)
        OBVIOUS
      <4> QED BY <4>1
    <3>2. d * s = 1002 * d + d * i /\ d * i \in Nat
      BY <3>1
    <3> QED BY <2>13, <3>2
  <2>15. s >= 999
    <3> SUFFICES ASSUME s < 999 PROVE FALSE
      OBVIOUS
    <3>1. PICK i \in Nat : s = 998 - i
      <4>1. 998 - s \in Nat /\ s = 998 - (998 - s)
        OBVIOUS
      <4> QED BY <4>1
    <3>2. d * s = 998 * d - d * i /\ d * i \in Nat
      BY <3>1
    <3> QED BY <2>13, <3>2
  <2>16. x + y + z \in 999 .. 1001
    BY <2>8, <2>9, <2>10, <2>11, <2>14, <2>15
  <2> QED BY <1>1, <2>16
<1> QED BY <1>5, <1>6

LEMMA RetentionSays == ASSUME FiguresInv PROVE RetentionTrue
<1> SUFFICES ASSUME NEW days \in {2, MaxTime}, NEW later \in {1, 2}, NEW u \in JoinedSince(time - days)
             PROVE  LET day == DayOf(people[u].joined)
                        cohort == {v \in JoinedSince(time - days) : DayOf(people[v].joined) = day}
                        shown == retention(time - days, day, later) IN
                    /\ shown = TooYoung <=> day + later > DayOf(time)
                    /\ <<u, day + later>> \in attendance =>
                          shown > 0 \/ shown = TooYoung \/ Count(cohort) >= 2 * Whole
                    /\ shown > 0 => \E v \in cohort : <<v, day + later>> \in attendance
  BY DEF RetentionTrue
<1>0. PICK opening \in Int : opening = time - days /\ u \in JoinedSince(opening)
  BY RowsTyped, RoomAssumption
<1>1. PICK from \in Nat : from = (IF opening < 0 THEN 0 ELSE opening)
  OBVIOUS
<1>2. PICK day \in Nat : day = DayOf(people[u].joined) /\ DayOf(from) \in 0 .. day /\ DayOf(time) \in Nat
  <2>1. u \in DOMAIN people /\ people[u].joined >= opening
    BY <1>0 DEF JoinedSince
  <2>2. time \in Nat /\ people[u].joined \in 0 .. time
    BY <2>1, RowsTyped
  <2>3. people[u].joined \in Nat /\ from <= people[u].joined /\ people[u].joined <= time
    BY <1>1, <2>1, <2>2
  <2> QED BY <2>2, <2>3, BucketIs
<1> DEFINE cohort == {v \in JoinedSince(opening) : DayOf(people[v].joined) = day}
           loaded == {v \in attendance : v[2] >= DayOf(from)}
           back == {v \in cohort : <<v, day + later>> \in loaded}
<1>3. IsFiniteSet(cohort) /\ u \in cohort /\ back \in SUBSET cohort
  <2>1. IsFiniteSet(cohort)
    BY RowsTyped, FS_Subset DEF JoinedSince
  <2> QED BY <1>0, <1>2, <2>1
<1>4. <<u, day + later>> \in attendance => u \in back
  <2>1. day + later >= DayOf(from)
    BY <1>2
  <2> QED BY <1>3, <2>1
<1>5. back # {} => \E v \in cohort : <<v, day + later>> \in attendance
  OBVIOUS
<1>6. retention(opening, day, later)
        = IF day + later > DayOf(time) THEN TooYoung
          ELSE IF cohort = {} THEN 0 ELSE Rounded(Whole * Count(back), Count(cohort))
  BY <1>1 DEF retention
<1>7. Count(cohort) \in Nat \ {0} /\ Count(back) \in Nat /\ Count(back) <= Count(cohort) /\ (Count(back) = 0 <=> back = {})
  <2> HIDE DEF cohort, back
  <2>1. cohort \in SUBSET cohort /\ cohort # {}
    BY <1>3
  <2>2. Count(cohort) = 0 <=> cohort = {}
    BY <1>3, <2>1, Counted
  <2>3. Count(cohort) \in Nat
    BY <1>3, <2>1, Counted
  <2>4. Count(back) \in Nat /\ Count(back) <= Count(cohort) /\ (Count(back) = 0 <=> back = {})
    BY <1>3, Counted
  <2> QED BY <2>1, <2>2, <2>3, <2>4
<1>8. PICK all : all = cohort
  OBVIOUS
<1> HIDE DEF cohort, loaded, back
<1>9. PICK a \in Nat, d \in Nat \ {0} : a = Count(back) /\ d = Count(cohort) /\ a <= d
  BY <1>7
<1>10. PICK part : part = Rounded(Whole * a, d)
  OBVIOUS
<1>11. part \in Nat /\ (a = 0 => part = 0) /\ (a > 0 => part > 0 \/ d >= 2 * Whole)
  BY <1>9, <1>10, PartIs
<1>12. retention(opening, day, later) = IF day + later > DayOf(time) THEN TooYoung ELSE part
  BY <1>3, <1>6, <1>9, <1>10
<1>13. retention(opening, day, later) = TooYoung <=> day + later > DayOf(time)
  BY <1>11, <1>12 DEF TooYoung
<1>14. <<u, day + later>> \in attendance =>
          \/ retention(opening, day, later) > 0 \/ retention(opening, day, later) = TooYoung
          \/ Count(cohort) >= 2 * Whole
  <2>1. CASE day + later > DayOf(time)
    BY <1>13, <2>1
  <2>2. CASE ~(day + later > DayOf(time))
    <3>1. retention(opening, day, later) = part
      BY <1>12, <2>2
    <3>2. <<u, day + later>> \in attendance => Count(back) # 0
      BY <1>4, <1>7, <2>2
    <3>3. Count(back) # 0 => part > 0 \/ d >= 2 * Whole
      BY <1>9, <1>11
    <3> QED BY <1>9, <3>1, <3>2, <3>3
  <2> QED BY <2>1, <2>2
<1>15. retention(opening, day, later) > 0 => \E v \in cohort : <<v, day + later>> \in attendance
  <2>1. retention(opening, day, later) > 0 => part > 0
    BY <1>12 DEF TooYoung
  <2>2. part > 0 => Count(back) # 0
    BY <1>9, <1>11
  <2> QED BY <1>5, <1>7, <2>1, <2>2
<1> QED BY <1>0, <1>2, <1>13, <1>14, <1>15 DEF cohort

LEMMA SessionsSay == ASSUME FiguresInv PROVE SessionsInTrend
<1> SUFFICES ASSUME NEW days \in Nat
             PROVE  LET shown == engagement(days) IN
                    /\ shown.now + shown.then = engagement(2 * days).now
                    /\ AddedUp(shown.trend) = shown.now
                    /\ completed_percent(time - days) <= Whole
                    /\ completed_percent(time - days) > 0 => AddedUp(session_trend(time - days)) > 0
                    /\ AddedUp(session_trend(time - days)) > 0 =>
                          completed_percent(time - days) > 0 \/ Count(Taken(time - days)) >= 2 * Whole
  BY RoomAssumption DEF SessionsInTrend
<1>0. PICK opening \in Int : opening = time - days
  BY RowsTyped
<1>1. engagement(days).now + engagement(days).then = engagement(2 * days).now
  <2> DEFINE held == {b \in DOMAIN sessions : sessions[b].status = "completed" /\ sessions[b].start >= time - 2 * days}
             now == {b \in held : sessions[b].start >= time - days}
             before == {b \in DOMAIN sessions : sessions[b].status = "completed"
                                                /\ sessions[b].start >= time - 2 * (2 * days)}
             lately == {b \in before : sessions[b].start >= time - 2 * days}
  <2>1. IsFiniteSet(held) /\ now \in SUBSET held
    BY RowsTyped, FS_Subset
  <2>2. lately = held
    <3>1. ASSUME NEW b \in DOMAIN sessions, sessions[b].start >= time - 2 * days
          PROVE  sessions[b].start >= time - 2 * (2 * days)
      <4>1. time \in Nat /\ sessions[b].start \in Nat
        BY RowsTyped
      <4> QED BY <3>1, <4>1
    <3> QED BY <3>1
  <2>3. /\ engagement(days).now = Count(now) /\ engagement(days).then = Count(held \ now)
        /\ engagement(2 * days).now = Count(lately)
    BY DEF engagement
  <2> HIDE DEF held, now, before, lately
  <2>4. Count(held \ now) = Count(held) - Count(now) /\ Count(held) \in Nat /\ Count(now) \in Nat
    BY <2>1, Counted
  <2> QED BY <2>2, <2>3, <2>4
<1>2. AddedUp(engagement(days).trend) = engagement(days).now
  <2> DEFINE held == {b \in DOMAIN sessions : sessions[b].status = "completed" /\ sessions[b].start >= time - 2 * days}
             now == {b \in held : sessions[b].start >= time - days}
             bucket == [b \in now |-> MonthOf(sessions[b].start)]
  <2>1. IsFiniteSet(now) /\ DOMAIN bucket = now
    BY RowsTyped, FS_Subset
  <2>2. engagement(days).now = Count(now) /\ engagement(days).trend = CountsBy(bucket)
    BY DEF engagement
  <2> HIDE DEF held, now, bucket
  <2> QED BY <2>1, <2>2, CountsAddUp DEF Count
<1>3. PICK all : all = Taken(opening)
  OBVIOUS
<1> DEFINE held == {b \in all : sessions[b].status = "completed"}
           listed == {b \in DOMAIN sessions : sessions[b].start >= opening /\ sessions[b].status = "completed"}
           bucket == [b \in listed |-> MonthOf(sessions[b].start)]
<1>4. IsFiniteSet(all) /\ held \in SUBSET all /\ listed = held
  <2>1. IsFiniteSet(all)
    BY <1>3, RowsTyped, FS_Subset DEF Taken
  <2>2. \A b : sessions[b].status = "completed" => sessions[b].status # "pending"
    OBVIOUS
  <2> QED BY <1>3, <2>1, <2>2 DEF Taken
<1>5. completed_percent(opening) = IF all = {} THEN 0 ELSE Rounded(Whole * Count(held), Count(all))
  BY <1>3 DEF completed_percent
<1>6. session_trend(opening) = CountsBy(bucket) /\ DOMAIN bucket = listed
  BY DEF session_trend
<1> HIDE DEF held, listed, bucket
<1>7. AddedUp(session_trend(opening)) = Count(held)
  <2>1. IsFiniteSet(DOMAIN bucket)
    BY <1>4, <1>6, FS_Subset
  <2> QED BY <1>4, <1>6, <2>1, CountsAddUp DEF Count
<1>8. PICK a \in Nat, d \in Nat : a = Count(held) /\ d = Count(all) /\ a <= d
  BY <1>4, Counted
<1>9. d = 0 <=> all = {}
  <2>1. all \in SUBSET all
    OBVIOUS
  <2> QED BY <1>4, <1>8, <2>1, Counted
<1>10. PICK part : part = completed_percent(opening)
  OBVIOUS
<1>11. part <= Whole /\ (part > 0 => a > 0) /\ (a > 0 => part > 0 \/ d >= 2 * Whole)
  <2>1. CASE d = 0
    BY <1>5, <1>8, <1>9, <1>10, <2>1 DEF Whole
  <2>2. CASE d # 0
    <3>1. part = Rounded(Whole * a, d)
      BY <1>5, <1>8, <1>9, <1>10, <2>2
    <3>2. d \in Nat \ {0}
      BY <2>2
    <3>3. part \in Nat /\ part <= Whole /\ (a = 0 => part = 0) /\ (a > 0 => part > 0 \/ d >= 2 * Whole)
      BY <1>8, <3>1, <3>2, PartIs
    <3> QED BY <3>3
  <2> QED BY <2>1, <2>2
<1> QED BY <1>0, <1>1, <1>2, <1>3, <1>7, <1>8, <1>10, <1>11

\* What happened in a window is finite, and has its instant.
LEMMA UnionIs ==
    ASSUME FiguresInv, NEW opening \in Int
    PROVE  IsFiniteSet(ActivityUnion(opening)) /\ \A e \in ActivityUnion(opening) : e.at \in Int
<1> DEFINE seekers == {v \in JoinedSince(opening) : people[v].role = "seeker"}
           advisors == {v \in JoinedSince(opening) : people[v].role = "advisor"}
           done == {c \in DOMAIN sessions : sessions[c].status = "completed" /\ sessions[c].updated >= opening}
           f == [u \in seekers |-> [at |-> people[u].joined, kind |-> "registered", of |-> u]]
           g == [u \in advisors |-> [at |-> people[u].joined, kind |-> "applied", of |-> u]]
           h == [b \in done |-> [at |-> sessions[b].updated, kind |-> "completed", of |-> b]]
           A == {[at |-> people[u].joined, kind |-> "registered", of |-> u] : u \in seekers}
           B == {[at |-> people[u].joined, kind |-> "applied", of |-> u] : u \in advisors}
           C == {[at |-> sessions[b].updated, kind |-> "completed", of |-> b] : b \in done}
<1>1. IsFiniteSet(seekers) /\ IsFiniteSet(advisors) /\ IsFiniteSet(done)
  BY RowsTyped, FS_Subset DEF JoinedSince
<1>2. f \in Surjection(seekers, A) /\ g \in Surjection(advisors, B) /\ h \in Surjection(done, C)
  BY DEF Surjection
<1>3. ActivityUnion(opening) = (A \cup B) \cup C
  BY DEF ActivityUnion
<1>4. \A e \in (A \cup B) \cup C : e.at \in Int
  <2>1. \A u \in JoinedSince(opening) : people[u].joined \in 0 .. time
    BY RowsTyped DEF JoinedSince
  <2>2. \A b \in done : sessions[b].updated \in Int
    BY RowsTyped
  <2>3. time \in Int
    BY RowsTyped
  <2>4. \A u \in JoinedSince(opening) : people[u].joined \in Int
    BY <2>1, <2>3
  <2>5. \A e \in A : e.at \in Int
    BY <2>4
  <2>6. \A e \in B : e.at \in Int
    BY <2>4
  <2>7. \A e \in C : e.at \in Int
    BY <2>2
  <2> HIDE DEF A, B, C
  <2> QED BY <2>5, <2>6, <2>7
<1> HIDE DEF seekers, advisors, done, f, g, h, A, B, C
<1>5. IsFiniteSet(A) /\ IsFiniteSet(B) /\ IsFiniteSet(C)
  BY <1>1, <1>2, FS_Surjection
<1>6. IsFiniteSet(A \cup B)
  BY <1>5, FS_Union
<1>7. PICK D : D = A \cup B
  OBVIOUS
<1>8. IsFiniteSet(D \cup C)
  BY <1>5, <1>6, <1>7, FS_Union
<1> QED BY <1>3, <1>4, <1>7, <1>8

\* A page begins where the one before it ends, and the last one holds the oldest row.
LEMMA PagesMeet ==
    ASSUME NEW T \in Nat
    PROVE  \E off : /\ Pages(T) \in Nat
                    /\ \A n \in 1 .. Pages(T) : /\ off[n] = (n - 1) * FeedPage
                                                /\ off[n] \in Nat /\ off[n] < T
                                                /\ n < Pages(T) => off[n] + FeedPage <= T
                    /\ \A k \in 1 .. T : \E n \in 1 .. Pages(T), i \in 1 .. FeedPage : k = off[n] + i
                    /\ \A m, n \in 1 .. Pages(T) : m < n => off[m] + FeedPage <= off[n]
<1>0. PICK F \in Nat \ {0} : F = FeedPage
  BY FeedAssumption
<1>1. PICK last \in Nat, rest \in 0 .. F - 1 : last = Pages(T) /\ T + F - 1 = F * last + rest
  <2>1. T + F - 1 \in Nat
    OBVIOUS
  <2>2. PICK N \in Nat : N = T + F - 1
    BY <2>1
  <2> QED BY <1>0, <2>2, Divides DEF Pages
<1>2. PICK off : off = [n \in 1 .. last |-> (n - 1) * F]
  OBVIOUS
<1>3. \A n \in 1 .. last : off[n] = (n - 1) * F
  BY <1>2
<1>4. ASSUME NEW n \in 1 .. last
      PROVE  off[n] \in Nat /\ off[n] < T /\ (n < last => off[n] + F <= T) /\ off[n] + F = F * n
  <2>1. PICK j \in Nat, i \in Nat : n = 1 + i /\ last = n + j
    <3>1. n - 1 \in Nat /\ n = 1 + (n - 1) /\ last - n \in Nat /\ last = n + (last - n)
      OBVIOUS
    <3> QED BY <3>1
  <2>2. off[n] = F * i /\ F * i \in Nat /\ F * n = F + F * i
    BY <1>3, <2>1
  <2>3. F * last = F + F * i + F * j /\ F * j \in Nat
    BY <2>1
  <2>4. ASSUME j > 0 PROVE F * j >= F
    <3>1. PICK l \in Nat : j = 1 + l
      <4>1. j - 1 \in Nat /\ j = 1 + (j - 1)
        BY <2>4
      <4> QED BY <4>1
    <3>2. F * j = F + F * l /\ F * l \in Nat
      BY <3>1
    <3> QED BY <3>2
  <2>5. off[n] < T
    BY <1>1, <2>2, <2>3
  <2>6. n < last => off[n] + F <= T
    BY <1>1, <2>1, <2>2, <2>3, <2>4
  <2> QED BY <2>2, <2>5, <2>6
<1>5. ASSUME NEW k \in 1 .. T PROVE \E n \in 1 .. last, i \in 1 .. F : k = off[n] + i
  <2>1. PICK q \in Nat, r \in 0 .. F - 1 : k - 1 = F * q + r
    <3>1. k - 1 \in Nat
      OBVIOUS
    <3>2. PICK N \in Nat : N = k - 1
      BY <3>1
    <3>3. PICK q \in Nat, r \in 0 .. F - 1 : q = N \div F /\ N = F * q + r
      BY Divides
    <3>4. k - 1 = F * q + r
      BY <3>2, <3>3
    <3> QED BY <3>4
  <2>2. q < last
    <3> SUFFICES ASSUME q >= last PROVE FALSE
      OBVIOUS
    <3>1. PICK j \in Nat : q = last + j
      <4>1. q - last \in Nat /\ q = last + (q - last)
        OBVIOUS
      <4> QED BY <4>1
    <3>2. F * q = F * last + F * j /\ F * j \in Nat /\ F * last \in Nat
      BY <3>1
    <3> QED BY <1>1, <2>1, <3>2
  <2>3. q + 1 \in 1 .. last /\ r + 1 \in 1 .. F /\ off[q + 1] = F * q
    <3>1. q + 1 \in 1 .. last /\ r + 1 \in 1 .. F /\ (q + 1) - 1 = q
      BY <2>2
    <3>2. off[q + 1] = q * F
      BY <1>3, <3>1
    <3> QED BY <3>1, <3>2
  <2>4. k = off[q + 1] + (r + 1)
    <3>1. PICK p \in Nat : p = F * q
      OBVIOUS
    <3> QED BY <2>1, <2>3, <3>1
  <2> QED BY <2>3, <2>4
<1>6. ASSUME NEW m \in 1 .. last, NEW n \in 1 .. last, m < n PROVE off[m] + F <= off[n]
  <2>1. PICK j \in Nat : n = m + 1 + j
    <3>1. n - (m + 1) \in Nat /\ n = m + 1 + (n - (m + 1))
      BY <1>6
    <3> QED BY <3>1
  <2>2. m \in Nat /\ F * n = F * m + F + F * j /\ F * j \in Nat /\ F * m \in Nat
    BY <2>1
  <2>3. off[m] \in Nat /\ off[n] \in Nat /\ off[m] + F = F * m /\ off[n] + F = F * n
    BY <1>4
  <2> QED BY <2>2, <2>3
<1> QED BY <1>0, <1>1, <1>3, <1>4, <1>5, <1>6

\* A page is a stretch of the rows, as long as there is.
LEMMA PageIs ==
    ASSUME NEW S, NEW list \in Seq(S), NEW o \in Nat, NEW F \in Nat \ {0}, o < Len(list), NEW low, low = o + 1,
           NEW end, end = IF o + F < Len(list) THEN o + F ELSE Len(list),
           NEW page, page = SubSeq(list, low, end)
    PROVE  /\ page \in Seq(S) /\ Len(page) = end - o /\ end - o \in Nat \ {0}
           /\ \A i \in 1 .. end - o : page[i] = list[o + i] /\ o + i \in 1 .. Len(list)
<1>1. Len(list) \in Nat /\ end \in Nat /\ end > o /\ end <= Len(list)
  OBVIOUS
<1>3. low \in Int /\ \A i \in low .. end : list[i] \in S
  BY <1>1
<1>4. /\ SubSeq(list, low, end) \in Seq(S)
      /\ Len(SubSeq(list, low, end)) = IF low <= end THEN end - low + 1 ELSE 0
      /\ \A i \in 1 .. end - low + 1 : SubSeq(list, low, end)[i] = list[low + i - 1]
  BY <1>1, <1>3, SubSeqProperties
<1>5. end - low + 1 = end - o /\ low <= end /\ end - o \in Nat \ {0}
  BY <1>1
<1>6. ASSUME NEW i \in 1 .. end - o PROVE page[i] = list[o + i] /\ o + i \in 1 .. Len(list)
  <2>1. i \in 1 .. end - low + 1 /\ low + i - 1 = o + i
    BY <1>1, <1>5
  <2>2. page[i] = list[low + i - 1]
    BY <1>4, <2>1
  <2> QED BY <1>1, <2>1, <2>2
<1>7. page \in Seq(S) /\ Len(page) = end - o
  BY <1>4, <1>5
<1> QED BY <1>5, <1>6, <1>7

\* The pages show all of the rows, each in one place, newest first.
ShownOn(page, last, rows) ==
    /\ \A n \in 1 .. last : Len(page[n]) > 0 /\ (n < last => Len(page[n]) = FeedPage)
    /\ \A e \in rows : \E n \in 1 .. last : e \in ToSet(page[n])
    /\ \A m, n \in 1 .. last : \A i \in DOMAIN page[m], j \in DOMAIN page[n] :
          /\ page[m][i] \in rows
          /\ m < n \/ (m = n /\ i < j) =>
                page[m][i] # page[n][j] /\ page[m][i].at >= page[n][j].at

LEMMA FeedSays == ASSUME FiguresInv PROVE FeedComplete
<1> SUFFICES ASSUME NEW days \in {2, MaxTime}
             PROVE  LET opening == time - days
                        last == Pages(Count(ActivityUnion(opening)))
                        page == [n \in 1 .. last |-> FeedRows(opening, (n - 1) * FeedPage, FeedPage)] IN
                    ShownOn(page, last, ActivityUnion(opening))
  BY DEF FeedComplete, ShownOn
<1>0. PICK opening \in Int : opening = time - days
  BY RowsTyped, RoomAssumption
<1>1. PICK U : U = ActivityUnion(opening)
  OBVIOUS
<1>2. IsFiniteSet(U) /\ \A e \in U : e.at \in Int
  BY <1>1, UnionIs
<1>3. PICK feed : feed = Feed(opening)
  OBVIOUS
<1>4. PICK T \in Nat : /\ T = Count(U) /\ T = Len(feed) /\ feed \in Seq(U)
                       /\ \A e \in U : \E k \in 1 .. T : feed[k] = e
                       /\ \A k, l \in 1 .. T : k < l => feed[k] # feed[l] /\ feed[k].at >= feed[l].at
  <2>1. PICK value : value = [e \in U |-> e.at]
    OBVIOUS
  <2>2. \A e \in U : value[e] = e.at /\ value[e] \in Int
    BY <1>2, <2>1
  <2>3. feed = Descending(U, value)
    BY <1>1, <1>3, <2>1 DEF Feed
  <2>4. GoesDown(U, value, feed)
    BY <1>2, <2>2, <2>3, DescendingIs
  <2>5. feed \in Seq(U) /\ Len(feed) = Count(U) /\ \A e \in U : \E k \in 1 .. Len(feed) : feed[k] = e
    BY <2>4 DEF GoesDown, Count
  <2>6. ASSUME NEW k \in 1 .. Len(feed), NEW l \in 1 .. Len(feed), k < l
        PROVE  feed[k] # feed[l] /\ feed[k].at >= feed[l].at
    <3>1. feed[k] \in U /\ feed[l] \in U
      BY <2>5
    <3>2. feed[k] # feed[l] /\ value[feed[k]] >= value[feed[l]]
      BY <2>4, <2>6 DEF GoesDown
    <3> QED BY <2>2, <3>1, <3>2
  <2>7. Len(feed) \in Nat
    BY <2>5
  <2> QED BY <2>5, <2>6, <2>7
<1>6. PICK F \in Nat \ {0} : F = FeedPage
  BY FeedAssumption
<1>5. PICK off : /\ Pages(T) \in Nat
                 /\ \A n \in 1 .. Pages(T) : /\ off[n] = (n - 1) * FeedPage
                                             /\ off[n] \in Nat /\ off[n] < T
                                             /\ n < Pages(T) => off[n] + FeedPage <= T
                 /\ \A k \in 1 .. T : \E n \in 1 .. Pages(T), i \in 1 .. FeedPage : k = off[n] + i
                 /\ \A m, n \in 1 .. Pages(T) : m < n => off[m] + FeedPage <= off[n]
  BY PagesMeet
<1>7. PICK last : last = Pages(T)
  OBVIOUS
<1>70. last \in Nat
  BY <1>5, <1>7
<1>71. \A n \in 1 .. last : off[n] \in Nat /\ off[n] < T /\ (n < last => off[n] + F <= T)
  BY <1>5, <1>6, <1>7
<1>72. \A k \in 1 .. T : \E n \in 1 .. last, i \in 1 .. F : k = off[n] + i
  BY <1>5, <1>6, <1>7
<1>73. \A m, n \in 1 .. last : m < n => off[m] + F <= off[n]
  BY <1>5, <1>6, <1>7
<1>8. PICK page : page = [n \in 1 .. last |-> FeedRows(opening, (n - 1) * FeedPage, FeedPage)]
  OBVIOUS
<1>9. PICK len : len = [n \in 1 .. last |-> IF off[n] + F < T THEN F ELSE T - off[n]]
  OBVIOUS
<1>10. \A n \in 1 .. last : len[n] = IF off[n] + F < T THEN F ELSE T - off[n]
  BY <1>9
<1>11. ASSUME NEW n \in 1 .. last
       PROVE  /\ Len(page[n]) = len[n] /\ len[n] \in 1 .. F /\ DOMAIN page[n] = 1 .. len[n]
              /\ \A i \in 1 .. len[n] : page[n][i] = feed[off[n] + i] /\ off[n] + i \in 1 .. T
              /\ n < last => len[n] = F
              /\ \A i \in 1 .. F : off[n] + i <= T => i <= len[n]
  <2>1. PICK o \in Nat : o = off[n] /\ o < T /\ (n < last => o + F <= T)
    BY <1>71
  <2>2. PICK end : end = IF o + F < Len(feed) THEN o + F ELSE Len(feed)
    OBVIOUS
  <2>3. page[n] = FeedRows(opening, o, F)
    BY <1>5, <1>6, <1>7, <1>8, <2>1
  <2>4. PICK low : low = o + 1
    OBVIOUS
  <2>5. PICK rows : rows = page[n] /\ rows = SubSeq(feed, low, end)
    BY <1>3, <2>2, <2>3, <2>4 DEF FeedRows
  <2>6. /\ rows \in Seq(U) /\ Len(rows) = end - o /\ end - o \in Nat \ {0}
        /\ \A i \in 1 .. end - o : rows[i] = feed[o + i] /\ o + i \in 1 .. Len(feed)
    <3>1. o < Len(feed)
      BY <1>4, <2>1
    <3>2. feed \in Seq(U) /\ F \in Nat \ {0} /\ o \in Nat
      BY <1>4, <2>1
    <3> QED BY <2>2, <2>4, <2>5, <3>1, <3>2, PageIs
  <2>7. end - o = len[n]
    <3>1. len[n] = IF o + F < T THEN F ELSE T - o
      BY <1>10, <2>1
    <3>2. end = IF o + F < T THEN o + F ELSE T
      BY <1>4, <2>2
    <3> QED BY <3>1, <3>2
  <2>8. DOMAIN rows = 1 .. len[n]
    BY <2>6, <2>7
  <2>9. len[n] \in 1 .. F /\ (n < last => len[n] = F)
    BY <1>10, <2>1
  <2>10. \A i \in 1 .. F : o + i <= T => i <= len[n]
    BY <1>10, <2>1
  <2> QED BY <1>4, <2>1, <2>5, <2>6, <2>7, <2>8, <2>9, <2>10
<1>12. \A n \in 1 .. last : Len(page[n]) > 0 /\ (n < last => Len(page[n]) = FeedPage)
  BY <1>6, <1>11
<1>13. ASSUME NEW e \in U PROVE \E n \in 1 .. last : e \in ToSet(page[n])
  <2>1. PICK k \in 1 .. T : feed[k] = e
    BY <1>4
  <2>2. PICK n \in 1 .. last, i \in 1 .. F : k = off[n] + i
    BY <1>72
  <2>3. i \in 1 .. len[n]
    BY <1>11, <2>2
  <2>4. page[n][i] = e /\ i \in DOMAIN page[n]
    BY <1>11, <2>1, <2>2, <2>3
  <2> QED BY <2>4 DEF ToSet
<1>14. ASSUME NEW m \in 1 .. last, NEW n \in 1 .. last, NEW i \in DOMAIN page[m], NEW j \in DOMAIN page[n]
       PROVE  /\ page[m][i] \in U
              /\ m < n \/ (m = n /\ i < j) => page[m][i] # page[n][j] /\ page[m][i].at >= page[n][j].at
  <2>1. i \in 1 .. len[m] /\ len[m] \in 1 .. F /\ j \in 1 .. len[n] /\ len[n] \in 1 .. F
    BY <1>11
  <2>1a. page[m][i] = feed[off[m] + i] /\ off[m] + i \in 1 .. T
    BY <1>11, <2>1
  <2>1b. page[n][j] = feed[off[n] + j] /\ off[n] + j \in 1 .. T
    BY <1>11, <2>1
  <2>2. PICK k \in 1 .. T : k = off[m] + i /\ page[m][i] = feed[k]
    BY <2>1a
  <2>3. PICK l \in 1 .. T : l = off[n] + j /\ page[n][j] = feed[l]
    BY <2>1b
  <2>4. feed[k] \in U
    BY <1>4
  <2>5. off[m] \in Nat /\ off[n] \in Nat /\ (m < n => off[m] + F <= off[n])
    BY <1>71, <1>73
  <2>6. m < n \/ (m = n /\ i < j) => k < l
    BY <2>1, <2>2, <2>3, <2>5
  <2> QED BY <1>4, <2>2, <2>3, <2>4, <2>6
<1>15. last = Pages(Count(ActivityUnion(opening)))
  BY <1>1, <1>4, <1>7
<1>16. ShownOn(page, last, U)
  BY <1>12, <1>13, <1>14 DEF ShownOn
<1>17. page = [n \in 1 .. Pages(Count(ActivityUnion(opening))) |-> FeedRows(opening, (n - 1) * FeedPage, FeedPage)]
  BY <1>8, <1>15
<1>18. LET pages == [n \in 1 .. Pages(Count(ActivityUnion(opening))) |-> FeedRows(opening, (n - 1) * FeedPage, FeedPage)] IN
       ShownOn(pages, Pages(Count(ActivityUnion(opening))), ActivityUnion(opening))
  <2>1. ShownOn(page, Pages(Count(ActivityUnion(opening))), ActivityUnion(opening))
    BY <1>1, <1>15, <1>16
  <2> QED BY <1>17, <2>1
<1> QED BY <1>0, <1>18

\* The screens say the same of the same rows.
LEMMA FiguresSay == ASSUME FiguresInv PROVE FiguresAgree
<1>1. TrendsMatchCards /\ ScreensTellTheSame /\ FunnelsNarrow /\ AssessmentsMeet
  BY TrendsSay, ScreensSay, FunnelsSay, AssessmentsSay
<1>2. SharesOfOne /\ RetentionTrue /\ FeedComplete /\ SessionsInTrend
  BY SharesSay, RetentionSays, FeedSays, SessionsSay
<1> QED BY <1>1, <1>2 DEF FiguresAgree

\* dashboard_service, analytics_service: what the home screen and the tabs count, whatever
\* happened in which order, adds up, narrows down and is listed once.
THEOREM FiguresAreTrue == FiguresSpec => [](FiguresTypeOK /\ FiguresAgree)
<1>1. FiguresSpec => []FiguresInv
  BY FiguresInitInv, FiguresNextInv, PTL DEF FiguresSpec
<1>2. FiguresInv => FiguresTypeOK /\ FiguresAgree
  BY FiguresSay DEF FiguresInv
<1> QED BY <1>1, <1>2, PTL

=============================================================================
