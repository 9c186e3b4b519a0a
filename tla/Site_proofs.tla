----------------------------- MODULE Site_proofs -----------------------------
(***************************************************************************)
(* Proofs about WebPages, for any number of tabs and accounts and any      *)
(* lifetimes, and about Site: servers and visitors together keep what each *)
(* keeps alone.                                                            *)
(*                                                                         *)
(* What makes a ban end an account's sessions in time is a bound on every  *)
(* token that is under way, not only on the one in the cookie: no token    *)
(* outlives, by more than a lifetime, its account's ban or the last sign-in *)
(* that had passed its check before the ban.  No other sign-in of a banned *)
(* account is ever past its check.                                         *)
(***************************************************************************)
EXTENDS Site, Server_proofs

Asked ==
    [kind : {"request"}, to : Links \cup Forms \cup {"detail"},
     user : Users \cup {NoUser}, token : Tokens]
Started == [kind : {"signing"}, user : Users, cleared : BOOLEAN]
Rendered == [kind : {"page"}, page : Pages, cookie : {<<>>}]
Redirected ==
    [kind : {"redirect"}, page : Links \cup {"detail"},
     cookie : {<<>>} \cup {<<token>> : token \in Tokens}]
Responses == Rendered \cup Redirected

(* The tokens somebody may still send. *)
UnderWay(token) ==
    \/ token = jar.token
    \/ \E t \in Tabs : tab[t].kind = "request" /\ token = tab[t].token
    \/ \E t \in Tabs : tab[t].kind = "redirect" /\ tab[t].cookie = <<token>>

Outlasts(token) ==
    token.user \in Users =>
        /\ token.exp <= now + Lifetime
        /\ token.user \in barred => token.exp <= sealedAt[token.user] + Lifetime

AllCleared == \A t \in Tabs : tab[t].kind = "signing" => tab[t].cleared

WInv == WTypeOK /\ AllCleared /\ \A token \in Tokens : UnderWay(token) => Outlasts(token)

LEMMA NoTokenType == NoToken \in Tokens /\ Outlasts(NoToken)
  BY WebAssumption DEF NoToken, Tokens, Outlasts

LEMMA NoCookieType == NoCookie \in [token : Tokens, drop : 0 .. MaxTime + Lifetime]
  BY NoTokenType, WebAssumption DEF NoCookie

LEMMA IssueType ==
    ASSUME WTypeOK, NEW u \in Users
    PROVE  /\ Issue(u) \in Tokens
           /\ Issue(u).user = u /\ Issue(u).exp = now + Lifetime
  BY WebAssumption DEF Issue, Tokens, WTypeOK

LEMMA TabKinds ==
    ASSUME NEW s \in TabStates
    PROVE  /\ s.kind = "shown" => s \in [kind : {"shown"}, page : Pages]
           /\ s.kind = "request" => s \in Asked
           /\ s.kind = "signing" => s \in Started
           /\ s.kind = "page" => s \in Rendered
           /\ s.kind = "redirect" => s \in Redirected
           /\ s.kind \in {"shown", "request", "signing", "page", "redirect"}
  BY DEF TabStates, Asked, Started, Rendered, Redirected

LEMMA SigningType ==
    ASSUME NEW u \in Users, u \notin barred
    PROVE  /\ Signing(u) \in Started /\ Signing(u) \in TabStates
           /\ Signing(u).kind = "signing" /\ Signing(u).cleared
  <1>1. Signing(u) = [kind |-> "signing", user |-> u, cleared |-> TRUE]
    BY DEF Signing
  <1> QED
    BY <1>1 DEF Started, TabStates

LEMMA RenderType == ASSUME NEW p \in Pages PROVE Render(p) \in Rendered
  BY DEF Render, Rendered

LEMMA RedirectType == ASSUME NEW to \in Links \cup {"detail"} PROVE Redirect(to) \in Redirected
  BY DEF Redirect, Redirected

LEMMA RedirectCookieType ==
    ASSUME NEW to \in Links, NEW token \in Tokens
    PROVE  /\ RedirectWithCookie(to, token) \in Redirected
           /\ RedirectWithCookie(to, token).cookie = <<token>>
  BY DEF RedirectWithCookie, Redirected

LEMMA CookieOrNone == \A token : <<token>> # <<>> /\ Len(<<token>>) = 1 /\ Head(<<token>>) = token
  OBVIOUS

LEMMA InitWInv == WInit => WInv
  <1> SUFFICES ASSUME WInit PROVE WInv
    OBVIOUS
  <1>1. WTypeOK
    <2>1. Shown("blank") \in TabStates
      BY DEF Shown, TabStates, Pages
    <2> QED
      BY <2>1, NoCookieType, WebAssumption DEF WInit, WTypeOK
  <1>2. ASSUME NEW token \in Tokens, UnderWay(token) PROVE Outlasts(token)
    <2>1. token = NoToken
      BY <1>2 DEF UnderWay, WInit, NoCookie, Shown
    <2> QED
      BY <2>1, NoTokenType
  <1>3. AllCleared
    BY DEF WInit, Shown, AllCleared
  <1> QED
    BY <1>1, <1>2, <1>3 DEF WInv

-----------------------------------------------------------------------------
(* What a handler does first issues no token: it answers, with a cookie at most
   to clear the jar, or has found the account welcome and goes on signing in. *)
NoNewToken(r) ==
    \/ r \in Responses /\ \A token \in Tokens : r.cookie = <<token>> => token = NoToken
    \/ r \in Started /\ r.cleared

LEMMA OpenPageType ==
    ASSUME NEW to, NEW token PROVE OpenPage(to, token) \in Responses /\ OpenPage(to, token).cookie = <<>>
  <1>1. \A p \in Pages : Render(p) \in Responses /\ Render(p).cookie = <<>>
    BY RenderType DEF Responses, Render
  <1>2. Redirect("login") \in Responses /\ Redirect("login").cookie = <<>>
    BY RedirectType DEF Responses, Redirect, Links
  <1> DEFINE Fine(r) == r \in Responses /\ r.cookie = <<>>
  <1>3. Fine(Me(token)) /\ Fine(NewForm(token))
    BY <1>1, <1>2 DEF Me, NewForm, Pages
  <1>4. Fine(LoginForm(token)) /\ Fine(Index) /\ Fine(RegisterForm) /\ Fine(SearchForm)
        /\ Fine(Render("not_found"))
    BY <1>1 DEF LoginForm, Index, RegisterForm, SearchForm, Pages
  <1>5. OpenPage(to, token) \in {Me(token), LoginForm(token), NewForm(token), Index,
                                 RegisterForm, SearchForm, Render("not_found")}
    BY DEF OpenPage
  <1> HIDE DEF Fine
  <1>6. Fine(OpenPage(to, token))
    BY <1>3, <1>4, <1>5
  <1> QED
    BY <1>6 DEF Fine

LEMMA AnswerStep ==
    ASSUME WInv, NEW t \in Tabs, Serve(t)
    PROVE  \E r \in TabStates : Answer(t, r) /\ NoNewToken(r)
  <1>1. tab[t] \in Asked
    BY TabKinds DEF WInv, WTypeOK, Serve
  <1>2. \A r \in Responses : r.cookie = <<>> => NoNewToken(r)
    BY CookieOrNone DEF NoNewToken
  <1>0. Responses \subseteq TabStates
    BY DEF Responses, Rendered, Redirected, TabStates
  <1>3. CASE tab[t].to = "POST register"
    <2>1. RegisterSubmit(t)
      BY <1>3 DEF Serve
    <2>2. CASE tab[t].user \in Users \ enrolled
      <3>1. Answer(t, Signing(tab[t].user))
        BY <2>1, <2>2 DEF RegisterSubmit
      <3>2. tab[t].user \in Users /\ tab[t].user \notin barred
        BY <2>2 DEF WInv, WTypeOK
      <3> QED
        BY <3>1, <3>2, SigningType DEF NoNewToken
    <2>3. CASE ~(tab[t].user \in Users \ enrolled)
      <3>1. Answer(t, Render("register")) /\ Render("register").cookie = <<>>
        BY <2>1, <2>3 DEF RegisterSubmit, Render
      <3> QED
        BY <1>0, <1>2, <3>1, RenderType DEF Responses, Pages
    <2> QED
      BY <2>2, <2>3
  <1>4. CASE tab[t].to = "POST login"
    <2>1. LoginSubmit(t)
      BY <1>4 DEF Serve
    <2>2. CASE tab[t].user \in enrolled \ barred
      <3>1. Answer(t, Signing(tab[t].user))
        BY <2>1, <2>2 DEF LoginSubmit
      <3>2. tab[t].user \in Users /\ tab[t].user \notin barred
        BY <2>2 DEF WInv, WTypeOK
      <3> QED
        BY <3>1, <3>2, SigningType DEF NoNewToken
    <2>3. CASE ~(tab[t].user \in enrolled \ barred)
      <3>1. Answer(t, Render("login")) /\ Render("login").cookie = <<>>
        BY <2>1, <2>3 DEF LoginSubmit, Render
      <3> QED
        BY <1>0, <1>2, <3>1, RenderType DEF Responses, Pages
    <2> QED
      BY <2>2, <2>3
  <1>5. CASE tab[t].to = "POST logout"
    <2>1. Answer(t, RedirectWithCookie("index", NoToken))
      BY <1>5 DEF Serve, Logout
    <2> QED
      BY <1>0, <2>1, NoTokenType, RedirectCookieType, CookieOrNone DEF NoNewToken, Responses, Links
  <1>6. CASE tab[t].to = "POST search"
    <2>1. Answer(t, Render("search")) /\ Render("search").cookie = <<>>
      BY <1>6 DEF Serve, SearchSubmit, Render
    <2> QED
      BY <1>0, <1>2, <2>1, RenderType DEF Responses, Pages
  <1>7. CASE tab[t].to = "POST new"
    <2>1. PICK r \in {Redirect("login"), Redirect("detail"), Render("new")} : Answer(t, r)
      BY <1>7 DEF Serve, NewSubmit
    <2>2. r \in Responses /\ r.cookie = <<>>
      BY <2>1, RedirectType, RenderType DEF Responses, Links, Pages, Redirect, Render
    <2> QED
      BY <1>0, <1>2, <2>1, <2>2
  <1>8. CASE tab[t].to \notin {"POST register", "POST login", "POST logout", "POST search", "POST new"}
    <2>1. Answer(t, OpenPage(tab[t].to, tab[t].token))
      BY <1>8 DEF Serve, Get
    <2> QED
      BY <1>0, <1>2, <2>1, OpenPageType
  <1> QED
    BY <1>3, <1>4, <1>5, <1>6, <1>7, <1>8

-----------------------------------------------------------------------------
(* A token keeps within its bound as time passes and accounts get barred. *)
LEMMA OutlastsKept ==
    ASSUME WTypeOK, NEW token \in Tokens, Outlasts(token),
           now' \in {now, now + 1},
           \A u \in Users : u \in barred' => \/ u \in barred /\ sealedAt'[u] = sealedAt[u]
                                            \/ sealedAt'[u] = now
    PROVE  Outlasts(token)'
  <1>1. now \in Int /\ Lifetime \in Int /\ token.exp \in Int
    BY WebAssumption DEF WTypeOK, Tokens
  <1>2. \A u \in Users : sealedAt[u] \in Int
    BY DEF WTypeOK
  <1> QED
    BY <1>1, <1>2 DEF Outlasts

(* What a tab gets carries no token that was not under way already or keeps
   within its bound. *)
LEMMA TabStep ==
    ASSUME WInv, NEW t \in Tabs, NEW s \in TabStates,
           tab' = [tab EXCEPT ![t] = s],
           UNCHANGED <<now, barred, sealedAt>>,
           enrolled' \subseteq Users, enrolled \subseteq enrolled',
           jar' \in [token : Tokens, drop : 0 .. MaxTime + Lifetime],
           s.kind = "signing" => s.cleared,
           \A token \in Tokens :
               \/ token = jar'.token
               \/ s.kind = "request" /\ token = s.token
               \/ s.kind = "redirect" /\ s.cookie = <<token>>
               => UnderWay(token) \/ Outlasts(token)
    PROVE  WInv'
  <1>1. WTypeOK'
    BY DEF WInv, WTypeOK
  <1>2. ASSUME NEW token \in Tokens, UnderWay(token)' PROVE Outlasts(token)'
    <2>1. UnderWay(token) \/ Outlasts(token)
      BY <1>2 DEF UnderWay, WInv, WTypeOK
    <2>2. Outlasts(token)
      BY <2>1 DEF WInv
    <2> QED
      BY <2>2 DEF Outlasts
  <1>3. AllCleared'
    BY DEF WInv, WTypeOK, AllCleared
  <1> QED
    BY <1>1, <1>2, <1>3 DEF WInv

LEMMA ServeStep == ASSUME WInv, NEW t \in Tabs, Serve(t) PROVE WInv'
  <1>1. PICK r \in TabStates : Answer(t, r) /\ NoNewToken(r)
    BY AnswerStep
  <1>2. r.kind # "request"
    BY <1>1 DEF NoNewToken, Responses, Rendered, Redirected, Started
  <1>3. UNCHANGED <<now, jar, barred, sealedAt>>
    BY DEF Serve, RegisterSubmit, LoginSubmit, Logout, SearchSubmit, NewSubmit, Get, bans
  <1>4. enrolled' \subseteq Users /\ enrolled \subseteq enrolled'
    BY DEF WInv, WTypeOK, Serve, RegisterSubmit, LoginSubmit, Logout, SearchSubmit, NewSubmit,
           Get, bans
  <1>5. ASSUME NEW token \in Tokens,
               \/ token = jar'.token
               \/ r.kind = "request" /\ token = r.token
               \/ r.kind = "redirect" /\ r.cookie = <<token>>
        PROVE  UnderWay(token) \/ Outlasts(token)
    <2>1. CASE token = jar'.token
      BY <1>3, <2>1 DEF UnderWay
    <2>2. CASE r.kind = "redirect" /\ r.cookie = <<token>>
      <3>1. r \notin Started
        BY <2>2 DEF Started
      <3>2. token = NoToken
        BY <1>1, <2>2, <3>1 DEF NoNewToken
      <3> QED
        BY <3>2, NoTokenType
    <2> QED
      BY <1>2, <1>5, <2>1, <2>2
  <1>6. jar \in [token : Tokens, drop : 0 .. MaxTime + Lifetime]
    BY DEF WInv, WTypeOK
  <1>7. tab' = [tab EXCEPT ![t] = r]
    BY <1>1 DEF Answer
  <1>8. r.kind = "signing" => r.cleared
    BY <1>1 DEF NoNewToken, Responses, Rendered, Redirected
  <1> QED
    BY <1>3, <1>4, <1>5, <1>6, <1>7, <1>8, TabStep

(* A token issued late is the account's last way in: its own bound starts anew,
   and what else is under way keeps within it too. *)
LEMMA IssueStep == ASSUME WInv, NEW t \in Tabs, IssueToken(t) PROVE WInv'
  <1> DEFINE u == tab[t].user
             fresh == Issue(u)
             r == RedirectWithCookie("me", fresh)
  <1>1. tab[t] \in Started /\ tab[t].cleared
    BY TabKinds DEF WInv, WTypeOK, IssueToken, AllCleared
  <1>2. u \in Users /\ fresh \in Tokens /\ fresh.user = u /\ fresh.exp = now + Lifetime
    BY <1>1, IssueType DEF Started, WInv
  <1>3. r \in Redirected /\ r.kind = "redirect" /\ r.cookie = <<fresh>>
    BY <1>2, RedirectCookieType DEF Links, RedirectWithCookie
  <1>4. tab' = [tab EXCEPT ![t] = r] /\ r \in TabStates
    BY <1>3 DEF IssueToken, Answer, Redirected, TabStates
  <1>5. UNCHANGED <<now, enrolled, barred, jar>>
    BY DEF IssueToken
  <1>6. sealedAt' = IF u \in barred THEN [sealedAt EXCEPT ![u] = now] ELSE sealedAt
    BY <1>1 DEF IssueToken
  <1> HIDE DEF u, fresh, r
  <1>7. WTypeOK'
    BY <1>2, <1>4, <1>5, <1>6 DEF WInv, WTypeOK
  <1>8. AllCleared'
    BY <1>3, <1>4 DEF WInv, WTypeOK, AllCleared
  <1>9. ASSUME NEW token \in Tokens, UnderWay(token)' PROVE Outlasts(token)'
    <2>1. UnderWay(token) \/ token = fresh
      BY <1>3, <1>4, <1>5, <1>9, CookieOrNone DEF UnderWay, WInv, WTypeOK
    <2>2. CASE token = fresh
      <3>1. now + Lifetime \in Int
        BY WebAssumption DEF WInv, WTypeOK
      <3> QED
        BY <1>2, <1>5, <1>6, <2>2, <3>1 DEF Outlasts, WInv, WTypeOK
    <2>3. CASE UnderWay(token)
      <3>1. Outlasts(token) /\ WTypeOK
        BY <2>3 DEF WInv
      <3>2. \A v \in Users : v \in barred' => \/ v \in barred /\ sealedAt'[v] = sealedAt[v]
                                              \/ sealedAt'[v] = now
        BY <1>5, <1>6, <3>1 DEF WTypeOK
      <3> QED
        BY <1>5, <3>1, <3>2, OutlastsKept
    <2> QED
      BY <2>1, <2>2, <2>3
  <1> QED
    BY <1>7, <1>8, <1>9 DEF WInv

(* A request carries the token of the cookie or none. *)
LEMMA SendStep ==
    ASSUME WInv, NEW t \in Tabs, NEW to \in Links \cup Forms \cup {"detail"},
           NEW user \in Users \cup {NoUser},
           NEW cookie \in [token : Tokens, drop : 0 .. MaxTime + Lifetime],
           Send(t, to, user, cookie), jar' = cookie,
           UnderWay(cookie.token) \/ Outlasts(cookie.token),
           UNCHANGED <<now, bans>>
    PROVE  WInv'
  <1> DEFINE token == IF to \in Guarded THEN cookie.token ELSE NoToken
             s == Request(to, user, token)
  <1>1. token \in Tokens /\ cookie.token \in Tokens
    BY NoTokenType
  <1>2. UnderWay(token) \/ Outlasts(token)
    BY NoTokenType
  <1> HIDE DEF token
  <1>3. s \in Asked /\ s.kind = "request" /\ s.token = token /\ s.kind # "signing"
    BY <1>1 DEF Request, Asked
  <1>4. s \in TabStates
    BY <1>3 DEF Asked, TabStates
  <1>5. tab' = [tab EXCEPT ![t] = s]
    BY DEF Send, token
  <1> HIDE DEF s
  <1>6. UNCHANGED <<now, barred, sealedAt>> /\ enrolled' \subseteq Users /\ enrolled \subseteq enrolled'
    BY DEF bans, WInv, WTypeOK
  <1> QED
    BY <1>1, <1>2, <1>3, <1>4, <1>5, <1>6, TabStep

LEMMA VisitStep == ASSUME WInv, NEW t \in Tabs, Visit(t) PROVE WInv'
  <1>1. PICK to \in Links \cup Forms, user \in Users \cup {NoUser} : Send(t, to, user, jar)
    BY DEF Visit, Links, Forms
  <1>2. UNCHANGED <<now, bans, jar>>
    BY DEF Visit
  <1>3. jar \in [token : Tokens, drop : 0 .. MaxTime + Lifetime] /\ UnderWay(jar.token)
    BY DEF WInv, WTypeOK, UnderWay
  <1> QED
    BY <1>1, <1>2, <1>3, SendStep

LEMMA ShowStep ==
    ASSUME WInv, NEW t \in Tabs, NEW p \in Pages,
           tab' = [tab EXCEPT ![t] = Shown(p)], UNCHANGED <<now, bans, jar>>
    PROVE  WInv'
  <1>1. Shown(p) \in TabStates /\ Shown(p).kind = "shown"
    BY DEF Shown, TabStates
  <1>2. UNCHANGED <<now, barred, sealedAt, jar>> /\ enrolled' \subseteq Users
        /\ enrolled \subseteq enrolled' /\ jar \in [token : Tokens, drop : 0 .. MaxTime + Lifetime]
    BY DEF bans, WInv, WTypeOK
  <1>3. UnderWay(jar'.token)
    BY <1>2 DEF UnderWay
  <1> QED
    BY <1>1, <1>2, <1>3, TabStep

(* The cookie after a response. *)
LEMMA ReceiveStep == ASSUME WInv, NEW t \in Tabs, Receive(t) PROVE WInv'
  <1>1. tab[t] \in Responses
    BY TabKinds DEF WInv, WTypeOK, Receive, Responses
  <1>2. UNCHANGED <<now, bans>>
    BY DEF Receive
  <1>3. CASE tab[t].kind = "page"
    <2>1. tab[t].cookie = <<>> /\ tab[t].page \in Pages
      BY <1>1, <1>3 DEF Responses, Rendered, Redirected
    <2>2. jar' = jar /\ tab' = [tab EXCEPT ![t] = Shown(tab[t].page)]
      BY <1>3, <2>1 DEF Receive
    <2> QED
      BY <1>2, <2>1, <2>2, ShowStep
  <1>4. CASE tab[t].kind = "redirect"
    <2>1. tab[t] \in Redirected
      BY <1>1, <1>4 DEF Responses, Rendered
    <2>2. Send(t, tab[t].page, NoUser, jar')
      BY <1>4 DEF Receive
    <2>3. jar' \in [token : Tokens, drop : 0 .. MaxTime + Lifetime]
          /\ (UnderWay(jar'.token) \/ Outlasts(jar'.token))
      <3>1. CASE tab[t].cookie = <<>>
        BY <3>1 DEF Receive, WInv, WTypeOK, UnderWay
      <3>2. CASE tab[t].cookie # <<>>
        <4>1. PICK token \in Tokens : tab[t].cookie = <<token>>
          BY <2>1, <3>2 DEF Redirected
        <4>2. Head(tab[t].cookie) = token
          BY <4>1, CookieOrNone
        <4>3. CASE token = NoToken
          <5>1. jar' = NoCookie
            BY <3>2, <4>2, <4>3 DEF Receive
          <5> QED
            BY <5>1, NoCookieType, NoTokenType DEF NoCookie
        <4>4. CASE token # NoToken
          <5>1. jar' = [token |-> token, drop |-> now + Lifetime]
            BY <3>2, <4>2, <4>4 DEF Receive
          <5>2. now + Lifetime \in 0 .. MaxTime + Lifetime
            BY WebAssumption DEF WInv, WTypeOK
          <5> QED
            BY <1>4, <4>1, <5>1, <5>2 DEF UnderWay
        <4> QED
          BY <4>3, <4>4
      <3> QED
        BY <3>1, <3>2
    <2>4. tab[t].page \in Links \cup {"detail"}
      BY <2>1 DEF Redirected
    <2> QED
      BY <1>2, <2>2, <2>3, <2>4, SendStep
  <1> QED
    BY <1>3, <1>4 DEF Receive

LEMMA BarStep == ASSUME WInv, NEW u \in Users, Bar(u) PROVE WInv'
  <1>1. WTypeOK'
    BY DEF Bar, WInv, WTypeOK
  <1>2. \A v \in Users : v \in barred' => \/ v \in barred /\ sealedAt'[v] = sealedAt[v]
                                          \/ sealedAt'[v] = now
    BY DEF Bar, WInv, WTypeOK
  <1>3. ASSUME NEW token \in Tokens, UnderWay(token)' PROVE Outlasts(token)'
    <2>1. UnderWay(token)
      BY <1>3 DEF UnderWay, Bar
    <2>2. Outlasts(token) /\ WTypeOK
      BY <2>1 DEF WInv
    <2>3. now' \in {now, now + 1}
      BY DEF Bar
    <2> QED
      BY <1>2, <2>2, <2>3, OutlastsKept
  <1>4. AllCleared'
    BY DEF Bar, WInv, AllCleared
  <1> QED
    BY <1>1, <1>3, <1>4 DEF WInv

LEMMA AgeStep == ASSUME WInv, Age PROVE WInv'
  <1>1. jar' \in {jar, NoCookie}
    BY DEF Age
  <1>2. WTypeOK'
    BY <1>1, NoCookieType, WebAssumption DEF Age, WInv, WTypeOK, bans
  <1>3. ASSUME NEW token \in Tokens, UnderWay(token)' PROVE Outlasts(token)'
    <2>1. UnderWay(token) \/ token = NoToken
      BY <1>1, <1>3 DEF UnderWay, Age, NoCookie
    <2>2. Outlasts(token) /\ WTypeOK
      BY <2>1, NoTokenType DEF WInv
    <2>3. now' \in {now, now + 1} /\ UNCHANGED <<barred, sealedAt>>
      BY DEF Age, bans
    <2> QED
      BY <2>2, <2>3, OutlastsKept
  <1>4. AllCleared'
    BY DEF Age, WInv, AllCleared
  <1> QED
    BY <1>2, <1>3, <1>4 DEF WInv

LEMMA WNextInv == WInv /\ [WNext]_wvars => WInv'
  <1> SUFFICES ASSUME WInv, [WNext]_wvars PROVE WInv'
    OBVIOUS
  <1>1. ASSUME NEW t \in Tabs, GiveUp(t) PROVE WInv'
    BY <1>1, ShowStep DEF GiveUp, Pages
  <1>2. CASE UNCHANGED wvars
    BY <1>2 DEF wvars, WInv, WTypeOK, UnderWay, Outlasts, AllCleared
  <1> QED
    BY <1>1, <1>2, ServeStep, IssueStep, ReceiveStep, VisitStep, BarStep, AgeStep DEF WNext

LEMMA WInvariance == WSpec => []WInv
  BY InitWInv, WNextInv, PTL DEF WSpec

-----------------------------------------------------------------------------
(* Whatever tabs and responses cross: the cookie, what the tabs show and what
   is under way are of the forms the code produces, and no token or cookie
   lasts longer than a lifetime from now. *)
THEOREM PagesTypeCorrect == WSpec => []WTypeOK
  BY WInvariance, PTL DEF WInv

(* A step that takes a submission is the handler's, for a token that verifies. *)
LEMMA TakesVerified ==
    ASSUME WInv, [WNext]_wvars, NEW t \in Tabs, Takes(t)
    PROVE  now <= tab[t].token.exp + Leeway /\ UnderWay(tab[t].token) /\ tab[t].token \in Tokens
  <1>1. tab[t].kind = "request" /\ tab[t].to = "POST new" /\ tab'[t] = Redirect("detail")
    BY DEF Takes
  <1>2. tab[t] \in Asked
    BY <1>1, TabKinds DEF WInv, WTypeOK
  <1>3. Redirect("detail").kind = "redirect"
    BY DEF Redirect
  <1>4. tab \in [Tabs -> TabStates] /\ tab'[t] # tab[t]
    BY <1>1, <1>3 DEF WInv, WTypeOK
  <1>5. ~Visit(t) /\ ~Receive(t) /\ ~IssueToken(t)
    BY <1>1 DEF Visit, Loading, Receive, IssueToken
  <1>6. ~GiveUp(t)
    <2>1. Shown("blank").kind = "shown"
      BY DEF Shown
    <2> QED
      BY <1>1, <1>3, <1>4, <2>1 DEF GiveUp
  <1>7. ASSUME NEW x \in Tabs, x # t, Serve(x) \/ IssueToken(x) \/ Receive(x) \/ Visit(x) \/ GiveUp(x)
        PROVE  FALSE
    <2>1. \E s : tab' = [tab EXCEPT ![x] = s]
      BY <1>7 DEF Serve, RegisterSubmit, LoginSubmit, Logout, SearchSubmit, NewSubmit, Get,
                  Answer, IssueToken, Receive, Visit, GiveUp, Send
    <2> QED
      BY <1>4, <1>7, <2>1
  <1>8. ~(UNCHANGED wvars) /\ ~Age /\ \A u \in Users : ~Bar(u)
    BY <1>4 DEF wvars, Age, Bar
  <1>9. Serve(t)
    BY <1>5, <1>7, <1>8, <1>6 DEF WNext
  <1>10. PICK r \in IF Session(tab[t].token) = NoUser THEN {Redirect("login")}
                   ELSE {Redirect("detail"), Render("new")} : Answer(t, r)
    BY <1>1, <1>9 DEF Serve, NewSubmit
  <1>11. r = Redirect("detail")
    BY <1>1, <1>4, <1>10 DEF Answer
  <1>12. Session(tab[t].token) # NoUser
    BY <1>10, <1>11 DEF Redirect
  <1> QED
    BY <1>1, <1>2, <1>12 DEF Session, Verifies, UnderWay, Asked

(* For every lifetime and leeway: a banned account submits nothing once both
   have passed since the ban, or since the last token of a sign-in that had
   passed its check before, whichever of its tokens reaches a handler. *)
THEOREM BansBite == WSpec => BanBitesInTime
  <1>1. WInv /\ [WNext]_wvars =>
            \A t \in Tabs : Takes(t) /\ tab[t].token.user \in barred
                => now <= sealedAt[tab[t].token.user] + Lifetime + Leeway
    <2> SUFFICES ASSUME WInv, [WNext]_wvars, NEW t \in Tabs,
                        Takes(t), tab[t].token.user \in barred
                 PROVE  now <= sealedAt[tab[t].token.user] + Lifetime + Leeway
      OBVIOUS
    <2> DEFINE token == tab[t].token
    <2>1. now <= token.exp + Leeway /\ UnderWay(token) /\ token \in Tokens
      BY TakesVerified
    <2>2. token.user \in Users
      BY DEF WInv, WTypeOK
    <2> HIDE DEF token
    <2>3. token.exp <= sealedAt[token.user] + Lifetime
      BY <2>1, <2>2 DEF WInv, Outlasts, token
    <2>4. now \in Int /\ token.exp \in Int /\ sealedAt[token.user] \in Int
          /\ Lifetime \in Int /\ Leeway \in Int
      BY <2>1, <2>2, WebAssumption DEF WInv, WTypeOK, Tokens
    <2>5. now <= sealedAt[token.user] + Lifetime + Leeway
      BY <2>1, <2>3, <2>4
    <2> QED
      BY <2>5 DEF token
  <1> QED
    BY <1>1, WInvariance, PTL DEF WSpec, BanBitesInTime

(* For every number of tabs: once the cookie is gone and no login or
   registration is under way, no page still to arrive brings a session back. *)
THEOREM SessionsNeedLogins == WSpec => SessionsComeFromLogins
  <1>1. WInv /\ [WNext]_wvars =>
            ((jar = NoCookie /\ \A t \in Tabs : ~SigningIn(t)) => jar' = NoCookie)
    <2> SUFFICES ASSUME WInv, [WNext]_wvars, jar = NoCookie, \A t \in Tabs : ~SigningIn(t)
                 PROVE  jar' = NoCookie
      OBVIOUS
    <2>1. ASSUME NEW t \in Tabs, Receive(t) PROVE jar' = NoCookie
      <3>1. tab[t] \in Rendered \cup Redirected
        BY <2>1, TabKinds DEF WInv, WTypeOK, Receive
      <3>2. tab[t].cookie = <<>>
        BY <3>1 DEF SigningIn, Rendered, Redirected
      <3> QED
        BY <2>1, <3>2 DEF Receive
    <2>2. ASSUME NEW t \in Tabs, Serve(t) \/ IssueToken(t) \/ Visit(t) \/ GiveUp(t)
          PROVE  jar' = NoCookie
      BY <2>2 DEF Serve, IssueToken, Visit, GiveUp
    <2>3. CASE Age \/ (\E u \in Users : Bar(u)) \/ UNCHANGED wvars
      BY <2>3 DEF Age, Bar, wvars
    <2> QED
      BY <2>1, <2>2, <2>3 DEF WNext
  <1> QED
    BY <1>1, WInvariance, PTL DEF WSpec, SessionsComeFromLogins

-----------------------------------------------------------------------------
(* The composition. *)

(* The servers of the site are those of Server, whoever visits pages. *)
THEOREM SiteIsServed == SiteSpec => Spec
  <1>1. [SiteNext]_<<vars, wvars>> => [Next]_vars
    BY DEF SiteNext
  <1> QED
    BY <1>1, PTL DEF SiteSpec, SiteInit, Spec

(* The pages of the site are those of WebPages, whatever the servers did
   before they served. *)
THEOREM SiteShowsPages == SiteSpec => WSpec
  <1>1. [SiteNext]_<<vars, wvars>> => [WNext]_wvars
    BY DEF SiteNext
  <1> QED
    BY <1>1, PTL DEF SiteSpec, SiteInit, WSpec

(* The site as a whole keeps what is proved of its servers and of its pages. *)
THEOREM SiteIsSafe ==
    SiteSpec => /\ [](AppliedOnce /\ AppliedInOrder /\ ServingIsReady /\ BurstBounded)
                /\ []WTypeOK
                /\ BanBitesInTime
                /\ SessionsComeFromLogins
  BY SiteIsServed, SiteShowsPages, ServersApplyOnce, ServersApplyInOrder, ServersAreReady,
     BurstsBounded, PagesTypeCorrect, BansBite, SessionsNeedLogins, PTL
=============================================================================
