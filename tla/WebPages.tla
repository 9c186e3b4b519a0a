------------------------------- MODULE WebPages -------------------------------
(***************************************************************************)
(* The pages of web/ as a browser meets them: tabs that share one cookie,  *)
(* requests and responses under way, and handlers that know their visitor  *)
(* only by the token in the cookie.                                        *)
(*                                                                         *)
(* A handler that decides by its visitor's token does so before its first  *)
(* await: Serve is that moment, and the rest of its work is a part of the  *)
(* way of its response.  Signing in awaits between its check of the        *)
(* account and the issue of the token, and is two steps.  The token of a   *)
(* request is the one the cookie held when it was sent, and a response     *)
(* reaches the cookie when it is received; in between anything may happen  *)
(* in the other tabs, to the account and to the clock.                     *)
(* The routes /supervisors/{alias} and /supervisors/{alias}/rate match no  *)
(* alias (matchit 0.7 writes a capture as :alias), so their handlers never *)
(* run and a redirect to them ends at not_found_handler.                   *)
(***************************************************************************)
EXTENDS Integers, Sequences

CONSTANTS
    Tabs,
    Users,     \* accounts, each with an email and a password
    NoUser,
    Lifetime,  \* jwt_access_ttl_secs, the token's and the cookie's, in ticks
    Leeway,    \* what jsonwebtoken grants after exp
    MaxTime    \* bound of the instances

ASSUME WebAssumption ==
    /\ NoUser \notin Users
    /\ Lifetime \in Nat /\ Leeway \in Nat /\ MaxTime \in Nat

VARIABLES
    now,
    enrolled,   \* rows of accounts
    barred,     \* accounts.is_banned
    sealedAt,   \* a history: when the last way of a barred account to a token
                \* closed, at its ban or by a sign-in checked before the ban
    jar,        \* the cookie sa_jwt: its token, and when the browser drops it
    tab         \* what each tab shows, has sent or is about to receive

wvars == <<now, enrolled, barred, sealedAt, jar, tab>>
bans == <<enrolled, barred, sealedAt>>

NoToken == [user |-> NoUser, exp |-> 0]
NoCookie == [token |-> NoToken, drop |-> 0]

Pages == {"blank", "index", "register", "login", "me", "search", "new", "not_found"}
Links == {"index", "register", "login", "me", "search", "new"}
Forms == {"POST register", "POST login", "POST logout", "POST search", "POST new"}

Shown(page) == [kind |-> "shown", page |-> page]
Request(to, user, token) == [kind |-> "request", to |-> to, user |-> user, token |-> token]
Loading(t) == tab[t].kind # "shown"

(* A handler between its check of the account and the issue of the token; a
   history notes whether the account was still welcome when it was checked. *)
Signing(u) == [kind |-> "signing", user |-> u, cleared |-> u \notin barred]

(* A response leaves the cookie alone or sets it, to NoToken to clear it. *)
Render(page) == [kind |-> "page", page |-> page, cookie |-> <<>>]
Redirect(to) == [kind |-> "redirect", page |-> to, cookie |-> <<>>]
RedirectWithCookie(to, token) == [kind |-> "redirect", page |-> to, cookie |-> <<token>>]

WInit ==
    /\ now = 0
    /\ enrolled = {}
    /\ barred = {}
    /\ sealedAt = [u \in Users |-> 0]
    /\ jar = NoCookie
    /\ tab = [t \in Tabs |-> Shown("blank")]

-----------------------------------------------------------------------------
(* The handlers: what is answered to a token. *)

(* Mutant: the token gets the lifetime of a refresh token. *)
IssueRefresh(u) == [user |-> u, exp |-> now + 2 * Lifetime]

Issue(u) == [user |-> u, exp |-> now + Lifetime]

(* Mutant: what is in the cookie is taken to be valid. *)
SessionAnyAge(token) == token.user

(* JwtService::verify *)
Verifies(token) == now <= token.exp + Leeway

(* read_session: the account of a token that is still valid. *)
Session(token) == IF Verifies(token) THEN token.user ELSE NoUser

(* Mutant: the session is renewed by every visit. *)
MeSliding(token) ==
    IF Session(token) = NoUser THEN Redirect("login")
    ELSE [Render("me") EXCEPT !.cookie = <<Issue(token.user)>>]

Me(token) == IF Session(token) = NoUser THEN Redirect("login") ELSE Render("me")

(* Mutant: who has a cookie need not log in. *)
LoginFormSkipped(token) == IF token # NoToken THEN Redirect("me") ELSE Render("login")

(* login_form is shown to everybody. *)
LoginForm(token) == Render("login")

NewForm(token) == IF Session(token) = NoUser THEN Redirect("login") ELSE Render("new")

(* The pages that everybody gets alike. *)
Index == Render("index")
RegisterForm == Render("register")
SearchForm == Render("search")

OpenPage(to, token) ==
    CASE to = "me" -> Me(token)
      [] to = "login" -> LoginForm(token)
      [] to = "new" -> NewForm(token)
      [] to = "index" -> Index
      [] to = "register" -> RegisterForm
      [] to = "search" -> SearchForm
      [] OTHER -> Render("not_found")

Answer(t, response) == tab' = [tab EXCEPT ![t] = response]

Get(t) ==
    /\ Answer(t, OpenPage(tab[t].to, tab[t].token))
    /\ UNCHANGED bans

(* register_submit, always without invitations: an email may be taken, else
   the row is inserted. *)
RegisterSubmit(t) ==
    LET u == tab[t].user
    IN  /\ IF u \in Users \ enrolled
             THEN enrolled' = enrolled \cup {u} /\ Answer(t, Signing(u))
             ELSE Answer(t, Render("register")) /\ UNCHANGED enrolled
        /\ UNCHANGED <<barred, sealedAt>>

(* login_submit, with the password of user or, for NoUser, a wrong one: the row
   is read and its ban checked.  The login limiter is not asked. *)
LoginSubmit(t) ==
    /\ Answer(t, IF tab[t].user \in enrolled \ barred THEN Signing(tab[t].user)
                                                      ELSE Render("login"))
    /\ UNCHANGED bans

(* The end of a sign-in, after Argon2 and touch_active or after the INSERT:
   the token is issued, whatever has become of the account meanwhile. *)
IssueToken(t) ==
    LET u == tab[t].user
    IN  /\ tab[t].kind = "signing"
        /\ Answer(t, RedirectWithCookie("me", Issue(u)))
        /\ sealedAt' = IF u \in barred /\ tab[t].cleared
                         THEN [sealedAt EXCEPT ![u] = now] ELSE sealedAt
        /\ UNCHANGED <<now, enrolled, barred, jar>>

(* logout: the cookie is cleared, the token stays valid. *)
Logout(t) ==
    /\ Answer(t, RedirectWithCookie("index", NoToken))
    /\ UNCHANGED bans

SearchSubmit(t) ==
    /\ Answer(t, Render("search"))
    /\ UNCHANGED bans

(* new_submit: create_request takes it, or refuses it. *)
NewSubmit(t) ==
    /\ \E response \in IF Session(tab[t].token) = NoUser THEN {Redirect("login")}
                       ELSE {Redirect("detail"), Render("new")} :
           Answer(t, response)
    /\ UNCHANGED bans

Serve(t) ==
    /\ tab[t].kind = "request"
    /\ CASE tab[t].to = "POST register" -> RegisterSubmit(t)
         [] tab[t].to = "POST login" -> LoginSubmit(t)
         [] tab[t].to = "POST logout" -> Logout(t)
         [] tab[t].to = "POST search" -> SearchSubmit(t)
         [] tab[t].to = "POST new" -> NewSubmit(t)
         [] OTHER -> Get(t)
    /\ UNCHANGED <<now, jar>>

-----------------------------------------------------------------------------
(* The browser *)

(* A request carries the cookie; the model keeps the token of those whose
   handler may decide by it. *)
Guarded == {"me", "login", "new", "POST new"}
Send(t, to, user, cookie) ==
    tab' = [tab EXCEPT ![t] =
               Request(to, user, IF to \in Guarded THEN cookie.token ELSE NoToken)]

(* A link or an address; a form of the page shown, with the logout button of
   every page but the blank one. *)
Visit(t) ==
    /\ ~Loading(t)
    /\ \/ \E to \in Links : Send(t, to, NoUser, jar)
       \/ \E u \in Users \cup {NoUser} :
              \/ tab[t].page = "register" /\ Send(t, "POST register", u, jar)
              \/ tab[t].page = "login" /\ Send(t, "POST login", u, jar)
       \/ tab[t].page = "search" /\ Send(t, "POST search", NoUser, jar)
       \/ tab[t].page = "new" /\ Send(t, "POST new", NoUser, jar)
       \/ tab[t].page \notin {"blank", "not_found"} /\ Send(t, "POST logout", NoUser, jar)
    /\ UNCHANGED <<now, bans, jar>>

(* Set-Cookie is obeyed, then a redirect is followed with the new cookie. *)
Receive(t) ==
    LET r == tab[t]
        after == IF r.cookie = <<>> THEN jar
                 ELSE IF Head(r.cookie) = NoToken THEN NoCookie
                 ELSE [token |-> Head(r.cookie), drop |-> now + Lifetime]
    IN  /\ r.kind \in {"page", "redirect"}
        /\ jar' = after
        /\ IF r.kind = "page" THEN tab' = [tab EXCEPT ![t] = Shown(r.page)]
                              ELSE Send(t, r.page, NoUser, after)
        /\ UNCHANGED <<now, bans>>

(* The visitor stops waiting, which drops the handler; or the request or its
   response is lost. *)
GiveUp(t) ==
    /\ Loading(t)
    /\ tab' = [tab EXCEPT ![t] = Shown("blank")]
    /\ UNCHANGED <<now, bans, jar>>

(* admin_set_banned, somewhere else; the bans of the model are for good. *)
Bar(u) ==
    /\ u \in enrolled \ barred
    /\ barred' = barred \cup {u}
    /\ sealedAt' = [sealedAt EXCEPT ![u] = now]
    /\ UNCHANGED <<now, enrolled, jar, tab>>

(* Time passes, and the browser drops the cookie when Max-Age is over. *)
Age ==
    /\ now < MaxTime
    /\ now' = now + 1
    /\ jar' = IF jar.drop <= now + 1 THEN NoCookie ELSE jar
    /\ UNCHANGED <<bans, tab>>

WNext == \/ \E t \in Tabs : Serve(t) \/ IssueToken(t) \/ Receive(t) \/ Visit(t) \/ GiveUp(t)
         \/ \E u \in Users : Bar(u)
         \/ Age

WSpec == WInit /\ [][WNext]_wvars

(* Requests are served and responses arrive; nobody has to visit a page. *)
WFairSpec == WSpec /\ \A t \in Tabs : WF_wvars(Serve(t) \/ IssueToken(t) \/ Receive(t))

-----------------------------------------------------------------------------
Tokens == [user : Users \cup {NoUser}, exp : 0 .. MaxTime + Lifetime]

TabStates ==
    [kind : {"shown"}, page : Pages]
    \cup [kind : {"request"}, to : Links \cup Forms \cup {"detail"},
          user : Users \cup {NoUser}, token : Tokens]
    \cup [kind : {"signing"}, user : Users, cleared : BOOLEAN]
    \cup [kind : {"page"}, page : Pages, cookie : {<<>>}]
    \cup [kind : {"redirect"}, page : Links \cup {"detail"},
          cookie : {<<>>} \cup {<<token>> : token \in Tokens}]

WTypeOK ==
    /\ now \in 0 .. MaxTime
    /\ enrolled \subseteq Users /\ barred \subseteq enrolled
    /\ sealedAt \in [Users -> 0 .. MaxTime]
    /\ jar \in [token : Tokens, drop : 0 .. MaxTime + Lifetime]
    /\ tab \in [Tabs -> TabStates]

(* H-48 in the pages: a banned account, whose tokens nobody revokes, submits
   nothing through them once the lifetime of a token and the leeway have
   passed since the ban, however late a cookie reached the browser.  Only a
   sign-in that had passed its check when the ban came puts this off, until as
   long after the token it still gets. *)
Takes(t) == tab[t].kind = "request" /\ tab[t].to = "POST new" /\ tab'[t] = Redirect("detail")
BanBitesInTime ==
    [][\A t \in Tabs : Takes(t) /\ tab[t].token.user \in barred
            => now <= sealedAt[tab[t].token.user] + Lifetime + Leeway]_wvars

(* Who is logged out stays logged out: an empty cookie jar is only filled by
   a login or a registration that was already under way, never by another
   page that a tab had still to receive. *)
SigningIn(t) == \/ tab[t].kind = "request" /\ tab[t].to \in {"POST login", "POST register"}
                \/ tab[t].kind = "signing"
                \/ tab[t].kind = "redirect" /\ tab[t].cookie # <<>>
SessionsComeFromLogins ==
    [][(jar = NoCookie /\ \A t \in Tabs : ~SigningIn(t)) => jar' = NoCookie]_wvars

(* Redirects end: a page that was asked for is shown, or given up, whatever
   the other tabs do to the cookie meanwhile. *)
PagesSettle == \A t \in Tabs : Loading(t) ~> ~Loading(t)
=============================================================================
