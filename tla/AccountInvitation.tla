--------------------------- MODULE AccountInvitation ---------------------------
(***************************************************************************)
(* Accounts, their sessions and invitation codes: account/service.rs,      *)
(* account/repo.rs, invitation/service.rs and invitation/repo.rs over the  *)
(* tables accounts and account_invitations.                                *)
(*                                                                         *)
(* No function here opens a transaction: registering is one INSERT and, if *)
(* a code came along, a SELECT and two UPDATEs that commit one by one.     *)
(* The JWT is checked without the database, so a session outlives what     *)
(* happens to its account until the token expires.                         *)
(***************************************************************************)
EXTENDS Naturals, FiniteSets

CONSTANTS
    Workers,      \* concurrent HTTP calls
    Accounts,     \* ids the rows of accounts may get
    NoAccount,    \* NULL
    Emails,
    NoEmail,      \* no row yet, or the hash of a cancelled account
    Codes,        \* the rows of account_invitations
    NoCode,       \* a registration without a code, or with an unknown one
    MaxUses,      \* account_invitations.max_uses
    Expiring,     \* codes created with expires_in_secs; the others never expire
    CanFail       \* a call may be cut short (client gone, crash, DB error)

ASSUME ConstantsAssumption ==
    /\ IsFiniteSet(Accounts) /\ IsFiniteSet(Codes) /\ IsFiniteSet(Workers)
    /\ NoAccount \notin Accounts
    /\ NoEmail \notin Emails
    /\ NoCode \notin Codes
    /\ MaxUses \in [Codes -> 1 .. 1000]
    /\ CanFail \in BOOLEAN

VARIABLES
    joined,       \* rows of accounts
    email,        \* accounts.email_hash
    banned,       \* accounts.is_banned
    cancelled,    \* accounts.is_cancelled
    invitedBy,    \* accounts.invited_by_account_id
    creator,      \* account_invitations.created_by, NoAccount: no row yet
    uses,         \* account_invitations.use_count
    expired,      \* codes whose expires_at has passed
    sessions,     \* accounts of which somebody holds an unexpired token
    call          \* each worker: its next statement and its local variables

vars == <<joined, email, banned, cancelled, invitedBy, creator, uses, expired,
          sessions, call>>
accountRows == <<joined, email, banned, cancelled, invitedBy>>
codeRows == <<creator, uses, expired>>

Idle == [pc |-> "idle", account |-> NoAccount, email |-> NoEmail, code |-> NoCode]

Init ==
    /\ joined = {}
    /\ email = [a \in Accounts |-> NoEmail]
    /\ banned = {}
    /\ cancelled = {}
    /\ invitedBy = [a \in Accounts |-> NoAccount]
    /\ creator = [c \in Codes |-> NoAccount]
    /\ uses = [c \in Codes |-> 0]
    /\ expired = {}
    /\ sessions = {}
    /\ call = [w \in Workers |-> Idle]

Continue(w, next) == call' = [call EXCEPT ![w] = next]
Goto(w, statement) == call' = [call EXCEPT ![w].pc = statement]
Return(w) == Continue(w, Idle)

(* The WHERE clause of redeem, and what validate_redeemable tests.  Nothing
   sets revoked_at. *)
Redeemable(c) == uses[c] < MaxUses[c] /\ c \notin expired

(* find_by_email_hash and find_by_code *)
RowsOf(e) == {a \in joined : email[a] = e}
Issued(c) == creator[c] # NoAccount

-----------------------------------------------------------------------------
(* register *)

(* Mutant: codes follow a pattern, so they are known before they exist. *)
RegisterForeseen(w, e, c) ==
    /\ call[w].pc = "idle"
    /\ Continue(w, [Idle EXCEPT !.pc = "insert", !.email = e, !.code = c])
    /\ UNCHANGED <<accountRows, codeRows, sessions>>

(* A code in a request has been created before: codes cannot be guessed. *)
Register(w, e, c) ==
    /\ call[w].pc = "idle"
    /\ c # NoCode => Issued(c)
    /\ Continue(w, [Idle EXCEPT !.pc = "insert", !.email = e, !.code = c])
    /\ UNCHANGED <<accountRows, codeRows, sessions>>

(* The INSERT, or EmailTaken. *)
InsertAccount(w) ==
    LET c == call[w]
    IN  /\ c.pc = "insert"
        /\ \/ /\ \E a \in joined : email[a] = c.email
              /\ Return(w)
              /\ UNCHANGED <<joined, email>>
           \/ /\ \A a \in joined : email[a] # c.email
              /\ \E a \in Accounts \ joined :
                     /\ joined' = joined \cup {a}
                     /\ email' = [email EXCEPT ![a] = c.email]
                     /\ Continue(w, [c EXCEPT !.account = a, !.email = NoEmail,
                            !.pc = IF c.code = NoCode THEN "issue" ELSE "validate"])
        /\ UNCHANGED <<banned, cancelled, invitedBy, codeRows, sessions>>

(* validate_redeemable; a bad code does not fail the registration. *)
ValidateCode(w) ==
    /\ call[w].pc = "validate"
    /\ Goto(w, IF Redeemable(call[w].code) THEN "redeem" ELSE "issue")
    /\ UNCHANGED <<accountRows, codeRows, sessions>>

(* Mutant: the UPDATE without its WHERE, relying on the validation. *)
RedeemUnchecked(w) ==
    LET c == call[w].code
    IN  /\ call[w].pc = "redeem"
        /\ uses' = [uses EXCEPT ![c] = @ + 1]
        /\ Goto(w, "link")
        /\ UNCHANGED <<accountRows, creator, expired, sessions>>

(* Mutant: the result of the UPDATE is not looked at. *)
RedeemIgnored(w) ==
    LET c == call[w].code
    IN  /\ call[w].pc = "redeem"
        /\ uses' = [uses EXCEPT ![c] = IF Redeemable(c) THEN @ + 1 ELSE @]
        /\ Goto(w, "link")
        /\ UNCHANGED <<accountRows, creator, expired, sessions>>

(* repo.redeem checks again; when it matches no row the error is logged and
   the registration goes on. *)
Redeem(w) ==
    LET c == call[w].code
    IN  /\ call[w].pc = "redeem"
        /\ IF Redeemable(c)
             THEN uses' = [uses EXCEPT ![c] = @ + 1] /\ Goto(w, "link")
             ELSE Goto(w, "issue") /\ UNCHANGED uses
        /\ UNCHANGED <<accountRows, creator, expired, sessions>>

(* set_invited_by *)
Link(w) ==
    LET c == call[w]
    IN  /\ c.pc = "link"
        /\ invitedBy' = [invitedBy EXCEPT ![c.account] = creator[c.code]]
        /\ Goto(w, "issue")
        /\ UNCHANGED <<joined, email, banned, cancelled, codeRows, sessions>>

(* jwt.issue, the last step of register and of login. *)
IssueToken(w) ==
    /\ call[w].pc = "issue"
    /\ sessions' = sessions \cup {call[w].account}
    /\ Return(w)
    /\ UNCHANGED <<accountRows, codeRows>>

(* A statement of try_redeem_and_link fails: logged, the account stays. *)
RedeemError(w) ==
    /\ CanFail
    /\ call[w].pc \in {"validate", "redeem", "link"}
    /\ Goto(w, "issue")
    /\ UNCHANGED <<accountRows, codeRows, sessions>>

-----------------------------------------------------------------------------
(* The other calls. *)

(* The row of the email is read and passes the ban check; the password is
   right.  A login that is refused changes nothing. *)
Login(w, e) ==
    /\ call[w].pc = "idle"
    /\ \E a \in RowsOf(e) \ banned :
           Continue(w, [Idle EXCEPT !.pc = "issue", !.account = a])
    /\ UNCHANGED <<accountRows, codeRows, sessions>>

(* InvitationRepo::insert: a code that exists is a collision, and the service
   generates another one. *)
InsertCode(a, c) == ~Issued(c) /\ creator' = [creator EXCEPT ![c] = a]

(* POST /invitations by the holder of a token. *)
CreateCode(a, c) ==
    /\ a \in sessions
    /\ InsertCode(a, c)
    /\ UNCHANGED <<accountRows, uses, expired, sessions, call>>

(* Mutant: the email and the password stay. *)
CancelFlagOnly(a) ==
    /\ a \in sessions
    /\ cancelled' = cancelled \cup {a}
    /\ UNCHANGED <<joined, email, banned, invitedBy, codeRows, sessions, call>>

(* anonymize_for_cancellation replaces the email and the password, so nobody
   can log in to the row again, and its email is free. *)
Anonymize(a) ==
    /\ cancelled' = cancelled \cup {a}
    /\ email' = [email EXCEPT ![a] = NoEmail]

(* cancel_account: the read only spares an UPDATE that would match nothing. *)
Cancel(a) ==
    /\ a \in sessions
    /\ Anonymize(a)
    /\ UNCHANGED <<joined, banned, invitedBy, codeRows, sessions, call>>

(* AccountRepo::set_banned *)
WriteBanned(a, on) == banned' = IF on THEN banned \cup {a} ELSE banned \ {a}

(* admin_set_banned, open to the holder of any token. *)
SetBanned(a, on) ==
    /\ sessions # {}
    /\ a \in joined
    /\ WriteBanned(a, on)
    /\ UNCHANGED <<joined, email, cancelled, invitedBy, codeRows, sessions, call>>

ExpireToken(a) ==
    /\ a \in sessions
    /\ sessions' = sessions \ {a}
    /\ UNCHANGED <<accountRows, codeRows, call>>

ExpireCode(c) ==
    /\ c \in Expiring \ expired
    /\ Issued(c)
    /\ expired' = expired \cup {c}
    /\ UNCHANGED <<accountRows, creator, uses, sessions, call>>

(* A call is dropped or fails between two statements. *)
Fail(w) ==
    /\ CanFail
    /\ call[w].pc # "idle"
    /\ Return(w)
    /\ UNCHANGED <<accountRows, codeRows, sessions>>

Advance(w) == \/ InsertAccount(w) \/ ValidateCode(w) \/ Redeem(w) \/ Link(w)
              \/ IssueToken(w)

Next == \/ \E w \in Workers :
               \/ Advance(w) \/ RedeemError(w) \/ Fail(w)
               \/ \E e \in Emails : \/ Login(w, e)
                                    \/ \E c \in Codes \cup {NoCode} : Register(w, e, c)
        \/ \E a \in Accounts : \/ Cancel(a) \/ ExpireToken(a)
                               \/ \E on \in BOOLEAN : SetBanned(a, on)
                               \/ \E c \in Codes : CreateCode(a, c)
        \/ \E c \in Codes : ExpireCode(c)

Spec == Init /\ [][Next]_vars

-----------------------------------------------------------------------------
Calls == [pc : {"idle", "insert", "validate", "redeem", "link", "issue"},
          account : Accounts \cup {NoAccount},
          email : Emails \cup {NoEmail},
          code : Codes \cup {NoCode}]

TypeOK ==
    /\ joined \subseteq Accounts
    /\ email \in [Accounts -> Emails \cup {NoEmail}]
    /\ banned \subseteq joined
    /\ cancelled \subseteq joined
    /\ invitedBy \in [Accounts -> joined \cup {NoAccount}]
    /\ creator \in [Codes -> joined \cup {NoAccount}]
    /\ uses \in [Codes -> Nat]
    /\ expired \subseteq Codes
    /\ sessions \subseteq joined
    /\ call \in [Workers -> Calls]

(* A code is never used more often than it allows, however many
   registrations validated its last use. *)
UsesWithinLimit == \A c \in Codes : uses[c] <= MaxUses[c]

(* Everybody who counts as invited by i took one use of a code of i: no race
   and no failure links an account without a redemption. *)
Invitees(i) == {a \in Accounts : invitedBy[a] = i}
CodesOf(i) == {c \in Codes : creator[c] = i}
UsesOf(i) == UNION {{c} \X (1 .. uses[c]) : c \in CodesOf(i)}
InviteesWithinUses ==
    \A i \in Accounts : Cardinality(Invitees(i)) <= Cardinality(UsesOf(i))

(* Nobody is, through any chain of inviters, his own inviter, although the
   link is written after the account can already log in and create codes:
   every set of invited accounts has a member invited from outside it. *)
InvitersCameFirst ==
    \A S \in SUBSET joined :
        S # {} => \E a \in S : invitedBy[a] \notin S

(* H-48 and 7.4: a banned or cancelled account that has no unexpired token
   and no call under way gets no token again, unless the ban is lifted. *)
Quiet(a) == a \notin sessions /\ \A w \in Workers : call[w].account # a
NoWayBackIn ==
    [][\A a \in cancelled \cup (banned \cap banned') : Quiet(a) => Quiet(a)']_vars
=============================================================================
