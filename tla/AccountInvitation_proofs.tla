----------------------- MODULE AccountInvitation_proofs -----------------------
(***************************************************************************)
(* Proofs about AccountInvitation, for every set of workers, addresses,    *)
(* account ids and codes.                                                  *)
(***************************************************************************)
EXTENDS AccountInvitation, FiniteSetTheorems, TLAPS

Linking == {"validate", "redeem", "link"}

(* The statement a call is at tells which of its variables are set.  A code
   that a call names has been created. *)
CallOK(c) ==
    /\ c.pc = "insert" => c.email \in Emails
    /\ c.pc = "insert" /\ c.code # NoCode => creator[c.code] # NoAccount
    /\ c.pc \in Linking => /\ c.account \in joined
                           /\ c.code \in Codes
                           /\ creator[c.code] # NoAccount
    /\ c.pc = "issue" => c.account \in joined
    /\ c.pc \in {"idle", "insert"} => c.account = NoAccount

CallsOK == \A w \in Workers : CallOK(call[w])

TypeInv == TypeOK /\ CallsOK

(* What w does to its own call; the rows its CallOK reads only grow.         *)
LEMMA CallsKept ==
    ASSUME TypeInv, NEW w \in Workers, NEW next \in Calls, Continue(w, next),
           joined \subseteq joined',
           \A c \in Codes : creator[c] # NoAccount => creator'[c] # NoAccount,
           CallOK(next)'
    PROVE  call' \in [Workers -> Calls] /\ CallsOK'
<1>1. /\ call' \in [Workers -> Calls]
      /\ call'[w] = next
      /\ \A v \in Workers \ {w} : call'[v] = call[v]
    BY DEF Continue, TypeInv, TypeOK
<1>2. ASSUME NEW v \in Workers, v # w PROVE CallOK(call[v])'
    <2>1. call'[v] = call[v] /\ call[v].code \in Codes \cup {NoCode}
        BY <1>1, <1>2 DEF TypeInv, TypeOK, Calls
    <2> QED
        BY <2>1 DEF TypeInv, CallsOK, CallOK
<1> QED
    BY <1>1, <1>2 DEF CallsOK

(* A step outside the calls. *)
LEMMA CallsIdle ==
    ASSUME TypeInv, UNCHANGED <<call, joined>>,
           \A c \in Codes : creator[c] # NoAccount => creator'[c] # NoAccount
    PROVE  CallsOK'
<1> SUFFICES ASSUME NEW v \in Workers PROVE CallOK(call[v])'
    BY DEF CallsOK
<1>1. call'[v] = call[v] /\ call[v].code \in Codes \cup {NoCode}
    BY DEF TypeInv, TypeOK, Calls
<1> QED
    BY <1>1 DEF TypeInv, CallsOK, CallOK

LEMMA TypeStep == TypeInv /\ [Next]_vars => TypeInv'
<1> SUFFICES ASSUME TypeInv, [Next]_vars PROVE TypeInv'
    OBVIOUS
<1> USE DEF accountRows, codeRows
<1>0. /\ TypeOK /\ Idle \in Calls /\ CallOK(Idle)'
      /\ Idle.pc = "idle" /\ Idle.account = NoAccount /\ Idle.code = NoCode
    BY DEF TypeInv, Idle, Calls, CallOK, Linking
<1>a. NoAccount \notin Accounts /\ NoEmail \notin Emails /\ NoCode \notin Codes
    BY ConstantsAssumption
<1>1. ASSUME NEW w \in Workers, NEW e \in Emails, NEW c \in Codes \cup {NoCode},
             Register(w, e, c)
      PROVE  TypeInv'
    <2> DEFINE next == [Idle EXCEPT !.pc = "insert", !.email = e, !.code = c]
    <2>1. /\ next \in Calls
          /\ next.pc = "insert" /\ next.email = e /\ next.code = c /\ next.account = NoAccount
        BY DEF Idle, Calls
    <2>2. /\ Continue(w, next)
          /\ UNCHANGED <<joined, email, banned, cancelled, invitedBy, creator, uses, expired, sessions>>
          /\ c # NoCode => creator[c] # NoAccount
        BY <1>1 DEF Register, Issued
    <2> HIDE DEF next
    <2>3. CallOK(next)'
        BY <2>1, <2>2 DEF CallOK, Linking
    <2> QED
        BY <1>0, <2>1, <2>2, <2>3, CallsKept DEF TypeInv, TypeOK
<1>2. ASSUME NEW w \in Workers, InsertAccount(w) PROVE TypeInv'
    <2> DEFINE c == call[w]
    <2>0. c \in Calls /\ c.pc = "insert" /\ CallOK(c)
        BY <1>2 DEF InsertAccount, TypeInv, TypeOK, CallsOK
    <2>1. CASE Return(w) /\ UNCHANGED <<joined, email>>
        BY <1>0, <1>2, <2>1, CallsKept DEF InsertAccount, Return, TypeInv, TypeOK
    <2>2. CASE \E a \in Accounts \ joined :
                  /\ joined' = joined \cup {a}
                  /\ email' = [email EXCEPT ![a] = c.email]
                  /\ Continue(w, [c EXCEPT !.account = a, !.email = NoEmail,
                            !.pc = IF c.code = NoCode THEN "issue" ELSE "validate"])
        <3> PICK a \in Accounts \ joined :
                  /\ joined' = joined \cup {a}
                  /\ email' = [email EXCEPT ![a] = c.email]
                  /\ Continue(w, [c EXCEPT !.account = a, !.email = NoEmail,
                            !.pc = IF c.code = NoCode THEN "issue" ELSE "validate"])
            BY <2>2
        <3> PICK next : next = [c EXCEPT !.account = a, !.email = NoEmail,
                            !.pc = IF c.code = NoCode THEN "issue" ELSE "validate"]
            OBVIOUS
        <3>1. /\ next \in Calls /\ next.account = a /\ next.code = c.code
              /\ next.pc = (IF c.code = NoCode THEN "issue" ELSE "validate")
              /\ c.code \in Codes \cup {NoCode}
            BY <2>0 DEF Calls
        <3>2. /\ UNCHANGED <<banned, cancelled, invitedBy, creator, uses, expired, sessions>>
              /\ Continue(w, next)
            BY <1>2 DEF InsertAccount
        <3>3. c.email \in Emails /\ (c.code # NoCode => creator[c.code] # NoAccount)
            BY <2>0 DEF CallOK
        <3> HIDE DEF c
        <3>4. CallOK(next)'
            BY <3>1, <3>2, <3>3 DEF CallOK, Linking
        <3>5. call' \in [Workers -> Calls] /\ CallsOK'
            BY <3>1, <3>2, <3>4, CallsKept
        <3>6. TypeOK'
            BY <1>0, <3>2, <3>3, <3>5 DEF TypeOK
        <3> QED
            BY <3>5, <3>6 DEF TypeInv
    <2> QED
        BY <1>2, <2>1, <2>2 DEF InsertAccount
<1>3. ASSUME NEW w \in Workers, NEW statement \in Linking \cup {"issue"},
             call[w].pc \in Linking, Goto(w, statement),
             UNCHANGED <<joined, email, banned, cancelled, creator, expired, sessions>>,
             invitedBy' \in [Accounts -> joined \cup {NoAccount}],
             uses' \in [Codes -> Nat]
      PROVE  TypeInv'
    <2> PICK next : next = [call[w] EXCEPT !.pc = statement]
        OBVIOUS
    <2>0. call[w] \in Calls /\ CallOK(call[w])
        BY DEF TypeInv, TypeOK, CallsOK
    <2>1. /\ next \in Calls /\ next.pc = statement
          /\ next.account = call[w].account /\ next.code = call[w].code
        BY <2>0 DEF Calls, Linking
    <2>2. Continue(w, next)
        BY <1>3 DEF Goto, Continue
    <2>3. CallOK(next)'
        BY <1>3, <2>0, <2>1 DEF CallOK, Linking
    <2>4. call' \in [Workers -> Calls] /\ CallsOK'
        BY <1>3, <2>1, <2>2, <2>3, CallsKept
    <2> QED
        BY <1>0, <1>3, <2>4 DEF TypeInv, TypeOK
<1>4. ASSUME NEW w \in Workers, ValidateCode(w) PROVE TypeInv'
    <2>1. \E statement \in Linking \cup {"issue"} : Goto(w, statement)
        BY <1>4 DEF ValidateCode, Linking
    <2> QED
        BY <1>0, <1>3, <1>4, <2>1 DEF ValidateCode, TypeOK, Linking
<1>5. ASSUME NEW w \in Workers, Redeem(w) PROVE TypeInv'
    <2>1. \E statement \in Linking \cup {"issue"} : Goto(w, statement)
        BY <1>5 DEF Redeem, Linking
    <2>2. call[w].pc = "redeem" /\ call[w].code \in Codes
        BY <1>5 DEF Redeem, TypeInv, CallsOK, CallOK, Linking
    <2>3. uses' \in [Codes -> Nat]
        BY <1>0, <1>5, <2>2 DEF Redeem, TypeOK
    <2> QED
        BY <1>0, <1>3, <1>5, <2>1, <2>2, <2>3 DEF Redeem, TypeOK, Linking
<1>6. ASSUME NEW w \in Workers, Link(w) PROVE TypeInv'
    <2>1. /\ call[w].pc = "link" /\ call[w].code \in Codes /\ call[w].account \in joined
          /\ creator[call[w].code] \in joined
        BY <1>0, <1>6 DEF Link, TypeInv, CallsOK, CallOK, Linking, TypeOK
    <2>2. invitedBy' \in [Accounts -> joined \cup {NoAccount}]
        BY <1>0, <1>6, <2>1 DEF Link, TypeOK
    <2> QED
        BY <1>0, <1>3, <1>6, <2>1, <2>2 DEF Link, TypeOK, Linking
<1>7. ASSUME NEW w \in Workers, RedeemError(w) PROVE TypeInv'
    BY <1>0, <1>3, <1>7 DEF RedeemError, TypeOK, Linking
<1>8. ASSUME NEW w \in Workers, IssueToken(w) PROVE TypeInv'
    <2>1. call[w].account \in joined
        BY <1>8 DEF IssueToken, TypeInv, CallsOK, CallOK
    <2>2. call' \in [Workers -> Calls] /\ CallsOK'
        BY <1>0, <1>8, CallsKept DEF IssueToken, Return
    <2> QED
        BY <1>0, <1>8, <2>1, <2>2 DEF IssueToken, TypeInv, TypeOK
<1>9. ASSUME NEW w \in Workers, Fail(w) PROVE TypeInv'
    <2>1. call' \in [Workers -> Calls] /\ CallsOK'
        BY <1>0, <1>9, CallsKept DEF Fail, Return
    <2> QED
        BY <1>0, <1>9, <2>1 DEF Fail, TypeInv, TypeOK
<1>10. ASSUME NEW w \in Workers, NEW e \in Emails, Login(w, e) PROVE TypeInv'
    <2> PICK a \in joined \ banned :
             Continue(w, [Idle EXCEPT !.pc = "issue", !.account = a])
        BY <1>10 DEF Login, RowsOf
    <2> DEFINE next == [Idle EXCEPT !.pc = "issue", !.account = a]
    <2>0. a \in Accounts
        BY <1>0 DEF TypeOK
    <2>1. next \in Calls /\ next.pc = "issue" /\ next.account = a
        BY <2>0 DEF Idle, Calls
    <2>2. /\ Continue(w, next)
          /\ UNCHANGED <<joined, email, banned, cancelled, invitedBy, creator, uses, expired, sessions>>
        BY <1>10 DEF Login, RowsOf
    <2> HIDE DEF next
    <2>3. CallOK(next)'
        BY <2>1, <2>2 DEF CallOK, Linking
    <2>4. call' \in [Workers -> Calls] /\ CallsOK'
        BY <2>1, <2>2, <2>3, CallsKept
    <2> QED
        BY <1>0, <2>2, <2>4 DEF TypeInv, TypeOK
<1>11. ASSUME NEW a \in Accounts, NEW c \in Codes, CreateCode(a, c) PROVE TypeInv'
    <2>1. a \in joined /\ a # NoAccount
        BY <1>0, <1>a, <1>11 DEF CreateCode, InsertCode, TypeOK
    <2>2. /\ creator' \in [Codes -> joined \cup {NoAccount}]
          /\ \A d \in Codes : creator[d] # NoAccount => creator'[d] # NoAccount
        BY <1>0, <1>11, <2>1 DEF CreateCode, InsertCode, TypeOK
    <2>3. CallsOK'
        BY <1>11, <2>2, CallsIdle DEF CreateCode, InsertCode
    <2> QED
        BY <1>0, <1>11, <2>2, <2>3 DEF CreateCode, InsertCode, TypeInv, TypeOK
<1>12. ASSUME NEW a \in Accounts, Cancel(a) PROVE TypeInv'
    <2>1. CallsOK'
        BY <1>12, CallsIdle DEF Cancel, Anonymize
    <2> QED
        BY <1>0, <1>12, <2>1 DEF Cancel, Anonymize, TypeInv, TypeOK
<1>13. ASSUME NEW a \in Accounts, NEW on \in BOOLEAN, SetBanned(a, on) PROVE TypeInv'
    <2>1. CallsOK'
        BY <1>13, CallsIdle DEF SetBanned, WriteBanned
    <2> QED
        BY <1>0, <1>13, <2>1 DEF SetBanned, WriteBanned, TypeInv, TypeOK
<1>14. ASSUME NEW a \in Accounts, ExpireToken(a) PROVE TypeInv'
    <2>1. CallsOK'
        BY <1>14, CallsIdle DEF ExpireToken
    <2> QED
        BY <1>0, <1>14, <2>1 DEF ExpireToken, TypeInv, TypeOK
<1>15. ASSUME NEW c \in Codes, ExpireCode(c) PROVE TypeInv'
    <2>1. CallsOK'
        BY <1>15, CallsIdle DEF ExpireCode
    <2> QED
        BY <1>0, <1>15, <2>1 DEF ExpireCode, TypeInv, TypeOK
<1>16. ASSUME UNCHANGED vars PROVE TypeInv'
    <2>1. CallsOK'
        BY <1>16, CallsIdle DEF vars
    <2> QED
        BY <1>0, <1>16, <2>1 DEF vars, TypeInv, TypeOK
<1> QED
    BY <1>1, <1>2, <1>4, <1>5, <1>6, <1>7, <1>8, <1>9, <1>10, <1>11, <1>12, <1>13, <1>14,
       <1>15, <1>16 DEF Next, Advance

LEMMA InitType == Init => TypeInv
BY DEF Init, TypeInv, TypeOK, CallsOK, CallOK, Idle, Calls, Linking

LEMMA TypeInvariance == Spec => []TypeInv
BY InitType, TypeStep, PTL DEF Spec

(* The type invariant: tokens, bans, links and codes are of accounts that    *)
(* exist, whatever calls fail half-way.                                      *)
THEOREM TypeCorrect == Spec => []TypeOK
<1>1. TypeInv => TypeOK
    BY DEF TypeInv
<1> QED
    BY <1>1, TypeInvariance, PTL

-----------------------------------------------------------------------------
LEMMA MaxUsesType ==
    ASSUME NEW c \in Codes
    PROVE  MaxUses[c] \in Nat /\ 0 <= MaxUses[c]
<1>1. MaxUses[c] \in 1 .. 1000
    BY ConstantsAssumption
<1> QED
    BY <1>1

LEMMA UsesStep == TypeOK /\ UsesWithinLimit /\ [Next]_vars => UsesWithinLimit'
<1> SUFFICES ASSUME TypeOK, UsesWithinLimit, [Next]_vars PROVE UsesWithinLimit'
    OBVIOUS
<1>1. ASSUME NEW w \in Workers, Redeem(w) PROVE UsesWithinLimit'
    <2>1. CASE UNCHANGED uses
        BY <2>1 DEF UsesWithinLimit
    <2>2. CASE /\ Redeemable(call[w].code)
               /\ uses' = [uses EXCEPT ![call[w].code] = @ + 1]
        <3>1. \A c \in Codes : uses[c] \in Nat /\ MaxUses[c] \in Nat
            BY MaxUsesType DEF TypeOK
        <3>2. \A c \in Codes : uses'[c] = IF c = call[w].code THEN uses[c] + 1 ELSE uses[c]
            BY <2>2 DEF TypeOK
        <3> QED
            BY <2>2, <3>1, <3>2 DEF UsesWithinLimit, Redeemable
    <2> QED
        BY <1>1, <2>1, <2>2 DEF Redeem
<1>2. ASSUME UNCHANGED uses PROVE UsesWithinLimit'
    BY <1>2 DEF UsesWithinLimit
<1>3. (\E w \in Workers : Redeem(w)) \/ UNCHANGED uses
    BY DEF Next, Advance, vars, codeRows, Register, InsertAccount, ValidateCode, Link,
           IssueToken, RedeemError, Fail, Login, CreateCode, Cancel, SetBanned,
           ExpireToken, ExpireCode
<1> QED
    BY <1>1, <1>2, <1>3

(* However many registrations validate the last use of a code, the UPDATE    *)
(* redeems it once.                                                          *)
THEOREM UsesHold == Spec => []UsesWithinLimit
<1>1. Init => UsesWithinLimit
    BY MaxUsesType DEF Init, UsesWithinLimit
<1> QED
    BY <1>1, UsesStep, TypeCorrect, PTL DEF Spec

-----------------------------------------------------------------------------
(* What a cancellation leaves: a row that no login finds.                     *)
CancelledAnonymous == \A a \in cancelled : email[a] = NoEmail

LEMMA CancelledStep == TypeInv /\ CancelledAnonymous /\ [Next]_vars => CancelledAnonymous'
<1> SUFFICES ASSUME TypeInv, CancelledAnonymous, [Next]_vars PROVE CancelledAnonymous'
    OBVIOUS
<1> USE DEF CancelledAnonymous, accountRows
<1>1. ASSUME NEW w \in Workers, InsertAccount(w) PROVE CancelledAnonymous'
    BY <1>1 DEF InsertAccount, TypeInv, TypeOK
<1>2. ASSUME NEW a \in Accounts, Cancel(a) PROVE CancelledAnonymous'
    BY <1>2 DEF Cancel, Anonymize, TypeInv, TypeOK
<1>3. ASSUME UNCHANGED <<cancelled, email>> PROVE CancelledAnonymous'
    BY <1>3
<1>4. \/ \E w \in Workers : InsertAccount(w)
      \/ \E a \in Accounts : Cancel(a)
      \/ UNCHANGED <<cancelled, email>>
    BY DEF Next, Advance, vars, Register, ValidateCode, Redeem, Link,
           IssueToken, RedeemError, Fail, Login, CreateCode, SetBanned,
           ExpireToken, ExpireCode
<1> QED
    BY <1>1, <1>2, <1>3, <1>4

(* Only a login or the insertion of a new row puts an account into a call,   *)
(* and only a call gives it a token.                                         *)
LEMMA QuietStep ==
    ASSUME TypeInv, CancelledAnonymous, [Next]_vars,
           NEW a \in cancelled \cup (banned \cap banned'), Quiet(a)
    PROVE  Quiet(a)'
<1>0. /\ a \in joined /\ a \in Accounts /\ a # NoAccount
      /\ call \in [Workers -> Calls]
    BY ConstantsAssumption DEF TypeInv, TypeOK
<1>1. ASSUME NEW w \in Workers, NEW next, next.account # a, Continue(w, next),
             a \notin sessions'
      PROVE  Quiet(a)'
    BY <1>0, <1>1 DEF Quiet, Continue
<1>a. Idle.account # a
    BY <1>0 DEF Idle
<1>2. ASSUME NEW w \in Workers, Return(w), UNCHANGED sessions PROVE Quiet(a)'
    BY <1>1, <1>2, <1>a DEF Return, Quiet
<1>3. ASSUME NEW w \in Workers, NEW statement, Goto(w, statement), UNCHANGED sessions
      PROVE  Quiet(a)'
    <2> SUFFICES ASSUME NEW v \in Workers PROVE call'[v].account # a
        BY <1>3 DEF Quiet
    <2>1. call'[v].account = call[v].account
        BY <1>0, <1>3 DEF Goto, Calls
    <2> QED
        BY <2>1 DEF Quiet
<1>4. ASSUME NEW w \in Workers, NEW e \in Emails, NEW c \in Codes \cup {NoCode},
             Register(w, e, c)
      PROVE  Quiet(a)'
    <2>1. [Idle EXCEPT !.pc = "insert", !.email = e, !.code = c].account # a
        BY <1>0 DEF Idle
    <2> QED
        BY <1>1, <1>4, <2>1 DEF Register, Quiet
<1>5. ASSUME NEW w \in Workers, InsertAccount(w) PROVE Quiet(a)'
    <2>1. CASE Return(w)
        BY <1>2, <1>5, <2>1 DEF InsertAccount
    <2>2. CASE \E b \in Accounts \ joined :
                  Continue(w, [call[w] EXCEPT !.account = b, !.email = NoEmail,
                     !.pc = IF call[w].code = NoCode THEN "issue" ELSE "validate"])
        <3> PICK b \in Accounts \ joined :
                  Continue(w, [call[w] EXCEPT !.account = b, !.email = NoEmail,
                     !.pc = IF call[w].code = NoCode THEN "issue" ELSE "validate"])
            BY <2>2
        <3> PICK next : next = [call[w] EXCEPT !.account = b, !.email = NoEmail,
                     !.pc = IF call[w].code = NoCode THEN "issue" ELSE "validate"]
            OBVIOUS
        <3>1. next.account = b /\ b # a
            BY <1>0 DEF Calls
        <3>2. a \notin sessions'
            BY <1>5 DEF InsertAccount, Quiet
        <3> QED
            BY <1>1, <3>1, <3>2
    <2> QED
        BY <1>5, <2>1, <2>2 DEF InsertAccount
<1>6. ASSUME NEW w \in Workers, IssueToken(w) PROVE Quiet(a)'
    <2>1. a \notin sessions'
        BY <1>6 DEF IssueToken, Quiet
    <2> QED
        BY <1>1, <1>6, <1>a, <2>1 DEF IssueToken, Return
<1>7. ASSUME NEW w \in Workers, NEW e \in Emails, Login(w, e) PROVE Quiet(a)'
    <2> PICK b \in joined \ banned :
             email[b] = e /\ Continue(w, [Idle EXCEPT !.pc = "issue", !.account = b])
        BY <1>7 DEF Login, RowsOf
    <2>1. b # a
        BY ConstantsAssumption DEF CancelledAnonymous
    <2>2. [Idle EXCEPT !.pc = "issue", !.account = b].account # a
        BY <2>1 DEF Idle
    <2> QED
        BY <1>1, <1>7, <2>2 DEF Login, Quiet
<1>8. ASSUME UNCHANGED call, sessions' \subseteq sessions PROVE Quiet(a)'
    BY <1>8 DEF Quiet
<1>9. \/ \E w \in Workers :
             \/ InsertAccount(w)
             \/ IssueToken(w)
             \/ Return(w) /\ UNCHANGED sessions
             \/ \E statement : Goto(w, statement) /\ UNCHANGED sessions
             \/ \E e \in Emails : Login(w, e)
             \/ \E e \in Emails, c \in Codes \cup {NoCode} : Register(w, e, c)
      \/ UNCHANGED call /\ sessions' \subseteq sessions
    BY DEF Next, Advance, vars, ValidateCode, Redeem, Link, RedeemError, Fail, CreateCode,
           Cancel, SetBanned, ExpireToken, ExpireCode
<1> QED
    BY <1>2, <1>3, <1>4, <1>5, <1>6, <1>7, <1>8, <1>9

(* H-48 and 7.4: a ban or a cancellation is a way out without a way back.    *)
THEOREM OutStaysOut == Spec => NoWayBackIn
<1>1. Init => CancelledAnonymous
    BY DEF Init, CancelledAnonymous
<1>2. TypeInv /\ CancelledAnonymous /\ [Next]_vars
      => [\A a \in cancelled \cup (banned \cap banned') : Quiet(a) => Quiet(a)']_vars
    BY QuietStep
<1> QED
    BY <1>1, <1>2, CancelledStep, TypeInvariance, PTL DEF Spec, NoWayBackIn

-----------------------------------------------------------------------------
(***************************************************************************)
(* That inviters come first is not inductive: a registration between its   *)
(* validation and its link will add an edge to an account that may have    *)
(* invitees of its own by then.  What is kept is that for each such call   *)
(* there is a set of elders, the accounts that had joined before it: the   *)
(* inviter is one of them, the new account is not, and no link of an elder *)
(* leads, or will lead, out of the set.                                    *)
(***************************************************************************)
IsElders(D, w) ==
    /\ creator[call[w].code] \in D
    /\ call[w].account \notin D
    /\ \A x \in D : invitedBy[x] \in D \cup {NoAccount}
    /\ \A v \in Workers : call[v].pc \in Linking /\ call[v].account \in D
                            => creator[call[v].code] \in D

EldersFirst ==
    \A w \in Workers : call[w].pc \in Linking => \E D \in SUBSET joined : IsElders(D, w)

Uninvited == \A a \in Accounts \ joined : invitedBy[a] = NoAccount

TreeInv == TypeInv /\ Uninvited /\ EldersFirst /\ InvitersCameFirst

(* The calls that still have to link, and what they will link, at most end.  *)
LinkersRemain ==
    \A v \in Workers : call'[v].pc \in Linking =>
        /\ call[v].pc \in Linking
        /\ call'[v].account = call[v].account
        /\ call'[v].code = call[v].code
        /\ creator'[call[v].code] = creator[call[v].code]

LEMMA EldersKept ==
    ASSUME EldersFirst, LinkersRemain, UNCHANGED <<joined, invitedBy>>
    PROVE  EldersFirst'
<1> SUFFICES ASSUME NEW w \in Workers, call'[w].pc \in Linking
             PROVE  \E D \in SUBSET joined : IsElders(D, w)'
    BY DEF EldersFirst
<1> PICK D \in SUBSET joined : IsElders(D, w)
    BY DEF EldersFirst, LinkersRemain
<1>1. IsElders(D, w)'
    BY DEF IsElders, LinkersRemain
<1> QED
    BY <1>1

(* A step in which no call reaches a linking statement.                      *)
LEMMA LinkersOf ==
    ASSUME TypeInv, NEW w \in Workers, UNCHANGED creator,
           \/ \E next : Continue(w, next) /\ next.pc \notin Linking
           \/ \E statement : Goto(w, statement) /\ call[w].pc \in Linking
    PROVE  LinkersRemain
BY DEF LinkersRemain, Continue, Goto, TypeInv, TypeOK, Calls

LEMMA ElderStep ==
    ASSUME TreeInv, NEW w \in Workers, Link(w)
    PROVE  EldersFirst' /\ InvitersCameFirst'
<1> DEFINE a == call[w].account
           i == creator[call[w].code]
<1>0. /\ TypeOK /\ EldersFirst /\ InvitersCameFirst /\ NoAccount \notin Accounts
      /\ call[w].pc = "link" /\ call[w].pc \in Linking
      /\ a \in joined /\ i \in joined
    BY ConstantsAssumption DEF TreeInv, TypeInv, TypeOK, CallsOK, CallOK, Link, Linking
<1>1. /\ invitedBy' = [invitedBy EXCEPT ![a] = i]
      /\ UNCHANGED <<joined, creator>>
      /\ Goto(w, "issue")
    BY DEF Link, codeRows
<1>2. \A x \in joined : invitedBy'[x] = IF x = a THEN i ELSE invitedBy[x]
    BY <1>0, <1>1 DEF TypeOK
<1>3. LinkersRemain
    BY <1>0, <1>1, LinkersOf DEF TreeInv
<1> HIDE DEF a, i
<1>4. EldersFirst'
    <2> SUFFICES ASSUME NEW v \in Workers, call'[v].pc \in Linking
                 PROVE  \E D \in SUBSET joined : IsElders(D, v)'
        BY <1>1 DEF EldersFirst
    <2> PICK D \in SUBSET joined : IsElders(D, v)
        BY <1>0, <1>3 DEF EldersFirst, LinkersRemain
    <2>1. a \in D => i \in D
        BY <1>0 DEF IsElders, a, i
    <2>2. \A x \in D : invitedBy'[x] \in D \cup {NoAccount}
        BY <1>2, <2>1 DEF IsElders
    <2>3. IsElders(D, v)'
        BY <1>3, <2>2 DEF IsElders, LinkersRemain
    <2> QED
        BY <2>3
<1>5. InvitersCameFirst'
    <2> SUFFICES ASSUME NEW S \in SUBSET joined, S # {},
                        \A x \in S : invitedBy'[x] \in S
                 PROVE  FALSE
        BY <1>1 DEF InvitersCameFirst
    <2>1. CASE a \notin S
        <3>1. \A x \in S : invitedBy[x] \in S
            BY <1>2, <2>1
        <3> QED
            BY <1>0, <3>1 DEF InvitersCameFirst
    <2>2. CASE a \in S
        <3> PICK D \in SUBSET joined : IsElders(D, w)
            BY <1>0 DEF EldersFirst
        <3>1. i \in S /\ i \in D /\ a \notin D
            BY <1>0, <1>2, <2>2 DEF IsElders, a, i
        <3>2. \A x \in S \cap D : invitedBy[x] \in S \cap D
            <4> SUFFICES ASSUME NEW x \in S \cap D PROVE invitedBy[x] \in S \cap D
                OBVIOUS
            <4>1. invitedBy[x] \in S
                BY <1>2, <3>1
            <4>2. invitedBy[x] # NoAccount
                BY <1>0, <4>1 DEF TypeOK
            <4> QED
                BY <4>1, <4>2 DEF IsElders
        <3>3. S \cap D \in SUBSET joined /\ S \cap D # {}
            BY <3>1
        <3> QED
            BY <1>0, <3>2, <3>3 DEF InvitersCameFirst
    <2> QED
        BY <2>1, <2>2
<1> QED
    BY <1>4, <1>5

(* A new account: all who are there are its elders, and it has no inviter.   *)
LEMMA JoinStep ==
    ASSUME TreeInv, NEW w \in Workers, InsertAccount(w), ~ UNCHANGED joined
    PROVE  Uninvited' /\ EldersFirst' /\ InvitersCameFirst'
<1> PICK a \in Accounts \ joined :
             /\ joined' = joined \cup {a}
             /\ Continue(w, [call[w] EXCEPT !.account = a, !.email = NoEmail,
                    !.pc = IF call[w].code = NoCode THEN "issue" ELSE "validate"])
    BY DEF InsertAccount
<1>0. /\ TypeOK /\ Uninvited /\ EldersFirst /\ InvitersCameFirst /\ NoAccount \notin Accounts
      /\ CallsOK /\ UNCHANGED <<invitedBy, creator>>
    BY ConstantsAssumption DEF TreeInv, TypeInv, InsertAccount, codeRows
<1>1. /\ call'[w].account = a /\ call'[w].code = call[w].code
      /\ call'[w].pc \in Linking => call[w].code # NoCode
      /\ \A v \in Workers \ {w} : call'[v] = call[v]
    BY <1>0 DEF TypeOK, Calls, Continue, Linking
<1>2. Uninvited'
    BY <1>0 DEF Uninvited
<1>3. ASSUME NEW v \in Workers, v # w, call'[v].pc \in Linking
      PROVE  \E D \in SUBSET joined' : IsElders(D, v)'
    <2> PICK D \in SUBSET joined : IsElders(D, v)
        BY <1>0, <1>1, <1>3 DEF EldersFirst
    <2>1. IsElders(D, v)'
        BY <1>0, <1>1, <1>3 DEF IsElders
    <2> QED
        BY <2>1
<1>4. ASSUME call'[w].pc \in Linking
      PROVE  \E D \in SUBSET joined' : IsElders(D, w)'
    <2> PICK D : D = joined
        OBVIOUS
    <2>1. \A c \in Codes : creator[c] # NoAccount => creator[c] \in D
        BY <1>0 DEF TypeOK
    <2>2. call[w].code \in Codes /\ creator[call[w].code] # NoAccount
        BY <1>0, <1>1, <1>4 DEF InsertAccount, CallsOK, CallOK, TypeOK, Calls
    <2>3. \A x \in D : invitedBy[x] \in D \cup {NoAccount}
        BY <1>0 DEF TypeOK
    <2>4. \A v \in Workers \ {w} : call[v].pc \in Linking => creator[call[v].code] \in D
        BY <1>0, <2>1 DEF CallsOK, CallOK
    <2>5. IsElders(D, w)'
        BY <1>0, <1>1, <2>1, <2>2, <2>3, <2>4 DEF IsElders
    <2> QED
        BY <2>5
<1>5. EldersFirst'
    BY <1>3, <1>4 DEF EldersFirst
<1>6. InvitersCameFirst'
    <2> SUFFICES ASSUME NEW S \in SUBSET joined', S # {},
                        \A x \in S : invitedBy[x] \in S
                 PROVE  FALSE
        BY <1>0 DEF InvitersCameFirst
    <2>1. a \notin S
        BY <1>0 DEF Uninvited, TypeOK
    <2> QED
        BY <1>0, <2>1 DEF InvitersCameFirst
<1> QED
    BY <1>2, <1>5, <1>6

LEMMA TreeStep == TreeInv /\ [Next]_vars => TreeInv'
<1> SUFFICES ASSUME TreeInv, [Next]_vars PROVE TreeInv'
    OBVIOUS
<1>0. TypeInv /\ TypeInv' /\ CallsOK /\ call \in [Workers -> Calls]
    BY TypeStep DEF TreeInv, TypeInv, TypeOK
<1> DEFINE Tree == Uninvited /\ EldersFirst /\ InvitersCameFirst
<1>1. ASSUME UNCHANGED <<joined, invitedBy>>, LinkersRemain PROVE Tree'
    BY <1>1, EldersKept DEF TreeInv, Uninvited, InvitersCameFirst
<1>2. ASSUME NEW w \in Workers, Link(w) PROVE Tree'
    <2>1. Uninvited'
        BY <1>0, <1>2 DEF Link, TreeInv, Uninvited, TypeInv, TypeOK, CallOK, CallsOK, Linking
    <2> QED
        BY <1>2, <2>1, ElderStep
<1>3. ASSUME NEW w \in Workers, InsertAccount(w) PROVE Tree'
    <2>1. CASE UNCHANGED joined
        <3>1. Return(w)
            BY <1>3, <2>1 DEF InsertAccount
        <3>2. Idle.pc \notin Linking /\ Continue(w, Idle) /\ UNCHANGED creator
            BY <1>3, <3>1 DEF InsertAccount, codeRows, Return, Idle, Linking
        <3>3. LinkersRemain
            BY <1>0, <3>2, LinkersOf
        <3> QED
            BY <1>1, <1>3, <2>1, <3>3 DEF InsertAccount
    <2>2. CASE ~ UNCHANGED joined
        BY <1>3, <2>2, JoinStep
    <2> QED
        BY <2>1, <2>2
<1>4. ASSUME NEW w \in Workers, UNCHANGED <<joined, invitedBy, creator>>,
             \/ Return(w)
             \/ \E next : Continue(w, next) /\ next.pc \notin Linking
             \/ \E statement : Goto(w, statement) /\ call[w].pc \in Linking
      PROVE  Tree'
    <2>1. Idle.pc \notin Linking
        BY DEF Idle, Linking
    <2> QED
        BY <1>0, <1>1, <1>4, <2>1, LinkersOf DEF Return
<1>5. ASSUME NEW w \in Workers,
             \/ ValidateCode(w) \/ Redeem(w) \/ IssueToken(w) \/ RedeemError(w) \/ Fail(w)
      PROVE  Tree'
    BY <1>4, <1>5 DEF ValidateCode, Redeem, IssueToken, RedeemError, Fail, accountRows, codeRows,
                      Linking
<1>6. ASSUME NEW w \in Workers, NEW e \in Emails, NEW c \in Codes \cup {NoCode},
             Register(w, e, c)
      PROVE  Tree'
    <2>1. [Idle EXCEPT !.pc = "insert", !.email = e, !.code = c].pc \notin Linking
        BY DEF Idle, Linking
    <2> QED
        BY <1>4, <1>6, <2>1 DEF Register, accountRows, codeRows
<1>7. ASSUME NEW w \in Workers, NEW e \in Emails, Login(w, e) PROVE Tree'
    <2>1. \A a : [Idle EXCEPT !.pc = "issue", !.account = a].pc \notin Linking
        BY DEF Idle, Linking
    <2> QED
        BY <1>4, <1>7, <2>1 DEF Login, accountRows, codeRows
<1>8. ASSUME UNCHANGED <<joined, invitedBy, call>>,
             \A c \in Codes : creator[c] # NoAccount => creator'[c] = creator[c]
      PROVE  Tree'
    <2>1. LinkersRemain
        BY <1>0, <1>8 DEF LinkersRemain, CallsOK, CallOK
    <2> QED
        BY <1>1, <1>8, <2>1
<1>9. \/ \E w \in Workers : InsertAccount(w) \/ Link(w)
      \/ \E w \in Workers :
             \/ ValidateCode(w) \/ Redeem(w) \/ IssueToken(w) \/ RedeemError(w) \/ Fail(w)
             \/ \E e \in Emails : Login(w, e)
             \/ \E e \in Emails, c \in Codes \cup {NoCode} : Register(w, e, c)
      \/ /\ UNCHANGED <<joined, invitedBy, call>>
         /\ \A c \in Codes : creator[c] # NoAccount => creator'[c] = creator[c]
    <2>1. ASSUME NEW a \in Accounts, NEW c \in Codes, CreateCode(a, c)
          PROVE  \A d \in Codes : creator[d] # NoAccount => creator'[d] = creator[d]
        BY <1>0, <2>1 DEF CreateCode, InsertCode, Issued, TypeInv, TypeOK
    <2> QED
        BY <2>1 DEF Next, Advance, vars, accountRows, codeRows, CreateCode,
                    Cancel, SetBanned, ExpireToken, ExpireCode
<1> HIDE DEF Tree
<1>10. Tree'
    BY <1>2, <1>3, <1>5, <1>6, <1>7, <1>8, <1>9
<1> QED
    BY <1>0, <1>10 DEF Tree, TreeInv

(* Nobody is among the inviters of his inviters.                             *)
THEOREM InvitersHold == Spec => []InvitersCameFirst
<1>1. Init => TreeInv
    <2> SUFFICES ASSUME Init PROVE TreeInv
        OBVIOUS
    <2>1. TypeInv
        BY InitType
    <2>2. Uninvited /\ InvitersCameFirst
        BY DEF Init, Uninvited, InvitersCameFirst
    <2>3. EldersFirst
        BY DEF Init, EldersFirst, Idle, Linking
    <2> QED
        BY <2>1, <2>2, <2>3 DEF TreeInv
<1>2. TreeInv => InvitersCameFirst
    BY DEF TreeInv
<1> QED
    BY <1>1, <1>2, TreeStep, PTL DEF Spec

-----------------------------------------------------------------------------
(***************************************************************************)
(* Invitees and the uses they took.  An account whose call redeemed a use  *)
(* but has not linked it yet has a claim to the inviter; claims never      *)
(* outnumber uses.  A failure drops a claim and leaves a use that nobody   *)
(* claims, never the other way round.                                      *)
(***************************************************************************)
Linker(a, i) ==
    \E w \in Workers : /\ call[w].pc = "link"
                       /\ call[w].account = a
                       /\ creator[call[w].code] = i

Claims(i) == {a \in Accounts : invitedBy[a] = i \/ Linker(a, i)}

ClaimsCovered == \A i \in Accounts : Cardinality(Claims(i)) <= Cardinality(UsesOf(i))

ClaimInv == TypeInv /\ UsesWithinLimit /\ ClaimsCovered

(* UsesOf(i) for the columns created_by = by and use_count = count.          *)
Taken(by, count, i) == UNION {{c} \X (1 .. count[c]) : c \in {d \in Codes : by[d] = i}}

LEMMA TakenMember ==
    ASSUME NEW by, NEW count, NEW i, NEW p
    PROVE  p \in Taken(by, count, i) <=>
               \E c \in Codes : \E n \in 1 .. count[c] : by[c] = i /\ p = <<c, n>>
<1>1. \A c : p \in {c} \X (1 .. count[c]) <=> \E n \in 1 .. count[c] : p = <<c, n>>
    OBVIOUS
<1>2. p \in Taken(by, count, i) <=>
          \E c \in Codes : by[c] = i /\ p \in {c} \X (1 .. count[c])
    BY DEF Taken
<1> QED
    BY <1>1, <1>2

(* The max_uses a code can have at most, as ConstantsAssumption says. *)
MostUses == 1000

LEMMA MostUsesType == MostUses \in Nat
BY DEF MostUses

LEMMA TakenIsFinite ==
    ASSUME NEW by, NEW count, NEW i, \A c \in Codes : count[c] \in 0 .. MostUses
    PROVE  IsFiniteSet(Taken(by, count, i)) /\ Cardinality(Taken(by, count, i)) \in Nat
<1>1. Taken(by, count, i) \subseteq Codes \X (1 .. MostUses)
    <2> SUFFICES ASSUME NEW p \in Taken(by, count, i) PROVE p \in Codes \X (1 .. MostUses)
        OBVIOUS
    <2> PICK c \in Codes : \E n \in 1 .. count[c] : p = <<c, n>>
        BY TakenMember
    <2> PICK n \in 1 .. count[c] : p = <<c, n>>
        OBVIOUS
    <2>1. count[c] \in 0 .. MostUses
        OBVIOUS
    <2>2. n \in 1 .. MostUses
        BY <2>1, MostUsesType
    <2> QED
        BY <2>2
<1>2. IsFiniteSet(Codes \X (1 .. MostUses))
    <2>1. IsFiniteSet(1 .. MostUses)
        BY MostUsesType, FS_Interval
    <2> QED
        BY <2>1, ConstantsAssumption, FS_Product
<1> QED
    BY <1>1, <1>2, FS_Subset, FS_CardinalityType

LEMMA TakenGrows ==
    ASSUME NEW by, NEW count, NEW by2, NEW count2, NEW i,
           \A c \in Codes : count2[c] \in 0 .. MostUses,
           \A c \in Codes : by[c] = i => by2[c] = i /\ count2[c] = count[c]
    PROVE  Cardinality(Taken(by, count, i)) <= Cardinality(Taken(by2, count2, i))
<1>1. Taken(by, count, i) \subseteq Taken(by2, count2, i)
    <2> SUFFICES ASSUME NEW p \in Taken(by, count, i) PROVE p \in Taken(by2, count2, i)
        OBVIOUS
    <2> PICK c \in Codes : \E n \in 1 .. count[c] : by[c] = i /\ p = <<c, n>>
        BY TakenMember
    <2> PICK n \in 1 .. count[c] : by[c] = i /\ p = <<c, n>>
        OBVIOUS
    <2> QED
        BY TakenMember
<1> QED
    BY <1>1, TakenIsFinite, FS_Subset

(* One more use of a code of i. *)
LEMMA TakenOnce ==
    ASSUME NEW by, NEW count, NEW i, NEW d \in Codes, by[d] = i,
           \A c \in Codes : count[c] \in 0 .. MostUses,
           NEW more, more[d] = count[d] + 1, \A c \in Codes \ {d} : more[c] = count[c]
    PROVE  Cardinality(Taken(by, more, i)) = Cardinality(Taken(by, count, i)) + 1
<1> DEFINE p == <<d, count[d] + 1>>
<1>1. \A c \in Codes : more[c] = (IF c = d THEN count[c] + 1 ELSE count[c])
                         /\ count[c] \in Nat
    BY MostUsesType
<1>2. Taken(by, more, i) \subseteq Taken(by, count, i) \cup {p}
    <2> SUFFICES ASSUME NEW q \in Taken(by, more, i), q # p PROVE q \in Taken(by, count, i)
        OBVIOUS
    <2> PICK c \in Codes : \E n \in 1 .. more[c] : by[c] = i /\ q = <<c, n>>
        BY TakenMember
    <2> PICK n \in 1 .. more[c] : by[c] = i /\ q = <<c, n>>
        OBVIOUS
    <2>1. n \in 1 .. count[c]
        BY <1>1
    <2> QED
        BY <2>1, TakenMember
<1>3. Taken(by, count, i) \subseteq Taken(by, more, i)
    <2> SUFFICES ASSUME NEW q \in Taken(by, count, i) PROVE q \in Taken(by, more, i)
        OBVIOUS
    <2> PICK c \in Codes : \E n \in 1 .. count[c] : by[c] = i /\ q = <<c, n>>
        BY TakenMember
    <2> PICK n \in 1 .. count[c] : by[c] = i /\ q = <<c, n>>
        OBVIOUS
    <2>1. n \in 1 .. more[c]
        BY <1>1
    <2> QED
        BY <2>1, TakenMember
<1>4. p \in Taken(by, more, i)
    <2>1. count[d] + 1 \in 1 .. more[d]
        BY <1>1
    <2> QED
        BY <2>1, TakenMember
<1>5. p \notin Taken(by, count, i)
    <2> SUFFICES ASSUME p \in Taken(by, count, i) PROVE FALSE
        OBVIOUS
    <2> PICK c \in Codes : \E n \in 1 .. count[c] : p = <<c, n>>
        BY TakenMember
    <2> PICK n \in 1 .. count[c] : p = <<c, n>>
        OBVIOUS
    <2>1. c = d /\ n = count[d] + 1
        OBVIOUS
    <2> QED
        BY <2>1
<1>6. Taken(by, more, i) = Taken(by, count, i) \cup {p}
    BY <1>2, <1>3, <1>4
<1>7. IsFiniteSet(Taken(by, count, i))
    BY TakenIsFinite
<1> HIDE DEF p
<1>8. Cardinality(Taken(by, count, i) \cup {p}) = Cardinality(Taken(by, count, i)) + 1
    BY <1>5, <1>7, FS_AddElement
<1> QED
    BY <1>6, <1>8

LEMMA ClaimsFinite ==
    ASSUME NEW S \in SUBSET Accounts
    PROVE  IsFiniteSet(S) /\ Cardinality(S) \in Nat
BY ConstantsAssumption, FS_Subset, FS_CardinalityType

LEMMA CountBound ==
    ASSUME NEW count \in [Codes -> Nat], \A c \in Codes : count[c] <= MaxUses[c]
    PROVE  \A c \in Codes : count[c] \in 0 .. MostUses
<1> SUFFICES ASSUME NEW c \in Codes PROVE count[c] \in 0 .. MostUses
    OBVIOUS
<1>1. MaxUses[c] \in 1 .. MostUses
    BY ConstantsAssumption DEF MostUses
<1>2. count[c] \in Nat /\ count[c] <= MaxUses[c]
    OBVIOUS
<1> QED
    BY <1>1, <1>2, MostUsesType

(* No claim to i is added and no use of its codes is taken back.             *)
LEMMA ClaimsShrink ==
    ASSUME ClaimInv, \A c \in Codes : uses'[c] \in 0 .. MostUses, NEW i \in Accounts,
           Claims(i)' \subseteq Claims(i),
           \A c \in Codes : creator[c] = i => creator'[c] = i /\ uses'[c] = uses[c]
    PROVE  Cardinality(Claims(i)') <= Cardinality(UsesOf(i)')
<1>1. Cardinality(Claims(i)) <= Cardinality(UsesOf(i))
    BY DEF ClaimInv, ClaimsCovered
<1>2. /\ UsesOf(i) = Taken(creator, uses, i)
      /\ UsesOf(i)' = Taken(creator', uses', i)
    BY DEF UsesOf, CodesOf, Taken
<1>3. \A c \in Codes : uses[c] \in 0 .. MostUses
    BY CountBound DEF ClaimInv, TypeInv, TypeOK, UsesWithinLimit
<1>4. Cardinality(UsesOf(i)) <= Cardinality(UsesOf(i)')
    BY <1>2, TakenGrows
<1>5. Claims(i) \in SUBSET Accounts /\ Claims(i)' \in SUBSET Accounts
    BY DEF Claims
<1>6. Cardinality(Claims(i)') <= Cardinality(Claims(i))
    BY <1>5, ClaimsFinite, FS_Subset
<1>7. /\ Cardinality(UsesOf(i)) \in Nat /\ Cardinality(UsesOf(i)') \in Nat
      /\ Cardinality(Claims(i)) \in Nat /\ Cardinality(Claims(i)') \in Nat
    BY <1>2, <1>3, <1>5, TakenIsFinite, ClaimsFinite
<1> QED
    BY <1>1, <1>4, <1>6, <1>7

(* The calls that are at their link were there before, with the same code.   *)
LinksRemain ==
    \A v \in Workers : call'[v].pc = "link" =>
        /\ call[v].pc = "link"
        /\ call'[v].account = call[v].account
        /\ call'[v].code = call[v].code

LEMMA LinksOf ==
    ASSUME TypeInv, NEW w \in Workers,
           \/ \E next : Continue(w, next) /\ next.pc # "link"
           \/ \E statement : Goto(w, statement) /\ statement # "link"
    PROVE  LinksRemain
BY DEF LinksRemain, Continue, Goto, TypeInv, TypeOK, Calls

LEMMA ClaimsRemain ==
    ASSUME ClaimInv, \A c \in Codes : uses'[c] \in 0 .. MostUses, LinksRemain,
           UNCHANGED <<invitedBy, uses>>,
           \A c \in Codes : creator[c] # NoAccount => creator'[c] = creator[c]
    PROVE  ClaimsCovered'
<1> SUFFICES ASSUME NEW i \in Accounts
             PROVE  Cardinality(Claims(i)') <= Cardinality(UsesOf(i)')
    BY DEF ClaimsCovered
<1>1. i # NoAccount
    BY ConstantsAssumption
<1>2. \A v \in Workers : call[v].pc = "link" =>
          creator'[call[v].code] = creator[call[v].code]
    BY DEF ClaimInv, TypeInv, CallsOK, CallOK, Linking
<1>3. \A a : Linker(a, i)' => Linker(a, i)
    BY <1>2 DEF Linker, LinksRemain
<1>4. Claims(i)' \subseteq Claims(i)
    BY <1>3 DEF Claims
<1> QED
    BY <1>1, <1>4, ClaimsShrink

(* The UPDATE of redeem: one use and at most one claim more. *)
LEMMA RedeemStep ==
    ASSUME ClaimInv, \A c \in Codes : uses'[c] \in 0 .. MostUses, NEW w \in Workers, Redeem(w),
           Redeemable(call[w].code)
    PROVE  ClaimsCovered'
<1> SUFFICES ASSUME NEW i \in Accounts
             PROVE  Cardinality(Claims(i)') <= Cardinality(UsesOf(i)')
    BY DEF ClaimsCovered
<1> PICK b \in Accounts, d \in Codes : b = call[w].account /\ d = call[w].code
    BY DEF Redeem, ClaimInv, TypeInv, TypeOK, CallsOK, CallOK, Linking
<1>0. uses \in [Codes -> Nat] /\ call \in [Workers -> Calls]
    BY DEF ClaimInv, TypeInv, TypeOK
<1>1. /\ uses' = [uses EXCEPT ![d] = @ + 1]
      /\ UNCHANGED <<invitedBy, creator>>
      /\ \A v \in Workers \ {w} : call'[v] = call[v]
      /\ call'[w].account = b /\ call'[w].code = d
    BY <1>0 DEF Redeem, Goto, accountRows, Calls
<1>2. CASE creator[d] # i
    <2>a. \A a : Linker(a, i)' => Linker(a, i)
        BY <1>1, <1>2 DEF Linker
    <2>1. Claims(i)' \subseteq Claims(i)
        BY <1>1, <2>a DEF Claims
    <2>2. \A c \in Codes : creator[c] = i => creator'[c] = i /\ uses'[c] = uses[c]
        BY <1>0, <1>1, <1>2
    <2> QED
        BY <2>1, <2>2, ClaimsShrink
<1>3. CASE creator[d] = i
    <2>a. \A a : Linker(a, i)' => Linker(a, i) \/ a = b
        BY <1>1 DEF Linker
    <2>1. Claims(i)' \subseteq Claims(i) \cup {b}
        BY <1>1, <2>a DEF Claims
    <2>2. /\ UsesOf(i) = Taken(creator, uses, i)
          /\ UsesOf(i)' = Taken(creator', uses', i)
        BY DEF UsesOf, CodesOf, Taken
    <2>3. \A c \in Codes : uses[c] \in 0 .. MostUses
        BY <1>0, CountBound DEF ClaimInv, UsesWithinLimit
    <2>4. Cardinality(UsesOf(i)') = Cardinality(UsesOf(i)) + 1
        <3>0. uses'[d] = uses[d] + 1 /\ \A c \in Codes \ {d} : uses'[c] = uses[c]
            BY <1>0, <1>1
        <3>1. Cardinality(Taken(creator, uses', i)) = Cardinality(Taken(creator, uses, i)) + 1
            BY <1>3, <2>3, <3>0, TakenOnce
        <3> QED
            BY <1>1, <2>2, <3>1
    <2>5. Claims(i) \in SUBSET Accounts
        BY DEF Claims
    <2>6. /\ IsFiniteSet(Claims(i) \cup {b})
          /\ Cardinality(Claims(i) \cup {b}) <= Cardinality(Claims(i)) + 1
        <3>1. IsFiniteSet(Claims(i)) /\ Cardinality(Claims(i)) \in Nat
            BY <2>5, ClaimsFinite
        <3>2. /\ IsFiniteSet(Claims(i) \cup {b})
              /\ Cardinality(Claims(i) \cup {b})
                     = IF b \in Claims(i) THEN Cardinality(Claims(i))
                                          ELSE Cardinality(Claims(i)) + 1
            BY <3>1, FS_AddElement
        <3> QED
            BY <3>1, <3>2
    <2>7. Cardinality(Claims(i)') <= Cardinality(Claims(i) \cup {b})
        BY <2>1, <2>6, FS_Subset
    <2>8. Claims(i)' \in SUBSET Accounts /\ Claims(i) \cup {b} \in SUBSET Accounts
        BY DEF Claims
    <2>9. /\ Cardinality(Claims(i)') \in Nat /\ Cardinality(Claims(i)) \in Nat
          /\ Cardinality(Claims(i) \cup {b}) \in Nat /\ Cardinality(UsesOf(i)) \in Nat
        BY <2>2, <2>3, <2>5, <2>8, ClaimsFinite, TakenIsFinite
    <2>10. Cardinality(Claims(i)) <= Cardinality(UsesOf(i))
        BY DEF ClaimInv, ClaimsCovered
    <2> QED
        BY <2>4, <2>6, <2>7, <2>9, <2>10
<1> QED
    BY <1>2, <1>3

(* set_invited_by: a claim becomes a link. *)
LEMMA LinkStep ==
    ASSUME ClaimInv, \A c \in Codes : uses'[c] \in 0 .. MostUses, NEW w \in Workers, Link(w)
    PROVE  ClaimsCovered'
<1> SUFFICES ASSUME NEW i \in Accounts
             PROVE  Cardinality(Claims(i)') <= Cardinality(UsesOf(i)')
    BY DEF ClaimsCovered
<1>0. /\ invitedBy \in [Accounts -> joined \cup {NoAccount}]
      /\ call[w].pc = "link"
      /\ invitedBy' = [invitedBy EXCEPT ![call[w].account] = creator[call[w].code]]
      /\ UNCHANGED <<creator, uses>>
    BY DEF Link, codeRows, ClaimInv, TypeInv, TypeOK
<1>1. LinksRemain
    BY LinksOf DEF Link, ClaimInv
<1>2. \A a \in Accounts : invitedBy'[a] = i => invitedBy[a] = i \/ Linker(a, i)
    BY <1>0 DEF Linker
<1>3. \A a : Linker(a, i)' => Linker(a, i)
    BY <1>0, <1>1 DEF Linker, LinksRemain
<1>4. Claims(i)' \subseteq Claims(i)
    BY <1>2, <1>3 DEF Claims
<1> QED
    BY <1>0, <1>4, ClaimsShrink

LEMMA ClaimStep == ClaimInv /\ [Next]_vars => ClaimInv'
<1> SUFFICES ASSUME ClaimInv, [Next]_vars PROVE ClaimInv'
    OBVIOUS
<1>0. TypeInv /\ TypeInv' /\ UsesWithinLimit'
    BY TypeStep, UsesStep DEF ClaimInv, TypeInv
<1>a. \A c \in Codes : uses'[c] \in 0 .. MostUses
    BY <1>0, CountBound DEF TypeInv, TypeOK, UsesWithinLimit
<1>1. ASSUME NEW w \in Workers,
             \/ \E next : Continue(w, next) /\ next.pc # "link"
             \/ \E statement : Goto(w, statement) /\ statement # "link",
             UNCHANGED <<invitedBy, uses, creator>>
      PROVE  ClaimsCovered'
    BY <1>0, <1>1, <1>a, LinksOf, ClaimsRemain
<1>2. ASSUME NEW w \in Workers, Redeem(w) PROVE ClaimsCovered'
    <2>1. CASE Redeemable(call[w].code)
        BY <1>2, <1>a, <2>1, RedeemStep
    <2>2. CASE ~Redeemable(call[w].code)
        BY <1>1, <1>2, <2>2 DEF Redeem, accountRows
    <2> QED
        BY <2>1, <2>2
<1>3. ASSUME NEW w \in Workers, Link(w) PROVE ClaimsCovered'
    BY <1>3, <1>a, LinkStep
<1>4. ASSUME NEW w \in Workers, Return(w), UNCHANGED <<invitedBy, uses, creator>>
      PROVE  ClaimsCovered'
    BY <1>1, <1>4 DEF Return, Idle
<1>5. ASSUME NEW w \in Workers, InsertAccount(w) PROVE ClaimsCovered'
    <2>1. UNCHANGED <<invitedBy, uses, creator>>
        BY <1>5 DEF InsertAccount, codeRows
    <2>2. CASE Return(w)
        BY <1>4, <2>1, <2>2
    <2>3. CASE \E a \in Accounts : Continue(w, [call[w] EXCEPT !.account = a, !.email = NoEmail,
                     !.pc = IF call[w].code = NoCode THEN "issue" ELSE "validate"])
        <3> PICK a \in Accounts :
                  Continue(w, [call[w] EXCEPT !.account = a, !.email = NoEmail,
                     !.pc = IF call[w].code = NoCode THEN "issue" ELSE "validate"])
            BY <2>3
        <3> PICK next : next = [call[w] EXCEPT !.account = a, !.email = NoEmail,
                     !.pc = IF call[w].code = NoCode THEN "issue" ELSE "validate"]
            OBVIOUS
        <3>1. call[w] \in Calls
            BY <1>0 DEF TypeInv, TypeOK
        <3>2. next.pc # "link"
            BY <3>1 DEF Calls
        <3> QED
            BY <1>1, <2>1, <3>2
    <2> QED
        BY <1>5, <2>2, <2>3 DEF InsertAccount
<1>6. ASSUME NEW w \in Workers,
             \/ ValidateCode(w) \/ IssueToken(w) \/ RedeemError(w) \/ Fail(w)
      PROVE  ClaimsCovered'
    BY <1>1, <1>4, <1>6
       DEF ValidateCode, IssueToken, RedeemError, Fail, accountRows, codeRows
<1>7. ASSUME NEW w \in Workers, NEW e \in Emails, NEW c \in Codes \cup {NoCode},
             Register(w, e, c)
      PROVE  ClaimsCovered'
    <2>1. [Idle EXCEPT !.pc = "insert", !.email = e, !.code = c].pc # "link"
        BY DEF Idle
    <2> QED
        BY <1>1, <1>7, <2>1 DEF Register, accountRows, codeRows
<1>8. ASSUME NEW w \in Workers, NEW e \in Emails, Login(w, e) PROVE ClaimsCovered'
    <2>1. \A a : [Idle EXCEPT !.pc = "issue", !.account = a].pc # "link"
        BY DEF Idle
    <2> QED
        BY <1>1, <1>8, <2>1 DEF Login, accountRows, codeRows
<1>9. ASSUME UNCHANGED <<invitedBy, uses, call>>,
             \A c \in Codes : creator[c] # NoAccount => creator'[c] = creator[c]
      PROVE  ClaimsCovered'
    <2>1. LinksRemain
        BY <1>9 DEF LinksRemain
    <2> QED
        BY <1>9, <1>a, <2>1, ClaimsRemain
<1>10. ASSUME NEW a \in Accounts, NEW c \in Codes, CreateCode(a, c)
       PROVE  \A d \in Codes : creator[d] # NoAccount => creator'[d] = creator[d]
    BY <1>0, <1>10 DEF CreateCode, InsertCode, Issued, TypeInv, TypeOK
<1>11. \/ \E w \in Workers : InsertAccount(w) \/ Redeem(w) \/ Link(w)
       \/ \E w \in Workers :
              \/ ValidateCode(w) \/ IssueToken(w) \/ RedeemError(w) \/ Fail(w)
              \/ \E e \in Emails : Login(w, e)
              \/ \E e \in Emails, c \in Codes \cup {NoCode} : Register(w, e, c)
       \/ /\ UNCHANGED <<invitedBy, uses, call>>
          /\ \A c \in Codes : creator[c] # NoAccount => creator'[c] = creator[c]
    BY <1>10 DEF Next, Advance, vars, accountRows, codeRows, CreateCode,
                 Cancel, SetBanned, ExpireToken, ExpireCode
<1>12. ClaimsCovered'
    BY <1>2, <1>3, <1>5, <1>6, <1>7, <1>8, <1>9, <1>11
<1> QED
    BY <1>0, <1>12 DEF ClaimInv

(* Everybody who counts as invited by i took one use of a code of i.         *)
THEOREM InviteesHold == Spec => []InviteesWithinUses
<1>1. Init => ClaimInv
    <2> SUFFICES ASSUME Init PROVE ClaimInv
        OBVIOUS
    <2>1. TypeInv
        BY InitType
    <2>2. UsesWithinLimit
        BY MaxUsesType DEF Init, UsesWithinLimit
    <2>3. ASSUME NEW i \in Accounts PROVE Cardinality(Claims(i)) <= Cardinality(UsesOf(i))
        <3>1. Claims(i) = {}
            BY ConstantsAssumption DEF Init, Claims, Linker, Idle
        <3>2. Cardinality(Claims(i)) = 0
            BY <3>1, FS_EmptySet
        <3>3. UsesOf(i) = {}
            BY ConstantsAssumption DEF Init, UsesOf, CodesOf
        <3>4. Cardinality(UsesOf(i)) = 0
            BY <3>3, FS_EmptySet
        <3> QED
            BY <3>2, <3>4
    <2> QED
        BY <2>1, <2>2, <2>3 DEF ClaimInv, ClaimsCovered
<1>2. ClaimInv => InviteesWithinUses
    <2> SUFFICES ASSUME ClaimInv, NEW i \in Accounts
                 PROVE  Cardinality(Invitees(i)) <= Cardinality(UsesOf(i))
        BY DEF InviteesWithinUses
    <2>1. Invitees(i) \in SUBSET Claims(i) /\ Claims(i) \in SUBSET Accounts
        BY DEF Invitees, Claims
    <2>2. /\ Cardinality(Invitees(i)) <= Cardinality(Claims(i))
          /\ Cardinality(Invitees(i)) \in Nat /\ Cardinality(Claims(i)) \in Nat
        BY <2>1, ClaimsFinite, FS_Subset
    <2>3. UsesOf(i) = Taken(creator, uses, i)
        BY DEF UsesOf, CodesOf, Taken
    <2>4. \A c \in Codes : uses[c] \in 0 .. MostUses
        BY CountBound DEF ClaimInv, TypeInv, TypeOK, UsesWithinLimit
    <2>5. Cardinality(UsesOf(i)) \in Nat
        BY <2>3, <2>4, TakenIsFinite
    <2> QED
        BY <2>2, <2>5 DEF ClaimInv, ClaimsCovered
<1> QED
    BY <1>1, <1>2, ClaimStep, PTL DEF Spec
=============================================================================
