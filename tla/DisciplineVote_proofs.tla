------------------------- MODULE DisciplineVote_proofs -------------------------
(***************************************************************************)
(* Proofs about DisciplineVote, for every set of workers, every finite set *)
(* of users, all proposals, thresholds and numbers of dimensions.          *)
(***************************************************************************)
EXTENDS DisciplineVote, FiniteSetTheorems, TLAPS

-----------------------------------------------------------------------------
LEMMA QuotientBound ==
    ASSUME NEW n \in Nat, NEW m \in Nat \ {0}
    PROVE  n \div m \in 0 .. n
OBVIOUS

(* H-43: renormalization keeps a weight between 0 and 1.0.                   *)
THEOREM RenormalizeType ==
    ASSUME NEW v \in Votes
    PROVE  Renormalize(v) \in [AllDims -> 0 .. Total]
<1>1. /\ Total \in Nat /\ Dims \in Nat /\ Dims - 1 \in Nat \ {0}
      /\ Proposed[v] \in 0 .. Total
      /\ Total - Proposed[v] \in 0 .. Total
    BY ConstantsAssumption
<1>2. (Total - Proposed[v]) \div (Dims - 1) \in 0 .. (Total - Proposed[v])
    BY <1>1, QuotientBound
<1>3. (Total - Proposed[v]) \div (Dims - 1) \in 0 .. Total
    BY <1>1, <1>2
<1> QED
    BY <1>1, <1>3 DEF Renormalize

-----------------------------------------------------------------------------
(* The statement a call is at tells which local variables it has.            *)
LEMMA CallShapes ==
    ASSUME NEW c \in Calls
    PROVE  /\ c.pc \in {"cooldown", "propose", "mark"} => c.vote \in Votes
           /\ c.pc \in {"check", "cast"} =>
                  c \in [pc : {"check", "cast"}, vote : Votes, user : Users, choice : Choices]
           /\ c.pc = "tally" => c \in [pc : {"tally"}, vote : Votes, yes : Nat, no : Nat]
           /\ c.pc = "read" => c \in [pc : {"read"}, vote : Votes, dim : AllDims]
           /\ c.pc \in {"upsert", "log"} =>
                  c \in [pc : {"upsert", "log"}, vote : Votes, dim : AllDims, old : 0 .. Total]
<1>1. CASE c = Idle
    BY <1>1 DEF Idle
<1>2. CASE c \in [pc : {"cooldown", "propose", "mark"}, vote : Votes]
    <2>1. c.pc \in {"cooldown", "propose", "mark"} /\ c.vote \in Votes
        BY <1>2
    <2> QED
        BY <2>1
<1>3. CASE c \in [pc : {"check", "cast"}, vote : Votes, user : Users, choice : Choices]
    <2>1. c.pc \in {"check", "cast"}
        BY <1>3
    <2> QED
        BY <1>3, <2>1
<1>4. CASE c \in [pc : {"tally"}, vote : Votes, yes : Nat, no : Nat]
    <2>1. c.pc = "tally"
        BY <1>4
    <2> QED
        BY <1>4, <2>1
<1>5. CASE c \in [pc : {"read"}, vote : Votes, dim : AllDims]
    <2>1. c.pc = "read"
        BY <1>5
    <2> QED
        BY <1>5, <2>1
<1>6. CASE c \in [pc : {"upsert", "log"}, vote : Votes, dim : AllDims, old : 0 .. Total]
    <2>1. c.pc \in {"upsert", "log"}
        BY <1>6
    <2> QED
        BY <1>6, <2>1
<1> QED
    BY <1>1, <1>2, <1>3, <1>4, <1>5, <1>6 DEF Calls

LEMMA NextDim ==
    ASSUME NEW d \in AllDims, d # Dims
    PROVE  d + 1 \in AllDims
<1>1. Dims \in Nat
    BY ConstantsAssumption
<1> QED
    BY <1>1 DEF AllDims

LEMMA TypeStep == TypeOK /\ [Next]_vars => TypeOK'
<1> SUFFICES ASSUME TypeOK, [Next]_vars PROVE TypeOK'
    OBVIOUS
<1> USE DEF TypeOK, polls, weights, Continue, Return, Call
<1>0. Idle \in Calls
    BY DEF Idle, Calls
<1>1. ASSUME NEW w \in Workers, NEW v \in Votes, Propose(w, v) PROVE TypeOK'
    <2>1. Call("cooldown", v) \in Calls
        BY DEF Calls
    <2> QED
        BY <1>1, <2>1 DEF Propose
<1>2. ASSUME NEW w \in Workers, CheckCooldown(w) PROVE TypeOK'
    <2>1. call[w].vote \in Votes
        BY <1>2, CallShapes DEF CheckCooldown
    <2>2. Call("propose", call[w].vote) \in Calls
        BY <2>1 DEF Calls
    <2> QED
        BY <1>0, <1>2, <2>2 DEF CheckCooldown
<1>3. ASSUME NEW w \in Workers, InsertVote(w) PROVE TypeOK'
    BY <1>0, <1>3 DEF InsertVote
<1>4. ASSUME NEW w \in Workers, NEW v \in Votes, NEW u \in Users, NEW c \in Choices,
             Ballot(w, v, u, c)
      PROVE  TypeOK'
    <2>1. [pc |-> "check", vote |-> v, user |-> u, choice |-> c] \in Calls
        BY DEF Calls
    <2> QED
        BY <1>4, <2>1 DEF Ballot, Pending
<1>5. ASSUME NEW w \in Workers, CheckVoter(w) PROVE TypeOK'
    <2>1. call[w] \in [pc : {"check", "cast"}, vote : Votes, user : Users, choice : Choices]
        BY <1>5, CallShapes DEF CheckVoter, HasVoted
    <2>2. [call[w] EXCEPT !.pc = "cast"] \in Calls
        BY <2>1 DEF Calls
    <2>3. \/ call' = [call EXCEPT ![w] = [call[w] EXCEPT !.pc = "cast"]]
          \/ call' = [call EXCEPT ![w] = Idle]
        BY <1>5 DEF CheckVoter, HasVoted
    <2>4. call' \in [Workers -> Calls]
        BY <1>0, <2>2, <2>3
    <2> QED
        BY <1>5, <2>4 DEF CheckVoter, HasVoted
<1>6. ASSUME NEW w \in Workers, CastBallot(w) PROVE TypeOK'
    <2> DEFINE c == call[w]
    <2>1. c \in [pc : {"check", "cast"}, vote : Votes, user : Users, choice : Choices]
        BY <1>6, CallShapes DEF CastBallot
    <2>2. c.vote \in Votes /\ c.user \in Users /\ c.choice \in Choices
        BY <2>1
    <2>3. CASE Return(w) /\ UNCHANGED <<ballots, agree, disagree>>
        BY <1>0, <1>6, <2>3 DEF CastBallot
    <2>4. CASE ballots[c.vote][c.user] = "none"
        <3>1. /\ ballots' = [ballots EXCEPT ![c.vote][c.user] = c.choice]
              /\ agree' = [agree EXCEPT ![c.vote] = IF c.choice = "agree" THEN @ + 1 ELSE @]
              /\ disagree' = [disagree EXCEPT ![c.vote] = IF c.choice = "agree" THEN @ ELSE @ + 1]
              /\ call' = [call EXCEPT ![w] = [pc |-> "tally", vote |-> c.vote,
                                              yes |-> agree'[c.vote], no |-> disagree'[c.vote]]]
              /\ UNCHANGED <<status, weights, history, eligible>>
            BY <1>6, <2>4 DEF CastBallot
        <3>2. ballots' \in [Votes -> [Users -> Choices \cup {"none"}]]
            BY <2>2, <3>1
        <3>3. agree' \in [Votes -> Nat] /\ disagree' \in [Votes -> Nat]
            BY <2>2, <3>1
        <3>4. [pc |-> "tally", vote |-> c.vote,
               yes |-> agree'[c.vote], no |-> disagree'[c.vote]] \in Calls
            BY <2>2, <3>3 DEF Calls
        <3>5. call' \in [Workers -> Calls]
            BY <3>1, <3>4
        <3> QED
            BY <3>1, <3>2, <3>3, <3>5
    <2> QED
        BY <1>6, <2>3, <2>4 DEF CastBallot
<1>7. ASSUME NEW w \in Workers, Tally(w) PROVE TypeOK'
    <2>1. call[w].vote \in Votes
        BY <1>7, CallShapes DEF Tally
    <2>2. [pc |-> "read", vote |-> call[w].vote, dim |-> 1] \in Calls
        BY <2>1, ConstantsAssumption DEF Calls, AllDims
    <2> QED
        BY <1>0, <1>7, <2>2 DEF Tally
<1>8. ASSUME NEW w \in Workers, ReadOldWeight(w) PROVE TypeOK'
    <2>1. call[w] \in [pc : {"read"}, vote : Votes, dim : AllDims]
        BY <1>8, CallShapes DEF ReadOldWeight
    <2>2. [pc |-> "upsert", vote |-> call[w].vote, dim |-> call[w].dim,
           old |-> weight[call[w].dim]] \in Calls
        BY <2>1 DEF Calls
    <2>3. call' = [call EXCEPT ![w] = [pc |-> "upsert", vote |-> call[w].vote,
                                      dim |-> call[w].dim, old |-> weight[call[w].dim]]]
        BY <1>8 DEF ReadOldWeight
    <2>4. call' \in [Workers -> Calls]
        BY <2>2, <2>3
    <2> QED
        BY <1>8, <2>4 DEF ReadOldWeight
<1>9. ASSUME NEW w \in Workers, UpsertWeight(w) PROVE TypeOK'
    <2>1. call[w] \in [pc : {"upsert", "log"}, vote : Votes, dim : AllDims, old : 0 .. Total]
        BY <1>9, CallShapes DEF UpsertWeight
    <2>2. [call[w] EXCEPT !.pc = "log"] \in Calls
        BY <2>1 DEF Calls
    <2>3. Renormalize(call[w].vote)[call[w].dim] \in 0 .. Total
        BY <2>1, RenormalizeType
    <2>4. call' = [call EXCEPT ![w] = [call[w] EXCEPT !.pc = "log"]]
        BY <1>9 DEF UpsertWeight
    <2>5. call' \in [Workers -> Calls]
        BY <2>2, <2>4
    <2>6. call[w].vote \in Votes /\ call[w].dim \in AllDims
        BY <2>1
    <2>7. weight' \in [AllDims -> 0 .. Total] /\ source' \in [AllDims -> Votes \cup {NoVote}]
        BY <1>9, <2>3, <2>6 DEF UpsertWeight
    <2>8. cooling' \subseteq AllDims
        BY <1>9, <2>6 DEF UpsertWeight
    <2> QED
        BY <1>9, <2>5, <2>7, <2>8 DEF UpsertWeight
<1>10. ASSUME NEW w \in Workers, InsertHistory(w) PROVE TypeOK'
    <2> DEFINE c == call[w]
               entry == [old |-> c.old, new |-> Renormalize(c.vote)[c.dim], vote |-> c.vote]
               Rows == [old : 0 .. Total, new : 0 .. Total, vote : Votes]
               next == IF c.dim = Dims THEN Call("mark", c.vote)
                                       ELSE [pc |-> "read", vote |-> c.vote, dim |-> c.dim + 1]
    <2>1. c \in [pc : {"upsert", "log"}, vote : Votes, dim : AllDims, old : 0 .. Total]
        BY <1>10, CallShapes DEF InsertHistory
    <2>2. c.vote \in Votes /\ c.dim \in AllDims /\ c.old \in 0 .. Total
        BY <2>1
    <2>3. entry \in Rows
        BY <2>2, RenormalizeType
    <2>4. next \in Calls
        <3>1. CASE c.dim = Dims
            BY <2>2, <3>1 DEF Calls
        <3>2. CASE c.dim # Dims
            <4>1. c.dim + 1 \in AllDims
                BY <2>2, <3>2, NextDim
            <4>2. [pc |-> "read", vote |-> c.vote, dim |-> c.dim + 1] \in Calls
                BY <2>2, <4>1 DEF Calls
            <4> QED
                BY <3>2, <4>2
        <3> QED
            BY <3>1, <3>2
    <2>5. /\ call' = [call EXCEPT ![w] = next]
          /\ history' = [history EXCEPT ![c.dim] = Append(@, entry)]
          /\ UNCHANGED <<polls, weights, eligible>>
        BY <1>10 DEF InsertHistory
    <2> HIDE DEF c, entry, next, Rows
    <2>6a. history \in [AllDims -> Seq(Rows)]
        BY DEF Rows
    <2>6b. Append(history[c.dim], entry) \in Seq(Rows)
        BY <2>2, <2>3, <2>6a
    <2>6. call' \in [Workers -> Calls]
        BY <2>4, <2>5
    <2>7. history' \in [AllDims -> Seq(Rows)]
        BY <2>2, <2>5, <2>6a, <2>6b
    <2> QED
        BY <2>5, <2>6, <2>7 DEF Rows
<1>11. ASSUME NEW w \in Workers, MarkApplied(w) PROVE TypeOK'
    BY <1>0, <1>11 DEF MarkApplied, Pending
<1>12. ASSUME NEW w \in Workers, Fail(w) PROVE TypeOK'
    BY <1>0, <1>12 DEF Fail
<1>13. ASSUME NEW d \in AllDims, Thaw(d) PROVE TypeOK'
    BY <1>13 DEF Thaw
<1>14. ASSUME NEW u \in Users, ChangeEligibility(u) PROVE TypeOK'
    BY <1>14 DEF ChangeEligibility
<1>15. ASSUME UNCHANGED vars PROVE TypeOK'
    BY <1>15 DEF vars
<1> QED
    BY <1>1, <1>2, <1>3, <1>4, <1>5, <1>6, <1>7, <1>8, <1>9, <1>10, <1>11, <1>12, <1>13,
       <1>14, <1>15 DEF Next, Advance

LEMMA InitType == Init => TypeOK
<1> SUFFICES ASSUME Init PROVE TypeOK
    OBVIOUS
<1> USE DEF Init
<1>1. EqualWeight \in 0 .. Total
    <2>1. Total \in Nat /\ Dims \in Nat \ {0}
        BY ConstantsAssumption
    <2> QED
        BY <2>1, QuotientBound DEF EqualWeight
<1>2. call \in [Workers -> Calls]
    BY DEF Calls
<1> QED
    BY <1>1, <1>2 DEF TypeOK

(* The type invariant: each statement finds the local variables it uses, and *)
(* every weight written is between 0 and 1.0.                                *)
THEOREM TypeCorrect == Spec => []TypeOK
BY InitType, TypeStep, PTL DEF Spec

-----------------------------------------------------------------------------
(***************************************************************************)
(* The inductive invariant.  That a weight has its quorum needs that the   *)
(* counters are ballots, that a counter is never more than what a call has *)
(* seen of it by the time it applies the vote, and that the calls past the *)
(* threshold are those of votes with enough agreement: ballots are never   *)
(* withdrawn, so a stale count is still a lower bound.                     *)
(***************************************************************************)
VotersAreOthers ==
    \A w \in Workers : call[w].pc \in {"check", "cast"} =>
        call[w].user # ProposerOf[call[w].vote]

TalliesAreSeen ==
    \A w \in Workers : call[w].pc = "tally" => call[w].yes <= agree[call[w].vote]

AppliesAreAgreed ==
    \A w \in Workers : call[w].pc \in {"read", "upsert", "log", "mark"} =>
        agree[call[w].vote] >= MinAgree

SourcesAreAgreed ==
    \A d \in AllDims :
        IF source[d] = NoVote
          THEN weight[d] = EqualWeight
          ELSE agree[source[d]] >= MinAgree /\ weight[d] = Renormalize(source[d])[d]

IInv ==
    /\ TypeOK
    /\ CountsAreBallots
    /\ VotersAreOthers
    /\ TalliesAreSeen
    /\ AppliesAreAgreed
    /\ SourcesAreAgreed

(* Steps that write no count and no weight. *)
LEMMA TablesUntouched ==
    ASSUME IInv, UNCHANGED <<ballots, agree, disagree, weight, source>>
    PROVE  CountsAreBallots' /\ SourcesAreAgreed'
BY DEF IInv, CountsAreBallots, Said, SourcesAreAgreed

(* A step that moves w to a call for which the facts hold keeps them for all. *)
LEMMA CallMoved ==
    ASSUME IInv, NEW w \in Workers, NEW next, Continue(w, next), UNCHANGED agree,
           next.pc \in {"check", "cast"} => next.user # ProposerOf[next.vote],
           next.pc = "tally" => next.yes <= agree[next.vote],
           next.pc \in {"read", "upsert", "log", "mark"} => agree[next.vote] >= MinAgree
    PROVE  VotersAreOthers' /\ TalliesAreSeen' /\ AppliesAreAgreed'
<1>1. /\ call'[w] = next
      /\ \A x \in Workers \ {w} : call'[x] = call[x]
    BY DEF Continue, IInv, TypeOK
<1>2. VotersAreOthers'
    BY <1>1 DEF IInv, VotersAreOthers
<1>3. TalliesAreSeen'
    BY <1>1 DEF IInv, TalliesAreSeen
<1>4. AppliesAreAgreed'
    BY <1>1 DEF IInv, AppliesAreAgreed
<1> QED
    BY <1>2, <1>3, <1>4

LEMMA Returned ==
    ASSUME IInv, NEW w \in Workers, Return(w), UNCHANGED agree
    PROVE  VotersAreOthers' /\ TalliesAreSeen' /\ AppliesAreAgreed'
<1>1. Idle.pc = "idle"
    BY DEF Idle
<1> QED
    BY <1>1, CallMoved DEF Return

LEMMA SaidIsFinite ==
    ASSUME NEW v, NEW choice
    PROVE  /\ IsFiniteSet(Said(v, choice))
           /\ Cardinality(Said(v, choice)) \in Nat
<1>1. Said(v, choice) \subseteq Users
    BY DEF Said
<1>2. IsFiniteSet(Said(v, choice))
    BY <1>1, ConstantsAssumption, FS_Subset
<1> QED
    BY <1>2, FS_CardinalityType

(* The transaction of CastBallot: one more ballot, one more in its count.     *)
LEMMA CastStep ==
    ASSUME IInv, NEW w \in Workers, CastBallot(w), ballots[call[w].vote][call[w].user] = "none"
    PROVE  CountsAreBallots' /\ VotersAreOthers' /\ TalliesAreSeen' /\ AppliesAreAgreed'
           /\ SourcesAreAgreed'
<1> DEFINE c == call[w]
<1>1. /\ c.vote \in Votes /\ c.user \in Users /\ c.choice \in {"agree", "disagree"}
      /\ c.user # ProposerOf[c.vote]
    <2>1. c \in [pc : {"check", "cast"}, vote : Votes, user : Users, choice : Choices]
        BY CallShapes DEF CastBallot, IInv, TypeOK
    <2>2. Choices \subseteq {"agree", "disagree"}
        BY ConstantsAssumption
    <2>3. c.pc = "cast"
        BY DEF CastBallot
    <2> QED
        BY <2>1, <2>2, <2>3 DEF IInv, VotersAreOthers
<1>2. /\ ballots' = [ballots EXCEPT ![c.vote][c.user] = c.choice]
      /\ agree' = [agree EXCEPT ![c.vote] = IF c.choice = "agree" THEN @ + 1 ELSE @]
      /\ disagree' = [disagree EXCEPT ![c.vote] = IF c.choice = "agree" THEN @ ELSE @ + 1]
      /\ call' = [call EXCEPT ![w] = [pc |-> "tally", vote |-> c.vote,
                                      yes |-> agree'[c.vote], no |-> disagree'[c.vote]]]
      /\ UNCHANGED <<weight, source>>
    BY DEF CastBallot, Continue, weights
<1>3. /\ ballots \in [Votes -> [Users -> Choices \cup {"none"}]]
      /\ agree \in [Votes -> Nat] /\ disagree \in [Votes -> Nat]
      /\ call \in [Workers -> Calls]
      /\ source \in [AllDims -> Votes \cup {NoVote}]
    BY DEF IInv, TypeOK
<1>0. ballots[c.vote][c.user] = "none"
    OBVIOUS
<1> HIDE DEF c
<1>4. /\ \A v \in Votes : agree'[v] \in Nat /\ agree'[v] >= agree[v]
      /\ \A v \in Votes \ {c.vote} : agree'[v] = agree[v] /\ disagree'[v] = disagree[v]
      /\ agree'[c.vote] = IF c.choice = "agree" THEN agree[c.vote] + 1 ELSE agree[c.vote]
      /\ disagree'[c.vote] = IF c.choice = "agree" THEN disagree[c.vote] ELSE disagree[c.vote] + 1
    BY <1>1, <1>2, <1>3
<1>5. CountsAreBallots'
    <2>0. PICK p \in Votes : p = c.vote
        BY <1>1
    <2>a. PICK q \in Users : q = c.user
        BY <1>1
    <2>1. \A v \in Votes : \A u \in Users :
              ballots'[v][u] = IF v = p /\ u = q THEN c.choice ELSE ballots[v][u]
        BY <1>1, <1>2, <1>3, <2>0, <2>a
    <2>2. \A v \in Votes \ {p} : \A choice : Said(v, choice)' = Said(v, choice)
        BY <2>1 DEF Said
    <2>3. /\ Said(p, "agree")' = IF c.choice = "agree" THEN Said(p, "agree") \cup {q}
                                                       ELSE Said(p, "agree")
          /\ Said(p, "disagree")' = IF c.choice = "agree" THEN Said(p, "disagree")
                                                          ELSE Said(p, "disagree") \cup {q}
        <3>1. ballots[p][q] = "none"
            BY <1>0, <2>0, <2>a
        <3> QED
            BY <1>1, <2>1, <3>1 DEF Said
    <2>4. q \notin Said(p, "agree") /\ q \notin Said(p, "disagree")
        BY <1>0, <2>0, <2>a DEF Said
    <2>5. /\ Cardinality(Said(p, "agree") \cup {q}) = Cardinality(Said(p, "agree")) + 1
          /\ Cardinality(Said(p, "disagree") \cup {q}) = Cardinality(Said(p, "disagree")) + 1
        BY <2>4, SaidIsFinite, FS_AddElement
    <2>6. /\ agree[p] = Cardinality(Said(p, "agree"))
          /\ disagree[p] = Cardinality(Said(p, "disagree"))
        BY DEF IInv, CountsAreBallots
    <2>b. /\ agree'[p] = IF c.choice = "agree" THEN agree[p] + 1 ELSE agree[p]
          /\ disagree'[p] = IF c.choice = "agree" THEN disagree[p] ELSE disagree[p] + 1
        BY <1>4, <2>0
    <2>7. /\ agree'[p] = Cardinality(Said(p, "agree")')
          /\ disagree'[p] = Cardinality(Said(p, "disagree")')
        BY <2>3, <2>5, <2>6, <2>b
    <2>8. \A v \in Votes : ballots'[v][ProposerOf[v]] = "none"
        <3>1. \A v \in Votes : ProposerOf[v] \in Users
            BY ConstantsAssumption
        <3>2. \A v \in Votes : ballots[v][ProposerOf[v]] = "none"
            BY DEF IInv, CountsAreBallots
        <3>3. q # ProposerOf[p]
            BY <1>1, <2>0, <2>a
        <3> QED
            BY <2>1, <3>1, <3>2, <3>3
    <2>9. \A v \in Votes \ {p} : /\ agree'[v] = Cardinality(Said(v, "agree")')
                                  /\ disagree'[v] = Cardinality(Said(v, "disagree")')
        BY <1>4, <2>0, <2>2 DEF IInv, CountsAreBallots
    <2> QED
        BY <2>7, <2>8, <2>9 DEF CountsAreBallots
<1>6. /\ call'[w].pc = "tally" /\ call'[w].vote = c.vote /\ call'[w].yes = agree'[c.vote]
      /\ \A x \in Workers \ {w} : call'[x] = call[x]
    BY <1>2, <1>3
<1>7. VotersAreOthers'
    BY <1>6 DEF IInv, VotersAreOthers
<1>8. TalliesAreSeen'
    <2> SUFFICES ASSUME NEW x \in Workers, call'[x].pc = "tally"
                 PROVE  call'[x].yes <= agree'[call'[x].vote]
        BY DEF TalliesAreSeen
    <2>1. CASE x = w
        BY <1>1, <1>4, <1>6, <2>1
    <2>2. CASE x # w
        <3>1. call'[x] = call[x]
            BY <1>6, <2>2
        <3>2. call[x] \in [pc : {"tally"}, vote : Votes, yes : Nat, no : Nat]
            BY <1>3, <3>1, CallShapes
        <3>3. call[x].yes <= agree[call[x].vote]
            BY <3>1 DEF IInv, TalliesAreSeen
        <3>4. call[x].yes \in Nat /\ call[x].vote \in Votes /\ agree[call[x].vote] \in Nat
            BY <1>3, <3>2
        <3> QED
            BY <1>4, <3>1, <3>3, <3>4
    <2> QED
        BY <2>1, <2>2
<1>9. AppliesAreAgreed'
    <2> SUFFICES ASSUME NEW x \in Workers, call'[x].pc \in {"read", "upsert", "log", "mark"}
                 PROVE  agree'[call'[x].vote] >= MinAgree
        BY DEF AppliesAreAgreed
    <2>1. x # w /\ call'[x] = call[x]
        BY <1>6
    <2>2. call[x].vote \in Votes
        BY <1>3, <2>1, CallShapes
    <2>3. agree[call[x].vote] >= MinAgree
        BY <2>1 DEF IInv, AppliesAreAgreed
    <2>4. MinAgree \in Nat /\ agree[call[x].vote] \in Nat
        BY <1>3, <2>2, ConstantsAssumption
    <2> QED
        BY <1>4, <2>1, <2>2, <2>3, <2>4
<1>10. SourcesAreAgreed'
    <2> SUFFICES ASSUME NEW d \in AllDims, source[d] # NoVote
                 PROVE  agree'[source[d]] >= MinAgree
        BY <1>2 DEF IInv, SourcesAreAgreed
    <2>1. source[d] \in Votes
        BY <1>3
    <2>2. agree[source[d]] >= MinAgree
        BY DEF IInv, SourcesAreAgreed
    <2>3. MinAgree \in Nat /\ agree[source[d]] \in Nat
        BY <1>3, <2>1, ConstantsAssumption
    <2> QED
        BY <1>4, <2>1, <2>2, <2>3
<1> QED
    BY <1>5, <1>7, <1>8, <1>9, <1>10

-----------------------------------------------------------------------------
LEMMA IInvStep == IInv /\ [Next]_vars => IInv'
<1> SUFFICES ASSUME IInv, [Next]_vars PROVE IInv'
    OBVIOUS
<1> DEFINE Tables == CountsAreBallots /\ SourcesAreAgreed
           Calling == VotersAreOthers /\ TalliesAreSeen /\ AppliesAreAgreed
<1>0. TypeOK /\ TypeOK'
    BY TypeStep DEF IInv
<1> USE DEF polls, weights
<1>1. ASSUME NEW w \in Workers, NEW v \in Votes, Propose(w, v) PROVE Tables' /\ Calling'
    BY <1>1, TablesUntouched, CallMoved DEF Propose, Call
<1>2. ASSUME NEW w \in Workers, CheckCooldown(w) PROVE Tables' /\ Calling'
    <2>1. Return(w) \/ Continue(w, Call("propose", call[w].vote))
        BY <1>2 DEF CheckCooldown
    <2> QED
        BY <1>2, <2>1, TablesUntouched, CallMoved, Returned DEF CheckCooldown, Call
<1>3. ASSUME NEW w \in Workers, InsertVote(w) PROVE Tables' /\ Calling'
    BY <1>3, TablesUntouched, Returned DEF InsertVote
<1>4. ASSUME NEW w \in Workers, NEW v \in Votes, NEW u \in Users, NEW c \in Choices,
             Ballot(w, v, u, c)
      PROVE  Tables' /\ Calling'
    BY <1>4, TablesUntouched, CallMoved DEF Ballot, Pending
<1>5. ASSUME NEW w \in Workers, CheckVoter(w) PROVE Tables' /\ Calling'
    <2> DEFINE next == [call[w] EXCEPT !.pc = "cast"]
    <2>1. /\ Return(w) \/ Continue(w, next)
          /\ call[w].pc = "check"
        BY <1>5 DEF CheckVoter, HasVoted
    <2>2. call[w] \in [pc : {"check", "cast"}, vote : Votes, user : Users, choice : Choices]
        BY <1>0, <2>1, CallShapes DEF TypeOK
    <2>3. next.pc = "cast" /\ next.user = call[w].user /\ next.vote = call[w].vote
        BY <2>2
    <2>4. call[w].user # ProposerOf[call[w].vote]
        BY <2>1 DEF IInv, VotersAreOthers
    <2>5. UNCHANGED <<polls, weights>>
        BY <1>5 DEF CheckVoter, HasVoted
    <2> HIDE DEF next
    <2> QED
        BY <2>1, <2>3, <2>4, <2>5, TablesUntouched, CallMoved, Returned
<1>6. ASSUME NEW w \in Workers, CastBallot(w) PROVE Tables' /\ Calling'
    <2>1. CASE ballots[call[w].vote][call[w].user] = "none"
        BY <1>6, <2>1, CastStep
    <2>2. CASE ballots[call[w].vote][call[w].user] # "none"
        BY <1>6, <2>2, TablesUntouched, Returned DEF CastBallot
    <2> QED
        BY <2>1, <2>2
<1>7. ASSUME NEW w \in Workers, Tally(w) PROVE Tables' /\ Calling'
    <2> DEFINE next == [pc |-> "read", vote |-> call[w].vote, dim |-> 1]
    <2>1. UNCHANGED <<polls, weights>>
        BY <1>7 DEF Tally
    <2>2. CASE Return(w)
        BY <2>1, <2>2, TablesUntouched, Returned
    <2>3. CASE /\ ShouldApply(call[w].yes, call[w].no, Cardinality(eligible))
               /\ Continue(w, next)
        <3>1. call[w].yes >= MinAgree /\ call[w].yes <= agree[call[w].vote]
            BY <1>7, <2>3 DEF Tally, ShouldApply, IInv, TalliesAreSeen
        <3>2. call[w] \in [pc : {"tally"}, vote : Votes, yes : Nat, no : Nat]
            BY <1>0, <1>7, CallShapes DEF Tally, TypeOK
        <3>3. call[w].yes \in Nat /\ agree[call[w].vote] \in Nat /\ MinAgree \in Nat
            BY <1>0, <3>2, ConstantsAssumption DEF TypeOK
        <3>4. agree[call[w].vote] >= MinAgree
            BY <3>1, <3>3
        <3>5. next.pc = "read" /\ next.vote = call[w].vote
            OBVIOUS
        <3> HIDE DEF next
        <3> QED
            BY <2>1, <2>3, <3>4, <3>5, TablesUntouched, CallMoved
    <2> QED
        BY <1>7, <2>2, <2>3 DEF Tally
<1>8. ASSUME NEW w \in Workers, ReadOldWeight(w) PROVE Tables' /\ Calling'
    <2>1. agree[call[w].vote] >= MinAgree
        BY <1>8 DEF ReadOldWeight, IInv, AppliesAreAgreed
    <2> DEFINE next == [pc |-> "upsert", vote |-> call[w].vote, dim |-> call[w].dim,
                        old |-> weight[call[w].dim]]
    <2>2. /\ Continue(w, next)
          /\ UNCHANGED <<polls, weights>>
          /\ next.pc = "upsert" /\ next.vote = call[w].vote
        BY <1>8 DEF ReadOldWeight
    <2> HIDE DEF next
    <2> QED
        BY <2>1, <2>2, TablesUntouched, CallMoved
<1>9. ASSUME NEW w \in Workers, UpsertWeight(w) PROVE Tables' /\ Calling'
    <2> DEFINE c == call[w]
               next == [c EXCEPT !.pc = "log"]
    <2>1. c.pc = "upsert" /\ agree[c.vote] >= MinAgree
        BY <1>9 DEF UpsertWeight, IInv, AppliesAreAgreed
    <2>2. c \in [pc : {"upsert", "log"}, vote : Votes, dim : AllDims, old : 0 .. Total]
        BY <1>0, <2>1, CallShapes DEF TypeOK
    <2>3. /\ c.vote \in Votes /\ c.dim \in AllDims
          /\ next.pc = "log" /\ next.vote = c.vote
        BY <2>2
    <2>4. /\ weight' = [weight EXCEPT ![c.dim] = Renormalize(c.vote)[c.dim]]
          /\ source' = [source EXCEPT ![c.dim] = c.vote]
          /\ UNCHANGED polls
          /\ Continue(w, next)
        BY <1>9 DEF UpsertWeight
    <2>5. /\ weight \in [AllDims -> 0 .. Total]
          /\ source \in [AllDims -> Votes \cup {NoVote}]
        BY <1>0 DEF TypeOK
    <2> HIDE DEF c, next
    <2>6. SourcesAreAgreed'
        <3> SUFFICES ASSUME NEW d \in AllDims
                     PROVE  IF source'[d] = NoVote
                              THEN weight'[d] = EqualWeight
                              ELSE agree'[source'[d]] >= MinAgree
                                   /\ weight'[d] = Renormalize(source'[d])[d]
            BY DEF SourcesAreAgreed, Renormalize
        <3>1. CASE d = c.dim
            <4>1. source'[d] = c.vote /\ weight'[d] = Renormalize(c.vote)[d]
                BY <2>3, <2>4, <2>5, <3>1
            <4>2. c.vote # NoVote
                BY <2>3, ConstantsAssumption
            <4> QED
                BY <2>1, <2>4, <4>1, <4>2
        <3>2. CASE d # c.dim
            <4>1. source'[d] = source[d] /\ weight'[d] = weight[d] /\ agree' = agree
                BY <2>4, <2>5, <3>2
            <4> QED
                BY <4>1 DEF IInv, SourcesAreAgreed
        <3> QED
            BY <3>1, <3>2
    <2>7. CountsAreBallots'
        BY <2>4 DEF IInv, CountsAreBallots, Said
    <2>8. Calling'
        BY <2>1, <2>3, <2>4, CallMoved DEF c
    <2> QED
        BY <2>6, <2>7, <2>8
<1>10. ASSUME NEW w \in Workers, InsertHistory(w) PROVE Tables' /\ Calling'
    <2> DEFINE next == IF call[w].dim = Dims
                         THEN Call("mark", call[w].vote)
                         ELSE [pc |-> "read", vote |-> call[w].vote, dim |-> call[w].dim + 1]
    <2>1. agree[call[w].vote] >= MinAgree
        BY <1>10 DEF InsertHistory, IInv, AppliesAreAgreed
    <2>2. /\ Continue(w, next)
          /\ UNCHANGED <<polls, weights>>
        BY <1>10 DEF InsertHistory
    <2>3. next.pc \in {"read", "mark"} /\ next.vote = call[w].vote
        BY DEF Call
    <2> HIDE DEF next
    <2> QED
        BY <2>1, <2>2, <2>3, TablesUntouched, CallMoved
<1>11. ASSUME NEW w \in Workers, MarkApplied(w) PROVE Tables' /\ Calling'
    BY <1>11, TablesUntouched, Returned DEF MarkApplied
<1>12. ASSUME NEW w \in Workers, Fail(w) PROVE Tables' /\ Calling'
    BY <1>12, TablesUntouched, Returned DEF Fail
<1>13. ASSUME UNCHANGED <<ballots, agree, disagree, weight, source, call>>
       PROVE  Tables' /\ Calling'
    BY <1>13, TablesUntouched
       DEF IInv, VotersAreOthers, TalliesAreSeen, AppliesAreAgreed
<1>14. (\E d \in AllDims : Thaw(d)) \/ (\E u \in Users : ChangeEligibility(u)) \/ UNCHANGED vars
       => UNCHANGED <<ballots, agree, disagree, weight, source, call>>
    BY DEF Thaw, ChangeEligibility, vars
<1> HIDE DEF Tables, Calling
<1>15. Tables' /\ Calling'
    BY <1>1, <1>2, <1>3, <1>4, <1>5, <1>6, <1>7, <1>8, <1>9, <1>10, <1>11, <1>12, <1>13, <1>14
       DEF Next, Advance
<1> QED
    BY <1>0, <1>15 DEF Tables, Calling, IInv

LEMMA InitIInv == Init => IInv
<1> SUFFICES ASSUME Init PROVE IInv
    OBVIOUS
<1>1. TypeOK
    BY InitType
<1>2. CountsAreBallots
    <2> SUFFICES ASSUME NEW v \in Votes
                 PROVE  /\ agree[v] = Cardinality(Said(v, "agree"))
                        /\ disagree[v] = Cardinality(Said(v, "disagree"))
                        /\ ballots[v][ProposerOf[v]] = "none"
        BY DEF CountsAreBallots
    <2>1. Said(v, "agree") = {} /\ Said(v, "disagree") = {}
        BY DEF Init, Said
    <2>2. ProposerOf[v] \in Users
        BY ConstantsAssumption
    <2> QED
        BY <2>1, <2>2, FS_EmptySet DEF Init
<1>3. \A w \in Workers : call[w].pc = "idle"
    BY DEF Init, Idle
<1>4. VotersAreOthers /\ TalliesAreSeen /\ AppliesAreAgreed
    BY <1>3 DEF VotersAreOthers, TalliesAreSeen, AppliesAreAgreed
<1>5. SourcesAreAgreed
    BY DEF Init, SourcesAreAgreed
<1> QED
    BY <1>1, <1>2, <1>4, <1>5 DEF IInv

(* What the statements of a call know of counters and ballots holds at any    *)
(* moment.                                                                   *)
THEOREM Invariance == Spec => []IInv
BY InitIInv, IInvStep, PTL DEF Spec

(* However calls race, are dropped or fail, the counters are the ballots.    *)
THEOREM CountsHold == Spec => []CountsAreBallots
<1>1. IInv => CountsAreBallots
    BY DEF IInv
<1> QED
    BY <1>1, Invariance, PTL

(* The quorum counts users other than the proposer, because the proposer     *)
(* never has a ballot.                                                       *)
LEMMA QuorumFromCounts == IInv => WeightsFromQuorum
<1> SUFFICES ASSUME IInv, NEW d \in AllDims, source[d] # NoVote
             PROVE  /\ Cardinality(Said(source[d], "agree") \ {ProposerOf[source[d]]}) >= MinAgree
                    /\ weight[d] = Renormalize(source[d])[d]
    BY DEF WeightsFromQuorum, IInv, SourcesAreAgreed
<1>1. source[d] \in Votes
    BY DEF IInv, TypeOK
<1>2. /\ agree[source[d]] = Cardinality(Said(source[d], "agree"))
      /\ ballots[source[d]][ProposerOf[source[d]]] = "none"
    BY <1>1 DEF IInv, CountsAreBallots
<1>3. Said(source[d], "agree") \ {ProposerOf[source[d]]} = Said(source[d], "agree")
    BY <1>2 DEF Said
<1> QED
    BY <1>2, <1>3 DEF IInv, SourcesAreAgreed

(* A weight in force is the bootstrap's or has a quorum behind it.           *)
THEOREM QuorumHolds == Spec => []WeightsFromQuorum
BY Invariance, QuorumFromCounts, PTL

-----------------------------------------------------------------------------
(***************************************************************************)
(* A vote that says applied is in the history of every dimension.  The     *)
(* loop of apply_vote has logged the dimensions before the one it is at,   *)
(* and rows of the history are only ever added.                            *)
(***************************************************************************)
Logged(v, d) == \E i \in DOMAIN history[d] : history[d][i].vote = v

LoopLogged(c) ==
    /\ c.pc \in {"read", "upsert", "log"} =>
           \A d \in AllDims : d < c.dim => Logged(c.vote, d)
    /\ c.pc = "mark" => \A d \in AllDims : Logged(c.vote, d)

LInv ==
    /\ TypeOK
    /\ AppliedIsLogged
    /\ \A w \in Workers : LoopLogged(call[w])

(* The statement an application of v to dimension d adds a row with.          *)
LEMMA LogKeepsLogged ==
    ASSUME TypeOK, NEW e \in AllDims, NEW row \in [old : 0 .. Total, new : 0 .. Total, vote : Votes],
           history' = [history EXCEPT ![e] = Append(@, row)]
    PROVE  /\ \A v : \A d \in AllDims : Logged(v, d) => Logged(v, d)'
           /\ Logged(row.vote, e)'
<1> DEFINE Rows == [old : 0 .. Total, new : 0 .. Total, vote : Votes]
           h == history[e]
<1>1. history \in [AllDims -> Seq(Rows)] /\ h \in Seq(Rows)
    BY DEF TypeOK
<1>2. /\ history'[e] = Append(h, row)
      /\ \A d \in AllDims \ {e} : history'[d] = history[d]
    BY <1>1
<1> HIDE DEF Rows
<1>3. /\ Len(h) \in Nat /\ DOMAIN h = 1 .. Len(h)
      /\ DOMAIN Append(h, row) = 1 .. (Len(h) + 1)
      /\ \A i \in 1 .. Len(h) : Append(h, row)[i] = h[i]
      /\ Append(h, row)[Len(h) + 1] = row
    BY <1>1 DEF Rows
<1> HIDE DEF h
<1>4. Logged(row.vote, e)'
    BY <1>2, <1>3 DEF Logged
<1>5. ASSUME NEW v, NEW d \in AllDims, Logged(v, d) PROVE Logged(v, d)'
    <2>1. CASE d = e
        <3>1. PICK i \in 1 .. Len(h) : h[i].vote = v
            BY <1>3, <1>5, <2>1 DEF Logged, h
        <3>2. i \in 1 .. (Len(h) + 1) /\ Append(h, row)[i].vote = v
            BY <1>3, <3>1
        <3> QED
            BY <1>2, <1>3, <2>1, <3>2 DEF Logged
    <2>2. CASE d # e
        BY <1>2, <1>5, <2>2 DEF Logged
    <2> QED
        BY <2>1, <2>2
<1> QED
    BY <1>4, <1>5

(* A step that writes neither a status nor the history, and moves w to a     *)
(* statement the loop may be at.                                             *)
LEMMA LoopMoved ==
    ASSUME LInv, NEW w \in Workers, NEW next, Continue(w, next), UNCHANGED <<status, history>>,
           LoopLogged(next)
    PROVE  AppliedIsLogged' /\ \A x \in Workers : LoopLogged(call[x])'
<1>1. call'[w] = next /\ \A x \in Workers \ {w} : call'[x] = call[x]
    BY DEF Continue, LInv, TypeOK
<1>2. \A c : LoopLogged(c) => /\ c.pc \in {"read", "upsert", "log"} =>
                                     \A d \in AllDims : d < c.dim => Logged(c.vote, d)'
                              /\ c.pc = "mark" => \A d \in AllDims : Logged(c.vote, d)'
    BY DEF LoopLogged, Logged
<1>3. \A x \in Workers : LoopLogged(call[x])'
    BY <1>1, <1>2 DEF LInv, LoopLogged
<1>4. AppliedIsLogged'
    BY DEF LInv, AppliedIsLogged
<1> QED
    BY <1>3, <1>4

LEMMA LoopLeft ==
    ASSUME LInv, NEW w \in Workers, Return(w), UNCHANGED <<status, history>>
    PROVE  AppliedIsLogged' /\ \A x \in Workers : LoopLogged(call[x])'
<1>1. LoopLogged(Idle)
    BY DEF LoopLogged, Idle
<1> QED
    BY <1>1, LoopMoved DEF Return

LEMMA LInvStep == LInv /\ [Next]_vars => LInv'
<1> SUFFICES ASSUME LInv, [Next]_vars PROVE LInv'
    OBVIOUS
<1> DEFINE Goal == AppliedIsLogged' /\ \A x \in Workers : LoopLogged(call[x])'
<1>0. TypeOK /\ TypeOK' /\ call \in [Workers -> Calls]
    BY TypeStep DEF LInv, TypeOK
<1> USE DEF polls
<1>1. ASSUME NEW w \in Workers, NEW v \in Votes, Propose(w, v) PROVE Goal
    BY <1>1, LoopMoved DEF Propose, Call, LoopLogged
<1>2. ASSUME NEW w \in Workers, CheckCooldown(w) PROVE Goal
    <2>1. LoopLogged(Call("propose", call[w].vote))
        BY DEF Call, LoopLogged
    <2> QED
        BY <1>2, <2>1, LoopMoved, LoopLeft DEF CheckCooldown
<1>3. ASSUME NEW w \in Workers, InsertVote(w) PROVE Goal
    <2>1. /\ status' = [status EXCEPT ![call[w].vote] = "pending"]
          /\ history' = history
          /\ call' = [call EXCEPT ![w] = Idle]
        BY <1>3 DEF InsertVote, Return, Continue
    <2>2. \A v \in Votes : status'[v] = "applied" => status[v] = "applied"
        BY <1>0, <2>1 DEF TypeOK
    <2>3. AppliedIsLogged'
        BY <2>1, <2>2 DEF LInv, AppliedIsLogged
    <2>4. \A x \in Workers : call'[x] = call[x] \/ call'[x] = Idle
        BY <1>0, <2>1
    <2>5. \A x \in Workers : LoopLogged(call[x])'
        BY <2>1, <2>4 DEF LInv, LoopLogged, Logged, Idle
    <2> QED
        BY <2>3, <2>5
<1>4. ASSUME NEW w \in Workers, NEW v \in Votes, NEW u \in Users, NEW c \in Choices,
             Ballot(w, v, u, c)
      PROVE  Goal
    <2>1. LoopLogged([pc |-> "check", vote |-> v, user |-> u, choice |-> c])
        BY DEF LoopLogged
    <2> QED
        BY <1>4, <2>1, LoopMoved DEF Ballot
<1>5. ASSUME NEW w \in Workers, CheckVoter(w) PROVE Goal
    <2>1. call[w] \in [pc : {"check", "cast"}, vote : Votes, user : Users, choice : Choices]
        BY <1>0, <1>5, CallShapes DEF CheckVoter
    <2>2. LoopLogged([call[w] EXCEPT !.pc = "cast"])
        BY <2>1 DEF LoopLogged
    <2> QED
        BY <1>5, <2>2, LoopMoved, LoopLeft DEF CheckVoter
<1>6. ASSUME NEW w \in Workers, CastBallot(w) PROVE Goal
    <2> DEFINE next == [pc |-> "tally", vote |-> call[w].vote,
                        yes |-> agree'[call[w].vote], no |-> disagree'[call[w].vote]]
    <2>1. /\ UNCHANGED <<status, history>>
          /\ Return(w) \/ Continue(w, next)
        BY <1>6 DEF CastBallot
    <2>2. LoopLogged(next)
        BY DEF LoopLogged
    <2> QED
        BY <2>1, <2>2, LoopMoved, LoopLeft
<1>7. ASSUME NEW w \in Workers, Tally(w) PROVE Goal
    <2>1. LoopLogged([pc |-> "read", vote |-> call[w].vote, dim |-> 1])
        BY ConstantsAssumption DEF LoopLogged, AllDims
    <2> QED
        BY <1>7, <2>1, LoopMoved, LoopLeft DEF Tally
<1>8. ASSUME NEW w \in Workers, ReadOldWeight(w) PROVE Goal
    <2>1. LoopLogged([pc |-> "upsert", vote |-> call[w].vote, dim |-> call[w].dim,
                      old |-> weight[call[w].dim]])
        BY <1>8 DEF LInv, LoopLogged, ReadOldWeight
    <2> QED
        BY <1>8, <2>1, LoopMoved DEF ReadOldWeight
<1>9. ASSUME NEW w \in Workers, UpsertWeight(w) PROVE Goal
    <2>1. call[w] \in [pc : {"upsert", "log"}, vote : Votes, dim : AllDims, old : 0 .. Total]
        BY <1>0, <1>9, CallShapes DEF UpsertWeight
    <2>2. LoopLogged([call[w] EXCEPT !.pc = "log"])
        BY <1>9, <2>1 DEF LInv, LoopLogged, UpsertWeight
    <2> QED
        BY <1>9, <2>2, LoopMoved DEF UpsertWeight
<1>10. ASSUME NEW w \in Workers, InsertHistory(w) PROVE Goal
    <2> DEFINE c == call[w]
               row == [old |-> c.old, new |-> Renormalize(c.vote)[c.dim], vote |-> c.vote]
               next == IF c.dim = Dims THEN Call("mark", c.vote)
                                       ELSE [pc |-> "read", vote |-> c.vote, dim |-> c.dim + 1]
    <2>1. c.pc = "log"
          /\ c \in [pc : {"upsert", "log"}, vote : Votes, dim : AllDims, old : 0 .. Total]
        BY <1>0, <1>10, CallShapes DEF InsertHistory
    <2>2. c.vote \in Votes /\ c.dim \in AllDims /\ c.old \in 0 .. Total
        BY <2>1
    <2>3. row \in [old : 0 .. Total, new : 0 .. Total, vote : Votes] /\ row.vote = c.vote
        BY <2>2, RenormalizeType
    <2>4. /\ history' = [history EXCEPT ![c.dim] = Append(@, row)]
          /\ Continue(w, next)
          /\ status' = status
        BY <1>10 DEF InsertHistory
    <2>5. \A d \in AllDims : d < c.dim => Logged(c.vote, d)
        BY <2>1 DEF LInv, LoopLogged
    <2>6. /\ next.vote = c.vote
          /\ c.dim = Dims => next.pc = "mark"
          /\ c.dim # Dims => next.pc = "read" /\ next.dim = c.dim + 1
        BY DEF Call
    <2> HIDE DEF c, row, next
    <2>a. PICK p \in Votes, e \in AllDims, r \in [old : 0 .. Total, new : 0 .. Total, vote : Votes] :
              p = c.vote /\ e = c.dim /\ r = row
        BY <2>2, <2>3
    <2>7. /\ \A v : \A d \in AllDims : Logged(v, d) => Logged(v, d)'
          /\ Logged(p, e)'
        <3>1. history' = [history EXCEPT ![e] = Append(@, r)] /\ r.vote = p
            BY <2>3, <2>4, <2>a
        <3>2. Logged(r.vote, e)' <=> Logged(p, e)'
            BY <3>1
        <3> QED
            BY <1>0, <3>1, <3>2, LogKeepsLogged
    <2>8. /\ call'[w] = next
          /\ \A x \in Workers \ {w} : call'[x] = call[x]
        BY <1>0, <2>4 DEF Continue
    <2>9. \A d \in AllDims : d <= e => Logged(p, d)'
        <3> SUFFICES ASSUME NEW d \in AllDims, d <= e PROVE Logged(p, d)'
            OBVIOUS
        <3>1. d = e \/ d < e
            BY ConstantsAssumption DEF AllDims
        <3> QED
            BY <2>5, <2>7, <2>a, <3>1
    <2>10. LoopLogged(call[w])'
        <3>1. CASE e = Dims
            <4>1. \A d \in AllDims : d <= e
                BY <3>1, ConstantsAssumption DEF AllDims
            <4>2. call'[w].pc = "mark" /\ call'[w].vote = p
                BY <2>6, <2>8, <2>a, <3>1
            <4> QED
                BY <2>9, <4>1, <4>2 DEF LoopLogged, Logged
        <3>2. CASE e # Dims
            <4>1. \A d \in AllDims : d < e + 1 => d <= e
                BY ConstantsAssumption DEF AllDims
            <4>2. call'[w].pc = "read" /\ call'[w].vote = p /\ call'[w].dim = e + 1
                BY <2>6, <2>8, <2>a, <3>2
            <4> QED
                BY <2>9, <4>1, <4>2 DEF LoopLogged, Logged
        <3> QED
            BY <3>1, <3>2
    <2>11. ASSUME NEW x \in Workers, x # w PROVE LoopLogged(call[x])'
        <3>1. call'[x] = call[x] /\ LoopLogged(call[x])
            BY <2>8, <2>11 DEF LInv
        <3> QED
            BY <2>7, <3>1 DEF LoopLogged
    <2>12. AppliedIsLogged'
        <3>1. \A v \in Votes : status[v] = "applied" => \A d \in AllDims : Logged(v, d)
            BY DEF LInv, AppliedIsLogged, Logged
        <3>2. \A v \in Votes : status[v] = "applied" => \A d \in AllDims : Logged(v, d)'
            BY <2>7, <3>1
        <3> QED
            BY <2>4, <3>2 DEF AppliedIsLogged, Logged
    <2> QED
        BY <2>10, <2>11, <2>12
<1>11. ASSUME NEW w \in Workers, MarkApplied(w) PROVE Goal
    <2> DEFINE v == call[w].vote
    <2>1. /\ call[w].pc = "mark"
          /\ \A u \in Votes \ {v} : status'[u] = status[u]
          /\ history' = history
          /\ call' = [call EXCEPT ![w] = Idle]
        BY <1>0, <1>11 DEF MarkApplied, TypeOK, Return, Continue
    <2>2. \A d \in AllDims : Logged(v, d)
        BY <2>1 DEF LInv, LoopLogged
    <2>3. AppliedIsLogged'
        BY <2>1, <2>2 DEF LInv, AppliedIsLogged, Logged
    <2>4. \A x \in Workers : call'[x] = call[x] \/ call'[x] = Idle
        BY <1>0, <2>1
    <2>5. \A x \in Workers : LoopLogged(call[x])'
        BY <2>1, <2>4 DEF LInv, LoopLogged, Logged, Idle
    <2> QED
        BY <2>3, <2>5
<1>12. ASSUME NEW w \in Workers, Fail(w) PROVE Goal
    BY <1>12, LoopLeft DEF Fail
<1>13. ASSUME UNCHANGED <<status, history, call>> PROVE Goal
    BY <1>13 DEF LInv, AppliedIsLogged, LoopLogged, Logged
<1>14. (\E d \in AllDims : Thaw(d)) \/ (\E u \in Users : ChangeEligibility(u)) \/ UNCHANGED vars
       => UNCHANGED <<status, history, call>>
    BY DEF Thaw, ChangeEligibility, vars
<1> HIDE DEF Goal
<1>15. Goal
    BY <1>1, <1>2, <1>3, <1>4, <1>5, <1>6, <1>7, <1>8, <1>9, <1>10, <1>11, <1>12, <1>13, <1>14
       DEF Next, Advance
<1> QED
    BY <1>0, <1>15 DEF Goal, LInv

(* A failure half-way through apply_vote never leaves an applied vote that a *)
(* dimension's history does not name, however applications overlap.          *)
THEOREM LogHolds == Spec => []AppliedIsLogged
<1>1. Init => LInv
    <2> SUFFICES ASSUME Init PROVE LInv
        OBVIOUS
    <2>1. \A w \in Workers : LoopLogged(call[w])
        BY DEF Init, Idle, LoopLogged
    <2>2. AppliedIsLogged
        BY DEF Init, AppliedIsLogged
    <2> QED
        BY <2>1, <2>2, InitType DEF LInv
<1>2. LInv => AppliedIsLogged
    BY DEF LInv
<1> QED
    BY <1>1, <1>2, LInvStep, PTL DEF Spec
=============================================================================
